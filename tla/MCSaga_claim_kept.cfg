SPECIFICATION Spec
CONSTANTS
    r1 = r1
    Runs = {r1}
    Workflows = {"w1"}
    Targets = {"NODE"}
    Decisions = {"NODE"}
    ForgedRequests = FALSE
    Requests <- MCRequests
    IngressRecord <- MCIngressRecord
    NoRecord = NoRecord
    NilSnapshot = NilSnapshot
    Policies <- MCPolicies
    MaximumAttempts = 1
    reconcileFirstWait = 1
    reconcileMaxWait = 1
    reconcileWindow = 1
    MaxElapsed = 1
    MaxLate = 1
    Events = {"cancel"}
CHECK_DEADLOCK FALSE
INVARIANTS
    EveryExitReturnsTheClaim
