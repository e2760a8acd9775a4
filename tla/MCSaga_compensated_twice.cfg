SPECIFICATION Spec
CONSTANTS
    r1 = r1
    r2 = r2
    Runs = {r1, r2}
    Workflows = {"w1"}
    Targets = {"FAILING_NODE"}
    Decisions = {"FAILING_NODE"}
    ForgedRequests = FALSE
    Requests <- MCRequests
    IngressRecord <- MCIngressRecord
    NoRecord = NoRecord
    NilSnapshot = NilSnapshot
    Policies <- MCPolicies
    MaximumAttempts = 1
    reconcileFirstWait = 1
    reconcileMaxWait = 1
    reconcileWindow = 1
    MaxElapsed = 1
    MaxLate = 1
    Events = {"reset"}
SYMMETRY RunSymmetry
CHECK_DEADLOCK FALSE
INVARIANTS
    CompensatedOnce
