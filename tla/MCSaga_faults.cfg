SPECIFICATION Spec
CONSTANTS
    r1 = r1
    r2 = r2
    Runs = {r1, r2}
    Workflows = {"w1", "w2"}
    Targets = {"NODE", "FAILING_NODE", "LOST_RESPONSE_NODE", "UNREACHABLE_NODE", "PARTITIONED_NODE"}
    Decisions = {"NODE", "FAILING_NODE", "LOST_RESPONSE_NODE", "UNREACHABLE_NODE", "PARTITIONED_NODE"}
    ForgedRequests = TRUE
    Requests <- MCRequests
    IngressRecord <- MCIngressRecord
    NoRecord = NoRecord
    NilSnapshot = NilSnapshot
    Policies <- MCPolicies
    MaximumAttempts = 2
    reconcileFirstWait = 1
    reconcileMaxWait = 1
    reconcileWindow = 1
    MaxElapsed = 1
    MaxLate = 1
    Events = {"fault", "reload"}
CONSTRAINT OneDecision
SYMMETRY RunSymmetry
CHECK_DEADLOCK FALSE
INVARIANTS
    TypeOK
    DispatchBacked
    CompleteRowIsTrue
    CompensatedOnce
    RefusedDoesNotHold
