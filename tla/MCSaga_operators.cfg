SPECIFICATION Spec
CONSTANTS
    r1 = r1
    r2 = r2
    Runs = {r1, r2}
    Workflows = {"w1"}
    Targets = {"NODE", "FAILING_NODE", "LOST_RESPONSE_NODE", "UNREACHABLE_NODE", "PARTITIONED_NODE"}
    Decisions = {"NODE", "FAILING_NODE", "LOST_RESPONSE_NODE", "UNREACHABLE_NODE", "PARTITIONED_NODE"}
    ForgedRequests = FALSE
    Requests <- MCRequests
    IngressRecord <- MCIngressRecord
    NoRecord = NoRecord
    NilSnapshot = NilSnapshot
    Policies <- MCPolicies
    MaximumAttempts = 1
    reconcileFirstWait = 1
    reconcileMaxWait = 1
    reconcileWindow = 0
    MaxElapsed = 0
    MaxLate = 2
    Events = {"cancel", "terminate", "reset"}
CONSTRAINT OneDecision
SYMMETRY RunSymmetry
CHECK_DEADLOCK FALSE
INVARIANTS
    FenceInv
    AtMostOneDispatch
    UnfencedNotCalled
    FenceRowMeansNotCalled
PROPERTIES
    ExecutesOnce
    UsesStore
