SPECIFICATION FairSpec
CONSTANTS
    r1 = r1
    Runs = {r1}
    Workflows = {"w1"}
    Targets = {"LOST_RESPONSE_NODE", "PARTITIONED_NODE", "FAILING_NODE"}
    Decisions = {"LOST_RESPONSE_NODE", "PARTITIONED_NODE", "FAILING_NODE"}
    ForgedRequests = FALSE
    Requests <- MCRequests
    IngressRecord <- MCIngressRecord
    NoRecord = NoRecord
    NilSnapshot = NilSnapshot
    Policies <- MCPolicies
    MaximumAttempts = 2
    reconcileFirstWait = 1
    reconcileMaxWait = 2
    reconcileWindow = 3
    MaxElapsed = 1
    MaxLate = 1
    Events = {"fault", "timeout", "delay", "restart", "cancel"}
CHECK_DEADLOCK FALSE
INVARIANTS
    CompletedIsTrue
    ReconcilesOnSchedule
PROPERTY
    RunsClose
