CONSTANTS
    Base = 3
    Proposals = {1, 2}
    MaxRuns = 2
    MaxNow = 9
SPECIFICATION Spec
INVARIANT ListedInInsertionOrder
CHECK_DEADLOCK FALSE
