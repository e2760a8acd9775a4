SPECIFICATION Spec
CONSTANTS
    Documents <- ManyDocuments
    Unreadable = Unreadable
    Malformed = Malformed
    NoPolicy = NoPolicy
    NilSnapshot = NilSnapshot
    ValidNames = {"v1", "dev", "prod", "c1", "c2", "a1", "a2", "t1", "t2"}
    MaxParallelLimit = 1
    Clients = {}
    MaxEdits = 1
    Agents <- MCAgents
    Proposals <- MCProposals
CHECK_DEADLOCK FALSE
INVARIANT
    VerdictMatchesDocument
PROPERTY
    TighteningOnlyDenies
