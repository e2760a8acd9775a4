SPECIFICATION FairSpec
CONSTANTS
    Calls = {"d1", "d2"}
    KeySpecs <- MCKeySpecs
    Presented = {"k1", "k2", ""}
    AgentNames = {"a1", "a2"}
    GoodKeys = {"k1", "k2"}
    NoAgent = NoAgent
    Bodies <- MCBodies
    Garbage = Garbage
    Oversized = Oversized
    ProposalIds = {"p1"}
    Envelopes = {"e1", "e2"}
    Zero = Zero
    Policies <- MCPolicies
    NilSnapshot = NilSnapshot
CHECK_DEADLOCK FALSE
INVARIANTS
    TypeOK
    StartsAreBacked
    AnswersAreTrue
    RecordsAreOfTheRequest
    IdentityIsTheKeys
    SlotsAreAccounted
    EnvelopesAreExclusive
PROPERTY
    EveryCallIsAnswered
