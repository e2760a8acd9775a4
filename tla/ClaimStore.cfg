SPECIFICATION StoreSpec
CONSTANTS
    Decisions = {"d1", "d2"}
    Workflows = {"w1", "w2"}
    Runs = {"r1", "r2"}
INVARIANT
    ClaimsTypeOK
PROPERTIES
    FencedForGood
    ConfirmedIsFinal
    NeverStolen
