SPECIFICATION FairSpec
CONSTANTS
    r1 = r1
    r2 = r2
    r3 = r3
    Requests = {r1, r2, r3}
    WithCallback = {r1, r2}
    Workers = {w1, w2}
    NoRequest = NoRequest
    MaxDepth = 2
INVARIANTS
    TypeOK
    TokensCover
    OneOwner
    CompletedOnce
    NoLostCompletion
PROPERTIES
    EveryRequestCompletes
    DestroyReturns
CHECK_DEADLOCK FALSE
