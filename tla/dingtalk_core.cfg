SPECIFICATION FairSpec
CONSTANTS
    t1 = t1
    t2 = t2
    r1 = r1
    l1 = l1
    l2 = l2
    g1 = g1
    NoLoad = NoLoad
    Turns <- TwoTurns
    Requests <- OneRequest
    Loads <- TwoLoads
    Grants <- OneGrant
    Fields <- SomeFields
    Values <- SomeValues
    Updates <- SomeUpdates
    StoreMayFail = TRUE
INVARIANTS
    TypeOK
    MemoryMatchesStore
    AtMostOneLazyLoad
PROPERTIES
    NoRespawn
    EnsureBringsTools
    TurnsReturn
