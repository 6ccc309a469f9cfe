\* Two clients create, update and delete what the other is updating and deleting,
\* while hooks and driver calls fail.
CONSTANTS
    r1 = r1
    r2 = r2
    r3 = r3
    o1 = o1
    o2 = o2
    v1 = v1
    v2 = v2
    NoId = NoId
    TextId = TextId
    Adapters = {"native", "http"}
    Req <- TwoClients
    Origins <- BothOrigins
    Vals = {v1, v2}
    Inputs <- AllInputs
    Stored <- TwoDocs
    Faults = {"hook", "driver"}
SPECIFICATION FairSpec
INVARIANTS
    TypeOK
    GeneratedIdsCollideOnlyInOverlap
    UpdateAnswerIsExplained
    LoneDeleteIsExact
    MutationsMissNothing
    DeletionsAddUp
PROPERTIES
    EveryRequestAnswered
