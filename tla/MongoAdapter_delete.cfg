\* The documents a delete reports against those it deleted.
CONSTANTS
    r1 = r1
    r2 = r2
    r3 = r3
    o1 = o1
    o2 = o2
    v1 = v1
    v2 = v2
    NoId = NoId
    TextId = TextId
    Adapters = {"native"}
    Req <- TwoClients
    Origins <- BothOrigins
    Vals = {v1, v2}
    Inputs <- AllInputs
    Stored <- TwoDocs
    Faults = {}
SPECIFICATION Spec
INVARIANTS
    DeleteReturnsDeleted
