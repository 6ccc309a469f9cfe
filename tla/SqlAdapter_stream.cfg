\* The connection may break while a query reads its rows.
CONSTANTS
    r1 = r1
    r2 = r2
    r3 = r3
    v1 = v1
    v2 = v2
    NoId = NoId
    o1 = o1
    o2 = o2
    Origins = {o1, o2}
    Req <- TwoClients
    Keys = {1, 2, 3, 4}
    Vals = {v1, v2}
    Inputs <- AllInputs
    Stored <- OneRow
    PoolSize = 2
    UniqueIds = TRUE
    Returning = TRUE
    Faults = {"stream"}
SPECIFICATION Spec
INVARIANTS
    BrokenStreamIsReported
