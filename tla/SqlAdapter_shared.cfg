\* Three clients on a table without a unique id: creates with and without an id,
\* updates, deletes and reads, over drivers, replies and streams that fail.
CONSTANTS
    r1 = r1
    r2 = r2
    r3 = r3
    v1 = v1
    v2 = v2
    NoId = NoId
    o1 = o1
    o2 = o2
    Origins = {o1, o2}
    Req <- Clients
    Keys = {1, 2, 3, 4}
    Vals = {v1, v2}
    Inputs <- SharedInputs
    Stored <- TwoRows
    PoolSize = 2
    UniqueIds = FALSE
    Returning = FALSE
    Faults = {"driver", "lost", "stream"}
SPECIFICATION Spec
INVARIANTS
    TypeOK
    IInv
    GeneratedIdsCollideOnlyInOverlap
    ReadsSeeEarlierWrites
    SuccessIsTrue
SYMMETRY Symmetry
