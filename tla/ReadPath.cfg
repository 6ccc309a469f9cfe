\* Six databases, with and without a file, loaded twice, and queries on them.
CONSTANTS
    x = x
    y = y
    Null = Null
    Default = Default
    Everything = Everything
    NoKey = ""
    Name <- Names
    Stem <- StemOf
    Databases <- Small
    Files <- SomeFiles
    Decoded <- Read
    Queries <- QueriesOf
SPECIFICATION Spec
CHECK_DEADLOCK FALSE
INVARIANTS
    RelationsHaveASource
    ForeignKeysAreRelations
    KeyedQueriesNest
    NothingInventedOrLost
    LimitsCountObjects
