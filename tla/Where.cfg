\* Plain and odd clauses on every row, and clauses that two builders make, through
\* both transpilers.
CONSTANTS
    f = f
    g = g
    Null = Null
    Fields <- TwoFields
    Clauses <- AllClauses
    Depth <- Height
    Rows <- AllRows
    Sql3 <- Sql
    MongoSelects <- Mongo
    Builders = {this, other}
    Nil = Nil
    CallersMap = CallersMap
    Maps <- SomeMaps
    Conditions <- SomeConditions
    CallBound = 3
SPECIFICATION BuildSpec
CHECK_DEADLOCK FALSE
INVARIANTS
    ArgumentsFollowPlaceholders
    PlainClausesAgree
    SqlRowsAreMongoRows
    RefusedAlike
    BuiltClauseSaysItsCalls
