\* Trees of three includes: filters and aggregates, and names that collide.
CONSTANTS
    a = a
    b = b
    c = c
    sum = sum
    max = max
    Root = Root
    Node <- ThreeNodes
    Aggs = {sum, max}
    RootTable <- Users
    Queries <- AllQueries
SPECIFICATION Spec
CHECK_DEADLOCK FALSE
INVARIANTS
    EveryPlaceholderHasOneArgument
    MisorderedExactlyAfterFilter
    ParentsJoinedFirst
    SimpleNamesHaveUniqueAliases
