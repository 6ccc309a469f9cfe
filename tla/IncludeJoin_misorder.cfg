\* The arguments against the placeholders they are for.
CONSTANTS
    a = a
    b = b
    c = c
    sum = sum
    max = max
    Root = Root
    Node <- ThreeNodes
    Aggs = {sum, max}
    RootTable <- Users
    Queries <- ArgQueries
SPECIFICATION Spec
CHECK_DEADLOCK FALSE
INVARIANTS
    FiltersGetTheirValues
