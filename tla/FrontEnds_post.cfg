\* The request of the Quick Start, at every front end.
CONSTANTS
    Requests <- SomeRequests
    Whitelist = {"users", "no-table", "from", "resource"}
    TableMap <- AppTables
    Identifiers <- Names
SPECIFICATION Spec
CHECK_DEADLOCK FALSE
INVARIANTS
    PostWithoutDataIsAQuery
