\* Every front end, with one listed table.
CONSTANTS
    Requests <- SomeRequests
    Whitelist = {"users", "no-table", "from", "resource"}
    TableMap <- AppTables
    Identifiers <- Names
SPECIFICATION Spec
CHECK_DEADLOCK FALSE
INVARIANTS
    ExplicitRequestsAgree
    RootRequestsAgree
    OnlyListedTables
