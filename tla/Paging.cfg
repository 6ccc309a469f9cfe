\* Every combination of limit, skip and offset in every dialect, and queries of all
\* kinds against several schemas; numbers in all spellings around the limits of float64
\* (8 here) and int (31).
CONSTANTS
    Absent = Absent
    Null = Null
    NoSchema = NoSchema
    Identifiers = {"a", "b", "c"}
    RowCount = 3
    Huge = 1000
    Exact = 8
    MaxInt = 31
    Families <- AllFamilies
    ParseBound = 2
SPECIFICATION Spec
CHECK_DEADLOCK FALSE
INVARIANTS
    PageIsTheSlice
    OnlyTheEmptyPageFails
    ReparseGivesTheSame
    PagesAreCapped
    WaysInAgree
    NestingIsCapped
