-------------------------------- MODULE Paging --------------------------------
(***************************************************************************)
(* A query on its way from its body to its rows: Parser.Parse and ParseJSON *)
(* (parser.go) with the validator of Validator.tla, then limit, skip and    *)
(* offset through Transpile (transpiler.go and mongo_transpiler.go) and     *)
(* GetLimitOffset of each dialect (dialect.go).                             *)
(*                                                                         *)
(* Parse rewrites the caller's own map, so what a second Parse of that map *)
(* gives is part of the question.  What the databases do with the clause is *)
(* external.                                                               *)
(***************************************************************************)
EXTENDS Validator

CONSTANTS
    Null,           \* its value is null; also a nil pointer and a missing clause
    NoSchema,       \* Parse is given no schema
    RowCount,       \* how many rows the query matches
    Huge,           \* MySQL's 18446744073709551615
    Exact,          \* 2^53: up to here every integer is a float64
    MaxInt,         \* 2^63 - 1, the largest int
    Families,       \* the bodies and settings tried: sets of each, all combined
    ParseBound      \* how often one map is parsed

ASSUME SentinelsAreNoNumbers == Absent \notin Int /\ Null \notin Int /\ Absent # Null
ASSUME HugeIsHuge == RowCount \in Nat /\ Huge \in Nat /\ Huge > RowCount
ASSUME ParseBoundTyped == ParseBound \in Nat \ {0}
ASSUME IntsAreWide == Exact \in Nat /\ MaxInt \in Nat /\ Exact < MaxInt /\ MaxInt < 1024 * Exact

\* What can be in a body and in the settings.  `floats' are the keys whose integer has
\* a point or an exponent in JSON (2.0, 2e0); what is no integer at all is refused by
\* everybody and left out.  An include that has includes has an "include".
Number == Int \cup {Absent, Null}
Page == [limit : Number, skip : Number, offset : Number,
         json : BOOLEAN, floats : SUBSET {"limit", "skip", "offset"}]
Path == Seq(STRING) \ {<< >>}
Include == [paths : SUBSET Path, fields : SUBSET Path, opened : SUBSET Path]
Asking == [unknown : BOOLEAN, fields : {Absent} \cup SUBSET STRING, where : SUBSET STRING,
           sort : SUBSET STRING, groupBy : SUBSET STRING,
           aggregate : SUBSET (STRING \X STRING), include : Include]
Options == [dialect : {"postgres", "sqlite", "mysql", "mssql", "mongodb"},
            maxLimit : Int, maxNesting : Int,
            allowedFields : SUBSET STRING, allowedIncludes : SUBSET STRING]
Settings == [allowAggregate : BOOLEAN, maxDepth : Int]
IsTree(include) ==
    /\ IsFiniteSet(include.paths)
    /\ include.opened \subseteq include.paths
    /\ \A p \in include.paths : \A k \in 1 .. Len(p) - 1 : SubSeq(p, 1, k) \in include.opened

ASSUME FamiliesTyped == \A family \in Families :
    /\ family.pages \subseteq Page
    /\ family.asks \subseteq Asking /\ \A a \in family.asks : IsTree(a.include)
    /\ family.options \subseteq Options
    /\ \A s \in family.schemas \ {NoSchema} :
          /\ DOMAIN s = {"hasTable", "settings", "fields", "relations"}
          /\ s.hasTable \in BOOLEAN /\ s.settings \in Settings

VARIABLES
    input,      \* the keys of the caller's map that page.  `json' says that it was
                \* decoded from JSON: its numbers are float64, which a map made in
                \* Go need not have
    asks,       \* what else it asks for, and whether it has an unknown key
    options,    \* the parser's options and the dialect
    schema,     \* what the validator knows of the table
    stage,      \* how far the query has come
    query,      \* its Limit and Offset pointers
    clause,     \* the ORDER BY, LIMIT and OFFSET of the statement
    page,       \* the rows it yields
    parses,     \* how often the map was parsed, and what the first time gave
    direct      \* what ParseJSON, and then ValidateAll, made of the body

given == <<asks, options, schema>>
vars == <<input, given, stage, query, clause, page, parses, direct>>

IsNumber(x) == x # Absent /\ x # Null
Negative(x) == IsNumber(x) /\ x < 0

NoQuery == [limit |-> Null, offset |-> Null]
NoClause == [order |-> FALSE, limit |-> Null, offset |-> Null]
Rows == [n \in 1 .. RowCount |-> n]

Init ==
    /\ \E family \in Families :
          /\ input \in family.pages /\ asks \in family.asks
          /\ options \in family.options /\ schema \in family.schemas
    /\ stage = "received"
    /\ query = NoQuery
    /\ clause = NoClause
    /\ page = << >>
    /\ parses = [count |-> 0, stage |-> "received", query |-> NoQuery]
    /\ direct = [stage |-> "received", query |-> NoQuery, body |-> input, errors |-> {}]
-----------------------------------------------------------------------------
\* (Mutant: skip replaces offset even when it is absent.)
NormalisedAlways(i) == [i EXCEPT !.skip = Absent, !.offset = i.skip]

\* skip becomes offset unless there is one, and goes away.
Normalised(i) ==
    [i EXCEPT !.skip = Absent,
              !.offset = IF i.offset = Absent THEN i.skip ELSE i.offset]

\* doParse refuses these before it rewrites anything.
RefusedAtOnce(a) == a.unknown \/ a.fields = {}

\* (Mutant: MaxLimit is not looked at.)
InvalidUncapped(i, a, o) == Negative(i.limit) \/ OptionsRefuse(a, o) \/ Malformed(a)

\* Parser.Validate looks at Limit but not at Offset.
Invalid(i, a, o) ==
    \/ Negative(i.limit)
    \/ o.maxLimit > 0 /\ IsNumber(i.limit) /\ i.limit > o.maxLimit
    \/ OptionsRefuse(a, o)
    \/ Malformed(a)

\* The float64 nearest to a number: between Exact and twice Exact every second integer
\* is one, up to four times Exact every fourth, and so on; of two that are as near, the
\* even multiple.  (What doParse refuses anyway need not be exact.)
Spacings == {2, 4, 8, 16, 32, 64, 128, 256, 512, 1024}
Spacing(n) == CHOOSE s \in Spacings : n <= Exact * s /\ \A t \in Spacings : t < s => n > Exact * t
Nearest(n, s) ==
    LET below == n \div s
        up == 2 * (n % s) > s \/ (2 * (n % s) = s /\ below % 2 = 1)
    IN  IF up THEN (below + 1) * s ELSE below * s
Float64(n) == IF n <= Exact \/ n > MaxInt THEN n ELSE Nearest(n, Spacing(n))

\* The numbers that doParse marshals: a map decoded from JSON has float64s, written
\* without a point whatever the spelling was.
Float(x) == IF IsNumber(x) THEN Float64(x) ELSE x
Marshalled(i) ==
    IF i.json THEN [i EXCEPT !.limit = Float(@), !.offset = Float(@)] ELSE i

\* Unmarshalling refuses what is too large for the int behind a pointer.
TooLarge(x) == IsNumber(x) /\ x > MaxInt
Overflows(i) == TooLarge(i.limit) \/ TooLarge(i.offset)

\* The rest of doParse.  Only a float64 is refused for an offset below zero.
Refused(i) ==
    \/ i.json /\ Negative(i.offset)
    \/ Overflows(Marshalled(i))
    \/ Invalid(Marshalled(i), asks, options)
    \/ schema # NoSchema /\ ~Validates(schema, asks)

\* Marshalling and unmarshalling leaves nil for what is absent or null.
Pointer(x) == IF IsNumber(x) THEN x ELSE Null
Parsed(i) == [limit |-> Pointer(i.limit), offset |-> Pointer(i.offset)]

\* Parser.Parse of the caller's map; the map keeps the rewriting even when the
\* query is refused afterwards.
Parse ==
    LET i == IF RefusedAtOnce(asks) THEN input ELSE Normalised(input) IN
    /\ stage \in {"received", "parsed", "refused"}
    /\ parses.count < ParseBound
    /\ input' = i
    /\ IF RefusedAtOnce(asks) \/ Refused(i)
       THEN stage' = "refused" /\ query' = NoQuery
       ELSE stage' = "parsed" /\ query' = Parsed(Marshalled(i))
    /\ parses' = IF parses.count = 0
                 THEN [count |-> 1, stage |-> stage', query |-> query']
                 ELSE [parses EXCEPT !.count = @ + 1]
    /\ UNCHANGED <<given, clause, page, direct>>

\* Unmarshalling the body itself: an int takes no number with a point or an exponent.
SpelledAsFloat(i) ==
    \/ "limit" \in i.floats /\ IsNumber(i.limit)
    \/ "offset" \in i.floats /\ IsNumber(i.offset)
NoQueryInJSON(i) == SpelledAsFloat(i) \/ Overflows(i) \/ Invalid(i, asks, options)

\* Parser.ParseJSON of the same body: unknown keys, skip among them, are dropped,
\* and there is no schema.
ParseJSON ==
    /\ input.json /\ parses.count = 0 /\ direct.stage = "received"
    /\ direct' = IF NoQueryInJSON(input) THEN [direct EXCEPT !.stage = "refused"]
                 ELSE [direct EXCEPT !.stage = "parsed", !.query = Parsed(input)]
    /\ UNCHANGED <<input, given, stage, query, clause, page, parses>>

\* Validator.ValidateAll of what ParseJSON returned.
Report ==
    /\ direct.stage = "parsed" /\ schema # NoSchema
    /\ direct' = [direct EXCEPT !.stage = "validated", !.errors = ValidateAll(schema, asks)]
    /\ UNCHANGED <<input, given, stage, query, clause, page, parses>>
-----------------------------------------------------------------------------
\* The clause as limit and offset numbers; Null where the text has none.
LimitOffset(limit, offset) == [order |-> asks.sort # {}, limit |-> limit, offset |-> offset]
IfPositive(n) == IF n > 0 THEN n ELSE Null

\* (Mutant: PostgreSQL's syntax for every dialect.)
GetLimitOffsetPlain(dialect, limit, offset) ==
    IF limit = 0 /\ offset = 0 THEN LimitOffset(0, Null)
    ELSE LimitOffset(IfPositive(limit), IfPositive(offset))

\* GetLimitOffset.  A zero limit with an offset falls through to "no limit".
GetLimitOffset(dialect, limit, offset) ==
    IF limit = 0 /\ offset = 0
    THEN LimitOffset(0, IF dialect = "mssql" THEN 0 ELSE Null)
    ELSE CASE dialect = "postgres" -> LimitOffset(IfPositive(limit), IfPositive(offset))
           [] dialect = "sqlite" -> LimitOffset(IF limit > 0 THEN limit ELSE -1, IfPositive(offset))
           [] dialect = "mysql" -> LimitOffset(IF limit > 0 THEN limit ELSE Huge, IfPositive(offset))
           [] dialect = "mssql" -> LimitOffset(IfPositive(limit), offset)

\* Transpile, section 7: nil and absent both count as 0, and so does a negative
\* offset.  SQL Server gets an ORDER BY if the query has no sort.
SqlClause(q, dialect) ==
    LET limit == IF q.limit = Null THEN 0 ELSE q.limit
        offset == IF q.offset = Null \/ q.offset < 0 THEN 0 ELSE q.offset
    IN  IF q.limit = Null /\ q.offset = Null THEN LimitOffset(Null, Null)
        ELSE IF dialect = "mssql"
             THEN [GetLimitOffset(dialect, limit, offset) EXCEPT !.order = TRUE]
             ELSE GetLimitOffset(dialect, limit, offset)

\* (Mutant: the skip is left out.)
MongoClauseNoSkip(q) == LimitOffset(IF q.limit = Null THEN Null ELSE IfPositive(q.limit), Null)

\* MongoTranspiler.Transpile, sections 4 and 5.
MongoClause(q) ==
    LimitOffset(IF q.limit = Null THEN Null ELSE IfPositive(q.limit),
                IF q.offset = Null THEN Null ELSE IfPositive(q.offset))

Transpile ==
    /\ stage = "parsed"
    /\ clause' = IF options.dialect = "mongodb" THEN MongoClause(query)
                 ELSE SqlClause(query, options.dialect)
    /\ stage' = "transpiled"
    /\ UNCHANGED <<input, given, query, page, parses, direct>>
-----------------------------------------------------------------------------
\* Which clauses a database takes: SQLite and MySQL want a LIMIT before OFFSET;
\* SQL Server wants ORDER BY before OFFSET, OFFSET before FETCH, and at least one
\* row to fetch.
Legal(dialect, c) ==
    /\ dialect \in {"sqlite", "mysql"} /\ c.offset # Null => c.limit # Null
    /\ dialect # "sqlite" => c.limit # -1
    /\ dialect = "mssql" =>
          /\ c.offset # Null => c.order
          /\ c.limit # Null => c.offset # Null /\ c.limit > 0

\* The rows from offset on, at most limit of them.
Slice(limit, offset) ==
    LET first == IF offset = Null THEN 1 ELSE offset + 1
        last == IF limit \in {Null, -1} \/ first + limit - 1 > RowCount
                THEN RowCount ELSE first + limit - 1
    IN  SubSeq(Rows, first, last)

Answer ==
    /\ stage = "transpiled"
    /\ IF Legal(options.dialect, clause)
       THEN stage' = "answered" /\ page' = Slice(clause.limit, clause.offset)
       ELSE stage' = "failed" /\ page' = page
    /\ UNCHANGED <<input, given, query, clause, parses, direct>>

Next == Parse \/ ParseJSON \/ Report \/ Transpile \/ Answer

Spec == Init /\ [][Next]_vars
-----------------------------------------------------------------------------
\* The queries whose paging means one thing everywhere: a limit that is not
\* zero, or none, and then no offset that counts as zero.
Regular(q) == IF q.limit = Null THEN q.offset = Null \/ q.offset > 0 ELSE q.limit > 0

\* Five databases, five syntaxes, one page: a regular query that is accepted gets
\* the rows after its offset, at most limit of them, whatever the dialect.
PageIsTheSlice ==
    stage = "answered" /\ Regular(query) =>
        page = Slice(query.limit, IF query.offset = Null \/ query.offset < 0 THEN 0 ELSE query.offset)

\* No dialect builds a clause its database refuses, except SQL Server's for a
\* page of no rows (FETCH NEXT 0 ROWS).
OnlyTheEmptyPageFails ==
    stage = "failed" => options.dialect = "mssql" /\ clause.limit = 0

\* Parse rewrites the caller's map, and still gives the same result for that map
\* the next time, be it a query or an error.
ReparseGivesTheSame ==
    parses.count > 1 /\ stage \in {"parsed", "refused"} =>
        parses.stage = stage /\ parses.query = query

\* ParserOptions.MaxLimit is looked at before the limit is the database's, and there
\* are two ways round it, whichever of the keys a body mixes: no limit, and a limit of
\* zero where that means none, in MongoDB and, with an offset, in SQL.
PagesAreCapped ==
    stage = "answered" /\ options.maxLimit > 0 /\ Len(page) > options.maxLimit =>
        \/ query.limit = Null
        \/ query.limit = 0 /\ (options.dialect = "mongodb"
                               \/ (query.offset # Null /\ query.offset > 0))

\* Parse, which calls Validate if there is a schema, and ParseJSON followed by
\* ValidateAll are two ways in for one body: they accept the same queries and make
\* the same of them.  Apart from skip and unknown keys, which ParseJSON drops, an
\* offset below zero and an empty "fields", which it takes, numbers spelled 2.0 or 2e0,
\* which it refuses, and numbers above 2^53, which Parse rounds, they differ only in
\* the names of a table without fields, and OR, AND and NOT in upper case, which
\* ValidateAll alone minds.
SameInBoth(i) ==
    /\ i.skip = Absent /\ ~Negative(i.offset) /\ ~RefusedAtOnce(asks)
    /\ ~SpelledAsFloat(i) /\ \A x \in {i.limit, i.offset} : IsNumber(x) => x <= Exact
OnlyReported(e) ==
    \/ DOMAIN schema.fields = {} /\ e.code \in
          {"FIELD_NOT_ALLOWED", "FIELD_NOT_FILTERABLE", "FIELD_NOT_SORTABLE",
           "FIELD_NOT_GROUPABLE", "FIELD_NOT_FOUND"}
    \/ e.code = "FIELD_NOT_FILTERABLE" /\ e.name \in UpperLogical
WaysInAgree ==
    parses.count = 1 /\ SameInBoth(direct.body)
      /\ direct.stage \in {"refused", IF schema = NoSchema THEN "parsed" ELSE "validated"} =>
        IF direct.stage # "refused" /\ \A e \in direct.errors : OnlyReported(e)
        THEN parses.stage = "parsed" /\ parses.query = direct.query
        ELSE parses.stage = "refused"

\* A query is never nested deeper than the parser's MaxNestingDepth; nor than the
\* schema's MaxDepth, if every include that has includes names its fields too.  And
\* a query that is within both passes them, unless an "include" in it is empty.
NestingIsCapped ==
    parses.count > 0 =>
        LET depth == Longest(asks.include.paths)
            named == \A p \in asks.include.opened : p \in asks.include.fields
            empty == \E p \in asks.include.opened :
                        ~ \E q \in asks.include.paths : Len(q) = Len(p) + 1 /\ SubSeq(q, 1, Len(p)) = p
            within == /\ options.maxNesting <= 0 \/ depth <= options.maxNesting
                      /\ schema = NoSchema \/ schema.settings.maxDepth <= 0
                                           \/ depth <= schema.settings.maxDepth
        IN  /\ parses.stage = "parsed" /\ (named \/ schema = NoSchema) => within
            /\ parses.stage = "refused" /\ within /\ ~empty =>
                 \/ RefusedAtOnce(asks)
                 \/ direct.body.json /\ Negative(Normalised(direct.body).offset)
                 \/ Overflows(Marshalled(Normalised(direct.body)))
                 \/ Invalid(Marshalled(direct.body), asks, [options EXCEPT !.maxNesting = 0])
                 \/ schema # NoSchema /\
                      ~Validates([schema EXCEPT !.settings.maxDepth = 0], asks)
=============================================================================
