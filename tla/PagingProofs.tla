---------------------------- MODULE PagingProofs ----------------------------
(***************************************************************************)
(* Theorems about the way of a query from its body to its rows, for any    *)
(* bodies, settings and schemas and any number of rows.                    *)
(***************************************************************************)
EXTENDS Paging, FiniteSetTheorems, SequenceTheorems, WellFoundedInduction, TLAPS

(***************************************************************************)
(* What Parse makes of a body, as functions of the body.                   *)
(***************************************************************************)

\* The map that Parse leaves, whether it refuses it, and the query it returns.
Rewritten(b) == IF RefusedAtOnce(asks) THEN b ELSE Normalised(b)
Fails(b) == RefusedAtOnce(asks) \/ Refused(Rewritten(b))
Verdict(b) == IF Fails(b) THEN "refused" ELSE "parsed"
Result(b) == IF Fails(b) THEN NoQuery ELSE Parsed(Marshalled(Rewritten(b)))

\* What was given is as the families say.
GivenTyped ==
    /\ direct.body \in Page
    /\ asks \in Asking /\ IsTree(asks.include)
    /\ options \in Options
    /\ schema # NoSchema =>
          /\ DOMAIN schema = {"hasTable", "settings", "fields", "relations"}
          /\ schema.hasTable \in BOOLEAN /\ schema.settings \in Settings

\* The caller's map and what has been made of it: nothing before the first Parse,
\* the same thing after each.
ParseInv ==
    /\ parses.count \in Nat
    /\ DOMAIN parses = {"count", "stage", "query"}
    /\ parses.count = 0 => stage = "received" /\ input = direct.body
    /\ parses.count > 0 =>
          /\ input = Rewritten(direct.body)
          /\ parses.stage = Verdict(direct.body)
          /\ parses.query = Result(direct.body)
          /\ query = Result(direct.body)
          /\ \/ stage = Verdict(direct.body)
             \/ ~Fails(direct.body) /\ stage \in {"transpiled", "answered", "failed"}

\* The clause of a query that is past its transpiler, and its rows.
Clause(q) == IF options.dialect = "mongodb" THEN MongoClause(q) ELSE SqlClause(q, options.dialect)
ClauseInv ==
    /\ stage \in {"transpiled", "answered", "failed"} => clause = Clause(query)
    /\ stage = "answered" =>
          Legal(options.dialect, clause) /\ page = Slice(clause.limit, clause.offset)
    /\ stage = "failed" => ~Legal(options.dialect, clause)

\* What ParseJSON and ValidateAll have made of the body.
DirectInv ==
    /\ DOMAIN direct = {"stage", "query", "body", "errors"}
    /\ direct.stage \in {"received", "refused", "parsed", "validated"}
    /\ direct.stage # "received" => direct.body.json
    /\ direct.stage = "refused" => NoQueryInJSON(direct.body)
    /\ direct.stage \in {"parsed", "validated"} =>
          /\ ~NoQueryInJSON(direct.body)
          /\ direct.query = Parsed(direct.body)
    /\ direct.stage \in {"received", "parsed"} => direct.errors = {}
    /\ direct.stage = "validated" => direct.errors = ValidateAll(schema, asks)

\* The invariant: everything is a function of what was given and how far it is.
PagingInv == GivenTyped /\ ParseInv /\ ClauseInv /\ DirectInv

\* A map whose skip has become its offset is not rewritten again.
LEMMA RewrittenOnce ==
    ASSUME NEW b \in Page
    PROVE  /\ Rewritten(b) \in Page
           /\ Rewritten(Rewritten(b)) = Rewritten(b)
           /\ Rewritten(b).limit = b.limit /\ Rewritten(b).json = b.json
           /\ b.skip = Absent => Rewritten(b) = b
BY DEF Rewritten, Normalised, Page, Number

\* Parse does the same the next time.
LEMMA ParseDoes ==
    ASSUME GivenTyped, ParseInv, Parse
    PROVE  /\ stage \in {"received", "parsed", "refused"}
           /\ UNCHANGED <<given, clause, page, direct>>
           /\ input' = Rewritten(direct.body)
           /\ stage' = Verdict(direct.body)
           /\ query' = Result(direct.body)
           /\ parses' = [count |-> parses.count + 1, stage |-> Verdict(direct.body),
                         query |-> Result(direct.body)]
<1>1. input \in {direct.body, Rewritten(direct.body)}
  BY DEF ParseInv
<1>2. Rewritten(input) = Rewritten(direct.body)
  BY <1>1, RewrittenOnce DEF GivenTyped
<1>3. Fails(input) = Fails(direct.body)
  BY <1>2 DEF Fails
<1>4. /\ stage \in {"received", "parsed", "refused"}
      /\ UNCHANGED <<given, clause, page, direct>>
      /\ input' = Rewritten(input)
  BY DEF Parse, Rewritten
<1>5. /\ stage' = IF Fails(input) THEN "refused" ELSE "parsed"
      /\ query' = IF Fails(input) THEN NoQuery ELSE Parsed(Marshalled(Rewritten(input)))
  BY DEF Parse, Rewritten, Fails
<1>6. stage' = Verdict(direct.body) /\ query' = Result(direct.body)
  BY <1>2, <1>3, <1>5 DEF Verdict, Result
<1>7. parses' = [count |-> parses.count + 1, stage |-> Verdict(direct.body),
                 query |-> Result(direct.body)]
  <2>1. CASE parses.count = 0
    BY <1>6, <2>1 DEF Parse
  <2>2. CASE parses.count > 0
    <3>1. parses' = [parses EXCEPT !.count = parses.count + 1]
      BY <2>2 DEF Parse
    <3>2. parses.stage = Verdict(direct.body) /\ parses.query = Result(direct.body)
      BY <2>2 DEF ParseInv
    <3>3. QED
      BY <3>1, <3>2 DEF ParseInv
  <2>3. QED
    BY <2>1, <2>2 DEF ParseInv
<1>8. QED
  BY <1>2, <1>4, <1>6, <1>7

\* The caller's map, the clause and the report are always as they should be.
LEMMA PagingInvHolds == Spec => []PagingInv
<1>1. Init => PagingInv
  <2> SUFFICES ASSUME Init PROVE PagingInv
    OBVIOUS
  <2>1. GivenTyped
    BY FamiliesTyped DEF Init, GivenTyped
  <2>2. QED
    BY <2>1 DEF Init, PagingInv, ParseInv, ClauseInv, DirectInv
<1>2. PagingInv /\ [Next]_vars => PagingInv'
  <2> SUFFICES ASSUME PagingInv, [Next]_vars PROVE PagingInv'
    OBVIOUS
  <2>1. CASE Parse
    <3>1. GivenTyped /\ ParseInv
      BY DEF PagingInv
    <3>2. GivenTyped' /\ DirectInv'
      BY <2>1, <3>1, ParseDoes DEF PagingInv, GivenTyped, DirectInv, given, Invalid, NoQueryInJSON
    <3>3. ClauseInv'
      BY <2>1, <3>1, ParseDoes DEF ClauseInv, Verdict
    <3>4. ParseInv'
      <4> DEFINE V == Verdict(direct.body)
                 R == Result(direct.body)
                 W == Rewritten(direct.body)
      <4>1. parses' = [count |-> parses.count + 1, stage |-> V, query |-> R]
            /\ input' = W /\ stage' = V /\ query' = R
        BY <2>1, <3>1, ParseDoes
      <4>2. W' = W /\ V' = V /\ R' = R
        BY <2>1, <3>1, ParseDoes DEF given, Verdict, Result, Fails, Rewritten, Refused
      <4>3. parses.count \in Nat
        BY <3>1 DEF ParseInv
      <4> HIDE DEF V, R, W
      <4>4. /\ parses'.count \in Nat /\ parses'.count > 0
            /\ DOMAIN parses' = {"count", "stage", "query"}
            /\ input' = W' /\ parses'.stage = V' /\ parses'.query = R' /\ query' = R' /\ stage' = V'
        BY <4>1, <4>2, <4>3
      <4>5. QED
        BY <4>4 DEF ParseInv, V, R, W
    <3>5. QED
      BY <3>2, <3>3, <3>4 DEF PagingInv
  <2>2. CASE ParseJSON
    <3>1. /\ direct.stage = "received" /\ input = direct.body /\ input.json
          /\ direct' = IF NoQueryInJSON(direct.body)
                       THEN [direct EXCEPT !.stage = "refused"]
                       ELSE [direct EXCEPT !.stage = "parsed", !.query = Parsed(direct.body)]
          /\ UNCHANGED <<input, given, stage, query, clause, page, parses>>
      BY <2>2 DEF ParseJSON, PagingInv, ParseInv
    <3>2. direct'.body = direct.body
      BY <3>1 DEF PagingInv, DirectInv
    <3>3. QED
      BY <3>1, <3>2 DEF PagingInv, GivenTyped, DirectInv, ParseInv, ClauseInv, given, Clause, SqlClause,
                        GetLimitOffset, LimitOffset, MongoClause,
                        Verdict, Result, Fails, Rewritten, Refused, Invalid, NoQueryInJSON
  <2>3. CASE Report
    <3>1. /\ direct.stage = "parsed"
          /\ direct' = [direct EXCEPT !.stage = "validated", !.errors = ValidateAll(schema, asks)]
          /\ UNCHANGED <<input, given, stage, query, clause, page, parses>>
      BY <2>3 DEF Report
    <3>2. direct'.body = direct.body
      BY <3>1 DEF PagingInv, DirectInv
    <3>3. QED
      BY <3>1, <3>2 DEF PagingInv, GivenTyped, DirectInv, ParseInv, ClauseInv, given, Clause, SqlClause,
                        GetLimitOffset, LimitOffset, MongoClause,
                        Verdict, Result, Fails, Rewritten, Refused, Invalid, NoQueryInJSON
  <2>4. CASE Transpile
    <3>1. /\ stage = "parsed" /\ stage' = "transpiled" /\ clause' = Clause(query)
          /\ UNCHANGED <<input, given, query, page, parses, direct>>
      BY <2>4 DEF Transpile, Clause
    <3>2. QED
      BY <3>1 DEF PagingInv, GivenTyped, DirectInv, ParseInv, ClauseInv, given, Clause, SqlClause,
                  GetLimitOffset, LimitOffset, MongoClause,
                  Verdict, Result, Fails, Rewritten, Refused, Invalid, NoQueryInJSON
  <2>5. CASE Answer
    <3>1. /\ stage = "transpiled"
          /\ \/ /\ stage' = "answered" /\ Legal(options.dialect, clause)
                /\ page' = Slice(clause.limit, clause.offset)
             \/ stage' = "failed" /\ ~Legal(options.dialect, clause)
          /\ UNCHANGED <<input, given, query, clause, parses, direct>>
      BY <2>5 DEF Answer
    <3>2. QED
      BY <3>1 DEF PagingInv, GivenTyped, DirectInv, ParseInv, ClauseInv, given, Clause, SqlClause,
                  GetLimitOffset, LimitOffset, MongoClause,
                  Verdict, Result, Fails, Rewritten, Refused, Invalid, NoQueryInJSON
  <2>6. CASE UNCHANGED vars
    <3>1. UNCHANGED <<input, asks, options, schema, stage, query, clause, page, parses, direct>>
      BY <2>6 DEF vars, given
    <3>2. GivenTyped' /\ DirectInv'
      BY <3>1 DEF PagingInv, GivenTyped, DirectInv, NoQueryInJSON
    <3>3. ParseInv'
      BY <3>1 DEF PagingInv, ParseInv, Verdict, Result, Fails, Rewritten, Refused
    <3>4. ClauseInv'
      BY <3>1 DEF PagingInv, ClauseInv, Clause, SqlClause, GetLimitOffset, LimitOffset, MongoClause
    <3>5. QED
      BY <3>2, <3>3, <3>4 DEF PagingInv
  <2>7. QED
    BY <2>1, <2>2, <2>3, <2>4, <2>5, <2>6 DEF Next
<1>3. QED
  BY <1>1, <1>2, PTL DEF Spec
-----------------------------------------------------------------------------
(***************************************************************************)
(* One map, parsed once more.                                              *)
(***************************************************************************)

\* Whatever the map, the options and the schema, a second Parse of a map returns
\* what the first did, be it a query or an error, though the first rewrote the map.
THEOREM ReparseIsTheSame == Spec => []ReparseGivesTheSame
<1>1. PagingInv => ReparseGivesTheSame
  BY DEF PagingInv, ParseInv, ReparseGivesTheSame
<1>2. QED
  BY PagingInvHolds, <1>1, PTL
-----------------------------------------------------------------------------
(***************************************************************************)
(* From the query to its rows.                                             *)
(***************************************************************************)

\* The nearest float64 is an integer, that of a small number the number itself.
LEMMA Float64Is ==
    ASSUME NEW n \in Int
    PROVE  Float64(n) \in Int /\ (n <= Exact => Float64(n) = n)
<1>1. CASE n <= Exact \/ n > MaxInt
  BY <1>1 DEF Float64
<1>2. CASE n > Exact /\ n <= MaxInt
  <2>1. \E s \in Spacings : n <= Exact * s /\ \A t \in Spacings : t < s => n > Exact * t
    BY <1>2, IntsAreWide DEF Spacings
  <2>2. Spacing(n) \in Spacings
    BY <2>1 DEF Spacing
  <2>3. \A s \in Spacings : Nearest(n, s) \in Int
    <3>1. SUFFICES ASSUME NEW s \in Spacings PROVE Nearest(n, s) \in Int
      OBVIOUS
    <3>2. s \in Int /\ n \div s \in Int
      BY DEF Spacings
    <3> DEFINE b == n \div s
    <3>3. b * s \in Int /\ (b + 1) * s \in Int
      BY <3>2
    <3>4. QED
      BY <3>3 DEF Nearest
  <2>4. ~(n <= Exact) /\ ~(n <= Exact \/ n > MaxInt)
    BY <1>2, IntsAreWide
  <2>5. Float64(n) = Nearest(n, Spacing(n))
    BY <2>4 DEF Float64
  <2>6. QED
    BY <2>2, <2>3, <2>4, <2>5
<1>3. QED
  BY <1>1, <1>2, IntsAreWide

\* What is marshalled is typed, and a small number is marshalled as it is.
LEMMA MarshalledIs ==
    ASSUME NEW b \in Page
    PROVE  /\ Marshalled(b) \in Page
           /\ Marshalled(b).offset = b.offset \/ (IsNumber(b.offset) /\ ~(b.offset <= Exact))
           /\ (\A x \in {b.limit, b.offset} : IsNumber(x) => x <= Exact) => Marshalled(b) = b
<1>1. \A x \in Number : /\ Float(x) \in Number
                        /\ (IsNumber(x) => x <= Exact) => Float(x) = x
  BY Float64Is DEF Float, Number, IsNumber
<1>2. b.limit \in Number /\ b.offset \in Number
  BY DEF Page
<1> DEFINE c == [b EXCEPT !.limit = Float(b.limit), !.offset = Float(b.offset)]
<1>3. c \in Page /\ c.limit = Float(b.limit) /\ c.offset = Float(b.offset)
  BY <1>1, <1>2 DEF Page
<1>4. Float(b.limit) = b.limit /\ Float(b.offset) = b.offset => c = b
  BY DEF Page
<1>5. Marshalled(b) = IF b.json THEN c ELSE b
  BY DEF Marshalled
<1> HIDE DEF c
<1>6. QED
  BY <1>1, <1>2, <1>3, <1>4, <1>5

\* What a query can have for its limit and its offset once it has been accepted.
LEMMA AcceptedQuery ==
    ASSUME PagingInv, stage \in {"parsed", "transpiled", "answered", "failed"}
    PROVE  /\ query.limit \in Nat \cup {Null}
           /\ query.offset \in Int \cup {Null}
           /\ options.maxLimit > 0 /\ query.limit # Null => query.limit <= options.maxLimit
<1> DEFINE w == Marshalled(Rewritten(direct.body))
<1>1. stage # "received" /\ ~Fails(direct.body) /\ query = Parsed(w)
  BY DEF PagingInv, ParseInv, Verdict, Result
<1>2. w \in Page
  BY RewrittenOnce, MarshalledIs DEF PagingInv, GivenTyped
<1>3. ~Invalid(w, asks, options)
  BY <1>1 DEF Fails, Refused
<1> HIDE DEF w
<1>4. w.limit \in Int \cup {Absent, Null} /\ w.offset \in Int \cup {Absent, Null}
  BY <1>2 DEF Page, Number
<1>5. query.limit = Pointer(w.limit) /\ query.offset = Pointer(w.offset)
  BY <1>1 DEF Parsed
<1>6. CASE w.limit \in {Absent, Null}
  BY <1>4, <1>5, <1>6 DEF Pointer, IsNumber
<1>7. CASE w.limit \in Int
  <2>1. IsNumber(w.limit)
    BY <1>7, SentinelsAreNoNumbers DEF IsNumber
  <2>2. w.limit >= 0 /\ (options.maxLimit > 0 => w.limit <= options.maxLimit)
    <3>1. options.maxLimit \in Int
      BY DEF PagingInv, GivenTyped, Options
    <3>2. QED
      BY <1>3, <1>7, <2>1, <3>1 DEF Invalid, Negative
  <2>3. QED
    BY <1>4, <1>5, <1>7, <2>1, <2>2 DEF Pointer, IsNumber
<1>8. QED
  BY <1>4, <1>6, <1>7

\* The dialects that there are.
LEMMA FiveDialects ==
    ASSUME PagingInv
    PROVE  options.dialect \in {"postgres", "sqlite", "mysql", "mssql", "mongodb"}
BY DEF PagingInv, GivenTyped, Options

\* No builder of clauses makes one that its database refuses, but for the page of no
\* rows that SQL Server is asked for.
THEOREM ClausesAreLegal == Spec => []OnlyTheEmptyPageFails
<1>1. PagingInv => OnlyTheEmptyPageFails
  <2>1. SUFFICES ASSUME PagingInv, stage = "failed"
                 PROVE  options.dialect = "mssql" /\ clause.limit = 0
    BY DEF OnlyTheEmptyPageFails
  <2>2. clause = Clause(query) /\ ~Legal(options.dialect, clause)
    BY <2>1 DEF PagingInv, ClauseInv
  <2>3. query.limit \in Nat \cup {Null} /\ query.offset \in Int \cup {Null}
    BY <2>1, AcceptedQuery
  <2>4. CASE options.dialect = "mongodb"
    BY <2>2, <2>3, <2>4, SentinelsAreNoNumbers
       DEF Clause, MongoClause, LimitOffset, IfPositive, Legal
  <2>5. CASE options.dialect = "postgres"
    BY <2>2, <2>3, <2>5, SentinelsAreNoNumbers
       DEF Clause, SqlClause, GetLimitOffset, LimitOffset, IfPositive, Legal
  <2>6. CASE options.dialect = "sqlite"
    BY <2>2, <2>3, <2>6, SentinelsAreNoNumbers
       DEF Clause, SqlClause, GetLimitOffset, LimitOffset, IfPositive, Legal
  <2>7. CASE options.dialect = "mysql"
    BY <2>2, <2>3, <2>7, SentinelsAreNoNumbers, HugeIsHuge
       DEF Clause, SqlClause, GetLimitOffset, LimitOffset, IfPositive, Legal
  <2>8. CASE options.dialect = "mssql"
    BY <2>2, <2>3, <2>8, SentinelsAreNoNumbers
       DEF Clause, SqlClause, GetLimitOffset, LimitOffset, IfPositive, Legal
  <2>9. QED
    BY <2>1, <2>4, <2>5, <2>6, <2>7, <2>8, FiveDialects
<1>2. QED
  BY PagingInvHolds, <1>1, PTL

\* At most limit rows from the first on.
From(first, limit) ==
    SubSeq(Rows, first, IF first + limit - 1 > RowCount THEN RowCount ELSE first + limit - 1)

\* The slice for a positive limit; an offset that is not written counts as 0.
LEMMA SliceIs ==
    ASSUME NEW limit \in Int, limit > 0, NEW offset \in Nat
    PROVE  /\ Slice(limit, offset) = From(offset + 1, limit)
           /\ Slice(limit, IfPositive(offset)) = Slice(limit, offset)
<1>1. limit \notin {Null, -1} /\ offset # Null
  BY SentinelsAreNoNumbers
<1>2. Slice(limit, offset) = From(offset + 1, limit)
  BY <1>1 DEF Slice, From
<1>3. CASE offset > 0
  BY <1>2, <1>3 DEF IfPositive
<1>4. CASE offset = 0
  <2>1. IfPositive(offset) = Null
    BY <1>4 DEF IfPositive
  <2>2. Slice(limit, Null) = From(1, limit)
    BY <1>1 DEF Slice, From
  <2>3. From(offset + 1, limit) = From(1, limit)
    <3>1. offset + 1 = 1
      BY <1>4
    <3>2. QED
      BY <3>1
  <2>4. QED
    BY <1>2, <2>1, <2>2, <2>3
<1>5. QED
  BY <1>2, <1>3, <1>4

\* Each dialect's clause for a regular query yields the slice of the rows that the
\* query means: at most limit rows, from the offset on.
LEMMA RegularClause ==
    ASSUME PagingInv, stage = "answered", Regular(query)
    PROVE  page = Slice(query.limit, IF query.offset = Null \/ query.offset < 0 THEN 0
                                     ELSE query.offset)
<1>1. clause = Clause(query) /\ page = Slice(clause.limit, clause.offset)
  BY DEF PagingInv, ClauseInv
<1>2. query.limit \in Nat \cup {Null} /\ query.offset \in Int \cup {Null}
  BY AcceptedQuery
<1>3. CASE query.limit = Null
  <2>1. CASE query.offset = Null
    <3>1. clause.limit = Null /\ clause.offset = Null
      BY <1>1, <1>3, <2>1 DEF Clause, SqlClause, MongoClause, LimitOffset
    <3>2. QED
      BY <1>1, <1>3, <2>1, <3>1, HugeIsHuge DEF Slice
  <2>2. CASE query.offset \in Int /\ query.offset > 0
    <3>1. clause.limit \in {Null, -1, Huge} /\ clause.offset = query.offset
      BY <1>1, <1>3, <2>2, FiveDialects, SentinelsAreNoNumbers
         DEF Clause, SqlClause, MongoClause, GetLimitOffset, LimitOffset, IfPositive
    <3>2. QED
      BY <1>1, <1>3, <2>2, <3>1, SentinelsAreNoNumbers, HugeIsHuge DEF Slice
  <2>3. QED
    BY <1>2, <1>3, <2>1, <2>2 DEF Regular
<1>4. CASE query.limit \in Int /\ query.limit > 0
  <2> DEFINE offset == IF query.offset = Null \/ query.offset < 0 THEN 0 ELSE query.offset
  <2>1. offset \in Nat
    BY <1>2
  <2>2. clause.limit = query.limit /\ clause.offset \in {offset} \cup {IfPositive(offset)}
    <3>1. IfPositive(query.limit) = query.limit /\ query.limit # Null
      BY <1>4, SentinelsAreNoNumbers DEF IfPositive
    <3>2. CASE options.dialect = "mongodb"
      BY <1>1, <1>2, <3>1, <3>2 DEF Clause, MongoClause, LimitOffset, IfPositive
    <3>3. CASE options.dialect # "mongodb"
      <4>1. GetLimitOffset(options.dialect, query.limit, offset).limit = query.limit
        BY <1>4, <2>1, <3>1, <3>3, FiveDialects DEF GetLimitOffset, LimitOffset
      <4>2. GetLimitOffset(options.dialect, query.limit, offset).offset
              \in {offset} \cup {IfPositive(offset)}
        BY <1>4, <2>1, <3>3, FiveDialects DEF GetLimitOffset, LimitOffset
      <4>3. \A r \in {GetLimitOffset(options.dialect, query.limit, offset)} :
               clause \in {r, [r EXCEPT !.order = TRUE]}
        BY <1>1, <3>1, <3>3 DEF Clause, SqlClause
      <4>4. DOMAIN GetLimitOffset(options.dialect, query.limit, offset)
              = {"order", "limit", "offset"}
        BY <1>4, <2>1, <3>3, FiveDialects DEF GetLimitOffset, LimitOffset
      <4> HIDE DEF offset
      <4>5. QED
        BY <4>1, <4>2, <4>3, <4>4
    <3>4. QED
      BY <3>2, <3>3
  <2> HIDE DEF offset
  <2>3. Slice(query.limit, IfPositive(offset)) = Slice(query.limit, offset)
    BY <1>4, <2>1, SliceIs
  <2>4. QED
    BY <1>1, <2>2, <2>3 DEF offset
<1>5. QED
  BY <1>2, <1>3, <1>4 DEF Regular
\* Five databases, five syntaxes, one page: the rows of a regular query are the slice
\* it means, in every dialect, whatever the number of rows.
THEOREM OnePageEverywhere == Spec => []PageIsTheSlice
<1>1. PagingInv => PageIsTheSlice
  BY RegularClause DEF PageIsTheSlice
<1>2. QED
  BY PagingInvHolds, <1>1, PTL

\* A slice with a limit is no longer than the limit.
LEMMA SliceIsShort ==
    ASSUME NEW limit \in Nat \ {0}, NEW offset \in Nat
    PROVE  Len(Slice(limit, offset)) \in Nat /\ Len(Slice(limit, offset)) <= limit
<1> DEFINE first == offset + 1
           last == IF first + limit - 1 > RowCount THEN RowCount ELSE first + limit - 1
<1>1. Slice(limit, offset) = SubSeq(Rows, first, last)
  BY SliceIs DEF From
<1>2. first \in Nat \ {0} /\ last \in Nat /\ last <= RowCount /\ last - first + 1 <= limit
  BY HugeIsHuge
<1> HIDE DEF first, last
<1>3. \A i \in first .. last : Rows[i] \in 1 .. RowCount
  BY <1>2, HugeIsHuge DEF Rows
<1>4. Len(SubSeq(Rows, first, last)) = IF first <= last THEN last - first + 1 ELSE 0
  BY <1>2, <1>3, SubSeqProperties
<1>5. QED
  BY <1>1, <1>2, <1>4

\* MaxLimit holds down to the rows, whatever keys a body mixes and in every dialect,
\* unless there is no limit or a limit of zero that means none.
THEOREM CapReachesTheRows == Spec => []PagesAreCapped
<1>1. PagingInv => PagesAreCapped
  <2>1. SUFFICES ASSUME PagingInv, stage = "answered", options.maxLimit > 0, query.limit # Null,
                        query.limit = 0 => options.dialect # "mongodb"
                                           /\ ~(query.offset # Null /\ query.offset > 0)
                 PROVE  ~(Len(page) > options.maxLimit)
    BY DEF PagesAreCapped
  <2> DEFINE offset == IF query.offset = Null \/ query.offset < 0 THEN 0 ELSE query.offset
  <2>2. query.limit \in Nat /\ offset \in Nat /\ query.limit <= options.maxLimit
    BY <2>1, AcceptedQuery
  <2>3. options.maxLimit \in Int
    BY <2>1 DEF PagingInv, GivenTyped, Options
  <2>4. CASE query.limit > 0
    <3>1. page = Slice(query.limit, offset)
      BY <2>1, <2>4, RegularClause DEF Regular
    <3>2. query.limit \in Nat \ {0}
      BY <2>2, <2>4
    <3> HIDE DEF offset
    <3>3. Len(page) \in Nat /\ Len(page) <= query.limit
      BY <2>2, <3>1, <3>2, SliceIsShort
    <3>4. QED
      BY <2>2, <2>3, <3>3
  <2>5. CASE query.limit = 0
    <3>1. offset = 0 /\ query.limit # Null /\ options.dialect # "mongodb"
      BY <2>1, <2>2, <2>5
    <3>2. clause = SqlClause(query, options.dialect) /\ page = Slice(clause.limit, clause.offset)
      BY <2>1, <3>1 DEF PagingInv, ClauseInv, Clause
    <3>3. clause.limit = 0 /\ clause.offset \in {0, Null}
      BY <2>5, <3>1, <3>2 DEF SqlClause, GetLimitOffset, LimitOffset
    <3>4. page = SubSeq(Rows, 1, 0)
      BY <3>2, <3>3, HugeIsHuge, SentinelsAreNoNumbers DEF Slice
    <3>5. Len(page) = 0
      BY <3>4, SubSeqProperties
    <3>6. QED
      BY <2>1, <2>3, <3>5
  <2>6. QED
    BY <2>2, <2>4, <2>5
<1>2. QED
  BY PagingInvHolds, <1>1, PTL
-----------------------------------------------------------------------------
(***************************************************************************)
(* Validate and ValidateAll, Parse and ParseJSON.                          *)
(***************************************************************************)

\* Every error is one of those that ValidateAll alone minds.
Tolerated(errors) == \A e \in errors : OnlyReported(e)
Bare == DOMAIN schema.fields = {}

\* A set of errors of one code is tolerated by what the code is about.
LEMMA ToleratedErrors ==
    ASSUME NEW code, NEW names
    PROVE  Tolerated(Errors(code, names)) <=>
             \A n \in names :
                \/ Bare /\ code \in {"FIELD_NOT_ALLOWED", "FIELD_NOT_FILTERABLE",
                                    "FIELD_NOT_SORTABLE", "FIELD_NOT_GROUPABLE", "FIELD_NOT_FOUND"}
                \/ code = "FIELD_NOT_FILTERABLE" /\ n \in UpperLogical
<1> DEFINE E(n) == [code |-> code, name |-> n]
<1>1. Tolerated(Errors(code, names)) <=> \A n \in names : OnlyReported(E(n))
  BY DEF Tolerated, Errors
<1>2. \A n : E(n).code = code /\ E(n).name = n
  OBVIOUS
<1> HIDE DEF E
<1>3. QED
  BY <1>1, <1>2 DEF OnlyReported, Bare

\* Two sets of errors are tolerated together if each of them is.
LEMMA ToleratedUnion ==
    ASSUME NEW A, NEW B
    PROVE  Tolerated(A \cup B) <=> Tolerated(A) /\ Tolerated(B)
BY DEF Tolerated

\* ValidateAll reports nothing that Validate minds, exactly if Validate accepts the
\* query.
LEMMA ReportAgrees ==
    ASSUME GivenTyped, schema # NoSchema
    PROVE  Tolerated(ValidateAll(schema, asks)) <=> Validates(schema, asks)
<1>1. Tolerated(SettingsErrors(schema, asks))
        <=> ~AggregatesDisabled(schema, asks) /\ ~TooDeep(schema, asks)
  BY ToleratedErrors, ToleratedUnion DEF SettingsErrors
<1>2. ~Tolerated(Errors("TABLE_NOT_FOUND", {"*"}))
  BY ToleratedErrors
<1>3. Tolerated(RelationErrors(schema, asks))
        <=> \A n \in Roots(asks) : n \in DOMAIN schema.relations /\ schema.relations[n] # "denied"
  <2> DEFINE found == Roots(asks) \cap DOMAIN schema.relations
             denied == {n \in found : schema.relations[n] = "denied"}
  <2>1. RelationErrors(schema, asks) = Errors("RELATION_NOT_FOUND", Roots(asks) \ found)
                                       \cup Errors("RELATION_NOT_ALLOWED", denied)
    BY DEF RelationErrors
  <2> HIDE DEF found, denied
  <2>2. Tolerated(RelationErrors(schema, asks)) <=> Roots(asks) \ found = {} /\ denied = {}
    BY <2>1, ToleratedErrors, ToleratedUnion
  <2>3. QED
    BY <2>2 DEF found, denied
<1>4. Tolerated(NameErrors(schema, asks)) <=>
        \/ Bare
        \/ /\ \A f \in Asked(asks) : May(schema, f, "select")
           /\ \A f \in asks.where \ (Logical \cup UpperLogical) : May(schema, f, "filter")
           /\ \A f \in asks.sort : May(schema, f, "sort")
           /\ \A f \in asks.groupBy : May(schema, f, "group")
  <2> DEFINE select == {f \in Asked(asks) : ~May(schema, f, "select")}
             filter == {f \in asks.where \ Logical : ~May(schema, f, "filter")}
             sort == {f \in asks.sort : ~May(schema, f, "sort")}
             group == {f \in asks.groupBy : ~May(schema, f, "group")}
  <2>1. NameErrors(schema, asks) =
          Errors("FIELD_NOT_ALLOWED", select) \cup Errors("FIELD_NOT_FILTERABLE", filter)
          \cup Errors("FIELD_NOT_SORTABLE", sort) \cup Errors("FIELD_NOT_GROUPABLE", group)
    BY DEF NameErrors
  <2> HIDE DEF select, filter, sort, group
  <2>2. Tolerated(NameErrors(schema, asks)) <=>
          /\ Tolerated(Errors("FIELD_NOT_ALLOWED", select))
          /\ Tolerated(Errors("FIELD_NOT_FILTERABLE", filter))
          /\ Tolerated(Errors("FIELD_NOT_SORTABLE", sort))
          /\ Tolerated(Errors("FIELD_NOT_GROUPABLE", group))
    <3> DEFINE a == Errors("FIELD_NOT_ALLOWED", select)
               b == Errors("FIELD_NOT_FILTERABLE", filter)
               c == Errors("FIELD_NOT_SORTABLE", sort)
               d == Errors("FIELD_NOT_GROUPABLE", group)
    <3> HIDE DEF a, b, c, d
    <3>1. NameErrors(schema, asks) = a \cup b \cup c \cup d
      BY <2>1 DEF a, b, c, d
    <3>2. Tolerated(a \cup b \cup c \cup d) <=>
            Tolerated(a) /\ Tolerated(b) /\ Tolerated(c) /\ Tolerated(d)
      BY DEF Tolerated
    <3>3. QED
      BY <3>1, <3>2 DEF a, b, c, d
  <2>3. /\ Tolerated(Errors("FIELD_NOT_ALLOWED", select)) <=> Bare \/ select = {}
        /\ Tolerated(Errors("FIELD_NOT_FILTERABLE", filter)) <=> Bare \/ filter \subseteq UpperLogical
        /\ Tolerated(Errors("FIELD_NOT_SORTABLE", sort)) <=> Bare \/ sort = {}
        /\ Tolerated(Errors("FIELD_NOT_GROUPABLE", group)) <=> Bare \/ group = {}
    BY ToleratedErrors
  <2>4. QED
    BY <2>2, <2>3 DEF select, filter, sort, group
<1>5. Tolerated(AggregateErrors(schema, asks)) <=>
        \A a \in asks.aggregate :
           \/ CountsRows(a)
           \/ Bare
           \/ Known(schema, a[2]) /\ MayAggregate(schema.fields[a[2]], a[1])
  <2> DEFINE named == {a \in asks.aggregate : ~CountsRows(a)}
             found == {a \in named : Known(schema, a[2])}
             lost == {a[2] : a \in named \ found}
             denied == {a[2] : a \in {b \in found : ~MayAggregate(schema.fields[b[2]], b[1])}}
  <2>1. AggregateErrors(schema, asks) = Errors("FIELD_NOT_FOUND", lost)
                                        \cup Errors("AGGREGATION_NOT_ALLOWED", denied)
    BY DEF AggregateErrors
  <2> HIDE DEF lost, denied
  <2>2. Tolerated(AggregateErrors(schema, asks)) <=> (Bare \/ lost = {}) /\ denied = {}
    BY <2>1, ToleratedErrors, ToleratedUnion
  <2>3. lost = {} <=> named = found
    BY DEF lost
  <2>4. denied = {} <=> \A a \in found : MayAggregate(schema.fields[a[2]], a[1])
    BY DEF denied
  <2>5. Bare => found = {}
    BY DEF Known, Bare
  <2>6. QED
    BY <2>2, <2>3, <2>4, <2>5
<1>6. Tolerated(ValidateAll(schema, asks)) <=>
        /\ Tolerated(SettingsErrors(schema, asks))
        /\ IF ~schema.hasTable THEN Tolerated(Errors("TABLE_NOT_FOUND", {"*"}))
           ELSE /\ Tolerated(NameErrors(schema, asks)) /\ Tolerated(AggregateErrors(schema, asks))
                /\ Tolerated(RelationErrors(schema, asks))
  <2>1. CASE schema.hasTable
    <3>1. ValidateAll(schema, asks) =
            SettingsErrors(schema, asks) \cup
              (NameErrors(schema, asks) \cup AggregateErrors(schema, asks)
                 \cup RelationErrors(schema, asks))
      BY <2>1 DEF ValidateAll
    <3>2. QED
      BY <2>1, <3>1 DEF Tolerated
  <2>2. CASE ~schema.hasTable
    <3>1. ValidateAll(schema, asks) =
            SettingsErrors(schema, asks) \cup Errors("TABLE_NOT_FOUND", {"*"})
      BY <2>2 DEF ValidateAll
    <3>2. QED
      BY <2>2, <3>1 DEF Tolerated
  <2>3. QED
    BY <2>1, <2>2
<1>7. QED
  BY <1>1, <1>2, <1>3, <1>4, <1>5, <1>6 DEF Validates, NamesAllowed, Bare

\* Parse and ParseJSON with ValidateAll accept the same queries and make the same of
\* them, for every schema, but for what WaysInAgree names.
THEOREM TwoWaysIn == Spec => []WaysInAgree
<1>1. PagingInv => WaysInAgree
  <2>1. SUFFICES ASSUME PagingInv, parses.count = 1, SameInBoth(direct.body),
                        direct.stage \in {"refused", IF schema = NoSchema THEN "parsed"
                                                     ELSE "validated"}
                 PROVE  IF direct.stage # "refused" /\ \A e \in direct.errors : OnlyReported(e)
                        THEN parses.stage = "parsed" /\ parses.query = direct.query
                        ELSE parses.stage = "refused"
    BY DEF WaysInAgree
  <2>2. parses.stage = Verdict(direct.body) /\ parses.query = Result(direct.body)
    BY <2>1 DEF PagingInv, ParseInv
  <2>3. Rewritten(direct.body) = direct.body /\ ~RefusedAtOnce(asks) /\ ~Negative(direct.body.offset)
    BY <2>1, RewrittenOnce DEF SameInBoth, PagingInv, GivenTyped
  <2>4. Marshalled(direct.body) = direct.body
    BY <2>1, MarshalledIs DEF SameInBoth, PagingInv, GivenTyped
  <2>5. Fails(direct.body) <=> (NoQueryInJSON(direct.body)
                                \/ (schema # NoSchema /\ ~Validates(schema, asks)))
    BY <2>1, <2>3, <2>4 DEF Fails, Refused, NoQueryInJSON, SameInBoth
  <2>6. CASE direct.stage = "refused"
    BY <2>1, <2>2, <2>5, <2>4, <2>6 DEF PagingInv, DirectInv, Verdict
  <2>7. CASE direct.stage = "parsed" /\ schema = NoSchema
    BY <2>1, <2>2, <2>3, <2>5, <2>4, <2>7 DEF PagingInv, DirectInv, Verdict, Result
  <2>8. CASE direct.stage = "validated" /\ schema # NoSchema
    BY <2>1, <2>2, <2>3, <2>5, <2>4, <2>8, ReportAgrees DEF PagingInv, DirectInv, Tolerated, Verdict, Result
  <2>9. QED
    BY <2>1, <2>6, <2>7, <2>8
<1>2. QED
  BY PagingInvHolds, <1>1, PTL
-----------------------------------------------------------------------------
(***************************************************************************)
(* The depth of an include tree.                                           *)
(***************************************************************************)

\* A finite set of integers that is not empty has a maximum: of the sets of those
\* above one of them, a smallest is empty.
LEMMA MaxExists ==
    ASSUME NEW D \in SUBSET Int, IsFiniteSet(D), D # {}
    PROVE  Max(D) \in D /\ \A j \in D : j <= Max(D)
<1> DEFINE Above(k) == {j \in D : j > k}
           Uppers == {U \in SUBSET D : \E k \in D : U = Above(k)}
<1>1. Uppers # {} /\ Uppers \subseteq SUBSET D
  <2>1. PICK k \in D : TRUE
    OBVIOUS
  <2>2. Above(k) \in Uppers
    BY <2>1
  <2>3. QED
    BY <2>2
<1>2. PICK U \in Uppers : \A V \in Uppers : <<V, U>> \notin StrictSubsetOrdering(D)
  <2>1. IsWellFoundedOn(StrictSubsetOrdering(D), SUBSET D)
    BY FS_StrictSubsetOrderingWellFounded, FS_FiniteSubsetsOfFinite
  <2> HIDE DEF Uppers
  <2>2. QED
    BY <1>1, <2>1, WFMin
<1>3. PICK k \in D : U = Above(k)
  BY <1>2
<1>4. \A j \in D : j <= k
  <2>1. SUFFICES ASSUME NEW j \in D, j > k PROVE FALSE
    OBVIOUS
  <2>2. j \in Int /\ k \in Int /\ \A i \in D : i \in Int
    OBVIOUS
  <2>3. (\A i \in D : i > j => i > k) /\ ~(j > j)
    BY <2>1, <2>2
  <2>4. Above(j) \subseteq U /\ j \in U /\ j \notin Above(j)
    BY <1>3, <2>1, <2>3
  <2>5. Above(j) \in Uppers
    OBVIOUS
  <2>6. Above(j) \in SUBSET D /\ U \in SUBSET D /\ Above(j) # U
    BY <2>4, <1>2
  <2> HIDE DEF Above, Uppers
  <2>7. <<Above(j), U>> \in StrictSubsetOrdering(D)
    BY <2>4, <2>6 DEF StrictSubsetOrdering
  <2>8. QED
    BY <1>2, <2>5, <2>7
<1>5. k \in Int /\ \A j \in D : j \in Int /\ k >= j
  BY <1>4
<1>6. Max(D) \in D /\ \A j \in D : Max(D) >= j
  BY <1>5 DEF Max
<1>7. QED
  BY <1>6

\* The longest of finitely many paths.
LEMMA LongestIs ==
    ASSUME NEW paths \in SUBSET Path, IsFiniteSet(paths)
    PROVE  /\ Longest(paths) \in Nat
           /\ \A p \in paths : Len(p) \in Nat \ {0} /\ Len(p) <= Longest(paths)
           /\ Longest(paths) = 0 \/ \E p \in paths : Len(p) = Longest(paths)
<1> DEFINE lens == {Len(p) : p \in paths}
           f == [p \in paths |-> Len(p)]
<1>1. f \in Surjection(paths, lens)
  BY DEF Surjection
<1>2. IsFiniteSet(lens)
  <2> HIDE DEF f, lens
  <2>1. QED
    BY <1>1, FS_Surjection
<1>3. \A p \in paths : Len(p) \in Nat \ {0}
  <2>1. \A p \in paths : p \in Seq(STRING) /\ p # << >>
    BY DEF Path
  <2>2. QED
    BY <2>1, LenProperties, EmptySeq
<1>4. lens \cup {0} \in SUBSET Nat
  BY <1>3
<1>5. IsFiniteSet(lens \cup {0})
  <2> HIDE DEF lens
  <2>1. QED
    BY <1>2, FS_AddElement
<1>6. Max(lens \cup {0}) \in lens \cup {0} /\ \A j \in lens \cup {0} : j <= Max(lens \cup {0})
  <2> HIDE DEF lens
  <2>1. QED
    BY <1>4, <1>5, MaxExists
<1>7. Longest(paths) = Max(lens \cup {0})
  BY DEF Longest
<1> DEFINE m == Max(lens \cup {0})
<1> HIDE DEF m
<1>8. m \in Nat /\ (m = 0 \/ \E p \in paths : Len(p) = m) /\ \A p \in paths : Len(p) <= m
  BY <1>4, <1>6 DEF m
<1>9. QED
  BY <1>3, <1>7, <1>8 DEF m

\* An include that is opened has a deeper one in it.
Filled(include) ==
    \A p \in include.opened : \E q \in include.paths : Len(q) = Len(p) + 1 /\ SubSeq(q, 1, Len(p)) = p

\* The parser's depth counts no less than the longest path, and no more unless an
\* include in it is empty.
LEMMA ParserDepth ==
    ASSUME NEW include \in Include, IsTree(include)
    PROVE  /\ IncludeDepth(include) \in Nat
           /\ Longest(include.paths) <= IncludeDepth(include)
           /\ Filled(include) => IncludeDepth(include) <= Longest(include.paths)
<1> DEFINE ends == {Len(p) + 1 : p \in include.opened}
           f == [p \in include.opened |-> Len(p) + 1]
           top == Longest(include.paths)
<1>1. /\ include.paths \in SUBSET Path /\ IsFiniteSet(include.paths)
      /\ include.opened \in SUBSET include.paths
  BY DEF Include, IsTree
<1>2. /\ top \in Nat
      /\ \A p \in include.paths : Len(p) \in Nat \ {0} /\ Len(p) <= top
  BY <1>1, LongestIs
<1>3. IsFiniteSet(ends)
  <2>1. f \in Surjection(include.opened, ends)
    BY DEF Surjection
  <2>2. IsFiniteSet(include.opened)
    BY <1>1, FS_Subset
  <2> HIDE DEF f, ends
  <2>3. QED
    BY <2>1, <2>2, FS_Surjection
<1>4. {top} \cup ends \in SUBSET Nat
  BY <1>1, <1>2
<1>5. IncludeDepth(include) = Max({top} \cup ends)
  BY DEF IncludeDepth
<1>6. /\ IncludeDepth(include) \in {top} \cup ends
      /\ \A j \in {top} \cup ends : j <= IncludeDepth(include)
  <2>1. IsFiniteSet({top} \cup ends)
    <3> HIDE DEF ends, top
    <3>1. ends \cup {top} = {top} \cup ends
      OBVIOUS
    <3>2. QED
      BY <1>3, <3>1, FS_AddElement
  <2> HIDE DEF ends, top
  <2>2. QED
    BY <1>4, <1>5, <2>1, MaxExists
<1>7. Filled(include) => \A j \in ends : j <= top
  <2>1. SUFFICES ASSUME Filled(include), NEW p \in include.opened
                 PROVE  Len(p) + 1 <= top
    OBVIOUS
  <2>2. PICK q \in include.paths : Len(q) = Len(p) + 1
    BY <2>1 DEF Filled
  <2>3. QED
    BY <1>2, <2>2
<1> HIDE DEF ends, top
<1>8. QED
  BY <1>2, <1>4, <1>6, <1>7 DEF top

\* The schema's depth counts no more than the longest path, and no less if every
\* include that is opened names its fields.
LEMMA SchemaDepth ==
    ASSUME NEW include \in Include, IsTree(include)
    PROVE  /\ Depth(include) \in Nat /\ Depth(include) <= Longest(include.paths)
           /\ include.opened \subseteq include.fields => Depth(include) = Longest(include.paths)
<1> DEFINE seen == {p \in include.paths :
                       \A k \in 1 .. Len(p) - 1 : SubSeq(p, 1, k) \in include.fields}
<1>1. include.paths \in SUBSET Path /\ IsFiniteSet(include.paths)
  BY DEF Include, IsTree
<1>2. Depth(include) = Longest(seen)
  BY DEF Depth
<1>3. seen \in SUBSET include.paths
  OBVIOUS
<1>4. include.opened \subseteq include.fields => seen = include.paths
  BY DEF IsTree
<1> HIDE DEF seen
<1>5. IsFiniteSet(seen) /\ seen \in SUBSET Path
  BY <1>1, <1>3, FS_Subset
<1>6. /\ Longest(seen) \in Nat /\ Longest(include.paths) \in Nat
      /\ Longest(seen) = 0 \/ \E p \in seen : Len(p) = Longest(seen)
      /\ \A p \in include.paths : Len(p) <= Longest(include.paths)
  BY <1>1, <1>5, LongestIs
<1>7. QED
  BY <1>2, <1>3, <1>4, <1>6

\* What is accepted is within the caps, and what is within them is refused for
\* something else, for every include tree and every cap.
THEOREM DepthIsCapped == Spec => []NestingIsCapped
<1>1. PagingInv => NestingIsCapped
  <2> DEFINE include == asks.include
             depth == Longest(include.paths)
             within == /\ options.maxNesting <= 0 \/ depth <= options.maxNesting
                       /\ \/ schema = NoSchema
                          \/ schema.settings.maxDepth <= 0
                          \/ depth <= schema.settings.maxDepth
             w == Marshalled(Rewritten(direct.body))
             body == Marshalled(direct.body)
             open == [options EXCEPT !.maxNesting = 0]
             deep == [schema EXCEPT !.settings.maxDepth = 0]
  <2>1. SUFFICES ASSUME PagingInv, parses.count > 0
                 PROVE
          /\ parses.stage = "parsed" /\ (include.opened \subseteq include.fields \/ schema = NoSchema)
               => within
          /\ parses.stage = "refused" /\ within /\ Filled(include) =>
               \/ RefusedAtOnce(asks)
               \/ direct.body.json /\ Negative(Normalised(direct.body).offset)
               \/ Overflows(Marshalled(Normalised(direct.body)))
               \/ Invalid(body, asks, open)
               \/ schema # NoSchema /\ ~Validates(deep, asks)
    BY DEF NestingIsCapped, Filled
  <2>2. /\ include \in Include /\ IsTree(include)
        /\ direct.body \in Page
        /\ options \in Options
        /\ schema # NoSchema =>
              /\ DOMAIN schema = {"hasTable", "settings", "fields", "relations"}
              /\ schema.settings \in Settings
    BY <2>1 DEF PagingInv, GivenTyped, Asking
  <2>3. parses.stage = Verdict(direct.body)
    BY <2>1 DEF PagingInv, ParseInv
  <2>4. w.limit = body.limit
    BY <2>2, RewrittenOnce DEF Marshalled, Page
  <2>5. /\ IncludeDepth(include) \in Nat /\ depth \in Nat /\ Depth(include) \in Nat
        /\ depth <= IncludeDepth(include)
        /\ Filled(include) => IncludeDepth(include) <= depth
        /\ Depth(include) <= depth
        /\ include.opened \subseteq include.fields => Depth(include) = depth
    <3>1. depth \in Nat
      BY <2>2, LongestIs DEF Include, IsTree
    <3> HIDE DEF depth, include
    <3>2. QED
      BY <2>2, <3>1, ParserDepth, SchemaDepth DEF depth
  <2>6. /\ options.maxNesting \in Int
        /\ schema # NoSchema => schema.settings.maxDepth \in Int
    BY <2>2 DEF Options, Settings
  <2>7. ASSUME parses.stage = "parsed", include.opened \subseteq include.fields \/ schema = NoSchema
        PROVE  within
    <3>1. ~Invalid(w, asks, options) /\ (schema # NoSchema => Validates(schema, asks))
      BY <2>3, <2>7 DEF Verdict, Fails, Refused
    <3>2. ~(options.maxNesting > 0 /\ IncludeDepth(include) > options.maxNesting)
      BY <3>1 DEF Invalid, OptionsRefuse
    <3>3. schema # NoSchema =>
            ~(schema.settings.maxDepth > 0 /\ Depth(include) > schema.settings.maxDepth)
      BY <3>1 DEF Validates, TooDeep
    <3> HIDE DEF depth, include
    <3>4. QED
      BY <2>5, <2>6, <2>7, <3>2, <3>3
  <2>8. ASSUME parses.stage = "refused", within, Filled(include), ~RefusedAtOnce(asks),
               ~(direct.body.json /\ Negative(Normalised(direct.body).offset)),
               ~Overflows(Marshalled(Normalised(direct.body)))
        PROVE  \/ Invalid(body, asks, open)
               \/ schema # NoSchema /\ ~Validates(deep, asks)
    <3>1. \/ Invalid(w, asks, options)
          \/ schema # NoSchema /\ ~Validates(schema, asks)
      <4>1. Rewritten(direct.body) = Normalised(direct.body)
            /\ Rewritten(direct.body).json = direct.body.json
        BY <2>2, <2>8, RewrittenOnce DEF Rewritten
      <4>2. Refused(Rewritten(direct.body))
        BY <2>3, <2>8 DEF Verdict, Fails
      <4>3. QED
        BY <2>8, <4>1, <4>2 DEF Refused
    <3>2. CASE Invalid(w, asks, options)
      <4>1. ~(options.maxNesting > 0 /\ IncludeDepth(include) > options.maxNesting)
        <5> HIDE DEF depth, include
        <5>1. QED
          BY <2>5, <2>6, <2>8
      <4>2. /\ open.maxLimit = options.maxLimit /\ open.maxNesting = 0
            /\ open.allowedFields = options.allowedFields
            /\ open.allowedIncludes = options.allowedIncludes
        BY <2>2 DEF Options
      <4>3. OptionsRefuse(asks, options) => OptionsRefuse(asks, open)
        BY <4>1, <4>2 DEF OptionsRefuse
      <4> HIDE DEF open
      <4>4. QED
        BY <2>4, <3>2, <4>2, <4>3 DEF Invalid
    <3>3. CASE schema # NoSchema /\ ~Validates(schema, asks)
      <4>1. ~TooDeep(schema, asks)
        <5>1. ~(schema.settings.maxDepth > 0 /\ Depth(include) > schema.settings.maxDepth)
          <6> HIDE DEF depth, include
          <6>1. QED
            BY <2>5, <2>6, <2>8, <3>3
        <5>2. QED
          BY <5>1 DEF TooDeep
      <4>2. /\ deep.hasTable = schema.hasTable /\ deep.fields = schema.fields
            /\ deep.relations = schema.relations
            /\ deep.settings.allowAggregate = schema.settings.allowAggregate
        BY <2>2, <3>3 DEF Settings
      <4> HIDE DEF deep
      <4>3. (AggregatesDisabled(schema, asks) <=> AggregatesDisabled(deep, asks))
              /\ (NamesAllowed(schema, asks) <=> NamesAllowed(deep, asks))
        BY <4>2 DEF AggregatesDisabled, NamesAllowed, May, Known
      <4>4. ~Validates(deep, asks)
        BY <3>3, <4>1, <4>2, <4>3 DEF Validates
      <4>5. QED
        BY <3>3, <4>4
    <3>4. QED
      BY <3>1, <3>2, <3>3
  <2>9. QED
    BY <2>1, <2>7, <2>8
<1>2. QED
  BY PagingInvHolds, <1>1, PTL
=============================================================================
