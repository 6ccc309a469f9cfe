-------------------------------- MODULE Store --------------------------------
(***************************************************************************)
(* The table behind one SQL endpoint, and the requests the adapter takes   *)
(* for it.  The database is external: these operators say what one         *)
(* INSERT, UPDATE, DELETE or SELECT statement does to a table when the      *)
(* database runs it, which is all the adapter relies on.                   *)
(*                                                                         *)
(* A row carries its id and one abstract column `val'.  `by' and `idBy' are  *)
(* an observer's marks, which no statement reads: the request that inserted  *)
(* the row, and the one that gave it its present id, by the INSERT or by an  *)
(* UPDATE since.  A row that was there before the server started has a mark  *)
(* of its own, among Origins, for both.                                      *)
(***************************************************************************)
EXTENDS Integers

CONSTANTS
    Req,        \* the HTTP requests served, one goroutine each
    Keys,       \* the values an id column takes
    Vals,       \* the values of the other column
    NoId,       \* SQL NULL, and the absence of "id" in a data map
    Origins     \* marks the rows that no request of Req inserted

ASSUME KeysAreNumbers == Keys \subseteq Nat \ {0}
ASSUME NoIdIsNoKey == NoId \notin Int
ASSUME OriginsAreNoRequests == Origins \cap Req = {}

Id == Keys \cup {NoId}
Row == [id : Id, val : Vals, by : Req \cup Origins, idBy : Req \cup Origins]

\* A where clause is the set of ids it accepts; AllRows is the absent clause.
Where == SUBSET Id
AllRows == Id

\* What a request asks for.  `route' says whether the body has an "op" string
\* (Handle sends it to handleMutation) or not (handleQuery); `kind' is what it
\* does there, "bad" being a body the parser, the type assertions on data and
\* patch, or the transpiler refuse.  `cols' are the columns that data or patch
\* names - any, "id" among them - and `id' and `val' their values, or what the
\* database takes for a column that data leaves out.
Kinds == {"create", "update", "delete", "read", "bad"}
Columns == {"id", "val"}
Input == [route : {"op", "query"}, kind : Kinds, cols : SUBSET Columns,
          id : Id, val : Vals, where : Where]

Mutations == {"create", "update", "delete"}

Matching(t, w) == {row \in t : row.id \in w}

\* (Mutant: the column counts the id up once more.)
InsertedPastId(t, k, v, r) ==
    t \cup {[id |-> IF k = NoId THEN k ELSE k + 1, val |-> v, by |-> r, idBy |-> r]}

NewRow(k, v, r) == [id |-> k, val |-> v, by |-> r, idBy |-> r]
Inserted(t, k, v, r) == t \cup {NewRow(k, v, r)}

\* SET: the columns that the patch names, the id like any other.
Patched(row, i, r) ==
    [row EXCEPT !.val  = IF "val" \in i.cols THEN i.val ELSE @,
                !.id   = IF "id" \in i.cols THEN i.id ELSE @,
                !.idBy = IF "id" \in i.cols THEN r ELSE @]
PatchedRows(t, i, r) == {Patched(row, i, r) : row \in Matching(t, i.where)}
Updated(t, i, r) == (t \ Matching(t, i.where)) \cup PatchedRows(t, i, r)

Deleted(t, w) == t \ Matching(t, w)

\* (Mutant: MAX(id) without the + 1.)
IsMaxId(n, t) ==
    LET ids == {row.id : row \in t} \ {NoId} IN
    IF ids = {} THEN n = 1 ELSE n \in ids /\ \A k \in ids : k <= n

\* SELECT COALESCE(MAX(id), 0) + 1: n is one above the largest id, 1 when
\* there is none.  NULL ids are ignored by MAX.
IsNextId(n, t) ==
    LET ids == {row.id : row \in t} \ {NoId} IN
    /\ \A k \in ids : k < n
    /\ IF ids = {} THEN n = 1 ELSE n - 1 \in ids

\* The ids under which the statement of i may store a row: the one it names,
\* or, for NULL and when it leaves the column out, NULL or what the database
\* generates.
StoredIds(i) == IF i.kind = "create" /\ i.id = NoId THEN Id ELSE {i.id}

\* The table after the one statement of input i, run for request r; `k' is the
\* id under which a created row is stored.
Statement(t, i, k, r) ==
    IF i.kind = "create" THEN Inserted(t, k, i.val, r)
    ELSE IF i.kind = "update" THEN Updated(t, i, r)
    ELSE IF i.kind = "delete" THEN Deleted(t, i.where)
    ELSE t

\* A primary key or unique constraint on id refuses a statement that leaves a row
\* it wrote with the id of another; NULL is like no id.
Violates(t, i, k, r) ==
    \E row \in Statement(t, i, k, r) \ t, other \in Statement(t, i, k, r) :
        row # other /\ row.id = other.id /\ row.id # NoId

\* The rows the statement hands back when it is run as a query: a SELECT's
\* matches, and for an INSERT or UPDATE what RETURNING gives in a dialect that
\* has it.  TranspileDelete never asks for RETURNING.
ResultRows(t, i, k, r, returning) ==
    IF i.kind = "read" THEN Matching(t, i.where)
    ELSE IF i.kind = "create" /\ returning THEN {NewRow(k, i.val, r)}
    ELSE IF i.kind = "update" /\ returning THEN PatchedRows(t, i, r)
    ELSE {}
==============================================================================
