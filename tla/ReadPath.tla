------------------------------ MODULE ReadPath ------------------------------
(***************************************************************************)
(* A query with includes from end to end: the schema that SchemaCatalog    *)
(* loads, the columns and joins that the SQL transpiler asks for, the rows *)
(* of the database, and the tree that the hydrator makes of them.          *)
(*                                                                         *)
(* A row is a function from paths to values: the column "posts__id" is the *)
(* path <<"posts", "id">>.  A node is an object of the tree: its own       *)
(* values, and what is nested in it.                                       *)
(***************************************************************************)
EXTENDS SchemaCatalog, Integers, FiniteSets

CONSTANTS
    Null,           \* NULL, nil
    Decoded(_),     \* what Hydrate makes of a value: a text that reads as a
                    \* number becomes that number
    Default,        \* no "fields"
    Everything,     \* no "where"
    Queries(_, _)   \* the queries tried on a schema and a database

(* A query: table, fields, limit (0 is none) and include, a function from  *)
(* relations to [fields, count, where, skip, limit, include].  "count" says *)
(* whether there is an aggregate; "where" is the set of ids it accepts;    *)
(* skip and limit are numbers, or absent.                                  *)
Absent == -1

VARIABLES
    query, rows,    \* the query and the rows that answer it
    result          \* what Hydrate returns

readVars == <<query, rows, result>>
vars == <<catalogVars, readVars>>

Fields(t) == schema[t].fields
Relations(t) == schema[t].relations
PrimaryKey(t) == IF t \in DOMAIN schema /\ schema[t].key # NoKey THEN schema[t].key ELSE "id"
-----------------------------------------------------------------------------
(* Transpile and processJoin.                                              *)

\* The columns of an include are those it names, or all; those of the root are
\* those it names, or all if nothing else is selected.  (An include selects
\* something, here or below.)
Columns(t, q, path) ==
    IF q.fields # Default THEN q.fields
    ELSE IF path # <<>> THEN Fields(t)
    ELSE IF q.include = Empty THEN db.columns[t] ELSE {}

\* ON: the rows of the target that belong to a row, and those that "where" accepts.
Belongs(row, rel, r) ==
    LET foreign == IF rel.type = "hasOne" THEN row[rel.field] ELSE r[rel.field]
        key == IF rel.type = "hasOne" THEN r.id ELSE row.id
    IN  foreign # Null /\ foreign = key
Related(row, rel, i) ==
    {r \in db.rows[rel.table] : Belongs(row, rel, r) /\ (i.where = Everything \/ r.id \in i.where)}

\* skip and limit: ROW_NUMBER() partitioned by the relation's field, over rows not
\* yet filtered.  In SQLite the quoted name of no column is a text, the same for all.
RowNumber(rel, r) ==
    LET partition(s) == IF rel.field \in DOMAIN s THEN s[rel.field] ELSE rel.field
    IN  Cardinality({s \in db.rows[rel.table] : partition(s) = partition(r) /\ s.id <= r.id})
IsPaged(i) == i.limit # Absent \/ i.skip # Absent
Skip(i) == IF i.skip = Absent THEN 0 ELSE i.skip
Paged(row, rel, i) ==
    {r \in Related(row, rel, i) :
        /\ i.limit # Absent => RowNumber(rel, r) <= i.limit + Skip(i)
        /\ i.skip # Absent => RowNumber(rel, r) > i.skip}

\* The transpiler knows the relations; the database knows the columns.  Only a strict
\* one, which is not SQLite, refuses to partition by what is no column.
RECURSIVE Unknown(_, _)
Unknown(t, q) ==
    \E n \in DOMAIN q.include :
        \/ n \notin DOMAIN Relations(t)
        \/ Unknown(Relations(t)[n].table, q.include[n])
RECURSIVE Fails(_, _, _, _)
Fails(strict, t, q, path) ==
    \/ ~(Columns(t, q, path) \subseteq db.columns[t])
    \/ \E n \in DOMAIN q.include :
         LET rel == Relations(t)[n] IN
         \/ rel.field \notin db.columns[IF rel.type = "hasOne" THEN t ELSE rel.table]
         \/ strict /\ IsPaged(q.include[n]) /\ rel.field \notin db.columns[rel.table]
         \/ Fails(strict, rel.table, q.include[n], Append(path, n))

\* The rows of the LEFT JOINs that a row of t takes part in: one for each way to
\* choose a child, or nulls, from every include.
NullRow(t) == [c \in db.columns[t] |-> Null]
\* (Mutant: an inner join.)
InnerJoin(t, children) == SetToSeq(children)
LeftJoin(t, children) == IF children = {} THEN <<NullRow(t)>> ELSE SetToSeq(children)
Cells(path, columns, row) ==
    [p \in {Append(path, c) : c \in columns} |-> row[Last(p)]]
RECURSIVE Joined(_, _, _, _)
Joined(t, q, path, row) ==
    LET Join(n, before) ==
          LET rel == Relations(t)[n]
              i == q.include[n]
              at == Append(path, n)
              children == LeftJoin(rel.table, Paged(row, rel, i))
              subquery == IF i.count THEN Append(at, "count") :> Cardinality(Related(row, rel, i))
                          ELSE Empty
              below == FlattenSeq([k \in DOMAIN children |-> Joined(rel.table, i, at, children[k])])
          IN  FlattenSeq([j \in DOMAIN before |->
                            [k \in DOMAIN below |-> before[j] @@ subquery @@ below[k]]])
    IN  FoldSeq(Join, <<Cells(path, Columns(t, q, path), row)>>, SetToSeq(DOMAIN q.include))

Selected(q) ==
    LET roots == SetToSeq(db.rows[q.table]) IN
    FlattenSeq([k \in DOMAIN roots |-> Joined(q.table, q, <<>>, roots[k])])
-----------------------------------------------------------------------------
(* Hydrate.                                                                *)

\* A value goes to its path.  If a column has the name of a relation, the walk
\* stops there and what was to be nested lands beside it, over what is there.
Stops(row, p) == \E k \in 1 .. Len(p) - 1 : SubSeq(p, 1, k) \in DOMAIN row
Cell(row, p) ==
    IF ~Stops(row, p) THEN p
    ELSE LET k == CHOOSE k \in 1 .. Len(p) - 1 :
                    /\ SubSeq(p, 1, k) \in DOMAIN row
                    /\ \A j \in 1 .. k - 1 : SubSeq(p, 1, j) \notin DOMAIN row
         IN  Append(SubSeq(p, 1, k - 1), Last(p))
Placed(row) ==
    [c \in {Cell(row, p) : p \in DOMAIN row} |->
        LET from == {p \in DOMAIN row : Cell(row, p) = c}
            last == IF from = {c} THEN c ELSE CHOOSE p \in from \ {c} : TRUE
        IN  Decoded(row[last])]

\* The nested maps of one row.
RECURSIVE Nested(_)
Nested(row) ==
    LET deep == {p \in DOMAIN row : Len(p) > 1} IN
    [own |-> [c \in {p[1] : p \in DOMAIN row \ deep} |-> row[<<c>>]],
     kids |-> [n \in {p[1] : p \in deep} |->
                 Nested([p \in {Tail(d) : d \in {e \in deep : e[1] = n}} |-> row[<<n>> \o p]])]]
Has(node, n) == n \in DOMAIN node.own \cup DOMAIN node.kids

\* (Mutant: any value will do.)
ValidIfAny(node, key) == node.kids # Empty \/ \E c \in DOMAIN node.own : node.own[c] # Null

\* isValidRow: with a key, the key is not nil; without, something is not nil - and
\* a nested map never is.
Valid(node, key) ==
    IF key \in DOMAIN node.own THEN node.own[key] # Null
    ELSE node.kids # Empty \/ \E c \in DOMAIN node.own : node.own[c] # Null
\* (Mutant: rows without a key are one group.)
GroupKeyOrNil(nodes, i, key) ==
    IF key \in DOMAIN nodes[i].own /\ nodes[i].own[key] # Null
    THEN <<nodes[i].own[key]>> ELSE <<"row", 0>>

\* Rows are grouped by key, in the order of their first; each without a key is
\* alone.
GroupKey(nodes, i, key) ==
    IF key \in DOMAIN nodes[i].own /\ nodes[i].own[key] # Null
    THEN <<nodes[i].own[key]>> ELSE <<"row", i>>
Groups(nodes, key) ==
    LET Same(i, j) == GroupKey(nodes, i, key) = GroupKey(nodes, j, key)
        indices == [i \in DOMAIN nodes |-> i]
        firsts == SelectSeq(indices, LAMBDA i : \A j \in 1 .. i - 1 : ~Same(i, j))
        Group(i) == SelectSeq(indices, LAMBDA j : Same(i, j))
    IN  [g \in DOMAIN firsts |->
            LET members == Group(firsts[g]) IN [k \in DOMAIN members |-> nodes[members[k]]]]

\* A hasMany is an array, unless one row is left that has neither a key nor a known
\* field: then it is taken for an aggregate.  A hasOne is the first row or null.
IsAggregate(merged, t) ==
    /\ Len(merged) = 1
    /\ ~Has(merged[1], PrimaryKey(t))
    /\ \A c \in Fields(t) : ~Has(merged[1], c)
Shaped(merged, rel) ==
    IF rel.type = "hasMany"
    THEN IF IsAggregate(merged, rel.table) THEN [form |-> "object", nodes |-> merged]
                                           ELSE [form |-> "array", nodes |-> merged]
    ELSE IF merged # <<>> THEN [form |-> "object", nodes |-> <<merged[1]>>]
                          ELSE [form |-> "null", nodes |-> <<>>]

\* MergeRows: a relation that no row has is added, empty, if the row has all fields.
RECURSIVE MergeRows(_, _)
MergeRows(nodes, t) ==
    LET groups == Groups(nodes, PrimaryKey(t))
        Shown(group) ==
            {n \in DOMAIN Relations(t) :
                \/ \E k \in DOMAIN group : Has(group[k], n)
                \/ \A c \in Fields(t) : Has(group[1], c)}
        Sub(group, rel, n) ==
            LET having == SelectSeq(group, LAMBDA node :
                            n \in DOMAIN node.kids /\ Valid(node.kids[n], PrimaryKey(rel.table)))
            IN  MergeRows([k \in DOMAIN having |-> having[k].kids[n]], rel.table)
    IN  [g \in DOMAIN groups |->
            [own |-> Restrict(groups[g][1].own, DOMAIN groups[g][1].own \ DOMAIN Relations(t)),
             kids |-> [n \in Shown(groups[g]) |->
                         LET rel == Relations(t)[n] IN Shaped(Sub(groups[g], rel, n), rel)]]]

Hydrate(given, t) == MergeRows([k \in DOMAIN given |-> Nested(Placed(given[k]))], t)
-----------------------------------------------------------------------------
NoResult == [status |-> 0, nodes |-> <<>>]

Init == CatalogInit /\ query = Empty /\ rows = <<>> /\ result = NoResult

Catalog == query = Empty /\ CatalogNext /\ UNCHANGED readVars

\* A query arrives and is run (bound: one, on the schema first loaded).  Without
\* ORDER BY the rows come in any order, of which two are tried.  LIMIT counts joined
\* rows.  The database is strict or it is SQLite.
Top(s, n) == IF n = 0 \/ Len(s) <= n THEN s ELSE SubSeq(s, 1, n)
Run ==
    /\ phase = "loaded" /\ Len(loads) = 1 /\ query = Empty
    /\ query' \in Queries(schema, db)
    /\ \/ /\ Unknown(query'.table, query')
          /\ rows' = <<>> /\ result' = [status |-> 400, nodes |-> <<>>]
       \/ /\ ~Unknown(query'.table, query') /\ Fails(TRUE, query'.table, query', <<>>)
          /\ rows' = <<>> /\ result' = [status |-> 500, nodes |-> <<>>]
       \/ /\ ~Unknown(query'.table, query') /\ ~Fails(FALSE, query'.table, query', <<>>)
          /\ \E s \in {Selected(query'), Reverse(Selected(query'))} : rows' = Top(s, query'.limit)
          /\ result' = [status |-> 200, nodes |-> Hydrate(rows', query'.table)]
    /\ UNCHANGED catalogVars

Next == Catalog \/ Run
Spec == Init /\ [][Next]_vars
-----------------------------------------------------------------------------
(* What the tree should be: the row, and under each relation the rows that *)
(* belong to it.  Trees are compared without order, arrays with their      *)
(* lengths.                                                                *)
RECURSIVE Tree(_, _, _, _)
Tree(t, q, columns, row) ==
    LET asked == DOMAIN q.include
        implied == IF Fields(t) \subseteq columns THEN DOMAIN Relations(t) ELSE {}
        Below(n) ==
            LET rel == Relations(t)[n]
                i == q.include[n]
                count == Cardinality(Related(row, rel, i))
                kid(r) == LET k == Tree(rel.table, i, Columns(rel.table, i, <<n>>), r)
                          IN  IF i.count THEN [k EXCEPT !.own = @ @@ ("count" :> count)] ELSE k
            IN  {kid(r) : r \in Paged(row, rel, i)}
        Form(n, S) ==
            IF Relations(t)[n].type = "hasMany" THEN "array" ELSE IF S = {} THEN "null" ELSE "object"
    IN  [own |-> [c \in columns |-> row[c]],
         kids |-> [n \in asked \cup implied |->
                     LET S == IF n \in asked THEN Below(n) ELSE {}
                     IN  [form |-> Form(n, S), size |-> Cardinality(S), nodes |-> S]]]

RECURSIVE Unordered(_)
Unordered(node) ==
    [own |-> node.own,
     kids |-> [n \in DOMAIN node.kids |->
                 LET kid == node.kids[n] IN
                 [form |-> kid.form, size |-> Len(kid.nodes),
                  nodes |-> {Unordered(k) : k \in ToSet(kid.nodes)}]]]

IsTheTree(q, columns) ==
    /\ Len(result.nodes) = Cardinality(db.rows[q.table])
    /\ {Unordered(n) : n \in ToSet(result.nodes)} =
         {Tree(q.table, q, columns, r) : r \in db.rows[q.table]}

\* Columns and relations of the tables have different names, and no two keys decode
\* to one value.
Plain ==
    /\ \A t \in TableNames : db.columns[t] \cap DOMAIN Relations(t) = {}
    /\ \A t \in TableNames : \A r, s \in db.rows[t] : Decoded(r.id) = Decoded(s.id) => r = s
RECURSIVE Keyed(_, _, _)
Keyed(t, q, path) ==
    /\ PrimaryKey(t) = "id" /\ "id" \in Columns(t, q, path)
    /\ \A n \in DOMAIN q.include : Keyed(Relations(t)[n].table, q.include[n], Append(path, n))

\* Though two includes side by side multiply the rows and nested ones repeat their
\* parents, every object is in its place once: a query that selects every key, names
\* the columns of its root and has no limit there gets the tree.
KeyedQueriesNest ==
    /\ result.status = 200 /\ Plain
    /\ query.limit = 0 /\ Keyed(query.table, query, <<>>)
    => IsTheTree(query, Columns(query.table, query, <<>>))

\* Whatever keys are left out: every object is its row, under the object of the row
\* it belongs to, and every row is found under its parent, once or more often.  The
\* exceptions: an include without its key that has a count or includes of its own
\* is taken for a child where there is none, and one whose values are all null is
\* dropped.
Shows(node, row) ==
    \A c \in DOMAIN node.own \ {"count"} : node.own[c] = Decoded(row[c])
RECURSIVE Faithful(_, _, _, _)
Faithful(node, t, q, row) ==
    /\ Shows(node, row)
    /\ \A n \in DOMAIN node.kids \cap DOMAIN q.include :
         LET rel == Relations(t)[n] IN
         \A kid \in ToSet(node.kids[n].nodes) : \E r \in Paged(row, rel, q.include[n]) :
             Faithful(kid, rel.table, q.include[n], r)
RECURSIVE Covered(_, _, _, _)
Covered(nodes, t, q, row) ==
    LET mine == {node \in nodes : Shows(node, row)} IN
    /\ mine # {}
    /\ \A n \in DOMAIN q.include :
         LET rel == Relations(t)[n]
             i == q.include[n]
         IN  \A r \in Paged(row, rel, i) :
               \/ i.include = Empty /\ \A c \in Columns(rel.table, i, <<n>>) : r[c] = Null
               \/ Covered(UNION {ToSet(node.kids[n].nodes) : node \in mine}, rel.table, i, r)
RECURSIVE NoPhantoms(_, _)
NoPhantoms(t, q) ==
    \A n \in DOMAIN q.include :
        LET rel == Relations(t)[n]
            i == q.include[n]
        IN  /\ PrimaryKey(rel.table) \notin Columns(rel.table, i, <<n>>) => ~i.count /\ i.include = Empty
            /\ NoPhantoms(rel.table, i)
NothingInventedOrLost ==
    result.status = 200 /\ Plain /\ NoPhantoms(query.table, query) =>
        /\ \A node \in ToSet(result.nodes) : \E r \in db.rows[query.table] :
             Faithful(node, query.table, query, r)
        /\ query.limit = 0 =>
             \A r \in db.rows[query.table] : Covered(ToSet(result.nodes), query.table, query, r)

\* A limit counts the objects of the answer, as long as they are keyed and every
\* include is a hasOne; a hasMany makes a page shorter.  The skip and limit of a
\* hasMany, 0 included, count the children of each parent by itself; since the row
\* numbers are given before the filter, a filter only makes the page shorter.
RECURSIVE OnlyHasOne(_, _)
OnlyHasOne(t, q) ==
    \A n \in DOMAIN q.include :
        Relations(t)[n].type = "hasOne" /\ OnlyHasOne(Relations(t)[n].table, q.include[n])
PageSize(all, skip, limit) ==
    LET after == IF all > skip THEN all - skip ELSE 0 IN
    IF limit # Absent /\ limit < after THEN limit ELSE after
LimitsCountObjects ==
    result.status = 200 =>
        /\ query.limit > 0 => Len(result.nodes) <= query.limit
        /\ query.limit > 0 /\ Plain /\ OnlyHasOne(query.table, query) =>
              Len(result.nodes) = PageSize(Cardinality(db.rows[query.table]), 0, query.limit)
        /\ query.limit = 0 /\ Plain /\ Keyed(query.table, query, <<>>) =>
              \A row \in db.rows[query.table] : \A n \in DOMAIN query.include :
                  LET rel == Relations(query.table)[n]
                      i == query.include[n]
                      children == Related(row, rel, [i EXCEPT !.where = Everything])
                      page == PageSize(Cardinality(children), Skip(i), i.limit)
                  IN  rel.type = "hasMany" =>
                        \E node \in ToSet(result.nodes) :
                            /\ Shows(node, row) /\ n \in DOMAIN node.kids
                            /\ Len(node.kids[n].nodes) <= page
                            /\ i.where = Everything => Len(node.kids[n].nodes) = page
=============================================================================
