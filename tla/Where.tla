-------------------------------- MODULE Where --------------------------------
(***************************************************************************)
(* A where clause in both transpilers (processWhere of transpiler.go and   *)
(* of mongo_transpiler.go), and the rows each result selects.              *)
(*                                                                         *)
(* A clause is a JSON object.  Go ranges over it in any order, so a clause  *)
(* is the sequence of its entries in the order the range took.  An entry    *)
(* whose key is a field has its operators in `ops', a function from the     *)
(* operators' names to arguments; an entry whose key is a logical operator  *)
(* has subclauses in `items'.  processWhere calls itself: it is a function  *)
(* on a set of clauses that nest.                                           *)
(*                                                                         *)
(* A string that is to be found in a column is what each matcher makes of   *)
(* it: LIKE, with % before, behind or around the string, and MongoDB's       *)
(* regular expressions, of which three quote the string and anchor it, and   *)
(* the fourth, for like, does neither.  Such columns hold strings of one     *)
(* line.                                                                    *)
(*                                                                         *)
(* The databases are external: SQL has three truth values, and MongoDB      *)
(* compares a missing or null field as a value.                            *)
(***************************************************************************)
EXTENDS Integers, Sequences, SequencesExt

CONSTANTS
    Null,               \* JSON null, SQL NULL, a missing field
    Fields,             \* the columns, model values
    Clauses,            \* the where clauses, and the clauses in them
    Depth(_),           \* how deep a clause nests
    Rows,               \* the rows they are tried on
    Sql3(_, _),         \* what SQL makes of a condition on a row
    MongoSelects(_, _)  \* whether MongoDB selects a row by a filter

ASSUME NullIsSpecial == Null \notin Int /\ Null \notin Fields
ASSUME RowsTyped == \A row \in Rows : DOMAIN row = Fields /\ \A f \in Fields : row[f] \in Int \cup {Null}

\* Arguments: a value, a list of values, a string used as a pattern, a reference
\* to a field of the same table, one to another table's, and one to no name.
Value(v) == [is |-> "value", of |-> <<v>>]
List(vs) == [is |-> "list", of |-> vs]
Text(t) == [is |-> "text", of |-> t]
Ref(f) == [is |-> "ref", of |-> <<f>>]
OtherTable == [is |-> "dotted", of |-> << >>]
BadRef == [is |-> "badref", of |-> << >>]

\* Entries.  `bare' is {field: value}, which both transpilers treat like eq.
On(field, ops) == [key |-> field, ops |-> ops, items |-> << >>]
Logic(key, items) == [key |-> key, ops |-> << >>, items |-> items]
OrKeys == {"or", "OR"}
AndKeys == {"and", "AND"}
NotKeys == {"not", "NOT"}
LogicKeys == OrKeys \cup AndKeys \cup NotKeys
ASSUME FieldsTyped == Fields \cap (LogicKeys \cup {"$or", "$and", "$nor"}) = {}

Scalar == {"gt", "gte", "lt", "lte"}
Patterns == {"contains", "starts", "ends"}
Known == {"bare", "eq", "neq", "ne", "like", "in", "nin"} \cup Scalar \cup Patterns

\* What a string is a pattern of: `wild', the values that LIKE finds by it, as it is,
\* anywhere, at the start and at the end; `literal', those that MongoDB finds by it
\* quoted, in either case, at these places; `regex', those it finds by it with .* for
\* % and . for _, none if that is no regular expression.  It has `wildcards' if LIKE
\* reads a character otherwise, `metas' if a regular expression does, beside % and _,
\* and is `cased' if it has letters and LIKE tells their case.
Places == {"part", "start", "end"}
Anchor(op) == CASE op = "like" -> "whole" [] op = "contains" -> "part"
                [] op = "starts" -> "start" [] op = "ends" -> "end"
TextMeans(t) ==
    /\ \A at \in {"whole"} \cup Places : t.wild[at] \subseteq Int
    /\ ~t.wildcards => \A at \in Places : t.wild[at] \subseteq t.literal[at]
    /\ ~t.wildcards /\ ~t.cased => \A at \in Places : t.wild[at] = t.literal[at]
    /\ ~t.metas => t.wild["whole"] \subseteq t.regex

\* An object with operators none of which is known.
UnknownOperator(ops) == DOMAIN ops # {} /\ DOMAIN ops \cap Known = {}

\* A JSON object: its keys differ, and it nests no deeper than its text.  `not' has
\* one clause, if it has any.
Subclauses(w) == UNION {ToSet(w[i].items) : i \in DOMAIN w}
ASSUME ClausesNest ==
    /\ UNION {Subclauses(w) : w \in Clauses} \subseteq Clauses
    /\ \A w \in Clauses : Depth(w) \in Nat /\ \A v \in Subclauses(w) : Depth(v) < Depth(w)
ASSUME ClausesTyped ==
    \A w \in Clauses :
        /\ w \in Seq(ToSet(w))
        /\ \A i, j \in DOMAIN w : w[i].key = w[j].key => i = j
        /\ \A i \in DOMAIN w :
              /\ w[i].items \in Seq(ToSet(w[i].items))
              /\ w[i].key \notin LogicKeys => w[i].items = << >>
              /\ w[i].key \in NotKeys => Len(w[i].items) <= 1
              /\ \A op \in DOMAIN w[i].ops :
                    /\ w[i].ops[op].is \in {"value", "list"} => w[i].ops[op].of \in Seq(Int \cup {Null})
                    /\ w[i].ops[op].is = "text" => TextMeans(w[i].ops[op].of)
-----------------------------------------------------------------------------
(* SQL.  A condition remembers in `args' the values its placeholders are for. *)

Condition(op, subs, args) == [op |-> op, subs |-> subs, field |-> Null, ref |-> Null, args |-> args]
OnField(op, f, args) == [Condition(op, << >>, args) EXCEPT !.field = f]
\* (Mutant: subconditions joined with OR.)
AnyOf(conds) == Condition("OR", conds, FlattenSeq([i \in DOMAIN conds |-> conds[i].args]))
AllOf(conds) == Condition("AND", conds, FlattenSeq([i \in DOMAIN conds |-> conds[i].args]))

\* The result of processWhere: conditions and, beside them, arguments.
Result(conds, args) == [error |-> FALSE, conds |-> conds, args |-> args]
Nothing == Result(<< >>, << >>)
Refusal == [Nothing EXCEPT !.error = TRUE]
One(cond) == Result(<< cond >>, cond.args)

\* (Mutant: each part's arguments before those of the parts it follows.)
JoinedBackwards(results) ==
    IF \E i \in DOMAIN results : results[i].error THEN Refusal
    ELSE Result(FlattenSeq([i \in DOMAIN results |-> results[i].conds]),
                FlattenSeq(Reverse([i \in DOMAIN results |-> results[i].args])))

\* The results of the parts, one after the other; an error ends the range.
Joined(results) ==
    IF \E i \in DOMAIN results : results[i].error THEN Refusal
    ELSE Result(FlattenSeq([i \in DOMAIN results |-> results[i].conds]),
                FlattenSeq([i \in DOMAIN results |-> results[i].args]))

\* field op ?, or field op field, or with a null where the code looks for one.
Comparison(f, op, arg) ==
    IF arg.is = "ref" THEN One([OnField(op, f, << >>) EXCEPT !.ref = arg.of[1]])
    ELSE IF arg.is = "dotted" THEN One([OnField(op, f, << >>) EXCEPT !.ref = Null])
    ELSE IF arg.is = "badref" THEN Refusal
    ELSE One(OnField(op, f, << arg >>))

Equality(f, op, nullOp, arg) ==
    IF arg = Value(Null) THEN One(OnField(nullOp, f, << >>)) ELSE Comparison(f, op, arg)

\* (Mutant: NOT IN is left out.)
MembershipInOnly(f, op, arg) ==
    IF arg.is = "list" /\ arg.of # << >> /\ op = "IN"
    THEN One(OnField(op, f, [i \in DOMAIN arg.of |-> Value(arg.of[i])]))
    ELSE Nothing

\* IN and NOT IN want a list, and are left out if it is empty.
Membership(f, op, arg) ==
    IF arg.is = "list" /\ arg.of # << >>
    THEN One(OnField(op, f, [i \in DOMAIN arg.of |-> Value(arg.of[i])]))
    ELSE Nothing

\* LIKE, with % where the operator wants it.  What is no string is formatted: null
\* becomes a string that no value has.
Like(op, arg) ==
    [is |-> "like",
     of |-> IF arg.is = "text" THEN arg.of.wild[Anchor(op)]
            ELSE ToSet(arg.of) \ (IF op \in Patterns THEN {Null} ELSE {})]

SqlOperator(f, op, arg) ==
    CASE op \in {"bare", "eq"} -> Equality(f, "=", "IS NULL", arg)
      [] op \in {"neq", "ne"} -> Equality(f, "!=", "IS NOT NULL", arg)
      [] op = "gt" -> Comparison(f, ">", arg) [] op = "gte" -> Comparison(f, ">=", arg)
      [] op = "lt" -> Comparison(f, "<", arg) [] op = "lte" -> Comparison(f, "<=", arg)
      [] op = "in" -> Membership(f, "IN", arg) [] op = "nin" -> Membership(f, "NOT IN", arg)
      [] op \in {"like"} \cup Patterns -> One(OnField("LIKE", f, << Like(op, arg) >>))

\* The operators of one field, in the order the code asks for them; ne, if there is no
\* neq.
SqlOrder == << "bare", "eq", "neq", "ne", "gt", "gte", "lt", "lte", "like", "in", "nin",
               "contains", "starts", "ends" >>
SqlField(f, ops) ==
    LET Asked(op) == op \in DOMAIN ops /\ (op = "ne" => "neq" \notin DOMAIN ops) IN
    Joined([i \in DOMAIN SqlOrder |->
        IF Asked(SqlOrder[i]) THEN SqlOperator(f, SqlOrder[i], ops[SqlOrder[i]]) ELSE Nothing])

\* The subclauses' conditions in brackets, and beside them their arguments; those
\* without conditions are left out.
Bracketed(results) ==
    FlattenSeq([i \in DOMAIN results |->
        IF results[i].conds = << >> THEN << >> ELSE << AllOf(results[i].conds) >>])
SubArgs(results) ==
    FlattenSeq([i \in DOMAIN results |-> IF results[i].conds = << >> THEN << >> ELSE results[i].args])
Args(conds) == FlattenSeq([i \in DOMAIN conds |-> conds[i].args])

\* An entry, with the results for its subclauses.
SqlEntry(e, subs) ==
    LET brackets == Bracketed(subs)
        Nest(op) == Result(<< Condition(op, brackets, Args(brackets)) >>, SubArgs(subs))
    IN
    IF \E i \in DOMAIN subs : subs[i].error THEN Refusal
    ELSE IF e.key \in OrKeys /\ brackets # << >> THEN Nest("OR")
    ELSE IF e.key \in AndKeys THEN Result(brackets, SubArgs(subs))
    ELSE IF e.key \in NotKeys /\ brackets # << >> THEN Nest("NOT")
    ELSE IF e.key \in LogicKeys THEN Nothing
    ELSE IF e.key \notin Fields \/ UnknownOperator(e.ops) THEN Refusal
    ELSE SqlField(e.key, e.ops)

SqlWhere[w \in Clauses] ==
    Joined([i \in DOMAIN w |->
        SqlEntry(w[i], [j \in DOMAIN w[i].items |-> SqlWhere[w[i].items[j]]])])
-----------------------------------------------------------------------------
(* MongoDB.  A filter is a function from keys to what they ask for.          *)

Empty == << >>  \* the function, and the filter, with no keys
Filter(key, value) == [k \in {key} |-> value]

Accepted(filter) == [error |-> FALSE, filter |-> filter]
Refused == [error |-> TRUE, filter |-> Empty]

\* filter[key] = value, over what an earlier part put there; an error ends the range.
Merged(results) ==
    LET Writers(k) == {i \in DOMAIN results : k \in DOMAIN results[i].filter}
        Latest(k) == CHOOSE i \in Writers(k) : \A j \in Writers(k) : j <= i
    IN
    IF \E i \in DOMAIN results : results[i].error THEN Refused
    ELSE Accepted([k \in UNION {DOMAIN results[i].filter : i \in DOMAIN results} |->
                      results[Latest(k)].filter[k]])

\* The key of a field's document "$ne" is for neq or else ne; there is one "$regex":
\* the last pattern that the code asks for.
Source(key, ops) ==
    CASE key = "ne" -> IF "neq" \in DOMAIN ops THEN "neq" ELSE "ne"
      [] key = "regex" -> IF "ends" \in DOMAIN ops THEN "ends"
                          ELSE IF "starts" \in DOMAIN ops THEN "starts"
                          ELSE IF "contains" \in DOMAIN ops THEN "contains" ELSE "like"
      [] OTHER -> key

\* What is put there for the operator: for a string a regular expression, in either
\* case; contains, starts and ends quote and anchor it, like does not.
MongoArg(op, arg) ==
    IF arg.is = "text" /\ op = "like" THEN [is |-> "regex", of |-> arg.of.regex]
    ELSE IF arg.is = "text" /\ op \in Patterns THEN [is |-> "regex", of |-> arg.of.literal[Anchor(op)]]
    ELSE arg

\* The operators that go into a field's document; in and nin want a list, like a
\* string.
MongoOps(ops) ==
    LET Goes(op) == /\ op \in DOMAIN ops
                    /\ op \in {"in", "nin"} => ops[op].is = "list"
                    /\ op = "like" => ops[op].is = "text"
    IN  [key \in {k \in Scalar \cup {"ne", "in", "nin", "regex"} : Goes(Source(k, ops))} |->
            MongoArg(Source(key, ops), ops[Source(key, ops)])]

\* eq is looked at first, and ends the field whatever else it has; nothing is put
\* into the filter if there are no operators.
MongoField(f, ops) ==
    LET equal == DOMAIN ops \cap {"bare", "eq"}
        doc == MongoOps(ops)
    IN  IF equal # {} THEN Filter(f, [is |-> "eq", value |-> ops[CHOOSE op \in equal : TRUE]])
        ELSE IF DOMAIN doc # {} THEN Filter(f, [is |-> "ops", value |-> doc])
        ELSE Empty

\* A pattern that is no string, if eq did not end the field before it.
NoString(ops) ==
    /\ DOMAIN ops \cap {"bare", "eq"} = {}
    /\ \E op \in Patterns \cap DOMAIN ops : ops[op].is # "text"

\* (Mutant: logical operators are left out, with the errors in them.)
MongoEntryAlone(e, subs) ==
    IF e.key \in LogicKeys THEN Accepted(Empty)
    ELSE IF e.key \notin Fields \/ UnknownOperator(e.ops) \/ NoString(e.ops) THEN Refused
    ELSE Accepted(MongoField(e.key, e.ops))

\* An entry, with the results for its subclauses.
MongoEntry(e, subs) ==
    LET filters == [j \in DOMAIN subs |-> subs[j].filter] IN
    IF \E j \in DOMAIN subs : subs[j].error THEN Refused
    ELSE IF e.key \in OrKeys /\ subs # << >> THEN Accepted(Filter("$or", filters))
    ELSE IF e.key \in AndKeys /\ subs # << >> THEN Accepted(Filter("$and", filters))
    ELSE IF e.key \in NotKeys /\ subs # << >> /\ DOMAIN filters[1] # {}
         THEN Accepted(Filter("$nor", filters))
    ELSE IF e.key \in LogicKeys THEN Accepted(Empty)
    ELSE IF e.key \notin Fields \/ UnknownOperator(e.ops) \/ NoString(e.ops) THEN Refused
    ELSE Accepted(MongoField(e.key, e.ops))

MongoWhere[w \in Clauses] ==
    Merged([i \in DOMAIN w |->
        MongoEntry(w[i], [j \in DOMAIN w[i].items |-> MongoWhere[w[i].items[j]]])])
-----------------------------------------------------------------------------
(* What the databases make of it.                                            *)

Compare(op, x, y) ==
    CASE op = "=" -> x = y [] op = "!=" -> x # y [] op = ">" -> x > y
      [] op = ">=" -> x >= y [] op = "<" -> x < y [] op = "<=" -> x <= y

Known3(b) == IF b THEN "true" ELSE "false"
Not3(t) == CASE t = "true" -> "false" [] t = "false" -> "true" [] t = "unknown" -> "unknown"

In3(x, values) ==
    IF x = Null THEN "unknown"
    ELSE IF x \in values THEN "true"
    ELSE IF Null \in values THEN "unknown" ELSE "false"

\* A condition on a row, given what SQL makes of its parts.
TruthGiven(c, subs, row) ==
    LET x == row[c.field]
        values == {c.args[i].of[1] : i \in DOMAIN c.args}
        y == IF c.args # << >> THEN c.args[1].of[1] ELSE IF c.ref = Null THEN Null ELSE row[c.ref]
        all == IF "false" \in subs THEN "false" ELSE IF "unknown" \in subs THEN "unknown" ELSE "true"
        any == IF "true" \in subs THEN "true" ELSE IF "unknown" \in subs THEN "unknown" ELSE "false"
    IN
    CASE c.op = "AND" -> all
      [] c.op = "OR" -> any
      [] c.op = "NOT" -> Not3(all)
      [] c.op = "IS NULL" -> Known3(x = Null)
      [] c.op = "IS NOT NULL" -> Known3(x # Null)
      [] c.op = "IN" -> In3(x, values)
      [] c.op = "NOT IN" -> Not3(In3(x, values))
      [] c.op = "LIKE" -> In3(x, c.args[1].of)
      [] OTHER -> IF x = Null \/ y = Null THEN "unknown" ELSE Known3(Compare(c.op, x, y))
Truth(c, row) == TruthGiven(c, {Sql3(c.subs[i], row) : i \in DOMAIN c.subs}, row)

\* The conditions of a statement are joined with AND.
ASSUME SqlLogic ==
    \A w \in Clauses, r \in Rows :
        LET conds == SqlWhere[w].conds IN
        /\ Sql3(AllOf(conds), r) = Truth(AllOf(conds), r)
        /\ \A i \in DOMAIN conds : Sql3(conds[i], r) = Truth(conds[i], r)
SqlSelects(result, row) == \A i \in DOMAIN result.conds : Sql3(result.conds[i], row) = "true"

\* A reference reaches MongoDB as a document, which equals and compares to no
\* column's value.
MongoCompare(op, x, arg) ==
    IF arg.is \in {"ref", "dotted", "badref"} THEN op = "ne"
    ELSE IF op = "regex" THEN x # Null /\ x \in arg.of
    ELSE IF op \in {"in", "nin"} THEN (x \in ToSet(arg.of)) <=> (op = "in")
    ELSE LET y == arg.of[1] IN
         CASE op = "ne" -> x # y
           [] op \in {"gt", "lt"} -> x # Null /\ y # Null /\ Compare(IF op = "gt" THEN ">" ELSE "<", x, y)
           [] op \in {"gte", "lte"} ->
                \/ x = y
                \/ x # Null /\ y # Null /\ Compare(IF op = "gte" THEN ">" ELSE "<", x, y)

\* What a key of a filter asks for, given which of the filters in it select the row.
KeySelects(k, v, selecting, row) ==
    IF k = "$or" THEN selecting # {}
    ELSE IF k = "$and" THEN selecting = DOMAIN v
    ELSE IF k = "$nor" THEN selecting = {}
    ELSE IF v.is = "eq" THEN v.value.is = "value" /\ row[k] = v.value.of[1]
    ELSE \A op \in DOMAIN v.value : MongoCompare(op, row[k], v.value[op])
Matches(filter, row) ==
    \A k \in DOMAIN filter :
        KeySelects(k, filter[k], {i \in DOMAIN filter[k] : MongoSelects(filter[k][i], row)}, row)
ASSUME MongoLogic ==
    \A w \in Clauses, r \in Rows :
        MongoSelects(MongoWhere[w].filter, r) <=> Matches(MongoWhere[w].filter, r)
-----------------------------------------------------------------------------
VARIABLES
    where,      \* the clause
    row,        \* the row it is tried on
    stage,      \* "received", "transpiled" or "answered"
    sql,        \* processWhere's result in the SQL transpiler
    mongo,      \* ... and in the MongoDB transpiler
    selected    \* whether the row is selected, by each

vars == <<where, row, stage, sql, mongo, selected>>

Init ==
    /\ where \in Clauses
    /\ row \in Rows
    /\ stage = "received"
    /\ sql = Nothing
    /\ mongo = Accepted(Empty)
    /\ selected = [sql |-> FALSE, mongo |-> FALSE]

Transpile ==
    /\ stage = "received"
    /\ stage' = "transpiled"
    /\ sql' = SqlWhere[where]
    /\ mongo' = MongoWhere[where]
    /\ UNCHANGED <<where, row, selected>>

Select ==
    /\ stage = "transpiled"
    /\ stage' = "answered"
    /\ selected' = [sql |-> ~sql.error /\ SqlSelects(sql, row),
                    mongo |-> ~mongo.error /\ MongoSelects(mongo.filter, row)]
    /\ UNCHANGED <<where, row, sql, mongo>>

Next == Transpile \/ Select

Spec == Init /\ [][Next]_vars
-----------------------------------------------------------------------------
(* What a clause says, by itself.                                            *)

\* A clause and the clauses in it, at every depth.
Within[w \in Clauses] == {w} \cup UNION {Within[v] : v \in Subclauses(w)}

\* A string means the same to both matchers: letters too, and like never does.
EvenArg(op, arg) == arg.is = "text" => op \in Patterns /\ ~arg.of.wildcards /\ ~arg.of.cased
EvenHere(w) == \A i \in DOMAIN w : \A op \in DOMAIN w[i].ops : EvenArg(op, w[i].ops[op])
Even(w) == \A v \in Within[w] : EvenHere(v)

\* The clauses that say one thing: nothing is empty or null or a reference, eq is
\* alone, a field has one pattern, and each logical operator is spelled in one way.
\* A string has no character that its matcher in one database reads otherwise, and
\* what is negated means the same in both.
PlainArg(op, arg) ==
    IF arg.is = "text" THEN IF op = "like" THEN ~arg.of.metas ELSE ~arg.of.wildcards
    ELSE arg.is \in {"value", "list"} /\ arg.of # << >> /\ Null \notin ToSet(arg.of)
PlainOps(ops) ==
    /\ DOMAIN ops # {} /\ DOMAIN ops \subseteq Known
    /\ "neq" \notin DOMAIN ops \/ "ne" \notin DOMAIN ops
    /\ DOMAIN ops \cap {"bare", "eq"} # {} => \A o1, o2 \in DOMAIN ops : o1 = o2
    /\ \A o1, o2 \in DOMAIN ops \cap ({"like"} \cup Patterns) : o1 = o2
    /\ \A op \in DOMAIN ops :
          /\ PlainArg(op, ops[op])
          /\ ops[op].is = "list" <=> op \in {"in", "nin"}
          /\ ops[op].is = "text" <=> op \in {"like"} \cup Patterns

PlainHere(w) ==
    /\ w # << >>
    /\ \A keys \in {OrKeys, AndKeys, NotKeys} :
          \A i, j \in DOMAIN w : w[i].key \in keys /\ w[j].key \in keys => i = j
    /\ \A i \in DOMAIN w : IF w[i].key \in Fields THEN PlainOps(w[i].ops)
                          ELSE w[i].key \in LogicKeys /\ w[i].items # << >>
    /\ \A i \in DOMAIN w : w[i].key \in NotKeys => \A v \in ToSet(w[i].items) : Even(v)
Plain(w) == \A v \in Within[w] : PlainHere(v)

\* What an operator says; a pattern says it as LIKE tells letters.
OpHolds(op, x, arg) ==
    CASE op \in {"bare", "eq"} -> x = arg.of[1] [] op \in {"ne", "neq"} -> x # arg.of[1]
      [] op = "gt" -> x > arg.of[1] [] op = "gte" -> x >= arg.of[1]
      [] op = "lt" -> x < arg.of[1] [] op = "lte" -> x <= arg.of[1]
      [] op \in {"like"} \cup Patterns -> x \in arg.of.wild[Anchor(op)]
      [] op = "in" -> x \in ToSet(arg.of)
      [] op = "nin" -> x \notin ToSet(arg.of)

\* An entry is true of a row; `meant' are the rows that its subclauses are true of.
EntryHolds(e, meant, r) ==
    CASE e.key \in OrKeys -> \E j \in DOMAIN meant : r \in meant[j]
      [] e.key \in AndKeys -> \A j \in DOMAIN meant : r \in meant[j]
      [] e.key \in NotKeys -> \E j \in DOMAIN meant : r \notin meant[j]
      [] OTHER -> \A op \in DOMAIN e.ops : OpHolds(op, r[e.key], e.ops[op])
Meant[w \in Clauses] ==
    {r \in Rows : \A i \in DOMAIN w :
        EntryHolds(w[i], [j \in DOMAIN w[i].items |-> Meant[w[i].items[j]]], r)}
Holds(w, r) == r \in Meant[w]

\* A reference to no name, or a pattern that is no string, somewhere in a clause.
OddHere(w) ==
    \E i \in DOMAIN w : \/ NoString(w[i].ops)
                        \/ \E op \in DOMAIN w[i].ops : w[i].ops[op].is = "badref"
Odd(w) == \E v \in Within[w] : OddHere(v)

NullFree(r) == \A f \in Fields : r[f] # Null
Answered == stage = "answered"
-----------------------------------------------------------------------------
\* The placeholders of the conditions, in the order of the text, are for the
\* arguments, in order - at every depth and in every order of the range.  This is
\* what IncludeJoin takes for granted of a where clause.
ArgumentsFollowPlaceholders ==
    stage # "received" => sql.args = Args(sql.conds)

\* On a row without nulls a plain clause means in SQL what it says, and in MongoDB
\* too if it has no like and no letters whose case LIKE tells.
PlainClausesAgree ==
    Answered /\ Plain(where) /\ NullFree(row) =>
        /\ selected.sql = Holds(where, row)
        /\ Even(where) => selected.mongo = Holds(where, row)

\* Where nulls, letters and like make the databases differ, they differ one way: a
\* row that a plain clause selects in SQL, it selects in MongoDB.
SqlRowsAreMongoRows ==
    Answered /\ Plain(where) /\ selected.sql => selected.mongo

\* Both transpilers refuse the same clauses, unless one has a reference to no name
\* or a pattern that is no string.
RefusedAlike ==
    stage # "received" /\ ~Odd(where) => (sql.error <=> mongo.error)
=============================================================================
