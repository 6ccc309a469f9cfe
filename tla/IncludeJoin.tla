----------------------------- MODULE IncludeJoin -----------------------------
(***************************************************************************)
(* How the transpiler turns an "include" tree into SELECT parts, JOIN      *)
(* parts and arguments (Transpile and processJoin, transpiler.go).         *)
(*                                                                         *)
(* processJoin ranges over Go maps - the includes of one level and the      *)
(* aggregates of one include - so every order of them is a behaviour.  It   *)
(* appends to three slices as it goes; the SQL text is put together later,  *)
(* all SELECT parts first, then all JOIN parts, then the WHERE, and the     *)
(* placeholders are numbered from left to right in that text.               *)
(*                                                                         *)
(* Of the text, the model keeps the table aliases and, of the SELECT parts  *)
(* and the JOINs, the placeholders from left to right.                      *)
(* An argument is named by what it is for: a where clause stands for one    *)
(* placeholder, however many conditions it has, because processWhere        *)
(* returns its conditions and their arguments in the same order.            *)
(***************************************************************************)
EXTENDS Naturals, Sequences, FiniteSets, SequencesExt

CONSTANTS
    Node,       \* the entries of the include tree
    Root,       \* the query itself
    Aggs,       \* names of aggregates
    RootTable,  \* the name of the queried table
    Queries     \* the queries, see Query

\* A name is the sequence of its parts between underscores, so that joining two
\* names with "_" is concatenation.
Name == Seq(STRING)

(***************************************************************************)
(* A query: the tree, and for each entry its relation's name, whether it    *)
(* has a where clause, its aggregates, and whether processJoin refuses it   *)
(* (an unknown relation, a value that is no object, a bad where clause).    *)
(***************************************************************************)
Query == [parent : [Node -> Node \cup {Root}],
          rel    : [Node -> Name],
          where  : [Node \cup {Root} -> BOOLEAN],
          aggs   : [Node -> SUBSET Aggs],
          bad    : SUBSET Node]

Includes(q, p) == {n \in Node : q.parent[n] = p}

ASSUME RootIsNoNode == Root \notin Node
ASSUME OnIsNoAggregate == "on" \notin Aggs
ASSUME AggregatesAreFinite == IsFiniteSet(Aggs)
ASSUME NamesTyped == RootTable \in Name
ASSUME QueriesTyped == \A q \in Queries :
    /\ q.parent \in [Node -> Node \cup {Root}]
    /\ q.rel \in [Node -> Name]
    /\ q.where \in [Node \cup {Root} -> BOOLEAN]
    /\ q.aggs \in [Node -> SUBSET Aggs]
    /\ q.bad \subseteq Node
    /\ \A m, n \in Node :    \* keys of one map differ
          m # n /\ q.parent[m] = q.parent[n] => q.rel[m] # q.rel[n]

VARIABLES
    query,
    calls,          \* the running calls of processJoin, the innermost last
    selectMarks,    \* the placeholders of the subqueries selected for aggregates
    joinParts,      \* the LEFT JOINs
    joinMarks,      \* the placeholders of their ON clauses
    args,           \* the arguments
    status          \* "running", "done" or "error"

vars == <<query, calls, selectMarks, joinParts, joinMarks, args, status>>

\* What an argument, and its placeholder, is for.
OnArg(n) == <<n, "on">>
AggArg(n, a) == <<n, a>>
WhereArg == <<Root, "where">>

\* (Mutant: the nested call gets the relation's name for the parent's alias.)
CallByRelation(n, alias, left) == [of |-> n, alias |-> << Last(alias) >>, left |-> left]

\* A call of processJoin: the entry whose include map it ranges over, the alias
\* of that entry's table, and the keys the range has not reached.
Call(n, alias, left) == [of |-> n, alias |-> alias, left |-> left]

Init ==
    /\ query \in Queries
    /\ calls = << Call(Root, RootTable, Includes(query, Root)) >>
    /\ selectMarks = << >>
    /\ joinParts = << >>
    /\ joinMarks = << >>
    /\ args = << >>
    /\ status = "running"
-----------------------------------------------------------------------------
InnerCall == Last(calls)

\* (Mutant: the alias is the relation's name at every level.)
AliasIsRelation(call, n) == query.rel[n]

\* currentTableAlias: the relation's name at the top level, below it the parent's
\* alias and the name joined with "_".
AliasOf(call, n) ==
    IF call.of = Root THEN query.rel[n] ELSE call.alias \o query.rel[n]

\* (Mutants: one argument for all subqueries; reversed arguments.)
SubQueryArgsOnce(n, order) ==
    IF query.where[n] /\ order # << >> THEN << AggArg(n, order[1]) >> ELSE << >>
SubQueryArgsReversed(n, order) ==
    IF query.where[n] THEN Reverse([i \in DOMAIN order |-> AggArg(n, order[i])]) ELSE << >>

\* The placeholders of the subqueries of n's aggregates, in the order the range took
\* them, and their arguments: each subquery repeats the where clause of the include.
SubQueryMarks(n, order) ==
    IF query.where[n] THEN [i \in DOMAIN order |-> AggArg(n, order[i])] ELSE << >>
SubQueryArgs(n, order) ==
    IF query.where[n] THEN [i \in DOMAIN order |-> AggArg(n, order[i])] ELSE << >>

\* The ON clause ends in the where clause of the include.
OnMarks(n) == IF query.where[n] THEN << OnArg(n) >> ELSE << >>
OnArgs(n) == IF query.where[n] THEN << OnArg(n) >> ELSE << >>

\* One iteration of the range: aggregates, the ON clause with the where clause,
\* the JOIN, and the nested call, which returns before the next iteration.
Visit(n) ==
    LET alias == AliasOf(InnerCall, n) IN
    /\ status = "running"
    /\ calls # << >>
    /\ n \in InnerCall.left \ query.bad
    /\ \E order \in SetToSeqs(query.aggs[n]) :
         /\ selectMarks' = selectMarks \o SubQueryMarks(n, order)
         /\ args' = args \o SubQueryArgs(n, order) \o OnArgs(n)
    /\ joinParts' = Append(joinParts,
                        [for |-> n, alias |-> alias, parent |-> InnerCall.alias])
    /\ joinMarks' = joinMarks \o OnMarks(n)
    /\ calls' = Append(
                    [calls EXCEPT ![Len(calls)].left = @ \ {n}],
                    Call(n, alias, Includes(query, n)))
    /\ UNCHANGED <<query, status>>

\* The range is over: the call returns to the iteration that made it.
Return ==
    /\ status = "running"
    /\ calls # << >>
    /\ InnerCall.left = {}
    /\ calls' = Front(calls)
    /\ UNCHANGED <<query, selectMarks, joinParts, joinMarks, args, status>>

\* An error returns through every call and fails the query.
Fail(n) ==
    /\ status = "running"
    /\ calls # << >>
    /\ n \in InnerCall.left \cap query.bad
    /\ calls' = << >>
    /\ status' = "error"
    /\ UNCHANGED <<query, selectMarks, joinParts, joinMarks, args>>

\* Transpile goes on with the query's own where clause.
Finish ==
    /\ status = "running"
    /\ calls = << >>
    /\ args' = IF query.where[Root] THEN Append(args, WhereArg) ELSE args
    /\ status' = "done"
    /\ UNCHANGED <<query, calls, selectMarks, joinParts, joinMarks>>

Next == (\E n \in Node : Visit(n) \/ Fail(n)) \/ Return \/ Finish

Spec == Init /\ [][Next]_vars
-----------------------------------------------------------------------------
\* The placeholders in the order of the text: SELECT, then JOINs, then WHERE.
WhereMarks == IF query.where[Root] /\ status = "done" THEN << WhereArg >> ELSE << >>
Placeholders == selectMarks \o joinMarks \o WhereMarks

\* At every moment the slices hold one argument for each placeholder, so the
\* database never refuses the statement for their number - whatever it then
\* does with their order.
EveryPlaceholderHasOneArgument ==
    /\ Len(args) = Len(Placeholders)
    /\ ToSet(args) = ToSet(Placeholders)

\* The arguments are in the order of the placeholders unless an include with
\* aggregates and a where clause came after another one with a where clause: then
\* its subquery stands before that JOIN in the text and after it in args.
FilterThenAggregate ==
    \E i, j \in DOMAIN joinParts :
        /\ i < j
        /\ query.where[joinParts[i].for]
        /\ query.where[joinParts[j].for]
        /\ query.aggs[joinParts[j].for] # {}

MisorderedExactlyAfterFilter ==
    (args = Placeholders) <=> ~FilterThenAggregate

\* A JOIN refers only to its own alias and to one the text has already
\* introduced: parents are joined before their includes, in every order.
ParentsJoinedFirst ==
    \A j \in DOMAIN joinParts :
        \/ joinParts[j].parent = RootTable
        \/ \E i \in 1 .. j - 1 : joinParts[i].alias = joinParts[j].parent

\* No two tables of the statement have one alias, if neither the table nor a
\* relation has an underscore in its name and no relation at the top level has the
\* name of the table.
SimpleNamesHaveUniqueAliases ==
    LET simple == Len(RootTable) = 1 /\ \A n \in Node : Len(query.rel[n]) = 1
        rootFree == \A n \in Includes(query, Root) : query.rel[n] # RootTable
    IN  simple /\ rootFree =>
            \A i, j \in DOMAIN joinParts :
                /\ i # j => joinParts[i].alias # joinParts[j].alias
                /\ joinParts[i].alias # RootTable

\* transpiler.go:424: the where clause of an include is in its ON clause, to
\* support "filter included items" - with the values the client gave for it.
FiltersGetTheirValues == args = Placeholders
=============================================================================
