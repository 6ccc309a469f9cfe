---------------------------- MODULE MCIncludeJoin ----------------------------
(***************************************************************************)
(* Include trees with three entries, in every shape.                       *)
(***************************************************************************)
EXTENDS IncludeJoin

CONSTANTS a, b, c, sum, max

ThreeNodes == {a, b, c}
Users == <<"users">>

\* An entry's parent is a smaller entry or the query: every forest, once.
Parents == {p \in [ThreeNodes -> ThreeNodes \cup {Root}] :
              p[a] = Root /\ p[b] \in {Root, a} /\ p[c] \in {Root, a, b}}

Wheres == [ThreeNodes \cup {Root} -> BOOLEAN]
NoWhere == [n \in ThreeNodes \cup {Root} |-> FALSE]
NoAggs == [n \in ThreeNodes |-> {}]
Distinct == [n \in ThreeNodes |-> IF n = a THEN <<"a">> ELSE IF n = b THEN <<"b">> ELSE <<"c">>]

TheQuery(parent, rel, where, aggs, bad) ==
    [parent |-> parent, rel |-> rel, where |-> where, aggs |-> aggs, bad |-> bad]

\* Filters everywhere, aggregates on every entry, two of them on one.
AggChoices ==
    {g \in [ThreeNodes -> SUBSET Aggs] :
        g[a] \in {{}, {sum}} /\ g[b] \in {{}, {sum, max}} /\ g[c] \in {{}, {max}}}
ArgQueries ==
    {TheQuery(p, Distinct, w, g, x) : p \in Parents, w \in Wheres, g \in AggChoices, x \in {{}, {c}}}

\* Names: one part or two, among them the table's own.
Names == {<<"users">>, <<"a">>, <<"b">>, <<"a", "b">>}
NameQueries ==
    {q \in {TheQuery(p, r, NoWhere, NoAggs, {}) : p \in Parents, r \in [ThreeNodes -> Names]} :
        \A m, n \in ThreeNodes : m # n /\ q.parent[m] = q.parent[n] => q.rel[m] # q.rel[n]}

AllQueries == ArgQueries \cup NameQueries
==============================================================================
