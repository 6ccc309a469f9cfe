------------------------------- MODULE MCWhere -------------------------------
(***************************************************************************)
(* Two columns, two values and null; clauses up to three levels deep, with  *)
(* every order of their keys; and clauses built by up to three calls on two *)
(* builders, asked for at any moment, after a reset too.                    *)
(***************************************************************************)
EXTENDS Builder, TLC

CONSTANTS f, g

TwoFields == {f, g}
AllRows == [TwoFields -> {1, 2, Null}]

\* The strings "a", "A", "_", "%" and "a$", in columns that hold "a" and "a$", for which
\* the values 1 and 2 stand; LIKE tells the case of "A".
Pattern(whole, part, start, end, quoted, regex, signs) ==
    Text([wild |-> [whole |-> whole, part |-> part, start |-> start, end |-> end],
          literal |-> quoted, regex |-> regex, wildcards |-> "wild" \in signs,
          metas |-> "meta" \in signs, cased |-> "case" \in signs])
Quoted(part, start, end) == [part |-> part, start |-> start, end |-> end]
LowerA == Pattern({1}, {1, 2}, {1, 2}, {1}, Quoted({1, 2}, {1, 2}, {1}), {1, 2}, {})
UpperA == Pattern({}, {}, {}, {}, Quoted({1, 2}, {1, 2}, {1}), {1, 2}, {"case"})
AnyOne == Pattern({1}, {1, 2}, {1, 2}, {1, 2}, Quoted({}, {}, {}), {1, 2}, {"wild"})
AnyAll == Pattern({1, 2}, {1, 2}, {1, 2}, {1, 2}, Quoted({}, {}, {}), {1, 2}, {"wild"})
Dollar == Pattern({2}, {2}, {2}, {2}, Quoted({2}, {2}, {2}), {1}, {"meta"})

\* What a field may be given: each operator, pairs of them, and the corner cases.
OddOps ==
    {Empty, "unknown" :> Value(1), "unknown" :> Value(1) @@ "eq" :> Value(1),
     "eq" :> Value(Null), "neq" :> Value(Null), "gt" :> Value(Null), "gte" :> Value(Null),
     "eq" :> Ref(g), "gt" :> Ref(g), "ne" :> OtherTable, "bare" :> Value(Null),
     "in" :> List(<< >>), "nin" :> List(<< >>), "in" :> List(<<Null, 1>>),
     "nin" :> List(<<Null, 1>>), "in" :> Value(1),
     "eq" :> BadRef, "lt" :> BadRef, "starts" :> Value(1), "like" :> Value(1),
     "eq" :> Value(1) @@ "ends" :> Value(1), "like" :> LowerA @@ "ends" :> Dollar,
     "contains" :> AnyAll, "contains" :> Dollar @@ "starts" :> LowerA, "starts" :> AnyOne,
     "ends" :> AnyOne, "like" :> Dollar,
     "eq" :> Value(1) @@ "gt" :> Value(1), "neq" :> Value(1) @@ "ne" :> Value(2)}
PlainOpMaps ==
    {"bare" :> Value(1), "eq" :> Value(2), "neq" :> Value(1), "ne" :> Value(2),
     "gt" :> Value(1), "gte" :> Value(2), "lt" :> Value(2), "lte" :> Value(1),
     "in" :> List(<<1>>), "in" :> List(<<2, 1>>), "nin" :> List(<<2>>), "nin" :> List(<<1, 2>>),
     "like" :> LowerA, "like" :> AnyOne, "like" :> AnyAll, "like" :> UpperA,
     "contains" :> LowerA, "contains" :> UpperA, "starts" :> Dollar, "starts" :> LowerA,
     "ends" :> UpperA, "ends" :> LowerA @@ "neq" :> Value(2),
     "gt" :> Value(1) @@ "lte" :> Value(2) @@ "nin" :> List(<<2>>)}
FewOps == {"eq" :> Value(1), "neq" :> Value(2), "in" :> List(<<2, 1>>), "in" :> List(<< >>), "unknown" :> Value(1)}

Single(F, Ops) == {<< On(x, ops) >> : x \in F, ops \in Ops}
Pairs(Ops) == {<< On(f, o1), On(g, o2) >> : o1, o2 \in Ops} \cup {<< On(g, o1), On(f, o2) >> : o1, o2 \in Ops}

Flat == {<< >>, << On("bad name", "eq" :> Value(1)) >>} \cup Single({f}, OddOps \cup PlainOpMaps) \cup Pairs(FewOps)
Few == {<< >>} \cup Single({f}, FewOps) \cup Single({g}, {"gte" :> Value(2)})
              \cup {<< On(g, "lt" :> Value(2)), On(f, "nin" :> List(<<1>>)) >>}

ListsOf(C) == {<< >>} \cup {<<c>> : c \in C} \cup {<<c, d>> : c, d \in C}
Nested(C) ==
    {<< Logic(key, items) >> : key \in {"or", "and"}, items \in ListsOf(C)}
        \cup {<< Logic("not", <<c>>) >> : c \in C}

\* Each operator under each logical operator.
Under(C) == {<< Logic(key, <<c>>) >> : key \in {"or", "and", "not"}, c \in C}

\* A logical operator next to a field or to its other spelling, in both orders.
Beside(C) ==
    LET others == {On(f, "eq" :> Value(1)), Logic("OR", << <<On(g, "eq" :> Value(1))>> >>),
                   Logic("NOT", << <<On(g, "eq" :> Value(1))>> >>)}
    IN  {<< e, c[1] >> : e \in others, c \in C} \cup {<< c[1], e >> : e \in others, c \in C}

Level2 == Nested(Few)
Level3 == {<< Logic("not", <<c>>) >> : c \in Level2}
            \cup {<< Logic("or", << <<On(g, "eq" :> Value(2))>>, c >>) >> : c \in Level2}

-----------------------------------------------------------------------------
Is(x, v) == On(x, "eq" :> Value(v))
SomeMaps ==
    {<< Is(f, 1) >>, << Logic("and", << <<Is(f, 1)>> >>) >>, << Logic("or", << <<Is(f, 1)>>, <<Is(g, 1)>> >>) >>,
     << Is(g, 2), Logic("and", << <<Is(f, 1)>> >>) >>, << Logic("or", << <<Is(f, 1)>> >>), Is(g, 1) >>}
SomeConditions == {<< Is(f, 2) >>, << Is(f, 1), Is(g, 2) >>, << Is(f, 2), Logic("or", << <<Is(g, 1)>> >>) >>}

Given == Flat \cup Under(Single({f}, OddOps \cup PlainOpMaps)) \cup Level2 \cup Beside(Level2) \cup Level3
Deeper(S) == S \cup UNION {Subclauses(w) : w \in S}
AllClauses == Deeper(Deeper(Deeper(Given \cup Built[CallBound])))

RECURSIVE Height(_)
Height(w) == 1 + Max({0} \cup {Height(v) : v \in Subclauses(w)})
-----------------------------------------------------------------------------
\* Databases of which Where's assumptions hold.
RECURSIVE Sql(_, _)
Sql(c, r) == TruthGiven(c, {Sql(c.subs[i], r) : i \in DOMAIN c.subs}, r)
RECURSIVE Mongo(_, _)
Mongo(filter, r) ==
    \A k \in DOMAIN filter :
        KeySelects(k, filter[k], {i \in DOMAIN filter[k] : Mongo(filter[k][i], r)}, r)
=============================================================================
