-------------------------- MODULE IncludeJoinProofs --------------------------
(***************************************************************************)
(* What holds of the slices processJoin fills, for every include tree, any *)
(* aggregates and filters, and every order the ranges over the maps take.  *)
(***************************************************************************)
EXTENDS IncludeJoin, SequenceTheorems, FiniteSetTheorems, TLAPS

\* The placeholders, and so the arguments, of each kind.
AggMark == Node \X Aggs
OnMark == Node \X {"on"}
Mark == AggMark \cup OnMark \cup {WhereArg}

\* The types of a running call and of a JOIN.
Calls == [of : Node \cup {Root}, alias : Name, left : SUBSET Node]
JoinPart == [for : Node, alias : Name, parent : Name]

\* The types, of the code's slices and of the stack of calls.
TypeInv ==
    /\ query \in Queries
    /\ calls \in Seq(Calls)
    /\ selectMarks \in Seq(AggMark)
    /\ joinParts \in Seq(JoinPart)
    /\ joinMarks \in Seq(OnMark)
    /\ args \in Seq(Mark)
    /\ status \in {"running", "done", "error"}

\* The entries that have their JOIN.
Joined == {joinParts[i].for : i \in DOMAIN joinParts}

\* A running call works below the query's table, or below the table of a JOIN that
\* is already in the text.
Anchored(k) ==
    \/ calls[k].of = Root /\ calls[k].alias = RootTable
    \/ \E i \in DOMAIN joinParts :
          joinParts[i].for = calls[k].of /\ joinParts[i].alias = calls[k].alias

\* What a call has still to visit has no JOIN yet, and no two running calls range
\* over one map: so no entry is visited twice.
Ahead(k) == calls[k].left \subseteq Includes(query, calls[k].of) \ Joined

\* Every running call is so, and no two range over one map.
CallInv ==
    /\ \A k \in DOMAIN calls : Anchored(k) /\ Ahead(k)
    /\ \A k, l \in DOMAIN calls : calls[k].of = calls[l].of => k = l

\* A JOIN is an entry of the query's own map, under the name of its relation, or
\* hangs on an earlier JOIN and has that one's alias for a prefix.
TopPart(j) ==
    /\ query.parent[joinParts[j].for] = Root
    /\ joinParts[j].parent = RootTable
    /\ joinParts[j].alias = query.rel[joinParts[j].for]
NestedPart(j) ==
    \E i \in 1 .. j - 1 :
        /\ joinParts[i].for = query.parent[joinParts[j].for]
        /\ joinParts[i].alias = joinParts[j].parent
        /\ joinParts[j].alias = joinParts[i].alias \o query.rel[joinParts[j].for]

\* Every JOIN is one of these two, and no entry has two.
PartInv ==
    /\ \A j \in DOMAIN joinParts : TopPart(j) \/ NestedPart(j)
    /\ \A i, j \in DOMAIN joinParts : joinParts[i].for = joinParts[j].for => i = j

\* The hypotheses of SimpleNamesHaveUniqueAliases, and what it promises.
SimpleNames ==
    /\ Len(RootTable) = 1 /\ \A n \in Node : Len(query.rel[n]) = 1
    /\ \A n \in Includes(query, Root) : query.rel[n] # RootTable
AliasInv ==
    SimpleNames =>
        /\ \A i, j \in DOMAIN joinParts : joinParts[i].alias = joinParts[j].alias => i = j
        /\ \A i \in DOMAIN joinParts : joinParts[i].alias # RootTable

\* A JOIN with a filter has its argument; without such a JOIN there is no
\* placeholder in an ON clause; and once an aggregate came after a filter, some
\* argument of a subquery stands behind one of an ON clause.
Swapped ==
    \E i, j \in DOMAIN args : i < j /\ args[i] \in OnMark /\ args[j] \in AggMark
OrderInv ==
    /\ \A i \in DOMAIN joinParts :
          query.where[joinParts[i].for] => \E k \in DOMAIN args : args[k] \in OnMark
    /\ joinMarks # << >> => \E i \in DOMAIN joinParts : query.where[joinParts[i].for]
    /\ IF FilterThenAggregate THEN Swapped ELSE args = Placeholders

\* As many arguments as placeholders, and the same ones.
CountInv ==
    /\ Len(args) = Len(selectMarks) + Len(joinMarks) + Len(WhereMarks)
    /\ Range(args) = Range(selectMarks) \cup Range(joinMarks) \cup Range(WhereMarks)
-----------------------------------------------------------------------------
\* The queries are typed.
LEMMA QueryTyped ==
    ASSUME TypeInv
    PROVE  /\ query.parent \in [Node -> Node \cup {Root}]
           /\ query.rel \in [Node -> Name]
           /\ query.where \in [Node \cup {Root} -> BOOLEAN]
           /\ query.aggs \in [Node -> SUBSET Aggs]
           /\ \A m, n \in Node :
                 m # n /\ query.parent[m] = query.parent[n] => query.rel[m] # query.rel[n]
BY QueriesTyped DEF TypeInv

\* The order in which a range takes the aggregates of an include is a sequence of
\* them, and empty only if there are none.
LEMMA OrderIsASequence ==
    ASSUME NEW S \in SUBSET Aggs, NEW order \in SetToSeqs(S)
    PROVE  order \in Seq(S) /\ (S # {} => Len(order) >= 1)
<1> DEFINE size == Cardinality(S)
<1>1. IsFiniteSet(S)
  BY AggregatesAreFinite, FS_Subset
<1>2. size \in Nat /\ (S # {} => size # 0)
  BY <1>1, FS_CardinalityType, FS_EmptySet
<1>3. order \in [1 .. size -> S]
  BY DEF SetToSeqs
<1> HIDE DEF size
<1>4. QED
  BY <1>2, <1>3

\* The marks an iteration appends.
LEMMA MarksTyped ==
    ASSUME TypeInv, NEW n \in Node, NEW order \in SetToSeqs(query.aggs[n])
    PROVE  /\ SubQueryMarks(n, order) \in Seq(AggMark)
           /\ SubQueryArgs(n, order) = SubQueryMarks(n, order)
           /\ OnMarks(n) \in Seq(OnMark)
           /\ OnArgs(n) = OnMarks(n)
           /\ query.where[n] => OnMarks(n) = << OnArg(n) >>
           /\ ~query.where[n] => OnMarks(n) = << >> /\ SubQueryMarks(n, order) = << >>
           /\ query.where[n] /\ query.aggs[n] # {} => Len(SubQueryMarks(n, order)) >= 1
           /\ query.aggs[n] = {} => SubQueryMarks(n, order) = << >>
<1>1. query.aggs[n] \in SUBSET Aggs
  BY QueryTyped
<1>2. /\ order \in Seq(query.aggs[n])
      /\ query.aggs[n] # {} => Len(order) >= 1
  BY <1>1, OrderIsASequence
<1> DEFINE mapped == [i \in DOMAIN order |-> AggArg(n, order[i])]
<1>3. /\ Len(order) \in Nat /\ DOMAIN order = 1 .. Len(order)
      /\ \A i \in 1 .. Len(order) : order[i] \in query.aggs[n]
  BY <1>2, LenProperties, ElementOfSeq
<1>4. mapped \in [1 .. Len(order) -> AggMark]
  BY <1>1, <1>3 DEF AggMark, AggArg
<1>5. mapped \in Seq(AggMark) /\ Len(mapped) = Len(order)
  BY <1>3, <1>4
<1>6. query.aggs[n] = {} => mapped = << >>
  BY <1>2, <1>3, <1>5
<1>7. << OnArg(n) >> \in Seq(OnMark)
  BY DEF OnMark, OnArg
<1> HIDE DEF mapped
<1>8. SubQueryMarks(n, order) = IF query.where[n] THEN mapped ELSE << >>
  BY DEF SubQueryMarks, mapped
<1>9. SubQueryArgs(n, order) = SubQueryMarks(n, order)
  BY DEF SubQueryMarks, SubQueryArgs
<1>10. << >> \in Seq(AggMark) /\ << >> \in Seq(OnMark)
  OBVIOUS
<1>11. QED
  BY <1>2, <1>5, <1>6, <1>7, <1>8, <1>9, <1>10 DEF OnMarks, OnArgs

\* An iteration of the innermost call takes n from what it has left and pushes the
\* nested call; the other calls stay.
Pushes(n, top, alias) ==
    /\ top \in Nat \ {0} /\ DOMAIN calls = 1 .. top /\ DOMAIN calls' = 1 .. top + 1
    /\ calls[top] \in Calls /\ n \in calls[top].left
    /\ \A k \in 1 .. top : calls'[k].of = calls[k].of /\ calls'[k].alias = calls[k].alias
    /\ \A k \in 1 .. top - 1 : calls'[k].left = calls[k].left
    /\ calls'[top].left = calls[top].left \ {n}
    /\ calls'[top + 1].of = n
    /\ calls'[top + 1].alias = alias
    /\ calls'[top + 1].left = Includes(query, n)

\* It appends one JOIN.
Joins(n, old, alias, parent) ==
    /\ old \in Nat /\ DOMAIN joinParts = 1 .. old /\ DOMAIN joinParts' = 1 .. old + 1
    /\ \A j \in 1 .. old : joinParts[j] \in JoinPart /\ joinParts'[j] = joinParts[j]
    /\ joinParts'[old + 1].for = n
    /\ joinParts'[old + 1].alias = alias
    /\ joinParts'[old + 1].parent = parent

\* What a visit of n does to the stack and the JOINs.
LEMMA VisitSteps ==
    ASSUME TypeInv, NEW n \in Node, Visit(n)
    PROVE  /\ calls' \in Seq(Calls) /\ joinParts' \in Seq(JoinPart) /\ query' = query
           /\ AliasOf(InnerCall, n) \in Name
           /\ Pushes(n, Len(calls), AliasOf(InnerCall, n))
           /\ Joins(n, Len(joinParts), AliasOf(InnerCall, n), InnerCall.alias)
<1> DEFINE top == Len(calls)
           call == calls[top]
           alias == AliasOf(call, n)
           rest == [call EXCEPT !.left = @ \ {n}]
           part == [for |-> n, alias |-> alias, parent |-> call.alias]
           next == Call(n, alias, Includes(query, n))
           shrunk == [calls EXCEPT ![top] = rest]
<1>1. top \in Nat \ {0}
  BY EmptySeq DEF Visit, TypeInv
<1>2. call \in Calls
  BY <1>1, ElementOfSeq DEF TypeInv
<1>3. n \in call.left
  BY DEF Visit, InnerCall, Last
<1>4. alias \in Name
  <2>1. query.rel[n] \in Name /\ call.alias \in Name
    BY <1>2, QueryTyped DEF Calls
  <2>2. QED
    BY <2>1, ConcatProperties DEF AliasOf, Name
<1>5. rest \in Calls /\ part \in JoinPart
  BY <1>2, <1>4 DEF Calls, JoinPart
<1>6. next \in Calls
  BY <1>4 DEF Calls, Call, Includes
<1>7. [calls EXCEPT ![Len(calls)].left = @ \ {n}] = shrunk
  OBVIOUS
<1>8. calls' = Append(shrunk, next) /\ joinParts' = Append(joinParts, part) /\ query' = query
  BY <1>7 DEF Visit, InnerCall, Last
<1> HIDE DEF rest, part, next
<1>9. /\ shrunk \in Seq(Calls) /\ Len(shrunk) = top
      /\ \A k \in 1 .. top : shrunk[k] = IF k = top THEN rest ELSE calls[k]
  BY <1>1, <1>5, ExceptSeq DEF TypeInv
<1> HIDE DEF shrunk
<1>10. /\ calls' \in Seq(Calls) /\ Len(calls') = top + 1
       /\ \A k \in 1 .. top : calls'[k] = shrunk[k]
       /\ calls'[top + 1] = next
  BY <1>6, <1>8, <1>9, AppendProperties
<1>11. /\ joinParts' \in Seq(JoinPart) /\ Len(joinParts') = Len(joinParts) + 1
       /\ \A j \in 1 .. Len(joinParts) : joinParts'[j] = joinParts[j]
       /\ joinParts'[Len(joinParts) + 1] = part
  BY <1>5, <1>8, AppendProperties DEF TypeInv
<1>12. /\ \A k \in 1 .. top - 1 : calls'[k] = calls[k]
       /\ calls'[top] = rest
  BY <1>1, <1>9, <1>10
<1>13. /\ rest.of = call.of /\ rest.alias = call.alias /\ rest.left = call.left \ {n}
       /\ part.for = n /\ part.alias = alias /\ part.parent = call.alias
       /\ next.of = n /\ next.alias = alias /\ next.left = Includes(query, n)
  BY <1>2 DEF rest, part, next, Calls, Call
<1>14. DOMAIN calls = 1 .. top /\ DOMAIN calls' = 1 .. top + 1
  BY <1>10, LenProperties DEF TypeInv
<1>15. \A k \in 1 .. top : calls'[k].of = calls[k].of /\ calls'[k].alias = calls[k].alias
  BY <1>1, <1>12, <1>13
<1>16. InnerCall = call
  BY DEF InnerCall, Last
<1>17. Pushes(n, top, alias)
  BY <1>1, <1>2, <1>3, <1>10, <1>12, <1>13, <1>14, <1>15 DEF Pushes
<1>18. Joins(n, Len(joinParts), alias, call.alias)
  BY <1>11, <1>13, LenProperties, ElementOfSeq DEF Joins, TypeInv
<1>19. QED
  BY <1>4, <1>8, <1>10, <1>11, <1>16, <1>17, <1>18

\* What an iteration appends to the placeholders and the arguments: sub for the
\* subqueries of its aggregates and on for its ON clause.
Marks(n, sub, on) ==
    /\ sub \in Seq(AggMark) /\ on \in Seq(OnMark)
    /\ selectMarks' = selectMarks \o sub
    /\ joinMarks' = joinMarks \o on
    /\ args' = (args \o sub) \o on
    /\ IF query.where[n] THEN on = << OnArg(n) >> ELSE on = << >> /\ sub = << >>
    /\ query.where[n] /\ query.aggs[n] # {} => Len(sub) >= 1
    /\ query.aggs[n] = {} => sub = << >>

\* What it appends to the placeholders and the arguments.
LEMMA VisitMarks ==
    ASSUME TypeInv, NEW n \in Node, Visit(n)
    PROVE  (\E sub, on : Marks(n, sub, on)) /\ status = "running" /\ UNCHANGED <<query, status>>
<1>1. PICK order \in SetToSeqs(query.aggs[n]) :
        /\ selectMarks' = selectMarks \o SubQueryMarks(n, order)
        /\ args' = args \o SubQueryArgs(n, order) \o OnArgs(n)
  BY DEF Visit
<1>2. joinMarks' = joinMarks \o OnMarks(n)
  BY DEF Visit
<1>3. Marks(n, SubQueryMarks(n, order), OnMarks(n))
  <2>1. query.where[n] \in BOOLEAN
    BY QueryTyped
  <2>2. QED
    BY <1>1, <1>2, <2>1, MarksTyped DEF Marks
<1>4. QED
  BY <1>3 DEF Visit

\* What the end of a range leaves: the calls outside.
LEMMA ReturnSteps ==
    ASSUME TypeInv, Return
    PROVE  /\ calls' \in Seq(Calls)
           /\ DOMAIN calls' \subseteq DOMAIN calls
           /\ \A k \in DOMAIN calls' : calls'[k] = calls[k]
           /\ UNCHANGED <<query, selectMarks, joinParts, joinMarks, args, status>>
<1>1. /\ Len(calls) \in Nat \ {0}
      /\ calls \in Seq(Calls)
      /\ calls' = SubSeq(calls, 1, Len(calls) - 1)
  BY EmptySeq DEF Return, Front, TypeInv
<1>2. PICK rest \in Nat : Len(calls) = rest + 1
  <2>1. Len(calls) - 1 \in Nat /\ Len(calls) = (Len(calls) - 1) + 1
    BY <1>1
  <2>2. QED
    BY <2>1
<1>3. calls' = SubSeq(calls, 1, rest) /\ \A i \in 1 .. rest : calls[i] \in Calls
  BY <1>1, <1>2, ElementOfSeq
<1>4. /\ calls' \in Seq(Calls)
      /\ Len(calls') = IF 1 <= rest THEN rest - 1 + 1 ELSE 0
      /\ \A i \in 1 .. rest - 1 + 1 : calls'[i] = calls[1 + i - 1]
  BY <1>3, SubSeqProperties
<1>5. Len(calls') = rest /\ \A k \in 1 .. rest : calls'[k] = calls[k]
  BY <1>4
<1>6. DOMAIN calls' = 1 .. rest /\ DOMAIN calls = 1 .. rest + 1
  BY <1>1, <1>2, <1>4, <1>5, LenProperties
<1>7. QED
  BY <1>4, <1>5, <1>6 DEF Return

\* The slices hold what they should.
LEMMA TypeStep ==
    ASSUME TypeInv, [Next]_vars
    PROVE  TypeInv'
<1>1. ASSUME NEW n \in Node, Visit(n) PROVE TypeInv'
  <2>1. calls' \in Seq(Calls) /\ joinParts' \in Seq(JoinPart)
    BY <1>1, VisitSteps
  <2>2. UNCHANGED <<query, status>>
    BY <1>1, VisitMarks
  <2>3. PICK sub, on : Marks(n, sub, on)
    BY <1>1, VisitMarks
  <2>4. selectMarks' \in Seq(AggMark) /\ joinMarks' \in Seq(OnMark)
    BY <2>3, ConcatProperties DEF Marks, TypeInv
  <2>5. sub \in Seq(Mark) /\ on \in Seq(Mark) /\ args \in Seq(Mark)
    BY <2>3, SeqMonotonic DEF Marks, Mark, TypeInv
  <2>6. args' \in Seq(Mark)
    BY <2>3, <2>5, ConcatProperties DEF Marks
  <2>7. QED
    BY <2>1, <2>2, <2>4, <2>6 DEF TypeInv
<1>2. ASSUME NEW n \in Node, Fail(n) PROVE TypeInv'
  BY <1>2, EmptySeq DEF TypeInv, Fail
<1>3. CASE Return
  BY <1>3, ReturnSteps DEF TypeInv
<1>4. CASE Finish
  <2>1. Append(args, WhereArg) \in Seq(Mark)
    BY AppendProperties DEF TypeInv, Mark
  <2>2. QED
    BY <1>4, <2>1 DEF TypeInv, Finish
<1>5. CASE UNCHANGED vars
  BY <1>5 DEF TypeInv, vars
<1>6. QED
  BY <1>1, <1>2, <1>3, <1>4, <1>5 DEF Next

\* The types hold at first ...
LEMMA TypeInit == Init => TypeInv
<1> SUFFICES ASSUME Init PROVE TypeInv
  OBVIOUS
<1>1. Call(Root, RootTable, Includes(query, Root)) \in Calls
  BY NamesTyped DEF Call, Calls, Includes
<1>2. calls \in Seq(Calls)
  BY <1>1 DEF Init
<1>3. QED
  BY <1>2, EmptySeq DEF Init, TypeInv

\* ... and always.
LEMMA TypeHolds == Spec => []TypeInv
<1>1. TypeInv /\ [Next]_vars => TypeInv'
  BY TypeStep
<1>2. QED
  BY <1>1, TypeInit, PTL DEF Spec
-----------------------------------------------------------------------------
\* An iteration gives a JOIN to an entry that has none.
LEMMA VisitJoins ==
    ASSUME TypeInv, CallInv, NEW n \in Node, Visit(n)
    PROVE  /\ n \notin Joined /\ Joined' = Joined \cup {n}
           /\ Joined \subseteq Node
           /\ query.parent[n] = InnerCall.of
<1>1. /\ Pushes(n, Len(calls), AliasOf(InnerCall, n))
      /\ Joins(n, Len(joinParts), AliasOf(InnerCall, n), InnerCall.alias)
  BY VisitSteps
<1>2. InnerCall.left \subseteq Includes(query, InnerCall.of) \ Joined
  BY <1>1 DEF CallInv, Ahead, Pushes, InnerCall, Last
<1>3. n \in InnerCall.left
  BY <1>1 DEF Pushes, InnerCall, Last
<1>4. Joined' = Joined \cup {n}
  BY <1>1 DEF Joined, Joins
<1>5. Joined \subseteq Node
  BY <1>1 DEF Joined, Joins, JoinPart
<1>6. QED
  BY <1>2, <1>3, <1>4, <1>5 DEF Includes

\* The calls stay anchored and ahead of what is joined.
LEMMA CallStep ==
    ASSUME TypeInv, CallInv, PartInv, [Next]_vars
    PROVE  CallInv'
<1>1. ASSUME NEW n \in Node, Visit(n) PROVE CallInv'
  <2> DEFINE alias == AliasOf(InnerCall, n)
  <2>a. PICK top \in Nat : top = Len(calls)
    BY LenProperties DEF TypeInv
  <2>b. PICK old \in Nat : old = Len(joinParts)
    BY LenProperties DEF TypeInv
  <2>1. Pushes(n, top, alias) /\ Joins(n, old, alias, InnerCall.alias) /\ query' = query
    BY <1>1, <2>a, <2>b, VisitSteps
  <2>2. InnerCall = calls[top]
    BY <2>a DEF InnerCall, Last
  <2>3. /\ n \notin Joined /\ Joined' = Joined \cup {n} /\ Joined \subseteq Node
        /\ query.parent[n] = calls[top].of
    BY <1>1, <2>2, VisitJoins
  <2> HIDE DEF alias
  <2>4. /\ DOMAIN calls = 1 .. top /\ DOMAIN calls' = 1 .. top + 1 /\ top \in Nat \ {0}
        /\ DOMAIN joinParts = 1 .. old /\ DOMAIN joinParts' = 1 .. old + 1 /\ old \in Nat
    BY <2>1 DEF Pushes, Joins
  <2>5. \A j \in 1 .. old : joinParts'[j] = joinParts[j]
    BY <2>1 DEF Joins
  <2>6. calls'[top + 1].of = n /\ calls'[top + 1].left = Includes(query, n)
    BY <2>1 DEF Pushes
  <2>7. \A k \in 1 .. top : calls'[k].of = calls[k].of /\ calls'[k].alias = calls[k].alias
    BY <2>1 DEF Pushes
  <2>8. \A k \in 1 .. top : calls[k].of \in Joined \cup {Root}
    BY <2>4 DEF CallInv, Anchored, Joined
  <2>9. \A k \in 1 .. top + 1 : Anchored(k)'
    <3>1. \A k \in 1 .. top : Anchored(k)'
      <4> SUFFICES ASSUME NEW k \in 1 .. top PROVE Anchored(k)'
        OBVIOUS
      <4>1. Anchored(k)
        BY <2>4 DEF CallInv
      <4>2. QED
        BY <2>4, <2>5, <2>7, <4>1 DEF Anchored
    <3>2. Anchored(top + 1)'
      BY <2>1, <2>4 DEF Anchored, Pushes, Joins
    <3>3. QED
      BY <2>4, <3>1, <3>2
  <2>10. \A k \in 1 .. top + 1 : Ahead(k)'
    <3>1. \A k \in 1 .. top - 1 : Ahead(k)'
      <4> SUFFICES ASSUME NEW k \in 1 .. top - 1 PROVE Ahead(k)'
        OBVIOUS
      <4>1. calls[k].left \subseteq Includes(query, calls[k].of) \ Joined
        BY <2>4 DEF CallInv, Ahead
      <4>2. calls[k].of # calls[top].of
        BY <2>4 DEF CallInv
      <4>3. n \notin calls[k].left
        BY <2>3, <4>1, <4>2 DEF Includes
      <4>4. calls'[k].of = calls[k].of /\ calls'[k].left = calls[k].left
        BY <2>1, <2>4, <2>7 DEF Pushes
      <4>5. QED
        BY <2>1, <2>3, <4>1, <4>3, <4>4 DEF Ahead, Includes
    <3>2. Ahead(top)'
      <4>1. calls[top].left \subseteq Includes(query, calls[top].of) \ Joined
        BY <2>4 DEF CallInv, Ahead
      <4>2. calls'[top].of = calls[top].of /\ calls'[top].left = calls[top].left \ {n}
        BY <2>1, <2>4, <2>7 DEF Pushes
      <4>3. QED
        BY <2>1, <2>3, <4>1, <4>2 DEF Ahead, Includes
    <3>3. Ahead(top + 1)'
      <4>1. n \notin Includes(query, n)
        BY <2>3, <2>4, <2>8, RootIsNoNode DEF Includes
      <4>2. ASSUME NEW m \in Joined PROVE m \notin Includes(query, n)
        <5>1. PICK j \in 1 .. old : joinParts[j].for = m
          BY <2>4 DEF Joined
        <5>2. TopPart(j) => query.parent[m] = Root
          BY <5>1 DEF TopPart
        <5>3. NestedPart(j) => query.parent[m] \in Joined
          <6>1. \A i \in 1 .. j - 1 : joinParts[i].for \in Joined
            BY <2>4 DEF Joined
          <6>2. QED
            BY <5>1, <6>1 DEF NestedPart
        <5>4. query.parent[m] \in Joined \cup {Root}
          BY <2>4, <5>2, <5>3 DEF PartInv
        <5>5. QED
          BY <2>3, <5>4, RootIsNoNode DEF Includes
      <4>3. QED
        BY <2>1, <2>3, <2>6, <4>1, <4>2 DEF Ahead, Includes
    <3>4. QED
      BY <2>4, <3>1, <3>2, <3>3
  <2>11. \A k, l \in 1 .. top + 1 : calls'[k].of = calls'[l].of => k = l
    <3>1. \A k, l \in 1 .. top : calls'[k].of = calls'[l].of => k = l
      BY <2>4, <2>7 DEF CallInv
    <3>2. \A k \in 1 .. top : calls'[k].of # n
      BY <2>3, <2>7, <2>8, RootIsNoNode
    <3>3. QED
      BY <2>4, <2>6, <3>1, <3>2
  <2>12. QED
    BY <2>4, <2>9, <2>10, <2>11 DEF CallInv
<1>2. ASSUME NEW n \in Node, Fail(n) PROVE CallInv'
  BY <1>2 DEF CallInv, Fail
<1>3. CASE Return
  <2>1. /\ DOMAIN calls' \subseteq DOMAIN calls
        /\ \A k \in DOMAIN calls' : calls'[k] = calls[k]
        /\ UNCHANGED <<query, joinParts>>
    BY <1>3, ReturnSteps
  <2>2. QED
    BY <2>1 DEF CallInv, Anchored, Ahead, Joined
<1>4. CASE Finish \/ UNCHANGED vars
  <2>1. UNCHANGED <<query, calls, joinParts>>
    BY <1>4 DEF Finish, vars
  <2>2. QED
    BY <2>1 DEF CallInv, Anchored, Ahead, Joined
<1>5. QED
  BY <1>1, <1>2, <1>3, <1>4 DEF Next

\* The JOINs stay in an order in which each refers backwards only.
LEMMA PartStep ==
    ASSUME TypeInv, CallInv, PartInv, [Next]_vars
    PROVE  PartInv'
<1>1. ASSUME NEW n \in Node, Visit(n) PROVE PartInv'
  <2> DEFINE call == InnerCall
             alias == AliasOf(call, n)
  <2>a. PICK top \in Nat : top = Len(calls)
    BY LenProperties DEF TypeInv
  <2>b. PICK old \in Nat : old = Len(joinParts)
    BY LenProperties DEF TypeInv
  <2>1. Pushes(n, top, alias) /\ Joins(n, old, alias, call.alias) /\ query' = query
    BY <1>1, <2>a, <2>b, VisitSteps
  <2>2. call = calls[top] /\ top \in DOMAIN calls
    BY <2>1, <2>a DEF InnerCall, Last, Pushes
  <2>3. n \notin Joined /\ query.parent[n] = call.of
    BY <1>1, VisitJoins
  <2> HIDE DEF call
  <2>4. /\ DOMAIN joinParts = 1 .. old /\ DOMAIN joinParts' = 1 .. old + 1 /\ old \in Nat
        /\ \A j \in 1 .. old : joinParts[j] \in JoinPart /\ joinParts'[j] = joinParts[j]
        /\ joinParts'[old + 1].for = n
        /\ joinParts'[old + 1].alias = alias
        /\ joinParts'[old + 1].parent = call.alias
    BY <2>1 DEF Joins
  <2>5. ASSUME NEW j \in 1 .. old PROVE TopPart(j)' \/ NestedPart(j)'
    <3>1. CASE TopPart(j)
      BY <2>1, <2>4, <3>1 DEF TopPart
    <3>2. CASE NestedPart(j)
      <4>1. \A i \in 1 .. j - 1 : joinParts'[i] = joinParts[i]
        BY <2>4
      <4>2. QED
        BY <2>1, <2>4, <3>2, <4>1 DEF NestedPart
    <3>3. QED
      BY <2>4, <3>1, <3>2 DEF PartInv
  <2>6. TopPart(old + 1)' \/ NestedPart(old + 1)'
    <3>1. Anchored(top)
      BY <2>2 DEF CallInv
    <3>2. CASE call.of = Root /\ call.alias = RootTable
      <4>1. TopPart(old + 1)'
        BY <2>1, <2>3, <2>4, <3>2 DEF TopPart, AliasOf
      <4>2. QED
        BY <4>1
    <3>3. CASE \E i \in DOMAIN joinParts :
                  joinParts[i].for = call.of /\ joinParts[i].alias = call.alias
      <4>1. PICK i \in 1 .. old : joinParts[i].for = call.of /\ joinParts[i].alias = call.alias
        BY <2>4, <3>3
      <4>2. joinParts[i].for \in Node
        BY <2>4, <4>1 DEF JoinPart
      <4>3. alias = joinParts[i].alias \o query.rel[n]
        BY <4>1, <4>2, RootIsNoNode DEF AliasOf
      <4>4. i \in 1 .. (old + 1) - 1
        BY <2>4
      <4>5. NestedPart(old + 1)'
        BY <2>1, <2>3, <2>4, <4>1, <4>3, <4>4 DEF NestedPart
      <4>6. QED
        BY <4>5
    <3>4. QED
      BY <2>2, <3>1, <3>2, <3>3 DEF Anchored
  <2>7. \A i, j \in 1 .. old + 1 : joinParts'[i].for = joinParts'[j].for => i = j
    <3>1. \A i \in 1 .. old : joinParts'[i].for # n
      BY <2>3, <2>4 DEF Joined
    <3>2. \A i, j \in 1 .. old : joinParts'[i].for = joinParts'[j].for => i = j
      BY <2>4 DEF PartInv
    <3>3. QED
      BY <2>4, <3>1, <3>2
  <2>8. \A j \in 1 .. old + 1 : TopPart(j)' \/ NestedPart(j)'
    BY <2>4, <2>5, <2>6
  <2>9. QED
    BY <2>4, <2>7, <2>8 DEF PartInv
<1>2. CASE UNCHANGED <<query, joinParts>>
  BY <1>2 DEF PartInv, TopPart, NestedPart
<1>3. ASSUME NEW n \in Node, Fail(n) PROVE UNCHANGED <<query, joinParts>>
  BY <1>3 DEF Fail
<1>4. Return \/ Finish \/ UNCHANGED vars => UNCHANGED <<query, joinParts>>
  BY DEF Return, Finish, vars
<1>5. QED
  BY <1>1, <1>2, <1>3, <1>4 DEF Next

\* The invariants of the tree hold at first ...
LEMMA TreeInit == Init => CallInv /\ PartInv /\ AliasInv
<1> SUFFICES ASSUME Init PROVE CallInv /\ PartInv /\ AliasInv
  OBVIOUS
<1>1. DOMAIN calls = {1} /\ calls[1] = Call(Root, RootTable, Includes(query, Root))
  BY DEF Init
<1>2. DOMAIN joinParts = {}
  BY DEF Init
<1>3. calls[1].of = Root /\ calls[1].alias = RootTable /\ calls[1].left = Includes(query, Root)
  BY <1>1 DEF Call
<1>4. CallInv
  BY <1>1, <1>2, <1>3 DEF CallInv, Anchored, Ahead, Joined
<1>5. PartInv /\ AliasInv
  BY <1>2 DEF PartInv, AliasInv
<1>6. QED
  BY <1>4, <1>5

\* ... and always.
LEMMA TreeHolds == Spec => [](TypeInv /\ CallInv /\ PartInv)
<1>1. TypeInv /\ CallInv /\ PartInv /\ [Next]_vars => TypeInv' /\ CallInv' /\ PartInv'
  BY TypeStep, CallStep, PartStep
<1>2. Init => TypeInv /\ CallInv /\ PartInv
  BY TypeInit, TreeInit
<1>3. QED
  BY <1>1, <1>2, PTL DEF Spec

(***************************************************************************)
(* In whatever order the maps are ranged over, a JOIN refers to the         *)
(* queried table or to the alias of a JOIN before it: the recursion of      *)
(* processJoin puts a parent's part into joinParts before it goes down.     *)
(***************************************************************************)
THEOREM ParentsFirst == Spec => []ParentsJoinedFirst
<1>1. PartInv => ParentsJoinedFirst
  BY DEF PartInv, ParentsJoinedFirst, TopPart, NestedPart
<1>2. QED
  BY <1>1, TreeHolds, PTL
-----------------------------------------------------------------------------
\* A name and one more part.
LEMMA ExtendedName ==
    ASSUME NEW s \in Name, NEW x \in Name, Len(x) = 1
    PROVE  /\ Len(s) \in Nat
           /\ Len(s \o x) = Len(s) + 1
           /\ \A i \in 1 .. Len(s) : (s \o x)[i] = s[i]
           /\ (s \o x)[Len(s) + 1] = x[1]
<1>a. s \in Seq(STRING) /\ x \in Seq(STRING)
  BY DEF Name
<1>1. Len(s) \in Nat
  BY <1>a, LenProperties
<1>b. /\ Len(s \o x) = Len(s) + Len(x)
      /\ \A i \in 1 .. Len(s) + Len(x) : (s \o x)[i] = IF i <= Len(s) THEN s[i] ELSE x[i - Len(s)]
  BY <1>a, ConcatProperties
<1>2. /\ Len(s \o x) = Len(s) + 1
      /\ \A i \in 1 .. Len(s) + 1 : (s \o x)[i] = IF i <= Len(s) THEN s[i] ELSE x[i - Len(s)]
  BY <1>b
<1>3. \A i \in 1 .. Len(s) : (s \o x)[i] = s[i]
  BY <1>1, <1>2
<1>4. (s \o x)[Len(s) + 1] = x[(Len(s) + 1) - Len(s)]
  BY <1>1, <1>2
<1>5. (Len(s) + 1) - Len(s) = 1
  BY <1>1
<1>6. QED
  BY <1>1, <1>2, <1>3, <1>4, <1>5

\* Two extended names are one only if what they extend is one.
LEMMA ExtendedNames ==
    ASSUME NEW s \in Name, NEW x \in Name, Len(x) = 1
    PROVE  \A t, y \in Name : Len(y) = 1 /\ s \o x = t \o y => s = t /\ x = y
<1> SUFFICES ASSUME NEW t \in Name, NEW y \in Name, Len(y) = 1, s \o x = t \o y
             PROVE  s = t /\ x = y
  OBVIOUS
<1>1. /\ Len(s) \in Nat
      /\ Len(s \o x) = Len(s) + 1
      /\ \A i \in 1 .. Len(s) : (s \o x)[i] = s[i]
      /\ (s \o x)[Len(s) + 1] = x[1]
  BY ExtendedName
<1>2. /\ Len(t) \in Nat
      /\ Len(t \o y) = Len(t) + 1
      /\ \A i \in 1 .. Len(t) : (t \o y)[i] = t[i]
      /\ (t \o y)[Len(t) + 1] = y[1]
  BY ExtendedName
<1>3. Len(s) = Len(t)
  BY <1>1, <1>2
<1>4. x[1] = y[1] /\ \A i \in 1 .. Len(s) : s[i] = t[i]
  BY <1>1, <1>2, <1>3
<1>5. s = t
  BY <1>3, <1>4, SeqEqual DEF Name
<1>6. x = y
  BY <1>4, SeqEqual DEF Name
<1>7. QED
  BY <1>5, <1>6

\* Under simple names the alias of an entry of the query's map has one part, and
\* the alias of any other has more.
LEMMA AliasLengths ==
    ASSUME TypeInv, PartInv, SimpleNames, NEW j \in DOMAIN joinParts
    PROVE  /\ Len(joinParts[j].alias) \in Nat \ {0}
           /\ TopPart(j) => Len(joinParts[j].alias) = 1
           /\ NestedPart(j) => Len(joinParts[j].alias) >= 2
<1>a. DOMAIN joinParts = 1 .. Len(joinParts)
  BY LenProperties DEF TypeInv
<1>b. \A i \in DOMAIN joinParts : joinParts[i] \in JoinPart
  BY <1>a, ElementOfSeq DEF TypeInv
<1>1. \A i \in DOMAIN joinParts : joinParts[i].for \in Node /\ joinParts[i].alias \in Name
  BY <1>b DEF JoinPart
<1>2. \A i \in DOMAIN joinParts :
         query.rel[joinParts[i].for] \in Name /\ Len(query.rel[joinParts[i].for]) = 1
  BY <1>1, QueryTyped DEF SimpleNames
<1>3. ASSUME NEW k \in DOMAIN joinParts, NestedPart(k)
      PROVE  \E i \in DOMAIN joinParts : Len(joinParts[k].alias) = Len(joinParts[i].alias) + 1
  <2>1. PICK i \in 1 .. k - 1 : joinParts[k].alias = joinParts[i].alias \o query.rel[joinParts[k].for]
    BY <1>3 DEF NestedPart
  <2>2. i \in DOMAIN joinParts
    BY LenProperties DEF TypeInv
  <2>3. Len(joinParts[i].alias \o query.rel[joinParts[k].for]) = Len(joinParts[i].alias) + 1
    BY <1>1, <1>2, <2>2, ExtendedName
  <2>4. QED
    BY <2>1, <2>2, <2>3
<1>4. \A i \in DOMAIN joinParts : Len(joinParts[i].alias) \in Nat
  BY <1>1, LenProperties DEF Name
<1>5. \A i \in DOMAIN joinParts : TopPart(i) => Len(joinParts[i].alias) = 1
  BY <1>2 DEF TopPart
<1>6. \A i \in DOMAIN joinParts : Len(joinParts[i].alias) >= 1
  <2> SUFFICES ASSUME NEW i \in DOMAIN joinParts PROVE Len(joinParts[i].alias) >= 1
    OBVIOUS
  <2>1. CASE TopPart(i)
    BY <1>5, <2>1
  <2>2. CASE NestedPart(i)
    <3>1. PICK h \in DOMAIN joinParts : Len(joinParts[i].alias) = Len(joinParts[h].alias) + 1
      BY <1>3, <2>2
    <3>2. QED
      BY <1>4, <3>1
  <2>3. QED
    BY <2>1, <2>2 DEF PartInv
<1>7. ASSUME NestedPart(j) PROVE Len(joinParts[j].alias) >= 2
  <2>1. PICK i \in DOMAIN joinParts : Len(joinParts[j].alias) = Len(joinParts[i].alias) + 1
    BY <1>3, <1>7
  <2>2. QED
    BY <1>4, <1>6, <2>1
<1>8. QED
  BY <1>4, <1>5, <1>6, <1>7

\* No part has the alias of the table, and none that of an earlier part.
LEMMA AliasStep ==
    ASSUME TypeInv, CallInv, PartInv, AliasInv, [Next]_vars
    PROVE  AliasInv'
<1>1. ASSUME NEW n \in Node, Visit(n) PROVE AliasInv'
  <2> SUFFICES ASSUME SimpleNames'
               PROVE  /\ (\A i, j \in DOMAIN joinParts : joinParts[i].alias = joinParts[j].alias => i = j)'
                      /\ (\A i \in DOMAIN joinParts : joinParts[i].alias # RootTable)'
    BY DEF AliasInv
  <2>a. PICK old \in Nat : old = Len(joinParts)
    BY LenProperties DEF TypeInv
  <2>1. Joins(n, old, AliasOf(InnerCall, n), InnerCall.alias) /\ query' = query
    BY <1>1, <2>a, VisitSteps
  <2>2. /\ DOMAIN joinParts = 1 .. old /\ DOMAIN joinParts' = 1 .. old + 1
        /\ \A j \in 1 .. old : joinParts'[j] = joinParts[j] /\ joinParts[j].alias \in Name
        /\ joinParts'[old + 1].for = n
    BY <2>1 DEF Joins, JoinPart
  <2>3. SimpleNames
    BY <2>1 DEF SimpleNames, Includes
  <2>4. n \notin Joined /\ PartInv'
    BY <1>1, VisitJoins, PartStep DEF Next
  <2>5. /\ \A i, j \in 1 .. old : joinParts[i].alias = joinParts[j].alias => i = j
        /\ \A i \in 1 .. old : joinParts[i].alias # RootTable
    BY <2>2, <2>3 DEF AliasInv
  <2>6. \A j \in 1 .. old : /\ TopPart(j) \/ NestedPart(j)
                            /\ Len(joinParts[j].alias) \in Nat \ {0}
                            /\ TopPart(j) => Len(joinParts[j].alias) = 1
                            /\ NestedPart(j) => Len(joinParts[j].alias) >= 2
    BY <2>2, <2>3, AliasLengths DEF PartInv
  <2>7. /\ query.rel[n] \in Name /\ Len(query.rel[n]) = 1
        /\ \A j \in 1 .. old :
              /\ query.rel[joinParts[j].for] \in Name /\ Len(query.rel[joinParts[j].for]) = 1
              /\ query.parent[joinParts[j].for] = query.parent[n] =>
                    query.rel[joinParts[j].for] # query.rel[n]
    <3>1. \A j \in 1 .. old : joinParts[j].for \in Joined /\ joinParts[j].for \in Node
      BY <2>1, <2>2 DEF Joins, Joined, JoinPart
    <3>2. \A j \in 1 .. old : joinParts[j].for # n
      BY <2>4, <3>1
    <3>3. QED
      BY <2>3, <3>1, <3>2, QueryTyped DEF SimpleNames
  <2> DEFINE new == joinParts'[old + 1].alias
  <2>8. new # RootTable /\ \A j \in 1 .. old : joinParts[j].alias # new
    <3>1. CASE TopPart(old + 1)'
      <4>1. query.parent[n] = Root /\ new = query.rel[n]
        BY <2>1, <2>2, <3>1 DEF TopPart
      <4>2. new # RootTable
        BY <2>3, <4>1 DEF SimpleNames, Includes
      <4>3. ASSUME NEW j \in 1 .. old, TopPart(j) PROVE joinParts[j].alias # new
        BY <2>7, <4>1, <4>3 DEF TopPart
      <4>4. ASSUME NEW j \in 1 .. old, NestedPart(j) PROVE joinParts[j].alias # new
        <5>a. Len(joinParts[j].alias) >= 2 /\ Len(joinParts[j].alias) \in Nat
          BY <2>6, <4>4
        <5>b. Len(new) = Len(query.rel[n]) /\ Len(query.rel[n]) = 1
          BY <2>7, <4>1
        <5>1. Len(joinParts[j].alias) # 1
          BY <5>a
        <5>c. Len(new) = 1
          BY <5>b
        <5>2. Len(joinParts[j].alias) # Len(new)
          BY <5>1, <5>c
        <5>3. QED
          BY <5>2
      <4>5. QED
        BY <2>6, <4>2, <4>3, <4>4
    <3>2. CASE NestedPart(old + 1)'
      <4>1. PICK i \in 1 .. old :
              joinParts[i].for = query.parent[n] /\ new = joinParts[i].alias \o query.rel[n]
        <5>1. PICK i \in 1 .. (old + 1) - 1 :
                /\ joinParts'[i].for = query'.parent[joinParts'[old + 1].for]
                /\ new = joinParts'[i].alias \o query'.rel[joinParts'[old + 1].for]
          BY <3>2 DEF NestedPart
        <5>2. i \in 1 .. old
          OBVIOUS
        <5>3. joinParts'[i] = joinParts[i] /\ joinParts'[old + 1].for = n /\ query' = query
          BY <2>1, <2>2, <5>2
        <5>4. QED
          BY <5>1, <5>2, <5>3
      <4>2. Len(new) = Len(joinParts[i].alias) + 1 /\ Len(joinParts[i].alias) \in Nat
        <5>1. joinParts[i].alias \in Name /\ query.rel[n] \in Name /\ Len(query.rel[n]) = 1
          BY <2>2, <2>7
        <5>2. QED
          BY <4>1, <5>1, ExtendedName
      <4>3. Len(new) # 1
        <5>1. Len(joinParts[i].alias) # 0
          BY <2>6
        <5>2. QED
          BY <4>2, <5>1
      <4>4. new # RootTable /\ \A j \in 1 .. old : TopPart(j) => joinParts[j].alias # new
        BY <2>3, <2>6, <4>3 DEF SimpleNames
      <4>5. ASSUME NEW j \in 1 .. old, NestedPart(j), joinParts[j].alias = new PROVE FALSE
        <5>1. PICK h \in 1 .. j - 1 :
                /\ joinParts[h].for = query.parent[joinParts[j].for]
                /\ joinParts[j].alias = joinParts[h].alias \o query.rel[joinParts[j].for]
          BY <4>5 DEF NestedPart
        <5>2. h \in 1 .. old
          OBVIOUS
        <5>3. /\ joinParts[h].alias = joinParts[i].alias
              /\ query.rel[joinParts[j].for] = query.rel[n]
          <6> DEFINE s == joinParts[h].alias
                     t == joinParts[i].alias
                     x == query.rel[joinParts[j].for]
                     y == query.rel[n]
          <6>1. s \in Name /\ t \in Name
            BY <2>2, <5>2
          <6>2. x \in Name /\ y \in Name /\ Len(x) = 1 /\ Len(y) = 1
            BY <2>7
          <6>3. s \o x = t \o y
            BY <4>1, <4>5, <5>1
          <6> HIDE DEF s, t, x, y
          <6>4. s = t /\ x = y
            <7>1. \A u, v \in Name : Len(v) = 1 /\ s \o x = u \o v => s = u /\ x = v
              BY <6>1, <6>2, ExtendedNames
            <7>2. QED
              BY <6>1, <6>2, <6>3, <7>1
          <6>5. QED
            BY <6>4 DEF s, t, x, y
        <5>4. h = i
          BY <2>5, <5>2, <5>3
        <5>5. QED
          BY <2>7, <4>1, <5>1, <5>3, <5>4
      <4>6. QED
        BY <2>6, <4>4, <4>5
    <3>3. QED
      BY <2>2, <2>4, <3>1, <3>2 DEF PartInv
  <2> HIDE DEF new
  <2>9. \A j \in 1 .. old : joinParts'[j].alias = joinParts[j].alias
    BY <2>2
  <2>10. \A i, j \in 1 .. old + 1 : joinParts'[i].alias = joinParts'[j].alias => i = j
    BY <2>5, <2>8, <2>9 DEF new
  <2>11. \A i \in 1 .. old + 1 : joinParts'[i].alias # RootTable
    BY <2>5, <2>8, <2>9 DEF new
  <2>12. QED
    BY <2>2, <2>10, <2>11
<1>2. CASE UNCHANGED <<query, joinParts>>
  BY <1>2 DEF AliasInv, SimpleNames, Includes
<1>3. ASSUME NEW n \in Node, Fail(n) PROVE UNCHANGED <<query, joinParts>>
  BY <1>3 DEF Fail
<1>4. Return \/ Finish \/ UNCHANGED vars => UNCHANGED <<query, joinParts>>
  BY DEF Return, Finish, vars
<1>5. QED
  BY <1>1, <1>2, <1>3, <1>4 DEF Next

(***************************************************************************)
(* With underscores in no name and no top-level relation named like the     *)
(* table, no two tables of the statement have one alias. That an alias is   *)
(* the path to its entry, the parts joined, is what keeps two entries       *)
(* apart; and that no entry is visited twice, which takes the calls into    *)
(* the invariant.                                                           *)
(***************************************************************************)
THEOREM UniqueAliases == Spec => []SimpleNamesHaveUniqueAliases
<1>1. /\ Init => AliasInv
      /\ TypeInv /\ CallInv /\ PartInv /\ AliasInv /\ [Next]_vars => AliasInv'
  BY TreeInit, AliasStep
<1>2. AliasInv => SimpleNamesHaveUniqueAliases
  BY DEF AliasInv, SimpleNames, SimpleNamesHaveUniqueAliases
<1>3. QED
  BY <1>1, <1>2, TreeHolds, PTL DEF Spec
-----------------------------------------------------------------------------
\* All four slices are sequences of marks.
LEMMA MarkSlices ==
    ASSUME TypeInv
    PROVE  /\ args \in Seq(Mark) /\ selectMarks \in Seq(Mark) /\ joinMarks \in Seq(Mark)
           /\ WhereMarks \in Seq(Mark)
           /\ status # "done" => WhereMarks = << >>
<1>1. args \in Seq(Mark) /\ selectMarks \in Seq(Mark) /\ joinMarks \in Seq(Mark)
  BY SeqMonotonic DEF TypeInv, Mark
<1>2. << WhereArg >> \in Seq(Mark) /\ << >> \in Seq(Mark)
  BY DEF Mark
<1>3. QED
  BY <1>1, <1>2 DEF WhereMarks

\* What concatenation adds to a sequence of marks.
LEMMA Appended ==
    ASSUME NEW s \in Seq(Mark), NEW t \in Seq(Mark)
    PROVE  /\ s \o t \in Seq(Mark)
           /\ Len(s) \in Nat /\ Len(t) \in Nat /\ Len(s \o t) = Len(s) + Len(t)
           /\ Range(s \o t) = Range(s) \cup Range(t)
           /\ DOMAIN s = 1 .. Len(s) /\ DOMAIN (s \o t) = 1 .. Len(s) + Len(t)
           /\ \A i \in 1 .. Len(s) : (s \o t)[i] = s[i]
           /\ \A i \in 1 .. Len(t) : (s \o t)[Len(s) + i] = t[i]
<1>1. Len(s) \in Nat /\ Len(t) \in Nat /\ DOMAIN s = 1 .. Len(s)
  BY LenProperties
<1>2. /\ s \o t \in Seq(Mark) /\ Len(s \o t) = Len(s) + Len(t)
      /\ \A i \in 1 .. Len(s) + Len(t) : (s \o t)[i] = IF i <= Len(s) THEN s[i] ELSE t[i - Len(s)]
  BY ConcatProperties
<1>3. Range(s \o t) = Range(s) \cup Range(t)
  BY RangeConcatenation
<1>4. DOMAIN (s \o t) = 1 .. Len(s) + Len(t)
  BY <1>2, LenProperties
<1>5. \A i \in 1 .. Len(s) : (s \o t)[i] = s[i]
  BY <1>1, <1>2
<1>6. ASSUME NEW i \in 1 .. Len(t) PROVE (s \o t)[Len(s) + i] = t[i]
  <2>1. /\ Len(s) + i \in 1 .. Len(s) + Len(t) /\ ~(Len(s) + i <= Len(s))
        /\ (Len(s) + i) - Len(s) = i
    BY <1>1
  <2>2. QED
    BY <1>2, <2>1
<1>7. QED
  BY <1>1, <1>2, <1>3, <1>4, <1>5, <1>6

\* The steps that touch the marks: an iteration, and the end of Transpile.
LEMMA MarkStep ==
    ASSUME TypeInv, [Next]_vars
    PROVE  \/ \E n \in Node : Visit(n)
           \/ Finish
           \/ UNCHANGED <<query, joinParts, args, selectMarks, joinMarks, WhereMarks>>
<1>1. ASSUME NEW n \in Node, Fail(n)
      PROVE  UNCHANGED <<query, joinParts, args, selectMarks, joinMarks, WhereMarks>>
  BY <1>1 DEF Fail, WhereMarks
<1>2. Return \/ UNCHANGED vars =>
        UNCHANGED <<query, joinParts, args, selectMarks, joinMarks, WhereMarks>>
  BY DEF Return, vars, WhereMarks
<1>3. QED
  BY <1>1, <1>2 DEF Next

\* What an iteration does to the marks, with sub and on as sequences of marks.
LEMMA VisitAppends ==
    ASSUME TypeInv, NEW n \in Node, Visit(n)
    PROVE  /\ \E sub, on \in Seq(Mark) : Marks(n, sub, on)
           /\ WhereMarks = << >> /\ WhereMarks' = << >>
<1>1. PICK sub, on : Marks(n, sub, on)
  BY VisitMarks
<1>2. sub \in Seq(Mark) /\ on \in Seq(Mark)
  BY <1>1, SeqMonotonic DEF Marks, Mark
<1>3. status = "running" /\ status' = "running"
  BY VisitMarks
<1>4. QED
  BY <1>1, <1>2, <1>3 DEF WhereMarks

\* Transpile ends with the argument of the WHERE, and its placeholder.
LEMMA FinishAppends ==
    ASSUME TypeInv, Finish
    PROVE  /\ UNCHANGED <<query, joinParts, selectMarks, joinMarks>>
           /\ WhereMarks = << >> /\ WhereMarks' \in Seq(Mark)
           /\ args' = args \o WhereMarks'
<1>1. /\ UNCHANGED <<query, joinParts, selectMarks, joinMarks>>
      /\ status = "running" /\ status' = "done"
      /\ args' = IF query.where[Root] THEN Append(args, WhereArg) ELSE args
  BY DEF Finish
<1>2. WhereMarks = << >> /\ WhereMarks' = IF query.where[Root] THEN << WhereArg >> ELSE << >>
  BY <1>1 DEF WhereMarks
<1>3. Append(args, WhereArg) = args \o << WhereArg >>
  BY AppendIsConcat DEF TypeInv, Mark
<1>4. args \o << >> = args
  BY ConcatEmptySeq DEF TypeInv
<1>5. << WhereArg >> \in Seq(Mark) /\ << >> \in Seq(Mark)
  BY DEF Mark
<1>6. QED
  BY <1>1, <1>2, <1>3, <1>4, <1>5

\* The slices grow together.
LEMMA CountStep ==
    ASSUME TypeInv, CountInv, [Next]_vars
    PROVE  CountInv'
<1>0. Range(<< >>) = {} /\ Len(<< >>) = 0
  BY DEF Range
<1>1. ASSUME NEW n \in Node, Visit(n) PROVE CountInv'
  <2>1. WhereMarks = << >> /\ WhereMarks' = << >>
    BY <1>1, VisitAppends
  <2>2. PICK sub \in Seq(Mark) : \E on \in Seq(Mark) : Marks(n, sub, on)
    BY <1>1, VisitAppends
  <2>3. PICK on \in Seq(Mark) : Marks(n, sub, on)
    BY <2>2
  <2>4. /\ args' = (args \o sub) \o on
        /\ selectMarks' = selectMarks \o sub /\ joinMarks' = joinMarks \o on
    BY <2>3 DEF Marks
  <2>5. args \in Seq(Mark) /\ selectMarks \in Seq(Mark) /\ joinMarks \in Seq(Mark)
    BY MarkSlices
  <2>6. /\ Len(args) \in Nat /\ Len(selectMarks) \in Nat /\ Len(joinMarks) \in Nat
        /\ Len(sub) \in Nat /\ Len(on) \in Nat
    BY <2>5, LenProperties
  <2>7. args \o sub \in Seq(Mark) /\ Len(args \o sub) = Len(args) + Len(sub)
        /\ Range(args \o sub) = Range(args) \cup Range(sub)
    BY <2>5, Appended
  <2>8. Len(args') = Len(args) + Len(sub) + Len(on)
        /\ Range(args') = Range(args) \cup Range(sub) \cup Range(on)
    BY <2>4, <2>7, Appended
  <2>9. Len(selectMarks') = Len(selectMarks) + Len(sub)
        /\ Range(selectMarks') = Range(selectMarks) \cup Range(sub)
    BY <2>4, <2>5, Appended
  <2>10. Len(joinMarks') = Len(joinMarks) + Len(on)
         /\ Range(joinMarks') = Range(joinMarks) \cup Range(on)
    BY <2>4, <2>5, Appended
  <2>11. Len(args) = Len(selectMarks) + Len(joinMarks)
         /\ Range(args) = Range(selectMarks) \cup Range(joinMarks)
    BY <1>0, <2>1, <2>6 DEF CountInv
  <2>12. Len(args') = Len(selectMarks') + Len(joinMarks') + 0
    BY <2>6, <2>8, <2>9, <2>10, <2>11
  <2>13. Range(args') = Range(selectMarks') \cup Range(joinMarks') \cup {}
    BY <2>8, <2>9, <2>10, <2>11
  <2>14. QED
    BY <1>0, <2>1, <2>12, <2>13 DEF CountInv
<1>2. CASE Finish
  <2>1. /\ selectMarks' = selectMarks /\ joinMarks' = joinMarks
        /\ WhereMarks = << >> /\ WhereMarks' \in Seq(Mark) /\ args' = args \o WhereMarks'
    BY <1>2, FinishAppends
  <2>2. args \in Seq(Mark) /\ Len(selectMarks) \in Nat /\ Len(joinMarks) \in Nat
    BY MarkSlices, LenProperties
  <2>3. /\ Len(args') = Len(args) + Len(WhereMarks')
        /\ Range(args') = Range(args) \cup Range(WhereMarks')
    BY <2>1, <2>2, Appended
  <2>4. Len(args) = Len(selectMarks) + Len(joinMarks)
        /\ Range(args) = Range(selectMarks) \cup Range(joinMarks)
    BY <1>0, <2>1, <2>2 DEF CountInv
  <2>5. QED
    BY <2>1, <2>3, <2>4 DEF CountInv
<1>3. CASE UNCHANGED <<query, joinParts, args, selectMarks, joinMarks, WhereMarks>>
  BY <1>3 DEF CountInv
<1>4. QED
  BY <1>1, <1>2, <1>3, MarkStep

(***************************************************************************)
(* The three slices hold one argument for each placeholder of the text, at  *)
(* every moment and so in the finished statement: the database never        *)
(* refuses it for their number.                                             *)
(***************************************************************************)
THEOREM OneArgumentEach == Spec => []EveryPlaceholderHasOneArgument
<1>1. Init => CountInv
  BY DEF Init, CountInv, WhereMarks, Range
<1>2. TypeInv /\ CountInv /\ [Next]_vars => CountInv'
  BY CountStep
<1>3. ASSUME TypeInv, CountInv PROVE EveryPlaceholderHasOneArgument
  <2>1. /\ args \in Seq(Mark) /\ selectMarks \in Seq(Mark) /\ joinMarks \in Seq(Mark)
        /\ WhereMarks \in Seq(Mark)
    BY <1>3, MarkSlices
  <2> DEFINE front == selectMarks \o joinMarks
  <2>2. /\ front \in Seq(Mark)
        /\ Len(front) = Len(selectMarks) + Len(joinMarks)
        /\ Range(front) = Range(selectMarks) \cup Range(joinMarks)
    BY <2>1, Appended
  <2>3. Placeholders = front \o WhereMarks
    BY DEF Placeholders
  <2> HIDE DEF front
  <2>4. /\ Len(Placeholders) = Len(front) + Len(WhereMarks)
        /\ Range(Placeholders) = Range(front) \cup Range(WhereMarks)
    BY <2>1, <2>2, <2>3, Appended
  <2>5. Len(args) = Len(Placeholders) /\ Range(args) = Range(Placeholders)
    BY <1>3, <2>2, <2>4 DEF CountInv
  <2>6. QED
    BY <2>5 DEF EveryPlaceholderHasOneArgument, ToSet, Range
<1>4. QED
  BY <1>1, <1>2, <1>3, TypeHolds, PTL DEF Spec
-----------------------------------------------------------------------------
\* The marks that say what is out of order are not of two kinds.
LEMMA MarkKinds ==
    /\ AggMark \cap OnMark = {}
    /\ WhereArg \notin AggMark \cup OnMark
BY RootIsNoNode, OnIsNoAggregate DEF AggMark, OnMark, WhereArg

\* Appending arguments leaves those there in their places.
LEMMA SwappedStays ==
    ASSUME Swapped, args \in Seq(Mark), NEW more \in Seq(Mark), args' = args \o more
    PROVE  Swapped'
<1>1. PICK i \in DOMAIN args : \E j \in DOMAIN args :
        i < j /\ args[i] \in OnMark /\ args[j] \in AggMark
  BY DEF Swapped
<1>2. PICK j \in DOMAIN args : i < j /\ args[i] \in OnMark /\ args[j] \in AggMark
  BY <1>1
<1>3. /\ Len(args) \in Nat /\ Len(more) \in Nat
      /\ DOMAIN args = 1 .. Len(args) /\ DOMAIN args' = 1 .. Len(args) + Len(more)
      /\ \A k \in 1 .. Len(args) : args'[k] = args[k]
  BY Appended
<1>4. i \in DOMAIN args' /\ j \in DOMAIN args'
  BY <1>3
<1>5. args'[i] = args[i] /\ args'[j] = args[j]
  BY <1>3
<1>6. QED
  BY <1>2, <1>4, <1>5 DEF Swapped

\* An iteration keeps the arguments in order, or puts a subquery's argument behind
\* that of an earlier JOIN.
LEMMA OrderVisit ==
    ASSUME TypeInv, OrderInv, NEW n \in Node, Visit(n)
    PROVE  OrderInv'
<1> USE DEF FilterThenAggregate
<1>a. PICK old \in Nat : old = Len(joinParts)
  BY LenProperties DEF TypeInv
<1>b. Joins(n, old, AliasOf(InnerCall, n), InnerCall.alias) /\ query' = query
  BY <1>a, VisitSteps
<1>1. /\ DOMAIN joinParts = 1 .. old /\ DOMAIN joinParts' = 1 .. old + 1
      /\ \A j \in 1 .. old : joinParts'[j] = joinParts[j]
      /\ joinParts'[old + 1].for = n
      /\ query' = query
  BY <1>b DEF Joins
<1>2. PICK sub \in Seq(Mark) : \E on \in Seq(Mark) : Marks(n, sub, on)
  BY VisitAppends
<1>3. PICK on \in Seq(Mark) : Marks(n, sub, on)
  BY <1>2
<1>4. /\ args' = (args \o sub) \o on
      /\ selectMarks' = selectMarks \o sub /\ joinMarks' = joinMarks \o on
      /\ sub \in Seq(AggMark)
  BY <1>3 DEF Marks
<1>5. /\ query.where[n] => on = << OnArg(n) >>
      /\ ~query.where[n] => on = << >> /\ sub = << >>
      /\ query.where[n] /\ query.aggs[n] # {} => Len(sub) >= 1
      /\ query.aggs[n] = {} => sub = << >>
  BY <1>3 DEF Marks
<1>6. args \in Seq(Mark) /\ selectMarks \in Seq(Mark) /\ joinMarks \in Seq(Mark)
  BY MarkSlices
<1>7. sub \o on \in Seq(Mark) /\ args' = args \o (sub \o on)
  <2>1. (args \o sub) \o on = args \o (sub \o on)
    <3>1. \A s, t, u \in Seq(Mark) : (s \o t) \o u = s \o (t \o u)
      BY ConcatAssociative
    <3>2. QED
      BY <1>6, <3>1
  <2>2. sub \o on \in Seq(Mark)
    BY Appended
  <2>3. QED
    BY <1>4, <2>1, <2>2
<1>8. \A i \in 1 .. old + 1 :
        query.where[joinParts'[i].for] => \E k \in DOMAIN args' : args'[k] \in OnMark
  <2>1. ASSUME NEW i \in 1 .. old, query.where[joinParts[i].for]
        PROVE  \E k \in DOMAIN args' : args'[k] \in OnMark
    <3>1. PICK k \in DOMAIN args : args[k] \in OnMark
      BY <1>1, <2>1 DEF OrderInv
    <3>2. /\ DOMAIN args = 1 .. Len(args) /\ DOMAIN args' = 1 .. Len(args) + Len(sub \o on)
          /\ Len(args) \in Nat /\ Len(sub \o on) \in Nat
          /\ args'[k] = args[k]
      BY <1>6, <1>7, Appended
    <3>3. k \in DOMAIN args'
      BY <3>2
    <3>4. QED
      BY <3>1, <3>2, <3>3
  <2>2. ASSUME query.where[n] PROVE \E k \in DOMAIN args' : args'[k] \in OnMark
    <3>1. on = << OnArg(n) >> /\ OnArg(n) \in OnMark
      BY <1>5, <2>2 DEF OnMark, OnArg
    <3>2. args \o sub \in Seq(Mark) /\ Len(args \o sub) \in Nat
      BY <1>6, Appended, LenProperties
    <3>3. /\ DOMAIN args' = 1 .. Len(args \o sub) + Len(on)
          /\ \A i \in 1 .. Len(on) : args'[Len(args \o sub) + i] = on[i]
      BY <1>4, <3>2, Appended
    <3>4. Len(on) = 1 /\ on[1] = OnArg(n)
      BY <3>1
    <3>5. Len(args \o sub) + 1 \in DOMAIN args' /\ args'[Len(args \o sub) + 1] = OnArg(n)
      BY <3>2, <3>3, <3>4
    <3>6. QED
      BY <3>1, <3>5
  <2>3. QED
    BY <1>1, <2>1, <2>2
<1>9. joinMarks' # << >> => \E i \in 1 .. old + 1 : query.where[joinParts'[i].for]
  <2>1. CASE query.where[n]
    BY <1>1, <2>1
  <2>2. CASE ~query.where[n]
    <3>1. joinMarks' = joinMarks
      BY <1>4, <1>5, <1>6, <2>2, ConcatEmptySeq
    <3>2. joinMarks # << >> => \E i \in 1 .. old : query.where[joinParts[i].for]
      BY <1>1 DEF OrderInv
    <3>3. QED
      BY <1>1, <3>1, <3>2
  <2>3. QED
    BY <2>1, <2>2
<1>10. CASE FilterThenAggregate
  <2>1. Swapped'
    BY <1>6, <1>7, <1>10, SwappedStays DEF OrderInv
  <2>2. FilterThenAggregate'
    <3>1. PICK i \in 1 .. old : \E j \in 1 .. old :
            /\ i < j /\ query.where[joinParts[i].for]
            /\ query.where[joinParts[j].for] /\ query.aggs[joinParts[j].for] # {}
      BY <1>1, <1>10
    <3>2. PICK j \in 1 .. old :
            /\ i < j /\ query.where[joinParts[i].for]
            /\ query.where[joinParts[j].for] /\ query.aggs[joinParts[j].for] # {}
      BY <3>1
    <3>3. i \in 1 .. old + 1 /\ j \in 1 .. old + 1
      OBVIOUS
    <3>4. joinParts'[i] = joinParts[i] /\ joinParts'[j] = joinParts[j] /\ query' = query
      BY <1>1
    <3>5. QED
      BY <1>1, <3>2, <3>3, <3>4
  <2>3. QED
    BY <1>1, <1>8, <1>9, <2>1, <2>2 DEF OrderInv
<1>11. CASE ~FilterThenAggregate /\ FilterThenAggregate'
  <2>1. PICK i \in 1 .. old + 1 : \E j \in 1 .. old + 1 :
          /\ i < j /\ query.where[joinParts'[i].for]
          /\ query.where[joinParts'[j].for] /\ query.aggs[joinParts'[j].for] # {}
    BY <1>1, <1>11
  <2>2. PICK j \in 1 .. old + 1 :
          /\ i < j /\ query.where[joinParts'[i].for]
          /\ query.where[joinParts'[j].for] /\ query.aggs[joinParts'[j].for] # {}
    BY <2>1
  <2>3. j = old + 1
    <3>1. ASSUME j # old + 1 PROVE FALSE
      <4>1. i \in 1 .. old /\ j \in 1 .. old
        BY <2>2, <3>1
      <4>2. joinParts'[i] = joinParts[i] /\ joinParts'[j] = joinParts[j]
        BY <1>1, <4>1
      <4>3. FilterThenAggregate
        BY <1>1, <2>2, <4>1, <4>2
      <4>4. QED
        BY <1>11, <4>3
    <3>2. QED
      BY <3>1
  <2>4. i \in 1 .. old
    BY <2>2, <2>3
  <2>5. PICK k \in DOMAIN args : args[k] \in OnMark
    BY <1>1, <2>2, <2>4 DEF OrderInv
  <2>6. Len(sub) >= 1 /\ Len(sub) \in Nat /\ sub[1] \in AggMark
    <3>1. Len(sub) >= 1 /\ Len(sub) \in Nat
      BY <1>1, <1>4, <1>5, <2>2, <2>3, LenProperties
    <3>2. QED
      BY <1>4, <3>1, ElementOfSeq
  <2>7. /\ DOMAIN args = 1 .. Len(args) /\ Len(args) \in Nat
        /\ (args \o sub)[k] = args[k]
        /\ \A m \in 1 .. Len(sub) : (args \o sub)[Len(args) + m] = sub[m]
        /\ args \o sub \in Seq(Mark) /\ DOMAIN (args \o sub) = 1 .. Len(args) + Len(sub)
    BY <1>6, Appended
  <2>8. (args \o sub)[Len(args) + 1] = sub[1]
    BY <2>6, <2>7
  <2>9. /\ k \in DOMAIN (args \o sub) /\ Len(args) + 1 \in DOMAIN (args \o sub)
        /\ k < Len(args) + 1
    BY <2>6, <2>7
  <2>10. DOMAIN (args \o sub) \subseteq DOMAIN args'
         /\ \A m \in DOMAIN (args \o sub) : args'[m] = (args \o sub)[m]
    <3>1. /\ Len(args \o sub) \in Nat /\ Len(on) \in Nat
          /\ DOMAIN (args \o sub) = 1 .. Len(args \o sub)
          /\ DOMAIN args' = 1 .. Len(args \o sub) + Len(on)
          /\ \A m \in 1 .. Len(args \o sub) : args'[m] = (args \o sub)[m]
      BY <1>4, <2>7, Appended
    <3>2. QED
      BY <3>1
  <2>11. Swapped'
    BY <2>5, <2>6, <2>7, <2>8, <2>9, <2>10 DEF Swapped
  <2>12. QED
    BY <1>1, <1>8, <1>9, <1>11, <2>11 DEF OrderInv
<1>12. CASE ~FilterThenAggregate'
  <2>1. ~FilterThenAggregate
    BY <1>1, <1>12
  <2>2. WhereMarks = << >> /\ WhereMarks' = << >>
    BY VisitAppends
  <2>3. args = selectMarks \o joinMarks
    <3>1. selectMarks \o joinMarks \in Seq(Mark)
      BY <1>6, Appended
    <3>2. QED
      BY <2>1, <2>2, <3>1, ConcatEmptySeq DEF OrderInv, Placeholders
  <2>4. Placeholders' = selectMarks' \o joinMarks'
    <3>1. selectMarks' \in Seq(Mark) /\ joinMarks' \in Seq(Mark)
      BY <1>4, <1>6, Appended
    <3>2. selectMarks' \o joinMarks' \in Seq(Mark)
      BY <3>1, Appended
    <3>3. QED
      BY <2>2, <3>2, ConcatEmptySeq DEF Placeholders
  <2>5. CASE sub = << >>
    <3>1. args' = args \o on /\ selectMarks' = selectMarks
      BY <1>4, <1>6, <2>5, ConcatEmptySeq
    <3>2. args' = selectMarks \o (joinMarks \o on)
      BY <1>6, <2>3, <3>1, ConcatAssociative
    <3>3. args' = Placeholders'
      BY <1>4, <2>4, <3>1, <3>2
    <3>4. QED
      BY <1>1, <1>8, <1>9, <1>12, <3>3 DEF OrderInv
  <2>6. CASE sub # << >>
    <3>1. query.where[n] /\ query.aggs[n] # {}
      BY <1>5, <2>6
    <3>2. \A i \in 1 .. old : ~query.where[joinParts[i].for]
      <4>1. old + 1 \in 1 .. old + 1 /\ \A i \in 1 .. old : i < old + 1 /\ i \in 1 .. old + 1
        OBVIOUS
      <4>2. QED
        BY <1>1, <1>12, <3>1, <4>1
    <3>3. joinMarks = << >>
      BY <1>1, <3>2 DEF OrderInv
    <3>4. args = selectMarks /\ joinMarks' = on
      BY <1>4, <1>6, <2>3, <3>3, ConcatEmptySeq
    <3>5. args' = Placeholders'
      BY <1>4, <2>4, <3>4
    <3>6. QED
      BY <1>1, <1>8, <1>9, <1>12, <3>5 DEF OrderInv
  <2>7. QED
    BY <2>5, <2>6
<1>13. QED
  BY <1>10, <1>11, <1>12

\* Every step keeps OrderInv, each by the lemma on what it appends.
LEMMA OrderStep ==
    ASSUME TypeInv, OrderInv, [Next]_vars
    PROVE  OrderInv'
<1>1. CASE Finish
  <2>1. /\ UNCHANGED <<query, joinParts, selectMarks, joinMarks>>
        /\ WhereMarks = << >> /\ WhereMarks' \in Seq(Mark)
        /\ args' = args \o WhereMarks'
    BY <1>1, FinishAppends
  <2>2. args \in Seq(Mark) /\ selectMarks \in Seq(Mark) /\ joinMarks \in Seq(Mark)
    BY MarkSlices
  <2>3. /\ Len(args) \in Nat /\ Len(WhereMarks') \in Nat
        /\ DOMAIN args = 1 .. Len(args) /\ DOMAIN args' = 1 .. Len(args) + Len(WhereMarks')
        /\ \A k \in 1 .. Len(args) : args'[k] = args[k]
    BY <2>1, <2>2, Appended
  <2>4. \A i \in DOMAIN joinParts' :
           query'.where[joinParts'[i].for] => \E k \in DOMAIN args' : args'[k] \in OnMark
    <3> SUFFICES ASSUME NEW i \in DOMAIN joinParts, query.where[joinParts[i].for]
                 PROVE  \E k \in DOMAIN args' : args'[k] \in OnMark
      BY <2>1
    <3>1. PICK k \in DOMAIN args : args[k] \in OnMark
      BY DEF OrderInv
    <3>2. k \in DOMAIN args' /\ args'[k] = args[k]
      BY <2>3
    <3>3. QED
      BY <3>1, <3>2
  <2>5. joinMarks' # << >> => \E i \in DOMAIN joinParts' : query'.where[joinParts'[i].for]
    BY <2>1 DEF OrderInv
  <2>6. FilterThenAggregate' = FilterThenAggregate
    BY <2>1 DEF FilterThenAggregate
  <2>7. CASE FilterThenAggregate
    <3>1. Swapped
      BY <2>7 DEF OrderInv
    <3>2. Swapped'
      BY <2>1, <2>2, <3>1, SwappedStays
    <3>3. QED
      BY <2>4, <2>5, <2>6, <2>7, <3>2 DEF OrderInv
  <2>8. CASE ~FilterThenAggregate
    <3>1. args = Placeholders
      BY <2>8 DEF OrderInv
    <3>2. (selectMarks \o joinMarks) \o << >> = selectMarks \o joinMarks
      BY <2>2, Appended, ConcatEmptySeq
    <3>3. args' = Placeholders'
      BY <2>1, <3>1, <3>2 DEF Placeholders
    <3>4. QED
      BY <2>4, <2>5, <2>6, <2>8, <3>3 DEF OrderInv
  <2>9. QED
    BY <2>7, <2>8
<1>2. CASE UNCHANGED <<query, joinParts, args, selectMarks, joinMarks, WhereMarks>>
  BY <1>2 DEF OrderInv, FilterThenAggregate, Swapped, Placeholders
<1>3. QED
  BY <1>1, <1>2, MarkStep, OrderVisit

(***************************************************************************)
(* When the arguments are out of order: exactly if an include with a filter *)
(* and aggregates was reached after another include with a filter. In one   *)
(* direction the argument of the earlier ON clause stays ahead of the later *)
(* subquery's; in the other the two slices grow in step as long as no ON    *)
(* clause has a placeholder yet, or no subquery gets one any more.          *)
(***************************************************************************)
THEOREM MisorderedExactly == Spec => []MisorderedExactlyAfterFilter
<1>1. Init => OrderInv
  <2> SUFFICES ASSUME Init PROVE OrderInv
    OBVIOUS
  <2>1. DOMAIN joinParts = {} /\ joinMarks = << >>
    BY DEF Init
  <2>2. << >> \o << >> = << >>
    <3>1. << >> \in Seq(Mark)
      OBVIOUS
    <3>2. QED
      BY <3>1, ConcatEmptySeq
  <2>3. args = Placeholders
    BY <2>2 DEF Init, Placeholders, WhereMarks
  <2>4. ~FilterThenAggregate
    BY <2>1 DEF FilterThenAggregate
  <2>5. QED
    BY <2>1, <2>3, <2>4 DEF OrderInv
<1>2. TypeInv /\ OrderInv /\ [Next]_vars => OrderInv'
  BY OrderStep
<1>3. ASSUME TypeInv, OrderInv PROVE MisorderedExactlyAfterFilter
  <2>1. CASE ~FilterThenAggregate
    BY <1>3, <2>1 DEF OrderInv, MisorderedExactlyAfterFilter
  <2>2. CASE FilterThenAggregate
    <3> SUFFICES ASSUME args = Placeholders PROVE FALSE
      BY <2>2 DEF MisorderedExactlyAfterFilter
    <3>1. PICK i \in DOMAIN args : \E j \in DOMAIN args :
            i < j /\ args[i] \in OnMark /\ args[j] \in AggMark
      BY <1>3, <2>2 DEF OrderInv, Swapped
    <3>2. PICK j \in DOMAIN args : i < j /\ args[i] \in OnMark /\ args[j] \in AggMark
      BY <3>1
    <3>3. /\ args \in Seq(Mark) /\ selectMarks \in Seq(Mark) /\ joinMarks \in Seq(Mark)
          /\ WhereMarks \in Seq(Mark)
      BY <1>3, MarkSlices
    <3> DEFINE behind == joinMarks \o WhereMarks
               sub == Len(selectMarks)
               rest == Len(behind)
    <3>4. behind \in Seq(Mark) /\ args = selectMarks \o behind
      <4>1. \A s, t, u \in Seq(Mark) : (s \o t) \o u = s \o (t \o u)
        BY ConcatAssociative
      <4>2. behind \in Seq(Mark)
        BY <3>3, Appended
      <4>3. QED
        BY <3>3, <4>1, <4>2 DEF Placeholders
    <3>5. Range(behind) \cap AggMark = {}
      <4>1. Range(behind) = Range(joinMarks) \cup Range(WhereMarks)
        BY <3>3, Appended
      <4>2. Range(joinMarks) \subseteq OnMark
        BY <1>3, RangeOfSeq DEF TypeInv
      <4>3. Range(WhereMarks) \subseteq {WhereArg}
        BY DEF Range, WhereMarks
      <4>4. QED
        BY <4>1, <4>2, <4>3, MarkKinds
    <3>6. \A k \in 1 .. sub : selectMarks[k] \in AggMark
      BY <1>3, ElementOfSeq DEF TypeInv
    <3> HIDE DEF behind
    <3>7. /\ sub \in Nat /\ rest \in Nat /\ DOMAIN args = 1 .. sub + rest
          /\ \A k \in 1 .. sub : args[k] = selectMarks[k]
          /\ \A k \in 1 .. rest : args[sub + k] = behind[k]
      BY <3>3, <3>4, Appended
    <3>8. DOMAIN behind = 1 .. rest
      BY <3>4, LenProperties
    <3> HIDE DEF sub, rest
    <3>9. i > sub
      BY <3>2, <3>6, <3>7, MarkKinds
    <3>10. j - sub \in 1 .. rest /\ sub + (j - sub) = j
      BY <3>2, <3>7, <3>9
    <3>11. args[j] = behind[j - sub] /\ behind[j - sub] \in Range(behind)
      BY <3>7, <3>8, <3>10 DEF Range
    <3>12. QED
      BY <3>2, <3>5, <3>11
  <2>3. QED
    BY <2>1, <2>2
<1>4. QED
  BY <1>1, <1>2, <1>3, TypeHolds, PTL DEF Spec
=============================================================================
