------------------------------- MODULE Builder -------------------------------
(***************************************************************************)
(* QueryBuilder (builder/builder.go) as far as it makes where clauses, and *)
(* the transpilers of Where.tla behind it.  A builder writes to a query,    *)
(* and Build hands out that query itself: what is called on the builder     *)
(* later shows in it, until Reset gives the builder another.  Where, and    *)
(* AndWhere and OrWhere where there is nothing yet, keep the map they are   *)
(* given and write to maps they keep, so two queries that were given one    *)
(* map share it.                                                           *)
(*                                                                         *)
(* The caller has one map that it may give away like this again and again;  *)
(* conditions that are added to others are maps made for the call.  A       *)
(* query's Where is a map with layers of maps around it, the outermost      *)
(* last: {key: [{key: [map, ...]}, ...]}.  The map may be the caller's, by  *)
(* reference: what is written to it shows in every Where that has it.       *)
(***************************************************************************)
EXTENDS Where

CONSTANTS
    Builders,
    Nil,            \* a query's Where is nil; no query
    CallersMap,     \* a reference to the caller's map
    Maps,           \* what the caller's map may be at first
    Conditions,     \* the conditions of AndWhere and OrWhere
    CallBound       \* how often builders are called

ASSUME CallBoundTyped == CallBound \in Nat
ASSUME NilIsSpecial == Nil # CallersMap /\ {Nil, CallersMap} \cap Clauses = {}

VARIABLES
    map,            \* the caller's map
    resets,         \* how often each builder was reset: it is at that query of its own
    held,           \* each query's Where: the innermost map, and those around it
    asked,          \* the query that is given to the transpilers
    wrote,          \* history: the map as the caller made it
    lent,           \* history: how often a query was given it
    first,          \* history: what each query's Where began with
    said,           \* history: the rows that the calls on each query speak of
    count           \* history: how often builders were called

buildVars == <<map, resets, held, asked, wrote, lent, first, said, count>>

\* A builder's first query, the one after a reset, and so on.
Queries == Builders \X (0 .. CallBound)
InUse == {q \in Queries : q[2] = resets[q[1]]}

\* What Build, which changes nothing, may have returned by now, before some of the
\* calls or after.
HandedOut == {q \in Queries : q[2] <= resets[q[1]]}

ListKeys == {"and", "or"}
KeysOf(w) == {w[i].key : i \in DOMAIN w}

\* The list of a map gets one more; a map without it is wrapped, with the new one.
Extended(w, key, c) ==
    [i \in DOMAIN w |-> IF w[i].key = key THEN Logic(key, Append(w[i].items, c)) ELSE w[i]]
Wrapped(w, key, c) == << Logic(key, << w, c >>) >>

\* What so many calls can make of a map or a condition: where clauses.
MadeOf(S) ==
    S \cup {Extended(w, key, c) : w \in S, key \in ListKeys, c \in Conditions}
      \cup {Wrapped(w, key, c) : w \in S, key \in ListKeys, c \in Conditions}
Built[n \in 0 .. CallBound] == IF n = 0 THEN {Empty} \cup Maps \cup Conditions ELSE MadeOf(Built[n - 1])
ASSUME BuiltAreClauses == Built[CallBound] \subseteq Clauses
-----------------------------------------------------------------------------
\* A Where: a map, and the layers around it.
Where(w, layers) == [map |-> w, around |-> layers]
Just(w) == Where(w, << >>)
NoWhere == Just(Nil)
Layer(key, conds) == [key |-> key, conds |-> conds]

\* The clause that it is.
Inside(w, layers) ==
    LET nest[n \in 0 .. Len(layers)] ==
          IF n = 0 THEN w ELSE << Logic(layers[n].key, << nest[n - 1] >> \o layers[n].conds) >>
    IN  nest[Len(layers)]
Base(h) == IF h.map = CallersMap THEN map ELSE h.map
Resolved(h) == IF h.map = Nil THEN Empty ELSE Inside(Base(h), h.around)

\* (Mutant: the list at the top is taken for the one asked for.)
AddedToAnyList(h, key, c) ==
    LET top == Len(h.around) IN
    IF top > 0 THEN Where(h.map, [h.around EXCEPT ![top] = Layer(key, Append(@.conds, c))])
    ELSE Where(h.map, Append(h.around, Layer(key, << c >>)))

\* The map at the top has the list, and it gets one more; or there is one more layer.
Added(h, key, c) ==
    LET top == Len(h.around) IN
    IF top = 0 /\ h.map # CallersMap /\ key \in KeysOf(h.map)
    THEN Just(Extended(h.map, key, c))
    ELSE IF top > 0 /\ h.around[top].key = key
    THEN Where(h.map, [h.around EXCEPT ![top] = Layer(key, Append(@.conds, c))])
    ELSE Where(h.map, Append(h.around, Layer(key, << c >>)))
-----------------------------------------------------------------------------
NothingBuilt ==
    /\ wrote = map
    /\ resets = [b \in Builders |-> 0] /\ asked = Nil
    /\ held = [q \in Queries |-> NoWhere]
    /\ lent = 0 /\ first = [q \in Queries |-> Nil]
    /\ said = [q \in Queries |-> Rows] /\ count = 0

BuildInit == Init /\ map = Empty /\ NothingBuilt

\* A clause may also be built: from nothing, on a row without nulls.
StartBuilding ==
    /\ stage = "building"
    /\ where = Empty /\ sql = Nothing /\ mongo = Accepted(Empty)
    /\ selected = [sql |-> FALSE, mongo |-> FALSE]
    /\ row \in {r \in Rows : NullFree(r)}
    /\ map \in Maps
    /\ NothingBuilt

\* A call of a builder.
Called ==
    /\ stage = "building" /\ count < CallBound
    /\ count' = count + 1
    /\ UNCHANGED <<vars, wrote, asked>>

\* ... that speaks of its query q, and what the calls say of that from then on.
SaidOf(q, begins, says) ==
    /\ Called
    /\ q \in InUse
    /\ first' = [first EXCEPT ![q] = begins]
    /\ said' = [said EXCEPT ![q] = says]
    /\ UNCHANGED resets

\* Where replaces what there is by the caller's map itself; so do AndWhere and OrWhere
\* where there is nothing.
GiveMap(q) ==
    /\ SaidOf(q, wrote, Meant[wrote])
    /\ held' = [held EXCEPT ![q] = Just(CallersMap)]
    /\ lent' = lent + 1
    /\ UNCHANGED map

\* AndWhere and OrWhere, whose key is "and" or "or", of a map made for the call.
AddWhere(q, key, c) ==
    /\ UNCHANGED lent
    /\ \/ /\ held[q].map = Nil
          /\ SaidOf(q, c, Meant[c])
          /\ held' = [held EXCEPT ![q] = Just(c)]
          /\ UNCHANGED map
       \/ /\ held[q].map # Nil
          /\ SaidOf(q, first[q], IF key = "or" THEN said[q] \cup Meant[c] ELSE said[q] \cap Meant[c])
          /\ IF held[q].map = CallersMap /\ held[q].around = << >> /\ key \in KeysOf(map)
             THEN map' = Extended(map, key, c) /\ UNCHANGED held
             ELSE held' = [held EXCEPT ![q] = Added(@, key, c)] /\ UNCHANGED map

\* Reset leaves the query to those who have it and goes on with a new one.
Reset(b) ==
    /\ Called
    /\ resets' = [resets EXCEPT ![b] = @ + 1]
    /\ UNCHANGED <<map, held, lent, first, said>>

\* A query is given to the transpilers, who read it as it has become.
Ask(q) ==
    /\ stage = "building" /\ q \in HandedOut
    /\ asked' = q
    /\ where' = Resolved(held[q])
    /\ stage' = "received"
    /\ UNCHANGED <<row, sql, mongo, selected>>
    /\ UNCHANGED <<map, resets, held, wrote, lent, first, said, count>>

BuildNext ==
    \/ Next /\ UNCHANGED buildVars
    \/ \E q \in Queries :
         \/ GiveMap(q)
         \/ \E key \in ListKeys, c \in Conditions : AddWhere(q, key, c)
         \/ Ask(q)
    \/ \E b \in Builders : Reset(b)

BuildSpec == (BuildInit \/ StartBuilding) /\ [][BuildNext]_<<vars, buildVars>>
-----------------------------------------------------------------------------
\* A query says what the calls that built it say, one after the other: those before
\* Build and those after, up to the moment it is transpiled or its builder is reset, and
\* none that are made on other queries.  It selects those rows in both databases,
\* whatever becomes of the caller's map meanwhile.  Not so if the map has an "and" or an
\* "or" of its own and was given away twice, since AndWhere and OrWhere write there; nor
\* if OrWhere meets an "or" with something beside it, which it extends.
Lists(w) == KeysOf(w) \cap ListKeys
OrBeside(w) == "or" \in KeysOf(w) /\ Len(w) > 1
BuiltClauseSaysItsCalls ==
    Answered /\ asked # Nil /\ Plain(where) =>
        /\ (first[asked] # Nil /\ ~OrBeside(first[asked]) /\ (lent > 1 => Lists(wrote) = {})) =>
              /\ selected.sql = (row \in said[asked])
              /\ Even(where) => selected.mongo = (row \in said[asked])
        /\ Lists(wrote) = {} => map = wrote
=============================================================================
