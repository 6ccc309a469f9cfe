------------------------------ MODULE Recursion ------------------------------
(***************************************************************************)
(* Functions that call themselves.  Every element of Universe has parts of *)
(* less depth, and Step says what a function is at an element, given what  *)
(* it is at the parts: then there is such a function.                      *)
(*                                                                         *)
(* The parameters are constants of a module, since a theorem about any     *)
(* Step can be used for a given one by INSTANCE.                           *)
(***************************************************************************)
EXTENDS Naturals, WellFoundedInduction, TLAPS

CONSTANTS Universe, Depth(_), Parts(_), Step(_, _)

\* The parts of an element are elements, and not as deep.
Nests ==
    \A w \in Universe :
        /\ Depth(w) \in Nat
        /\ \A v \in Parts(w) : v \in Universe /\ Depth(v) < Depth(w)

\* What a function makes of the parts of an element.
AtParts(f, w) == [v \in Parts(w) |-> f[v]]

\* The elements up to a depth, and the functions that are right up to there.
Shallow(n) == {w \in Universe : Depth(w) < n}
Attempt(f, n) == f = [w \in Shallow(n) |-> Step(w, AtParts(f, w))]
-----------------------------------------------------------------------------
\* Among some natural numbers there is a least one.
LEMMA LeastNatural ==
    ASSUME NEW N \in SUBSET Nat, N # {}
    PROVE  \E m \in N : \A k \in N : m <= k
<1> DEFINE R == OpToRel(<, Nat)
<1>1. IsWellFoundedOn(R, Nat)
  BY NatLessThanWellFounded, Zenon
<1>2. \A k, m \in Nat : k < m => <<k, m>> \in R
  BY Zenon DEF OpToRel
<1> HIDE DEF R
<1>3. PICK m \in N : \A k \in N : <<k, m>> \notin R
  BY <1>1, WFMin
<1>4. \A k \in N : ~(k < m)
  BY <1>2, <1>3
<1>5. QED
  BY <1>4

\* Among some elements there is one of the least depth.
LEMMA ShallowestExists ==
    ASSUME Nests, NEW T \in SUBSET Universe, T # {}
    PROVE  \E w \in T : \A v \in T : Depth(w) <= Depth(v)
<1> DEFINE N == {Depth(w) : w \in T}
<1>1. N \in SUBSET Nat /\ N # {}
  BY DEF Nests
<1>2. PICK m \in N : \A k \in N : m <= k
  BY <1>1, LeastNatural
<1>3. QED
  BY <1>2

\* The parts of a shallow element are shallow, and not as deep as it is.
LEMMA PartsAreShallow ==
    ASSUME Nests, NEW n \in Nat, NEW w \in Shallow(n + 1), NEW v \in Parts(w)
    PROVE  v \in Shallow(n) /\ v \in Shallow(n + 1)
<1>1. w \in Universe /\ Depth(w) < n + 1 /\ Depth(w) \in Nat
  BY DEF Shallow, Nests
<1>2. v \in Universe /\ Depth(v) < Depth(w) /\ Depth(v) \in Nat
  BY <1>1 DEF Nests
<1>3. QED
  BY <1>1, <1>2 DEF Shallow

\* Two functions that are right up to some depths agree as far as both go.
LEMMA AttemptsAgree ==
    ASSUME Nests, NEW n \in Nat, NEW m \in Nat, NEW f, NEW g, Attempt(f, n), Attempt(g, m)
    PROVE  \A w \in Shallow(n) \cap Shallow(m) : f[w] = g[w]
<1> DEFINE T == {w \in Shallow(n) \cap Shallow(m) : f[w] # g[w]}
<1>1. SUFFICES ASSUME T # {} PROVE FALSE
  OBVIOUS
<1>2. T \in SUBSET Universe
  BY DEF Shallow
<1>3. PICK w \in T : \A v \in T : Depth(w) <= Depth(v)
  BY <1>1, <1>2, ShallowestExists
<1>4. w \in Universe /\ Depth(w) \in Nat /\ Depth(w) < n /\ Depth(w) < m
  BY <1>2 DEF Shallow, Nests
<1>5. \A v \in Parts(w) : f[v] = g[v]
  <2>1. SUFFICES ASSUME NEW v \in Parts(w) PROVE f[v] = g[v]
    OBVIOUS
  <2>2. v \in Universe /\ Depth(v) \in Nat /\ Depth(v) < Depth(w)
    BY <1>4 DEF Nests
  <2>3. v \in Shallow(n) \cap Shallow(m)
    BY <1>4, <2>2 DEF Shallow
  <2>4. v \notin T
    BY <1>3, <1>4, <2>2
  <2>5. QED
    BY <2>3, <2>4
<1>6. AtParts(f, w) = AtParts(g, w)
  BY <1>5 DEF AtParts
<1>7. f[w] = Step(w, AtParts(f, w))
  BY DEF Attempt
<1>8. g[w] = Step(w, AtParts(g, w))
  BY DEF Attempt
<1>9. f[w] # g[w]
  OBVIOUS
<1>10. QED
  BY <1>6, <1>7, <1>8, <1>9

\* Up to every depth there is a function that is right.
LEMMA AttemptsExist ==
    ASSUME Nests
    PROVE  \A n \in Nat : \E f : Attempt(f, n)
<1> DEFINE T == {n \in Nat : ~ \E f : Attempt(f, n)}
<1>1. SUFFICES ASSUME T # {} PROVE FALSE
  OBVIOUS
<1>2. PICK n \in T : \A k \in T : n <= k
  BY <1>1, LeastNatural
<1>3. CASE n = 0
  <2> DEFINE f == [w \in Shallow(0) |-> w]
  <2>1. Shallow(0) = {}
    BY DEF Shallow, Nests
  <2>2. f = [w \in Shallow(0) |-> Step(w, AtParts(f, w))]
    BY <2>1
  <2>3. QED
    BY <1>3, <2>2 DEF Attempt
<1>4. CASE n # 0
  <2>1. PICK k \in Nat : n = k + 1
    BY <1>4
  <2>2. k \notin T
    BY <1>2, <2>1
  <2>3. PICK f : Attempt(f, k)
    BY <2>2
  <2> DEFINE g == [w \in Shallow(k + 1) |-> Step(w, AtParts(f, w))]
  <2>4. \A w \in Shallow(k) : w \in Shallow(k + 1)
    BY DEF Shallow, Nests
  <2>5. \A w \in Shallow(k) : g[w] = f[w]
    BY <2>3, <2>4 DEF Attempt
  <2>6. \A w \in Shallow(k + 1) : AtParts(g, w) = AtParts(f, w)
    <3>1. SUFFICES ASSUME NEW w \in Shallow(k + 1) PROVE AtParts(g, w) = AtParts(f, w)
      OBVIOUS
    <3>2. \A v \in Parts(w) : v \in Shallow(k)
      BY PartsAreShallow
    <3> HIDE DEF g
    <3>3. \A v \in Parts(w) : g[v] = f[v]
      BY <2>5, <3>2
    <3>4. QED
      BY <3>3 DEF AtParts
  <2>7. g = [w \in Shallow(k + 1) |-> Step(w, AtParts(g, w))]
    <3>1. \A w \in Shallow(k + 1) : Step(w, AtParts(f, w)) = Step(w, AtParts(g, w))
      BY <2>6
    <3>2. g = [w \in Shallow(k + 1) |-> Step(w, AtParts(f, w))]
      OBVIOUS
    <3> HIDE DEF g
    <3>3. QED
      BY <3>1, <3>2
  <2> HIDE DEF g
  <2>8. Attempt(g, n)
    BY <2>1, <2>7 DEF Attempt
  <2>9. QED
    BY <2>8
<1>5. QED
  BY <1>3, <1>4

\* The function: at every element it is what Step makes of it and of what the
\* function is at the parts.
THEOREM RecursiveFunctionExists ==
    ASSUME Nests
    PROVE  \E f : f = [w \in Universe |-> Step(w, AtParts(f, w))]
<1> DEFINE right(n) == CHOOSE f : Attempt(f, n)
           f == [w \in Universe |-> right(Depth(w) + 1)[w]]
<1>1. \A w \in Universe : Depth(w) \in Nat /\ Depth(w) + 1 \in Nat /\ w \in Shallow(Depth(w) + 1)
  BY DEF Nests, Shallow
<1>2. \A n \in Nat : Attempt(right(n), n)
  BY AttemptsExist
<1>3. \A w \in Universe : f[w] = right(Depth(w) + 1)[w]
  OBVIOUS
<1> HIDE DEF right
<1>4. ASSUME NEW w \in Universe PROVE f[w] = Step(w, AtParts(f, w))
  <2>1. PICK g : g = right(Depth(w) + 1)
    OBVIOUS
  <2>2. Attempt(g, Depth(w) + 1)
    BY <1>1, <1>2, <2>1
  <2>3. g[w] = Step(w, AtParts(g, w))
    BY <1>1, <2>2 DEF Attempt
  <2>4. ASSUME NEW v \in Parts(w) PROVE f[v] = g[v]
    <3>1. v \in Universe /\ v \in Shallow(Depth(w) + 1)
      BY <1>1, PartsAreShallow DEF Nests
    <3>2. PICK h : h = right(Depth(v) + 1)
      OBVIOUS
    <3>3. Attempt(h, Depth(v) + 1) /\ Depth(v) + 1 \in Nat /\ v \in Shallow(Depth(v) + 1)
      BY <1>1, <1>2, <3>1, <3>2
    <3>4. g[v] = h[v]
      BY <1>1, <2>2, <3>1, <3>3, AttemptsAgree
    <3>5. QED
      BY <1>3, <3>1, <3>2, <3>4
  <2> HIDE DEF f
  <2>5. AtParts(f, w) = AtParts(g, w)
    BY <2>4 DEF AtParts
  <2>6. QED
    BY <1>3, <2>1, <2>3, <2>5
<1>5. f = [w \in Universe |-> f[w]]
  OBVIOUS
<1> HIDE DEF f
<1>6. f = [w \in Universe |-> Step(w, AtParts(f, w))]
  BY <1>4, <1>5
<1>7. QED
  BY <1>6
=============================================================================
