----------------------------- MODULE WhereProofs -----------------------------
(***************************************************************************)
(* Proofs about where clauses.  processWhere calls itself, so its function *)
(* is unfolded first (RecursiveFunctionExists), and what it returns for a  *)
(* clause follows from what it returns for the clauses in it, which are    *)
(* not as deep.  The results are concatenated with FlattenSeq, which has   *)
(* its lemmas here too.  Then comes what builders make: a call wraps or     *)
(* extends what a query holds, which adds one condition to what it means. *)
(***************************************************************************)
EXTENDS Builder, SequenceTheorems, TLAPS

\* One clause, and the results for the clauses in it.
SqlStep(w, at) ==
    Joined([i \in DOMAIN w |-> SqlEntry(w[i], [j \in DOMAIN w[i].items |-> at[w[i].items[j]]])])
MongoStep(w, at) ==
    Merged([i \in DOMAIN w |-> MongoEntry(w[i], [j \in DOMAIN w[i].items |-> at[w[i].items[j]]])])
WithinStep(w, at) == {w} \cup UNION {at[v] : v \in Subclauses(w)}
MeantStep(w, at) ==
    {r \in Rows : \A i \in DOMAIN w :
        EntryHolds(w[i], [j \in DOMAIN w[i].items |-> at[w[i].items[j]]], r)}

OfSql == INSTANCE Recursion WITH
    Universe <- Clauses, Depth <- Depth, Parts <- Subclauses, Step <- SqlStep
OfMongo == INSTANCE Recursion WITH
    Universe <- Clauses, Depth <- Depth, Parts <- Subclauses, Step <- MongoStep
OfWithin == INSTANCE Recursion WITH
    Universe <- Clauses, Depth <- Depth, Parts <- Subclauses, Step <- WithinStep
OfMeant == INSTANCE Recursion WITH
    Universe <- Clauses, Depth <- Depth, Parts <- Subclauses, Step <- MeantStep
-----------------------------------------------------------------------------
(* Sequences, and the concatenation of sequences.                            *)

\* What FlattenSeq computes: the concatenation of the first n sequences, for each n.
Longer(f, ss, i) == IF i = 1 THEN ss[1] ELSE f[i - 1] \o ss[i]
Flattening(f, ss, n) == f = [i \in 1 .. n |-> Longer(f, ss, i)]

\* There is such a function, of every length.
LEMMA FlatteningExists ==
    ASSUME NEW ss
    PROVE  \A n \in Nat : \E f : Flattening(f, ss, n)
<1> DEFINE N == {n \in Nat : ~ \E f : Flattening(f, ss, n)}
<1>1. SUFFICES ASSUME N # {} PROVE FALSE
  OBVIOUS
<1>2. PICK n \in N : \A k \in N : n <= k
  BY <1>1, OfSql!LeastNatural
<1>3. CASE n = 0
  <2> DEFINE f == [i \in 1 .. 0 |-> i]
  <2>1. f = [i \in 1 .. 0 |-> Longer(f, ss, i)]
    OBVIOUS
  <2>2. QED
    BY <1>3, <2>1 DEF Flattening
<1>4. CASE n # 0
  <2>1. PICK k \in Nat : n = k + 1
    BY <1>4
  <2>2. PICK f : Flattening(f, ss, k)
    BY <1>2, <2>1
  <2> DEFINE g == [i \in 1 .. k + 1 |-> Longer(f, ss, i)]
  <2>3. \A i \in 1 .. k : i \in 1 .. k + 1 /\ g[i] = f[i]
    BY <2>2 DEF Flattening
  <2>4. \A i \in 1 .. k + 1 : Longer(g, ss, i) = Longer(f, ss, i)
    <3>1. SUFFICES ASSUME NEW i \in 1 .. k + 1 PROVE Longer(g, ss, i) = Longer(f, ss, i)
      OBVIOUS
    <3>2. i = 1 \/ i - 1 \in 1 .. k
      OBVIOUS
    <3> HIDE DEF g
    <3>3. QED
      BY <2>3, <3>2 DEF Longer
  <2>5. g = [i \in 1 .. k + 1 |-> Longer(f, ss, i)]
    OBVIOUS
  <2> HIDE DEF g
  <2>6. g = [i \in 1 .. k + 1 |-> Longer(g, ss, i)]
    BY <2>4, <2>5
  <2>7. QED
    BY <2>1, <2>6 DEF Flattening
<1>5. QED
  BY <1>3, <1>4

\* Two of them agree as far as both go, if the sequences are the same so far.
Same(f, g, n) == \A i \in 1 .. n : f[i] = g[i]

\* The two agree as far as the shorter goes, if the sequences do.
LEMMA FlatteningsAgree ==
    ASSUME NEW n \in Nat, NEW m \in Nat, n <= m, NEW ss, NEW tt, Same(ss, tt, n),
           NEW f, Flattening(f, ss, n), NEW g, Flattening(g, tt, m)
    PROVE  Same(f, g, n)
<1> DEFINE N == {i \in 1 .. n : f[i] # g[i]}
<1>1. SUFFICES ASSUME N # {} PROVE FALSE
  BY DEF Same
<1>2. N \in SUBSET Nat
  OBVIOUS
<1>3. PICK i \in N : \A k \in N : i <= k
  BY <1>1, <1>2, OfSql!LeastNatural
<1>4. i \in 1 .. n /\ i \in 1 .. m /\ f[i] # g[i]
  OBVIOUS
<1>5. f[i] = Longer(f, ss, i) /\ g[i] = Longer(g, tt, i)
  BY <1>4 DEF Flattening
<1>6. CASE i = 1
  BY <1>4, <1>5, <1>6 DEF Longer, Same
<1>7. CASE i # 1
  <2>1. i - 1 \in 1 .. n /\ ~(i <= i - 1)
    BY <1>4, <1>7
  <2>2. i - 1 \notin N
    BY <1>3, <2>1
  <2>3. f[i - 1] = g[i - 1]
    BY <2>1, <2>2
  <2>4. QED
    BY <1>4, <1>5, <1>7, <2>3 DEF Longer, Same
<1>8. QED
  BY <1>6, <1>7

\* FlattenSeq is the last of them.
LEMMA FlattenSeqIs ==
    ASSUME NEW T, NEW ss \in Seq(T), Len(ss) # 0
    PROVE  \E f : Flattening(f, ss, Len(ss)) /\ FlattenSeq(ss) = f[Len(ss)]
<1> DEFINE g == CHOOSE g : g = [i \in 1 .. Len(ss) |-> IF i = 1 THEN ss[i] ELSE g[i - 1] \o ss[i]]
<1>1. Len(ss) \in Nat
  OBVIOUS
<1>2. PICK f : Flattening(f, ss, Len(ss))
  BY <1>1, FlatteningExists
<1>3. \A h, i : Longer(h, ss, i) = IF i = 1 THEN ss[i] ELSE h[i - 1] \o ss[i]
  BY DEF Longer
<1>4. f = [i \in 1 .. Len(ss) |-> IF i = 1 THEN ss[i] ELSE f[i - 1] \o ss[i]]
  BY <1>2, <1>3 DEF Flattening
<1>5. g = [i \in 1 .. Len(ss) |-> IF i = 1 THEN ss[i] ELSE g[i - 1] \o ss[i]]
  BY <1>4
<1>6. FlattenSeq(ss) = g[Len(ss)]
  BY DEF FlattenSeq
<1> HIDE DEF g
<1>7. Flattening(g, ss, Len(ss))
  BY <1>3, <1>5 DEF Flattening
<1>8. QED
  BY <1>6, <1>7

\* FlattenSeq of no sequences is empty, and one more sequence comes at the end.
LEMMA FlattenSeqEmpty == FlattenSeq(<< >>) = << >>
  BY DEF FlattenSeq

\* FlattenSeq of one more sequence, which comes at the end,
LEMMA FlattenSeqLonger ==
    ASSUME NEW n \in Nat, NEW T, NEW ss \in Seq(T), NEW tt \in Seq(T), NEW s,
           Len(ss) = n, Len(tt) = n + 1, tt[n + 1] = s, Same(ss, tt, n), n # 0
    PROVE  FlattenSeq(tt) = FlattenSeq(ss) \o s
<1>1. PICK g : Flattening(g, tt, n + 1) /\ FlattenSeq(tt) = g[n + 1]
  BY FlattenSeqIs
<1>2. PICK f : Flattening(f, ss, n) /\ FlattenSeq(ss) = f[n]
  BY FlattenSeqIs
<1>3. n + 1 \in 1 .. n + 1 /\ n \in 1 .. n /\ n + 1 # 1 /\ (n + 1) - 1 = n /\ n <= n + 1 /\ n + 1 \in Nat
  OBVIOUS
<1>4. g[n + 1] = Longer(g, tt, n + 1)
  BY <1>1, <1>3 DEF Flattening
<1>5. g[n + 1] = g[n] \o s
  BY <1>3, <1>4 DEF Longer
<1>6. f[n] = g[n]
  <2>1. Same(f, g, n)
    BY <1>1, <1>2, <1>3, FlatteningsAgree
  <2>2. QED
    BY <1>3, <2>1 DEF Same
<1>7. QED
  BY <1>1, <1>2, <1>5, <1>6

\* ... with Append,
LEMMA FlattenSeqLast ==
    ASSUME NEW T, NEW ss \in Seq(T), NEW s \in T
    PROVE  /\ ss = << >> => FlattenSeq(Append(ss, s)) = s
           /\ ss # << >> => FlattenSeq(Append(ss, s)) = FlattenSeq(ss) \o s
<1>1. PICK n \in Nat : n = Len(ss)
  BY LenProperties
<1>2. PICK tt \in Seq(T) : tt = Append(ss, s)
  BY AppendProperties
<1>3. Len(tt) = n + 1 /\ tt[n + 1] = s /\ Same(ss, tt, n)
  BY <1>1, <1>2, AppendProperties DEF Same
<1>4. CASE ss = << >>
  <2>1. n = 0
    BY <1>1, <1>4, EmptySeq
  <2>2. Len(tt) = 1 /\ tt[1] = s
    BY <1>3, <2>1
  <2>3. \E g : Flattening(g, tt, Len(tt)) /\ FlattenSeq(tt) = g[Len(tt)]
    <3>1. Len(tt) # 0
      BY <2>2
    <3>2. QED
      BY <3>1, FlattenSeqIs
  <2>4. PICK g : Flattening(g, tt, 1) /\ FlattenSeq(tt) = g[1]
    BY <2>2, <2>3
  <2>5. g[1] = s
    BY <2>2, <2>4 DEF Flattening, Longer
  <2>6. QED
    BY <1>2, <1>4, <2>4, <2>5
<1>5. CASE ss # << >>
  <2>1. n # 0
    BY <1>1, <1>5, EmptySeq
  <2>2. FlattenSeq(tt) = FlattenSeq(ss) \o s
    BY <1>1, <1>3, <2>1, FlattenSeqLonger
  <2>3. QED
    BY <1>2, <1>5, <2>2
<1>6. QED
  BY <1>4, <1>5

\* ... and as it is used: of a sequence of sequences over a set.
LEMMA FlattenSeqAppend ==
    ASSUME NEW T, NEW ss \in Seq(Seq(T)), NEW s \in Seq(T)
    PROVE  FlattenSeq(Append(ss, s)) = FlattenSeq(ss) \o s
<1>1. << >> \o s = s
  BY ConcatEmptySeq
<1>2. /\ ss = << >> => FlattenSeq(Append(ss, s)) = s
      /\ ss # << >> => FlattenSeq(Append(ss, s)) = FlattenSeq(ss) \o s
  BY FlattenSeqLast
<1>3. QED
  BY <1>1, <1>2, FlattenSeqEmpty

\* Among some sequences there is the empty one, or one whose front is not among them.
LEMMA ShortestExists ==
    ASSUME NEW T, NEW B \in SUBSET Seq(T), B # {}
    PROVE  << >> \in B \/ \E s \in Seq(T) : \E e \in T : s \notin B /\ Append(s, e) \in B
<1> DEFINE N == {Len(s) : s \in B}
<1>1. N \in SUBSET Nat /\ N # {}
  BY LenProperties
<1>2. PICK m \in N : \A k \in N : m <= k
  BY <1>1, OfSql!LeastNatural
<1>3. PICK t \in B : Len(t) = m
  BY <1>2
<1>4. CASE t # << >>
  <2>1. PICK s \in Seq(T), e \in T : t = Append(s, e)
    BY <1>4, SequenceEmptyOrAppend
  <2>2. Len(t) = Len(s) + 1 /\ Len(s) \in Nat
    BY <2>1, AppendProperties, LenProperties
  <2>3. s \notin B
    <3>1. SUFFICES ASSUME s \in B PROVE FALSE
      OBVIOUS
    <3>2. Len(s) \in N
      BY <3>1
    <3>3. m <= Len(s)
      BY <1>2, <3>2
    <3>4. QED
      BY <1>3, <2>2, <3>3
  <2>4. QED
    BY <1>3, <2>1, <2>3
<1>5. QED
  BY <1>3, <1>4

\* What is in a sequence, and in a longer one.
LEMMA ToSetOfSeq ==
    ASSUME NEW T, NEW s \in Seq(T)
    PROVE  /\ ToSet(s) \subseteq T
           /\ DOMAIN s = 1 .. Len(s)
           /\ ToSet(s) = {s[i] : i \in 1 .. Len(s)}
           /\ s \in Seq(ToSet(s))
<1>1. Len(s) \in Nat /\ DOMAIN s = 1 .. Len(s) /\ \A i \in 1 .. Len(s) : s[i] \in T
  BY LenProperties, ElementOfSeq
<1>2. ToSet(s) = {s[i] : i \in 1 .. Len(s)}
  BY <1>1 DEF ToSet
<1>3. s \in [1 .. Len(s) -> ToSet(s)]
  <2>1. s = [i \in 1 .. Len(s) |-> s[i]]
    BY LenProperties
  <2>2. \A i \in 1 .. Len(s) : s[i] \in ToSet(s)
    BY <1>2
  <2> QED BY <2>1, <2>2
<1>4. s \in Seq(ToSet(s))
  BY <1>1, <1>3, SeqDef
<1>5. QED
  BY <1>1, <1>2, <1>4

\* What is in a concatenation.
LEMMA ToSetOfConcat ==
    ASSUME NEW T, NEW s \in Seq(T), NEW t \in Seq(T)
    PROVE  ToSet(s \o t) = ToSet(s) \cup ToSet(t)
<1> DEFINE n == Len(s)
           m == Len(t)
           u == s \o t
<1>1. u \in Seq(T) /\ Len(u) = n + m /\ n \in Nat /\ m \in Nat
  BY ConcatProperties, LenProperties
<1>2. \A i \in 1 .. n + m : u[i] = IF i <= n THEN s[i] ELSE t[i - n]
  BY ConcatProperties
<1>3. ToSet(u) = {u[i] : i \in 1 .. n + m} /\ ToSet(s) = {s[i] : i \in 1 .. n} /\ ToSet(t) = {t[i] : i \in 1 .. m}
  BY <1>1, ToSetOfSeq
<1> HIDE DEF u, n, m
<1>4. \A i \in 1 .. n : i \in 1 .. n + m /\ u[i] = s[i]
  BY <1>1, <1>2
<1>5. \A i \in 1 .. m : i + n \in 1 .. n + m /\ u[i + n] = t[i]
  BY <1>1, <1>2
<1>6. \A i \in 1 .. n + m : (i \in 1 .. n /\ u[i] = s[i]) \/ (i - n \in 1 .. m /\ u[i] = t[i - n])
  BY <1>1, <1>2
<1>7. ToSet(u) \subseteq ToSet(s) \cup ToSet(t)
  BY <1>3, <1>6
<1>8. ToSet(s) \subseteq ToSet(u) /\ ToSet(t) \subseteq ToSet(u)
  BY <1>3, <1>4, <1>5
<1>9. QED
  BY <1>7, <1>8 DEF u

\* FlattenSeq of sequences is a sequence, of what is in them.
Elements(ss) == UNION {ToSet(ss[i]) : i \in 1 .. Len(ss)}
Flat(T, ss) == FlattenSeq(ss) \in Seq(T) /\ ToSet(FlattenSeq(ss)) = Elements(ss)

\* What is in the sequences, with one more of them.
LEMMA ElementsAppend ==
    ASSUME NEW T, NEW s \in Seq(T), NEW e \in T
    PROVE  Elements(Append(s, e)) = Elements(s) \cup ToSet(e)
<1>1. PICK u \in Seq(T) : u = Append(s, e)
  BY AppendProperties
<1>2. PICK n \in Nat : n = Len(s)
  BY LenProperties
<1>3. Len(u) = n + 1 /\ u[n + 1] = e /\ Same(u, s, n)
  BY <1>1, <1>2, AppendProperties DEF Same
<1>4. \A x : x \in Elements(u) <=> \E i \in 1 .. n + 1 : x \in ToSet(u[i])
  BY <1>3 DEF Elements
<1>5. \A x : x \in Elements(s) <=> \E i \in 1 .. n : x \in ToSet(s[i])
  BY <1>2 DEF Elements
<1>6. \A x : (\E i \in 1 .. n + 1 : x \in ToSet(u[i])) <=> (x \in ToSet(e) \/ \E i \in 1 .. n : x \in ToSet(s[i]))
  <2>1. \A i \in 1 .. n : i \in 1 .. n + 1 /\ u[i] = s[i]
    BY <1>3 DEF Same
  <2>2. \A i \in 1 .. n + 1 : i \in 1 .. n \/ i = n + 1
    OBVIOUS
  <2>3. n + 1 \in 1 .. n + 1
    OBVIOUS
  <2>4. QED
    BY <1>3, <2>1, <2>2, <2>3, Zenon
<1>7. \A x : x \in Elements(u) <=> x \in Elements(s) \cup ToSet(e)
  BY <1>4, <1>5, <1>6, Zenon
<1>8. QED
  BY <1>1, <1>7

\* FlattenSeq of sequences over a set is one, of what is in them.
LEMMA FlattenSeqType ==
    ASSUME NEW T, NEW ss \in Seq(Seq(T))
    PROVE  Flat(T, ss)
<1> DEFINE B == {x \in Seq(Seq(T)) : ~ Flat(T, x)}
<1>1. SUFFICES ASSUME B # {} PROVE FALSE
  OBVIOUS
<1>2. << >> \in B \/ \E s \in Seq(Seq(T)) : \E e \in Seq(T) : s \notin B /\ Append(s, e) \in B
  BY <1>1, ShortestExists
<1>3. Flat(T, << >>)
  <2>1. Len(<< >>) = 0 /\ << >> \in Seq(T) /\ ToSet(<< >>) = {}
    BY EmptySeq DEF ToSet
  <2>2. Elements(<< >>) = {}
    BY <2>1 DEF Elements
  <2>3. QED
    BY <2>1, <2>2, FlattenSeqEmpty DEF Flat
<1>4. ASSUME NEW s \in Seq(Seq(T)), NEW e \in Seq(T), Flat(T, s)
      PROVE  Flat(T, Append(s, e))
  <2>1. PICK v \in Seq(T) : v = FlattenSeq(s) /\ ToSet(v) = Elements(s)
    BY <1>4 DEF Flat
  <2>2. FlattenSeq(Append(s, e)) = v \o e
    BY <2>1, FlattenSeqAppend
  <2>3. v \o e \in Seq(T) /\ ToSet(v \o e) = ToSet(v) \cup ToSet(e)
    BY ToSetOfConcat, ConcatProperties
  <2>4. Elements(Append(s, e)) = Elements(s) \cup ToSet(e)
    BY ElementsAppend
  <2>5. QED
    BY <2>1, <2>2, <2>3, <2>4 DEF Flat
<1>5. QED
  BY <1>2, <1>3, <1>4

\* Clauses nest, and what is asked of the clauses in an entry is asked of clauses.
LEMMA ClausesAreNested ==
    /\ OfSql!Nests /\ OfMongo!Nests /\ OfWithin!Nests /\ OfMeant!Nests
    /\ \A w \in Clauses : \A v \in Subclauses(w) : v \in Clauses /\ Depth(v) < Depth(w)
    /\ \A w \in Clauses : Depth(w) \in Nat
<1>1. \A w \in Clauses : \A v \in Subclauses(w) : v \in Clauses
  BY ClausesNest
<1>2. \A w \in Clauses : Depth(w) \in Nat /\ \A v \in Subclauses(w) : Depth(v) < Depth(w)
  BY ClausesNest
<1>3. QED
  BY <1>1, <1>2 DEF OfSql!Nests, OfMongo!Nests, OfWithin!Nests, OfMeant!Nests

\* The items of an entry are clauses in the clause.
LEMMA ItemsAreSubclauses ==
    ASSUME NEW w \in Clauses, NEW i \in DOMAIN w, NEW j \in DOMAIN w[i].items
    PROVE  w[i].items[j] \in Subclauses(w)
BY DEF Subclauses, ToSet

\* processWhere of the SQL transpiler calls itself for the clauses in an entry.
LEMMA SqlWhereIs ==
    SqlWhere = [w \in Clauses |->
        Joined([i \in DOMAIN w |->
            SqlEntry(w[i], [j \in DOMAIN w[i].items |-> SqlWhere[w[i].items[j]]])])]
<1>1. PICK f : f = [w \in Clauses |-> SqlStep(w, OfSql!AtParts(f, w))]
  BY ClausesAreNested, OfSql!RecursiveFunctionExists
<1>2. \A w \in Clauses : \A i \in DOMAIN w :
        [j \in DOMAIN w[i].items |-> OfSql!AtParts(f, w)[w[i].items[j]]]
            = [j \in DOMAIN w[i].items |-> f[w[i].items[j]]]
  BY ItemsAreSubclauses DEF OfSql!AtParts
<1>3. \A w \in Clauses : SqlStep(w, OfSql!AtParts(f, w)) =
        Joined([i \in DOMAIN w |->
            SqlEntry(w[i], [j \in DOMAIN w[i].items |-> f[w[i].items[j]]])])
  <2>1. SUFFICES ASSUME NEW w \in Clauses
                 PROVE  SqlStep(w, OfSql!AtParts(f, w)) = Joined([i \in DOMAIN w |->
                            SqlEntry(w[i], [j \in DOMAIN w[i].items |-> f[w[i].items[j]]])])
    OBVIOUS
  <2>2. [i \in DOMAIN w |-> SqlEntry(w[i], [j \in DOMAIN w[i].items |-> OfSql!AtParts(f, w)[w[i].items[j]]])]
          = [i \in DOMAIN w |-> SqlEntry(w[i], [j \in DOMAIN w[i].items |-> f[w[i].items[j]]])]
    BY <1>2
  <2>3. QED
    BY <2>2 DEF SqlStep
<1>4. f = [w \in Clauses |->
        Joined([i \in DOMAIN w |->
            SqlEntry(w[i], [j \in DOMAIN w[i].items |-> f[w[i].items[j]]])])]
  BY <1>1, <1>3
<1>5. QED
  BY <1>4 DEF SqlWhere

\* ... and so does that of the MongoDB transpiler.
LEMMA MongoWhereIs ==
    MongoWhere = [w \in Clauses |->
        Merged([i \in DOMAIN w |->
            MongoEntry(w[i], [j \in DOMAIN w[i].items |-> MongoWhere[w[i].items[j]]])])]
<1>1. PICK f : f = [w \in Clauses |-> MongoStep(w, OfMongo!AtParts(f, w))]
  BY ClausesAreNested, OfMongo!RecursiveFunctionExists
<1>2. \A w \in Clauses : \A i \in DOMAIN w :
        [j \in DOMAIN w[i].items |-> OfMongo!AtParts(f, w)[w[i].items[j]]]
            = [j \in DOMAIN w[i].items |-> f[w[i].items[j]]]
  BY ItemsAreSubclauses DEF OfMongo!AtParts
<1>3. \A w \in Clauses : MongoStep(w, OfMongo!AtParts(f, w)) =
        Merged([i \in DOMAIN w |->
            MongoEntry(w[i], [j \in DOMAIN w[i].items |-> f[w[i].items[j]]])])
  <2>1. SUFFICES ASSUME NEW w \in Clauses
                 PROVE  MongoStep(w, OfMongo!AtParts(f, w)) = Merged([i \in DOMAIN w |->
                            MongoEntry(w[i], [j \in DOMAIN w[i].items |-> f[w[i].items[j]]])])
    OBVIOUS
  <2>2. [i \in DOMAIN w |-> MongoEntry(w[i], [j \in DOMAIN w[i].items |-> OfMongo!AtParts(f, w)[w[i].items[j]]])]
          = [i \in DOMAIN w |-> MongoEntry(w[i], [j \in DOMAIN w[i].items |-> f[w[i].items[j]]])]
    BY <1>2
  <2>3. QED
    BY <2>2 DEF MongoStep
<1>4. f = [w \in Clauses |->
        Merged([i \in DOMAIN w |->
            MongoEntry(w[i], [j \in DOMAIN w[i].items |-> f[w[i].items[j]]])])]
  BY <1>1, <1>3
<1>5. QED
  BY <1>4 DEF MongoWhere

\* A clause is within itself, and so are the clauses within those in it.
LEMMA WithinIs ==
    Within = [w \in Clauses |-> {w} \cup UNION {Within[v] : v \in Subclauses(w)}]
<1>1. PICK f : f = [w \in Clauses |-> WithinStep(w, OfWithin!AtParts(f, w))]
  BY ClausesAreNested, OfWithin!RecursiveFunctionExists
<1>2. \A w \in Clauses : WithinStep(w, OfWithin!AtParts(f, w)) = {w} \cup UNION {f[v] : v \in Subclauses(w)}
  <2>1. \A w \in Clauses : {OfWithin!AtParts(f, w)[v] : v \in Subclauses(w)} = {f[v] : v \in Subclauses(w)}
    BY DEF OfWithin!AtParts
  <2>2. QED
    BY <2>1 DEF WithinStep
<1>3. f = [w \in Clauses |-> {w} \cup UNION {f[v] : v \in Subclauses(w)}]
  BY <1>1, <1>2
<1>4. QED
  BY <1>3 DEF Within

\* The rows that a clause is true of are those that all its entries are true of.
LEMMA MeantIs ==
    Meant = [w \in Clauses |->
        {r \in Rows : \A i \in DOMAIN w :
            EntryHolds(w[i], [j \in DOMAIN w[i].items |-> Meant[w[i].items[j]]], r)}]
<1>1. PICK f : f = [w \in Clauses |-> MeantStep(w, OfMeant!AtParts(f, w))]
  BY ClausesAreNested, OfMeant!RecursiveFunctionExists
<1>2. \A w \in Clauses : \A i \in DOMAIN w :
        [j \in DOMAIN w[i].items |-> OfMeant!AtParts(f, w)[w[i].items[j]]]
            = [j \in DOMAIN w[i].items |-> f[w[i].items[j]]]
  BY ItemsAreSubclauses DEF OfMeant!AtParts
<1>3. \A w \in Clauses : MeantStep(w, OfMeant!AtParts(f, w)) =
        {r \in Rows : \A i \in DOMAIN w :
            EntryHolds(w[i], [j \in DOMAIN w[i].items |-> f[w[i].items[j]]], r)}
  BY <1>2 DEF MeantStep
<1>4. f = [w \in Clauses |->
        {r \in Rows : \A i \in DOMAIN w :
            EntryHolds(w[i], [j \in DOMAIN w[i].items |-> f[w[i].items[j]]], r)}]
  BY <1>1, <1>3
<1>5. QED
  BY <1>4 DEF Meant

\* Among some clauses there is one with none of them in it.
LEMMA ShallowestClause ==
    ASSUME NEW B \in SUBSET Clauses, B # {}
    PROVE  \E w \in B : \A v \in Subclauses(w) : v \in Clauses /\ v \notin B
<1>1. PICK w \in B : \A v \in B : Depth(w) <= Depth(v)
  BY ClausesAreNested, OfSql!ShallowestExists
<1>2. ASSUME NEW v \in Subclauses(w), v \in B PROVE FALSE
  <2>1. Depth(w) <= Depth(v) /\ Depth(v) < Depth(w) /\ Depth(w) \in Nat /\ Depth(v) \in Nat
    BY <1>1, <1>2, ClausesAreNested
  <2>2. QED
    BY <2>1
<1>3. \A v \in Subclauses(w) : v \in Clauses /\ v \notin B
  BY <1>2, ClausesAreNested
<1>4. QED
  BY <1>3

\* A sequence, of whatever is in it.
IsSeq(s) == s \in Seq(ToSet(s))

\* It is one over every larger set.
LEMMA SeqOver ==
    ASSUME NEW s, IsSeq(s), NEW T, ToSet(s) \subseteq T
    PROVE  s \in Seq(T)
<1>1. PICK S : S = ToSet(s)
  OBVIOUS
<1>2. s \in Seq(S) /\ S \subseteq T
  BY <1>1 DEF IsSeq
<1>3. QED
  BY <1>2

\* A sequence over some set is one over what is in it.
LEMMA OverSeq ==
    ASSUME NEW T, NEW s \in Seq(T)
    PROVE  IsSeq(s) /\ ToSet(s) \subseteq T
BY ToSetOfSeq DEF IsSeq

\* The empty sequence is a sequence, of nothing, and has no arguments.
LEMMA IsSeqEmpty == IsSeq(<< >>) /\ ToSet(<< >>) = {} /\ Args(<< >>) = << >>
<1>1. ToSet(<< >>) = {}
  BY EmptySeq DEF ToSet
<1>2. [i \in DOMAIN << >> |-> << >>[i].args] = << >>
  BY EmptySeq
<1>3. QED
  BY <1>1, <1>2, EmptySeq, FlattenSeqEmpty DEF IsSeq, Args

\* A sequence that has one more element is the one with it appended.
LEMMA AppendIs ==
    ASSUME NEW T, NEW n \in Nat, NEW s \in Seq(T), NEW u \in Seq(T), NEW e \in T,
           Len(s) = n, Len(u) = n + 1, u[n + 1] = e, Same(u, s, n)
    PROVE  u = Append(s, e)
<1>1. PICK v \in Seq(T) : v = Append(s, e)
  BY AppendProperties
<1>2. Len(v) = n + 1 /\ v[n + 1] = e /\ Same(v, s, n)
  BY <1>1, AppendProperties DEF Same
<1>3. \A i \in 1 .. n : u[i] = v[i]
  BY <1>2 DEF Same
<1>4. \A i \in 1 .. n + 1 : i \in 1 .. n \/ i = n + 1
  OBVIOUS
<1>5. \A i \in 1 .. Len(u) : u[i] = v[i]
  BY <1>2, <1>3, <1>4
<1>6. u = v
  BY <1>2, <1>5, SeqEqual
<1>7. QED
  BY <1>1, <1>6

\* One more condition has its arguments at the end.
LEMMA ArgsAppend ==
    ASSUME NEW A, NEW T, \A c \in T : c.args \in Seq(A), NEW s \in Seq(T), NEW e \in T
    PROVE  Args(Append(s, e)) = Args(s) \o e.args
<1>1. PICK n \in Nat : n = Len(s)
  BY LenProperties
<1>2. PICK u \in Seq(T) : u = Append(s, e)
  BY AppendProperties
<1>3. DOMAIN s = 1 .. n /\ DOMAIN u = 1 .. n + 1 /\ u[n + 1] = e /\ Same(u, s, n)
  BY <1>1, <1>2, AppendProperties, LenProperties DEF Same
<1>4. PICK a : a = [i \in 1 .. n |-> s[i].args]
  OBVIOUS
<1>5. PICK b : b = [i \in 1 .. n + 1 |-> u[i].args]
  OBVIOUS
<1>6. a \in Seq(Seq(A))
  <2>1. \A i \in 1 .. n : s[i] \in T
    BY <1>3, ElementOfSeq
  <2>2. \A i \in 1 .. n : s[i].args \in Seq(A)
    BY <2>1
  <2>3. QED
    BY <1>4, <2>2
<1>7. b = Append(a, e.args)
  <2>1. b \in Seq(Seq(A))
    <3>1. \A i \in 1 .. n + 1 : u[i] \in T
      BY <1>3, ElementOfSeq
    <3>2. \A i \in 1 .. n + 1 : u[i].args \in Seq(A)
      BY <3>1
    <3>3. QED
      BY <1>5, <3>2
  <2>2. \A i \in 1 .. n : i \in 1 .. n + 1 /\ b[i] = a[i]
    BY <1>3, <1>4, <1>5 DEF Same
  <2>3. Same(b, a, n) /\ b[n + 1] = e.args /\ Len(a) = n /\ Len(b) = n + 1
    BY <1>3, <1>4, <1>5, <2>2 DEF Same
  <2>4. QED
    BY <1>6, <2>1, <2>3, AppendIs
<1>8. FlattenSeq(b) = FlattenSeq(a) \o e.args
  BY <1>6, <1>7, FlattenSeqAppend
<1>9. Args(s) = FlattenSeq(a) /\ Args(u) = FlattenSeq(b)
  BY <1>3, <1>4, <1>5 DEF Args
<1>10. QED
  BY <1>2, <1>8, <1>9

\* Conditions whose arguments are sequences.
HaveArgs(T, A) == \A c \in T : c.args \in Seq(A)

\* Conditions in a row have arguments in a row.
LEMMA ArgsConcat ==
    ASSUME NEW A, NEW T, HaveArgs(T, A), NEW s \in Seq(T)
    PROVE  /\ Args(s) \in Seq(A)
           /\ \A t \in Seq(T) : Args(s \o t) = Args(s) \o Args(t)
<1>1. ASSUME NEW t \in Seq(T) PROVE Args(t) \in Seq(A)
  <2>1. PICK n \in Nat : n = Len(t) /\ DOMAIN t = 1 .. n
    BY LenProperties
  <2>2. PICK a : a = [i \in 1 .. n |-> t[i].args]
    OBVIOUS
  <2>3. a \in Seq(Seq(A))
    <3>1. \A i \in 1 .. n : t[i] \in T
      BY <2>1, ElementOfSeq
    <3>2. \A i \in 1 .. n : t[i].args \in Seq(A)
      BY <3>1 DEF HaveArgs
    <3>3. QED
      BY <2>2, <3>2
  <2>4. Args(t) = FlattenSeq(a)
    BY <2>1, <2>2 DEF Args
  <2>5. QED
    BY <2>3, <2>4, FlattenSeqType DEF Flat
<1> DEFINE Right(t) == Args(s \o t) = Args(s) \o Args(t)
           B == {t \in Seq(T) : ~Right(t)}
<1>2. Right(<< >>)
  <2>1. s \o << >> = s /\ Args(s) \o << >> = Args(s)
    BY <1>1, ConcatEmptySeq
  <2>2. QED
    BY <2>1, IsSeqEmpty
<1>3. ASSUME NEW t \in Seq(T), NEW e \in T, Right(t) PROVE Right(Append(t, e))
  <2>1. s \o Append(t, e) = Append(s \o t, e)
    OBVIOUS
  <2>2. s \o t \in Seq(T)
    BY ConcatProperties
  <2>3. Args(Append(s \o t, e)) = Args(s \o t) \o e.args
    BY <2>2, ArgsAppend DEF HaveArgs
  <2>4. Args(Append(t, e)) = Args(t) \o e.args
    BY ArgsAppend DEF HaveArgs
  <2>5. (Args(s) \o Args(t)) \o e.args = Args(s) \o (Args(t) \o e.args)
    <3>1. PICK a \in Seq(A), b \in Seq(A), c \in Seq(A) : a = Args(s) /\ b = Args(t) /\ c = e.args
      BY <1>1 DEF HaveArgs
    <3>2. (a \o b) \o c = a \o (b \o c)
      BY ConcatAssociative
    <3>3. QED
      BY <3>1, <3>2, Zenon
  <2>6. Args(s \o Append(t, e)) = Args(s) \o Args(Append(t, e))
    <3>1. PICK a, b, c : a = Args(s) /\ b = Args(t) /\ c = Args(s \o t)
      OBVIOUS
    <3>2. c = a \o b
      BY <1>3, <3>1
    <3>3. QED
      BY <2>1, <2>3, <2>4, <2>5, <3>1, <3>2, Zenon
  <2>7. QED
    BY <2>6
<1> HIDE DEF Right
<1>4. SUFFICES ASSUME B # {} PROVE FALSE
  BY <1>1 DEF Right
<1>5. << >> \in B \/ \E t \in Seq(T) : \E e \in T : t \notin B /\ Append(t, e) \in B
  BY <1>4, ShortestExists
<1>6. QED
  BY <1>2, <1>3, <1>5

\* The arguments of conditions put together are their arguments put together.
LEMMA ArgsFlatten ==
    ASSUME NEW A, NEW T, HaveArgs(T, A), NEW cs \in Seq(Seq(T))
    PROVE  Args(FlattenSeq(cs)) = FlattenSeq([i \in DOMAIN cs |-> Args(cs[i])])
<1> DEFINE Each(x) == [i \in DOMAIN x |-> Args(x[i])]
           Right(x) == Args(FlattenSeq(x)) = FlattenSeq(Each(x))
           B == {x \in Seq(Seq(T)) : ~Right(x)}
<1>1. \A x \in Seq(T) : Args(x) \in Seq(A)
  BY ArgsConcat
<1>2. Right(<< >>)
  <2>1. Each(<< >>) = << >>
    BY EmptySeq
  <2>2. QED
    BY <2>1, FlattenSeqEmpty, IsSeqEmpty
<1>3. ASSUME NEW s \in Seq(Seq(T)), NEW e \in Seq(T), Right(s) PROVE Right(Append(s, e))
  <2>1. PICK n \in Nat : n = Len(s)
    BY LenProperties
  <2>2. PICK u \in Seq(Seq(T)) : u = Append(s, e)
    BY AppendProperties
  <2>3. DOMAIN s = 1 .. n /\ DOMAIN u = 1 .. n + 1 /\ u[n + 1] = e /\ Same(u, s, n)
    BY <2>1, <2>2, AppendProperties, LenProperties DEF Same
  <2>4. PICK a : a = [i \in 1 .. n |-> Args(s[i])]
    OBVIOUS
  <2>5. PICK b : b = [i \in 1 .. n + 1 |-> Args(u[i])]
    OBVIOUS
  <2>6. PICK v : v = Args(e)
    OBVIOUS
  <2>7. v \in Seq(A)
    BY <1>1, <2>6
  <2>8. a \in Seq(Seq(A))
    <3>1. \A i \in 1 .. n : s[i] \in Seq(T)
      BY <2>3, ElementOfSeq
    <3>2. \A i \in 1 .. n : Args(s[i]) \in Seq(A)
      BY <1>1, <3>1
    <3>3. QED
      BY <2>4, <3>2
  <2>9. b \in Seq(Seq(A))
    <3>1. \A i \in 1 .. n + 1 : u[i] \in Seq(T)
      BY <2>3, ElementOfSeq
    <3>2. \A i \in 1 .. n + 1 : Args(u[i]) \in Seq(A)
      BY <1>1, <3>1
    <3>3. QED
      BY <2>5, <3>2
  <2>10. b = Append(a, v)
    <3>1. \A i \in 1 .. n : i \in 1 .. n + 1 /\ b[i] = a[i]
      BY <2>3, <2>4, <2>5 DEF Same
    <3>2. Same(b, a, n) /\ b[n + 1] = v /\ Len(a) = n /\ Len(b) = n + 1
      BY <2>3, <2>4, <2>5, <2>6, <3>1 DEF Same
    <3>3. QED
      BY <2>7, <2>8, <2>9, <3>2, AppendIs
  <2>11. FlattenSeq(b) = FlattenSeq(a) \o v
    BY <2>7, <2>8, <2>10, FlattenSeqAppend
  <2>12. Each(s) = a /\ Each(u) = b
    BY <2>3, <2>4, <2>5
  <2>13. FlattenSeq(u) = FlattenSeq(s) \o e
    BY <2>2, FlattenSeqAppend
  <2>14. Args(FlattenSeq(s) \o e) = Args(FlattenSeq(s)) \o v
    <3>1. PICK x \in Seq(T) : x = FlattenSeq(s)
      BY FlattenSeqType DEF Flat
    <3>2. Args(x \o e) = Args(x) \o Args(e)
      BY ArgsConcat
    <3>3. QED
      BY <2>6, <3>1, <3>2, Zenon
  <2>15. Args(FlattenSeq(u)) = FlattenSeq(Each(u))
    <3>1. Args(FlattenSeq(s)) = FlattenSeq(a)
      BY <1>3, <2>12
    <3> HIDE DEF Each
    <3>2. QED
      BY <2>11, <2>12, <2>13, <2>14, <3>1, Zenon
  <2>16. QED
    BY <2>2, <2>15
<1> HIDE DEF Right
<1>4. SUFFICES ASSUME B # {} PROVE FALSE
  BY DEF Right
<1>5. << >> \in B \/ \E s \in Seq(Seq(T)) : \E e \in Seq(T) : s \notin B /\ Append(s, e) \in B
  BY <1>4, ShortestExists
<1>6. QED
  BY <1>2, <1>3, <1>5

\* A sequence of conditions, and a result whose arguments follow the placeholders of
\* its conditions.
CondSeq(s) == IsSeq(s) /\ \A c \in ToSet(s) : IsSeq(c.args)
Fits(r) == CondSeq(r.conds) /\ r.args = Args(r.conds)

\* What the concatenation of conditions is.
LEMMA FlattenConditions ==
    ASSUME NEW n \in Nat, NEW cs, cs = [i \in 1 .. n |-> cs[i]],
           \A i \in 1 .. n : CondSeq(cs[i])
    PROVE  /\ CondSeq(FlattenSeq(cs))
           /\ ToSet(FlattenSeq(cs)) = UNION {ToSet(cs[i]) : i \in 1 .. n}
           /\ Args(FlattenSeq(cs)) = FlattenSeq([i \in 1 .. n |-> Args(cs[i])])
<1>1. PICK T : T = UNION {ToSet(cs[i]) : i \in 1 .. n}
  OBVIOUS
<1>2. PICK A : A = UNION {ToSet(c.args) : c \in T}
  OBVIOUS
<1>3. \A c \in T : IsSeq(c.args)
  BY <1>1 DEF CondSeq
<1>4. HaveArgs(T, A)
  <2>1. SUFFICES ASSUME NEW c \in T PROVE c.args \in Seq(A)
    BY DEF HaveArgs
  <2>2. IsSeq(c.args) /\ ToSet(c.args) \subseteq A
    BY <1>2, <1>3
  <2>3. QED
    BY <2>2, SeqOver
<1>5. cs \in Seq(Seq(T))
  <2>1. ASSUME NEW i \in 1 .. n PROVE cs[i] \in Seq(T)
    <3>1. IsSeq(cs[i]) /\ ToSet(cs[i]) \subseteq T
      BY <1>1 DEF CondSeq
    <3>2. QED
      BY <3>1, SeqOver
  <2>2. cs \in [1 .. n -> Seq(T)]
    BY <2>1
  <2>3. QED
    BY <2>2
<1>6. Len(cs) = n /\ DOMAIN cs = 1 .. n
  BY <1>5, LenProperties
<1>7. PICK s \in Seq(T) : s = FlattenSeq(cs) /\ ToSet(s) = Elements(cs)
  BY <1>5, FlattenSeqType DEF Flat
<1>8. ToSet(s) = UNION {ToSet(cs[i]) : i \in 1 .. n}
  BY <1>6, <1>7 DEF Elements
<1>9. Args(s) = FlattenSeq([i \in 1 .. n |-> Args(cs[i])])
  BY <1>4, <1>5, <1>6, <1>7, ArgsFlatten
<1>10. CondSeq(s)
  <2>1. IsSeq(s) /\ ToSet(s) \subseteq T
    BY OverSeq
  <2>2. QED
    BY <1>3, <2>1 DEF CondSeq
<1>11. QED
  BY <1>7, <1>8, <1>9, <1>10

\* No conditions fit no arguments.
LEMMA FitsNothing == Fits(Nothing) /\ Fits(Refusal) /\ Nothing.conds = << >> /\ Refusal.conds = << >>
<1>1. Nothing.conds = << >> /\ Nothing.args = << >> /\ Refusal.conds = << >> /\ Refusal.args = << >>
  BY DEF Nothing, Refusal, Result
<1>2. CondSeq(<< >>)
  BY IsSeqEmpty DEF CondSeq
<1>3. QED
  BY <1>1, <1>2, IsSeqEmpty DEF Fits

\* Results one after the other.
LEMMA JoinedIs ==
    ASSUME NEW n \in Nat, NEW rs, DOMAIN rs = 1 .. n, \A i \in 1 .. n : Fits(rs[i])
    PROVE  /\ Fits(Joined(rs))
           /\ Joined(rs).error <=> \E i \in 1 .. n : rs[i].error
           /\ ~Joined(rs).error =>
                 ToSet(Joined(rs).conds) = UNION {ToSet(rs[i].conds) : i \in 1 .. n}
<1>1. CASE \E i \in 1 .. n : rs[i].error
  <2>1. Joined(rs) = Refusal
    BY <1>1 DEF Joined
  <2>2. Refusal.error
    BY DEF Refusal, Nothing, Result
  <2>3. QED
    BY <1>1, <2>1, <2>2, FitsNothing
<1>2. CASE ~ \E i \in 1 .. n : rs[i].error
  <2>1. PICK cs : cs = [i \in 1 .. n |-> rs[i].conds]
    OBVIOUS
  <2>2. PICK as : as = [i \in 1 .. n |-> rs[i].args]
    OBVIOUS
  <2>3. Joined(rs) = Result(FlattenSeq(cs), FlattenSeq(as))
    BY <1>2, <2>1, <2>2 DEF Joined
  <2>4. \A i \in 1 .. n : CondSeq(cs[i]) /\ as[i] = Args(cs[i])
    BY <2>1, <2>2 DEF Fits
  <2>5. /\ CondSeq(FlattenSeq(cs))
        /\ ToSet(FlattenSeq(cs)) = UNION {ToSet(cs[i]) : i \in 1 .. n}
        /\ Args(FlattenSeq(cs)) = FlattenSeq([i \in 1 .. n |-> Args(cs[i])])
    <3>1. cs = [i \in 1 .. n |-> cs[i]]
      BY <2>1
    <3>2. \A i \in 1 .. n : CondSeq(cs[i])
      BY <2>4
    <3>3. QED
      BY <3>1, <3>2, FlattenConditions
  <2>6. as = [i \in 1 .. n |-> Args(cs[i])]
    BY <2>2, <2>4
  <2>7. {ToSet(cs[i]) : i \in 1 .. n} = {ToSet(rs[i].conds) : i \in 1 .. n}
    BY <2>1
  <2>8. /\ Joined(rs).conds = FlattenSeq(cs) /\ Joined(rs).args = FlattenSeq(as)
        /\ Joined(rs).error = FALSE
    BY <2>3 DEF Result
  <2>9. Fits(Joined(rs))
    <3>1. PICK r : r = Joined(rs)
      OBVIOUS
    <3>2. r.conds = FlattenSeq(cs) /\ r.args = FlattenSeq(as)
      BY <2>8, <3>1
    <3>3. r.args = Args(r.conds)
      BY <2>5, <2>6, <3>2, Zenon
    <3>4. CondSeq(r.conds)
      BY <2>5, <3>2, Zenon
    <3>5. QED
      BY <3>1, <3>3, <3>4 DEF Fits
  <2>10. ToSet(Joined(rs).conds) = UNION {ToSet(rs[i].conds) : i \in 1 .. n}
    BY <2>5, <2>7, <2>8
  <2>11. QED
    BY <1>2, <2>8, <2>9, <2>10
<1>3. QED
  BY <1>1, <1>2

\* One condition.
LEMMA OneIs ==
    ASSUME NEW c, IsSeq(c.args)
    PROVE  /\ Fits(One(c)) /\ ~One(c).error
           /\ One(c).conds = << c >> /\ ToSet(One(c).conds) = {c}
<1>1. PICK T : T = {c}
  OBVIOUS
<1>2. PICK A : A = ToSet(c.args)
  OBVIOUS
<1>3. c \in T /\ c.args \in Seq(A) /\ HaveArgs(T, A)
  BY <1>1, <1>2 DEF HaveArgs, IsSeq
<1>4. Args(Append(<< >>, c)) = Args(<< >>) \o c.args
  BY <1>3, EmptySeq, ArgsAppend DEF HaveArgs
<1>5. Args(<< c >>) = c.args
  <2>1. Append(<< >>, c) = << c >>
    OBVIOUS
  <2>2. << >> \o c.args = c.args
    BY <1>3, ConcatEmptySeq
  <2>3. QED
    BY <1>4, <2>1, <2>2, IsSeqEmpty
<1>6. ToSet(<< c >>) = {c}
  BY DEF ToSet
<1>7. << c >> \in Seq({c})
  OBVIOUS
<1>8. CondSeq(<< c >>)
  BY <1>6, <1>7 DEF CondSeq, IsSeq
<1>9. One(c).conds = << c >> /\ One(c).args = c.args /\ One(c).error = FALSE
  BY DEF One, Result
<1>10. QED
  BY <1>5, <1>6, <1>8, <1>9 DEF Fits

\* An argument with what belongs to it.
WellArg(arg) ==
    /\ arg.is \in {"value", "list"} => arg.of \in Seq(Int \cup {Null})
    /\ arg.is = "text" => TextMeans(arg.of)

\* The fields of a condition on a field.
LEMMA OnFieldIs ==
    ASSUME NEW op, NEW f, NEW args
    PROVE  /\ OnField(op, f, args).args = args /\ OnField(op, f, args).op = op
           /\ OnField(op, f, args).field = f /\ OnField(op, f, args).ref = Null
           /\ OnField(op, f, args).subs = << >>
           /\ \A r : /\ [OnField(op, f, args) EXCEPT !.ref = r].args = args
                     /\ [OnField(op, f, args) EXCEPT !.ref = r].op = op
                     /\ [OnField(op, f, args) EXCEPT !.ref = r].field = f
                     /\ [OnField(op, f, args) EXCEPT !.ref = r].ref = r
BY DEF OnField, Condition

\* The condition of one operator: it has the operator's argument, in a placeholder or
\* in its text.
LEMMA ComparisonFits ==
    ASSUME NEW f, NEW op, NEW arg
    PROVE  /\ Fits(Comparison(f, op, arg))
           /\ Comparison(f, op, arg).error => arg.is = "badref"
<1>1. IsSeq(<< arg >>)
  <2>1. << arg >> \in Seq({arg})
    OBVIOUS
  <2>2. QED
    BY <2>1, OverSeq
<1>2. CASE arg.is = "ref" \/ arg.is = "dotted"
  <2>1. PICK r : Comparison(f, op, arg) = One([OnField(op, f, << >>) EXCEPT !.ref = r])
    BY <1>2 DEF Comparison
  <2>2. PICK c : c = [OnField(op, f, << >>) EXCEPT !.ref = r]
    OBVIOUS
  <2>3. IsSeq(c.args)
    BY <2>2, OnFieldIs, IsSeqEmpty
  <2>4. QED
    BY <2>1, <2>2, <2>3, OneIs
<1>3. CASE arg.is = "badref"
  BY <1>3, FitsNothing DEF Comparison
<1>4. CASE arg.is \notin {"ref", "dotted", "badref"}
  <2>1. Comparison(f, op, arg) = One(OnField(op, f, << arg >>))
    BY <1>4 DEF Comparison
  <2>2. PICK c : c = OnField(op, f, << arg >>)
    OBVIOUS
  <2>3. IsSeq(c.args)
    BY <1>1, <2>2, OnFieldIs
  <2>4. QED
    BY <2>1, <2>2, <2>3, OneIs
<1>5. QED
  BY <1>2, <1>3, <1>4

\* What eq and neq make of an argument fits.
LEMMA EqualityFits ==
    ASSUME NEW f, NEW op, NEW nullOp, NEW arg
    PROVE  /\ Fits(Equality(f, op, nullOp, arg))
           /\ Equality(f, op, nullOp, arg).error => arg.is = "badref"
<1>1. CASE arg = Value(Null)
  <2>1. PICK c : c = OnField(nullOp, f, << >>)
    OBVIOUS
  <2>2. IsSeq(c.args)
    BY <2>1, OnFieldIs, IsSeqEmpty
  <2>3. Equality(f, op, nullOp, arg) = One(c)
    BY <1>1, <2>1 DEF Equality
  <2>4. QED
    BY <2>2, <2>3, OneIs
<1>2. CASE arg # Value(Null)
  BY <1>2, ComparisonFits DEF Equality
<1>3. QED
  BY <1>1, <1>2

\* What in and nin make of an argument fits.
LEMMA MembershipFits ==
    ASSUME NEW f, NEW op, NEW arg, WellArg(arg)
    PROVE  Fits(Membership(f, op, arg)) /\ ~Membership(f, op, arg).error
<1>1. CASE arg.is = "list" /\ arg.of # << >>
  <2>1. PICK vs \in Seq(Int \cup {Null}) : vs = arg.of
    BY <1>1 DEF WellArg
  <2>2. PICK as : as = [i \in DOMAIN vs |-> Value(vs[i])]
    OBVIOUS
  <2>3. PICK n \in Nat : DOMAIN vs = 1 .. n
    BY LenProperties
  <2>4. IsSeq(as)
    <3>1. as \in Seq({Value(vs[i]) : i \in DOMAIN vs})
      BY <2>2, <2>3
    <3>2. QED
      BY <3>1, OverSeq
  <2>5. PICK c : c = OnField(op, f, as)
    OBVIOUS
  <2>6. IsSeq(c.args)
    <3>1. c.args = as
      BY <2>5 DEF OnField, Condition
    <3>2. QED
      BY <2>4, <3>1
  <2>7. Membership(f, op, arg) = One(c)
    BY <1>1, <2>1, <2>2, <2>5 DEF Membership
  <2>8. QED
    BY <2>6, <2>7, OneIs
<1>2. CASE ~(arg.is = "list" /\ arg.of # << >>)
  <2>1. Membership(f, op, arg) = Nothing
    BY <1>2 DEF Membership
  <2>2. Nothing.error = FALSE
    BY DEF Nothing, Result
  <2>3. QED
    BY <2>1, <2>2, FitsNothing
<1>3. QED
  BY <1>1, <1>2

\* What any operator makes of its argument fits.
LEMMA SqlOperatorFits ==
    ASSUME NEW f, NEW op \in Known, NEW arg, WellArg(arg)
    PROVE  /\ Fits(SqlOperator(f, op, arg))
           /\ SqlOperator(f, op, arg).error => arg.is = "badref"
<1>1. CASE op \in {"bare", "eq"}
  <2>1. SqlOperator(f, op, arg) = Equality(f, "=", "IS NULL", arg)
    BY <1>1 DEF SqlOperator, Patterns
  <2>2. QED
    BY <2>1, EqualityFits
<1>2. CASE op \in {"neq", "ne"}
  <2>1. SqlOperator(f, op, arg) = Equality(f, "!=", "IS NOT NULL", arg)
    BY <1>2 DEF SqlOperator, Patterns
  <2>2. QED
    BY <2>1, EqualityFits
<1>3. CASE op \in Scalar
  <2>1. \/ SqlOperator(f, op, arg) = Comparison(f, ">", arg)
        \/ SqlOperator(f, op, arg) = Comparison(f, ">=", arg)
        \/ SqlOperator(f, op, arg) = Comparison(f, "<", arg)
        \/ SqlOperator(f, op, arg) = Comparison(f, "<=", arg)
    BY <1>3 DEF SqlOperator, Scalar, Patterns
  <2>2. QED
    BY <2>1, ComparisonFits
<1>4. CASE op \in {"in", "nin"}
  <2>1. \/ SqlOperator(f, op, arg) = Membership(f, "IN", arg)
        \/ SqlOperator(f, op, arg) = Membership(f, "NOT IN", arg)
    BY <1>4 DEF SqlOperator, Patterns
  <2>2. QED
    BY <2>1, MembershipFits
<1>5. CASE op \in {"like"} \cup Patterns
  <2> DEFINE like == Like(op, arg)
  <2>1. SqlOperator(f, op, arg) = One(OnField("LIKE", f, << like >>))
    BY <1>5 DEF SqlOperator, Patterns
  <2> HIDE DEF like
  <2>2. PICK c : c = OnField("LIKE", f, << like >>)
    OBVIOUS
  <2>3. IsSeq(<< like >>)
    <3>1. << like >> \in Seq({like})
      OBVIOUS
    <3>2. QED
      BY <3>1, OverSeq
  <2>4. IsSeq(c.args)
    BY <2>2, <2>3, OnFieldIs
  <2>5. QED
    BY <2>1, <2>2, <2>4, OneIs
<1>6. QED
  BY <1>1, <1>2, <1>3, <1>4, <1>5 DEF Known

\* The operators that the code asks a field's object for, and finds.
AskedOps(ops) == {op \in DOMAIN ops \cap Known : op = "ne" => "neq" \notin DOMAIN ops}

\* The code asks for the known operators, one by one.
LEMMA SqlOrderIs ==
    /\ DOMAIN SqlOrder = 1 .. 14
    /\ \A i \in 1 .. 14 : SqlOrder[i] \in Known
    /\ \A op \in Known : \E i \in 1 .. 14 : SqlOrder[i] = op
<1>1. DOMAIN SqlOrder = 1 .. 14
  BY DEF SqlOrder
<1>2. /\ SqlOrder[1] = "bare" /\ SqlOrder[2] = "eq" /\ SqlOrder[3] = "neq" /\ SqlOrder[4] = "ne"
      /\ SqlOrder[5] = "gt" /\ SqlOrder[6] = "gte" /\ SqlOrder[7] = "lt" /\ SqlOrder[8] = "lte"
      /\ SqlOrder[9] = "like" /\ SqlOrder[10] = "in" /\ SqlOrder[11] = "nin"
      /\ SqlOrder[12] = "contains" /\ SqlOrder[13] = "starts" /\ SqlOrder[14] = "ends"
  BY DEF SqlOrder
<1>3. \A i \in 1 .. 14 : SqlOrder[i] \in Known
  <2>1. \A i \in 1 .. 14 : \/ i = 1 \/ i = 2 \/ i = 3 \/ i = 4 \/ i = 5 \/ i = 6 \/ i = 7
                           \/ i = 8 \/ i = 9 \/ i = 10 \/ i = 11 \/ i = 12 \/ i = 13 \/ i = 14
    OBVIOUS
  <2>2. QED
    BY <1>2, <2>1 DEF Known, Scalar, Patterns
<1>4. \A op \in Known : \E i \in 1 .. 14 : SqlOrder[i] = op
  <2>1. \A op \in Known : \/ op = "bare" \/ op = "eq" \/ op = "neq" \/ op = "ne" \/ op = "gt"
                          \/ op = "gte" \/ op = "lt" \/ op = "lte" \/ op = "like" \/ op = "in"
                          \/ op = "nin" \/ op = "contains" \/ op = "starts" \/ op = "ends"
    BY DEF Known, Scalar, Patterns
  <2>2. 1 \in 1 .. 14 /\ 2 \in 1 .. 14 /\ 3 \in 1 .. 14 /\ 4 \in 1 .. 14 /\ 5 \in 1 .. 14
        /\ 6 \in 1 .. 14 /\ 7 \in 1 .. 14 /\ 8 \in 1 .. 14 /\ 9 \in 1 .. 14 /\ 10 \in 1 .. 14
        /\ 11 \in 1 .. 14 /\ 12 \in 1 .. 14 /\ 13 \in 1 .. 14 /\ 14 \in 1 .. 14
    OBVIOUS
  <2>3. QED
    BY <1>2, <2>1, <2>2, Zenon
<1>5. QED
  BY <1>1, <1>3, <1>4

\* The conditions of a field are those of its operators.
LEMMA SqlFieldIs ==
    ASSUME NEW f, NEW ops, \A op \in DOMAIN ops : WellArg(ops[op])
    PROVE  /\ Fits(SqlField(f, ops))
           /\ SqlField(f, ops).error => \E op \in DOMAIN ops : ops[op].is = "badref"
           /\ ~SqlField(f, ops).error =>
                 ToSet(SqlField(f, ops).conds) =
                     UNION {ToSet(SqlOperator(f, op, ops[op]).conds) : op \in AskedOps(ops)}
<1> DEFINE Asked(op) == op \in DOMAIN ops /\ (op = "ne" => "neq" \notin DOMAIN ops)
           Of(op) == IF Asked(op) THEN SqlOperator(f, op, ops[op]) ELSE Nothing
<1>1. PICK p : p = [i \in 1 .. 14 |-> Of(SqlOrder[i])]
  OBVIOUS
<1>2. SqlField(f, ops) = Joined(p)
  BY <1>1, SqlOrderIs DEF SqlField
<1>3. \A op \in Known : Asked(op) <=> op \in AskedOps(ops)
  BY DEF AskedOps
<1>4. \A op \in Known : Asked(op) => Of(op) = SqlOperator(f, op, ops[op]) /\ op \in DOMAIN ops /\ WellArg(ops[op])
  OBVIOUS
<1>5. \A op \in Known : ~Asked(op) => Of(op) = Nothing
  OBVIOUS
<1> HIDE DEF Asked, Of
<1>6. \A op \in Known :
        /\ Fits(Of(op))
        /\ Of(op).error => Asked(op) /\ ops[op].is = "badref"
  <2>1. ASSUME NEW op \in Known, Asked(op)
        PROVE  Fits(Of(op)) /\ (Of(op).error => ops[op].is = "badref")
    BY <1>4, <2>1, SqlOperatorFits
  <2>2. ASSUME NEW op \in Known, ~Asked(op) PROVE Fits(Of(op)) /\ ~Of(op).error
    <3>1. Nothing.error = FALSE
      BY DEF Nothing, Result
    <3>2. QED
      BY <1>5, <2>2, <3>1, FitsNothing
  <2>3. QED
    BY <2>1, <2>2
<1>7. \A i \in 1 .. 14 : p[i] = Of(SqlOrder[i]) /\ SqlOrder[i] \in Known
  BY <1>1, SqlOrderIs
<1>8. /\ Fits(Joined(p))
      /\ Joined(p).error <=> \E i \in 1 .. 14 : p[i].error
      /\ ~Joined(p).error => ToSet(Joined(p).conds) = UNION {ToSet(p[i].conds) : i \in 1 .. 14}
  <2>1. DOMAIN p = 1 .. 14
    BY <1>1
  <2>2. \A i \in 1 .. 14 : Fits(p[i])
    BY <1>6, <1>7
  <2>3. QED
    BY <2>1, <2>2, JoinedIs
<1>9. UNION {ToSet(p[i].conds) : i \in 1 .. 14}
        = UNION {ToSet(SqlOperator(f, op, ops[op]).conds) : op \in AskedOps(ops)}
  <2>1. ASSUME NEW i \in 1 .. 14, NEW c \in ToSet(p[i].conds)
        PROVE  \E op \in AskedOps(ops) : c \in ToSet(SqlOperator(f, op, ops[op]).conds)
    <3>1. PICK op \in Known : p[i] = Of(op)
      BY <1>7
    <3>2. Asked(op)
      BY <1>5, <3>1, FitsNothing, IsSeqEmpty
    <3>3. QED
      BY <1>3, <1>4, <3>1, <3>2
  <2>2. ASSUME NEW op \in AskedOps(ops), NEW c \in ToSet(SqlOperator(f, op, ops[op]).conds)
        PROVE  \E i \in 1 .. 14 : c \in ToSet(p[i].conds)
    <3>1. op \in Known
      BY DEF AskedOps
    <3>2. PICK i \in 1 .. 14 : SqlOrder[i] = op
      BY <3>1, SqlOrderIs
    <3>3. p[i] = SqlOperator(f, op, ops[op])
      BY <1>3, <1>4, <1>7, <3>1, <3>2
    <3>4. QED
      BY <3>3
  <2>3. QED
    BY <2>1, <2>2
<1>10. SqlField(f, ops).error => \E op \in DOMAIN ops : ops[op].is = "badref"
  <2>1. ASSUME SqlField(f, ops).error PROVE \E op \in DOMAIN ops : ops[op].is = "badref"
    <3>1. PICK i \in 1 .. 14 : p[i].error
      BY <1>2, <1>8, <2>1
    <3>2. PICK op \in Known : p[i] = Of(op)
      BY <1>7
    <3>3. QED
      BY <1>4, <1>6, <3>1, <3>2
  <2>2. QED
    BY <2>1
<1>11. QED
  BY <1>2, <1>8, <1>9, <1>10

\* The arguments of conditions that have sequences of them are a sequence.
LEMMA ArgsIsSeq ==
    ASSUME NEW s, CondSeq(s)
    PROVE  IsSeq(Args(s))
<1>1. PICK T : T = ToSet(s)
  OBVIOUS
<1>2. PICK A : A = UNION {ToSet(c.args) : c \in T}
  OBVIOUS
<1>3. HaveArgs(T, A)
  <2>1. SUFFICES ASSUME NEW c \in T PROVE c.args \in Seq(A)
    BY DEF HaveArgs
  <2>2. IsSeq(c.args) /\ ToSet(c.args) \subseteq A
    BY <1>1, <1>2 DEF CondSeq
  <2>3. QED
    BY <2>2, SeqOver
<1>4. s \in Seq(T)
  BY <1>1 DEF CondSeq, IsSeq
<1>5. Args(s) \in Seq(A)
  BY <1>3, <1>4, ArgsConcat
<1>6. QED
  BY <1>5, OverSeq

\* A sequence is empty when nothing is in it.
LEMMA EmptyIs ==
    ASSUME NEW s, IsSeq(s)
    PROVE  s = << >> <=> ToSet(s) = {}
<1>1. PICK S : s \in Seq(S) /\ ToSet(s) = S
  BY DEF IsSeq
<1>2. CASE S = {}
  <2>1. Len(s) = 0
    <3>1. Len(s) \in Nat /\ \A i \in 1 .. Len(s) : s[i] \in S
      BY <1>1, LenProperties, ElementOfSeq
    <3>2. QED
      BY <1>2, <3>1
  <2>2. s = << >>
    BY <1>1, <2>1, EmptySeq
  <2>3. QED
    BY <1>1, <1>2, <2>2
<1>3. CASE S # {}
  <2>1. s # << >>
    BY <1>1, <1>3, IsSeqEmpty
  <2>2. QED
    BY <1>1, <1>3, <2>1
<1>4. QED
  BY <1>2, <1>3

\* The subclauses in brackets: the arguments beside them are theirs.
LEMMA BracketedIs ==
    ASSUME NEW n \in Nat, NEW subs, DOMAIN subs = 1 .. n, \A i \in 1 .. n : Fits(subs[i])
    PROVE  /\ CondSeq(Bracketed(subs))
           /\ Args(Bracketed(subs)) = SubArgs(subs)
           /\ ToSet(Bracketed(subs)) =
                 {AllOf(subs[i].conds) : i \in {i \in 1 .. n : subs[i].conds # << >>}}
<1> DEFINE Bracket(i) == IF subs[i].conds = << >> THEN << >> ELSE << AllOf(subs[i].conds) >>
<1>1. PICK cs : cs = [i \in 1 .. n |-> Bracket(i)]
  OBVIOUS
<1>2. PICK as : as = [i \in 1 .. n |-> IF subs[i].conds = << >> THEN << >> ELSE subs[i].args]
  OBVIOUS
<1>3. Bracketed(subs) = FlattenSeq(cs) /\ SubArgs(subs) = FlattenSeq(as)
  BY <1>1, <1>2 DEF Bracketed, SubArgs
<1>4. ASSUME NEW i \in 1 .. n
      PROVE  /\ CondSeq(cs[i]) /\ Args(cs[i]) = as[i]
             /\ ToSet(cs[i]) = IF subs[i].conds = << >> THEN {} ELSE {AllOf(subs[i].conds)}
  <2>1. CASE subs[i].conds = << >>
    <3>1. cs[i] = << >> /\ as[i] = << >>
      BY <1>1, <1>2, <2>1
    <3>2. QED
      BY <2>1, <3>1, IsSeqEmpty DEF CondSeq
  <2>2. CASE subs[i].conds # << >>
    <3>1. PICK c : c = AllOf(subs[i].conds)
      OBVIOUS
    <3>2. c.args = Args(subs[i].conds)
      BY <3>1 DEF AllOf, Condition, Args
    <3>3. c.args = subs[i].args /\ IsSeq(c.args)
      BY <3>2, ArgsIsSeq DEF Fits
    <3>4. Fits(One(c)) /\ One(c).conds = << c >> /\ ToSet(One(c).conds) = {c}
      BY <3>3, OneIs
    <3>5. One(c).args = c.args
      BY DEF One, Result
    <3>6. CondSeq(<< c >>) /\ Args(<< c >>) = c.args /\ ToSet(<< c >>) = {c}
      BY <3>4, <3>5 DEF Fits
    <3>7. cs[i] = << c >> /\ as[i] = subs[i].args
      BY <1>1, <1>2, <2>2, <3>1
    <3>8. QED
      BY <2>2, <3>1, <3>3, <3>6, <3>7
  <2>3. QED
    BY <2>1, <2>2
<1> HIDE DEF Bracket
<1>5. /\ CondSeq(FlattenSeq(cs))
      /\ ToSet(FlattenSeq(cs)) = UNION {ToSet(cs[i]) : i \in 1 .. n}
      /\ Args(FlattenSeq(cs)) = FlattenSeq([i \in 1 .. n |-> Args(cs[i])])
  <2>1. cs = [i \in 1 .. n |-> cs[i]]
    BY <1>1
  <2>2. \A i \in 1 .. n : CondSeq(cs[i])
    BY <1>4
  <2>3. QED
    BY <2>1, <2>2, FlattenConditions
<1>6. as = [i \in 1 .. n |-> Args(cs[i])]
  <2>1. as = [i \in 1 .. n |-> as[i]]
    BY <1>2
  <2>2. QED
    BY <1>4, <2>1
<1>7. UNION {ToSet(cs[i]) : i \in 1 .. n} = {AllOf(subs[i].conds) : i \in {i \in 1 .. n : subs[i].conds # << >>}}
  <2>1. \A i \in 1 .. n : \A x : x \in ToSet(cs[i]) <=> subs[i].conds # << >> /\ x = AllOf(subs[i].conds)
    BY <1>4
  <2>2. QED
    BY <2>1
<1>8. QED
  BY <1>3, <1>5, <1>6, <1>7

\* What ClausesTyped says of an entry.
WellEntry(e) ==
    /\ IsSeq(e.items)
    /\ e.key \notin LogicKeys => e.items = << >>
    /\ e.key \in NotKeys => Len(e.items) <= 1
    /\ \A op \in DOMAIN e.ops : WellArg(e.ops[op])

\* What is assumed of clauses, entry by entry.
LEMMA ClausesAreTyped ==
    ASSUME NEW w \in Clauses
    PROVE  /\ IsSeq(w)
           /\ \E n \in Nat : DOMAIN w = 1 .. n
           /\ \A i \in DOMAIN w : WellEntry(w[i]) /\ \E m \in Nat : DOMAIN w[i].items = 1 .. m
           /\ \A i, j \in DOMAIN w : w[i].key = w[j].key => i = j
<1>1. IsSeq(w)
  BY ClausesTyped DEF IsSeq
<1>2. \A s : IsSeq(s) => \E n \in Nat : DOMAIN s = 1 .. n
  <2>1. SUFFICES ASSUME NEW s, IsSeq(s) PROVE \E n \in Nat : DOMAIN s = 1 .. n
    OBVIOUS
  <2>2. PICK S : s \in Seq(S)
    BY <2>1 DEF IsSeq
  <2>3. QED
    BY <2>2, LenProperties
<1>3. ASSUME NEW i \in DOMAIN w PROVE WellEntry(w[i])
  <2>1. w[i].items \in Seq(ToSet(w[i].items))
    BY ClausesTyped
  <2>2. w[i].key \notin LogicKeys => w[i].items = << >>
    BY ClausesTyped
  <2>3. w[i].key \in NotKeys => Len(w[i].items) <= 1
    BY ClausesTyped
  <2>4. \A op \in DOMAIN w[i].ops :
            /\ w[i].ops[op].is \in {"value", "list"} => w[i].ops[op].of \in Seq(Int \cup {Null})
            /\ w[i].ops[op].is = "text" => TextMeans(w[i].ops[op].of)
    BY ClausesTyped
  <2>5. QED
    BY <2>1, <2>2, <2>3, <2>4 DEF WellEntry, WellArg, IsSeq
<1>4. \A i, j \in DOMAIN w : w[i].key = w[j].key => i = j
  BY ClausesTyped
<1>5. \A i \in DOMAIN w : \E m \in Nat : DOMAIN w[i].items = 1 .. m
  BY <1>2, <1>3 DEF WellEntry
<1>6. QED
  BY <1>1, <1>2, <1>3, <1>4, <1>5

\* The keys are of three kinds of logic, or fields, or neither.
LEMMA KeysDiffer ==
    /\ OrKeys \cap AndKeys = {} /\ OrKeys \cap NotKeys = {} /\ AndKeys \cap NotKeys = {}
    /\ LogicKeys = OrKeys \cup AndKeys \cup NotKeys
    /\ Fields \cap LogicKeys = {}
    /\ "$or" \notin Fields /\ "$and" \notin Fields /\ "$nor" \notin Fields
<1>1. Fields \cap (LogicKeys \cup {"$or", "$and", "$nor"}) = {}
  BY FieldsTyped
<1>2. QED
  BY <1>1 DEF OrKeys, AndKeys, NotKeys, LogicKeys

\* An entry's result, kind by kind.
LEMMA SqlEntryIs ==
    ASSUME NEW n \in Nat, NEW subs, DOMAIN subs = 1 .. n, \A i \in 1 .. n : Fits(subs[i]),
           NEW e, WellEntry(e)
    PROVE  Fits(SqlEntry(e, subs))
<1> DEFINE brackets == Bracketed(subs)
           failed == \E i \in DOMAIN subs : subs[i].error
           Nest(op) == Result(<< Condition(op, brackets, Args(brackets)) >>, SubArgs(subs))
<1>1. CondSeq(brackets) /\ Args(brackets) = SubArgs(subs)
  BY BracketedIs
<1>2. ASSUME NEW op PROVE Fits(Nest(op))
  <2>1. PICK c : c = Condition(op, brackets, Args(brackets))
    OBVIOUS
  <2>2. c.args = Args(brackets)
    BY <2>1 DEF Condition
  <2>3. IsSeq(c.args)
    BY <1>1, <2>2, ArgsIsSeq
  <2>4. One(c) = Result(<< c >>, c.args)
    BY DEF One
  <2>5. Nest(op) = One(c)
    BY <1>1, <2>1, <2>2, <2>4
  <2>6. QED
    BY <2>3, <2>5, OneIs
<1>3. Fits(Result(brackets, SubArgs(subs)))
  BY <1>1 DEF Fits, Result
<1>4. Fits(SqlField(e.key, e.ops))
  BY SqlFieldIs DEF WellEntry
<1>5. \/ SqlEntry(e, subs) = Refusal
      \/ SqlEntry(e, subs) = Nothing
      \/ SqlEntry(e, subs) = Nest("OR") \/ SqlEntry(e, subs) = Nest("NOT")
      \/ SqlEntry(e, subs) = Result(brackets, SubArgs(subs))
      \/ SqlEntry(e, subs) = SqlField(e.key, e.ops)
  BY DEF SqlEntry
<1> HIDE DEF Nest, brackets
<1>6. QED
  BY <1>2, <1>3, <1>4, <1>5, FitsNothing

\* The arguments of a whole clause follow its placeholders, whatever the depth.
LEMMA SqlWhereFits ==
    ASSUME NEW w \in Clauses
    PROVE  Fits(SqlWhere[w])
<1> DEFINE B == {v \in Clauses : ~Fits(SqlWhere[v])}
<1>1. SUFFICES ASSUME B # {} PROVE FALSE
  OBVIOUS
<1>2. PICK u \in B : \A v \in Subclauses(u) : v \in Clauses /\ v \notin B
  BY <1>1, ShallowestClause
<1>3. u \in Clauses
  OBVIOUS
<1>4. PICK rs : rs = [i \in DOMAIN u |->
                SqlEntry(u[i], [j \in DOMAIN u[i].items |-> SqlWhere[u[i].items[j]]])]
  OBVIOUS
<1>5. SqlWhere[u] = Joined(rs)
  BY <1>3, <1>4, SqlWhereIs
<1>6. ASSUME NEW i \in DOMAIN u PROVE Fits(rs[i])
  <2>1. PICK subs : subs = [j \in DOMAIN u[i].items |-> SqlWhere[u[i].items[j]]]
    OBVIOUS
  <2>2. PICK m \in Nat : DOMAIN u[i].items = 1 .. m
    BY <1>3, ClausesAreTyped
  <2>3. \A j \in 1 .. m : Fits(subs[j])
    <3>1. ASSUME NEW j \in 1 .. m PROVE Fits(subs[j])
      <4>1. u[i].items[j] \in Subclauses(u)
        BY <1>3, <2>2, ItemsAreSubclauses
      <4>2. subs[j] = SqlWhere[u[i].items[j]]
        BY <2>1, <2>2
      <4>3. QED
        BY <1>2, <4>1, <4>2
    <3>2. QED
      BY <3>1
  <2>4. WellEntry(u[i])
    BY <1>3, ClausesAreTyped
  <2>5. DOMAIN subs = 1 .. m
    BY <2>1, <2>2
  <2>6. Fits(SqlEntry(u[i], subs))
    BY <2>3, <2>4, <2>5, SqlEntryIs
  <2>7. rs[i] = SqlEntry(u[i], subs)
    BY <1>4, <2>1
  <2>8. QED
    BY <2>6, <2>7
<1>7. PICK n \in Nat : DOMAIN u = 1 .. n
  BY <1>3, ClausesAreTyped
<1>8. Fits(Joined(rs))
  <2>1. DOMAIN rs = 1 .. n /\ \A i \in 1 .. n : Fits(rs[i])
    BY <1>4, <1>6, <1>7
  <2>2. QED
    BY <2>1, JoinedIs
<1>9. QED
  BY <1>5, <1>8

\* A clause is not odd: nor is it by itself, nor are the clauses in it.
LEMMA NotOdd ==
    ASSUME NEW w \in Clauses, ~Odd(w)
    PROVE  ~OddHere(w) /\ \A v \in Subclauses(w) : ~Odd(v)
<1>1. Within[w] = {w} \cup UNION {Within[v] : v \in Subclauses(w)}
  BY WithinIs
<1>2. QED
  BY <1>1 DEF Odd

\* The range over the parts ends with an error if one of them has one.
LEMMA ErrorsOfParts ==
    ASSUME NEW rs
    PROVE  /\ Joined(rs).error <=> \E i \in DOMAIN rs : rs[i].error
           /\ Merged(rs).error <=> \E i \in DOMAIN rs : rs[i].error
<1>1. Joined(rs).error <=> \E i \in DOMAIN rs : rs[i].error
  <2>1. CASE \E i \in DOMAIN rs : rs[i].error
    BY <2>1 DEF Joined, Refusal, Nothing, Result
  <2>2. CASE ~ \E i \in DOMAIN rs : rs[i].error
    BY <2>2 DEF Joined, Result
  <2>3. QED
    BY <2>1, <2>2
<1>2. Merged(rs).error <=> \E i \in DOMAIN rs : rs[i].error
  <2>1. CASE \E i \in DOMAIN rs : rs[i].error
    BY <2>1 DEF Merged, Refused
  <2>2. CASE ~ \E i \in DOMAIN rs : rs[i].error
    <3>1. \E filter : Merged(rs) = Accepted(filter)
      BY <2>2 DEF Merged
    <3>2. \A filter : Accepted(filter).error = FALSE
      BY DEF Accepted
    <3>3. QED
      BY <2>2, <3>1, <3>2
  <2>3. QED
    BY <2>1, <2>2
<1>3. QED
  BY <1>1, <1>2

\* Both transpilers refuse an entry, or neither does, if they do so of its subclauses.
LEMMA ErrorsOfEntries ==
    ASSUME NEW e, WellEntry(e), NEW subs, NEW msubs, DOMAIN subs = DOMAIN msubs,
           \A j \in DOMAIN subs : subs[j].error <=> msubs[j].error,
           ~NoString(e.ops), \A op \in DOMAIN e.ops : e.ops[op].is # "badref"
    PROVE  SqlEntry(e, subs).error <=> MongoEntry(e, msubs).error
<1>1. Refusal.error = TRUE /\ Refused.error = TRUE /\ Nothing.error = FALSE
  BY DEF Refusal, Refused, Nothing, Result
<1>2. \A filter : Accepted(filter).error = FALSE
  BY DEF Accepted
<1>3. \A conds, args : Result(conds, args).error = FALSE
  BY DEF Result
<1>4. CASE \E j \in DOMAIN subs : subs[j].error
  <2>1. SqlEntry(e, subs) = Refusal
    BY <1>4 DEF SqlEntry
  <2>2. MongoEntry(e, msubs) = Refused
    BY <1>4 DEF MongoEntry
  <2>3. QED
    BY <1>1, <2>1, <2>2
<1>5. CASE (~ \E j \in DOMAIN subs : subs[j].error) /\ e.key \in LogicKeys
  <2>1. \/ SqlEntry(e, subs) = Nothing
        \/ \E conds, args : SqlEntry(e, subs) = Result(conds, args)
    BY <1>5 DEF SqlEntry
  <2>2. \E filter : MongoEntry(e, msubs) = Accepted(filter)
    BY <1>5 DEF MongoEntry
  <2>3. QED
    BY <1>1, <1>2, <1>3, <2>1, <2>2
<1>6. CASE (~ \E j \in DOMAIN subs : subs[j].error) /\ e.key \notin LogicKeys
  <2>1. e.key \notin OrKeys /\ e.key \notin AndKeys /\ e.key \notin NotKeys
    BY <1>6, KeysDiffer
  <2>2. CASE e.key \notin Fields \/ UnknownOperator(e.ops)
    <3>1. SqlEntry(e, subs) = Refusal
      BY <1>6, <2>1, <2>2 DEF SqlEntry
    <3>2. MongoEntry(e, msubs) = Refused
      BY <1>6, <2>1, <2>2 DEF MongoEntry
    <3>3. QED
      BY <1>1, <3>1, <3>2
  <2>3. CASE ~(e.key \notin Fields \/ UnknownOperator(e.ops))
    <3>1. SqlEntry(e, subs) = SqlField(e.key, e.ops)
      BY <1>6, <2>1, <2>3 DEF SqlEntry
    <3>2. MongoEntry(e, msubs) = Accepted(MongoField(e.key, e.ops))
      BY <1>6, <2>1, <2>3 DEF MongoEntry
    <3>3. ~SqlField(e.key, e.ops).error
      BY SqlFieldIs DEF WellEntry
    <3>4. QED
      BY <1>2, <3>1, <3>2, <3>3
  <2>4. QED
    BY <2>2, <2>3
<1>7. QED
  BY <1>4, <1>5, <1>6

\* Both transpilers refuse the same clauses, unless one is odd.
LEMMA ErrorsOfClauses ==
    ASSUME NEW w \in Clauses, ~Odd(w)
    PROVE  SqlWhere[w].error <=> MongoWhere[w].error
<1> DEFINE B == {v \in Clauses : ~Odd(v) /\ ~(SqlWhere[v].error <=> MongoWhere[v].error)}
<1>1. SUFFICES ASSUME B # {} PROVE FALSE
  OBVIOUS
<1>2. PICK u \in B : \A v \in Subclauses(u) : v \in Clauses /\ v \notin B
  BY <1>1, ShallowestClause
<1>3. u \in Clauses /\ ~Odd(u)
  OBVIOUS
<1>4. PICK rs : rs = [i \in DOMAIN u |->
                SqlEntry(u[i], [j \in DOMAIN u[i].items |-> SqlWhere[u[i].items[j]]])]
  OBVIOUS
<1>5. PICK ms : ms = [i \in DOMAIN u |->
                MongoEntry(u[i], [j \in DOMAIN u[i].items |-> MongoWhere[u[i].items[j]]])]
  OBVIOUS
<1>6. SqlWhere[u] = Joined(rs) /\ MongoWhere[u] = Merged(ms)
  BY <1>3, <1>4, <1>5, SqlWhereIs, MongoWhereIs
<1>7. ASSUME NEW i \in DOMAIN u PROVE rs[i].error <=> ms[i].error
  <2>1. PICK subs : subs = [j \in DOMAIN u[i].items |-> SqlWhere[u[i].items[j]]]
    OBVIOUS
  <2>2. PICK msubs : msubs = [j \in DOMAIN u[i].items |-> MongoWhere[u[i].items[j]]]
    OBVIOUS
  <2>3. ASSUME NEW j \in DOMAIN subs PROVE subs[j].error <=> msubs[j].error
    <3>1. j \in DOMAIN u[i].items
      BY <2>1
    <3>2. u[i].items[j] \in Subclauses(u)
      BY <1>3, <3>1, ItemsAreSubclauses
    <3>3. SqlWhere[u[i].items[j]].error <=> MongoWhere[u[i].items[j]].error
      BY <1>2, <1>3, <3>2, NotOdd
    <3>4. QED
      BY <2>1, <2>2, <3>1, <3>3
  <2>4. WellEntry(u[i])
    BY <1>3, ClausesAreTyped
  <2>5. ~NoString(u[i].ops) /\ \A op \in DOMAIN u[i].ops : u[i].ops[op].is # "badref"
    BY <1>3, NotOdd DEF OddHere
  <2>6. DOMAIN subs = DOMAIN msubs
    BY <2>1, <2>2
  <2>7. SqlEntry(u[i], subs).error <=> MongoEntry(u[i], msubs).error
    BY <2>3, <2>4, <2>5, <2>6, ErrorsOfEntries
  <2>8. QED
    BY <1>4, <1>5, <2>1, <2>2, <2>7
<1>8. DOMAIN rs = DOMAIN ms /\ DOMAIN rs = DOMAIN u
  BY <1>4, <1>5
<1>9. Joined(rs).error <=> Merged(ms).error
  BY <1>7, <1>8, ErrorsOfParts
<1>10. QED
  BY <1>6, <1>9

Three == {"true", "false", "unknown"}

\* What SQL makes of conditions that are joined with AND, of the parts of an OR, and of
\* a NOT with one part.
LEMMA TruthOfAll ==
    ASSUME NEW conds, NEW r
    PROVE  LET V == {Sql3(conds[i], r) : i \in DOMAIN conds} IN
           Truth(AllOf(conds), r) =
               IF "false" \in V THEN "false" ELSE IF "unknown" \in V THEN "unknown" ELSE "true"
<1>1. PICK c : c = AllOf(conds)
  OBVIOUS
<1>2. c.op = "AND" /\ c.subs = conds
  BY <1>1 DEF AllOf, Condition
<1>3. PICK V : V = {Sql3(conds[i], r) : i \in DOMAIN conds}
  OBVIOUS
<1>4. V = {Sql3(c.subs[i], r) : i \in DOMAIN c.subs}
  BY <1>2, <1>3
<1>5. Truth(c, r) = IF "false" \in V THEN "false" ELSE IF "unknown" \in V THEN "unknown" ELSE "true"
  BY <1>2, <1>4 DEF Truth, TruthGiven
<1>6. QED
  BY <1>1, <1>3, <1>5

\* What SQL makes of OR,
LEMMA TruthOfAny ==
    ASSUME NEW subs, NEW args, NEW r
    PROVE  LET V == {Sql3(subs[i], r) : i \in DOMAIN subs} IN
           Truth(Condition("OR", subs, args), r) =
               IF "true" \in V THEN "true" ELSE IF "unknown" \in V THEN "unknown" ELSE "false"
<1>1. PICK c : c = Condition("OR", subs, args)
  OBVIOUS
<1>2. c.op = "OR" /\ c.subs = subs
  BY <1>1 DEF Condition
<1>3. PICK V : V = {Sql3(subs[i], r) : i \in DOMAIN subs}
  OBVIOUS
<1>4. V = {Sql3(c.subs[i], r) : i \in DOMAIN c.subs}
  BY <1>2, <1>3
<1>5. Truth(c, r) = IF "true" \in V THEN "true" ELSE IF "unknown" \in V THEN "unknown" ELSE "false"
  BY <1>2, <1>4 DEF Truth, TruthGiven
<1>6. QED
  BY <1>1, <1>3, <1>5

\* ... of NOT,
LEMMA TruthOfNot ==
    ASSUME NEW subs, NEW args, NEW r, NEW t \in Three,
           {Sql3(subs[i], r) : i \in DOMAIN subs} = {t}
    PROVE  Truth(Condition("NOT", subs, args), r) =
               IF t = "true" THEN "false" ELSE IF t = "false" THEN "true" ELSE "unknown"
<1>1. PICK c : c = Condition("NOT", subs, args)
  OBVIOUS
<1>2. c.op = "NOT" /\ c.subs = subs
  BY <1>1 DEF Condition
<1>3. {Sql3(c.subs[i], r) : i \in DOMAIN c.subs} = {t}
  BY <1>2
<1>4. Truth(c, r) = Not3(t)
  BY <1>2, <1>3 DEF Truth, TruthGiven, Three
<1>5. QED
  BY <1>1, <1>4 DEF Not3, Three

\* What it makes of a comparison with a value, of a list and of a pattern.
LEMMA TruthOfValue ==
    ASSUME NEW f, NEW op \in {"=", "!=", ">", ">=", "<", "<="}, NEW a, NEW r
    PROVE  Truth(OnField(op, f, << a >>), r) =
               IF r[f] = Null \/ a.of[1] = Null THEN "unknown" ELSE Known3(Compare(op, r[f], a.of[1]))
<1>1. PICK c : c = OnField(op, f, << a >>)
  OBVIOUS
<1>2. c.op = op /\ c.field = f /\ c.args = << a >> /\ c.subs = << >>
  BY <1>1 DEF OnField, Condition
<1>3. c.args # << >> /\ c.args[1] = a
  BY <1>2
<1>4. Truth(c, r) = IF r[f] = Null \/ a.of[1] = Null THEN "unknown" ELSE Known3(Compare(op, r[f], a.of[1]))
  BY <1>2, <1>3 DEF Truth, TruthGiven
<1>5. QED
  BY <1>1, <1>4

\* ... of LIKE,
LEMMA TruthOfPattern ==
    ASSUME NEW f, NEW a, NEW r
    PROVE  Truth(OnField("LIKE", f, << a >>), r) = In3(r[f], a.of)
<1>1. PICK c : c = OnField("LIKE", f, << a >>)
  OBVIOUS
<1>2. c.op = "LIKE" /\ c.field = f /\ c.args = << a >>
  BY <1>1 DEF OnField, Condition
<1>3. c.args[1] = a
  BY <1>2
<1>4. Truth(c, r) = In3(r[f], a.of)
  BY <1>2, <1>3 DEF Truth, TruthGiven
<1>5. QED
  BY <1>1, <1>4

\* ... and of IN and NOT IN.
LEMMA TruthOfList ==
    ASSUME NEW f, NEW vs, NEW r
    PROVE  LET args == [i \in DOMAIN vs |-> Value(vs[i])] IN
           /\ Truth(OnField("IN", f, args), r) = In3(r[f], ToSet(vs))
           /\ Truth(OnField("NOT IN", f, args), r) = Not3(In3(r[f], ToSet(vs)))
<1>1. PICK args : args = [i \in DOMAIN vs |-> Value(vs[i])]
  OBVIOUS
<1>2. {args[i].of[1] : i \in DOMAIN args} = ToSet(vs)
  BY <1>1 DEF Value, ToSet
<1>3. ASSUME NEW op \in {"IN", "NOT IN"}
      PROVE  Truth(OnField(op, f, args), r) =
                 IF op = "IN" THEN In3(r[f], ToSet(vs)) ELSE Not3(In3(r[f], ToSet(vs)))
  <2>1. PICK c : c = OnField(op, f, args)
    OBVIOUS
  <2>2. c.op = op /\ c.field = f /\ c.args = args
    BY <2>1 DEF OnField, Condition
  <2>3. {c.args[i].of[1] : i \in DOMAIN c.args} = ToSet(vs)
    BY <1>2, <2>2
  <2>4. Truth(c, r) = IF op = "IN" THEN In3(r[f], ToSet(vs)) ELSE Not3(In3(r[f], ToSet(vs)))
    BY <2>2, <2>3 DEF Truth, TruthGiven
  <2>5. QED
    BY <2>1, <2>4
<1>4. QED
  BY <1>1, <1>3

\* Whether all strings mean the same to both matchers.
KindIf(even) == IF even THEN "even" ELSE "any"

\* A truth value of SQL that MongoDB's answer agrees with as far as it is known - no
\* row is lost, and none is won if all strings are even - and one that says exactly
\* what a clause does.
Agrees(t, m, kind) == t \in Three /\ (t = "true" => m) /\ (kind = "even" /\ t = "false" => ~m)
Exact(t, h) == t # "unknown" /\ (t = "true" <=> h)

\* The key of MongoDB's document for an operator.
KeyOf(op) ==
    IF op \in {"neq", "ne"} THEN "ne" ELSE IF op \in {"like"} \cup Patterns THEN "regex" ELSE op

\* A plain argument for an operator.
PlainFor(op, a) ==
    /\ WellArg(a) /\ PlainArg(op, a)
    /\ a.is = "list" <=> op \in {"in", "nin"}
    /\ a.is = "text" <=> op \in {"like"} \cup Patterns

\* The argument that an operator has in a plain clause, if it is not a string.
LEMMA PlainArgIs ==
    ASSUME NEW op, op \notin {"like"} \cup Patterns, NEW a, PlainFor(op, a)
    PROVE  /\ a.of \in Seq(Int \cup {Null}) /\ a.of # << >>
           /\ a.of[1] \in Int /\ a.of[1] # Null /\ Null \notin ToSet(a.of) /\ a # Value(Null)
           /\ a.is \in {"value", "list"}
<1>1. PICK s \in Seq(Int \cup {Null}) : s = a.of /\ s # << >> /\ Null \notin ToSet(s)
  BY DEF PlainFor, WellArg, PlainArg
<1>2. Len(s) \in Nat \ {0}
  BY <1>1, EmptySeq
<1>3. 1 \in 1 .. Len(s)
  BY <1>2
<1>4. s[1] \in Int \cup {Null} /\ s[1] \in ToSet(s)
  <2>1. s[1] \in Int \cup {Null}
    BY <1>3, ElementOfSeq
  <2>2. s[1] \in ToSet(s)
    BY <1>3, ToSetOfSeq
  <2>3. QED
    BY <2>1, <2>2
<1>5. s[1] # Null /\ s[1] \in Int
  BY <1>1, <1>4
<1>6. Value(Null).of[1] = Null
  BY DEF Value
<1>7. a # Value(Null)
  BY <1>1, <1>5, <1>6
<1>8. a.is \in {"value", "list"}
  BY DEF PlainFor, PlainArg
<1>9. QED
  BY <1>1, <1>5, <1>7, <1>8

\* One operator with a plain argument: one condition, of which both databases make
\* the same unless there is a null.
OperatorAgrees(f, op, a, r) ==
    \E c : /\ ToSet(SqlOperator(f, op, a).conds) = {c}
           /\ op \notin {"bare", "eq"} =>
                Agrees(Truth(c, r), MongoCompare(KeyOf(op), r[f], MongoArg(op, a)), KindIf(EvenArg(op, a)))
           /\ op \in {"bare", "eq"} => Agrees(Truth(c, r), a.is = "value" /\ r[f] = a.of[1], "even")
           /\ r[f] # Null => Exact(Truth(c, r), OpHolds(op, r[f], a))

\* An agreement that holds for even strings holds.
LEMMA AgreesEvenly ==
    ASSUME NEW t, NEW m, NEW kind, Agrees(t, m, "even")
    PROVE  Agrees(t, m, kind)
BY DEF Agrees

\* The operators that take a value agree,
LEMMA ValuesAgree ==
    ASSUME NEW f, NEW op \in {"bare", "eq", "neq", "ne"} \cup Scalar, NEW a, PlainFor(op, a),
           NEW r, r[f] \in Int \cup {Null}
    PROVE  OperatorAgrees(f, op, a, r)
<1>1. a.is = "value" /\ a.of[1] \in Int /\ a.of[1] # Null /\ a # Value(Null) /\ MongoArg(op, a) = a
  BY PlainArgIs DEF PlainFor, Scalar, Patterns, MongoArg
<1>2. PICK x \in Int \cup {Null} : x = r[f]
  OBVIOUS
<1>3. PICK y \in Int : y = a.of[1] /\ y # Null
  BY <1>1
<1>4. Null \notin Int
  BY NullIsSpecial
<1>5. PICK o \in {"=", "!=", ">", ">=", "<", "<="} :
        /\ op \in {"bare", "eq"} => o = "=" 
        /\ op \in {"neq", "ne"} => o = "!="
        /\ op = "gt" => o = ">" 
        /\ op = "gte" => o = ">=" 
        /\ op = "lt" => o = "<" 
        /\ op = "lte" => o = "<="
  BY DEF Scalar
<1>6. SqlOperator(f, op, a) = One(OnField(o, f, << a >>))
  <2>1. \A p, q : Comparison(f, p, a) = One(OnField(p, f, << a >>)) /\ Equality(f, p, q, a) = Comparison(f, p, a)
    BY <1>1 DEF Comparison, Equality
  <2>2. CASE op \in {"bare", "eq"}
    <3>1. SqlOperator(f, op, a) = Equality(f, "=", "IS NULL", a)
      BY <2>2 DEF SqlOperator, Patterns
    <3>2. QED
      BY <1>5, <2>1, <2>2, <3>1
  <2>3. CASE op \in {"neq", "ne"}
    <3>1. SqlOperator(f, op, a) = Equality(f, "!=", "IS NOT NULL", a)
      BY <2>3 DEF SqlOperator, Patterns
    <3>2. QED
      BY <1>5, <2>1, <2>3, <3>1
  <2>4. CASE op \in Scalar
    <3>1. SqlOperator(f, op, a) = Comparison(f, o, a)
      BY <1>5, <2>4 DEF SqlOperator, Scalar, Patterns
    <3>2. QED
      BY <2>1, <3>1
  <2>5. QED
    BY <2>2, <2>3, <2>4
<1>7. PICK c : c = OnField(o, f, << a >>)
  OBVIOUS
<1>8. ToSet(SqlOperator(f, op, a).conds) = {c}
  BY <1>6, <1>7 DEF One, Result, ToSet
<1>9. Truth(c, r) = IF x = Null THEN "unknown" ELSE Known3(Compare(o, x, y))
  BY <1>2, <1>3, <1>7, TruthOfValue
<1>10. CASE op \in {"bare", "eq"}
  <2>1. Compare(o, x, y) <=> x = y
    BY <1>5, <1>10 DEF Compare
  <2>2. Agrees(Truth(c, r), x = y, "even") /\ (x # Null => Exact(Truth(c, r), x = y))
    BY <1>3, <1>9, <2>1 DEF Agrees, Exact, Three, Known3
  <2>3. OpHolds(op, x, a) <=> x = y
    BY <1>3, <1>10 DEF OpHolds, Patterns
  <2>4. QED
    BY <1>1, <1>2, <1>3, <1>8, <1>10, <2>2, <2>3 DEF OperatorAgrees, Exact, Agrees
<1>11. CASE op \in {"neq", "ne"}
  <2>1. Compare(o, x, y) <=> x # y
    BY <1>5, <1>11 DEF Compare
  <2>2. MongoCompare(KeyOf(op), x, a) <=> x # y
    BY <1>1, <1>3, <1>11 DEF MongoCompare, KeyOf
  <2>3. OpHolds(op, x, a) <=> x # y
    BY <1>3, <1>11 DEF OpHolds, Patterns
  <2>4. Agrees(Truth(c, r), MongoCompare(KeyOf(op), x, a), "even")
    BY <1>9, <2>1, <2>2 DEF Agrees, Three, Known3
  <2>5. x # Null => Exact(Truth(c, r), OpHolds(op, x, a))
    BY <1>9, <2>1, <2>3 DEF Exact, Known3
  <2>6. Agrees(Truth(c, r), MongoCompare(KeyOf(op), x, a), KindIf(EvenArg(op, a)))
    BY <2>4, AgreesEvenly
  <2>7. QED
    BY <1>1, <1>2, <1>8, <1>11, <2>5, <2>6 DEF OperatorAgrees
<1>12. CASE op \in Scalar
  <2>1. KeyOf(op) = op
    BY <1>12 DEF KeyOf, Scalar, Patterns
  <2>2. x # Null => (MongoCompare(op, x, a) <=> Compare(o, x, y))
    <3>1. SUFFICES ASSUME x # Null, x \in Int PROVE MongoCompare(op, x, a) <=> Compare(o, x, y)
      OBVIOUS
    <3>2. a.is \notin {"ref", "dotted", "badref"}
      BY <1>1
    <3>3. CASE op = "gt"
      BY <1>3, <1>5, <3>1, <3>2, <3>3 DEF MongoCompare, Compare
    <3>4. CASE op = "lt"
      BY <1>3, <1>5, <3>1, <3>2, <3>4 DEF MongoCompare, Compare
    <3>5. CASE op = "gte"
      <4>1. MongoCompare(op, x, a) <=> x = y \/ Compare(">", x, y)
        BY <1>3, <3>1, <3>2, <3>5 DEF MongoCompare
      <4>2. QED
        BY <1>5, <3>1, <3>5, <4>1 DEF Compare
    <3>6. CASE op = "lte"
      <4>1. MongoCompare(op, x, a) <=> x = y \/ Compare("<", x, y)
        BY <1>3, <3>1, <3>2, <3>6 DEF MongoCompare
      <4>2. QED
        BY <1>5, <3>1, <3>6, <4>1 DEF Compare
    <3>7. QED
      BY <1>12, <3>3, <3>4, <3>5, <3>6 DEF Scalar
  <2>3. x # Null => (OpHolds(op, x, a) <=> Compare(o, x, y))
    BY <1>3, <1>5, <1>12 DEF OpHolds, Compare, Scalar, Patterns
  <2>4. Agrees(Truth(c, r), MongoCompare(KeyOf(op), x, a), "even")
    BY <1>9, <2>1, <2>2 DEF Agrees, Three, Known3
  <2>5. x # Null => Exact(Truth(c, r), OpHolds(op, x, a))
    BY <1>9, <2>3 DEF Exact, Known3
  <2>6. Agrees(Truth(c, r), MongoCompare(KeyOf(op), x, a), KindIf(EvenArg(op, a)))
    BY <2>4, AgreesEvenly
  <2>7. QED
    BY <1>1, <1>2, <1>8, <1>12, <2>5, <2>6 DEF OperatorAgrees, Scalar
<1>13. QED
  BY <1>10, <1>11, <1>12

\* ... those that take a pattern,
LEMMA PatternsAgree ==
    ASSUME NEW f, NEW op \in {"like"} \cup Patterns, NEW a, PlainFor(op, a),
           NEW r, r[f] \in Int \cup {Null}
    PROVE  OperatorAgrees(f, op, a, r)
<1>1. a.is = "text" /\ TextMeans(a.of) /\ (IF op = "like" THEN ~a.of.metas ELSE ~a.of.wildcards)
  BY DEF PlainFor, WellArg, PlainArg
<1>2. PICK like : like = Like(op, a)
  OBVIOUS
<1>3. PICK regex : regex = MongoArg(op, a)
  OBVIOUS
<1>4. PICK x, M, N : x = r[f] /\ x \in Int \cup {Null} /\ M = like.of /\ N = regex.of
  OBVIOUS
<1>5. regex.is = "regex" /\ M = a.of.wild[Anchor(op)]
  BY <1>1, <1>2, <1>3, <1>4 DEF Like, MongoArg
<1>6. M \subseteq N /\ M \subseteq Int /\ (EvenArg(op, a) => M = N)
  <2>1. CASE op = "like"
    <3>1. Anchor(op) = "whole" /\ N = a.of.regex /\ ~EvenArg(op, a)
      BY <1>1, <1>3, <1>4, <2>1 DEF Anchor, MongoArg, EvenArg, Patterns
    <3>2. QED
      BY <1>1, <1>5, <2>1, <3>1 DEF TextMeans
  <2>2. CASE op \in Patterns
    <3>1. op # "like" /\ Anchor(op) \in Places
      BY <2>2 DEF Anchor, Patterns, Places
    <3>2. N = a.of.literal[Anchor(op)] /\ (EvenArg(op, a) => ~a.of.cased)
      BY <1>1, <1>3, <1>4, <2>2, <3>1 DEF MongoArg, EvenArg
    <3>3. PICK t, at : t = a.of /\ at = Anchor(op) /\ at \in Places
      BY <3>1
    <3>4. ~t.wildcards /\ M = t.wild[at] /\ N = t.literal[at] /\ (EvenArg(op, a) => ~t.cased)
      BY <1>1, <1>5, <3>1, <3>2, <3>3
    <3>5. TextMeans(t)
      BY <1>1, <3>3
    <3>6. t.wild[at] \subseteq Int
      BY <3>3, <3>5 DEF TextMeans
    <3>7. t.wild[at] \subseteq t.literal[at] /\ (~t.cased => t.wild[at] = t.literal[at])
      BY <3>3, <3>4, <3>5 DEF TextMeans
    <3>8. QED
      BY <3>4, <3>6, <3>7
  <2>3. QED
    BY <2>1, <2>2
<1>7. Null \notin M
  BY <1>6, NullIsSpecial
<1>8. PICK c : c = OnField("LIKE", f, << like >>)
  OBVIOUS
<1>9. SqlOperator(f, op, a) = One(c)
  BY <1>2, <1>8 DEF SqlOperator, Patterns
<1>10. ToSet(SqlOperator(f, op, a).conds) = {c}
  BY <1>9 DEF One, Result, ToSet
<1>11. Truth(c, r) = In3(x, M)
  BY <1>4, <1>8, TruthOfPattern
<1>12. MongoCompare(KeyOf(op), x, regex) <=> x # Null /\ x \in N
  <2>1. KeyOf(op) = "regex" /\ regex.is \notin {"ref", "dotted", "badref"}
    BY <1>5 DEF KeyOf, Patterns
  <2>2. QED
    BY <1>4, <2>1 DEF MongoCompare
<1>13. OpHolds(op, x, a) <=> x \in M
  BY <1>5 DEF OpHolds, Patterns
<1>14. op \notin {"bare", "eq"}
  BY DEF Patterns
<1>15. PICK kind : kind = KindIf(EvenArg(op, a))
  OBVIOUS
<1>16. Truth(c, r) = IF x = Null THEN "unknown" ELSE IF x \in M THEN "true" ELSE "false"
  BY <1>7, <1>11 DEF In3
<1>17. Agrees(Truth(c, r), MongoCompare(KeyOf(op), x, regex), kind)
  BY <1>6, <1>12, <1>15, <1>16 DEF Agrees, Three, KindIf
<1>18. x # Null => Exact(Truth(c, r), OpHolds(op, x, a))
  BY <1>13, <1>16 DEF Exact
<1>19. QED
  BY <1>3, <1>4, <1>10, <1>14, <1>15, <1>17, <1>18 DEF OperatorAgrees

\* ... and those that take a list.
LEMMA ListsAgree ==
    ASSUME NEW f, NEW op \in {"in", "nin"}, NEW a, PlainFor(op, a),
           NEW r, r[f] \in Int \cup {Null}
    PROVE  OperatorAgrees(f, op, a, r)
<1>1. a.is = "list" /\ a.of # << >> /\ Null \notin ToSet(a.of) /\ MongoArg(op, a) = a
  BY PlainArgIs DEF PlainFor, Patterns, MongoArg
<1>2. PICK x, M : x = r[f] /\ x \in Int \cup {Null} /\ M = ToSet(a.of) /\ Null \notin M
  BY <1>1
<1>3. PICK o : o = IF op = "in" THEN "IN" ELSE "NOT IN"
  OBVIOUS
<1>4. PICK args : args = [i \in DOMAIN a.of |-> Value(a.of[i])]
  OBVIOUS
<1>5. PICK c : c = OnField(o, f, args)
  OBVIOUS
<1>6. SqlOperator(f, op, a) = One(c)
  <2>1. Membership(f, o, a) = One(c)
    BY <1>1, <1>4, <1>5 DEF Membership
  <2>2. SqlOperator(f, op, a) = Membership(f, o, a)
    BY <1>3 DEF SqlOperator, Patterns
  <2>3. QED
    BY <2>1, <2>2
<1>7. ToSet(SqlOperator(f, op, a).conds) = {c}
  BY <1>6 DEF One, Result, ToSet
<1>8. Truth(c, r) = IF op = "in" THEN In3(x, M) ELSE Not3(In3(x, M))
  <2>1. /\ Truth(OnField("IN", f, args), r) = In3(r[f], ToSet(a.of))
        /\ Truth(OnField("NOT IN", f, args), r) = Not3(In3(r[f], ToSet(a.of)))
    BY <1>4, TruthOfList
  <2>2. QED
    BY <1>2, <1>3, <1>5, <2>1
<1>9. MongoCompare(KeyOf(op), x, a) <=> ((x \in M) <=> (op = "in"))
  <2>1. KeyOf(op) = op /\ op # "regex" /\ a.is \notin {"ref", "dotted", "badref"}
    BY <1>1 DEF KeyOf, Patterns
  <2>2. QED
    BY <1>2, <2>1 DEF MongoCompare
<1>10. OpHolds(op, x, a) <=> ((x \in M) <=> (op = "in"))
  <2>1. CASE op = "in"
    BY <1>2, <2>1 DEF OpHolds, Patterns
  <2>2. CASE op = "nin"
    BY <1>2, <2>2 DEF OpHolds, Patterns
  <2>3. QED
    BY <2>1, <2>2
<1>11. op \notin {"bare", "eq"}
  OBVIOUS
<1>12. In3(x, M) = IF x = Null THEN "unknown" ELSE IF x \in M THEN "true" ELSE "false"
  BY <1>2 DEF In3
<1>13. Not3("true") = "false" /\ Not3("false") = "true" /\ Not3("unknown") = "unknown"
  BY DEF Not3
<1>14. Agrees(Truth(c, r), MongoCompare(KeyOf(op), x, a), "even") /\ (x # Null => Exact(Truth(c, r), OpHolds(op, x, a)))
  <2>1. CASE op = "in"
    BY <1>8, <1>9, <1>10, <1>12, <2>1 DEF Exact, Agrees, Three
  <2>2. CASE op = "nin"
    BY <1>8, <1>9, <1>10, <1>12, <1>13, <2>2 DEF Exact, Agrees, Three
  <2>3. QED
    BY <2>1, <2>2
<1>15. Agrees(Truth(c, r), MongoCompare(KeyOf(op), x, a), KindIf(EvenArg(op, a)))
  BY <1>14, AgreesEvenly
<1>16. QED
  BY <1>1, <1>2, <1>7, <1>11, <1>14, <1>15 DEF OperatorAgrees

\* So it is for every operator.
LEMMA OperatorsAgree ==
    ASSUME NEW f, NEW op \in Known, NEW a, PlainFor(op, a), NEW r, r[f] \in Int \cup {Null}
    PROVE  OperatorAgrees(f, op, a, r)
BY ValuesAgree, PatternsAgree, ListsAgree DEF Known

\* What PlainOps says of the operators of a field, one at a time.
LEMMA PlainOpsAre ==
    ASSUME NEW ops, PlainOps(ops), \A op \in DOMAIN ops : WellArg(ops[op])
    PROVE  /\ DOMAIN ops # {} /\ DOMAIN ops \subseteq Known /\ AskedOps(ops) = DOMAIN ops
           /\ \A op \in DOMAIN ops : PlainFor(op, ops[op])
           /\ \A op \in DOMAIN ops : op \in {"bare", "eq"} => DOMAIN ops = {op}
           /\ \A o1, o2 \in DOMAIN ops : KeyOf(o1) = KeyOf(o2) => o1 = o2
           /\ ~NoString(ops) /\ ~UnknownOperator(ops)
           /\ ~ \E op \in DOMAIN ops : ops[op].is = "badref"
<1>1. DOMAIN ops # {} /\ DOMAIN ops \subseteq Known /\ ("neq" \notin DOMAIN ops \/ "ne" \notin DOMAIN ops)
  BY DEF PlainOps
<1>2. \A o1, o2 \in DOMAIN ops \cap ({"like"} \cup Patterns) : o1 = o2
  BY DEF PlainOps
<1>3. DOMAIN ops \cap {"bare", "eq"} # {} => \A o1, o2 \in DOMAIN ops : o1 = o2
  BY DEF PlainOps
<1>4. \A op \in DOMAIN ops : PlainFor(op, ops[op])
  BY DEF PlainOps, PlainFor
<1>5. AskedOps(ops) = DOMAIN ops
  BY <1>1 DEF AskedOps
<1>6. \A op \in DOMAIN ops : op \in {"bare", "eq"} => DOMAIN ops = {op}
  BY <1>3
<1>7. \A o1, o2 \in DOMAIN ops : KeyOf(o1) = KeyOf(o2) => o1 = o2
  <2>1. SUFFICES ASSUME NEW o1 \in DOMAIN ops, NEW o2 \in DOMAIN ops, KeyOf(o1) = KeyOf(o2) PROVE o1 = o2
    OBVIOUS
  <2>2. o1 \in Known /\ o2 \in Known
    BY <1>1
  <2>3. QED
    BY <1>1, <1>2, <2>1, <2>2 DEF KeyOf, Known, Scalar, Patterns
<1>8. ~NoString(ops)
  BY <1>4 DEF NoString, PlainFor
<1>9. ~UnknownOperator(ops)
  BY <1>1 DEF UnknownOperator
<1>10. ~ \E op \in DOMAIN ops : ops[op].is = "badref"
  BY <1>4 DEF PlainFor, PlainArg
<1>11. QED
  BY <1>1, <1>4, <1>5, <1>6, <1>7, <1>8, <1>9, <1>10

\* Each of them goes to a key of its own in the field's document.
LEMMA PlainDocument ==
    ASSUME NEW ops, PlainOps(ops), \A op \in DOMAIN ops : WellArg(ops[op]),
           DOMAIN ops \cap {"bare", "eq"} = {}
    PROVE  /\ DOMAIN MongoOps(ops) = {KeyOf(op) : op \in DOMAIN ops}
           /\ \A op \in DOMAIN ops : MongoOps(ops)[KeyOf(op)] = MongoArg(op, ops[op])
<1> DEFINE Goes(op) == /\ op \in DOMAIN ops
                       /\ op \in {"in", "nin"} => ops[op].is = "list"
                       /\ op = "like" => ops[op].is = "text"
           Keys == {k \in Scalar \cup {"ne", "in", "nin", "regex"} : Goes(Source(k, ops))}
<1>1. MongoOps(ops) = [key \in Keys |-> MongoArg(Source(key, ops), ops[Source(key, ops)])]
  BY DEF MongoOps
<1>2. ASSUME NEW op \in DOMAIN ops PROVE Source(KeyOf(op), ops) = op
  <2>1. op \in Known \ {"bare", "eq"}
    BY PlainOpsAre
  <2>2. "neq" \notin DOMAIN ops \/ "ne" \notin DOMAIN ops
    BY DEF PlainOps
  <2>3. \A o \in DOMAIN ops : o \in {"like"} \cup Patterns /\ op \in {"like"} \cup Patterns => o = op
    BY DEF PlainOps
  <2>4. CASE op \in {"neq", "ne"}
    BY <2>2, <2>4 DEF KeyOf, Source
  <2>5. CASE op \in {"like"} \cup Patterns
    <3>1. KeyOf(op) = "regex"
      BY <2>5 DEF KeyOf, Patterns
    <3>2. Source("regex", ops) = op
      BY <2>3, <2>5 DEF Source, Patterns
    <3>3. QED
      BY <3>1, <3>2
  <2>6. CASE op \in Scalar \cup {"in", "nin"}
    BY <2>6 DEF KeyOf, Source, Scalar, Patterns
  <2>7. QED
    BY <2>1, <2>4, <2>5, <2>6 DEF Known
<1>3. \A op \in DOMAIN ops : Goes(op)
  BY DEF PlainOps
<1>4. \A op \in DOMAIN ops : KeyOf(op) \in Scalar \cup {"ne", "in", "nin", "regex"}
  BY PlainOpsAre DEF KeyOf, Known, Scalar, Patterns
<1>5. \A op \in DOMAIN ops : KeyOf(op) \in Keys
  BY <1>2, <1>3, <1>4
<1>6. ASSUME NEW k \in Keys PROVE \E op \in DOMAIN ops : k = KeyOf(op)
  <2>1. Source(k, ops) \in DOMAIN ops /\ k \in Scalar \cup {"ne", "in", "nin", "regex"}
    OBVIOUS
  <2>2. CASE k = "ne"
    BY <2>1, <2>2 DEF Source, KeyOf
  <2>3. CASE k = "regex"
    <3>1. Source(k, ops) \in {"like"} \cup Patterns
      BY <2>3 DEF Source, Patterns
    <3>2. KeyOf(Source(k, ops)) = "regex"
      BY <3>1 DEF KeyOf, Patterns
    <3>3. QED
      BY <2>1, <2>3, <3>2
  <2>4. CASE k \in Scalar \cup {"in", "nin"}
    <3>1. Source(k, ops) = k /\ KeyOf(k) = k
      BY <2>4 DEF Source, KeyOf, Scalar, Patterns
    <3>2. QED
      BY <2>1, <3>1
  <2>5. QED
    BY <2>1, <2>2, <2>3, <2>4
<1>7. DOMAIN MongoOps(ops) = Keys
  BY <1>1
<1>8. \A op \in DOMAIN ops : MongoOps(ops)[KeyOf(op)] = MongoArg(op, ops[op])
  BY <1>1, <1>2, <1>5
<1> HIDE DEF Keys
<1>9. Keys = {KeyOf(op) : op \in DOMAIN ops}
  BY <1>5, <1>6
<1>10. QED
  BY <1>7, <1>8, <1>9

\* What both databases make of an entry: the conditions it becomes in SQL, whether
\* MongoDB's filter matches, and whether the entry holds; MongoDB may match more unless
\* all strings are even.
PartAgrees(C, m, h, kind, r) ==
    /\ C # {}
    /\ \A c \in C : Sql3(c, r) \in Three
    /\ (\A c \in C : Sql3(c, r) = "true") => m
    /\ kind = "even" => ((\E c \in C : Sql3(c, r) = "false") => ~m)
    /\ NullFree(r) => \A c \in C : Sql3(c, r) # "unknown"
    /\ NullFree(r) => ((\A c \in C : Sql3(c, r) = "true") <=> h)

\* SQL knows what to make of the conditions of a result.
Evaluated(s, r) == \A c \in ToSet(s.conds) : Sql3(c, r) = Truth(c, r)

\* A filter, key by key.
KeyMatches(k, v, r) ==
    IF k = "$or" THEN \E i \in DOMAIN v : MongoSelects(v[i], r)
    ELSE IF k = "$and" THEN \A i \in DOMAIN v : MongoSelects(v[i], r)
    ELSE IF k = "$nor" THEN \A i \in DOMAIN v : ~MongoSelects(v[i], r)
    ELSE IF v.is = "eq" THEN v.value.is = "value" /\ r[k] = v.value.of[1]
    ELSE \A op \in DOMAIN v.value : MongoCompare(op, r[k], v.value[op])

\* A filter matches a row if every key of it does.
LEMMA MatchesIs ==
    ASSUME NEW filter, NEW r
    PROVE  Matches(filter, r) <=> \A k \in DOMAIN filter : KeyMatches(k, filter[k], r)
<1>1. ASSUME NEW k, NEW v
      PROVE  KeySelects(k, v, {i \in DOMAIN v : MongoSelects(v[i], r)}, r) <=> KeyMatches(k, v, r)
  <2> DEFINE D == DOMAIN v
             S == {i \in D : MongoSelects(v[i], r)}
  <2>1. /\ S # {} <=> \E i \in D : MongoSelects(v[i], r)
        /\ S = D <=> \A i \in D : MongoSelects(v[i], r)
        /\ S = {} <=> \A i \in D : ~MongoSelects(v[i], r)
    OBVIOUS
  <2> HIDE DEF S
  <2>2. QED
    BY <2>1 DEF KeySelects, KeyMatches
<1>2. QED
  BY <1>1 DEF Matches

\* A filter of one key.
LEMMA FilterMatches ==
    ASSUME NEW k, NEW v, NEW r
    PROVE  /\ Matches(Filter(k, v), r) <=> KeyMatches(k, v, r)
           /\ DOMAIN Filter(k, v) = {k} /\ Filter(k, v)[k] = v
<1>1. DOMAIN Filter(k, v) = {k} /\ Filter(k, v)[k] = v
  BY DEF Filter
<1>2. Matches(Filter(k, v), r) <=> KeyMatches(k, v, r)
  BY <1>1, MatchesIs
<1>3. QED
  BY <1>1, <1>2

\* A field whose operators are plain.
LEMMA FieldAgrees ==
    ASSUME NEW f \in Fields, NEW ops, PlainOps(ops), \A op \in DOMAIN ops : WellArg(ops[op]),
           NEW r, r[f] \in Int \cup {Null},
           NEW kind, kind = "even" => \A op \in DOMAIN ops : EvenArg(op, ops[op]),
           Evaluated(SqlField(f, ops), r)
    PROVE  /\ ~SqlField(f, ops).error
           /\ DOMAIN MongoField(f, ops) = {f}
           /\ PartAgrees(ToSet(SqlField(f, ops).conds), Matches(MongoField(f, ops), r),
                         \A op \in DOMAIN ops : OpHolds(op, r[f], ops[op]), kind, r)
<1>1. ~SqlField(f, ops).error
  BY PlainOpsAre, SqlFieldIs
<1>2. PICK C : C = ToSet(SqlField(f, ops).conds)
  OBVIOUS
<1>3. C = UNION {ToSet(SqlOperator(f, op, ops[op]).conds) : op \in DOMAIN ops}
  BY <1>1, <1>2, SqlFieldIs, PlainOpsAre
<1>4. ASSUME NEW op \in DOMAIN ops PROVE OperatorAgrees(f, op, ops[op], r)
  BY PlainOpsAre, OperatorsAgree
<1>5. f # "$or" /\ f # "$and" /\ f # "$nor"
  BY KeysDiffer
<1>6. DOMAIN ops # {}
  BY PlainOpsAre
<1> DEFINE Only(op, c) ==
        /\ ToSet(SqlOperator(f, op, ops[op]).conds) = {c}
        /\ op \notin {"bare", "eq"} =>
             Agrees(Truth(c, r), MongoCompare(KeyOf(op), r[f], MongoArg(op, ops[op])), KindIf(EvenArg(op, ops[op])))
        /\ op \in {"bare", "eq"} => Agrees(Truth(c, r), ops[op].is = "value" /\ r[f] = ops[op].of[1], "even")
        /\ r[f] # Null => Exact(Truth(c, r), OpHolds(op, r[f], ops[op]))
<1>7. \A op \in DOMAIN ops : \E c \in C : Only(op, c)
  <2>1. SUFFICES ASSUME NEW op \in DOMAIN ops PROVE \E c \in C : Only(op, c)
    OBVIOUS
  <2>2. PICK c : Only(op, c)
    BY <1>4 DEF OperatorAgrees
  <2>3. c \in C
    BY <1>3, <2>2
  <2>4. QED
    BY <2>2, <2>3
<1>8. \A c \in C : \E op \in DOMAIN ops : Only(op, c)
  <2>1. SUFFICES ASSUME NEW c \in C PROVE \E op \in DOMAIN ops : Only(op, c)
    OBVIOUS
  <2>2. PICK op \in DOMAIN ops : c \in ToSet(SqlOperator(f, op, ops[op]).conds)
    BY <1>3
  <2>3. PICK d \in C : Only(op, d)
    BY <1>7
  <2>4. c = d
    BY <2>2, <2>3
  <2>5. QED
    BY <2>3, <2>4
<1>9. \A c \in C : Sql3(c, r) = Truth(c, r)
  BY <1>2 DEF Evaluated
<1>10. \A op \in DOMAIN ops, c \in C : Only(op, c) => Sql3(c, r) \in Three
  BY <1>9 DEF Agrees
<1>11. NullFree(r) => r[f] # Null
  BY DEF NullFree
<1>12. \A op \in DOMAIN ops, c \in C : NullFree(r) /\ Only(op, c) =>
            Sql3(c, r) # "unknown" /\ (Sql3(c, r) = "true" <=> OpHolds(op, r[f], ops[op]))
  BY <1>9, <1>11 DEF Exact
<1>13. CASE DOMAIN ops \cap {"bare", "eq"} # {}
  <2>1. PICK op \in DOMAIN ops : op \in {"bare", "eq"} /\ DOMAIN ops = {op}
    BY <1>13, PlainOpsAre
  <2>2. (CHOOSE o \in DOMAIN ops \cap {"bare", "eq"} : TRUE) = op
    BY <2>1
  <2>3. PICK v : v = [is |-> "eq", value |-> ops[op]]
    OBVIOUS
  <2>4. MongoField(f, ops) = Filter(f, v)
    BY <1>13, <2>2, <2>3 DEF MongoField
  <2>5. KeyMatches(f, v, r) <=> ops[op].is = "value" /\ r[f] = ops[op].of[1]
    BY <1>5, <2>3 DEF KeyMatches
  <2>6. PICK m \in BOOLEAN : m <=> Matches(MongoField(f, ops), r)
    OBVIOUS
  <2>7. m <=> ops[op].is = "value" /\ r[f] = ops[op].of[1]
    <3>1. Matches(Filter(f, v), r) <=> KeyMatches(f, v, r)
      BY FilterMatches
    <3>2. QED
      BY <2>4, <2>5, <2>6, <3>1
  <2>8. PICK c \in C : Only(op, c)
    BY <1>7
  <2>9. C = {c}
    <3>1. \A d \in C : Only(op, d)
      BY <1>8, <2>1
    <3> HIDE DEF Only
    <3>2. \A d \in C : ToSet(SqlOperator(f, op, ops[op]).conds) = {d}
      BY <3>1 DEF Only
    <3>3. QED
      BY <2>8, <3>2
  <2>10. Agrees(Sql3(c, r), m, "even")
    BY <1>9, <2>1, <2>7, <2>8 DEF Agrees
  <2> HIDE DEF Only
  <2>11. PartAgrees(C, m, \A o \in DOMAIN ops : OpHolds(o, r[f], ops[o]), kind, r)
    BY <1>12, <2>1, <2>8, <2>9, <2>10 DEF PartAgrees, Agrees
  <2>12. DOMAIN MongoField(f, ops) = {f}
    BY <2>4, FilterMatches
  <2>13. QED
    BY <1>1, <1>2, <2>6, <2>11, <2>12 DEF PartAgrees
<1>14. CASE DOMAIN ops \cap {"bare", "eq"} = {}
  <2>1. PICK doc : doc = MongoOps(ops)
    OBVIOUS
  <2>2. DOMAIN doc = {KeyOf(op) : op \in DOMAIN ops} /\ \A op \in DOMAIN ops : doc[KeyOf(op)] = MongoArg(op, ops[op])
    BY <1>14, <2>1, PlainDocument
  <2>3. DOMAIN doc # {}
    BY <1>6, <2>2
  <2>4. PICK v : v = [is |-> "ops", value |-> doc]
    OBVIOUS
  <2>5. MongoField(f, ops) = Filter(f, v)
    BY <1>14, <2>1, <2>3, <2>4 DEF MongoField
  <2>6. KeyMatches(f, v, r) <=> \A k \in DOMAIN doc : MongoCompare(k, r[f], doc[k])
    BY <1>5, <2>4 DEF KeyMatches
  <2>7. PICK m \in BOOLEAN : m <=> Matches(MongoField(f, ops), r)
    OBVIOUS
  <2>8. m <=> \A op \in DOMAIN ops : MongoCompare(KeyOf(op), r[f], MongoArg(op, ops[op]))
    <3>1. Matches(Filter(f, v), r) <=> KeyMatches(f, v, r)
      BY FilterMatches
    <3>2. m <=> \A k \in DOMAIN doc : MongoCompare(k, r[f], doc[k])
      BY <2>5, <2>6, <2>7, <3>1
    <3>3. QED
      BY <2>2, <3>2
  <2>9. \A op \in DOMAIN ops, c \in C : Only(op, c) =>
            /\ Sql3(c, r) = "true" => MongoCompare(KeyOf(op), r[f], MongoArg(op, ops[op]))
            /\ kind = "even" /\ Sql3(c, r) = "false" => ~MongoCompare(KeyOf(op), r[f], MongoArg(op, ops[op]))
    BY <1>9, <1>14 DEF Agrees, KindIf
  <2> HIDE DEF Only
  <2>10. PartAgrees(C, m, \A o \in DOMAIN ops : OpHolds(o, r[f], ops[o]), kind, r)
    <3>1. C # {}
      BY <1>6, <1>7
    <3>2. \A c \in C : Sql3(c, r) \in Three
      BY <1>8, <1>10
    <3>3. (\A c \in C : Sql3(c, r) = "true") => m
      BY <1>7, <2>8, <2>9
    <3>4. kind = "even" => ((\E c \in C : Sql3(c, r) = "false") => ~m)
      BY <1>8, <2>8, <2>9
    <3>5. NullFree(r) => \A c \in C : Sql3(c, r) # "unknown"
      BY <1>8, <1>12
    <3>6. NullFree(r) => ((\A c \in C : Sql3(c, r) = "true") <=> \A o \in DOMAIN ops : OpHolds(o, r[f], ops[o]))
      BY <1>7, <1>8, <1>12
    <3>7. QED
      BY <3>1, <3>2, <3>3, <3>4, <3>5, <3>6 DEF PartAgrees
  <2>11. DOMAIN MongoField(f, ops) = {f}
    BY <2>5, FilterMatches
  <2>12. QED
    BY <1>1, <1>2, <2>7, <2>10, <2>11 DEF PartAgrees
<1>15. QED
  BY <1>13, <1>14

\* The results for one subclause, and the rows it is true of: both transpilers make
\* something of it, and the databases agree on it as far as they know.
SubAgrees(s, m, rows, kind, r) ==
    /\ Fits(s) /\ s.conds # << >> /\ ~s.error
    /\ ~m.error /\ DOMAIN m.filter # {}
    /\ Agrees(Sql3(AllOf(s.conds), r), MongoSelects(m.filter, r), kind)
    /\ NullFree(r) => Exact(Sql3(AllOf(s.conds), r), r \in rows)

\* ... for the subclauses of an entry, which are even if they are negated.
SubsAgree(e, n, subs, msubs, meant, kind, r) ==
    \A i \in 1 .. n :
        /\ SubAgrees(subs[i], msubs[i], meant[i], kind, r)
        /\ e.key \in NotKeys => SubAgrees(subs[i], msubs[i], meant[i], "even", r)

\* The key of the filter of a logical operator.
LogicKey(key) == IF key \in OrKeys THEN "$or" ELSE IF key \in AndKeys THEN "$and" ELSE "$nor"

\* What is made of an entry with a logical operator agrees.
LogicEntryAgrees(e, subs, msubs, meant, kind, r) ==
    /\ ~SqlEntry(e, subs).error /\ ~MongoEntry(e, msubs).error
    /\ DOMAIN MongoEntry(e, msubs).filter = {LogicKey(e.key)}
    /\ PartAgrees(ToSet(SqlEntry(e, subs).conds), Matches(MongoEntry(e, msubs).filter, r),
                  EntryHolds(e, meant, r), kind, r)

\* An entry with a logical operator agrees, if its subclauses do.
LEMMA LogicAgrees ==
    ASSUME NEW n \in Nat, n > 0, NEW subs, NEW msubs, NEW meant, NEW r,
           DOMAIN subs = 1 .. n, DOMAIN msubs = 1 .. n, DOMAIN meant = 1 .. n,
           NEW e, e.key \in LogicKeys, e.key \in NotKeys => n = 1,
           NEW kind, SubsAgree(e, n, subs, msubs, meant, kind, r),
           Evaluated(SqlEntry(e, subs), r)
    PROVE  LogicEntryAgrees(e, subs, msubs, meant, kind, r)
<1>1. PICK brackets : brackets = Bracketed(subs)
  OBVIOUS
<1>2. PICK t : t = [i \in 1 .. n |-> Sql3(AllOf(subs[i].conds), r)]
  OBVIOUS
<1>3. PICK filters : filters = [j \in 1 .. n |-> msubs[j].filter]
  OBVIOUS
<1>4. \A i \in 1 .. n :
        /\ Fits(subs[i]) /\ subs[i].conds # << >> /\ ~subs[i].error /\ ~msubs[i].error
        /\ DOMAIN filters[i] # {}
        /\ Agrees(t[i], MongoSelects(filters[i], r), kind)
        /\ e.key \in NotKeys => Agrees(t[i], MongoSelects(filters[i], r), "even")
        /\ NullFree(r) => Exact(t[i], r \in meant[i])
  BY <1>2, <1>3 DEF SubsAgree, SubAgrees
<1>5. CondSeq(brackets) /\ ToSet(brackets) = {AllOf(subs[i].conds) : i \in 1 .. n}
  <2>1. {i \in 1 .. n : subs[i].conds # << >>} = 1 .. n
    BY <1>4
  <2>2. QED
    BY <1>1, <1>4, <2>1, BracketedIs
<1>6. {Sql3(brackets[i], r) : i \in DOMAIN brackets} = {t[i] : i \in 1 .. n}
  <2>1. {Sql3(brackets[i], r) : i \in DOMAIN brackets} = {Sql3(c, r) : c \in ToSet(brackets)}
    BY DEF ToSet
  <2>2. {Sql3(c, r) : c \in ToSet(brackets)} = {t[i] : i \in 1 .. n}
    BY <1>2, <1>5
  <2>3. QED
    BY <2>1, <2>2
<1>7. 1 \in 1 .. n
  OBVIOUS
<1>8. brackets # << >>
  <2>1. ToSet(brackets) # {}
    BY <1>5, <1>7
  <2>2. QED
    BY <2>1, IsSeqEmpty
<1>9. (~ \E i \in DOMAIN subs : subs[i].error) /\ (~ \E i \in DOMAIN msubs : msubs[i].error) /\ msubs # << >>
  <2>1. (~ \E i \in DOMAIN subs : subs[i].error) /\ (~ \E i \in DOMAIN msubs : msubs[i].error)
    BY <1>4
  <2>2. 1 \in DOMAIN msubs /\ DOMAIN << >> = {}
    BY <1>7
  <2>3. QED
    BY <2>1, <2>2
<1>10. [j \in DOMAIN msubs |-> msubs[j].filter] = filters
  BY <1>3
<1>11. DOMAIN filters = 1 .. n /\ DOMAIN filters[1] # {}
  BY <1>3, <1>4, <1>7
<1>12. \A i \in 1 .. n : t[i] \in Three
  BY <1>4 DEF Agrees
<1> DEFINE T == {t[i] : i \in 1 .. n}
<1>13. CASE e.key \in OrKeys
  <2>1. PICK c : c = Condition("OR", brackets, Args(brackets))
    OBVIOUS
  <2>2. SqlEntry(e, subs) = Result(<< c >>, SubArgs(subs))
    BY <1>1, <1>8, <1>9, <1>13, <2>1 DEF SqlEntry
  <2>3. ToSet(SqlEntry(e, subs).conds) = {c} /\ SqlEntry(e, subs).error = FALSE
    BY <2>2 DEF Result, ToSet
  <2>4. MongoEntry(e, msubs) = Accepted(Filter("$or", filters))
    BY <1>9, <1>10, <1>13 DEF MongoEntry
  <2>5. MongoEntry(e, msubs).filter = Filter("$or", filters) /\ MongoEntry(e, msubs).error = FALSE
    BY <2>4 DEF Accepted
  <2>6. Matches(Filter("$or", filters), r) <=> \E i \in 1 .. n : MongoSelects(filters[i], r)
    <3>1. Matches(Filter("$or", filters), r) <=> KeyMatches("$or", filters, r)
      BY FilterMatches
    <3>2. KeyMatches("$or", filters, r) <=> \E i \in DOMAIN filters : MongoSelects(filters[i], r)
      BY DEF KeyMatches
    <3>3. QED
      BY <1>11, <3>1, <3>2
  <2>7. Truth(c, r) = IF "true" \in T THEN "true" ELSE IF "unknown" \in T THEN "unknown" ELSE "false"
    <3>1. PICK V : V = {Sql3(brackets[i], r) : i \in DOMAIN brackets}
      OBVIOUS
    <3>2. Truth(c, r) = IF "true" \in V THEN "true" ELSE IF "unknown" \in V THEN "unknown" ELSE "false"
      BY <2>1, <3>1, TruthOfAny
    <3>3. V = T
      BY <1>6, <3>1
    <3>4. QED
      BY <3>2, <3>3
  <2>8. Sql3(c, r) = Truth(c, r)
    <3>1. c \in ToSet(SqlEntry(e, subs).conds)
      BY <2>3
    <3>2. QED
      BY <3>1 DEF Evaluated
  <2>9. DOMAIN meant = 1 .. n /\ (EntryHolds(e, meant, r) <=> \E i \in 1 .. n : r \in meant[i])
    <3>1. e.key \notin AndKeys /\ e.key \notin NotKeys
      BY <1>13, KeysDiffer
    <3>2. EntryHolds(e, meant, r) <=> \E i \in DOMAIN meant : r \in meant[i]
      BY <1>13, <3>1 DEF EntryHolds
    <3>3. QED
      BY <3>2
  <2>10. PICK m \in BOOLEAN : m <=> Matches(Filter("$or", filters), r)
    OBVIOUS
  <2>11. Agrees(Sql3(c, r), m, kind)
    BY <1>4, <1>12, <2>6, <2>7, <2>8, <2>10 DEF Agrees, Three
  <2>12. NullFree(r) => Exact(Sql3(c, r), EntryHolds(e, meant, r))
    BY <1>4, <1>12, <2>7, <2>8, <2>9 DEF Exact, Three
  <2>13. PartAgrees({c}, m, EntryHolds(e, meant, r), kind, r)
    BY <2>11, <2>12 DEF PartAgrees, Agrees, Exact
  <2>14. DOMAIN Filter("$or", filters) = {LogicKey(e.key)}
    BY <1>13, FilterMatches DEF LogicKey
  <2>15. QED
    BY <2>3, <2>5, <2>10, <2>13, <2>14 DEF PartAgrees, LogicEntryAgrees
<1>14. CASE e.key \in AndKeys
  <2>1. e.key \notin OrKeys
    BY <1>14, KeysDiffer
  <2>2. SqlEntry(e, subs) = Result(brackets, SubArgs(subs))
    BY <1>1, <1>9, <1>14, <2>1 DEF SqlEntry
  <2>3. ToSet(SqlEntry(e, subs).conds) = ToSet(brackets) /\ SqlEntry(e, subs).error = FALSE
    BY <2>2 DEF Result
  <2>4. MongoEntry(e, msubs) = Accepted(Filter("$and", filters))
    BY <1>9, <1>10, <1>14, <2>1 DEF MongoEntry
  <2>5. MongoEntry(e, msubs).filter = Filter("$and", filters) /\ MongoEntry(e, msubs).error = FALSE
    BY <2>4 DEF Accepted
  <2>6. Matches(Filter("$and", filters), r) <=> \A i \in 1 .. n : MongoSelects(filters[i], r)
    <3>1. Matches(Filter("$and", filters), r) <=> KeyMatches("$and", filters, r)
      BY FilterMatches
    <3>2. KeyMatches("$and", filters, r) <=> \A i \in DOMAIN filters : MongoSelects(filters[i], r)
      BY DEF KeyMatches
    <3>3. QED
      BY <1>11, <3>1, <3>2
  <2>7. DOMAIN meant = 1 .. n /\ (EntryHolds(e, meant, r) <=> \A i \in 1 .. n : r \in meant[i])
    <3>1. e.key \notin NotKeys
      BY <1>14, KeysDiffer
    <3>2. EntryHolds(e, meant, r) <=> \A i \in DOMAIN meant : r \in meant[i]
      BY <1>14, <2>1, <3>1 DEF EntryHolds
    <3>3. QED
      BY <3>2
  <2>8. /\ \A i \in 1 .. n : \E c \in ToSet(brackets) : Sql3(c, r) = t[i]
        /\ \A c \in ToSet(brackets) : \E i \in 1 .. n : Sql3(c, r) = t[i]
    BY <1>2, <1>5
  <2>9. PICK m \in BOOLEAN : m <=> Matches(Filter("$and", filters), r)
    OBVIOUS
  <2>10. PartAgrees(ToSet(brackets), m, EntryHolds(e, meant, r), kind, r)
    <3>1. ToSet(brackets) # {}
      BY <1>7, <2>8
    <3>2. \A c \in ToSet(brackets) : Sql3(c, r) \in Three
      BY <1>12, <2>8
    <3>3. (\A c \in ToSet(brackets) : Sql3(c, r) = "true") => m
      BY <1>4, <2>6, <2>8, <2>9 DEF Agrees
    <3>4. kind = "even" => ((\E c \in ToSet(brackets) : Sql3(c, r) = "false") => ~m)
      BY <1>4, <2>6, <2>8, <2>9 DEF Agrees
    <3>5. NullFree(r) => \A c \in ToSet(brackets) : Sql3(c, r) # "unknown"
      BY <1>4, <2>8 DEF Exact
    <3>6. NullFree(r) => ((\A c \in ToSet(brackets) : Sql3(c, r) = "true") <=> EntryHolds(e, meant, r))
      BY <1>4, <2>7, <2>8 DEF Exact
    <3>7. QED
      BY <3>1, <3>2, <3>3, <3>4, <3>5, <3>6 DEF PartAgrees
  <2>11. DOMAIN Filter("$and", filters) = {LogicKey(e.key)}
    BY <1>14, <2>1, FilterMatches DEF LogicKey
  <2>12. QED
    BY <2>3, <2>5, <2>9, <2>10, <2>11 DEF PartAgrees, LogicEntryAgrees
<1>15. CASE e.key \in NotKeys
  <2>1. e.key \notin OrKeys /\ e.key \notin AndKeys /\ n = 1
    BY <1>15, KeysDiffer
  <2>2. PICK c : c = Condition("NOT", brackets, Args(brackets))
    OBVIOUS
  <2>3. SqlEntry(e, subs) = Result(<< c >>, SubArgs(subs))
    BY <1>1, <1>8, <1>9, <1>15, <2>1, <2>2 DEF SqlEntry
  <2>4. ToSet(SqlEntry(e, subs).conds) = {c} /\ SqlEntry(e, subs).error = FALSE
    BY <2>3 DEF Result, ToSet
  <2>5. MongoEntry(e, msubs) = Accepted(Filter("$nor", filters))
    BY <1>9, <1>10, <1>11, <1>15, <2>1 DEF MongoEntry
  <2>6. MongoEntry(e, msubs).filter = Filter("$nor", filters) /\ MongoEntry(e, msubs).error = FALSE
    BY <2>5 DEF Accepted
  <2>7. Matches(Filter("$nor", filters), r) <=> ~MongoSelects(filters[1], r)
    <3>1. Matches(Filter("$nor", filters), r) <=> KeyMatches("$nor", filters, r)
      BY FilterMatches
    <3>2. KeyMatches("$nor", filters, r) <=> \A i \in DOMAIN filters : ~MongoSelects(filters[i], r)
      BY DEF KeyMatches
    <3>3. \A i \in DOMAIN filters : i = 1
      BY <1>11, <2>1
    <3>4. QED
      BY <1>7, <1>11, <3>1, <3>2, <3>3
  <2>8. {Sql3(brackets[i], r) : i \in DOMAIN brackets} = {t[1]} /\ t[1] \in Three
    BY <1>6, <1>7, <1>12, <2>1
  <2>9. Truth(c, r) = IF t[1] = "true" THEN "false" ELSE IF t[1] = "false" THEN "true" ELSE "unknown"
    BY <2>2, <2>8, TruthOfNot
  <2>10. Sql3(c, r) = Truth(c, r)
    <3>1. c \in ToSet(SqlEntry(e, subs).conds)
      BY <2>4
    <3>2. QED
      BY <3>1 DEF Evaluated
  <2>11. EntryHolds(e, meant, r) <=> r \notin meant[1]
    <3>1. EntryHolds(e, meant, r) <=> \E i \in 1 .. n : r \notin meant[i]
      BY <1>15, <2>1 DEF EntryHolds
    <3>2. \A i \in 1 .. n : i = 1
      BY <2>1
    <3>3. QED
      BY <1>7, <3>1, <3>2
  <2>12. PICK m \in BOOLEAN : m <=> Matches(Filter("$nor", filters), r)
    OBVIOUS
  <2>13. Agrees(Sql3(c, r), m, kind)
    BY <1>4, <1>7, <1>15, <2>7, <2>8, <2>9, <2>10, <2>12 DEF Agrees, Three
  <2>14. NullFree(r) => Exact(Sql3(c, r), EntryHolds(e, meant, r))
    BY <1>4, <1>7, <2>8, <2>9, <2>10, <2>11 DEF Exact, Three
  <2>15. PartAgrees({c}, m, EntryHolds(e, meant, r), kind, r)
    BY <2>13, <2>14 DEF PartAgrees, Agrees, Exact
  <2>16. DOMAIN Filter("$nor", filters) = {LogicKey(e.key)}
    BY <2>1, FilterMatches DEF LogicKey
  <2>17. QED
    BY <2>4, <2>6, <2>12, <2>15, <2>16 DEF PartAgrees, LogicEntryAgrees
<1>16. QED
  BY <1>13, <1>14, <1>15, KeysDiffer

\* A clause is plain, or even: so it is by itself, and so are the clauses in it.
LEMMA PlainIs ==
    ASSUME NEW w \in Clauses
    PROVE  /\ Plain(w) => PlainHere(w) /\ \A v \in Subclauses(w) : Plain(v)
           /\ Even(w) => EvenHere(w) /\ \A v \in Subclauses(w) : Even(v)
<1>1. Within[w] = {w} \cup UNION {Within[v] : v \in Subclauses(w)}
  BY WithinIs
<1>2. QED
  BY <1>1 DEF Plain, Even

\* The SQL transpiler refuses no plain entry whose subclauses it does not refuse.
LEMMA SqlAccepts ==
    ASSUME NEW e, WellEntry(e), NEW subs, \A j \in DOMAIN subs : ~subs[j].error,
           IF e.key \in Fields THEN PlainOps(e.ops) ELSE e.key \in LogicKeys
    PROVE  /\ ~SqlEntry(e, subs).error
           /\ e.key \in Fields => SqlEntry(e, subs) = SqlField(e.key, e.ops)
<1>1. CASE e.key \in LogicKeys
  <2>1. e.key \notin Fields
    BY <1>1, KeysDiffer
  <2>2. \/ SqlEntry(e, subs) = Nothing
        \/ \E conds, args : SqlEntry(e, subs) = Result(conds, args)
    BY <1>1 DEF SqlEntry
  <2>3. QED
    BY <2>1, <2>2 DEF Nothing, Result
<1>2. CASE e.key \in Fields /\ PlainOps(e.ops)
  <2>1. e.key \notin LogicKeys /\ e.key \notin OrKeys /\ e.key \notin AndKeys /\ e.key \notin NotKeys
    BY <1>2, KeysDiffer
  <2>2. \A op \in DOMAIN e.ops : WellArg(e.ops[op])
    BY DEF WellEntry
  <2>3. ~UnknownOperator(e.ops)
    BY <1>2, <2>2, PlainOpsAre
  <2>4. SqlEntry(e, subs) = SqlField(e.key, e.ops)
    BY <1>2, <2>1, <2>3 DEF SqlEntry
  <2>5. ~SqlField(e.key, e.ops).error
    BY <1>2, <2>2, PlainOpsAre, SqlFieldIs
  <2>6. QED
    BY <2>4, <2>5
<1>3. QED
  BY <1>1, <1>2

\* Results with a key each in their filters, which differ.
HaveKeys(ms, key, n) ==
    /\ DOMAIN ms = 1 .. n
    /\ \A i \in 1 .. n : ~ms[i].error /\ DOMAIN ms[i].filter = {key[i]}
    /\ \A i, j \in 1 .. n : key[i] = key[j] => i = j

\* Such filters are merged without loss.
LEMMA MergedIs ==
    ASSUME NEW n \in Nat, NEW ms, NEW key, HaveKeys(ms, key, n), NEW r
    PROVE  /\ ~Merged(ms).error
           /\ DOMAIN Merged(ms).filter = {key[i] : i \in 1 .. n}
           /\ Matches(Merged(ms).filter, r) <=> \A i \in 1 .. n : Matches(ms[i].filter, r)
<1> DEFINE Writers(k) == {i \in DOMAIN ms : k \in DOMAIN ms[i].filter}
           Latest(k) == CHOOSE i \in Writers(k) : \A j \in Writers(k) : j <= i
<1>0. /\ DOMAIN ms = 1 .. n
      /\ \A i \in 1 .. n : ~ms[i].error /\ DOMAIN ms[i].filter = {key[i]}
      /\ \A i, j \in 1 .. n : key[i] = key[j] => i = j
  BY DEF HaveKeys
<1>1. \A i \in 1 .. n : Writers(key[i]) = {i}
  BY <1>0
<1>2. \A i \in 1 .. n : Latest(key[i]) = i
  <2>1. SUFFICES ASSUME NEW i \in 1 .. n PROVE Latest(key[i]) = i
    OBVIOUS
  <2>2. PICK W : W = Writers(key[i]) /\ W = {i}
    BY <1>1
  <2>3. (CHOOSE k \in W : \A j \in W : j <= k) = i
    BY <2>2
  <2>4. QED
    BY <2>2, <2>3
<1>3. UNION {DOMAIN ms[i].filter : i \in DOMAIN ms} = {key[i] : i \in 1 .. n}
  BY <1>0
<1>4. PICK F : F = [k \in {key[i] : i \in 1 .. n} |-> ms[Latest(k)].filter[k]]
  OBVIOUS
<1>5. Merged(ms) = Accepted(F)
  BY <1>0, <1>3, <1>4 DEF Merged
<1> HIDE DEF Latest
<1>6. DOMAIN F = {key[i] : i \in 1 .. n} /\ \A i \in 1 .. n : F[key[i]] = ms[i].filter[key[i]]
  BY <1>2, <1>4
<1>7. Matches(F, r) <=> \A i \in 1 .. n : KeyMatches(key[i], F[key[i]], r)
  <2>1. Matches(F, r) <=> \A k \in DOMAIN F : KeyMatches(k, F[k], r)
    BY MatchesIs
  <2>2. QED
    BY <1>6, <2>1
<1>8. \A i \in 1 .. n : Matches(ms[i].filter, r) <=> KeyMatches(key[i], F[key[i]], r)
  <2>1. SUFFICES ASSUME NEW i \in 1 .. n
                 PROVE  Matches(ms[i].filter, r) <=> KeyMatches(key[i], F[key[i]], r)
    OBVIOUS
  <2>2. PICK G : G = ms[i].filter
    OBVIOUS
  <2>3. Matches(G, r) <=> \A k \in DOMAIN G : KeyMatches(k, G[k], r)
    BY MatchesIs
  <2>4. DOMAIN G = {key[i]} /\ F[key[i]] = G[key[i]]
    BY <1>0, <1>6, <2>2
  <2>5. QED
    BY <2>2, <2>3, <2>4
<1>9. Merged(ms).filter = F /\ Merged(ms).error = FALSE
  BY <1>5 DEF Accepted
<1>10. QED
  BY <1>6, <1>7, <1>8, <1>9

\* The results for the clauses in an entry, and the rows they are true of.
SqlSubs(e) == [j \in DOMAIN e.items |-> SqlWhere[e.items[j]]]
MongoSubs(e) == [j \in DOMAIN e.items |-> MongoWhere[e.items[j]]]
MeantSubs(e) == [j \in DOMAIN e.items |-> Meant[e.items[j]]]

\* The databases agree on a clause.
ClauseAgrees(w, r) ==
    /\ SubAgrees(SqlWhere[w], MongoWhere[w], Meant[w], KindIf(Even(w)), r)
    /\ SqlSelects(SqlWhere[w], r) <=> Sql3(AllOf(SqlWhere[w].conds), r) = "true"

\* The key of an entry's filter.
FilterKey(e) == IF e.key \in Fields THEN e.key ELSE LogicKey(e.key)

\* They agree on an entry if they agree on the clauses in it.
EntryAgrees(e, kind, r) ==
    /\ ~MongoEntry(e, MongoSubs(e)).error
    /\ DOMAIN MongoEntry(e, MongoSubs(e)).filter = {FilterKey(e)}
    /\ PartAgrees(ToSet(SqlEntry(e, SqlSubs(e)).conds),
                  Matches(MongoEntry(e, MongoSubs(e)).filter, r),
                  EntryHolds(e, MeantSubs(e), r), kind, r)

\* Every entry of a plain clause agrees, if the clauses in the clause do.
LEMMA EntriesAgree ==
    ASSUME NEW w \in Clauses, PlainHere(w), NEW i \in DOMAIN w, NEW r \in Rows,
           \A v \in Subclauses(w) : ClauseAgrees(v, r)
    PROVE  /\ ~SqlEntry(w[i], SqlSubs(w[i])).error
           /\ Evaluated(SqlEntry(w[i], SqlSubs(w[i])), r) => EntryAgrees(w[i], KindIf(Even(w)), r)
<1>0. PICK kind : kind = KindIf(Even(w))
  OBVIOUS
<1>1. PICK e : e = w[i]
  OBVIOUS
<1>2. WellEntry(e) /\ (IF e.key \in Fields THEN PlainOps(e.ops) ELSE e.key \in LogicKeys /\ e.items # << >>)
  BY <1>1, ClausesAreTyped DEF PlainHere
<1>3. PICK n \in Nat : DOMAIN e.items = 1 .. n
  BY <1>1, ClausesAreTyped
<1>4. PICK subs : subs = SqlSubs(e)
  OBVIOUS
<1>5. PICK msubs : msubs = MongoSubs(e)
  OBVIOUS
<1>6. PICK meant : meant = MeantSubs(e)
  OBVIOUS
<1>7. DOMAIN subs = 1 .. n /\ DOMAIN msubs = 1 .. n /\ DOMAIN meant = 1 .. n
  BY <1>3, <1>4, <1>5, <1>6 DEF SqlSubs, MongoSubs, MeantSubs
<1>8. ASSUME NEW j \in 1 .. n
      PROVE  /\ SubAgrees(subs[j], msubs[j], meant[j], kind, r)
             /\ e.key \in NotKeys => SubAgrees(subs[j], msubs[j], meant[j], "even", r)
  <2>1. PICK v : v = e.items[j]
    OBVIOUS
  <2>2. v \in Subclauses(w)
    BY <1>1, <1>3, <2>1, ItemsAreSubclauses
  <2>3. subs[j] = SqlWhere[v] /\ msubs[j] = MongoWhere[v] /\ meant[j] = Meant[v]
    BY <1>3, <1>4, <1>5, <1>6, <2>1 DEF SqlSubs, MongoSubs, MeantSubs
  <2>4. SubAgrees(subs[j], msubs[j], meant[j], KindIf(Even(v)), r)
    BY <2>2, <2>3 DEF ClauseAgrees
  <2>5. kind = "even" => Even(v)
    BY <1>0, <2>2, PlainIs DEF KindIf
  <2>6. e.key \in NotKeys => Even(v)
    <3>1. v \in ToSet(w[i].items)
      BY <1>1, <1>3, <2>1 DEF ToSet
    <3>2. QED
      BY <1>1, <3>1 DEF PlainHere
  <2>7. QED
    BY <2>4, <2>5, <2>6 DEF SubAgrees, Agrees, KindIf
<1>9. \A j \in DOMAIN subs : ~subs[j].error
  BY <1>7, <1>8 DEF SubAgrees
<1>10. ~SqlEntry(e, subs).error /\ (e.key \in Fields => SqlEntry(e, subs) = SqlField(e.key, e.ops))
  BY <1>2, <1>9, SqlAccepts
<1>11. ASSUME Evaluated(SqlEntry(e, subs), r)
       PROVE  EntryAgrees(e, kind, r)
  <2>1. CASE e.key \in Fields
    <3>1. PlainOps(e.ops) /\ \A op \in DOMAIN e.ops : WellArg(e.ops[op])
      BY <1>2, <2>1 DEF WellEntry
    <3>2. r[e.key] \in Int \cup {Null}
      BY <2>1, RowsTyped
    <3>3. PICK f \in Fields : f = e.key
      BY <2>1
    <3>4. PICK ops : ops = e.ops
      OBVIOUS
    <3>5. /\ DOMAIN MongoField(f, ops) = {f}
          /\ PartAgrees(ToSet(SqlField(f, ops).conds), Matches(MongoField(f, ops), r),
                         \A op \in DOMAIN ops : OpHolds(op, r[f], ops[op]), kind, r)
      <4>1. kind = "even" => \A op \in DOMAIN ops : EvenArg(op, ops[op])
        BY <1>0, <1>1, <3>4, PlainIs DEF EvenHere, KindIf
      <4>2. PlainOps(ops) /\ (\A op \in DOMAIN ops : WellArg(ops[op])) /\ r[f] \in Int \cup {Null}
        BY <3>1, <3>2, <3>3, <3>4
      <4>3. Evaluated(SqlField(f, ops), r)
        BY <1>10, <1>11, <2>1, <3>3, <3>4
      <4>4. QED
        BY <4>1, <4>2, <4>3, FieldAgrees
    <3>6. MongoEntry(e, msubs) = Accepted(MongoField(f, ops))
      <4>1. e.key \notin LogicKeys /\ e.key \notin OrKeys /\ e.key \notin AndKeys /\ e.key \notin NotKeys
        BY <2>1, KeysDiffer
      <4>2. ~UnknownOperator(e.ops) /\ ~NoString(e.ops)
        BY <3>1, PlainOpsAre
      <4>3. ~ \E j \in DOMAIN msubs : msubs[j].error
        BY <1>7, <1>8 DEF SubAgrees
      <4>4. QED
        BY <2>1, <3>3, <3>4, <4>1, <4>2, <4>3 DEF MongoEntry
    <3>7. MongoEntry(e, msubs).filter = MongoField(f, ops) /\ MongoEntry(e, msubs).error = FALSE
      BY <3>6 DEF Accepted
    <3>8. EntryHolds(e, meant, r) <=> \A op \in DOMAIN ops : OpHolds(op, r[f], ops[op])
      <4>1. e.key \notin OrKeys /\ e.key \notin AndKeys /\ e.key \notin NotKeys
        BY <2>1, KeysDiffer
      <4>2. QED
        BY <3>3, <3>4, <4>1 DEF EntryHolds
    <3>9. PartAgrees(ToSet(SqlEntry(e, subs).conds), Matches(MongoEntry(e, msubs).filter, r),
                     EntryHolds(e, meant, r), kind, r)
      BY <1>10, <3>3, <3>4, <3>5, <3>7, <3>8 DEF PartAgrees
    <3>10. QED
      BY <1>4, <1>5, <1>6, <2>1, <3>3, <3>5, <3>7, <3>9 DEF EntryAgrees, FilterKey
  <2>2. CASE e.key \notin Fields
    <3>1. e.key \in LogicKeys /\ e.items # << >>
      BY <1>2, <2>2
    <3>2. n > 0
      <4>1. IsSeq(e.items)
        BY <1>2 DEF WellEntry
      <4>2. PICK S : e.items \in Seq(S)
        BY <4>1 DEF IsSeq
      <4>3. Len(e.items) \in Nat \ {0} /\ DOMAIN e.items = 1 .. Len(e.items)
        BY <3>1, <4>2, EmptySeq, LenProperties
      <4>4. QED
        BY <1>3, <4>3
    <3>3. e.key \in NotKeys => n = 1
      <4>1. IsSeq(e.items) /\ (e.key \in NotKeys => Len(e.items) <= 1)
        BY <1>2 DEF WellEntry
      <4>2. PICK S : e.items \in Seq(S)
        BY <4>1 DEF IsSeq
      <4>3. PICK l \in Nat : l = Len(e.items) /\ DOMAIN e.items = 1 .. l
        BY <4>2, LenProperties
      <4>4. n = l
        BY <1>3, <3>2, <4>3
      <4>5. e.key \in NotKeys => l <= 1
        BY <4>1, <4>3
      <4>6. QED
        BY <3>2, <4>4, <4>5
    <3>5. Evaluated(SqlEntry(e, subs), r)
      BY <1>11
    <3>6. /\ ~MongoEntry(e, msubs).error
          /\ DOMAIN MongoEntry(e, msubs).filter = {LogicKey(e.key)}
          /\ PartAgrees(ToSet(SqlEntry(e, subs).conds), Matches(MongoEntry(e, msubs).filter, r),
                        EntryHolds(e, meant, r), kind, r)
      <4>1. e.key \in LogicKeys
        BY <3>1
      <4>2. SubsAgree(e, n, subs, msubs, meant, kind, r)
        BY <1>8 DEF SubsAgree
      <4>3. QED
        <5>1. LogicEntryAgrees(e, subs, msubs, meant, kind, r)
          BY <1>7, <3>2, <3>3, <3>5, <4>1, <4>2, LogicAgrees
        <5>2. QED
          BY <5>1 DEF LogicEntryAgrees
    <3>7. QED
      BY <1>4, <1>5, <1>6, <2>2, <3>6 DEF EntryAgrees, FilterKey
  <2>3. QED
    BY <2>1, <2>2
<1>12. QED
  BY <1>1, <1>4, <1>10, <1>11, <1>0

\* In a plain clause no two entries have the same key in the filter.
LEMMA FilterKeysDiffer ==
    ASSUME NEW w \in Clauses, PlainHere(w), NEW i \in DOMAIN w, NEW j \in DOMAIN w,
           FilterKey(w[i]) = FilterKey(w[j])
    PROVE  i = j
<1>1. w[i].key = w[j].key => i = j
  BY ClausesAreTyped
<1>2. (w[i].key \in Fields \/ w[i].key \in LogicKeys) /\ (w[j].key \in Fields \/ w[j].key \in LogicKeys)
  BY DEF PlainHere
<1>3. \A keys \in {OrKeys, AndKeys, NotKeys} : w[i].key \in keys /\ w[j].key \in keys => i = j
  BY DEF PlainHere
<1>4. /\ w[i].key \in OrKeys /\ w[j].key \in OrKeys => i = j
      /\ w[i].key \in AndKeys /\ w[j].key \in AndKeys => i = j
      /\ w[i].key \in NotKeys /\ w[j].key \in NotKeys => i = j
  BY <1>3
<1>5. QED
  BY <1>1, <1>2, <1>4, KeysDiffer DEF FilterKey, LogicKey

\* On a plain clause the databases agree if they agree on the clauses in it.
LEMMA StepAgrees ==
    ASSUME NEW w \in Clauses, PlainHere(w), NEW r \in Rows,
           \A v \in Subclauses(w) : ClauseAgrees(v, r)
    PROVE  ClauseAgrees(w, r)
<1>0. PICK kind : kind = KindIf(Even(w))
  OBVIOUS
<1>1. PICK n \in Nat : DOMAIN w = 1 .. n
  BY ClausesAreTyped
<1>2. 1 \in 1 .. n
  <2>1. IsSeq(w) /\ w # << >>
    BY ClausesAreTyped DEF PlainHere
  <2>2. PICK S : w \in Seq(S)
    BY <2>1 DEF IsSeq
  <2>3. PICK l \in Nat : l = Len(w) /\ l # 0 /\ DOMAIN w = 1 .. l
    BY <2>1, <2>2, EmptySeq, LenProperties
  <2>4. 1 \in DOMAIN w
    BY <2>3
  <2>5. QED
    BY <1>1, <2>4
<1>3. PICK rs : rs = [i \in 1 .. n |-> SqlEntry(w[i], SqlSubs(w[i]))]
  OBVIOUS
<1>4. PICK ms : ms = [i \in 1 .. n |-> MongoEntry(w[i], MongoSubs(w[i]))]
  OBVIOUS
<1>5. PICK key : key = [i \in 1 .. n |-> FilterKey(w[i])]
  OBVIOUS
<1>6. PICK h : h = [i \in 1 .. n |-> EntryHolds(w[i], MeantSubs(w[i]), r)]
  OBVIOUS
<1>7. SqlWhere[w] = Joined(rs)
  BY <1>1, <1>3, SqlWhereIs DEF SqlSubs
<1>8. MongoWhere[w] = Merged(ms)
  BY <1>1, <1>4, MongoWhereIs DEF MongoSubs
<1>9. r \in Meant[w] <=> \A i \in 1 .. n : h[i]
  <2>1. Meant[w] = {x \in Rows : \A i \in DOMAIN w : EntryHolds(w[i], MeantSubs(w[i]), x)}
    BY MeantIs DEF MeantSubs
  <2>2. QED
    BY <1>1, <1>6, <2>1
<1>10. \A i \in 1 .. n : ~rs[i].error
  BY <1>1, <1>3, EntriesAgree
<1>11. \A i \in 1 .. n : Fits(rs[i])
  <2>1. SUFFICES ASSUME NEW i \in 1 .. n PROVE Fits(rs[i])
    OBVIOUS
  <2>2. i \in DOMAIN w
    BY <1>1
  <2>3. PICK m \in Nat : DOMAIN w[i].items = 1 .. m
    BY <2>2, ClausesAreTyped
  <2>4. PICK subs : subs = SqlSubs(w[i])
    OBVIOUS
  <2>5. DOMAIN subs = 1 .. m
    BY <2>3, <2>4 DEF SqlSubs
  <2>6. \A j \in 1 .. m : Fits(subs[j])
    <3>1. SUFFICES ASSUME NEW j \in 1 .. m PROVE Fits(subs[j])
      OBVIOUS
    <3>2. w[i].items[j] \in Clauses
      BY <2>2, <2>3, ItemsAreSubclauses, ClausesAreNested
    <3>3. subs[j] = SqlWhere[w[i].items[j]]
      BY <2>3, <2>4 DEF SqlSubs
    <3>4. QED
      BY <3>2, <3>3, SqlWhereFits
  <2>7. WellEntry(w[i])
    BY <2>2, ClausesAreTyped
  <2>8. Fits(SqlEntry(w[i], subs))
    BY <2>5, <2>6, <2>7, SqlEntryIs
  <2>9. QED
    BY <1>3, <2>4, <2>8
<1>12. PICK s : s = SqlWhere[w]
  OBVIOUS
<1>13. Fits(s) /\ ~s.error /\ ToSet(s.conds) = UNION {ToSet(rs[i].conds) : i \in 1 .. n}
  <2>1. DOMAIN rs = 1 .. n
    BY <1>3
  <2>2. /\ Fits(Joined(rs))
        /\ Joined(rs).error <=> \E i \in 1 .. n : rs[i].error
        /\ ~Joined(rs).error => ToSet(Joined(rs).conds) = UNION {ToSet(rs[i].conds) : i \in 1 .. n}
    BY <1>11, <2>1, JoinedIs
  <2>3. QED
    BY <1>7, <1>10, <1>12, <2>2
<1>14. PICK C : C = ToSet(s.conds)
  OBVIOUS
<1>15. \A c \in C : Sql3(c, r) = Truth(c, r)
  <2>1. \A i \in DOMAIN s.conds : Sql3(s.conds[i], r) = Truth(s.conds[i], r)
    BY <1>12, SqlLogic
  <2>2. QED
    BY <1>14, <2>1 DEF ToSet
<1>16. \A i \in 1 .. n : EntryAgrees(w[i], kind, r)
  <2>1. SUFFICES ASSUME NEW i \in 1 .. n PROVE EntryAgrees(w[i], kind, r)
    OBVIOUS
  <2>2. i \in DOMAIN w /\ rs[i] = SqlEntry(w[i], SqlSubs(w[i]))
    BY <1>1, <1>3
  <2>3. ToSet(rs[i].conds) \subseteq C
    BY <1>13, <1>14
  <2>4. Evaluated(rs[i], r)
    BY <1>15, <2>3 DEF Evaluated
  <2>5. QED
    BY <1>0, <2>2, <2>4, EntriesAgree
<1>17. \A i \in 1 .. n :
        /\ ~ms[i].error /\ DOMAIN ms[i].filter = {key[i]}
        /\ PartAgrees(ToSet(rs[i].conds), Matches(ms[i].filter, r), h[i], kind, r)
  BY <1>3, <1>4, <1>5, <1>6, <1>16 DEF EntryAgrees
<1>18. \A i, j \in 1 .. n : key[i] = key[j] => i = j
  BY <1>1, <1>5, FilterKeysDiffer
<1>19. PICK F : F = MongoWhere[w].filter
  OBVIOUS
<1>20. /\ ~MongoWhere[w].error /\ DOMAIN F = {key[i] : i \in 1 .. n}
       /\ Matches(F, r) <=> \A i \in 1 .. n : Matches(ms[i].filter, r)
  <2>1. DOMAIN ms = 1 .. n
    BY <1>4
  <2>2. \A i \in 1 .. n : ~ms[i].error /\ DOMAIN ms[i].filter = {key[i]}
    BY <1>17
  <2>3. /\ ~Merged(ms).error /\ DOMAIN Merged(ms).filter = {key[i] : i \in 1 .. n}
        /\ Matches(Merged(ms).filter, r) <=> \A i \in 1 .. n : Matches(ms[i].filter, r)
    <3>1. HaveKeys(ms, key, n)
      BY <1>18, <2>1, <2>2 DEF HaveKeys
    <3>2. QED
      BY <3>1, MergedIs
  <2>4. QED
    BY <1>8, <1>19, <2>3
<1>21. MongoSelects(F, r) <=> Matches(F, r)
  BY <1>19, MongoLogic
<1>22. PICK m \in BOOLEAN : m <=> MongoSelects(F, r)
  OBVIOUS
<1>23. PartAgrees(C, m, r \in Meant[w], kind, r)
  <2>1. C = UNION {ToSet(rs[i].conds) : i \in 1 .. n}
    BY <1>13, <1>14
  <2>2. C # {}
    BY <1>2, <1>17, <2>1 DEF PartAgrees
  <2>3. \A c \in C : Sql3(c, r) \in Three
    BY <1>17, <2>1 DEF PartAgrees
  <2>4. (\A c \in C : Sql3(c, r) = "true") => m
    BY <1>17, <1>20, <1>21, <1>22, <2>1 DEF PartAgrees
  <2>5. kind = "even" => ((\E c \in C : Sql3(c, r) = "false") => ~m)
    BY <1>17, <1>20, <1>21, <1>22, <2>1 DEF PartAgrees
  <2>6. NullFree(r) => \A c \in C : Sql3(c, r) # "unknown"
    BY <1>17, <2>1 DEF PartAgrees
  <2>7. NullFree(r) => ((\A c \in C : Sql3(c, r) = "true") <=> r \in Meant[w])
    BY <1>9, <1>17, <2>1 DEF PartAgrees
  <2>8. QED
    BY <2>2, <2>3, <2>4, <2>5, <2>6, <2>7 DEF PartAgrees
<1>24. PICK t : t = Sql3(AllOf(s.conds), r)
  OBVIOUS
<1>25. t = IF \E c \in C : Sql3(c, r) = "false" THEN "false"
           ELSE IF \E c \in C : Sql3(c, r) = "unknown" THEN "unknown" ELSE "true"
  <2>1. PICK V : V = {Sql3(s.conds[i], r) : i \in DOMAIN s.conds}
    OBVIOUS
  <2>2. Truth(AllOf(s.conds), r) =
            IF "false" \in V THEN "false" ELSE IF "unknown" \in V THEN "unknown" ELSE "true"
    BY <2>1, TruthOfAll
  <2>3. V = {Sql3(c, r) : c \in C}
    BY <1>14, <2>1 DEF ToSet
  <2>4. t = Truth(AllOf(s.conds), r)
    BY <1>12, <1>24, SqlLogic
  <2>5. ("false" \in V <=> \E c \in C : Sql3(c, r) = "false") /\ ("unknown" \in V <=> \E c \in C : Sql3(c, r) = "unknown")
    BY <2>3
  <2>6. QED
    BY <2>2, <2>4, <2>5
<1>26. Agrees(t, m, kind)
  <2>1. t \in Three
    BY <1>25 DEF Three
  <2>2. t = "true" => \A c \in C : Sql3(c, r) = "true"
    BY <1>23, <1>25 DEF PartAgrees, Three
  <2>3. t = "false" => \E c \in C : Sql3(c, r) = "false"
    BY <1>25
  <2>4. QED
    BY <1>23, <2>1, <2>2, <2>3 DEF Agrees, PartAgrees
<1>27. NullFree(r) => Exact(t, r \in Meant[w])
  <2>1. SUFFICES ASSUME NullFree(r) PROVE Exact(t, r \in Meant[w])
    OBVIOUS
  <2>2. \A c \in C : Sql3(c, r) = "true" \/ Sql3(c, r) = "false"
    BY <1>23, <2>1 DEF PartAgrees, Three
  <2>3. t # "unknown" /\ (t = "true" <=> \A c \in C : Sql3(c, r) = "true")
    BY <1>25, <2>2
  <2>4. QED
    BY <1>23, <2>1, <2>3 DEF Exact, PartAgrees
<1>28. DOMAIN F # {}
  BY <1>2, <1>20
<1>29. s.conds # << >>
  BY <1>14, <1>23, IsSeqEmpty DEF PartAgrees
<1>30. SqlSelects(s, r) <=> t = "true"
  <2>1. SqlSelects(s, r) <=> \A c \in C : Sql3(c, r) = "true"
    BY <1>14 DEF SqlSelects, ToSet
  <2>2. \A c \in C : Sql3(c, r) \in Three
    BY <1>23 DEF PartAgrees
  <2>3. QED
    BY <1>25, <2>1, <2>2 DEF Three
<1>31. SubAgrees(s, MongoWhere[w], Meant[w], kind, r)
  BY <1>13, <1>19, <1>20, <1>22, <1>24, <1>26, <1>27, <1>28, <1>29 DEF SubAgrees, Agrees
<1>32. QED
  BY <1>12, <1>24, <1>30, <1>31, <1>0 DEF ClauseAgrees

\* On every plain clause they agree.
LEMMA PlainClauses ==
    ASSUME NEW w \in Clauses, Plain(w), NEW r \in Rows
    PROVE  ClauseAgrees(w, r)
<1> DEFINE B == {v \in Clauses : Plain(v) /\ ~ClauseAgrees(v, r)}
<1>1. SUFFICES ASSUME B # {} PROVE FALSE
  OBVIOUS
<1>2. PICK u \in B : \A v \in Subclauses(u) : v \in Clauses /\ v \notin B
  BY <1>1, ShallowestClause
<1>3. u \in Clauses /\ Plain(u) /\ ~ClauseAgrees(u, r)
  OBVIOUS
<1>4. PlainHere(u) /\ \A v \in Subclauses(u) : Plain(v)
  BY <1>3, PlainIs
<1>5. \A v \in Subclauses(u) : ClauseAgrees(v, r)
  BY <1>2, <1>4
<1>6. QED
  BY <1>3, <1>4, <1>5, StepAgrees
-----------------------------------------------------------------------------
(* What builders make.                                                       *)

\* What can be built by n calls, given what can be by fewer.
Calls == 0 .. CallBound
Itself(n) == n
OneLess(n) == {k \in Calls : n = k + 1}
BuiltStep(n, at) ==
    IF n = 0 THEN {Empty} \cup Maps \cup Conditions ELSE MadeOf(at[n - 1])
OfBuilt == INSTANCE Recursion WITH
    Universe <- Calls, Depth <- Itself, Parts <- OneLess, Step <- BuiltStep

\* The definition of Built, unfolded.
LEMMA BuiltIs ==
    /\ Built[0] = {Empty} \cup Maps \cup Conditions
    /\ \A n \in Nat : n + 1 <= CallBound => Built[n + 1] = MadeOf(Built[n])
<1>1. OfBuilt!Nests
  BY CallBoundTyped DEF OfBuilt!Nests, Calls, Itself, OneLess
<1>2. PICK f : f = [n \in Calls |-> BuiltStep(n, OfBuilt!AtParts(f, n))]
  BY <1>1, OfBuilt!RecursiveFunctionExists
<1>3. \A n \in Calls : n # 0 => OfBuilt!AtParts(f, n)[n - 1] = f[n - 1]
  <2>1. SUFFICES ASSUME NEW n \in Calls, n # 0 PROVE OfBuilt!AtParts(f, n)[n - 1] = f[n - 1]
    OBVIOUS
  <2>2. n - 1 \in OneLess(n)
    BY <2>1, CallBoundTyped DEF OneLess, Calls
  <2>3. QED
    BY <2>2 DEF OfBuilt!AtParts
<1>4. \A n \in Calls : BuiltStep(n, OfBuilt!AtParts(f, n)) =
        IF n = 0 THEN {Empty} \cup Maps \cup Conditions ELSE MadeOf(f[n - 1])
  BY <1>3 DEF BuiltStep
<1>5. f = [n \in Calls |-> IF n = 0 THEN {Empty} \cup Maps \cup Conditions ELSE MadeOf(f[n - 1])]
  BY <1>2, <1>4
<1>6. f = [n \in 0 .. CallBound |-> IF n = 0 THEN {Empty} \cup Maps \cup Conditions ELSE MadeOf(f[n - 1])]
  BY <1>5 DEF Calls
<1>7. Built = [n \in 0 .. CallBound |-> IF n = 0 THEN {Empty} \cup Maps \cup Conditions ELSE MadeOf(Built[n - 1])]
  BY <1>6 DEF Built
<1>8. \A n \in 0 .. CallBound :
        Built[n] = IF n = 0 THEN {Empty} \cup Maps \cup Conditions ELSE MadeOf(Built[n - 1])
  BY <1>7
<1>9. Built[0] = {Empty} \cup Maps \cup Conditions
  BY <1>8, CallBoundTyped
<1>10. ASSUME NEW n \in Nat, n + 1 <= CallBound PROVE Built[n + 1] = MadeOf(Built[n])
  <2>1. n + 1 \in 0 .. CallBound /\ n + 1 # 0 /\ (n + 1) - 1 = n
    BY <1>10, CallBoundTyped
  <2>2. QED
    BY <1>8, <2>1
<1>11. QED
  BY <1>9, <1>10

\* More calls make more, and all of it are clauses.
LEMMA BuiltGrows ==
    ASSUME NEW n \in Nat, NEW m \in Nat, n <= m, m <= CallBound
    PROVE  Built[n] \subseteq Built[m]
<1> DEFINE N == {k \in Nat : n <= k /\ k <= CallBound /\ ~(Built[n] \subseteq Built[k])}
<1>1. SUFFICES ASSUME N # {} PROVE FALSE
  OBVIOUS
<1>2. PICK k \in N : \A j \in N : k <= j
  BY <1>1, OfSql!LeastNatural
<1>3. PICK j \in Nat : k = j + 1 /\ n <= j
  BY <1>2
<1>4. Built[n] \subseteq Built[j]
  BY <1>2, <1>3, CallBoundTyped
<1>5. Built[j] \subseteq Built[k]
  BY <1>2, <1>3, BuiltIs DEF MadeOf
<1>6. QED
  BY <1>2, <1>4, <1>5

\* What so many calls can build is among the clauses.
LEMMA BuiltClauses ==
    ASSUME NEW n \in Nat, n <= CallBound
    PROVE  Built[n] \subseteq Clauses
BY BuiltGrows, BuiltAreClauses, CallBoundTyped

-----------------------------------------------------------------------------
(* A map with layers around it.                                              *)

\* What Inside computes: the map with the first n layers around it, for each n.
Around(layer, w) == << Logic(layer.key, << w >> \o layer.conds) >>
Nesting(f, w, layers, n) == f = [i \in 0 .. n |-> IF i = 0 THEN w ELSE Around(layers[i], f[i - 1])]

\* There is such a function, for every number of layers.
LEMMA NestingExists ==
    ASSUME NEW w, NEW layers
    PROVE  \A n \in Nat : \E f : Nesting(f, w, layers, n)
<1> DEFINE N == {n \in Nat : ~ \E f : Nesting(f, w, layers, n)}
<1>1. SUFFICES ASSUME N # {} PROVE FALSE
  OBVIOUS
<1>2. PICK n \in N : \A k \in N : n <= k
  BY <1>1, OfSql!LeastNatural
<1>3. CASE n = 0
  <2> DEFINE f == [i \in 0 .. 0 |-> w]
  <2>1. f = [i \in 0 .. 0 |-> IF i = 0 THEN w ELSE Around(layers[i], f[i - 1])]
    OBVIOUS
  <2>2. QED
    BY <1>3, <2>1 DEF Nesting
<1>4. CASE n # 0
  <2>1. PICK k \in Nat : n = k + 1
    BY <1>4
  <2>2. PICK f : Nesting(f, w, layers, k)
    BY <1>2, <2>1
  <2> DEFINE g == [i \in 0 .. k + 1 |-> IF i = 0 THEN w ELSE Around(layers[i], f[i - 1])]
  <2>3. \A i \in 0 .. k : i \in 0 .. k + 1 /\ g[i] = f[i]
    BY <2>2 DEF Nesting
  <2>4. \A i \in 0 .. k + 1 : i # 0 => g[i - 1] = f[i - 1]
    <3>1. \A i \in 0 .. k + 1 : i # 0 => i - 1 \in 0 .. k
      OBVIOUS
    <3> HIDE DEF g
    <3>2. QED
      BY <2>3, <3>1
  <2>5. g = [i \in 0 .. k + 1 |-> IF i = 0 THEN w ELSE Around(layers[i], f[i - 1])]
    OBVIOUS
  <2> HIDE DEF g
  <2>6. g = [i \in 0 .. k + 1 |-> IF i = 0 THEN w ELSE Around(layers[i], g[i - 1])]
    BY <2>4, <2>5
  <2>7. QED
    BY <2>1, <2>6 DEF Nesting
<1>5. QED
  BY <1>3, <1>4

\* Two of them agree as far as both go and the layers are the same.
LEMMA NestingsAgree ==
    ASSUME NEW n \in Nat, NEW m \in Nat, n <= m, NEW w, NEW ls, NEW ms, Same(ls, ms, n),
           NEW f, Nesting(f, w, ls, n), NEW g, Nesting(g, w, ms, m)
    PROVE  f[n] = g[n]
<1> DEFINE N == {i \in 0 .. n : f[i] # g[i]}
<1>1. SUFFICES ASSUME N # {} PROVE FALSE
  BY DEF Same
<1>2. N \in SUBSET Nat
  OBVIOUS
<1>3. PICK i \in N : \A k \in N : i <= k
  BY <1>1, <1>2, OfSql!LeastNatural
<1>4. i \in 0 .. n /\ i \in 0 .. m /\ f[i] # g[i]
  OBVIOUS
<1>5. /\ f[i] = IF i = 0 THEN w ELSE Around(ls[i], f[i - 1])
      /\ g[i] = IF i = 0 THEN w ELSE Around(ms[i], g[i - 1])
  BY <1>4 DEF Nesting
<1>6. CASE i = 0
  BY <1>4, <1>5, <1>6
<1>7. CASE i # 0
  <2>1. i - 1 \in 0 .. n /\ ~(i <= i - 1) /\ i \in 1 .. n
    BY <1>4, <1>7
  <2>2. i - 1 \notin N
    BY <1>3, <2>1
  <2>3. f[i - 1] = g[i - 1]
    BY <2>1, <2>2
  <2>4. QED
    BY <1>4, <1>5, <1>7, <2>1, <2>3 DEF Same
<1>8. QED
  BY <1>6, <1>7

\* Inside is the last of them.
LEMMA InsideIs ==
    ASSUME NEW w, NEW T, NEW ls \in Seq(T)
    PROVE  \E f : Nesting(f, w, ls, Len(ls)) /\ Inside(w, ls) = f[Len(ls)]
<1> DEFINE g == CHOOSE g : g = [i \in 0 .. Len(ls) |->
                  IF i = 0 THEN w ELSE << Logic(ls[i].key, << g[i - 1] >> \o ls[i].conds) >>]
<1>1. Len(ls) \in Nat
  BY LenProperties
<1>2. PICK f : Nesting(f, w, ls, Len(ls))
  BY <1>1, NestingExists
<1>3. f = [i \in 0 .. Len(ls) |-> IF i = 0 THEN w ELSE << Logic(ls[i].key, << f[i - 1] >> \o ls[i].conds) >>]
  BY <1>2 DEF Nesting, Around
<1>4. g = [i \in 0 .. Len(ls) |-> IF i = 0 THEN w ELSE << Logic(ls[i].key, << g[i - 1] >> \o ls[i].conds) >>]
  BY <1>3
<1>5. Inside(w, ls) = g[Len(ls)]
  BY DEF Inside
<1> HIDE DEF g
<1>6. Nesting(g, w, ls, Len(ls))
  BY <1>4 DEF Nesting, Around
<1>7. QED
  BY <1>5, <1>6

\* Without layers it is the map.
LEMMA InsideNothing == ASSUME NEW w PROVE Inside(w, << >>) = w
<1>1. << >> \in Seq({}) /\ Len(<< >>) = 0
  OBVIOUS
<1>2. PICK f : Nesting(f, w, << >>, 0) /\ Inside(w, << >>) = f[0]
  BY <1>1, InsideIs
<1>3. f[0] = w
  BY <1>2 DEF Nesting
<1>4. QED
  BY <1>2, <1>3

\* The last layer is around what is inside the others.
LEMMA InsideLonger ==
    ASSUME NEW w, NEW T, NEW ls \in Seq(T), NEW ms \in Seq(T),
           Len(ms) = Len(ls) + 1, Same(ls, ms, Len(ls))
    PROVE  Inside(w, ms) = Around(ms[Len(ms)], Inside(w, ls))
<1>1. PICK n \in Nat : n = Len(ls) /\ Len(ms) = n + 1
  BY LenProperties
<1>2. PICK f : Nesting(f, w, ls, n) /\ Inside(w, ls) = f[n]
  BY <1>1, InsideIs
<1>3. PICK g : Nesting(g, w, ms, n + 1) /\ Inside(w, ms) = g[n + 1]
  <2>1. \E g : Nesting(g, w, ms, Len(ms)) /\ Inside(w, ms) = g[Len(ms)]
    BY InsideIs
  <2>2. QED
    BY <1>1, <2>1
<1>4. g[n + 1] = Around(ms[n + 1], g[n])
  <2>1. n + 1 \in 0 .. n + 1 /\ n + 1 # 0 /\ (n + 1) - 1 = n
    BY <1>1
  <2>2. QED
    BY <1>3, <2>1 DEF Nesting
<1>5. f[n] = g[n]
  <2>1. n + 1 \in Nat /\ n <= n + 1 /\ Same(ls, ms, n)
    BY <1>1
  <2>2. QED
    BY <1>2, <1>3, <2>1, NestingsAgree
<1>6. QED
  BY <1>1, <1>2, <1>3, <1>4, <1>5

\* Layers, as calls make them.
Layers == Seq([key : ListKeys, conds : Seq(Conditions)])

\* One more layer wraps what there was.
LEMMA Enclosing ==
    ASSUME NEW w, NEW ls \in Layers, NEW key \in ListKeys, NEW c \in Conditions
    PROVE  /\ Append(ls, Layer(key, << c >>)) \in Layers
           /\ Inside(w, Append(ls, Layer(key, << c >>))) = Wrapped(Inside(w, ls), key, c)
<1>1. PICK T : T = [key : ListKeys, conds : Seq(Conditions)]
  OBVIOUS
<1>2. PICK l : l = Layer(key, << c >>)
  OBVIOUS
<1>3. l \in T /\ l.key = key /\ l.conds = << c >>
  BY <1>1, <1>2 DEF Layer
<1>4. PICK ms : ms = Append(ls, l)
  OBVIOUS
<1>5. ls \in Seq(T)
  BY <1>1 DEF Layers
<1>6. ms \in Seq(T) /\ Len(ms) = Len(ls) + 1 /\ Len(ls) \in Nat
  BY <1>3, <1>4, <1>5, AppendProperties, LenProperties
<1>7. Same(ls, ms, Len(ls)) /\ ms[Len(ms)] = l
  BY <1>3, <1>4, <1>5, <1>6, AppendProperties DEF Same
<1>8. Inside(w, ms) = Around(l, Inside(w, ls))
  BY <1>5, <1>6, <1>7, InsideLonger
<1>9. ASSUME NEW y PROVE << y >> \o << c >> = << y, c >>
  <2>1. << y >> \in Seq({y, c}) /\ << c >> \in Seq({y, c}) /\ << y, c >> \in Seq({y, c})
    OBVIOUS
  <2>2. PICK s : s = << y >> \o << c >>
    OBVIOUS
  <2>3. s \in Seq({y, c}) /\ Len(s) = 2 /\ s[1] = y /\ s[2] = c
    BY <2>1, <2>2, ConcatProperties
  <2>4. PICK t : t = << y, c >>
    OBVIOUS
  <2>5. t \in Seq({y, c}) /\ Len(t) = 2 /\ t[1] = y /\ t[2] = c
    BY <2>1, <2>4
  <2>6. \A i \in 1 .. Len(s) : s[i] = t[i]
    BY <2>3, <2>5
  <2>7. s = t
    BY <2>3, <2>5, <2>6, SeqEqual
  <2>8. QED
    BY <2>2, <2>4, <2>7
<1>10. PICK x : x = Inside(w, ls)
  OBVIOUS
<1>11. Around(l, x) = Wrapped(x, key, c)
  BY <1>3, <1>9, <1>10 DEF Around, Wrapped
<1>12. Inside(w, ms) = Wrapped(Inside(w, ls), key, c)
  BY <1>8, <1>10, <1>11
<1>13. QED
  BY <1>1, <1>2, <1>4, <1>6, <1>12 DEF Layers

\* One more condition in the last layer extends its list, which is all at the top.
Lengthened(ls, n, c) == [ls EXCEPT ![n] = Layer(ls[n].key, Append(@.conds, c))]

\* It is a list of layers again, and the list of conditions at the top is one longer.
LEMMA Lengthening ==
    ASSUME NEW w, NEW ls \in Layers, NEW c \in Conditions, NEW n \in Nat, n = Len(ls), n # 0,
           NEW ms, ms = Lengthened(ls, n, c)
    PROVE  /\ ms \in Layers
           /\ ls[n].key \in ListKeys
           /\ KeysOf(Inside(w, ls)) = {ls[n].key} /\ DOMAIN Inside(w, ls) = {1}
           /\ Inside(w, ms) = Extended(Inside(w, ls), ls[n].key, c)
<1>1. PICK T : T = [key : ListKeys, conds : Seq(Conditions)]
  OBVIOUS
<1>2. ls \in Seq(T) /\ n \in 1 .. Len(ls)
  BY <1>1 DEF Layers
<1>3. PICK key : key = ls[n].key
  OBVIOUS
<1>4. PICK conds : conds = ls[n].conds
  OBVIOUS
<1>5. ls[n] \in T
  BY <1>2, ElementOfSeq
<1>6. key \in ListKeys /\ conds \in Seq(Conditions)
  BY <1>1, <1>3, <1>4, <1>5
<1>7. PICK l : l = Layer(key, Append(conds, c))
  OBVIOUS
<1>8. l \in T /\ l.key = key /\ l.conds = Append(conds, c)
  BY <1>1, <1>6, <1>7, AppendProperties DEF Layer
<1>9. ms = [ls EXCEPT ![n] = l]
  BY <1>3, <1>4, <1>7 DEF Lengthened
<1>10. /\ ms \in Seq(T) /\ Len(ms) = n
       /\ \A j \in 1 .. n : ms[j] = IF j = n THEN l ELSE ls[j]
  BY <1>2, <1>8, <1>9, ExceptSeq
<1>11. PICK k \in Nat : n = k + 1
  OBVIOUS
<1>12. PICK ks : ks = [j \in 1 .. k |-> ls[j]]
  OBVIOUS
<1>13. ks \in Seq(T) /\ Len(ks) = k
  <2>1. \A j \in 1 .. k : ls[j] \in T
    <3>1. \A j \in 1 .. k : j \in 1 .. Len(ls)
      BY <1>11
    <3>2. QED
      BY <1>2, <3>1, ElementOfSeq
  <2>2. ks \in [1 .. k -> T]
    BY <1>12, <2>1
  <2>3. ks \in Seq(T)
    BY <2>2, SeqDef
  <2>4. DOMAIN ks = 1 .. k /\ DOMAIN ks = 1 .. Len(ks) /\ Len(ks) \in Nat
    BY <1>12, <2>3, LenProperties
  <2>5. PICK m \in Nat : m = Len(ks) /\ DOMAIN ks = 1 .. m
    BY <2>4
  <2>6. (k = 0 \/ k \in 1 .. m) /\ (m = 0 \/ m \in 1 .. k)
    BY <2>4, <2>5
  <2>7. QED
    BY <2>3, <2>5, <2>6
<1>14. Same(ks, ls, k) /\ Same(ks, ms, k)
  BY <1>10, <1>11, <1>12 DEF Same
<1>15. PICK x : x = Inside(w, ks)
  OBVIOUS
<1>16. Inside(w, ls) = Around(ls[n], x)
  BY <1>2, <1>11, <1>13, <1>14, <1>15, InsideLonger
<1>17. Inside(w, ms) = Around(l, x)
  <2>1. ms[n] = l
    BY <1>10, <1>11
  <2>2. QED
    BY <1>10, <1>11, <1>13, <1>14, <1>15, <2>1, InsideLonger
<1>18. Inside(w, ls) = << Logic(key, << x >> \o conds) >>
  BY <1>3, <1>4, <1>16 DEF Around
<1>19. Inside(w, ms) = << Logic(key, << x >> \o Append(conds, c)) >>
  BY <1>8, <1>17 DEF Around
<1>20. << x >> \o Append(conds, c) = Append(<< x >> \o conds, c)
  <2>1. PICK S : S = Conditions \cup {x}
    OBVIOUS
  <2>2. conds \in Seq(S) /\ << x >> \in Seq(S) /\ << c >> \in Seq(S) /\ c \in S
    BY <1>6, <2>1
  <2>3. Append(conds, c) = conds \o << c >>
    BY <2>2, AppendIsConcat
  <2>4. << x >> \o conds \in Seq(S)
    BY <2>2, ConcatProperties
  <2>5. Append(<< x >> \o conds, c) = (<< x >> \o conds) \o << c >>
    BY <2>2, <2>4, AppendIsConcat
  <2>6. (<< x >> \o conds) \o << c >> = << x >> \o (conds \o << c >>)
    BY <2>2, ConcatAssociative
  <2>7. QED
    BY <2>3, <2>5, <2>6
<1>21. PICK v : v = << Logic(key, << x >> \o conds) >>
  OBVIOUS
<1>22. DOMAIN v = {1} /\ v[1].key = key /\ v[1].items = << x >> \o conds
  BY <1>21 DEF Logic
<1>23. Extended(v, key, c) = [i \in {1} |-> Logic(key, Append(<< x >> \o conds, c))]
  BY <1>22 DEF Extended
<1>24. Extended(v, key, c) = << Logic(key, Append(<< x >> \o conds, c)) >>
  BY <1>23
<1>25. KeysOf(v) = {key}
  BY <1>22 DEF KeysOf
<1>26. QED
  BY <1>1, <1>3, <1>6, <1>10, <1>18, <1>19, <1>20, <1>21, <1>22, <1>24, <1>25 DEF Layers

\* What a list means.
LEMMA MeantOfList ==
    ASSUME NEW key \in ListKeys, NEW ops, NEW n \in Nat, NEW meant, DOMAIN meant = 1 .. n, NEW r
    PROVE  EntryHolds(Logic(key, ops), meant, r) <=>
             IF key = "or" THEN \E j \in 1 .. n : r \in meant[j] ELSE \A j \in 1 .. n : r \in meant[j]
<1>1. Logic(key, ops).key = key
  BY DEF Logic
<1>2. CASE key = "or"
  BY <1>1, <1>2 DEF EntryHolds, OrKeys, AndKeys, NotKeys
<1>3. CASE key = "and"
  BY <1>1, <1>3 DEF EntryHolds, OrKeys, AndKeys, NotKeys
<1>4. QED
  BY <1>2, <1>3 DEF ListKeys

\* What a call adds to what a clause means.
With(key, rows, more) == IF key = "or" THEN rows \cup more ELSE rows \cap more

\* A wrapped clause means the clause and the condition.
LEMMA MeantOfWrapped ==
    ASSUME NEW w \in Clauses, NEW c \in Clauses, NEW key \in ListKeys, Wrapped(w, key, c) \in Clauses
    PROVE  Meant[Wrapped(w, key, c)] = With(key, Meant[w], Meant[c])
<1>1. PICK v : v = Wrapped(w, key, c)
  OBVIOUS
<1>2. PICK e : e = Logic(key, << w, c >>)
  OBVIOUS
<1>3. DOMAIN v = {1} /\ v[1] = e /\ e.items = << w, c >>
  BY <1>1, <1>2 DEF Wrapped, Logic
<1>4. PICK meant : meant = [j \in DOMAIN e.items |-> Meant[e.items[j]]]
  OBVIOUS
<1>5. DOMAIN meant = 1 .. 2 /\ meant[1] = Meant[w] /\ meant[2] = Meant[c]
  BY <1>3, <1>4
<1>6. Meant[v] = {r \in Rows : EntryHolds(e, meant, r)}
  <2>1. Meant[v] = {r \in Rows : \A i \in DOMAIN v :
                       EntryHolds(v[i], [j \in DOMAIN v[i].items |-> Meant[v[i].items[j]]], r)}
    BY <1>1, MeantIs
  <2>2. QED
    BY <1>3, <1>4, <2>1
<1>7. Meant[w] \subseteq Rows /\ Meant[c] \subseteq Rows
  BY MeantIs
<1>8. \A r : EntryHolds(e, meant, r) <=>
          IF key = "or" THEN \E j \in 1 .. 2 : r \in meant[j] ELSE \A j \in 1 .. 2 : r \in meant[j]
  BY <1>2, <1>5, MeantOfList
<1>9. \A r : EntryHolds(e, meant, r) <=> r \in With(key, Meant[w], Meant[c])
  <2>1. \A r : (\E j \in 1 .. 2 : r \in meant[j]) <=> r \in Meant[w] \/ r \in Meant[c]
    BY <1>5
  <2>2. \A r : (\A j \in 1 .. 2 : r \in meant[j]) <=> r \in Meant[w] /\ r \in Meant[c]
    BY <1>5
  <2>3. QED
    BY <1>8, <2>1, <2>2 DEF With
<1>10. With(key, Meant[w], Meant[c]) \subseteq Rows
  BY <1>7 DEF With
<1>11. QED
  BY <1>1, <1>6, <1>9, <1>10

\* What a clause with one condition more means, if the list is all there is where it
\* is of alternatives.
LEMMA MeantOfExtended ==
    ASSUME NEW w \in Clauses, NEW c \in Clauses, NEW key \in ListKeys, Extended(w, key, c) \in Clauses,
           NEW k \in DOMAIN w, w[k].key = key, key = "or" => DOMAIN w = {k}
    PROVE  Meant[Extended(w, key, c)] = With(key, Meant[w], Meant[c])
<1>1. PICK v : v = Extended(w, key, c)
  OBVIOUS
<1>2. PICK e : e = Logic(key, Append(w[k].items, c))
  OBVIOUS
<1>3. \A i \in DOMAIN w : w[i].key = key <=> i = k
  BY ClausesAreTyped
<1>4. DOMAIN v = DOMAIN w /\ v[k] = e /\ \A i \in DOMAIN w : i # k => v[i] = w[i]
  BY <1>1, <1>2, <1>3 DEF Extended
<1>5. PICK items : items = w[k].items
  OBVIOUS
<1>6. PICK n \in Nat : DOMAIN items = 1 .. n /\ Len(items) = n /\ items \in Seq(ToSet(items))
  <2>1. IsSeq(items)
    BY <1>5, ClausesAreTyped DEF WellEntry
  <2>2. items \in Seq(ToSet(items))
    BY <2>1 DEF IsSeq
  <2>3. QED
    BY <2>2, LenProperties
<1>7. PICK more : more = e.items
  OBVIOUS
<1>8. DOMAIN more = 1 .. n + 1 /\ more[n + 1] = c /\ \A j \in 1 .. n : more[j] = items[j]
  <2>1. PICK S : S = ToSet(items) \cup {c}
    OBVIOUS
  <2>2. items \in Seq(S) /\ c \in S
    BY <1>6, <2>1, SeqMonotonic
  <2>3. more = Append(items, c)
    BY <1>2, <1>5, <1>7 DEF Logic
  <2>4. more \in Seq(S) /\ Len(more) = n + 1
    BY <1>6, <2>2, <2>3, AppendProperties
  <2>5. DOMAIN more = 1 .. n + 1
    BY <2>4, LenProperties
  <2>6. more[n + 1] = c /\ \A j \in 1 .. n : more[j] = items[j]
    BY <1>6, <2>2, <2>3, AppendProperties
  <2>7. QED
    BY <2>5, <2>6
<1>9. PICK old : old = [j \in 1 .. n |-> Meant[items[j]]]
  OBVIOUS
<1>10. PICK new : new = [j \in 1 .. n + 1 |-> Meant[more[j]]]
  OBVIOUS
<1>11. new[n + 1] = Meant[c] /\ \A j \in 1 .. n : new[j] = old[j]
  BY <1>8, <1>9, <1>10
<1>12. w[k].key = key
  OBVIOUS
<1>13. \A r : EntryHolds(w[k], old, r) <=>
           IF key = "or" THEN \E j \in 1 .. n : r \in old[j] ELSE \A j \in 1 .. n : r \in old[j]
  <2>1. DOMAIN old = 1 .. n
    BY <1>9
  <2>2. key = "or" \/ key = "and"
    BY DEF ListKeys
  <2>3. QED
    BY <1>12, <2>1, <2>2 DEF EntryHolds, OrKeys, AndKeys, NotKeys
<1>14. \A r : EntryHolds(e, new, r) <=>
           IF key = "or" THEN \E j \in 1 .. n + 1 : r \in new[j] ELSE \A j \in 1 .. n + 1 : r \in new[j]
  BY <1>2, <1>10, MeantOfList
<1>15. \A r : EntryHolds(e, new, r) <=>
           IF key = "or" THEN EntryHolds(w[k], old, r) \/ r \in Meant[c]
           ELSE EntryHolds(w[k], old, r) /\ r \in Meant[c]
  <2>1. \A j : j \in 1 .. n + 1 <=> j \in 1 .. n \/ j = n + 1
    OBVIOUS
  <2>2. \A r : (\E j \in 1 .. n + 1 : r \in new[j]) <=> (\E j \in 1 .. n : r \in old[j]) \/ r \in Meant[c]
    BY <1>11, <2>1
  <2>3. \A r : (\A j \in 1 .. n + 1 : r \in new[j]) <=> (\A j \in 1 .. n : r \in old[j]) /\ r \in Meant[c]
    BY <1>11, <2>1
  <2>4. QED
    BY <1>13, <1>14, <2>2, <2>3
<1>16. PICK rest : rest = [i \in DOMAIN w |-> [j \in DOMAIN w[i].items |-> Meant[w[i].items[j]]]]
  OBVIOUS
<1>17. rest[k] = old
  BY <1>5, <1>6, <1>9, <1>16
<1>18. Meant[w] = {r \in Rows : \A i \in DOMAIN w : EntryHolds(w[i], rest[i], r)}
  BY <1>16, MeantIs
<1>19. Meant[v] = {r \in Rows : EntryHolds(e, new, r) /\ \A i \in DOMAIN w : i # k => EntryHolds(w[i], rest[i], r)}
  <2>1. Meant[v] = {r \in Rows : \A i \in DOMAIN v :
                       EntryHolds(v[i], [j \in DOMAIN v[i].items |-> Meant[v[i].items[j]]], r)}
    BY <1>1, MeantIs
  <2>2. [j \in DOMAIN v[k].items |-> Meant[v[k].items[j]]] = new
    BY <1>4, <1>7, <1>8, <1>10
  <2>3. \A i \in DOMAIN w : i # k => [j \in DOMAIN v[i].items |-> Meant[v[i].items[j]]] = rest[i]
    BY <1>4, <1>16
  <2>4. PICK at : at = [i \in DOMAIN v |-> [j \in DOMAIN v[i].items |-> Meant[v[i].items[j]]]]
    OBVIOUS
  <2>5. Meant[v] = {r \in Rows : \A i \in DOMAIN v : EntryHolds(v[i], at[i], r)}
    BY <2>1, <2>4
  <2>6. at[k] = new /\ \A i \in DOMAIN w : i # k => at[i] = rest[i]
    BY <1>4, <2>2, <2>3, <2>4
  <2>7. \A r : (\A i \in DOMAIN v : EntryHolds(v[i], at[i], r))
                 <=> EntryHolds(e, new, r) /\ \A i \in DOMAIN w : i # k => EntryHolds(w[i], rest[i], r)
    BY <1>4, <2>6
  <2>8. QED
    BY <2>5, <2>7
<1>20. Meant[c] \subseteq Rows
  BY MeantIs
<1>21. \A r \in Rows : r \in Meant[v] <=> r \in With(key, Meant[w], Meant[c])
  <2>1. SUFFICES ASSUME NEW r \in Rows PROVE r \in Meant[v] <=> r \in With(key, Meant[w], Meant[c])
    OBVIOUS
  <2>2. PICK others \in BOOLEAN : others <=> \A i \in DOMAIN w : i # k => EntryHolds(w[i], rest[i], r)
    OBVIOUS
  <2>3. PICK it \in BOOLEAN : it <=> EntryHolds(w[k], old, r)
    OBVIOUS
  <2>4. r \in Meant[w] <=> it /\ others
    BY <1>17, <1>18, <2>2, <2>3
  <2>5. r \in Meant[v] <=> EntryHolds(e, new, r) /\ others
    BY <1>19, <2>2
  <2>6. key = "or" => others
    BY <2>2
  <2>7. QED
    BY <1>15, <2>3, <2>4, <2>5, <2>6 DEF With
<1>22. Meant[v] \subseteq Rows /\ With(key, Meant[w], Meant[c]) \subseteq Rows
  BY <1>18, <1>19, <1>20 DEF With
<1>23. QED
  BY <1>1, <1>21, <1>22

\* The same keys in the same places.
Alike(v, w) == DOMAIN v = DOMAIN w /\ \A i \in DOMAIN w : v[i].key = w[i].key

\* One condition more changes none.
LEMMA ExtendedIsAlike ==
    ASSUME NEW w, NEW key, NEW c
    PROVE  Alike(Extended(w, key, c), w)
BY DEF Alike, Extended, Logic

\* So what a map has beside its keys can be read off what it began as.
LEMMA AlikeHave ==
    ASSUME NEW u, NEW v, NEW w, Alike(u, v), Alike(v, w)
    PROVE  Alike(u, w) /\ KeysOf(u) = KeysOf(w)
<1>1. Alike(u, w)
  BY DEF Alike
<1>2. QED
  BY <1>1 DEF Alike, KeysOf

(* What a query's Where is.                                                *)

IsWhere(h) == h = Where(h.map, h.around) /\ h.around \in Layers
BaseOf(h, m) == IF h.map = CallersMap THEN m ELSE h.map

\* A condition in the layers, or one layer more: around any map it wraps or extends
\* what there was.
Wraps(ls, ms, key, c) == \A y : Inside(y, ms) = Wrapped(Inside(y, ls), key, c)
Extends(ls, ms, key, c) ==
    \A y : /\ Inside(y, ms) = Extended(Inside(y, ls), key, c)
           /\ KeysOf(Inside(y, ls)) = {key} /\ DOMAIN Inside(y, ls) = {1}

\* What Added does: extend a map that is the query's own, or something in the
\* layers.
LEMMA AddedIs ==
    ASSUME NEW h, IsWhere(h), NEW key \in ListKeys, NEW c \in Conditions,
           NEW a, a = Added(h, key, c)
    PROVE  \/ /\ h.around = << >> /\ h.map # CallersMap /\ key \in KeysOf(h.map)
              /\ a = Just(Extended(h.map, key, c))
           \/ /\ IsWhere(a) /\ a.map = h.map
              /\ Wraps(h.around, a.around, key, c) \/ Extends(h.around, a.around, key, c)
<1>1. PICK T : T = [key : ListKeys, conds : Seq(Conditions)]
  OBVIOUS
<1>2. PICK ls \in Layers : ls = h.around
  BY DEF IsWhere
<1>3. PICK n \in Nat : n = Len(ls) /\ (ls # << >> => n # 0)
  BY <1>1, LenProperties, EmptySeq DEF Layers
<1>4. CASE n = 0 /\ h.map # CallersMap /\ key \in KeysOf(h.map)
  BY <1>2, <1>3, <1>4 DEF Added
<1>5. CASE n # 0 /\ ls[n].key = key
  <2>1. PICK ms : ms = Lengthened(ls, n, c)
    OBVIOUS
  <2>2. a = Where(h.map, ms)
    <3>1. ms = [ls EXCEPT ![n] = Layer(key, Append(@.conds, c))]
      BY <1>5, <2>1 DEF Lengthened
    <3>2. Len(h.around) = n /\ n > 0 /\ n # 0 /\ h.around = ls /\ h.around[n].key = key
      BY <1>2, <1>3, <1>5
    <3>3. a = Where(h.map, [h.around EXCEPT ![n] = Layer(key, Append(@.conds, c))])
      BY <3>2 DEF Added
    <3>4. QED
      BY <3>1, <3>2, <3>3
  <2>3. /\ ms \in Layers
        /\ \A y : /\ KeysOf(Inside(y, ls)) = {key} /\ DOMAIN Inside(y, ls) = {1}
                  /\ Inside(y, ms) = Extended(Inside(y, ls), key, c)
    <3>1. n = Len(ls) /\ n # 0 /\ ls[n].key = key
      BY <1>3, <1>5
    <3>2. ASSUME NEW y
          PROVE  /\ ms \in Layers
                 /\ KeysOf(Inside(y, ls)) = {ls[n].key} /\ DOMAIN Inside(y, ls) = {1}
                 /\ Inside(y, ms) = Extended(Inside(y, ls), ls[n].key, c)
      BY <2>1, <3>1, Lengthening
    <3>3. ms \in Layers
      BY <3>2
    <3>4. QED
      BY <3>1, <3>2, <3>3
  <2>4. a.map = h.map /\ a.around = ms
    BY <2>2 DEF Where
  <2>5. QED
    BY <1>2, <2>2, <2>3, <2>4 DEF IsWhere, Extends
<1>6. CASE /\ ~(n = 0 /\ h.map # CallersMap /\ key \in KeysOf(h.map))
           /\ ~(n # 0 /\ ls[n].key = key)
  <2>1. PICK ms : ms = Append(ls, Layer(key, << c >>))
    OBVIOUS
  <2>2. a = Where(h.map, ms)
    BY <1>2, <1>3, <1>6, <2>1 DEF Added
  <2>3. ms \in Layers /\ \A y : Inside(y, ms) = Wrapped(Inside(y, ls), key, c)
    BY <2>1, Enclosing
  <2>4. a.map = h.map /\ a.around = ms
    BY <2>2 DEF Where
  <2>5. QED
    BY <1>2, <2>2, <2>3, <2>4 DEF IsWhere, Wraps
<1>7. QED
  BY <1>4, <1>5, <1>6

\* A map alone is a Where.
LEMMA JustIs ==
    ASSUME NEW w
    PROVE  IsWhere(Just(w)) /\ Just(w).map = w /\ Just(w).around = << >>
<1>1. << >> \in Layers
  BY DEF Layers
<1>2. QED
  BY <1>1 DEF Just, Where, IsWhere

\* Layers that it takes so many calls to make.
Takes(ls, o) ==
    \A j \in Nat : j + o <= CallBound => \A y \in Built[j] : Inside(y, ls) \in Built[j + o]

\* No layers take no call.
LEMMA TakesNothing == Takes(<< >>, 0)
<1>1. \A j \in Nat : j + 0 = j
  OBVIOUS
<1>2. QED
  BY <1>1, InsideNothing DEF Takes

\* One call more makes what can be made of it.
LEMMA TakesMore ==
    ASSUME NEW ls, NEW o \in Nat, Takes(ls, o), NEW ms, NEW key \in ListKeys, NEW c \in Conditions,
           Wraps(ls, ms, key, c) \/ Extends(ls, ms, key, c)
    PROVE  Takes(ms, o + 1)
<1>1. SUFFICES ASSUME NEW j \in Nat, j + (o + 1) <= CallBound, NEW y \in Built[j]
               PROVE  Inside(y, ms) \in Built[j + (o + 1)]
  BY DEF Takes
<1>2. PICK n \in Nat : n = j + o
  OBVIOUS
<1>3. n <= CallBound /\ n + 1 <= CallBound /\ j + (o + 1) = n + 1
  BY <1>1, <1>2, CallBoundTyped
<1>4. PICK x : x = Inside(y, ls)
  OBVIOUS
<1>5. x \in Built[n]
  BY <1>2, <1>3, <1>4 DEF Takes
<1>6. Inside(y, ms) = Wrapped(x, key, c) \/ Inside(y, ms) = Extended(x, key, c)
  BY <1>4 DEF Wraps, Extends
<1>7. Built[n + 1] = MadeOf(Built[n])
  BY <1>3, BuiltIs
<1>8. QED
  BY <1>3, <1>5, <1>6, <1>7 DEF MadeOf

\* What n calls can make of a query's Where, if the caller's map is one that k can
\* make.
Reached(h, k, n) ==
    /\ IsWhere(h)
    /\ h.map = Nil => h = NoWhere
    /\ h.map # Nil =>
         \E j, o \in Nat : /\ Takes(h.around, o) /\ j + o <= n
                           /\ IF h.map = CallersMap THEN j = k ELSE h.map \in Built[j]

\* What a query that has come so far holds is a clause that so many calls build, and
\* so is the map it began with.
LEMMA ReachedIsBuilt ==
    ASSUME NEW n \in Nat, n <= CallBound, NEW k \in Nat, k <= n, NEW m \in Built[k],
           NEW h, Reached(h, k, n), h.map # Nil
    PROVE  /\ Inside(BaseOf(h, m), h.around) \in Built[n]
           /\ BaseOf(h, m) \in Built[n]
<1>1. PICK j, o \in Nat : /\ Takes(h.around, o) /\ j + o <= n
                          /\ IF h.map = CallersMap THEN j = k ELSE h.map \in Built[j]
  BY DEF Reached
<1>2. PICK y : y = BaseOf(h, m)
  OBVIOUS
<1>3. y \in Built[j]
  BY <1>1, <1>2 DEF BaseOf
<1>4. j + o <= CallBound /\ j <= n /\ j + o \in Nat
  BY <1>1, CallBoundTyped
<1>5. Inside(y, h.around) \in Built[j + o]
  BY <1>1, <1>3, <1>4 DEF Takes
<1>6. Built[j + o] \subseteq Built[n] /\ Built[j] \subseteq Built[n]
  BY <1>1, <1>4, BuiltGrows
<1>7. QED
  BY <1>2, <1>3, <1>5, <1>6

\* Other calls leave it, a first one makes it, and one more adds to it.
LEMMA ReachedLater ==
    ASSUME NEW n \in Nat, NEW k \in Nat, NEW h, Reached(h, k, n)
    PROVE  Reached(h, k, n + 1) /\ Reached(h, k + 1, n + 1)
<1>1. CASE h.map = Nil
  BY <1>1 DEF Reached
<1>2. CASE h.map # Nil
  <2>1. PICK j, o \in Nat : /\ Takes(h.around, o) /\ j + o <= n
                            /\ IF h.map = CallersMap THEN j = k ELSE h.map \in Built[j]
    BY <1>2 DEF Reached
  <2>2. j + o <= n + 1 /\ (j + 1) + o <= n + 1 /\ j + 1 \in Nat
    BY <2>1
  <2>3. Reached(h, k, n + 1)
    BY <1>2, <2>1, <2>2 DEF Reached
  <2>4. Reached(h, k + 1, n + 1)
    <3>1. CASE h.map = CallersMap
      BY <1>2, <2>1, <2>2, <3>1 DEF Reached
    <3>2. CASE h.map # CallersMap
      BY <1>2, <2>1, <2>2, <3>2 DEF Reached
    <3>3. QED
      BY <3>1, <3>2
  <2>5. QED
    BY <2>3, <2>4
<1>3. QED
  BY <1>1, <1>2

\* A query that begins, with the caller's map or with a condition of its own, and one
\* that has not begun, have come as far as any number of calls.
LEMMA ReachedAtFirst ==
    ASSUME NEW n \in Nat, NEW k \in Nat, k <= n, NEW w, w = CallersMap \/ w \in Built[0]
    PROVE  Reached(Just(w), k, n) /\ Reached(NoWhere, k, n)
<1>1. IsWhere(Just(w)) /\ Just(w).map = w /\ Just(w).around = << >>
  BY JustIs
<1>2. w # Nil
  <2>1. Built[0] \subseteq Clauses
    BY BuiltClauses, CallBoundTyped
  <2>2. QED
    BY <2>1, NilIsSpecial
<1>3. \E j, o \in Nat : /\ Takes(Just(w).around, o) /\ j + o <= n
                        /\ IF Just(w).map = CallersMap THEN j = k ELSE Just(w).map \in Built[j]
  <2>1. CASE w = CallersMap
    <3>1. k + 0 <= n
      OBVIOUS
    <3>2. QED
      BY <1>1, <2>1, <3>1, TakesNothing
  <2>2. CASE w # CallersMap
    <3>1. 0 + 0 <= n
      OBVIOUS
    <3>2. QED
      BY <1>1, <2>2, <3>1, TakesNothing
  <2>3. QED
    BY <2>1, <2>2
<1>4. IsWhere(NoWhere) /\ NoWhere.map = Nil
  BY JustIs DEF NoWhere
<1>5. QED
  BY <1>1, <1>2, <1>3, <1>4 DEF Reached

\* One more call adds to it.
LEMMA ReachedAdded ==
    ASSUME NEW n \in Nat, n + 1 <= CallBound, NEW k \in Nat, NEW h, Reached(h, k, n), h.map # Nil,
           NEW key \in ListKeys, NEW c \in Conditions, NEW a, a = Added(h, key, c)
    PROVE  /\ Reached(a, k, n + 1)
           /\ a.map # Nil /\ (a.map = CallersMap <=> h.map = CallersMap)
<1>1. IsWhere(h)
  BY DEF Reached
<1>2. PICK j, o \in Nat : /\ Takes(h.around, o) /\ j + o <= n
                          /\ IF h.map = CallersMap THEN j = k ELSE h.map \in Built[j]
  BY DEF Reached
<1>3. CASE h.around = << >> /\ h.map # CallersMap /\ a = Just(Extended(h.map, key, c))
  <2>1. PICK w : w = Extended(h.map, key, c)
    OBVIOUS
  <2>2. j + 1 \in Nat /\ j + 1 <= CallBound /\ (j + 1) + 0 <= n + 1
    BY <1>2, CallBoundTyped
  <2>3. w \in Built[j + 1]
    <3>1. h.map \in Built[j] /\ Built[j + 1] = MadeOf(Built[j])
      BY <1>2, <1>3, <2>2, BuiltIs
    <3>2. QED
      BY <2>1, <3>1 DEF MadeOf
  <2>4. w # Nil /\ w # CallersMap
    <3>1. w \in Clauses
      BY <2>2, <2>3, BuiltClauses
    <3>2. QED
      BY <3>1, NilIsSpecial
  <2>5. IsWhere(a) /\ a.map = w /\ a.around = << >>
    BY <1>3, <2>1, JustIs
  <2>6. QED
    BY <1>3, <2>2, <2>3, <2>4, <2>5, TakesNothing DEF Reached
<1>4. CASE /\ IsWhere(a) /\ a.map = h.map
           /\ Wraps(h.around, a.around, key, c) \/ Extends(h.around, a.around, key, c)
  <2>1. PICK ls, ms : ls = h.around /\ ms = a.around
    OBVIOUS
  <2>2. Takes(ls, o) /\ (Wraps(ls, ms, key, c) \/ Extends(ls, ms, key, c))
    BY <1>2, <1>4, <2>1
  <2>3. Takes(ms, o + 1)
    BY <2>2, TakesMore
  <2>4. o + 1 \in Nat /\ j + (o + 1) <= n + 1
    BY <1>2
  <2>5. QED
    BY <1>2, <1>4, <2>1, <2>3, <2>4 DEF Reached
<1>5. QED
  BY <1>1, <1>3, <1>4, AddedIs

\* A list that is there is in one entry, and in the only one if it is of alternatives
\* with nothing beside it.
LEMMA ListIsThere ==
    ASSUME NEW w \in Clauses, NEW key \in KeysOf(w), key = "or" => ~OrBeside(w)
    PROVE  \E k \in DOMAIN w : w[k].key = key /\ (key = "or" => DOMAIN w = {k})
<1>1. PICK k \in DOMAIN w : w[k].key = key
  BY DEF KeysOf
<1>2. IsSeq(w)
  BY ClausesAreTyped
<1>3. PICK n \in Nat : n = Len(w) /\ DOMAIN w = 1 .. n
  BY <1>2, LenProperties DEF IsSeq
<1>4. key = "or" => n <= 1
  BY <1>3 DEF OrBeside
<1>5. key = "or" => DOMAIN w = {k}
  BY <1>1, <1>3, <1>4
<1>6. QED
  BY <1>1, <1>5

\* A clause with one condition more, in a list that it has, or around it: what it
\* means.
LEMMA MeantOfMore ==
    ASSUME NEW n \in Nat, n + 1 <= CallBound, NEW w \in Built[n], NEW c \in Conditions, NEW key \in ListKeys
    PROVE  /\ Meant[Wrapped(w, key, c)] = With(key, Meant[w], Meant[c])
           /\ key \in KeysOf(w) /\ (key = "or" => ~OrBeside(w)) =>
                Meant[Extended(w, key, c)] = With(key, Meant[w], Meant[c])
<1>1. n + 1 \in Nat /\ n <= CallBound /\ Built[n + 1] = MadeOf(Built[n])
  BY BuiltIs, CallBoundTyped
<1>2. w \in Clauses
  BY <1>1, BuiltClauses
<1>3. c \in Clauses
  BY BuiltIs, BuiltClauses, CallBoundTyped
<1>4. Wrapped(w, key, c) \in Clauses /\ Extended(w, key, c) \in Clauses
  <2>1. Wrapped(w, key, c) \in Built[n + 1] /\ Extended(w, key, c) \in Built[n + 1]
    BY <1>1 DEF MadeOf
  <2>2. QED
    BY <1>1, <2>1, BuiltClauses
<1>5. Meant[Wrapped(w, key, c)] = With(key, Meant[w], Meant[c])
  BY <1>2, <1>3, <1>4, MeantOfWrapped
<1>6. ASSUME key \in KeysOf(w), key = "or" => ~OrBeside(w)
      PROVE  Meant[Extended(w, key, c)] = With(key, Meant[w], Meant[c])
  <2>1. PICK k \in DOMAIN w : w[k].key = key /\ (key = "or" => DOMAIN w = {k})
    BY <1>2, <1>6, ListIsThere
  <2>2. QED
    BY <1>2, <1>3, <1>4, <2>1, MeantOfExtended
<1>7. QED
  BY <1>5, <1>6

\* What Added makes means what there was and the condition, and begins alike.
LEMMA MeantOfAdded ==
    ASSUME NEW n \in Nat, n + 1 <= CallBound, NEW k \in Nat, k <= n, NEW m \in Built[k],
           NEW h, Reached(h, k, n), h.map # Nil,
           NEW key \in ListKeys, NEW c \in Conditions, NEW a, a = Added(h, key, c)
    PROVE  /\ Alike(BaseOf(a, m), BaseOf(h, m))
           /\ (key = "or" => ~OrBeside(BaseOf(h, m))) =>
                Meant[Inside(BaseOf(a, m), a.around)]
                  = With(key, Meant[Inside(BaseOf(h, m), h.around)], Meant[c])
<1>1. IsWhere(h)
  BY DEF Reached
<1>2. PICK x, y : x = BaseOf(h, m) /\ y = BaseOf(a, m)
  OBVIOUS
<1>3. PICK u : u = Inside(x, h.around)
  OBVIOUS
<1>4. x \in Built[n] /\ u \in Built[n]
  <2>1. n <= CallBound
    BY CallBoundTyped
  <2>2. QED
    BY <1>2, <1>3, <2>1, ReachedIsBuilt
<1>5. /\ Meant[Wrapped(u, key, c)] = With(key, Meant[u], Meant[c])
      /\ key \in KeysOf(u) /\ (key = "or" => ~OrBeside(u)) =>
           Meant[Extended(u, key, c)] = With(key, Meant[u], Meant[c])
  BY <1>4, MeantOfMore
<1>6. CASE /\ h.around = << >> /\ h.map # CallersMap /\ key \in KeysOf(h.map)
           /\ a = Just(Extended(h.map, key, c))
  <2>1. x = h.map /\ u = x
    BY <1>2, <1>3, <1>6, InsideNothing DEF BaseOf
  <2>2. a.map = Extended(x, key, c) /\ a.around = << >>
    BY <1>6, <2>1, JustIs
  <2>3. a.map # CallersMap
    <3>1. a.map = CallersMap <=> h.map = CallersMap
      BY ReachedAdded
    <3>2. QED
      BY <1>6, <3>1
  <2>4. y = Extended(x, key, c) /\ Inside(y, a.around) = y
    BY <1>2, <2>2, <2>3, InsideNothing DEF BaseOf
  <2>5. Alike(y, x)
    BY <2>4, ExtendedIsAlike
  <2>6. QED
    BY <1>2, <1>3, <1>5, <1>6, <2>1, <2>4, <2>5
<1>7. CASE /\ IsWhere(a) /\ a.map = h.map
           /\ Wraps(h.around, a.around, key, c) \/ Extends(h.around, a.around, key, c)
  <2>1. y = x
    BY <1>2, <1>7 DEF BaseOf
  <2>2. Alike(y, x)
    BY <2>1 DEF Alike
  <2>3. CASE Wraps(h.around, a.around, key, c)
    <3>1. Inside(y, a.around) = Wrapped(u, key, c)
      BY <1>3, <2>1, <2>3 DEF Wraps
    <3>2. QED
      BY <1>2, <1>3, <1>5, <2>2, <3>1
  <2>4. CASE Extends(h.around, a.around, key, c)
    <3>1. Inside(y, a.around) = Extended(u, key, c) /\ KeysOf(u) = {key} /\ DOMAIN u = {1}
      BY <1>3, <2>1, <2>4 DEF Extends
    <3>2. ~OrBeside(u)
      <4>1. u \in Clauses
        BY <1>4, BuiltClauses, CallBoundTyped
      <4>2. IsSeq(u)
        BY <4>1, ClausesAreTyped
      <4>3. PICK l \in Nat : l = Len(u) /\ DOMAIN u = 1 .. l
        BY <4>2, LenProperties DEF IsSeq
      <4>4. l = 1
        <5>1. 1 \in 1 .. l /\ (l = 0 \/ l \in {1})
          BY <3>1, <4>3
        <5>2. QED
          BY <5>1
      <4>5. QED
        BY <4>3, <4>4 DEF OrBeside
    <3>3. QED
      BY <1>2, <1>3, <1>5, <2>2, <3>1, <3>2
  <2>5. QED
    BY <1>7, <2>3, <2>4
<1>8. QED
  BY <1>1, <1>6, <1>7, AddedIs

-----------------------------------------------------------------------------
(* The specification of the builders.                                        *)

\* The list of this key is in the caller's map itself.
InCallersMap(q, key) == held[q].map = CallersMap /\ held[q].around = << >> /\ key \in KeysOf(map)

\* What AddWhere does: begin with the condition, extend the caller's map, or add to
\* the query's own.
LEMMA AddWhereIs ==
    ASSUME NEW q \in Queries, NEW key \in ListKeys, NEW c \in Conditions, AddWhere(q, key, c)
    PROVE  /\ stage = "building" /\ count < CallBound
           /\ count' = count + 1 /\ UNCHANGED <<vars, asked, wrote, lent>>
           /\ \/ /\ held[q].map = Nil /\ held' = [held EXCEPT ![q] = Just(c)] /\ map' = map
                 /\ first' = [first EXCEPT ![q] = c]
                 /\ said' = [said EXCEPT ![q] = Meant[c]]
              \/ /\ held[q].map # Nil
                 /\ first' = [first EXCEPT ![q] = first[q]]
                 /\ said' = [said EXCEPT ![q] = With(key, said[q], Meant[c])]
                 /\ \/ /\ InCallersMap(q, key)
                       /\ map' = Extended(map, key, c) /\ held' = held
                    \/ /\ ~InCallersMap(q, key)
                       /\ map' = map /\ held' = [held EXCEPT ![q] = Added(held[q], key, c)]
BY DEF AddWhere, SaidOf, Called, InCallersMap, With

\* What queries hold can be made by the calls so far.
HeldIsBuilt ==
    /\ count \in Nat /\ count <= CallBound
    /\ DOMAIN held = Queries
    /\ \E k \in Nat : /\ k <= count /\ map \in Built[k]
                      /\ \A q \in Queries : Reached(held[q], k, count)

\* Before the first call nobody holds anything.
LEMMA HeldIsBuiltFirst == BuildInit \/ StartBuilding => HeldIsBuilt
<1>1. SUFFICES ASSUME BuildInit \/ StartBuilding PROVE HeldIsBuilt
  OBVIOUS
<1>2. count = 0 /\ map \in Built[0] /\ held = [q \in Queries |-> NoWhere]
  BY <1>1, BuiltIs DEF BuildInit, StartBuilding, NothingBuilt
<1>3. Reached(NoWhere, 0, 0)
  BY ReachedAtFirst
<1>4. QED
  BY <1>2, <1>3, CallBoundTyped DEF HeldIsBuilt

\* Every call keeps what is held within what the calls made so far can build.
LEMMA HeldIsBuiltNext == HeldIsBuilt /\ [BuildNext]_<<vars, buildVars>> => HeldIsBuilt'
<1>1. SUFFICES ASSUME HeldIsBuilt, [BuildNext]_<<vars, buildVars>> PROVE HeldIsBuilt'
  OBVIOUS
<1>2. PICK n \in Nat : n = count /\ n <= CallBound
  BY <1>1 DEF HeldIsBuilt
<1>3. PICK k \in Nat : /\ k <= n /\ map \in Built[k]
                       /\ \A q \in Queries : Reached(held[q], k, n)
  BY <1>1, <1>2 DEF HeldIsBuilt
<1>4. DOMAIN held = Queries
  BY <1>1 DEF HeldIsBuilt
<1>5. ASSUME count' = n, map' = map, held' = held PROVE HeldIsBuilt'
  BY <1>2, <1>3, <1>4, <1>5 DEF HeldIsBuilt
<1>6. ASSUME NEW q \in Queries, count < CallBound, count' = n + 1, map' = map,
             NEW h, held' = [held EXCEPT ![q] = h], Reached(h, k, n + 1)
      PROVE  HeldIsBuilt'
  <2>1. n + 1 \in Nat /\ n + 1 <= CallBound /\ k <= n + 1
    BY <1>2, <1>3, <1>6, CallBoundTyped
  <2>2. DOMAIN held' = Queries
    BY <1>4, <1>6
  <2>3. ASSUME NEW d \in Queries PROVE Reached(held'[d], k, n + 1)
    <3>1. CASE d = q
      BY <1>4, <1>6, <3>1
    <3>2. CASE d # q
      <4>1. held'[d] = held[d]
        BY <1>4, <1>6, <3>2
      <4>2. Reached(held[d], k, n)
        BY <1>3
      <4>3. QED
        BY <4>1, <4>2, ReachedLater
    <3>3. QED
      BY <3>1, <3>2
  <2>4. QED
    BY <1>3, <1>6, <2>1, <2>2, <2>3 DEF HeldIsBuilt
<1>7. ASSUME NEW q \in Queries, GiveMap(q) PROVE HeldIsBuilt'
  <2>1. k <= n + 1 /\ n + 1 \in Nat
    BY <1>3
  <2>2. Reached(Just(CallersMap), k, n + 1)
    BY <2>1, ReachedAtFirst
  <2>3. QED
    BY <1>2, <1>6, <1>7, <2>2 DEF GiveMap, SaidOf, Called
<1>8. ASSUME NEW q \in Queries, NEW key \in ListKeys, NEW c \in Conditions, AddWhere(q, key, c)
      PROVE  HeldIsBuilt'
  <2>1. count < CallBound /\ count' = n + 1
    BY <1>2, <1>8, AddWhereIs
  <2>2. k <= n + 1 /\ n + 1 \in Nat /\ n + 1 <= CallBound
    BY <1>2, <1>3, <2>1, CallBoundTyped
  <2>3. CASE held[q].map = Nil /\ held' = [held EXCEPT ![q] = Just(c)] /\ map' = map
    <3>1. c \in Built[0]
      BY BuiltIs
    <3>2. Reached(Just(c), k, n + 1)
      BY <2>2, <3>1, ReachedAtFirst
    <3>3. QED
      BY <1>6, <2>1, <2>3, <3>2
  <2>4. CASE map' = Extended(map, key, c) /\ held' = held
    <3>1. k + 1 \in Nat /\ k + 1 <= CallBound /\ k + 1 <= n + 1
      BY <1>3, <2>2, CallBoundTyped
    <3>2. map' \in Built[k + 1]
      <4>1. Built[k + 1] = MadeOf(Built[k])
        BY <3>1, BuiltIs
      <4>2. QED
        BY <1>3, <2>4, <4>1 DEF MadeOf
    <3>3. \A d \in Queries : Reached(held'[d], k + 1, n + 1)
      BY <1>3, <2>4, ReachedLater
    <3>4. QED
      BY <1>4, <2>1, <2>2, <2>4, <3>1, <3>2, <3>3 DEF HeldIsBuilt
  <2>5. CASE held[q].map # Nil /\ map' = map /\ held' = [held EXCEPT ![q] = Added(held[q], key, c)]
    <3>1. PICK h : h = held[q]
      OBVIOUS
    <3>2. PICK a : a = Added(h, key, c)
      OBVIOUS
    <3>3. Reached(h, k, n) /\ h.map # Nil
      BY <1>3, <2>5, <3>1
    <3>4. Reached(a, k, n + 1)
      BY <2>2, <3>2, <3>3, ReachedAdded
    <3>5. held' = [held EXCEPT ![q] = a]
      BY <2>5, <3>1, <3>2
    <3>6. QED
      BY <1>6, <2>1, <2>5, <3>4, <3>5
  <2>6. QED
    BY <1>8, <2>3, <2>4, <2>5, AddWhereIs
<1>9. ASSUME NEW b \in Builders, Reset(b) PROVE HeldIsBuilt'
  <2>1. n + 1 \in Nat /\ n + 1 <= CallBound /\ k <= n + 1
    BY <1>2, <1>3, <1>9, CallBoundTyped DEF Reset, Called
  <2>2. count' = n + 1 /\ map' = map /\ held' = held
    BY <1>2, <1>9 DEF Reset, Called
  <2>3. \A q \in Queries : Reached(held[q], k, n + 1)
    BY <1>3, ReachedLater
  <2>4. QED
    BY <1>3, <1>4, <2>1, <2>2, <2>3 DEF HeldIsBuilt
<1>10. CASE (Next /\ UNCHANGED buildVars) \/ (\E q \in Queries : Ask(q)) \/ UNCHANGED <<vars, buildVars>>
  BY <1>2, <1>5, <1>10 DEF Ask, buildVars
<1>11. QED
  BY <1>1, <1>7, <1>8, <1>9, <1>10 DEF BuildNext

\* What queries hold began with what they were given.  The caller's map is as it was
\* made until it is given away, and for good if it has no lists; given once, one
\* query holds it.
BeginningsAreKept ==
    /\ DOMAIN held = Queries /\ DOMAIN first = Queries
    /\ lent \in Nat /\ wrote \in Built[0]
    /\ Alike(map, wrote)
    /\ lent = 0 => map = wrote /\ \A q \in Queries : held[q].map # CallersMap
    /\ lent = 1 => \A q, d \in Queries : held[q].map = CallersMap /\ held[d].map = CallersMap => q = d
    /\ Lists(wrote) = {} => map = wrote
    /\ \A q \in Queries :
         IF held[q].map = Nil THEN first[q] = Nil
         ELSE first[q] \in Built[0] /\ Alike(BaseOf(held[q], map), first[q])

\* What a query holds means what the calls on it say.
SaidIsHeld ==
    /\ DOMAIN said = Queries
    /\ lent <= 1 \/ Lists(wrote) = {} =>
         \A q \in Queries :
            held[q].map # Nil /\ ~OrBeside(first[q]) =>
              Meant[Inside(BaseOf(held[q], map), held[q].around)] = said[q]

\* The clause a query begins with is a clause, not one of the marks beside them.
LEMMA FirstIsNotNil ==
    ASSUME NEW w \in Built[0]
    PROVE  w \in Clauses /\ w # Nil /\ w # CallersMap
<1>1. w \in Clauses
  BY BuiltClauses, CallBoundTyped
<1>2. QED
  BY <1>1, NilIsSpecial

\* A clause is like itself.
LEMMA AlikeItself == ASSUME NEW w PROVE Alike(w, w)
BY DEF Alike

\* Clauses that are alike have something beside alternatives alike.
LEMMA AlikeBeside ==
    ASSUME NEW v \in Clauses, NEW w \in Clauses, Alike(v, w)
    PROVE  OrBeside(v) <=> OrBeside(w)
<1>1. IsSeq(v) /\ IsSeq(w)
  BY ClausesAreTyped
<1>2. PICK n \in Nat : n = Len(v) /\ DOMAIN v = 1 .. n
  BY <1>1, LenProperties DEF IsSeq
<1>3. PICK m \in Nat : m = Len(w) /\ DOMAIN w = 1 .. m
  BY <1>1, LenProperties DEF IsSeq
<1>4. n = m
  <2>1. 1 .. n = 1 .. m
    BY <1>2, <1>3 DEF Alike
  <2>2. (n = 0 \/ n \in 1 .. m) /\ (m = 0 \/ m \in 1 .. n)
    BY <2>1
  <2>3. QED
    BY <2>1, <2>2
<1>5. KeysOf(v) = KeysOf(w)
  BY AlikeItself, AlikeHave
<1>6. QED
  BY <1>2, <1>3, <1>4, <1>5 DEF OrBeside

\* Before the first call no query has begun or been told anything.
LEMMA BeginningsFirst == BuildInit \/ StartBuilding => BeginningsAreKept /\ SaidIsHeld
<1>1. SUFFICES ASSUME BuildInit \/ StartBuilding PROVE BeginningsAreKept /\ SaidIsHeld
  OBVIOUS
<1>2. /\ map = wrote /\ map \in Built[0] /\ lent = 0
      /\ held = [q \in Queries |-> NoWhere] /\ first = [q \in Queries |-> Nil]
      /\ said = [q \in Queries |-> Rows]
  BY <1>1, BuiltIs DEF BuildInit, StartBuilding, NothingBuilt
<1>3. \A q \in Queries : held[q].map = Nil /\ first[q] = Nil
  BY <1>2, JustIs DEF NoWhere
<1>4. Alike(map, wrote)
  BY <1>2, AlikeItself
<1>5. BeginningsAreKept
  BY <1>2, <1>3, <1>4, NilIsSpecial DEF BeginningsAreKept
<1>6. SaidIsHeld
  BY <1>2, <1>3 DEF SaidIsHeld
<1>7. QED
  BY <1>5, <1>6

\* A query is given something new to hold, and the others are left alone.
LEMMA BeginsAnew ==
    ASSUME BeginningsAreKept, SaidIsHeld, NEW q \in Queries, NEW w, NEW f, NEW s,
           UNCHANGED <<map, wrote>>,
           held' = [held EXCEPT ![q] = Just(w)],
           first' = [first EXCEPT ![q] = f], said' = [said EXCEPT ![q] = s],
           \/ w = Nil /\ f = Nil /\ lent' = lent
           \/ w = CallersMap /\ f = wrote /\ s = Meant[f] /\ lent' = lent + 1
           \/ w \in Built[0] /\ f = w /\ s = Meant[f] /\ lent' = lent
    PROVE  BeginningsAreKept' /\ SaidIsHeld'
<1>1. /\ DOMAIN held = Queries /\ DOMAIN first = Queries /\ DOMAIN said = Queries
      /\ lent \in Nat /\ wrote \in Built[0]
  BY DEF BeginningsAreKept, SaidIsHeld
<1>2. /\ DOMAIN held' = Queries /\ DOMAIN first' = Queries /\ DOMAIN said' = Queries
      /\ lent' \in Nat
  BY <1>1
<1>3. PICK h : h = Just(w)
  OBVIOUS
<1>4. h.map = w /\ h.around = << >>
  BY <1>3, JustIs
<1>5. held'[q] = h /\ first'[q] = f /\ said'[q] = s
  BY <1>1, <1>3
<1>6. \A d \in Queries : d # q => held'[d] = held[d] /\ first'[d] = first[d] /\ said'[d] = said[d]
  BY <1>1
<1>7. lent' = 0 => lent = 0 /\ w # CallersMap
  BY <1>1, NilIsSpecial, FirstIsNotNil
<1>8. BeginningsAreKept'
  <2>1. Alike(map, wrote) /\ (Lists(wrote) = {} => map = wrote)
    BY DEF BeginningsAreKept
  <2>2. lent' = 0 => map = wrote /\ \A d \in Queries : held'[d].map # CallersMap
    BY <1>4, <1>5, <1>6, <1>7 DEF BeginningsAreKept
  <2>3. lent' = 1 => \A d, e \in Queries :
                       held'[d].map = CallersMap /\ held'[e].map = CallersMap => d = e
    <3>1. CASE lent' = lent /\ w # CallersMap
      BY <1>4, <1>5, <1>6, <3>1 DEF BeginningsAreKept
    <3>2. CASE lent' = lent + 1
      <4>1. lent' = 1 => \A d \in Queries : d # q => held'[d].map # CallersMap
        BY <1>1, <1>6, <3>2 DEF BeginningsAreKept
      <4>2. QED
        BY <4>1
    <3>3. QED
      BY <3>1, <3>2, NilIsSpecial, FirstIsNotNil
  <2>4. ASSUME NEW d \in Queries
        PROVE  IF held'[d].map = Nil THEN first'[d] = Nil
               ELSE first'[d] \in Built[0] /\ Alike(BaseOf(held'[d], map), first'[d])
    <3>1. CASE d # q
      BY <1>6, <3>1 DEF BeginningsAreKept
    <3>2. CASE d = q /\ w = Nil
      BY <1>4, <1>5, <3>2, NilIsSpecial, FirstIsNotNil
    <3>3. CASE d = q /\ w = CallersMap
      <4>1. BaseOf(h, map) = map /\ f = wrote
        BY <1>4, <3>3, NilIsSpecial, FirstIsNotNil DEF BaseOf
      <4>2. QED
        BY <1>1, <1>4, <1>5, <2>1, <3>3, <4>1, NilIsSpecial
    <3>4. CASE d = q /\ w \in Built[0]
      <4>1. w # Nil /\ w # CallersMap /\ f = w
        BY <3>4, FirstIsNotNil
      <4>2. BaseOf(h, map) = w
        BY <1>4, <4>1 DEF BaseOf
      <4>3. QED
        BY <1>4, <1>5, <3>4, <4>1, <4>2, AlikeItself
    <3>5. QED
      BY <3>1, <3>2, <3>3, <3>4
  <2>5. QED
    BY <1>1, <1>2, <2>1, <2>2, <2>3, <2>4 DEF BeginningsAreKept
<1>9. SaidIsHeld'
  <2>1. SUFFICES ASSUME lent' <= 1 \/ Lists(wrote) = {}, NEW d \in Queries,
                        held'[d].map # Nil, ~OrBeside(first'[d])
                 PROVE  Meant[Inside(BaseOf(held'[d], map), held'[d].around)] = said'[d]
    BY <1>2 DEF SaidIsHeld
  <2>2. lent <= 1 \/ Lists(wrote) = {}
    BY <1>1, <2>1
  <2>3. CASE d # q
    BY <1>6, <2>1, <2>2, <2>3 DEF SaidIsHeld
  <2>4. CASE d = q /\ w = CallersMap
    <3>1. f = wrote /\ s = Meant[f] /\ lent' = lent + 1
      BY <2>4, NilIsSpecial, FirstIsNotNil
    <3>2. map = wrote
      BY <1>1, <2>1, <3>1 DEF BeginningsAreKept
    <3>3. Inside(BaseOf(h, map), h.around) = map
      BY <1>4, <2>4, InsideNothing DEF BaseOf
    <3>4. QED
      BY <1>5, <2>4, <3>1, <3>2, <3>3
  <2>5. CASE d = q /\ w \in Built[0]
    <3>1. w # Nil /\ w # CallersMap /\ f = w /\ s = Meant[f]
      BY <2>5, FirstIsNotNil
    <3>2. Inside(BaseOf(h, map), h.around) = w
      BY <1>4, <3>1, InsideNothing DEF BaseOf
    <3>3. QED
      BY <1>5, <2>5, <3>1, <3>2
  <2>6. QED
    BY <1>4, <1>5, <2>1, <2>3, <2>4, <2>5
<1>10. QED
  BY <1>8, <1>9

\* AndWhere or OrWhere writes to the caller's map.
LEMMA WritesToCallersMap ==
    ASSUME HeldIsBuilt, BeginningsAreKept, SaidIsHeld, count < CallBound,
           NEW q \in Queries, NEW key \in ListKeys, NEW c \in Conditions, InCallersMap(q, key),
           UNCHANGED <<held, wrote, lent>>, map' = Extended(map, key, c),
           first' = [first EXCEPT ![q] = first[q]],
           said' = [said EXCEPT ![q] = With(key, said[q], Meant[c])]
    PROVE  BeginningsAreKept' /\ SaidIsHeld'
<1>1. /\ DOMAIN held = Queries /\ DOMAIN first = Queries /\ DOMAIN said = Queries
      /\ lent \in Nat /\ wrote \in Built[0]
  BY DEF BeginningsAreKept, SaidIsHeld
<1>2. /\ DOMAIN first' = Queries /\ DOMAIN said' = Queries
      /\ \A d \in Queries : first'[d] = first[d]
      /\ said'[q] = With(key, said[q], Meant[c]) /\ \A d \in Queries : d # q => said'[d] = said[d]
  BY <1>1
<1>3. held[q].map = CallersMap /\ held[q].around = << >> /\ key \in KeysOf(map) /\ held[q].map # Nil
  BY NilIsSpecial DEF InCallersMap
<1>4. lent # 0
  BY <1>3 DEF BeginningsAreKept
<1>5. Lists(wrote) # {}
  <2>1. key \in Lists(map)
    BY <1>3 DEF Lists
  <2>2. QED
    BY <2>1 DEF BeginningsAreKept
<1>6. PICK m, m2 : m = map /\ m2 = Extended(map, key, c)
  OBVIOUS
<1>7. Alike(m2, m)
  BY <1>6, ExtendedIsAlike
<1>8. BeginningsAreKept'
  <2>1. Alike(m2, wrote)
    <3>1. Alike(m, wrote)
      BY <1>6 DEF BeginningsAreKept
    <3>2. QED
      BY <1>7, <3>1, AlikeHave
  <2>2. ASSUME NEW d \in Queries
        PROVE  IF held[d].map = Nil THEN first[d] = Nil
               ELSE first[d] \in Built[0] /\ Alike(BaseOf(held[d], m2), first[d])
    <3>1. IF held[d].map = Nil THEN first[d] = Nil
          ELSE first[d] \in Built[0] /\ Alike(BaseOf(held[d], m), first[d])
      BY <1>6 DEF BeginningsAreKept
    <3>2. CASE held[d].map = CallersMap
      <4>1. BaseOf(held[d], m) = m /\ BaseOf(held[d], m2) = m2 /\ held[d].map # Nil
        BY <3>2, NilIsSpecial DEF BaseOf
      <4>2. Alike(m, first[d]) /\ first[d] \in Built[0]
        BY <3>1, <4>1
      <4>3. PICK f : f = first[d]
        OBVIOUS
      <4>4. Alike(m2, f)
        BY <1>7, <4>2, <4>3, AlikeHave
      <4>5. QED
        BY <4>1, <4>2, <4>3, <4>4
    <3>3. CASE held[d].map # CallersMap
      BY <3>1, <3>3 DEF BaseOf
    <3>4. QED
      BY <3>2, <3>3
  <2>3. lent = 1 => \A d, e \in Queries :
                      held[d].map = CallersMap /\ held[e].map = CallersMap => d = e
    BY DEF BeginningsAreKept
  <2>4. map' = m2 /\ wrote' = wrote /\ lent' = lent /\ held' = held
    BY <1>6
  <2>5. QED
    BY <1>1, <1>2, <1>4, <1>5, <2>1, <2>2, <2>3, <2>4 DEF BeginningsAreKept
<1>9. SaidIsHeld'
  <2>1. SUFFICES ASSUME lent <= 1, NEW d \in Queries, held[d].map # Nil, ~OrBeside(first[d])
                 PROVE  Meant[Inside(BaseOf(held[d], m2), held[d].around)] = said'[d]
    BY <1>2, <1>5, <1>6 DEF SaidIsHeld
  <2>2. Meant[Inside(BaseOf(held[d], m), held[d].around)] = said[d]
    BY <1>6, <2>1 DEF SaidIsHeld
  <2>3. CASE d # q
    <3>1. lent = 1
      BY <1>1, <1>4, <2>1
    <3>2. held[d].map # CallersMap
      BY <1>3, <2>3, <3>1 DEF BeginningsAreKept
    <3>3. QED
      BY <1>2, <2>2, <2>3, <3>2 DEF BaseOf
  <2>4. CASE d = q
    <3>1. Inside(BaseOf(held[q], m), held[q].around) = m /\ Inside(BaseOf(held[q], m2), held[q].around) = m2
      BY <1>3, InsideNothing DEF BaseOf
    <3>2. PICK k \in Nat : k + 1 <= CallBound /\ m \in Built[k]
      <4>1. PICK k \in Nat : k <= count /\ map \in Built[k]
        BY DEF HeldIsBuilt
      <4>2. k + 1 <= CallBound
        BY <4>1, CallBoundTyped DEF HeldIsBuilt
      <4>3. QED
        BY <1>6, <4>1, <4>2
    <3>3. ~OrBeside(m)
      <4>1. first[q] \in Built[0] /\ Alike(m, first[q])
        BY <1>3, <1>6 DEF BeginningsAreKept, BaseOf
      <4>2. PICK f : f = first[q]
        OBVIOUS
      <4>3. k <= CallBound
        BY <3>2, CallBoundTyped
      <4>4. m \in Clauses /\ f \in Clauses /\ Alike(m, f)
        BY <3>2, <4>1, <4>2, <4>3, BuiltClauses, FirstIsNotNil
      <4>5. QED
        BY <2>1, <2>4, <4>2, <4>4, AlikeBeside
    <3>4. Meant[m2] = With(key, Meant[m], Meant[c])
      BY <1>3, <1>6, <3>2, <3>3, MeantOfMore
    <3>5. QED
      BY <1>2, <2>2, <2>4, <3>1, <3>4
  <2>5. QED
    BY <2>3, <2>4
<1>10. QED
  BY <1>8, <1>9

\* AndWhere or OrWhere adds to what is the query's own.
LEMMA AddsToItsOwn ==
    ASSUME HeldIsBuilt, BeginningsAreKept, SaidIsHeld, count < CallBound,
           NEW q \in Queries, NEW key \in ListKeys, NEW c \in Conditions, held[q].map # Nil,
           UNCHANGED <<map, wrote, lent>>, held' = [held EXCEPT ![q] = Added(held[q], key, c)],
           first' = [first EXCEPT ![q] = first[q]],
           said' = [said EXCEPT ![q] = With(key, said[q], Meant[c])]
    PROVE  BeginningsAreKept' /\ SaidIsHeld'
<1>1. /\ DOMAIN held = Queries /\ DOMAIN first = Queries /\ DOMAIN said = Queries
      /\ lent \in Nat /\ wrote \in Built[0]
  BY DEF BeginningsAreKept, SaidIsHeld
<1>2. PICK h : h = held[q]
  OBVIOUS
<1>3. PICK a : a = Added(h, key, c)
  OBVIOUS
<1>4. /\ DOMAIN held' = Queries /\ DOMAIN first' = Queries /\ DOMAIN said' = Queries
      /\ \A d \in Queries : first'[d] = first[d]
      /\ said'[q] = With(key, said[q], Meant[c]) /\ \A d \in Queries : d # q => said'[d] = said[d]
      /\ held'[q] = a /\ \A d \in Queries : d # q => held'[d] = held[d]
  BY <1>1, <1>2, <1>3
<1>5. PICK n \in Nat : n = count /\ n + 1 <= CallBound
  BY CallBoundTyped DEF HeldIsBuilt
<1>6. PICK m : m = map
  OBVIOUS
<1>7. PICK k \in Nat : k <= n /\ m \in Built[k] /\ Reached(h, k, n)
  BY <1>2, <1>5, <1>6 DEF HeldIsBuilt
<1>8. h.map # Nil
  BY <1>2
<1>9. a.map # Nil /\ (a.map = CallersMap <=> h.map = CallersMap)
  BY <1>3, <1>5, <1>7, <1>8, ReachedAdded
<1>10. /\ Alike(BaseOf(a, m), BaseOf(h, m))
       /\ (key = "or" => ~OrBeside(BaseOf(h, m))) =>
            Meant[Inside(BaseOf(a, m), a.around)] = With(key, Meant[Inside(BaseOf(h, m), h.around)], Meant[c])
  BY <1>3, <1>5, <1>7, <1>8, MeantOfAdded
<1>11. PICK f : f = first[q]
  OBVIOUS
<1>12. f \in Built[0] /\ Alike(BaseOf(h, m), f)
  BY <1>2, <1>6, <1>8, <1>11 DEF BeginningsAreKept
<1>13. \A d \in Queries : held'[d].map = CallersMap <=> held[d].map = CallersMap
  BY <1>2, <1>4, <1>9
<1>14. BeginningsAreKept'
  <2>1. ASSUME NEW d \in Queries
        PROVE  IF held'[d].map = Nil THEN first'[d] = Nil
               ELSE first'[d] \in Built[0] /\ Alike(BaseOf(held'[d], m), first'[d])
    <3>1. CASE d # q
      BY <1>4, <1>6, <3>1 DEF BeginningsAreKept
    <3>2. CASE d = q
      <4>1. PICK x, y : x = BaseOf(h, m) /\ y = BaseOf(a, m)
        OBVIOUS
      <4>2. Alike(y, f)
        BY <1>10, <1>12, <4>1, AlikeHave
      <4>3. QED
        BY <1>4, <1>9, <1>11, <1>12, <3>2, <4>1, <4>2
    <3>3. QED
      BY <3>1, <3>2
  <2>2. /\ Alike(m, wrote)
        /\ lent = 0 => m = wrote /\ \A d \in Queries : held'[d].map # CallersMap
        /\ lent = 1 => \A d, e \in Queries :
                         held'[d].map = CallersMap /\ held'[e].map = CallersMap => d = e
        /\ Lists(wrote) = {} => m = wrote
    BY <1>6, <1>13 DEF BeginningsAreKept
  <2>3. map' = m /\ wrote' = wrote /\ lent' = lent
    BY <1>6
  <2>4. QED
    BY <1>1, <1>4, <2>1, <2>2, <2>3 DEF BeginningsAreKept
<1>15. SaidIsHeld'
  <2>1. SUFFICES ASSUME lent <= 1 \/ Lists(wrote) = {}, NEW d \in Queries,
                        held'[d].map # Nil, ~OrBeside(first[d])
                 PROVE  Meant[Inside(BaseOf(held'[d], m), held'[d].around)] = said'[d]
    BY <1>4, <1>6 DEF SaidIsHeld
  <2>2. CASE d # q
    BY <1>4, <1>6, <2>1, <2>2 DEF SaidIsHeld
  <2>3. CASE d = q
    <3>1. Meant[Inside(BaseOf(h, m), h.around)] = said[q]
      BY <1>2, <1>6, <1>8, <2>1, <2>3 DEF SaidIsHeld
    <3>2. ~OrBeside(BaseOf(h, m))
      <4>1. PICK x : x = BaseOf(h, m)
        OBVIOUS
      <4>2. n <= CallBound
        BY <1>5, CallBoundTyped
      <4>3. x \in Built[n]
        BY <1>7, <1>8, <4>1, <4>2, ReachedIsBuilt
      <4>4. x \in Clauses /\ f \in Clauses /\ Alike(x, f)
        BY <1>12, <4>1, <4>2, <4>3, BuiltClauses, FirstIsNotNil
      <4>5. QED
        BY <1>11, <2>1, <2>3, <4>1, <4>4, AlikeBeside
    <3>3. QED
      BY <1>4, <1>10, <2>3, <3>1, <3>2
  <2>4. QED
    BY <2>2, <2>3
<1>16. QED
  BY <1>14, <1>15

-----------------------------------------------------------------------------
(* The specifications.                                                       *)

\* What is kept of a clause is what the transpilers make of it, and of a row what
\* the databases make of that.
ResultsAreKept ==
    /\ where \in Clauses /\ row \in Rows
    /\ stage \in {"building", "received", "transpiled", "answered"}
    /\ IF stage \in {"building", "received"} THEN sql = Nothing /\ mongo = Accepted(Empty)
       ELSE sql = SqlWhere[where] /\ mongo = MongoWhere[where]
    /\ Answered => selected = [sql |-> ~sql.error /\ SqlSelects(sql, row),
                               mongo |-> ~mongo.error /\ MongoSelects(mongo.filter, row)]

\* It is inductive: the transpilers keep it, and those who build a clause.
LEMMA ResultsAreKeptNext == ResultsAreKept /\ [Next]_vars => ResultsAreKept'
<1>1. ASSUME ResultsAreKept, Transpile PROVE ResultsAreKept'
  BY <1>1 DEF ResultsAreKept, Transpile, Answered
<1>2. ASSUME ResultsAreKept, Select PROVE ResultsAreKept'
  BY <1>2 DEF ResultsAreKept, Select, Answered
<1>3. ASSUME ResultsAreKept, UNCHANGED vars PROVE ResultsAreKept'
  BY <1>3 DEF ResultsAreKept, vars, Answered, SqlSelects
<1>4. QED
  BY <1>1, <1>2, <1>3 DEF Next

\* The clause is that of the query asked for, and the row the one begun with.
HandedOver ==
    /\ stage = "building" => NullFree(row) /\ asked = Nil
    /\ asked # Nil =>
         /\ asked \in Queries /\ NullFree(row)
         /\ held[asked].map # Nil => where = Inside(BaseOf(held[asked], map), held[asked].around)

BuildersAreKept == HeldIsBuilt /\ BeginningsAreKept /\ SaidIsHeld /\ HandedOver /\ ResultsAreKept

\* The invariant holds when building starts.
LEMMA BuildersAreKeptFirst == BuildInit \/ StartBuilding => BuildersAreKept
<1>1. BuildInit \/ StartBuilding => HeldIsBuilt /\ BeginningsAreKept /\ SaidIsHeld
  BY HeldIsBuiltFirst, BeginningsFirst
<1>2. Empty \in Clauses
  BY BuiltIs, BuiltClauses, CallBoundTyped
<1>3. BuildInit \/ StartBuilding => ResultsAreKept
  BY <1>2 DEF BuildInit, StartBuilding, Init, ResultsAreKept, Answered
<1>4. BuildInit \/ StartBuilding => HandedOver
  BY DEF BuildInit, StartBuilding, NothingBuilt, Init, HandedOver
<1>5. QED
  BY <1>1, <1>3, <1>4 DEF BuildersAreKept

\* While a clause is built, only queries and the caller's map change.
LEMMA CallsKeepTheRest ==
    ASSUME HandedOver, ResultsAreKept, stage = "building", UNCHANGED <<vars, asked>>
    PROVE  HandedOver' /\ ResultsAreKept'
BY DEF HandedOver, ResultsAreKept, vars, Answered

\* Every step keeps it: giving and adding, going on with a new query, handing a query
\* over, and what the transpilers do with it.
LEMMA BuildersAreKeptNext == BuildersAreKept /\ [BuildNext]_<<vars, buildVars>> => BuildersAreKept'
<1>1. SUFFICES ASSUME BuildersAreKept, [BuildNext]_<<vars, buildVars>> PROVE BuildersAreKept'
  OBVIOUS
<1>2. HeldIsBuilt /\ BeginningsAreKept /\ SaidIsHeld /\ HandedOver /\ ResultsAreKept
  BY <1>1 DEF BuildersAreKept
<1>3. HeldIsBuilt'
  BY <1>1, <1>2, HeldIsBuiltNext
<1>4. ASSUME UNCHANGED <<map, held, wrote, lent, first, said>> PROVE BeginningsAreKept' /\ SaidIsHeld'
  BY <1>2, <1>4 DEF BeginningsAreKept, SaidIsHeld
<1>5. ASSUME NEW q \in Queries, GiveMap(q) PROVE BuildersAreKept'
  <2>1. BeginningsAreKept' /\ SaidIsHeld'
    <3>1. /\ UNCHANGED <<map, wrote>> /\ held' = [held EXCEPT ![q] = Just(CallersMap)]
          /\ first' = [first EXCEPT ![q] = wrote] /\ said' = [said EXCEPT ![q] = Meant[wrote]]
          /\ lent' = lent + 1
      BY <1>5 DEF GiveMap, SaidOf, Called
    <3>2. QED
      BY <1>2, <3>1, BeginsAnew
  <2>2. HandedOver' /\ ResultsAreKept'
    BY <1>2, <1>5, CallsKeepTheRest DEF GiveMap, SaidOf, Called
  <2>3. QED
    BY <1>3, <2>1, <2>2 DEF BuildersAreKept
<1>6. ASSUME NEW q \in Queries, NEW key \in ListKeys, NEW c \in Conditions, AddWhere(q, key, c)
      PROVE  BuildersAreKept'
  <2>1. stage = "building" /\ count < CallBound /\ UNCHANGED <<vars, asked, wrote, lent>>
    BY <1>6, AddWhereIs
  <2>2. CASE /\ held' = [held EXCEPT ![q] = Just(c)] /\ map' = map
             /\ first' = [first EXCEPT ![q] = c] /\ said' = [said EXCEPT ![q] = Meant[c]]
    <3>1. c \in Built[0]
      BY BuiltIs
    <3>2. BeginningsAreKept' /\ SaidIsHeld'
      BY <1>2, <2>1, <2>2, <3>1, BeginsAnew
    <3>3. QED
      BY <1>2, <1>3, <2>1, <3>2, CallsKeepTheRest DEF BuildersAreKept
  <2>3. CASE /\ held[q].map # Nil
             /\ first' = [first EXCEPT ![q] = first[q]]
             /\ said' = [said EXCEPT ![q] = With(key, said[q], Meant[c])]
             /\ \/ /\ InCallersMap(q, key)
                   /\ map' = Extended(map, key, c) /\ held' = held
                \/ map' = map /\ held' = [held EXCEPT ![q] = Added(held[q], key, c)]
    <3>1. BeginningsAreKept' /\ SaidIsHeld'
      BY <1>2, <2>1, <2>3, WritesToCallersMap, AddsToItsOwn
    <3>2. QED
      BY <1>2, <1>3, <2>1, <3>1, CallsKeepTheRest DEF BuildersAreKept
  <2>4. QED
    BY <1>6, <2>2, <2>3, AddWhereIs
<1>7. ASSUME NEW b \in Builders, Reset(b) PROVE BuildersAreKept'
  <2>1. BeginningsAreKept' /\ SaidIsHeld'
    BY <1>4, <1>7 DEF Reset, Called
  <2>2. HandedOver' /\ ResultsAreKept'
    BY <1>2, <1>7, CallsKeepTheRest DEF Reset, Called
  <2>3. QED
    BY <1>3, <2>1, <2>2 DEF BuildersAreKept
<1>8. ASSUME NEW q \in Queries, Ask(q) PROVE BuildersAreKept'
  <2>1. PICK h, m : h = held[q] /\ m = map
    OBVIOUS
  <2>2. where' = IF h.map = Nil THEN Empty ELSE Inside(BaseOf(h, m), h.around)
    BY <1>8, <2>1 DEF Ask, Resolved, Base, BaseOf
  <2>3. where' \in Clauses
    <3>1. CASE h.map = Nil
      BY <2>2, <3>1, BuiltIs, BuiltClauses, CallBoundTyped
    <3>2. CASE h.map # Nil
      <4>1. PICK n \in Nat : n = count /\ n <= CallBound
        BY <1>2 DEF HeldIsBuilt
      <4>2. PICK k \in Nat : k <= n /\ m \in Built[k] /\ Reached(h, k, n)
        BY <1>2, <2>1, <4>1 DEF HeldIsBuilt
      <4>3. Inside(BaseOf(h, m), h.around) \in Built[n]
        BY <3>2, <4>1, <4>2, ReachedIsBuilt
      <4>4. QED
        BY <2>2, <3>2, <4>1, <4>3, BuiltClauses
    <3>3. QED
      BY <3>1, <3>2
  <2>4. ResultsAreKept'
    BY <1>2, <1>8, <2>3 DEF Ask, ResultsAreKept, Answered
  <2>5. HandedOver'
    <3>1. stage' = "received" /\ asked' = q /\ NullFree(row') /\ held'[q] = h /\ map' = m
      BY <1>2, <1>8, <2>1 DEF Ask, HandedOver
    <3>2. QED
      BY <2>2, <3>1 DEF HandedOver
  <2>6. QED
    BY <1>3, <1>4, <1>8, <2>4, <2>5 DEF Ask, BuildersAreKept
<1>9. CASE (Next /\ UNCHANGED buildVars) \/ UNCHANGED <<vars, buildVars>>
  <2>1. [Next]_vars /\ UNCHANGED buildVars
    BY <1>9
  <2>2. ResultsAreKept'
    BY <1>2, <2>1, ResultsAreKeptNext
  <2>3. /\ where' = where /\ row' = row /\ map' = map /\ held' = held /\ asked' = asked
        /\ stage' = "building" <=> stage = "building"
    BY <2>1 DEF Next, Transpile, Select, vars, buildVars
  <2>4. HandedOver'
    BY <1>2, <2>3 DEF HandedOver
  <2>5. BeginningsAreKept' /\ SaidIsHeld'
    BY <1>4, <2>1 DEF buildVars
  <2>6. QED
    BY <1>3, <2>2, <2>4, <2>5 DEF BuildersAreKept
<1>10. QED
  BY <1>1, <1>5, <1>6, <1>7, <1>8, <1>9 DEF BuildNext

\* It holds as long as builders and transpilers run.
LEMMA BuildersAreKeptAlways == BuildSpec => []BuildersAreKept
BY BuildersAreKeptFirst, BuildersAreKeptNext, PTL DEF BuildSpec

\* A transpiler alone keeps its results, and one behind builders too.
LEMMA ResultsAreKeptAlways == Spec \/ BuildSpec => []ResultsAreKept
<1>1. Init => ResultsAreKept
  BY DEF Init, ResultsAreKept, Answered
<1>2. Spec => []ResultsAreKept
  BY <1>1, ResultsAreKeptNext, PTL DEF Spec
<1>3. BuildersAreKept => ResultsAreKept
  BY DEF BuildersAreKept
<1>4. QED
  BY <1>2, <1>3, BuildersAreKeptAlways, PTL

\* The placeholders of the SQL text are for the arguments beside it, in order, for
\* every clause, however deep and in every order of the range.
THEOREM ArgumentsFollow == Spec \/ BuildSpec => []ArgumentsFollowPlaceholders
<1>1. ResultsAreKept => ArgumentsFollowPlaceholders
  BY SqlWhereFits, FitsNothing DEF ResultsAreKept, ArgumentsFollowPlaceholders, Fits
<1>2. QED
  BY <1>1, ResultsAreKeptAlways, PTL

\* The transpilers refuse the same clauses, but for odd ones.
THEOREM TheyRefuseAlike == Spec \/ BuildSpec => []RefusedAlike
<1>1. ResultsAreKept => RefusedAlike
  BY ErrorsOfClauses DEF ResultsAreKept, RefusedAlike, Nothing, Result, Accepted
<1>2. QED
  BY <1>1, ResultsAreKeptAlways, PTL

\* A row that a plain clause selects in SQL, it selects in MongoDB.
THEOREM SqlRowsAreInMongo == Spec \/ BuildSpec => []SqlRowsAreMongoRows
<1>1. ResultsAreKept => SqlRowsAreMongoRows
  <2>1. ASSUME ResultsAreKept, Answered, Plain(where)
        PROVE  selected.sql => selected.mongo
    <3>1. PICK s, m : s = (~sql.error /\ SqlSelects(sql, row)) /\ m = (~mongo.error /\ MongoSelects(mongo.filter, row))
      OBVIOUS
    <3>2. /\ where \in Clauses /\ row \in Rows
          /\ sql = SqlWhere[where] /\ mongo = MongoWhere[where]
          /\ selected = [sql |-> s, mongo |-> m]
      BY <2>1, <3>1 DEF ResultsAreKept, Answered
    <3>3. ClauseAgrees(where, row)
      BY <2>1, <3>2, PlainClauses
    <3>4. s => m
      BY <3>1, <3>2, <3>3 DEF ClauseAgrees, SubAgrees, Agrees
    <3>5. selected.sql = s /\ selected.mongo = m
      BY <3>2
    <3>6. QED
      BY <3>4, <3>5, Zenon
  <2>2. QED
    BY <2>1 DEF SqlRowsAreMongoRows
<1>2. QED
  BY <1>1, ResultsAreKeptAlways, PTL

\* On a row without nulls a plain clause selects in both what it says.
LEMMA ResultsAgree == ResultsAreKept => PlainClausesAgree
<1>1. SUFFICES ASSUME ResultsAreKept, Answered, Plain(where), NullFree(row)
               PROVE  /\ selected.sql = Holds(where, row)
                      /\ Even(where) => selected.mongo = Holds(where, row)
  BY DEF PlainClausesAgree
<1>2. /\ where \in Clauses /\ row \in Rows
      /\ sql = SqlWhere[where] /\ mongo = MongoWhere[where]
      /\ selected.sql = (~sql.error /\ SqlSelects(sql, row))
      /\ selected.mongo = (~mongo.error /\ MongoSelects(mongo.filter, row))
  BY <1>1 DEF ResultsAreKept, Answered
<1>3. ClauseAgrees(where, row)
  BY <1>1, <1>2, PlainClauses
<1>4. SqlSelects(sql, row) <=> Holds(where, row)
  BY <1>1, <1>2, <1>3 DEF ClauseAgrees, SubAgrees, Exact, Holds
<1>5. Even(where) => (MongoSelects(mongo.filter, row) <=> Holds(where, row))
  BY <1>1, <1>2, <1>3 DEF ClauseAgrees, SubAgrees, Agrees, Exact, Holds, Three, KindIf
<1>6. ~sql.error /\ ~mongo.error
  BY <1>2, <1>3 DEF ClauseAgrees, SubAgrees
<1>7. (~sql.error /\ SqlSelects(sql, row)) = Holds(where, row)
  BY <1>4, <1>6 DEF Holds, SqlSelects
<1>8. Even(where) => (~mongo.error /\ MongoSelects(mongo.filter, row)) = Holds(where, row)
  BY <1>5, <1>6 DEF Holds
<1>9. QED
  BY <1>2, <1>7, <1>8, Zenon

\* ... and so in every behaviour.
THEOREM PlainClausesAgreeAlways == Spec \/ BuildSpec => []PlainClausesAgree
BY ResultsAgree, ResultsAreKeptAlways, PTL

\* A query that Build handed out says what the calls on it say, those after Build
\* included, whatever is done with the caller's map and with other queries, for any
\* number of builders and calls.
THEOREM BuiltClausesSayTheirCalls == BuildSpec => []BuiltClauseSaysItsCalls
<1>1. BuildersAreKept => BuiltClauseSaysItsCalls
  <2>1. SUFFICES ASSUME BuildersAreKept, Answered, asked # Nil, Plain(where)
                 PROVE  /\ (first[asked] # Nil /\ ~OrBeside(first[asked]) /\ (lent > 1 => Lists(wrote) = {})) =>
                              /\ selected.sql = (row \in said[asked])
                              /\ Even(where) => selected.mongo = (row \in said[asked])
                        /\ Lists(wrote) = {} => map = wrote
    BY DEF BuiltClauseSaysItsCalls
  <2>2. BeginningsAreKept /\ SaidIsHeld /\ HandedOver /\ PlainClausesAgree
    BY <2>1, ResultsAgree DEF BuildersAreKept
  <2>3. Lists(wrote) = {} => map = wrote
    BY <2>2 DEF BeginningsAreKept
  <2>4. ASSUME first[asked] # Nil, ~OrBeside(first[asked]), lent > 1 => Lists(wrote) = {}
        PROVE  /\ selected.sql = (row \in said[asked])
               /\ Even(where) => selected.mongo = (row \in said[asked])
    <3>1. asked \in Queries /\ NullFree(row)
      BY <2>1, <2>2 DEF HandedOver
    <3>2. held[asked].map # Nil
      BY <2>2, <2>4, <3>1 DEF BeginningsAreKept
    <3>3. lent <= 1 \/ Lists(wrote) = {}
      BY <2>2, <2>4 DEF BeginningsAreKept
    <3>4. Meant[where] = said[asked]
      BY <2>1, <2>2, <2>4, <3>1, <3>2, <3>3 DEF SaidIsHeld, HandedOver
    <3>5. selected.sql = Holds(where, row) /\ (Even(where) => selected.mongo = Holds(where, row))
      BY <2>1, <2>2, <3>1 DEF PlainClausesAgree
    <3>6. QED
      BY <3>4, <3>5 DEF Holds
  <2>5. QED
    BY <2>3, <2>4
<1>2. QED
  BY <1>1, BuildersAreKeptAlways, PTL
=============================================================================
