------------------------- MODULE MongoAdapterProofs -------------------------
(***************************************************************************)
(* Theorems about the MongoDB adapters, for any number of clients, any     *)
(* requests, any stored documents and any combination of faults.           *)
(***************************************************************************)
EXTENDS MongoAdapter, FiniteSetTheorems, FunctionTheorems, TLAPS

(***************************************************************************)
(* The largest id, which getNextID asks the server for.                    *)
(***************************************************************************)

\* A finite set of integers that is not empty has a largest element: of the sets
\* of those above one of them, a smallest is empty.
LEMMA LargestExists ==
    ASSUME NEW D \in SUBSET Int, IsFiniteSet(D), D # {}
    PROVE  LargestId(D) \in D /\ \A j \in D : j <= LargestId(D)
<1> DEFINE Above(k) == {j \in D : j > k}
           Uppers == {U \in SUBSET D : \E k \in D : U = Above(k)}
<1>1. Uppers # {}
  <2>1. PICK k \in D : TRUE
    OBVIOUS
  <2>2. Above(k) \in Uppers
    BY <2>1
  <2>3. QED
    BY <2>2
<1>2. IsWellFoundedOn(StrictSubsetOrdering(D), SUBSET D)
  BY FS_StrictSubsetOrderingWellFounded, FS_FiniteSubsetsOfFinite
<1>3. Uppers \subseteq SUBSET D
  OBVIOUS
<1>4. PICK U \in Uppers : \A V \in Uppers : <<V, U>> \notin StrictSubsetOrdering(D)
  <2> HIDE DEF Uppers
  <2>1. QED
    BY <1>1, <1>2, <1>3, WFMin
<1>5. PICK k \in D : U = Above(k)
  BY <1>4
<1>6. \A j \in D : j <= k
  <2>1. SUFFICES ASSUME NEW j \in D, j > k PROVE FALSE
    OBVIOUS
  <2>2. Above(j) \subseteq U /\ j \in U /\ j \notin Above(j)
    <3>1. j \in Int /\ k \in Int /\ \A i \in D : i \in Int
      OBVIOUS
    <3>2. \A i \in D : i > j => i > k
      BY <2>1, <3>1
    <3>3. ~(j > j)
      BY <3>1
    <3>4. QED
      BY <1>5, <2>1, <3>2, <3>3
  <2>3. Above(j) \in Uppers
    OBVIOUS
  <2>4. <<Above(j), U>> \in StrictSubsetOrdering(D)
    <3>1. Above(j) \in SUBSET D /\ U \in SUBSET D /\ Above(j) # U
      BY <2>2, <1>4
    <3> HIDE DEF Above
    <3>2. QED
      BY <3>1, <2>2 DEF StrictSubsetOrdering
  <2>5. QED
    BY <1>4, <2>3, <2>4
<1>7. QED
  BY <1>6 DEF LargestId

\* No _id occurs twice.
KeyedApart(D) == \A d, e \in D : d.key = e.key => d = e

\* A collection keyed apart is finite, as the requests and the first documents are.
LEMMA KeyedFinite ==
    ASSUME NEW D \in SUBSET Doc, KeyedApart(D)
    PROVE  IsFiniteSet(D)
<1> DEFINE f == [d \in D |-> d.key]
<1>1. f \in Injection(D, Origins \cup Req)
  <2>1. f \in [D -> Origins \cup Req]
    BY DEF Doc
  <2>2. \A d, e \in D : f[d] = f[e] => d = e
    BY DEF KeyedApart
  <2> HIDE DEF f
  <2>3. QED
    BY <2>1, <2>2 DEF Injection, IsInjective
<1>2. IsFiniteSet(Origins \cup Req)
  BY OriginsFinite, FS_Union
<1> HIDE DEF f
<1>3. QED
  BY <1>1, <1>2, FS_Injection

\* The numbers among the ids of a finite collection are finitely many.
LEMMA NumbersFinite ==
    ASSUME NEW D \in SUBSET Doc, IsFiniteSet(D)
    PROVE  NumbersIn(D) \in SUBSET (Nat \ {0}) /\ IsFiniteSet(NumbersIn(D))
<1> DEFINE ids == {d.id : d \in D}
           f == [d \in D |-> d.id]
<1>1. f \in Surjection(D, ids)
  BY DEF Surjection
<1>2. IsFiniteSet(ids)
  <2> HIDE DEF f, ids
  <2>1. QED
    BY <1>1, FS_Surjection
<1>3. NumbersIn(D) \subseteq ids
  BY DEF NumbersIn
<1>4. IsFiniteSet(NumbersIn(D))
  <2> HIDE DEF ids
  <2>1. QED
    BY <1>2, <1>3, FS_Subset
<1>5. NumbersIn(D) \subseteq Nat \ {0}
  BY DEF NumbersIn, Doc, Id
<1>6. QED
  BY <1>4, <1>5

\* getNextID returns a positive number, which no document has - unless some id is
\* a string, for then it cannot tell.
LEMMA NextIdFresh ==
    ASSUME docs \subseteq Doc, KeyedApart(docs)
    PROVE  /\ NextId \in Nat \ {0}
           /\ (\A d \in docs : d.id # TextId) => \A d \in docs : d.id # NextId
<1> DEFINE N == NumbersIn(docs)
<1>1. N \in SUBSET (Nat \ {0}) /\ IsFiniteSet(N)
  BY KeyedFinite, NumbersFinite
<1>2. N # {} => LargestId(N) \in N /\ \A j \in N : j <= LargestId(N)
  <2> HIDE DEF N
  <2>1. QED
    BY <1>1, LargestExists
<1>3. NextId = IF TextId \in {d.id : d \in docs} \/ N = {} THEN 1 ELSE LargestId(N) + 1
  BY DEF NextId
<1>4. /\ NextId \in Nat \ {0}
      /\ TextId \notin {d.id : d \in docs} => \A j \in N : j \in Nat /\ j < NextId
  <2> DEFINE top == LargestId(N)
  <2> HIDE DEF N, top
  <2>1. N # {} => top \in Nat /\ \A j \in N : j \in Nat /\ j <= top
    BY <1>1, <1>2 DEF top
  <2>2. \/ N = {} /\ NextId = 1
        \/ TextId \in {d.id : d \in docs} /\ NextId = 1
        \/ N # {} /\ NextId = top + 1
    BY <1>3 DEF top
  <2>3. QED
    BY <2>1, <2>2
<1>5. ASSUME \A d \in docs : d.id # TextId, NEW d \in docs
      PROVE  d.id # NextId
  <2>1. d.id \in N \/ d.id = NoId
    BY <1>5 DEF NumbersIn
  <2>2. TextId \notin {e.id : e \in docs}
    BY <1>5
  <2> HIDE DEF N
  <2>3. d.id \in N => d.id # NextId
    BY <1>4, <2>2
  <2>4. QED
    BY <2>1, <2>3, <1>4, SpecialIds
<1>6. QED
  BY <1>4, <1>5
-----------------------------------------------------------------------------
(***************************************************************************)
(* What one visit of an UpdateMany or DeleteMany does.                     *)
(***************************************************************************)

\* The visit of _id k of r's UpdateMany: what is there afterwards is what was there
\* and is not to be rewritten, or a rewritten document.
Rewrites(r, k, d) ==
    \/ d \in docs /\ (d.key = k => ~Matches(d, input[r].filter))
    \/ \E old \in docs : old.key = k /\ d = Patched(old, r)

\* A visit of UpdateMany rewrites the document under one _id of its list, if it is
\* there and still matches, and no other.
LEMMA UpdateOneDoes ==
    ASSUME TypeOK, NEW r \in Req, UpdateOne(r)
    PROVE  /\ pc[r] = "updating"
           /\ UNCHANGED <<adapter, pc, input, found, answer, generated, blind, doneBefore>>
           /\ \E k \in todo[r] :
                 /\ todo' = [todo EXCEPT ![r] = @ \ {k}]
                 /\ wrote' \in [Req -> SUBSET (Origins \cup Req)]
                 /\ \A s \in Req : s # r => wrote'[s] = wrote[s]
                 /\ \A d \in docs' : Rewrites(r, k, d)
<1> DEFINE Hit(k) == {d \in Matching(input[r].filter) : d.key = k}
           Written(hit) == {Patched(d, r) : d \in hit}
           Changed(k) == {d \in Hit(k) :
                            \A e \in Written(Hit(k)) : <<e.id, e.val>> # <<d.id, d.val>>}
<1>1. PICK k \in todo[r] :
         /\ docs' = (docs \ Hit(k)) \cup Written(Hit(k))
         /\ wrote' = [wrote EXCEPT ![r] = @ \cup KeysOf(Changed(k))]
         /\ todo' = [todo EXCEPT ![r] = @ \ {k}]
  BY DEF UpdateOne, Visit
<1>2. \A d \in docs' :
         \/ d \in docs \ Hit(k)
         \/ \E old \in Hit(k) : d = Patched(old, r)
  BY <1>1
<1>3. KeysOf(Changed(k)) \in SUBSET (Origins \cup Req)
  BY DEF TypeOK, Doc, KeysOf, Matching
<1>4. wrote' \in [Req -> SUBSET (Origins \cup Req)] /\ \A s \in Req : s # r => wrote'[s] = wrote[s]
  <2> HIDE DEF Changed
  <2>1. QED
    BY <1>1, <1>3 DEF TypeOK
<1>5. \A d \in docs' : Rewrites(r, k, d)
  BY <1>2 DEF Matching, Rewrites
<1>6. pc[r] = "updating" /\ UNCHANGED <<adapter, pc, input, found, answer, generated, blind, doneBefore>>
  BY DEF UpdateOne, Visit
<1>7. QED
  BY <1>1, <1>4, <1>5, <1>6

\* A visit of DeleteMany removes the document under one _id of its list, if it is
\* there and still matches, and counts it if it did.
LEMMA DeleteOneDoes ==
    ASSUME TypeOK, NEW r \in Req, DeleteOne(r)
    PROVE  /\ pc[r] = "deleting"
           /\ UNCHANGED <<adapter, pc, input, found, answer, generated, blind, doneBefore>>
           /\ \E k \in todo[r] :
                 LET hit == {d \in Matching(input[r].filter) : d.key = k} IN
                 /\ docs' = docs \ hit
                 /\ wrote' = [wrote EXCEPT ![r] = @ \cup KeysOf(hit)]
                 /\ todo' = [todo EXCEPT ![r] = @ \ {k}]
<1> DEFINE Hit(k) == {d \in Matching(input[r].filter) : d.key = k}
           Written(hit) == {}
           Changed(k) == {d \in Hit(k) :
                            \A e \in Written(Hit(k)) : <<e.id, e.val>> # <<d.id, d.val>>}
<1>1. PICK k \in todo[r] :
         /\ docs' = (docs \ Hit(k)) \cup Written(Hit(k))
         /\ wrote' = [wrote EXCEPT ![r] = @ \cup KeysOf(Changed(k))]
         /\ todo' = [todo EXCEPT ![r] = @ \ {k}]
  BY DEF DeleteOne, Visit
<1>2. Changed(k) = Hit(k) /\ docs' = docs \ Hit(k)
  BY <1>1
<1>3. pc[r] = "deleting" /\ UNCHANGED <<adapter, pc, input, found, answer, generated, blind, doneBefore>>
  BY DEF DeleteOne, Visit
<1>4. QED
  BY <1>1, <1>2, <1>3
-----------------------------------------------------------------------------
(***************************************************************************)
(* Type correctness.  The next id is a number only because the collection  *)
(* is finite, and it is because no _id occurs twice: the type invariant is *)
(* inductive together with KeysInv.                                        *)
(***************************************************************************)

\* A request's own document, if any, is there only once it has been inserted.
KeysInv ==
    /\ KeyedApart(docs)
    /\ \A d \in docs : d.key \in Req => pc[d.key] \in {"after", "done"}

\* A refusal is an answer with its status and no documents.
LEMMA RefusalTyped ==
    ASSUME NEW status \in {400, 500}
    PROVE  LET ans == [NoAnswer EXCEPT !.status = status] IN
           ans \in Answer /\ ans.status = status /\ ans.docs = {} /\ ans.count = 0
BY DEF NoAnswer, Answer

\* The result of the After hook is an answer: the server counts a finite number.
LEMMA ResultTyped ==
    ASSUME TypeOK, NEW r \in Req
    PROVE  Result(r) \in Answer /\ Result(r).status = 200 /\ Result(r).docs = found[r]
<1>1. wrote[r] \subseteq Origins \cup Req /\ found[r] \subseteq Doc
  BY DEF TypeOK
<1>2. IsFiniteSet(Origins \cup Req)
  BY OriginsFinite, FS_Union
<1>3. IsFiniteSet(wrote[r])
  BY <1>1, <1>2, FS_Subset
<1>4. Cardinality(wrote[r]) \in Nat
  BY <1>3, FS_CardinalityType
<1>5. QED
  BY <1>1, <1>4 DEF Result, Answer

\* The documents that match are documents, and their _ids are _ids.
LEMMA MatchingTyped ==
    ASSUME TypeOK, NEW f
    PROVE  Matching(f) \subseteq docs /\ KeysOf(Matching(f)) \subseteq Origins \cup Req
BY DEF TypeOK, Matching, KeysOf, Doc

\* A document an update rewrites keeps its _id and carries the patch; its id is the
\* old one from whoever it was, or the patch's from the request that patches.
LEMMA PatchedTyped ==
    ASSUME TypeOK, NEW old \in docs, NEW r \in Req
    PROVE  LET d == Patched(old, r) IN
           /\ d \in Doc /\ d.key = old.key /\ d.by = r /\ Carries(d, input[r])
           /\ \/ d.id = old.id /\ d.idBy = old.idBy
              \/ d.idBy = r
<1>1. old \in Doc /\ input[r].val \in Vals /\ input[r].id \in Id
  BY DEF TypeOK, Input
<1> DEFINE v == IF "val" \in input[r].cols THEN input[r].val ELSE old.val
           n == IF "id" \in input[r].cols THEN input[r].id ELSE old.id
           b == IF "id" \in input[r].cols THEN r ELSE old.idBy
<1>2. /\ v \in Vals /\ n \in Id /\ b \in Origins \cup Req
      /\ "val" \in input[r].cols => v = input[r].val
      /\ "id" \in input[r].cols => n = input[r].id
      /\ \/ n = old.id /\ b = old.idBy
         \/ b = r
  BY <1>1 DEF Doc
<1>3. Patched(old, r) = [old EXCEPT !.val = v, !.id = n, !.idBy = b, !.by = r]
  BY DEF Patched
<1>4. QED
  <2> HIDE DEF v, n, b
  <2>1. QED  BY <1>1, <1>2, <1>3 DEF Doc, Carries

\* The body with the id that getNextID made is a body for the same operation.
LEMMA WithIdTyped ==
    ASSUME NEW i \in Input, NEW id \in Id
    PROVE  /\ WithId(i, id) \in Input
           /\ WithId(i, id).kind = i.kind
           /\ WithId(i, id).id = id
<1>1. PICK c \in SUBSET Fields : WithId(i, id) = [i EXCEPT !.id = id, !.cols = c]
  BY DEF WithId, Input, Fields
<1>2. QED
  BY <1>1 DEF Input

\* getNextID changes only the id of the body, which is a create's.
LEMMA GetNextIdKeeps ==
    ASSUME TypeOK, NEW r \in Req, GetNextId(r)
    PROVE  /\ pc[r] = "nextid" /\ pc'[r] = "insert"
           /\ input'[r].kind = input[r].kind
           /\ input'[r].filter = input[r].filter
           /\ UNCHANGED <<docs, found, todo, answer, wrote, doneBefore>>
<1>1. \A i \in Input : \A id :
         WithId(i, id).kind = i.kind /\ WithId(i, id).filter = i.filter
  BY DEF WithId, Input
<1>2. PICK id : input' = [input EXCEPT ![r] = WithId(@, id)]
  BY DEF GetNextId
<1>3. input'[r] = WithId(input[r], id) /\ input[r] \in Input
  BY <1>2 DEF TypeOK
<1>4. QED
  BY <1>1, <1>3 DEF GetNextId, Goto, TypeOK

\* The server starts with the stored documents and no request.
LEMMA InitTyped == Init => TypeOK /\ KeysInv
<1> SUFFICES ASSUME Init PROVE TypeOK /\ KeysInv
  OBVIOUS
<1>1. (CHOOSE i \in Inputs : TRUE) \in Input
  BY InputsTyped
<1>2. NoAnswer \in Answer
  BY DEF NoAnswer, Answer
<1>3. docs \subseteq Doc /\ adapter \in Adapters /\ generated = {} /\ blind = {}
  BY StoredTyped DEF Init
<1>4. TypeOK
  BY <1>1, <1>2, <1>3 DEF Init, TypeOK, Phases
<1>5. KeysInv
  BY StoredKeyed, StoredTyped, OriginsAreNoRequests DEF Init, KeysInv, KeyedApart
<1>6. QED
  BY <1>4, <1>5

\* Every step of handler, driver or server keeps the declared types.
LEMMA StepTyped == TypeOK /\ KeysInv /\ [Next]_vars => TypeOK'
<1> SUFFICES ASSUME TypeOK, KeysInv, [Next]_vars PROVE TypeOK'
  OBVIOUS
<1>1. ASSUME NEW r \in Req, Arrive(r) PROVE TypeOK'
  <2>1. input' \in [Req -> Input] /\ doneBefore' \in [Req -> SUBSET Req]
    BY <1>1, InputsTyped DEF Arrive, Answered, TypeOK
  <2>2. QED
    BY <1>1, <2>1 DEF Arrive, Goto, Phases, TypeOK
<1>2. ASSUME NEW r \in Req, BeforeHook(r) PROVE TypeOK'
  <2>1. input' \in [Req -> Input]
    BY <1>2, InputsTyped DEF BeforeHook, TypeOK
  <2>2. \A i \in Input : i.kind # "bad" => FirstCall(i) \in Phases
    BY DEF FirstCall, FirstCallNative, FirstCallHttp, Phases, Input, Kinds
  <2>3. pc' \in [Req -> Phases]
    BY <1>2, <2>2, InputsTyped DEF BeforeHook, Refuses, Answers, Goto, TypeOK, Phases
  <2>4. answer' \in [Req -> Answer]
    BY <1>2, RefusalTyped DEF BeforeHook, Refuses, Answers, TypeOK
  <2>5. QED
    BY <1>2, <2>1, <2>3, <2>4 DEF BeforeHook, rest, TypeOK
<1>3. ASSUME NEW r \in Req, GetNextId(r) PROVE TypeOK'
  <2>1. NextId \in Id /\ 1 \in Id
    BY NextIdFresh DEF TypeOK, KeysInv, Id
  <2>2. input' \in [Req -> Input]
    <3>1. PICK k \in Id : input' = [input EXCEPT ![r] = WithId(@, k)]
      BY <1>3, <2>1 DEF GetNextId
    <3>2. QED
      BY <3>1, WithIdTyped DEF TypeOK
  <2>3. blind' \subseteq generated' /\ generated' \subseteq Req
    BY <1>3 DEF GetNextId, TypeOK
  <2>4. QED
    BY <1>3, <2>2, <2>3 DEF GetNextId, Goto, Phases, TypeOK
<1>4. ASSUME NEW r \in Req, InsertOne(r) PROVE TypeOK'
  <2>1. NewDoc(r) \in Doc
    BY DEF NewDoc, Doc, TypeOK, Input
  <2>2. docs' \subseteq Doc /\ wrote' \in [Req -> SUBSET (Origins \cup Req)]
    BY <1>4, <2>1 DEF InsertOne, TypeOK
  <2>3. found' \in [Req -> SUBSET Doc]
    BY <1>4, <2>1 DEF InsertOne, TypeOK
  <2>4. pc' \in [Req -> Phases] /\ answer' \in [Req -> Answer]
    BY <1>4, RefusalTyped DEF InsertOne, DriverFails, Refuses, Answers, Goto, TypeOK, Phases
  <2>5. QED
    BY <1>4, <2>2, <2>3, <2>4 DEF InsertOne, TypeOK
<1>5. ASSUME NEW r \in Req, UpdateMany(r) \/ DeleteMany(r) PROVE TypeOK'
  <2>1. PICK phase \in Phases, next \in Phases : StartMany(r, phase, next)
    BY <1>5 DEF UpdateMany, DeleteMany, Phases
  <2>2. todo' \in [Req -> SUBSET (Origins \cup Req)]
    BY <2>1, MatchingTyped DEF StartMany, TypeOK
  <2>3. pc' \in [Req -> Phases] /\ answer' \in [Req -> Answer]
    BY <2>1, RefusalTyped DEF StartMany, DriverFails, Refuses, Answers, Goto, TypeOK, Phases
  <2>4. QED
    BY <2>1, <2>2, <2>3 DEF StartMany, rest, TypeOK
<1>6. ASSUME NEW r \in Req, UpdateOne(r) PROVE TypeOK'
  <2>2. PICK k \in todo[r] :
            /\ todo' = [todo EXCEPT ![r] = @ \ {k}]
            /\ wrote' \in [Req -> SUBSET (Origins \cup Req)]
            /\ \A d \in docs' : Rewrites(r, k, d)
    BY <1>6, UpdateOneDoes
  <2>3. docs' \subseteq Doc
    <3>1. SUFFICES ASSUME NEW d \in docs' PROVE d \in Doc
      OBVIOUS
    <3>2. ASSUME NEW old \in docs, d = Patched(old, r)
          PROVE  d \in Doc
      BY <3>2, PatchedTyped
    <3>3. QED
      BY <2>2, <3>2 DEF TypeOK, Rewrites
  <2>4. todo' \in [Req -> SUBSET (Origins \cup Req)]
    BY <2>2 DEF TypeOK
  <2>5. UNCHANGED <<adapter, pc, input, found, answer, generated, blind, doneBefore>>
    BY <1>6, UpdateOneDoes
  <2>6. QED
    BY <2>2, <2>3, <2>4, <2>5 DEF TypeOK
<1>7. ASSUME NEW r \in Req, DeleteOne(r) PROVE TypeOK'
  <2>1. PICK k \in todo[r], hit \in SUBSET docs :
            /\ docs' = docs \ hit
            /\ wrote' = [wrote EXCEPT ![r] = @ \cup KeysOf(hit)]
            /\ todo' = [todo EXCEPT ![r] = @ \ {k}]
    BY <1>7, DeleteOneDoes DEF Matching
  <2>2. KeysOf(hit) \subseteq Origins \cup Req
    BY DEF KeysOf, TypeOK, Doc
  <2>3. /\ docs' \subseteq Doc
        /\ wrote' \in [Req -> SUBSET (Origins \cup Req)]
        /\ todo' \in [Req -> SUBSET (Origins \cup Req)]
    BY <2>1, <2>2 DEF TypeOK
  <2>4. UNCHANGED <<adapter, pc, input, found, answer, generated, blind, doneBefore>>
    BY <1>7, DeleteOneDoes
  <2>5. QED
    BY <2>3, <2>4 DEF TypeOK
<1>8. ASSUME NEW r \in Req, UpdateDone(r) \/ DeleteDone(r) PROVE TypeOK'
  <2>1. PICK phase \in Phases, next \in Phases : EndMany(r, phase, next)
    BY <1>8 DEF UpdateDone, DeleteDone, Phases
  <2>2. todo' \in [Req -> SUBSET (Origins \cup Req)]
    BY <2>1 DEF EndMany, TypeOK
  <2>3. pc' \in [Req -> Phases] /\ answer' \in [Req -> Answer]
    BY <2>1, RefusalTyped DEF EndMany, DriverFails, Refuses, Answers, Goto, TypeOK, Phases
  <2>4. QED
    BY <2>1, <2>2, <2>3 DEF EndMany, rest, TypeOK
<1>9. ASSUME NEW r \in Req, Requery(r) \/ Prefetch(r) \/ Find(r) PROVE TypeOK'
  <2>1. PICK phase \in Phases, next \in Phases : FindAll(r, phase, next)
    BY <1>9 DEF Requery, Prefetch, Find, Phases
  <2>2. found' \in [Req -> SUBSET Doc]
    BY <2>1, MatchingTyped DEF FindAll, TypeOK
  <2>3. pc' \in [Req -> Phases] /\ answer' \in [Req -> Answer]
    BY <2>1, RefusalTyped DEF FindAll, DriverFails, Refuses, Answers, Goto, TypeOK, Phases
  <2>4. QED
    BY <2>1, <2>2, <2>3 DEF FindAll, rest, TypeOK
<1>10. ASSUME NEW r \in Req, AfterHook(r) PROVE TypeOK'
  <2>1. answer' \in [Req -> Answer]
    <3>1. Result(r) \in Answer
      BY ResultTyped
    <3>2. QED
      BY <1>10, <3>1, RefusalTyped DEF AfterHook, Refuses, Answers, TypeOK
  <2>2. pc' \in [Req -> Phases]
    BY <1>10 DEF AfterHook, Refuses, Answers, Goto, TypeOK, Phases
  <2>3. QED
    BY <1>10, <2>1, <2>2 DEF AfterHook, rest, TypeOK
<1>11. CASE UNCHANGED vars
  BY <1>11 DEF vars, TypeOK
<1>12. QED
  BY <1>1, <1>2, <1>3, <1>4, <1>5, <1>6, <1>7, <1>8, <1>9, <1>10, <1>11
  DEF Next, Step, AllAnswered

\* A request's goroutine writes its own state and no other's.
LEMMA OthersUntouched ==
    ASSUME TypeOK, NEW r \in Req, NEW s \in Req, s # r, Arrive(s) \/ Step(s)
    PROVE  /\ pc'[r] = pc[r] /\ input'[r] = input[r] /\ found'[r] = found[r]
           /\ todo'[r] = todo[r] /\ answer'[r] = answer[r] /\ wrote'[r] = wrote[r]
           /\ doneBefore'[r] = doneBefore[r]
           /\ r \in generated' <=> r \in generated
           /\ r \in blind' <=> r \in blind
           /\ adapter' = adapter
<1>1. CASE Arrive(s)
  BY <1>1 DEF Arrive, Goto, TypeOK
<1>2. CASE BeforeHook(s)
  BY <1>2 DEF BeforeHook, Refuses, Answers, Goto, rest, TypeOK
<1>3. CASE GetNextId(s)
  BY <1>3 DEF GetNextId, Goto, TypeOK
<1>4. CASE InsertOne(s)
  BY <1>4 DEF InsertOne, DriverFails, Refuses, Answers, Goto, TypeOK
<1>5. CASE UpdateMany(s) \/ DeleteMany(s)
  BY <1>5 DEF UpdateMany, DeleteMany, StartMany, DriverFails, Refuses, Answers, Goto, rest, TypeOK
<1>6. CASE UpdateOne(s)
  <2>1. PICK k \in todo[s] :
            /\ todo' = [todo EXCEPT ![s] = @ \ {k}]
            /\ \A q \in Req : q # s => wrote'[q] = wrote[q]
    BY <1>6, UpdateOneDoes
  <2>2. UNCHANGED <<adapter, pc, input, found, answer, generated, blind, doneBefore>>
    BY <1>6, UpdateOneDoes
  <2>3. QED
    BY <2>1, <2>2 DEF TypeOK
<1>7. CASE DeleteOne(s)
  <2>1. PICK k \in todo[s] :
            /\ todo' = [todo EXCEPT ![s] = @ \ {k}]
            /\ \E W : wrote' = [wrote EXCEPT ![s] = W]
    BY <1>7, DeleteOneDoes
  <2>2. UNCHANGED <<adapter, pc, input, found, answer, generated, blind, doneBefore>>
    BY <1>7, DeleteOneDoes
  <2>3. QED
    BY <2>1, <2>2 DEF TypeOK
<1>8. CASE UpdateDone(s) \/ DeleteDone(s)
  BY <1>8 DEF UpdateDone, DeleteDone, EndMany, DriverFails, Refuses, Answers, Goto, rest, TypeOK
<1>9. CASE Requery(s) \/ Prefetch(s) \/ Find(s)
  BY <1>9 DEF Requery, Prefetch, Find, FindAll, DriverFails, Refuses, Answers, Goto, rest, TypeOK
<1>10. CASE AfterHook(s)
  BY <1>10 DEF AfterHook, Refuses, Answers, Goto, rest, TypeOK
<1>11. QED
  BY <1>1, <1>2, <1>3, <1>4, <1>5, <1>6, <1>7, <1>8, <1>9, <1>10 DEF Step

\* Once its driver calls are over a request has only its answer to give.
LEMMA StaysOver ==
    ASSUME TypeOK, [Next]_vars, NEW r \in Req, pc[r] \in {"after", "done"}
    PROVE  pc'[r] \in {"after", "done"}
<1>1. CASE UNCHANGED vars
  BY <1>1 DEF vars
<1>2. ASSUME NEW s \in Req, s # r, Arrive(s) \/ Step(s)
      PROVE  pc'[r] \in {"after", "done"}
  BY <1>2, OthersUntouched
<1>3. CASE Arrive(r) \/ Step(r)
  <2>1. pc' = [pc EXCEPT ![r] = "done"]
    <3>1. ~(UpdateOne(r) \/ DeleteOne(r))
      BY UpdateOneDoes, DeleteOneDoes
    <3>2. QED
      BY <1>3, <3>1
      DEF Step, Arrive, BeforeHook, GetNextId, InsertOne, UpdateMany, DeleteMany, StartMany,
          UpdateDone, DeleteDone, EndMany, Requery, Prefetch, Find, FindAll,
          AfterHook, Refuses, Answers, Goto
  <2>2. QED
    BY <2>1 DEF TypeOK
<1>4. QED
  BY <1>1, <1>2, <1>3 DEF Next, AllAnswered

\* The collection changes only when an unanswered request inserts its document,
\* rewrites one or removes some.
LEMMA DocsStep ==
    ASSUME TypeOK, [Next]_vars
    PROVE  \/ docs' = docs
           \/ \E r \in Req :
                 \/ /\ InsertOne(r) /\ docs' = docs \cup {NewDoc(r)}
                    /\ pc'[r] \in {"after", "done"}
                 \/ UpdateOne(r) /\ \E k \in todo[r] : \A d \in docs' : Rewrites(r, k, d)
                 \/ DeleteOne(r) /\ docs' \subseteq docs
<1>1. ASSUME NEW r \in Req, InsertOne(r), docs' # docs
      PROVE  docs' = docs \cup {NewDoc(r)} /\ pc'[r] \in {"after", "done"}
  BY <1>1 DEF InsertOne, DriverFails, Refuses, Answers, Goto, TypeOK
<1>2. ASSUME NEW r \in Req, UpdateOne(r)
      PROVE  \E k \in todo[r] : \A d \in docs' : Rewrites(r, k, d)
  BY <1>2, UpdateOneDoes
<1>3. ASSUME NEW r \in Req, DeleteOne(r)
      PROVE  docs' \subseteq docs
  BY <1>3, DeleteOneDoes
<1>4. ASSUME NEW r \in Req,
             \/ Arrive(r) \/ BeforeHook(r) \/ GetNextId(r) \/ UpdateMany(r) \/ UpdateDone(r)
             \/ Requery(r) \/ Prefetch(r) \/ DeleteMany(r) \/ DeleteDone(r)
             \/ Find(r) \/ AfterHook(r)
      PROVE  docs' = docs
  BY <1>4 DEF Arrive, BeforeHook, GetNextId, UpdateMany, DeleteMany, StartMany, UpdateDone,
              DeleteDone, EndMany, Requery, Prefetch, Find, FindAll, AfterHook
<1>5. CASE UNCHANGED vars
  BY <1>5 DEF vars
<1>6. QED
  BY <1>1, <1>2, <1>3, <1>4, <1>5 DEF Next, Step, AllAnswered

\* The document d has the id it had, from whoever gave it.
Kept(d) == \E old \in docs : old.key = d.key /\ old.id = d.id /\ old.idBy = d.idBy

\* A visit keeps the documents it rewrites under their _ids.
LEMMA RewritesTyped ==
    ASSUME TypeOK, NEW r \in Req, NEW k, NEW d, Rewrites(r, k, d)
    PROVE  \/ d \in docs /\ (d.key = k => ~Matches(d, input[r].filter))
           \/ /\ Kept(d) \/ d.idBy = r
              /\ d.key = k /\ d.by = r /\ Carries(d, input[r])
<1>1. ASSUME NEW old \in docs, old.key = k, d = Patched(old, r)
      PROVE  /\ Kept(d) \/ d.idBy = r
             /\ d.key = k /\ d.by = r /\ Carries(d, input[r])
  BY <1>1, PatchedTyped DEF Kept
<1>2. QED
  BY <1>1 DEF Rewrites

\* A step keeps KeysInv: an insert uses an _id of its own, once, and a visit
\* changes no _id.
LEMMA KeysStep == TypeOK /\ KeysInv /\ [Next]_vars => KeysInv'
<1> SUFFICES ASSUME TypeOK, KeysInv, [Next]_vars PROVE KeysInv'
  OBVIOUS
<1>1. \A r \in Req : pc[r] \in {"after", "done"} => pc'[r] \in {"after", "done"}
  BY StaysOver
<1>2. CASE docs' \subseteq docs
  BY <1>1, <1>2 DEF KeysInv, KeyedApart
<1>3. ASSUME NEW r \in Req, InsertOne(r), docs' = docs \cup {NewDoc(r)},
             pc'[r] \in {"after", "done"}
      PROVE  KeysInv'
  <2>1. pc[r] = "insert"
    BY <1>3 DEF InsertOne
  <2>2. NewDoc(r).key = r /\ \A d \in docs : d.key # r
    BY <2>1 DEF KeysInv, NewDoc
  <2>3. QED
    BY <1>1, <1>3, <2>2 DEF KeysInv, KeyedApart
<1>4. ASSUME NEW r \in Req, UpdateOne(r) PROVE KeysInv'
  <2> DEFINE Hit(k) == {d \in Matching(input[r].filter) : d.key = k}
             Rewritten(d) == Patched(d, r)
  <2>1. PICK k : docs' = (docs \ Hit(k)) \cup {Rewritten(d) : d \in Hit(k)}
    BY <1>4 DEF UpdateOne, Visit
  <2>2. \A d \in docs : Rewritten(d).key = d.key
    BY PatchedTyped
  <2>3. Hit(k) \subseteq docs
    BY DEF Matching
  <2>4. KeyedApart(docs')
    <3> HIDE DEF Hit, Rewritten
    <3>1. SUFFICES ASSUME NEW d \in docs', NEW e \in docs', d.key = e.key PROVE d = e
      BY DEF KeyedApart
    <3>2. \A c \in docs' : c \in docs \ Hit(k) \/ \E old \in Hit(k) : c = Rewritten(old)
      BY <2>1
    <3>3. \A c \in docs' : \E old \in docs :
             old.key = c.key /\ c = IF old \in Hit(k) THEN Rewritten(old) ELSE old
      BY <2>2, <2>3, <3>2
    <3>4. QED
      BY <3>1, <3>3 DEF KeysInv, KeyedApart
  <2>5. \A d \in docs' : \E old \in docs : old.key = d.key
    <3> HIDE DEF Hit, Rewritten
    <3>1. QED
      BY <2>1, <2>2, <2>3
  <2>6. QED
    BY <1>1, <2>4, <2>5 DEF KeysInv
<1>5. QED
  BY <1>2, <1>3, <1>4, DocsStep

\* Every reachable state has the declared types, an id made by getNextID among
\* them, and no two documents share an _id.
THEOREM TypeCorrect == Spec => []TypeOK
<1>1. TypeOK /\ KeysInv /\ [Next]_vars => (TypeOK /\ KeysInv)'
  BY StepTyped, KeysStep
<1>2. QED
  BY InitTyped, <1>1, PTL DEF Spec
-----------------------------------------------------------------------------
(***************************************************************************)
(* The course of a request.                                                *)
(***************************************************************************)

\* Where a request is tells what it is, what it has left to visit and whether it
\* has an answer.
Progress(r) ==
    /\ answer[r].status # 0 <=> pc[r] = "done"
    /\ r \notin doneBefore[r]
    /\ r \in generated => pc[r] \in {"insert", "after", "done"}
    /\ pc[r] \in {"nextid", "insert"} => input[r].kind = "create"
    /\ pc[r] \in {"update", "updating", "requery"} => input[r].kind = "update"
    /\ pc[r] \in {"prefetch", "delete", "deleting"} => input[r].kind = "delete"
    /\ pc[r] = "find" => input[r].kind = "read"
    /\ pc[r] \notin {"updating", "deleting"} => todo[r] = {}

\* ... and the requests it follows have theirs.
ProgressInv == \A r \in Req : Progress(r) /\ doneBefore[r] \subseteq Answered

\* Before anything is sent, nothing has progressed.
LEMMA InitProgress == Init => ProgressInv
BY DEF Init, ProgressInv, Progress, NoAnswer, Answered

\* An operation starts with a driver call of its kind.
LEMMA FirstCallFits ==
    ASSUME NEW i \in Input, i.kind # "bad"
    PROVE  /\ FirstCall(i) \in {"nextid", "insert", "update", "prefetch", "delete", "find"}
           /\ FirstCall(i) \in {"nextid", "insert"} => i.kind = "create"
           /\ FirstCall(i) = "update" => i.kind = "update"
           /\ FirstCall(i) \in {"prefetch", "delete"} => i.kind = "delete"
           /\ FirstCall(i) = "find" => i.kind = "read"
           /\ FirstCall(i) = "delete" => ~Native
           /\ FirstCall(i) \in {"nextid", "prefetch"} => Native
<1>1. i.kind \in {"create", "update", "delete", "read"}
  BY DEF Input, Kinds
<1>2. QED
  BY <1>1 DEF FirstCall, FirstCallNative, FirstCallHttp

\* A request that is refused is over, with nothing to report.
LEMMA Refusal ==
    ASSUME TypeOK, NEW r \in Req, NEW status \in {400, 500}, Refuses(r, status)
    PROVE  pc'[r] = "done" /\ answer'[r].status = status /\ answer'[r].docs = {}
<1>1. pc' = [pc EXCEPT ![r] = "done"]
  BY DEF Refuses, Answers, Goto
<1>2. PICK ans : answer' = [answer EXCEPT ![r] = ans] /\ ans = [NoAnswer EXCEPT !.status = status]
  BY DEF Refuses, Answers
<1>3. ans.status = status /\ ans.docs = {}
  BY <1>2 DEF NoAnswer
<1>4. QED
  BY <1>1, <1>2, <1>3 DEF TypeOK

\* A request that acts progresses.
LEMMA ActorProgress ==
    ASSUME TypeOK, NEW r \in Req, Progress(r), Arrive(r) \/ Step(r)
    PROVE  Progress(r)'
<1> USE DEF Progress
<1>1. CASE Arrive(r)
  BY <1>1 DEF Arrive, Answered, Goto, TypeOK
<1>2. CASE BeforeHook(r)
  <2>1. CASE Refuses(r, 400) /\ UNCHANGED input
    BY <1>2, <2>1, RefusalTyped DEF BeforeHook, Refuses, Answers, Goto, rest, TypeOK
  <2>2. ASSUME NEW i \in Inputs, i.kind # "bad", input' = [input EXCEPT ![r] = i],
               Goto(r, FirstCall(i)), UNCHANGED answer
        PROVE  Progress(r)'
    <3>1. i \in Input /\ input'[r] = i /\ pc'[r] = FirstCall(i)
      BY <2>2, InputsTyped DEF Goto, TypeOK
    <3>2. UNCHANGED <<answer, doneBefore, generated, todo>> /\ pc[r] = "before"
      BY <1>2, <2>2 DEF BeforeHook, rest
    <3>3. FirstCall(i) \in {"nextid", "insert", "update", "prefetch", "delete", "find"}
      BY <2>2, <3>1, FirstCallFits
    <3>4. QED
      BY <2>2, <3>1, <3>2, <3>3, FirstCallFits
  <2>3. QED
    BY <1>2, <2>1, <2>2 DEF BeforeHook
<1>3. CASE GetNextId(r)
  BY <1>3, GetNextIdKeeps DEF GetNextId
<1>4. CASE InsertOne(r)
  <2>1. pc[r] = "insert" /\ UNCHANGED <<input, todo, generated, doneBefore>>
    BY <1>4 DEF InsertOne
  <2>2. CASE DriverFails(r)
    BY <2>1, <2>2, Refusal DEF DriverFails
  <2>3. CASE pc'[r] = "after" /\ UNCHANGED answer
    BY <2>1, <2>3
  <2>4. QED
    BY <1>4, <2>2, <2>3 DEF InsertOne, Goto, TypeOK
<1>5. CASE UpdateMany(r) \/ DeleteMany(r)
  <2>1. /\ UNCHANGED <<input, generated, doneBefore>>
        /\ pc[r] \in {"update", "delete"}
    BY <1>5 DEF UpdateMany, DeleteMany, StartMany, rest
  <2>2. CASE DriverFails(r) /\ UNCHANGED todo
    BY <2>1, <2>2, Refusal DEF DriverFails
  <2>3. CASE /\ UNCHANGED answer
             /\ pc'[r] = IF pc[r] = "update" THEN "updating" ELSE "deleting"
    BY <2>1, <2>3
  <2>4. QED
    BY <1>5, <2>2, <2>3 DEF UpdateMany, DeleteMany, StartMany, Goto, TypeOK
<1>6. CASE UpdateOne(r) \/ DeleteOne(r)
  <2>1. pc[r] \in {"updating", "deleting"}
    BY <1>6, UpdateOneDoes, DeleteOneDoes
  <2>2. UNCHANGED <<pc, input, answer, generated, doneBefore>>
    BY <1>6, UpdateOneDoes, DeleteOneDoes
  <2>3. QED
    BY <2>1, <2>2
<1>7. CASE UpdateDone(r) \/ DeleteDone(r)
  <2>1. UNCHANGED <<input, generated, doneBefore>> /\ pc[r] \in {"updating", "deleting"}
    BY <1>7 DEF UpdateDone, DeleteDone, EndMany, rest
  <2>2. todo'[r] = {}
    BY <1>7 DEF UpdateDone, DeleteDone, EndMany, TypeOK
  <2>3. CASE DriverFails(r)
    BY <2>1, <2>2, <2>3, Refusal DEF DriverFails
  <2>4. CASE /\ UNCHANGED answer
             /\ \/ pc'[r] = "after"
                \/ pc'[r] = "requery" /\ pc[r] = "updating"
    BY <2>1, <2>2, <2>4
  <2>5. QED
    BY <1>7, <2>3, <2>4 DEF UpdateDone, DeleteDone, EndMany, Goto, TypeOK
<1>8. CASE Requery(r) \/ Prefetch(r) \/ Find(r)
  <2>1. /\ UNCHANGED <<input, todo, generated, doneBefore>>
        /\ pc[r] \in {"requery", "prefetch", "find"}
    BY <1>8 DEF Requery, Prefetch, Find, FindAll, rest
  <2>2. CASE DriverFails(r)
    BY <2>1, <2>2, Refusal DEF DriverFails
  <2>3. CASE /\ UNCHANGED answer
             /\ pc'[r] = IF pc[r] = "prefetch" THEN "delete" ELSE "after"
    BY <2>1, <2>3
  <2>4. QED
    BY <1>8, <2>2, <2>3 DEF Requery, Prefetch, Find, FindAll, Goto, TypeOK
<1>9. CASE AfterHook(r)
  <2>1. pc[r] = "after" /\ UNCHANGED <<input, todo, generated, doneBefore>>
    BY <1>9 DEF AfterHook, rest
  <2>2. CASE Answers(r, Result(r))
    <3>1. Result(r).status = 200
      BY DEF Result
    <3>2. answer'[r] = Result(r) /\ pc'[r] = "done"
      BY <2>2 DEF Answers, Goto, TypeOK
    <3>3. QED
      BY <2>1, <3>1, <3>2
  <2>3. CASE Refuses(r, 400)
    BY <2>1, <2>3, Refusal
  <2>4. QED
    BY <1>9, <2>2, <2>3 DEF AfterHook
<1>10. QED
  BY <1>1, <1>2, <1>3, <1>4, <1>5, <1>6, <1>7, <1>8, <1>9 DEF Step

\* A request that acts or arrives has not answered, and who arrives follows those
\* who have.
LEMMA ActorActs ==
    ASSUME TypeOK, ProgressInv, NEW r \in Req, Arrive(r) \/ Step(r)
    PROVE  /\ r \notin Answered /\ \A q \in Req : r \notin doneBefore[q]
           /\ Arrive(r) => doneBefore'[r] = Answered /\ pc'[r] = "before"
           /\ Step(r) => doneBefore'[r] = doneBefore[r] /\ pc[r] # "idle" /\ pc'[r] # "idle"
<1>1. pc[r] # "done"
  <2>1. ~(UpdateOne(r) \/ DeleteOne(r)) \/ pc[r] # "done"
    BY UpdateOneDoes, DeleteOneDoes
  <2>2. QED
    BY <2>1
    DEF Step, Arrive, BeforeHook, GetNextId, InsertOne, UpdateMany, DeleteMany, StartMany,
        UpdateDone, DeleteDone, EndMany, Requery, Prefetch, Find, FindAll, AfterHook
<1>2. r \notin Answered /\ \A q \in Req : r \notin doneBefore[q]
  BY <1>1 DEF ProgressInv, Progress, Answered
<1>3. Arrive(r) => doneBefore'[r] = Answered /\ pc'[r] = "before"
  BY DEF Arrive, Goto, TypeOK
<1>4. Step(r) => doneBefore'[r] = doneBefore[r] /\ pc[r] # "idle" /\ pc'[r] # "idle"
  <2>1. CASE BeforeHook(r)
    <3>1. \A i \in Inputs : i.kind # "bad" => FirstCall(i) # "idle"
      BY FirstCallFits, InputsTyped
    <3>2. QED
      BY <2>1, <3>1 DEF BeforeHook, Refuses, Answers, Goto, rest, TypeOK
  <2>2. CASE UpdateOne(r) \/ DeleteOne(r)
    BY <2>2, UpdateOneDoes, DeleteOneDoes
  <2>3. CASE ~(BeforeHook(r) \/ UpdateOne(r) \/ DeleteOne(r))
    BY <2>3
    DEF Step, GetNextId, InsertOne, UpdateMany, DeleteMany, StartMany, UpdateDone, DeleteDone,
        EndMany, Requery, Prefetch, Find, FindAll, AfterHook, DriverFails, Refuses, Answers,
        Goto, rest, TypeOK
  <2>4. QED
    BY <2>1, <2>2, <2>3
<1>5. QED
  BY <1>2, <1>3, <1>4

\* A step keeps ProgressInv.
LEMMA ProgressStep == TypeOK /\ ProgressInv /\ [Next]_vars => ProgressInv'
<1> SUFFICES ASSUME TypeOK, ProgressInv, [Next]_vars PROVE ProgressInv'
  OBVIOUS
<1>1. ASSUME NEW s \in Req, Arrive(s) \/ Step(s) PROVE ProgressInv'
  <2>1. \A r \in Req : Progress(r)'
    <3>1. SUFFICES ASSUME NEW r \in Req PROVE Progress(r)'
      OBVIOUS
    <3>2. CASE r = s
      BY <1>1, <3>2, ActorProgress DEF ProgressInv
    <3>3. CASE r # s
      BY <1>1, <3>3, OthersUntouched DEF ProgressInv, Progress
    <3>4. QED
      BY <3>2, <3>3
  <2>2. Answered \subseteq Answered'
    <3>1. s \notin Answered
      BY <1>1, ActorActs
    <3>2. QED
      BY <1>1, <3>1, OthersUntouched DEF Answered
  <2>3. \A r \in Req : doneBefore'[r] \subseteq Answered
    <3>1. \A r \in Req : r # s => doneBefore'[r] = doneBefore[r]
      BY <1>1, OthersUntouched
    <3>2. doneBefore'[s] \in {Answered, doneBefore[s]}
      BY <1>1, ActorActs
    <3>3. QED
      BY <3>1, <3>2 DEF ProgressInv
  <2>4. QED
    BY <2>1, <2>2, <2>3 DEF ProgressInv
<1>2. CASE UNCHANGED vars
  BY <1>2 DEF vars, ProgressInv, Progress, Answered
<1>3. QED
  BY <1>1, <1>2 DEF Next, AllAnswered

\* Past its hook and its id.
Settled == Phases \ {"idle", "before", "nextid"}

\* Once a request is settled, its input no longer changes.
LEMMA InputSettled ==
    ASSUME TypeOK, [Next]_vars, NEW r \in Req, pc[r] \in Settled
    PROVE  input'[r] = input[r] /\ pc'[r] \in Settled /\ doneBefore'[r] = doneBefore[r]
<1> USE DEF Settled, Phases
<1>1. CASE UNCHANGED vars
  BY <1>1 DEF vars
<1>2. ASSUME NEW s \in Req, s # r, Arrive(s) \/ Step(s)
      PROVE  input'[r] = input[r] /\ pc'[r] \in Settled /\ doneBefore'[r] = doneBefore[r]
  BY <1>2, OthersUntouched
<1>3. CASE Arrive(r) \/ Step(r)
  <2>1. CASE UpdateOne(r) \/ DeleteOne(r)
    BY <2>1, UpdateOneDoes, DeleteOneDoes
  <2>2. CASE ~(UpdateOne(r) \/ DeleteOne(r))
    <3>1. UNCHANGED <<input, doneBefore>>
      BY <1>3, <2>2
      DEF Step, Arrive, BeforeHook, GetNextId, InsertOne, UpdateMany, DeleteMany, StartMany,
          UpdateDone, DeleteDone, EndMany, Requery, Prefetch, Find, FindAll, AfterHook, rest
    <3>2. pc'[r] \in Settled
      BY <1>3, <2>2
      DEF Step, Arrive, BeforeHook, GetNextId, InsertOne, UpdateMany, DeleteMany, StartMany,
          UpdateDone, DeleteDone, EndMany, Requery, Prefetch, Find, FindAll, AfterHook,
          DriverFails, Refuses, Answers, Goto, TypeOK
    <3>3. QED
      BY <3>1, <3>2
  <2>3. QED
    BY <2>1, <2>2
<1>4. QED
  BY <1>1, <1>2, <1>3 DEF Next, AllAnswered

\* A document that r writes in this step: the one it inserts, or one it updates, which
\* keeps its id or gets it from r.
Fresh(r, d) ==
    /\ d.by = r /\ Carries(d, input[r])
    /\ \/ pc[r] = "insert" /\ d = NewDoc(r)
       \/ pc[r] = "updating" /\ (Kept(d) \/ d.idBy = r)

\* What a step leaves in the collection was there, or was written in this step by
\* a request that has not answered.
LEMMA WrittenFresh ==
    ASSUME TypeOK, ProgressInv, [Next]_vars
    PROVE  \/ docs' \subseteq docs
           \/ \E r \in Req :
                 /\ r \notin Answered /\ \A q \in Req : r \notin doneBefore[q]
                 /\ Step(r)
                 /\ \A d \in docs' : d \in docs \/ Fresh(r, d)
<1>1. ASSUME NEW r \in Req, InsertOne(r), docs' = docs \cup {NewDoc(r)}
      PROVE  \A d \in docs' : d \in docs \/ Fresh(r, d)
  BY <1>1 DEF InsertOne, NewDoc, Fresh, Carries
<1>2. ASSUME NEW r \in Req, UpdateOne(r), NEW k \in todo[r],
             \A d \in docs' : Rewrites(r, k, d)
      PROVE  \A d \in docs' : d \in docs \/ Fresh(r, d)
  <2>1. pc[r] = "updating"
    BY <1>2, UpdateOneDoes
  <2>2. QED
    BY <1>2, <2>1, RewritesTyped DEF Fresh
<1>3. \A r \in Req : Step(r) => r \notin Answered /\ \A q \in Req : r \notin doneBefore[q]
  BY ActorActs
<1>4. \A r \in Req : InsertOne(r) \/ UpdateOne(r) => Step(r)
  BY DEF Step
<1>5. QED
  BY <1>1, <1>2, <1>3, <1>4, DocsStep

\* A document that a request wrote last carries the fields of that request, which was
\* settled by then.
WriterInv ==
    \A d \in docs : d.by \in Req => pc[d.by] \in Settled /\ Carries(d, input[d.by])

\* A step keeps WriterInv.
LEMMA WriterStep == TypeOK /\ ProgressInv /\ WriterInv /\ [Next]_vars => WriterInv'
<1> SUFFICES ASSUME TypeOK, ProgressInv, WriterInv, [Next]_vars PROVE WriterInv'
  OBVIOUS
<1>1. \A r \in Req : pc[r] \in Settled => input'[r] = input[r] /\ pc'[r] \in Settled
  BY InputSettled
<1>2. CASE docs' \subseteq docs
  BY <1>1, <1>2 DEF WriterInv, Carries
<1>3. ASSUME NEW r \in Req, \A d \in docs' : d \in docs \/ Fresh(r, d) PROVE WriterInv'
  <2>1. ASSUME NEW d \in docs', Fresh(r, d)
        PROVE  d.by = r /\ pc[r] \in Settled /\ Carries(d, input[r])
    BY <2>1 DEF Fresh, Settled, Phases
  <2>2. QED
    BY <1>1, <1>3, <2>1 DEF WriterInv, Carries
<1>4. QED
  BY <1>2, <1>3, WrittenFresh
-----------------------------------------------------------------------------
(***************************************************************************)
(* Generated ids.  getNextID looks for the largest id and the insert comes *)
(* in a call of its own.  Between the two, no document of that id can come *)
(* from a request that had answered when this one arrived: WindowInv.      *)
(***************************************************************************)

\* There is a document that has had that id from the start, or from a request that
\* r follows.
Intruder(r, id) == \E d \in docs : d.id = id /\ d.idBy \in Origins \cup doneBefore[r]

\* Who gave a document its id was settled; a generated id is that of the document it
\* was made for, for a create patches none.
IdInv ==
    \A d \in docs :
        /\ d.idBy \in Req => pc[d.idBy] \in Settled
        /\ d.idBy \in generated => d.key = d.idBy

\* Between getNextID and the insert.
WindowInv ==
    \A r \in generated \ blind : pc[r] = "insert" => ~Intruder(r, input[r].id)

\* After the insert.
CollisionInv ==
    \A d, e \in docs :
        /\ d # e
        /\ d.id = e.id
        /\ d.idBy \in generated \ blind
        => e.idBy \notin Origins \cup doneBefore[d.idBy]

\* A settled request asks for no id any more.
LEMMA GeneratedStays ==
    ASSUME TypeOK, [Next]_vars, NEW r \in Req, pc[r] \in Settled
    PROVE  /\ r \in generated' <=> r \in generated
           /\ r \in blind' <=> r \in blind
<1>1. CASE UNCHANGED vars
  BY <1>1 DEF vars
<1>2. CASE \E s \in Req : s # r /\ (Arrive(s) \/ Step(s))
  BY <1>2, OthersUntouched
<1>3. CASE Arrive(r) \/ Step(r)
  <2>1. CASE UpdateOne(r) \/ DeleteOne(r)
    BY <2>1, UpdateOneDoes, DeleteOneDoes
  <2>2. CASE ~(UpdateOne(r) \/ DeleteOne(r))
    BY <1>3, <2>2
    DEF Step, Arrive, BeforeHook, GetNextId, InsertOne, UpdateMany, DeleteMany, StartMany,
        UpdateDone, DeleteDone, EndMany, Requery, Prefetch, Find, FindAll, AfterHook, rest,
        Settled
  <2>3. QED
    BY <2>1, <2>2
<1>4. QED
  BY <1>1, <1>2, <1>3 DEF Next, AllAnswered

\* A step keeps IdInv.
LEMMA IdStep == TypeOK /\ KeysInv /\ ProgressInv /\ IdInv /\ [Next]_vars => IdInv'
<1> SUFFICES ASSUME TypeOK, KeysInv, ProgressInv, IdInv, [Next]_vars PROVE IdInv'
  OBVIOUS
<1>1. \A r \in Req : pc[r] \in Settled =>
         pc'[r] \in Settled /\ (r \in generated' => r \in generated)
  BY InputSettled, GeneratedStays
<1>2. generated' \subseteq Req
  BY StepTyped DEF TypeOK
<1>3. CASE docs' \subseteq docs
  BY <1>1, <1>2, <1>3 DEF IdInv
<1>4. ASSUME NEW r \in Req, \A d \in docs' : d \in docs \/ Fresh(r, d) PROVE IdInv'
  <2>1. pc[r] = "updating" => r \notin generated
    BY DEF ProgressInv, Progress
  <2>2. ASSUME NEW d \in docs', Fresh(r, d)
        PROVE  /\ d.idBy \in Req => pc[d.idBy] \in Settled
               /\ d.idBy \in generated => d.key = d.idBy
    BY <2>1, <2>2 DEF Fresh, Kept, NewDoc, IdInv, Settled, Phases
  <2>3. QED
    BY <1>1, <1>2, <1>4, <2>2 DEF IdInv
<1>5. QED
  BY <1>3, <1>4, WrittenFresh

\* No step brings an intruder: a document keeps its id, or has it from a request that
\* has not answered.
LEMMA NoIntruderComes ==
    ASSUME TypeOK, ProgressInv, [Next]_vars, NEW r \in Req, NEW id, ~Intruder(r, id),
           doneBefore'[r] = doneBefore[r]
    PROVE  ~Intruder(r, id)'
<1>1. CASE docs' \subseteq docs
  BY <1>1 DEF Intruder
<1>2. ASSUME NEW s \in Req, \A q \in Req : s \notin doneBefore[q],
             \A d \in docs' : d \in docs \/ Fresh(s, d)
      PROVE  ~Intruder(r, id)'
  <2>1. SUFFICES ASSUME NEW d \in docs', d.id = id, d.idBy \in Origins \cup doneBefore[r],
                        Fresh(s, d)
                 PROVE  FALSE
    BY <1>2 DEF Intruder
  <2>2. d.idBy # s
    BY <1>2, <2>1, OriginsAreNoRequests
  <2>3. d # NewDoc(s)
    BY <2>2 DEF NewDoc
  <2>4. QED
    BY <2>1, <2>2, <2>3 DEF Fresh, Kept, Intruder
<1>3. QED
  BY <1>1, <1>2, WrittenFresh

\* A step keeps WindowInv.
LEMMA WindowStep == TypeOK /\ KeysInv /\ ProgressInv /\ WindowInv /\ [Next]_vars => WindowInv'
<1> SUFFICES ASSUME TypeOK, KeysInv, ProgressInv, WindowInv, [Next]_vars,
                    NEW r \in generated' \ blind', pc'[r] = "insert"
             PROVE  ~Intruder(r, input[r].id)'
  BY DEF WindowInv, Intruder
<1>1. r \in Req
  BY StepTyped DEF TypeOK
<1>2. CASE /\ pc[r] = "insert" /\ input'[r] = input[r] /\ doneBefore'[r] = doneBefore[r]
           /\ r \in generated \ blind
  <2>1. ~Intruder(r, input[r].id)
    BY <1>2 DEF WindowInv
  <2>2. \A id : ~Intruder(r, id) => ~Intruder(r, id)'
    BY <1>1, <1>2, NoIntruderComes
  <2>3. QED
    BY <1>2, <2>1, <2>2 DEF Intruder
<1>3. CASE UNCHANGED vars
  BY <1>2, <1>3 DEF vars
<1>4. ASSUME NEW s \in Req, s # r, Arrive(s) \/ Step(s) PROVE ~Intruder(r, input[r].id)'
  BY <1>1, <1>2, <1>4, OthersUntouched
<1>5. CASE GetNextId(r)
  <2>1. r \notin generated /\ docs' = docs
    BY <1>1, <1>5 DEF GetNextId, ProgressInv, Progress
  <2>2. /\ input' = [input EXCEPT ![r] = WithId(@, NextId)]
        /\ \A d \in docs : d.id # TextId
    BY <1>5, <2>1 DEF GetNextId, TypeOK
  <2>3. input'[r].id = NextId
    BY <1>1, <2>2, NextIdFresh, WithIdTyped DEF TypeOK, KeysInv, Id
  <2>4. \A d \in docs : d.id # NextId
    BY <2>2, NextIdFresh DEF TypeOK, KeysInv
  <2>5. QED
    BY <2>1, <2>3, <2>4 DEF Intruder
<1>6. CASE BeforeHook(r)
  BY <1>1, <1>6 DEF BeforeHook, rest, ProgressInv, Progress
<1>7. CASE Arrive(r) \/ (Step(r) /\ ~BeforeHook(r) /\ ~GetNextId(r))
  <2>1. ~(UpdateOne(r) \/ DeleteOne(r))
    <3>1. pc'[r] # pc[r] \/ pc[r] = "insert"
      OBVIOUS
    <3>2. QED
      BY <1>1, <3>1, UpdateOneDoes, DeleteOneDoes
  <2>2. QED
    BY <1>1, <1>7, <2>1
    DEF Step, Arrive, InsertOne, UpdateMany, DeleteMany, StartMany, UpdateDone, DeleteDone,
        EndMany, Requery, Prefetch, Find, FindAll, AfterHook, DriverFails, Refuses, Answers,
        Goto, TypeOK
<1>8. QED
  BY <1>3, <1>4, <1>5, <1>6, <1>7 DEF Next, AllAnswered

\* A step keeps CollisionInv: an insert adds a document that met no intruder in its
\* window; it is none itself, nor is a document that a patch renumbers, to those who
\* arrived later.
LEMMA CollisionStep ==
    TypeOK /\ KeysInv /\ ProgressInv /\ IdInv /\ WindowInv /\ CollisionInv /\ [Next]_vars
        => CollisionInv'
<1> SUFFICES ASSUME TypeOK, KeysInv, ProgressInv, IdInv, WindowInv, CollisionInv, [Next]_vars
             PROVE  CollisionInv'
  OBVIOUS
<1>1. KeyedApart(docs') /\ KeyedApart(docs)
  BY KeysStep DEF KeysInv
<1>2. \A r \in Req : pc[r] \in Settled =>
         /\ r \in generated' \ blind' => r \in generated \ blind
         /\ doneBefore'[r] = doneBefore[r]
  BY GeneratedStays, InputSettled
<1>3. generated' \subseteq Req
  BY StepTyped DEF TypeOK
\* Two documents that keep their ids stand for two that were there before.
<1>4. ASSUME NEW d \in docs', NEW e \in docs', d # e, d.id = e.id, d.idBy \in generated' \ blind',
             Kept(d), Kept(e)
      PROVE  e.idBy \notin Origins \cup doneBefore'[d.idBy]
  <2>1. PICK a \in docs : a.key = d.key /\ a.id = d.id /\ a.idBy = d.idBy
    BY <1>4 DEF Kept
  <2>2. PICK b \in docs : b.key = e.key /\ b.id = e.id /\ b.idBy = e.idBy
    BY <1>4 DEF Kept
  <2>3. a # b
    BY <1>1, <1>4, <2>1, <2>2 DEF KeyedApart
  <2>4. a.idBy \in generated \ blind /\ doneBefore'[a.idBy] = doneBefore[a.idBy]
    BY <1>2, <1>3, <1>4, <2>1 DEF IdInv
  <2>5. QED
    BY <1>4, <2>1, <2>2, <2>3, <2>4 DEF CollisionInv
<1>5. CASE docs' \subseteq docs
  <2>1. \A d \in docs' : Kept(d)
    BY <1>5 DEF Kept
  <2>2. QED
    BY <1>4, <2>1 DEF CollisionInv
<1>6. ASSUME NEW r \in Req, \A q \in Req : r \notin doneBefore[q],
             \A d \in docs' : d \in docs \/ Fresh(r, d)
      PROVE  CollisionInv'
  <2>1. SUFFICES ASSUME NEW d \in docs', NEW e \in docs', d # e, d.id = e.id,
                        d.idBy \in generated' \ blind'
                 PROVE  e.idBy \notin Origins \cup doneBefore'[d.idBy]
    BY DEF CollisionInv
  <2> DEFINE New(c) == pc[r] = "insert" /\ c = NewDoc(r)
  <2>2. \A c \in docs' : Kept(c) \/ New(c) \/ (pc[r] = "updating" /\ c.idBy = r)
    BY <1>6 DEF Fresh, Kept
  <2>3. CASE New(d)
    <3>1. d.idBy = r /\ d.id = input[r].id
      BY <2>3 DEF NewDoc
    <3>2. Kept(e)
      BY <2>1, <2>2, <2>3
    <3>3. r \in generated \ blind /\ doneBefore'[r] = doneBefore[r]
      BY <1>2, <2>1, <2>3, <3>1 DEF Settled, Phases
    <3>4. ~Intruder(r, input[r].id)
      BY <2>3, <3>3 DEF WindowInv
    <3>5. QED
      BY <2>1, <3>1, <3>2, <3>3, <3>4 DEF Intruder, Kept
  <2>4. CASE Kept(d) /\ ~Kept(e)
    <3>1. e.idBy = r
      BY <2>2, <2>4 DEF NewDoc
    <3>2. d.idBy \in Req /\ pc[d.idBy] \in Settled
      BY <1>3, <2>1, <2>4 DEF IdInv, Kept
    <3>3. QED
      BY <1>2, <1>6, <3>1, <3>2, OriginsAreNoRequests
  <2>5. CASE Kept(d) /\ Kept(e)
    BY <1>4, <2>1, <2>5
  <2>6. CASE pc[r] = "updating" /\ d.idBy = r
    <3>1. r \notin generated
      BY <2>6 DEF ProgressInv, Progress
    <3>2. QED
      BY <1>2, <2>1, <2>6, <3>1 DEF Settled, Phases
  <2>7. QED
    BY <2>2, <2>3, <2>4, <2>5, <2>6
<1>7. QED
  BY <1>5, <1>6, WrittenFresh

\* MongoDB keeps no ids apart, and getNextID reads and inserts in two calls.  A
\* document shares an id it made only if whoever gave it that id, by create or patch,
\* had not answered when the create arrived, or getNextID could not tell the largest.
THEOREM GeneratedIds == Spec => []GeneratedIdsCollideOnlyInOverlap
<1> DEFINE I == TypeOK /\ KeysInv /\ ProgressInv /\ IdInv /\ WindowInv /\ CollisionInv
<1>1. Init => I
  <2>1. Init => WindowInv /\ CollisionInv
    BY DEF Init, WindowInv, CollisionInv
  <2>2. Init => IdInv
    BY StoredTyped, OriginsAreNoRequests DEF Init, IdInv
  <2>3. QED
    BY <2>1, <2>2, InitTyped, InitProgress
<1>2. I /\ [Next]_vars => I'
  BY StepTyped, KeysStep, ProgressStep, IdStep, WindowStep, CollisionStep
<1>3. I => GeneratedIdsCollideOnlyInOverlap
  <2> SUFFICES ASSUME I, NEW d \in docs, NEW e \in docs, d # e, d.id = e.id,
                      d.idBy \in generated \ blind
               PROVE  /\ e.idBy \notin Origins \cup doneBefore[d.idBy]
                      /\ e.idBy \in generated \ blind => Overlap(d.idBy, e.idBy)
    BY DEF GeneratedIdsCollideOnlyInOverlap
  <2>1. e.idBy \notin Origins \cup doneBefore[d.idBy]
    BY DEF CollisionInv
  <2>2. ASSUME e.idBy \in generated \ blind PROVE Overlap(d.idBy, e.idBy)
    <3>1. d.idBy \notin doneBefore[e.idBy]
      BY <2>2 DEF CollisionInv
    <3>2. d.idBy # e.idBy
      BY <2>2 DEF IdInv, KeysInv, KeyedApart
    <3>3. pc[e.idBy] # "idle"
      BY <2>2 DEF TypeOK, ProgressInv, Progress
    <3>4. QED
      BY <2>1, <3>1, <3>2, <3>3 DEF Overlap
  <2>3. QED
    BY <2>1, <2>2
<1>4. QED
  BY <1>1, <1>2, <1>3, PTL DEF Spec
-----------------------------------------------------------------------------
(***************************************************************************)
(* Updates and deletes.  A command writes the documents it matched one by  *)
(* one while others insert, rewrite and remove.  SweepInv says what may be *)
(* left behind it: only what it has yet to visit, and what was written by  *)
(* requests it does not follow.                                            *)
(***************************************************************************)

\* Its last writer is r or a request that had not answered when r arrived.
ByLate(d, r) == d.by \in Req \ doneBefore[r]

\* The command of r is running, or it has ended well.
Swept(r) ==
    \/ pc[r] \in {"updating", "deleting", "requery"}
    \/ input[r].kind \in {"update", "delete"} /\ (pc[r] = "after" \/ answer[r].status = 200)

Sweep(r) == Swept(r) =>
    \A d \in docs : Matches(d, input[r].filter) /\ d.key \notin todo[r] => ByLate(d, r)
SweepInv == \A r \in Req : Sweep(r)

\* A request whose command runs or has run is settled.
LEMMA SweptSettled ==
    ASSUME TypeOK, ProgressInv, NEW r \in Req, Swept(r)
    PROVE  pc[r] \in Settled
BY DEF Swept, Settled, Phases, ProgressInv, Progress

\* A command keeps what SweepInv says of it while its own request acts.
LEMMA OwnSweep ==
    ASSUME TypeOK, ProgressInv, NEW r \in Req, Sweep(r), Arrive(r) \/ Step(r)
    PROVE  Sweep(r)'
<1> SUFFICES ASSUME Swept(r)', NEW d \in docs', Matches(d, input'[r].filter),
                    d.key \notin todo'[r]
             PROVE  ByLate(d, r)'
  BY DEF Sweep, ByLate, Matches
<1>1. CASE Arrive(r)
  <2>1. pc'[r] = "before" /\ answer'[r] = answer[r] /\ pc[r] = "idle"
    BY <1>1 DEF Arrive, Goto, TypeOK
  <2>2. QED
    BY <2>1 DEF Swept, ProgressInv, Progress
<1>2. CASE UpdateMany(r) \/ DeleteMany(r)
  <2>1. CASE DriverFails(r)
    BY <2>1, Refusal DEF DriverFails, Swept
  <2>2. CASE todo' = [todo EXCEPT ![r] = KeysOf(Matching(input[r].filter))]
    <3>1. todo'[r] = KeysOf(Matching(input[r].filter))
      BY <2>2 DEF TypeOK
    <3>2. docs' = docs /\ input' = input
      BY <1>2 DEF UpdateMany, DeleteMany, StartMany
    <3>3. QED
      BY <3>1, <3>2 DEF KeysOf, Matching
  <2>3. QED
    BY <1>2, <2>1, <2>2 DEF UpdateMany, DeleteMany, StartMany
<1>3. CASE UpdateOne(r)
  <2>1. PICK k \in todo[r] :
            /\ todo' = [todo EXCEPT ![r] = @ \ {k}]
            /\ \A c \in docs' : Rewrites(r, k, c)
    BY <1>3, UpdateOneDoes
  <2>2. /\ UNCHANGED <<pc, input, answer, doneBefore>>
        /\ pc[r] = "updating"
    BY <1>3, UpdateOneDoes
  <2>3. Swept(r) /\ r \notin doneBefore[r] /\ todo'[r] = todo[r] \ {k}
    BY <2>1, <2>2 DEF Swept, ProgressInv, Progress, TypeOK
  <2>4. CASE d \in docs /\ (d.key = k => ~Matches(d, input[r].filter))
    BY <2>2, <2>3, <2>4 DEF Sweep, ByLate
  <2>5. CASE d.by = r
    BY <2>2, <2>3, <2>5 DEF ByLate
  <2>6. QED
    BY <2>1, <2>4, <2>5, RewritesTyped
<1>4. CASE DeleteOne(r)
  <2>1. PICK k \in todo[r] :
            /\ todo' = [todo EXCEPT ![r] = @ \ {k}]
            /\ docs' = docs \ {c \in Matching(input[r].filter) : c.key = k}
    BY <1>4, DeleteOneDoes
  <2>2. /\ UNCHANGED <<pc, input, answer, doneBefore>>
        /\ pc[r] = "deleting"
    BY <1>4, DeleteOneDoes
  <2>3. Swept(r) /\ todo'[r] = todo[r] \ {k}
    BY <2>1, <2>2 DEF Swept, TypeOK
  <2>4. d \in docs /\ d.key # k
    BY <2>1, <2>2 DEF Matching
  <2>5. QED
    BY <2>2, <2>3, <2>4 DEF Sweep, ByLate
<1>5. CASE UpdateDone(r) \/ DeleteDone(r)
  <2>1. CASE DriverFails(r)
    BY <2>1, Refusal DEF DriverFails, Swept
  <2>2. CASE UNCHANGED <<todo, answer>>
    <3>1. pc[r] \in {"updating", "deleting"} /\ UNCHANGED <<docs, input, doneBefore>>
      BY <1>5 DEF UpdateDone, DeleteDone, EndMany, rest
    <3>2. QED
      BY <2>2, <3>1 DEF Sweep, Swept, ByLate
  <2>3. QED
    BY <1>5, <2>1, <2>2 DEF UpdateDone, DeleteDone, EndMany
<1>6. CASE Requery(r) \/ Prefetch(r) \/ Find(r)
  <2>1. CASE DriverFails(r)
    BY <2>1, Refusal DEF DriverFails, Swept
  <2>2. CASE UNCHANGED answer
    <3>1. UNCHANGED <<docs, input, todo, doneBefore>>
      BY <1>6 DEF Requery, Prefetch, Find, FindAll, rest
    <3>2. Swept(r)
      <4>1. /\ pc[r] \in {"requery", "prefetch", "find"}
            /\ pc'[r] = IF pc[r] = "prefetch" THEN "delete" ELSE "after"
        <5>1. pc[r] \in {"requery", "prefetch", "find"}
          BY <1>6 DEF Requery, Prefetch, Find, FindAll
        <5>2. ~DriverFails(r)
          BY <2>2, <5>1, Refusal DEF DriverFails, ProgressInv, Progress
        <5>3. QED
          BY <1>6, <5>1, <5>2 DEF Requery, Prefetch, Find, FindAll, Goto, TypeOK
      <4>2. answer[r].status # 200
        BY <4>1 DEF ProgressInv, Progress
      <4>3. CASE pc[r] = "find"
        BY <2>2, <3>1, <4>1, <4>2, <4>3 DEF Swept, ProgressInv, Progress
      <4>4. QED
        BY <2>2, <3>1, <4>1, <4>2, <4>3 DEF Swept
    <3>3. QED
      BY <3>1, <3>2 DEF Sweep, ByLate
  <2>3. QED
    BY <1>6, <2>1, <2>2 DEF Requery, Prefetch, Find, FindAll
<1>7. CASE AfterHook(r)
  <2>1. UNCHANGED <<docs, input, todo, doneBefore>> /\ pc[r] = "after"
    BY <1>7 DEF AfterHook, rest
  <2>2. pc'[r] = "done"
    BY <1>7 DEF AfterHook, Refuses, Answers, Goto, TypeOK
  <2>3. Swept(r)
    BY <2>1, <2>2 DEF Swept
  <2>4. QED
    BY <2>1, <2>3 DEF Sweep, ByLate
<1>8. CASE BeforeHook(r) \/ GetNextId(r) \/ InsertOne(r)
  <2>1. ~Swept(r)'
    <3>1. CASE BeforeHook(r)
      <4>1. CASE Refuses(r, 400)
        BY <4>1, Refusal DEF Swept
      <4>2. ASSUME NEW i \in Inputs, i.kind # "bad", Goto(r, FirstCall(i)), UNCHANGED answer
            PROVE  ~Swept(r)'
        <5>1. pc'[r] \in {"nextid", "insert", "update", "prefetch", "delete", "find"}
          BY <4>2, FirstCallFits, InputsTyped DEF Goto, TypeOK
        <5>2. answer[r].status = 0
          BY <3>1 DEF BeforeHook, ProgressInv, Progress
        <5>3. QED
          BY <4>2, <5>1, <5>2 DEF Swept
      <4>3. QED
        BY <3>1, <4>1, <4>2 DEF BeforeHook
    <3>2. CASE GetNextId(r)
      BY <3>2 DEF GetNextId, Goto, Swept, ProgressInv, Progress, TypeOK
    <3>3. CASE InsertOne(r)
      <4>1. input'[r].kind = "create"
        BY <3>3 DEF InsertOne, ProgressInv, Progress
      <4>2. pc'[r] \in {"after", "done"}
        BY <3>3 DEF InsertOne, DriverFails, Refuses, Answers, Goto, TypeOK
      <4>3. QED
        BY <4>1, <4>2 DEF Swept
    <3>4. QED
      BY <1>8, <3>1, <3>2, <3>3
  <2>2. QED
    BY <2>1
<1>9. QED
  BY <1>1, <1>2, <1>3, <1>4, <1>5, <1>6, <1>7, <1>8 DEF Step

\* A step keeps SweepInv: what another request writes meanwhile is by that request,
\* which r does not follow, for it has not answered.
LEMMA SweepStep == TypeOK /\ ProgressInv /\ SweepInv /\ [Next]_vars => SweepInv'
<1> SUFFICES ASSUME TypeOK, ProgressInv, SweepInv, [Next]_vars, NEW r \in Req
             PROVE  Sweep(r)'
  BY DEF SweepInv
<1>1. CASE UNCHANGED vars
  BY <1>1 DEF vars, SweepInv, Sweep, Swept, ByLate, Matches
<1>2. CASE Arrive(r) \/ Step(r)
  BY <1>2, OwnSweep DEF SweepInv
<1>3. ASSUME NEW s \in Req, s # r, Arrive(s) \/ Step(s) PROVE Sweep(r)'
  <2>1. /\ pc'[r] = pc[r] /\ input'[r] = input[r] /\ todo'[r] = todo[r]
        /\ answer'[r] = answer[r] /\ doneBefore'[r] = doneBefore[r]
    BY <1>3, OthersUntouched
  <2>2. \A d \in docs' : d \in docs \/ ByLate(d, r)
    <3>1. CASE docs' \subseteq docs
      BY <3>1
    <3>2. ASSUME NEW q \in Req, q \notin doneBefore[r], \A d \in docs' : d \in docs \/ Fresh(q, d)
          PROVE  \A d \in docs' : d \in docs \/ ByLate(d, r)
      BY <3>2 DEF Fresh, ByLate
    <3>3. QED
      BY <3>1, <3>2, WrittenFresh
  <2>3. QED
    BY <2>1, <2>2 DEF SweepInv, Sweep, Swept, ByLate, Matches
<1>4. QED
  BY <1>1, <1>2, <1>3 DEF Next, AllAnswered

\* What the invariants of a command rest on.
Base == TypeOK /\ KeysInv /\ ProgressInv /\ WriterInv /\ SweepInv

\* The initial state has it.
LEMMA InitBase == Init => Base
<1>1. Init => WriterInv
  BY StoredTyped, OriginsAreNoRequests DEF Init, WriterInv
<1>2. Init => SweepInv
  BY DEF Init, SweepInv, Sweep, Swept, NoAnswer
<1>3. QED
  BY <1>1, <1>2, InitTyped, InitProgress DEF Base

\* Every step keeps it.
LEMMA BaseStep == Base /\ [Next]_vars => Base'
BY StepTyped, KeysStep, ProgressStep, WriterStep, SweepStep DEF Base

\* A mutation that succeeded missed nothing: what its filter accepts and it has not
\* written or removed was written by a request it does not follow, however the
\* visits of the two commands were interleaved.
THEOREM MissNothing == Spec => []MutationsMissNothing
<1>1. Base => MutationsMissNothing
  <2> SUFFICES ASSUME Base, NEW r \in Req, NEW d \in docs, Matches(d, input[r].filter),
                      Succeeded(r, "delete") \/ Succeeded(r, "update")
               PROVE  d.by \in Req \ doneBefore[r]
    BY DEF MutationsMissNothing
  <2>1. Swept(r) /\ todo[r] = {}
    BY DEF Succeeded, Swept, Base, ProgressInv, Progress
  <2>2. QED
    BY <2>1 DEF Base, SweepInv, Sweep, ByLate
<1>2. QED
  BY InitBase, BaseStep, <1>1, PTL DEF Spec
-----------------------------------------------------------------------------
(***************************************************************************)
(* What an update reports.                                                 *)
(***************************************************************************)

\* The documents an update has fetched or answered with are its own work or that
\* of requests it does not follow.
Explained(r) ==
    /\ pc[r] \in {"idle", "before"} => found[r] = {} /\ answer[r].docs = {}
    /\ input[r].kind = "update" =>
          \A d \in found[r] \cup answer[r].docs :
              ByLate(d, r) /\ (d.by = r => Carries(d, input[r]))
\* All that an update found is explained.
FoundInv == \A r \in Req : Explained(r)

\* A request that acts keeps what it has fetched explained.
LEMMA OwnExplained ==
    ASSUME Base, NEW r \in Req, Explained(r), Arrive(r) \/ Step(r)
    PROVE  Explained(r)'
<1> USE DEF Base, Explained, ByLate
<1>1. CASE Arrive(r)
  BY <1>1 DEF Arrive, Goto, TypeOK
<1>2. CASE BeforeHook(r)
  <2>1. /\ found'[r] = {} /\ pc[r] = "before"
        /\ Refuses(r, 400) \/ answer' = answer
    BY <1>2 DEF BeforeHook
  <2>2. answer'[r].docs = {}
    BY <2>1, Refusal
  <2>3. QED
    BY <2>1, <2>2
<1>3. CASE GetNextId(r)
  <2>1. /\ pc[r] = "nextid" /\ pc'[r] = "insert" /\ input'[r].kind = input[r].kind
    BY <1>3, GetNextIdKeeps
  <2>2. QED
    BY <2>1 DEF ProgressInv, Progress
<1>4. CASE InsertOne(r)
  <2>1. input'[r].kind = "create" /\ pc'[r] \in {"after", "done"}
    BY <1>4 DEF InsertOne, DriverFails, Refuses, Answers, Goto, ProgressInv, Progress, TypeOK
  <2>2. QED
    BY <2>1
<1>5. CASE UpdateMany(r) \/ DeleteMany(r) \/ UpdateDone(r) \/ DeleteDone(r)
  <2>1. UNCHANGED <<input, found, doneBefore>> /\ pc[r] \in Settled
    BY <1>5 DEF UpdateMany, DeleteMany, StartMany, UpdateDone, DeleteDone, EndMany, rest,
                Settled, Phases
  <2>2. pc'[r] \notin {"idle", "before"}
    BY <1>5, <2>1 DEF UpdateMany, DeleteMany, StartMany, UpdateDone, DeleteDone, EndMany,
                Settled, Phases, DriverFails, Refuses, Answers, Goto, TypeOK
  <2>3. answer' = answer \/ DriverFails(r)
    BY <1>5 DEF UpdateMany, DeleteMany, StartMany, UpdateDone, DeleteDone, EndMany
  <2>4. answer'[r].docs \subseteq answer[r].docs
    BY <2>3, Refusal DEF DriverFails
  <2>5. QED
    BY <2>1, <2>2, <2>4
<1>6. CASE UpdateOne(r) \/ DeleteOne(r)
  BY <1>6, UpdateOneDoes, DeleteOneDoes
<1>7. CASE Requery(r)
  <2>1. UNCHANGED <<docs, input, doneBefore>> /\ pc[r] = "requery"
    BY <1>7 DEF Requery, FindAll, rest
  <2>2. CASE DriverFails(r) /\ UNCHANGED found
    BY <2>1, <2>2, Refusal DEF DriverFails
  <2>3. CASE /\ found' = [found EXCEPT ![r] = Matching(input[r].filter)]
             /\ Goto(r, "after") /\ UNCHANGED answer
    <3>1. found'[r] = Matching(input[r].filter) /\ pc'[r] = "after"
      BY <2>3 DEF Goto, TypeOK
    <3>2. Swept(r) /\ todo[r] = {}
      BY <2>1 DEF Swept, ProgressInv, Progress
    <3>3. \A d \in Matching(input[r].filter) :
             d \in docs /\ ByLate(d, r) /\ (d.by = r => Carries(d, input[r]))
      BY <3>2 DEF Matching, SweepInv, Sweep, WriterInv
    <3>4. QED
      BY <2>1, <2>3, <3>1, <3>3
  <2>4. QED
    BY <1>7, <2>2, <2>3 DEF Requery, FindAll
<1>8. CASE Prefetch(r) \/ Find(r)
  <2>1. UNCHANGED <<input, doneBefore>> /\ input[r].kind \in {"delete", "read"}
    BY <1>8 DEF Prefetch, Find, FindAll, rest, ProgressInv, Progress
  <2>2. pc'[r] \notin {"idle", "before"}
    BY <1>8 DEF Prefetch, Find, FindAll, DriverFails, Refuses, Answers, Goto, TypeOK
  <2>3. QED
    BY <2>1, <2>2
<1>9. CASE AfterHook(r)
  <2>1. UNCHANGED <<input, found, doneBefore>>
    BY <1>9 DEF AfterHook, rest
  <2>2. CASE Answers(r, Result(r))
    <3>1. answer'[r].docs = found[r] /\ pc'[r] = "done"
      BY <2>2, ResultTyped DEF Answers, Goto, TypeOK
    <3>2. QED
      BY <2>1, <3>1
  <2>3. CASE Refuses(r, 400)
    BY <2>1, <2>3, Refusal
  <2>4. QED
    BY <1>9, <2>2, <2>3 DEF AfterHook
<1>10. QED
  BY <1>1, <1>2, <1>3, <1>4, <1>5, <1>6, <1>7, <1>8, <1>9 DEF Step

\* A step keeps FoundInv.
LEMMA FoundStep == Base /\ FoundInv /\ [Next]_vars => FoundInv'
<1> SUFFICES ASSUME Base, FoundInv, [Next]_vars, NEW r \in Req PROVE Explained(r)'
  BY DEF FoundInv
<1>1. CASE UNCHANGED vars
  BY <1>1 DEF vars, FoundInv, Explained, ByLate
<1>2. CASE Arrive(r) \/ Step(r)
  BY <1>2, OwnExplained DEF FoundInv
<1>3. ASSUME NEW s \in Req, s # r, Arrive(s) \/ Step(s) PROVE Explained(r)'
  <2>1. /\ pc'[r] = pc[r] /\ input'[r] = input[r] /\ found'[r] = found[r]
        /\ answer'[r] = answer[r] /\ doneBefore'[r] = doneBefore[r]
    BY <1>3, OthersUntouched DEF Base
  <2>2. QED
    BY <2>1 DEF FoundInv, Explained, ByLate
<1>4. QED
  BY <1>1, <1>2, <1>3 DEF Next, AllAnswered

\* An update never reports a document it should have updated and did not: what its
\* second Find returns is its own work, or was rewritten by a request that had
\* not answered when it arrived.
THEOREM UpdateAnswers == Spec => []UpdateAnswerIsExplained
<1> DEFINE I == Base /\ FoundInv
<1>1. Init => I
  <2>1. Init => FoundInv
    BY DEF Init, FoundInv, Explained, NoAnswer
  <2>2. QED
    BY <2>1, InitBase
<1>2. I /\ [Next]_vars => I'
  BY BaseStep, FoundStep
<1>3. I => UpdateAnswerIsExplained
  BY DEF FoundInv, Explained, ByLate, UpdateAnswerIsExplained, Succeeded
<1>4. QED
  BY <1>1, <1>2, <1>3, PTL DEF Spec
-----------------------------------------------------------------------------
(***************************************************************************)
(* What a delete reports.  The native adapter finds in one command what it *)
(* removes in another; alone, it finds what it removes.                    *)
(***************************************************************************)

\* No other request that mutates overlaps r.
Undisturbed(r) == \A s \in Req : ~(Overlap(r, s) /\ Mutates(s))

\* How far the delete of r has come, if nothing has disturbed it until now.
Exact(r) ==
    /\ pc[r] = "delete" => wrote[r] = {} /\ found[r] = Matching(input[r].filter)
    /\ pc[r] = "deleting" =>
          /\ todo[r] \subseteq KeysOf(Matching(input[r].filter))
          /\ KeysOf(found[r]) = wrote[r] \cup todo[r]
    /\ pc[r] = "after" => KeysOf(found[r]) = wrote[r]
    /\ answer[r].status = 200 => KeysOf(answer[r].docs) = wrote[r]

LoneDelete(r) ==
    /\ pc[r] \in {"idle", "before", "prefetch"} => wrote[r] = {}
    /\ Native /\ input[r].kind = "delete" /\ Undisturbed(r) => Exact(r)
LoneInv == \A r \in Req : LoneDelete(r)

\* A request stays of its kind.
LEMMA KindStays ==
    ASSUME TypeOK, NEW r \in Req, Step(r)
    PROVE  input'[r].kind = input[r].kind
<1>1. CASE BeforeHook(r)
  BY <1>1 DEF BeforeHook, TypeOK
<1>2. CASE GetNextId(r)
  BY <1>2, GetNextIdKeeps
<1>3. CASE UpdateOne(r) \/ DeleteOne(r)
  BY <1>3, UpdateOneDoes, DeleteOneDoes
<1>4. CASE ~(BeforeHook(r) \/ GetNextId(r) \/ UpdateOne(r) \/ DeleteOne(r))
  BY <1>4
  DEF Step, InsertOne, UpdateMany, DeleteMany, StartMany, UpdateDone, DeleteDone, EndMany,
      Requery, Prefetch, Find, FindAll, AfterHook, rest
<1>5. QED
  BY <1>1, <1>2, <1>3, <1>4

\* What has disturbed a request goes on disturbing it, whoever acts.
LEMMA StaysDisturbed ==
    ASSUME Base, NEW r \in Req, NEW s \in Req, Arrive(s) \/ Step(s),
           doneBefore'[r] = doneBefore[r], Undisturbed(r)'
    PROVE  Undisturbed(r)
<1> SUFFICES ASSUME NEW q \in Req, Overlap(r, q), Mutates(q) PROVE FALSE
  BY DEF Undisturbed
<1>1. pc'[q] # "idle" /\ doneBefore'[q] = doneBefore[q] /\ input'[q].kind = input[q].kind
  <2>1. CASE q = s
    <3>1. ~Arrive(s)
      BY <2>1 DEF Arrive, Overlap
    <3>2. QED
      BY <2>1, <3>1, ActorActs, KindStays DEF Base
  <2>2. CASE q # s
    BY <2>2, OthersUntouched DEF Base, Overlap
  <2>3. QED
    BY <2>1, <2>2
<1>2. Overlap(r, q)' /\ Mutates(q)'
  BY <1>1 DEF Overlap, Mutates
<1>3. QED
  BY <1>2 DEF Undisturbed

\* A delete that is undisturbed when its request has acted was so before.
LEMMA WasUndisturbed ==
    ASSUME Base, NEW r \in Req, Step(r), Undisturbed(r)'
    PROVE  Undisturbed(r)
<1>1. doneBefore'[r] = doneBefore[r]
  BY ActorActs DEF Base
<1>2. QED
  BY <1>1, StaysDisturbed

\* Another request that acts while r runs disturbs it, or leaves the documents.
LEMMA DisturbsOrReads ==
    ASSUME Base, NEW r \in Req, NEW s \in Req, s # r, Arrive(s) \/ Step(s),
           pc[r] \notin {"idle", "done"}
    PROVE  ~Undisturbed(r)' \/ docs' = docs
<1>1. doneBefore'[r] = doneBefore[r]
  BY OthersUntouched DEF Base
<1>2. s \notin doneBefore[r] /\ pc'[s] # "idle" /\ doneBefore'[s] \in {Answered, doneBefore[s]}
  BY ActorActs DEF Base
<1>3. r \notin Answered /\ r \notin doneBefore[s]
  BY DEF Base, ProgressInv, Progress, Answered
<1>4. Overlap(r, s)'
  BY <1>1, <1>2, <1>3 DEF Overlap
<1>5. CASE Step(s) /\ (InsertOne(s) \/ UpdateOne(s) \/ DeleteOne(s))
  <2>1. pc[s] \in {"insert", "updating", "deleting"}
    BY <1>5, UpdateOneDoes, DeleteOneDoes DEF InsertOne, Base
  <2>2. input[s].kind \in {"create", "update", "delete"}
    BY <2>1 DEF Base, ProgressInv, Progress
  <2>3. Mutates(s)'
    BY <1>2, <1>5, <2>2, KindStays DEF Base, Mutates
  <2>4. QED
    BY <1>4, <2>3 DEF Undisturbed
<1>6. CASE ~(InsertOne(s) \/ UpdateOne(s) \/ DeleteOne(s))
  BY <1>6
  DEF Step, Arrive, BeforeHook, GetNextId, UpdateMany, DeleteMany, StartMany, UpdateDone,
      DeleteDone, EndMany, Requery, Prefetch, Find, FindAll, AfterHook
<1>7. QED
  BY <1>5, <1>6 DEF Step

\* An undisturbed delete goes from what it found to what it removed.
LEMMA OwnLoneDelete ==
    ASSUME Base, NEW r \in Req, LoneDelete(r), Arrive(r) \/ Step(r)
    PROVE  LoneDelete(r)'
<1> USE DEF Base
<1>1. CASE Arrive(r)
  <2>1. pc'[r] = "before" /\ pc[r] = "idle" /\ UNCHANGED <<wrote, answer>>
    BY <1>1 DEF Arrive, Goto, TypeOK
  <2>2. QED
    BY <2>1 DEF LoneDelete, Exact, ProgressInv, Progress
<1>2. CASE BeforeHook(r)
  <2>1. wrote' = wrote /\ pc[r] = "before" /\ adapter' = adapter
    BY <1>2 DEF BeforeHook, rest
  <2>2. CASE Refuses(r, 400)
    BY <2>1, <2>2, Refusal DEF LoneDelete, Exact
  <2>3. ASSUME NEW i \in Inputs, i.kind # "bad", Goto(r, FirstCall(i)), UNCHANGED answer
        PROVE  LoneDelete(r)'
    <3>1. /\ pc'[r] = FirstCall(i)
          /\ pc'[r] \in {"nextid", "insert", "update", "prefetch", "delete", "find"}
          /\ pc'[r] = "delete" => ~Native
      BY <2>3, FirstCallFits, InputsTyped DEF Goto, TypeOK
    <3>2. answer[r].status = 0
      BY <2>1 DEF ProgressInv, Progress
    <3>3. QED
      BY <2>1, <2>3, <3>1, <3>2 DEF LoneDelete, Exact, Native
  <2>4. QED
    BY <1>2, <2>2, <2>3 DEF BeforeHook
<1>3. CASE \/ GetNextId(r) \/ InsertOne(r) \/ UpdateMany(r) \/ UpdateOne(r) \/ UpdateDone(r)
           \/ Requery(r) \/ Find(r)
  <2>1. pc[r] \in {"nextid", "insert", "update", "updating", "requery", "find"}
    BY <1>3, UpdateOneDoes
    DEF GetNextId, InsertOne, UpdateMany, StartMany, UpdateDone, EndMany, Requery, Find, FindAll
  <2>2. input[r].kind # "delete"
    BY <2>1 DEF ProgressInv, Progress
  <2>3. input'[r].kind = input[r].kind
    <3>1. CASE GetNextId(r)
      BY <3>1, GetNextIdKeeps
    <3>2. CASE ~GetNextId(r)
      BY <1>3, <3>2, UpdateOneDoes
      DEF InsertOne, UpdateMany, StartMany, UpdateDone, EndMany, Requery, Find, FindAll
    <3>3. QED
      BY <3>1, <3>2
  <2>4. pc'[r] \notin {"idle", "before", "prefetch"}
    BY <1>3, <2>1, UpdateOneDoes
    DEF GetNextId, InsertOne, UpdateMany, StartMany, UpdateDone, EndMany, Requery, Find, FindAll,
        DriverFails, Refuses, Answers, Goto, TypeOK
  <2>5. QED
    BY <2>2, <2>3, <2>4 DEF LoneDelete
\* From here on r is a delete.  If it is undisturbed after the step it was before.
<1>4. ASSUME Prefetch(r) \/ DeleteMany(r) \/ DeleteOne(r) \/ DeleteDone(r) \/ AfterHook(r),
             Native' /\ input'[r].kind = "delete" /\ Undisturbed(r)'
      PROVE  Native /\ input[r].kind = "delete" /\ Exact(r) /\ UNCHANGED <<input, adapter>>
  <2>1. Undisturbed(r)
    BY <1>4, WasUndisturbed DEF Step
  <2>2. UNCHANGED <<input, adapter>>
    BY <1>4, DeleteOneDoes
    DEF Prefetch, FindAll, DeleteMany, StartMany, DeleteDone, EndMany, AfterHook, rest
  <2>3. QED
    BY <1>4, <2>1, <2>2 DEF LoneDelete, Native
<1>5. ASSUME Prefetch(r) \/ DeleteMany(r) \/ DeleteOne(r) \/ DeleteDone(r) \/ AfterHook(r)
      PROVE  pc'[r] \notin {"idle", "before", "prefetch"}
  BY <1>5, DeleteOneDoes
  DEF Prefetch, FindAll, DeleteMany, StartMany, DeleteDone, EndMany, AfterHook, DriverFails,
      Refuses, Answers, Goto, TypeOK
<1>6. CASE Prefetch(r)
  <2>1. pc[r] = "prefetch" /\ wrote' = wrote /\ UNCHANGED <<docs, input>>
    BY <1>6 DEF Prefetch, FindAll, rest
  <2>2. CASE DriverFails(r)
    BY <1>5, <1>6, <2>2, Refusal DEF DriverFails, LoneDelete, Exact
  <2>3. CASE /\ found' = [found EXCEPT ![r] = Matching(input[r].filter)]
             /\ Goto(r, "delete") /\ UNCHANGED answer
    <3>1. found'[r] = Matching(input[r].filter) /\ pc'[r] = "delete" /\ wrote'[r] = {}
      BY <2>1, <2>3 DEF Goto, TypeOK, LoneDelete
    <3>2. answer'[r].status = 0
      BY <2>1, <2>3 DEF ProgressInv, Progress
    <3>3. QED
      BY <2>1, <3>1, <3>2 DEF LoneDelete, Exact, Matching, Matches
  <2>4. QED
    BY <1>6, <2>2, <2>3 DEF Prefetch, FindAll
<1>7. CASE DeleteMany(r)
  <2>1. pc[r] = "delete" /\ UNCHANGED <<docs, found, wrote>>
    BY <1>7 DEF DeleteMany, StartMany, rest
  <2>2. CASE DriverFails(r)
    BY <1>5, <1>7, <2>2, Refusal DEF DriverFails, LoneDelete, Exact
  <2>3. CASE /\ todo' = [todo EXCEPT ![r] = KeysOf(Matching(input[r].filter))]
             /\ Goto(r, "deleting") /\ UNCHANGED answer
    <3>1. todo'[r] = KeysOf(Matching(input[r].filter)) /\ pc'[r] = "deleting"
      BY <2>3 DEF Goto, TypeOK
    <3>2. answer'[r].status = 0
      BY <2>1, <2>3 DEF ProgressInv, Progress
    <3>3. SUFFICES ASSUME Native' /\ input'[r].kind = "delete" /\ Undisturbed(r)' PROVE Exact(r)'
      BY <3>1 DEF LoneDelete
    <3>4. wrote[r] = {} /\ found[r] = Matching(input[r].filter) /\ input' = input
      BY <1>4, <1>7, <2>1, <3>3 DEF Exact
    <3>5. QED
      BY <2>1, <3>1, <3>2, <3>4 DEF Exact, KeysOf, Matching, Matches
  <2>4. QED
    BY <1>7, <2>2, <2>3 DEF DeleteMany, StartMany
<1>8. CASE DeleteOne(r)
  <2>1. SUFFICES ASSUME Native' /\ input'[r].kind = "delete" /\ Undisturbed(r)' PROVE Exact(r)'
    BY <1>5, <1>8 DEF LoneDelete
  <2> DEFINE Hit(k) == {d \in Matching(input[r].filter) : d.key = k}
  <2>2. PICK k \in todo[r] :
            /\ docs' = docs \ Hit(k)
            /\ wrote' = [wrote EXCEPT ![r] = @ \cup KeysOf(Hit(k))]
            /\ todo' = [todo EXCEPT ![r] = @ \ {k}]
    BY <1>8, DeleteOneDoes
  <2>3. pc[r] = "deleting" /\ UNCHANGED <<pc, input, found, answer>>
    BY <1>8, DeleteOneDoes
  <2>4. /\ todo[r] \subseteq KeysOf(Matching(input[r].filter))
        /\ KeysOf(found[r]) = wrote[r] \cup todo[r]
    BY <1>4, <1>8, <2>1, <2>3 DEF Exact
  <2>5. KeysOf(Hit(k)) = {k}
    BY <2>4 DEF KeysOf
  <2>6. wrote'[r] = wrote[r] \cup {k} /\ todo'[r] = todo[r] \ {k}
    <3> HIDE DEF Hit
    <3>1. QED
      BY <2>2, <2>5 DEF TypeOK
  <2>7. todo'[r] \subseteq KeysOf(Matching(input[r].filter))'
    <3>1. SUFFICES ASSUME NEW j \in todo[r], j # k
                   PROVE  \E d \in docs' : Matches(d, input[r].filter) /\ d.key = j
      BY <2>3, <2>6 DEF KeysOf, Matching, Matches
    <3>2. PICK d \in Matching(input[r].filter) : d.key = j
      BY <2>4, <3>1 DEF KeysOf
    <3>3. d \in docs' /\ Matches(d, input[r].filter)
      BY <2>2, <3>1, <3>2 DEF Matching
    <3>4. QED
      BY <3>2, <3>3
  <2>8. KeysOf(found[r])' = wrote'[r] \cup todo'[r]
    BY <2>2, <2>3, <2>4, <2>6 DEF KeysOf
  <2>9. answer'[r].status = 0
    BY <2>3 DEF ProgressInv, Progress
  <2>10. QED
    BY <2>3, <2>7, <2>8, <2>9 DEF Exact
<1>9. CASE DeleteDone(r)
  <2>1. SUFFICES ASSUME Native' /\ input'[r].kind = "delete" /\ Undisturbed(r)' PROVE Exact(r)'
    BY <1>5, <1>9 DEF LoneDelete
  <2>2. pc[r] = "deleting" /\ UNCHANGED <<found, wrote>>
    BY <1>9 DEF DeleteDone, EndMany, rest
  <2>3. CASE DriverFails(r)
    BY <2>3, Refusal DEF DriverFails, Exact
  <2>4. CASE todo[r] = {} /\ Goto(r, "after") /\ UNCHANGED answer
    <3>1. KeysOf(found[r]) = wrote[r]
      BY <1>4, <1>9, <2>1, <2>2, <2>4 DEF Exact
    <3>2. pc'[r] = "after" /\ answer'[r].status = 0
      BY <2>2, <2>4 DEF Goto, TypeOK, ProgressInv, Progress
    <3>3. QED
      BY <2>2, <3>1, <3>2 DEF Exact, KeysOf
  <2>5. QED
    BY <1>9, <2>3, <2>4 DEF DeleteDone, EndMany
<1>10. CASE AfterHook(r)
  <2>1. SUFFICES ASSUME Native' /\ input'[r].kind = "delete" /\ Undisturbed(r)' PROVE Exact(r)'
    BY <1>5, <1>10 DEF LoneDelete
  <2>2. pc[r] = "after" /\ UNCHANGED <<found, wrote>>
    BY <1>10 DEF AfterHook, rest
  <2>3. CASE Refuses(r, 400)
    BY <2>3, Refusal DEF Exact
  <2>4. CASE Answers(r, Result(r))
    <3>1. answer'[r].docs = found[r] /\ pc'[r] = "done"
      BY <2>4, ResultTyped DEF Answers, Goto, TypeOK
    <3>2. KeysOf(found[r]) = wrote[r]
      BY <1>4, <1>10, <2>1, <2>2 DEF Exact
    <3>3. QED
      BY <2>2, <3>1, <3>2 DEF Exact, KeysOf
  <2>5. QED
    BY <1>10, <2>3, <2>4 DEF AfterHook
<1>11. QED
  BY <1>1, <1>2, <1>3, <1>6, <1>7, <1>8, <1>9, <1>10 DEF Step

\* A step keeps LoneInv: another request that acts disturbs a delete that has not
\* answered or leaves the documents, and what an answer says does not change.
LEMMA LoneStep == Base /\ LoneInv /\ [Next]_vars => LoneInv'
<1> SUFFICES ASSUME Base, LoneInv, [Next]_vars, NEW r \in Req PROVE LoneDelete(r)'
  BY DEF LoneInv
<1>1. CASE UNCHANGED vars
  BY <1>1
  DEF vars, LoneInv, LoneDelete, Undisturbed, Overlap, Mutates, Exact, Native, KeysOf, Matching,
      Matches
<1>2. CASE Arrive(r) \/ Step(r)
  BY <1>2, OwnLoneDelete DEF LoneInv
<1>3. ASSUME NEW s \in Req, s # r, Arrive(s) \/ Step(s) PROVE LoneDelete(r)'
  <2>1. /\ pc'[r] = pc[r] /\ input'[r] = input[r] /\ wrote'[r] = wrote[r]
        /\ found'[r] = found[r] /\ todo'[r] = todo[r]
        /\ answer'[r] = answer[r] /\ doneBefore'[r] = doneBefore[r] /\ adapter' = adapter
    BY <1>3, OthersUntouched DEF Base
  <2>2. LoneDelete(r)
    BY DEF LoneInv
  <2>3. pc[r] \in {"idle", "before", "prefetch"} => wrote'[r] = {}
    BY <2>1, <2>2 DEF LoneDelete
  <2>4. SUFFICES ASSUME Native, input[r].kind = "delete", Undisturbed(r)' PROVE Exact(r)'
    BY <2>1, <2>3 DEF LoneDelete, Native
  <2>5. Undisturbed(r)
    BY <1>3, <2>1, <2>4, StaysDisturbed
  <2>6. Exact(r)
    BY <2>2, <2>4, <2>5 DEF LoneDelete
  <2>7. CASE pc[r] \notin {"idle", "done"}
    <3>1. docs' = docs
      BY <1>3, <2>4, <2>7, DisturbsOrReads
    <3>2. QED
      BY <2>1, <2>6, <3>1 DEF Exact, KeysOf, Matching, Matches
  <2>8. CASE pc[r] \in {"idle", "done"}
    BY <2>1, <2>6, <2>8 DEF Exact, KeysOf
  <2>9. QED
    BY <2>7, <2>8
<1>4. QED
  BY <1>1, <1>2, <1>3 DEF Next, AllAnswered

\* Nothing has been deleted at first.
LEMMA InitLone == Init => LoneInv
BY DEF Init, LoneInv, LoneDelete, Exact, NoAnswer

\* A native delete that no other request overlaps reports exactly what it removed,
\* although a Find and a DeleteMany decide the two.
THEOREM LoneDeletes == Spec => []LoneDeleteIsExact
<1> DEFINE I == Base /\ LoneInv
<1>1. Init => I
  BY InitBase, InitLone
<1>2. I /\ [Next]_vars => I'
  BY BaseStep, LoneStep
<1>3. I => LoneDeleteIsExact
  BY DEF LoneInv, LoneDelete, Undisturbed, Exact, LoneDeleteIsExact, Succeeded
<1>4. QED
  BY <1>1, <1>2, <1>3, PTL DEF Spec
-----------------------------------------------------------------------------
(***************************************************************************)
(* The books: every document stored or created is in the collection, or    *)
(* was removed by exactly one delete.                                      *)
(***************************************************************************)

\* The requests whose document was inserted; the _ids that r's delete removed; and
\* those that any delete did.
Inserted == {r \in Req : input[r].kind = "create" /\ wrote[r] # {}}
Removes(r) == IF input[r].kind = "delete" THEN wrote[r] ELSE {}
Removed == UNION {Removes(r) : r \in Req}

\* What a request has written and found when it has got so far, and what it makes
\* of that in its answer.
BeforeWriting ==
    {"idle", "before", "nextid", "insert", "update", "prefetch", "delete", "find"}
Ledger(r) ==
    /\ pc[r] \in BeforeWriting => wrote[r] = {}
    /\ pc[r] \in {"idle", "before"} => found[r] = {}
    /\ KeyedApart(found[r]) /\ KeyedApart(answer[r].docs)
    /\ input[r].kind = "create" /\ (pc[r] = "after" \/ answer[r].status = 200) => wrote[r] # {}
    /\ input[r].kind = "delete" =>
          /\ ~Native => found[r] = {} /\ pc[r] # "prefetch"
          /\ answer[r].status = 200 =>
                IF Native THEN answer[r].count = 0
                ELSE answer[r].docs = {} /\ answer[r].count = Cardinality(wrote[r])

\* Nothing is lost, nothing that was removed is there, and no two deletes removed
\* the same.
BooksInv ==
    /\ KeysOf(docs) \cup Removed = KeysOf(Stored) \cup Inserted
    /\ KeysOf(docs) \cap Removed = {}
    /\ \A r, s \in Req : r # s => Removes(r) \cap Removes(s) = {}

LedgerInv == (\A r \in Req : Ledger(r)) /\ BooksInv

\* A visit of UpdateMany keeps the _ids of the collection.
LEMMA UpdateKeepsKeys ==
    ASSUME TypeOK, NEW r \in Req, UpdateOne(r)
    PROVE  KeysOf(docs)' = KeysOf(docs)
<1> DEFINE Hit(k) == {d \in Matching(input[r].filter) : d.key = k}
           Written(hit) == {Patched(d, r) : d \in hit}
<1>1. PICK k \in todo[r] : docs' = (docs \ Hit(k)) \cup Written(Hit(k))
  BY DEF UpdateOne, Visit
<1>2. ASSUME NEW d \in Hit(k)
      PROVE  d \in docs /\ Patched(d, r).key = d.key
  <2>1. d \in docs
    BY DEF Matching
  <2>2. QED
    BY <2>1, PatchedTyped
<1>3. \A d \in docs' : d.key \in KeysOf(docs)
  BY <1>1, <1>2 DEF KeysOf
<1>4. ASSUME NEW d \in docs PROVE \E e \in docs' : e.key = d.key
  <2>1. CASE d \in Hit(k)
    <3>1. Patched(d, r) \in docs'
      BY <1>1, <2>1
    <3>2. QED
      BY <1>2, <2>1, <3>1
  <2>2. CASE d \notin Hit(k)
    BY <1>1, <2>2
  <2>3. QED
    BY <2>1, <2>2
<1>5. QED
  BY <1>3, <1>4 DEF KeysOf

\* A step enters a document that r inserts in the books, or moves the documents
\* under K - none or one - from the collection to those that r removed.
Inserts(r) ==
    /\ KeysOf(docs)' = KeysOf(docs) \cup {r}
    /\ Inserted' = Inserted \cup {r}
    /\ r \notin Inserted
    /\ \A s \in Req : Removes(s)' = Removes(s)
Takes(r, K) ==
    /\ K \subseteq KeysOf(docs)
    /\ KeysOf(docs)' = KeysOf(docs) \ K
    /\ Inserted' = Inserted
    /\ Removes(r)' = Removes(r) \cup K
    /\ \A s \in Req : s # r => Removes(s)' = Removes(s)

\* Every step is one of these.
LEMMA BookKept ==
    ASSUME TypeOK, KeysInv, ProgressInv, NEW r \in Req, Ledger(r), Arrive(r) \/ Step(r)
    PROVE  Inserts(r) \/ \E K : Takes(r, K)
<1>1. ASSUME NEW s \in Req, s # r
      PROVE  Removes(s)' = Removes(s) /\ (s \in Inserted' <=> s \in Inserted)
  <2>1. input'[s] = input[s] /\ wrote'[s] = wrote[s]
    BY <1>1, OthersUntouched
  <2>2. QED
    BY <2>1 DEF Removes, Inserted
\* What r does to nobody's documents leaves the books.
<1>2. ASSUME KeysOf(docs)' = KeysOf(docs), Removes(r)' = Removes(r),
             r \in Inserted' <=> r \in Inserted
      PROVE  Takes(r, {})
  <2>1. Inserted' = Inserted
    BY <1>1, <1>2 DEF Inserted
  <2>2. QED
    BY <1>1, <1>2, <2>1 DEF Takes
<1>3. CASE Arrive(r)
  <2>1. wrote' = wrote /\ docs' = docs /\ wrote[r] = {}
    BY <1>3 DEF Arrive, Ledger, BeforeWriting
  <2>2. QED
    BY <1>2, <2>1 DEF KeysOf, Removes, Inserted
<1>4. CASE Step(r) /\ wrote' = wrote /\ docs' = docs
  <2>1. input'[r].kind = input[r].kind
    BY <1>4, KindStays
  <2>2. QED
    BY <1>2, <1>4, <2>1 DEF KeysOf, Removes, Inserted
<1>5. CASE InsertOne(r) /\ docs' = docs \cup {NewDoc(r)} /\ wrote' = [wrote EXCEPT ![r] = {r}]
  <2>1. input' = input /\ input[r].kind = "create" /\ wrote[r] = {} /\ wrote'[r] = {r}
    BY <1>5 DEF InsertOne, Ledger, BeforeWriting, ProgressInv, Progress, TypeOK
  <2>2. KeysOf(docs)' = KeysOf(docs) \cup {r}
    <3>1. NewDoc(r).key = r
      BY DEF NewDoc
    <3>2. {d.key : d \in docs \cup {NewDoc(r)}} = {d.key : d \in docs} \cup {r}
      BY <3>1
    <3>3. QED
      BY <1>5, <3>2 DEF KeysOf
  <2>3. r \in Inserted' /\ r \notin Inserted /\ Removes(r)' = Removes(r)
    BY <2>1 DEF Inserted, Removes
  <2>4. Inserted' = Inserted \cup {r}
    BY <1>1, <2>3 DEF Inserted
  <2>5. Inserts(r)
    BY <1>1, <2>2, <2>3, <2>4 DEF Inserts
  <2>6. QED
    BY <2>5
<1>6. CASE UpdateOne(r)
  <2>1. input' = input /\ input[r].kind = "update"
    BY <1>6, UpdateOneDoes DEF ProgressInv, Progress
  <2>2. QED
    BY <1>2, <1>6, <2>1, UpdateKeepsKeys DEF Removes, Inserted
<1>7. CASE DeleteOne(r)
  <2> DEFINE Hit(k) == {d \in Matching(input[r].filter) : d.key = k}
  <2>1. PICK k \in todo[r] :
            /\ docs' = docs \ Hit(k)
            /\ wrote' = [wrote EXCEPT ![r] = @ \cup KeysOf(Hit(k))]
    BY <1>7, DeleteOneDoes
  <2>2. input' = input /\ input[r].kind = "delete"
    BY <1>7, DeleteOneDoes DEF ProgressInv, Progress
  <2>3. Hit(k) \subseteq docs /\ KeysOf(Hit(k)) \subseteq KeysOf(docs)
    BY DEF Matching, KeysOf
  <2>4. KeysOf(docs)' = KeysOf(docs) \ KeysOf(Hit(k))
    BY <2>1, <2>3 DEF KeysOf, KeysInv, KeyedApart
  <2>5. wrote'[r] = wrote[r] \cup KeysOf(Hit(k))
    <3> HIDE DEF Hit
    <3>1. QED
      BY <2>1 DEF TypeOK
  <2>6. Removes(r)' = Removes(r) \cup KeysOf(Hit(k))
    BY <2>2, <2>5 DEF Removes
  <2>7. Inserted' = Inserted
    BY <1>1, <2>2 DEF Inserted
  <2>8. Takes(r, KeysOf(Hit(k)))
    <3> HIDE DEF Hit
    <3>1. QED
      BY <1>1, <2>3, <2>4, <2>6, <2>7 DEF Takes
  <2>9. QED
    BY <2>8
<1>8. \/ Arrive(r)
      \/ Step(r) /\ wrote' = wrote /\ docs' = docs
      \/ InsertOne(r) /\ docs' = docs \cup {NewDoc(r)} /\ wrote' = [wrote EXCEPT ![r] = {r}]
      \/ UpdateOne(r) \/ DeleteOne(r)
  BY DEF Step, BeforeHook, GetNextId, InsertOne, UpdateMany, DeleteMany, StartMany, UpdateDone,
         DeleteDone, EndMany, Requery, Prefetch, Find, FindAll, AfterHook, rest
<1>9. QED
  BY <1>3, <1>4, <1>5, <1>6, <1>7, <1>8

\* Neither an insert nor a removal upsets the books: the _id that is inserted is new
\* to them, and what is removed was there, so no delete had removed it.
LEMMA BooksBalance ==
    ASSUME BooksInv, NEW r \in Req, Inserts(r) \/ \E K : Takes(r, K)
    PROVE  BooksInv'
<1>1. Removed' = UNION {Removes(s)' : s \in Req}
  BY DEF Removed
<1>2. CASE Inserts(r)
  <2>1. Removed' = Removed
    BY <1>1, <1>2 DEF Removed, Inserts
  <2>2. r \notin KeysOf(Stored)
    BY StoredTyped, OriginsAreNoRequests DEF KeysOf
  <2>3. r \notin Removed
    BY <1>2, <2>2 DEF Inserts, BooksInv
  <2>4. KeysOf(docs)' \cup Removed' = KeysOf(Stored) \cup Inserted'
    BY <1>2, <2>1 DEF Inserts, BooksInv
  <2>5. KeysOf(docs)' \cap Removed' = {}
    BY <1>2, <2>1, <2>3 DEF Inserts, BooksInv
  <2>6. \A s, q \in Req : s # q => Removes(s)' \cap Removes(q)' = {}
    BY <1>2 DEF Inserts, BooksInv
  <2>7. QED
    BY <2>4, <2>5, <2>6 DEF BooksInv, KeysOf
<1>3. ASSUME NEW K, Takes(r, K) PROVE BooksInv'
  <2>1. Removed' = Removed \cup K
    <3>1. \A x : x \in Removed' <=> \E s \in Req : x \in Removes(s)'
      BY <1>1
    <3>2. \A x : x \in Removed <=> \E s \in Req : x \in Removes(s)
      BY DEF Removed
    <3>4. \A x : (\E s \in Req : x \in Removes(s)') <=> (\E s \in Req : x \in Removes(s)) \/ x \in K
      BY <1>3 DEF Takes
    <3>5. QED
      BY <3>1, <3>2, <3>4
  <2>2. KeysOf(docs)' \cup Removed' = KeysOf(Stored) \cup Inserted'
    BY <1>3, <2>1 DEF Takes, BooksInv
  <2>3. KeysOf(docs)' \cap Removed' = {}
    BY <1>3, <2>1 DEF Takes, BooksInv
  <2>4. ASSUME NEW s \in Req, s # r PROVE Removes(s)' = Removes(s) /\ Removes(s) \cap K = {}
    BY <1>3, <2>4 DEF Takes, BooksInv, Removed
  <2>5. \A s, q \in Req : s # q => Removes(s)' \cap Removes(q)' = {}
    BY <1>3, <2>4 DEF Takes, BooksInv
  <2>6. QED
    BY <2>2, <2>3, <2>5 DEF BooksInv, KeysOf
<1>4. QED
  BY <1>2, <1>3

\* The adapter behind the endpoint stays the same.
LEMMA AdapterStays ==
    ASSUME TypeOK, NEW r \in Req, Arrive(r) \/ Step(r)
    PROVE  adapter' = adapter
<1>1. CASE UpdateOne(r) \/ DeleteOne(r)
  BY <1>1, UpdateOneDoes, DeleteOneDoes
<1>2. CASE ~(UpdateOne(r) \/ DeleteOne(r))
  BY <1>2
  DEF Arrive, Step, BeforeHook, GetNextId, InsertOne, UpdateMany, DeleteMany, StartMany,
      UpdateDone, DeleteDone, EndMany, Requery, Prefetch, Find, FindAll, AfterHook, rest
<1>3. QED
  BY <1>1, <1>2

\* A request that acts keeps its part of the books.
LEMMA OwnLedger ==
    ASSUME Base, NEW r \in Req, Ledger(r), Arrive(r) \/ Step(r)
    PROVE  Ledger(r)'
<1> USE DEF Base
<1>1. Native' <=> Native
  BY AdapterStays DEF Native
<1>2. KeyedApart({})
  BY DEF KeyedApart
<1>3. ASSUME NEW status \in {400, 500}, Refuses(r, status), UNCHANGED found,
             input'[r].kind = input[r].kind, pc[r] # "idle", wrote' \in [Req -> SUBSET (Origins \cup Req)]
      PROVE  Ledger(r)'
  <2>1. pc'[r] = "done" /\ answer'[r].status = status /\ answer'[r].docs = {}
    BY <1>3, Refusal
  <2>2. KeyedApart(found[r]) /\ (input[r].kind = "delete" /\ ~Native => found[r] = {})
    BY DEF Ledger
  <2>3. QED
    BY <1>1, <1>2, <1>3, <2>1, <2>2 DEF Ledger, BeforeWriting, KeyedApart
<1>4. CASE Arrive(r)
  <2>1. /\ pc'[r] = "before" /\ pc[r] = "idle" /\ UNCHANGED <<wrote, found, answer>>
        /\ answer[r].status = 0
    BY <1>4 DEF Arrive, Goto, TypeOK, ProgressInv, Progress
  <2>2. wrote[r] = {} /\ found[r] = {} /\ KeyedApart(found[r]) /\ KeyedApart(answer[r].docs)
    BY <2>1 DEF Ledger, BeforeWriting
  <2>3. QED
    BY <2>1, <2>2 DEF Ledger, KeyedApart
<1>5. CASE BeforeHook(r)
  <2>1. /\ UNCHANGED <<wrote, found>> /\ pc[r] = "before" /\ answer[r].status = 0
        /\ wrote[r] = {} /\ found[r] = {} /\ KeyedApart(answer[r].docs)
    BY <1>5 DEF BeforeHook, rest, ProgressInv, Progress, Ledger, BeforeWriting
  <2>2. CASE Refuses(r, 400) /\ UNCHANGED input
    BY <1>3, <2>1, <2>2 DEF TypeOK
  <2>3. ASSUME NEW i \in Inputs, i.kind # "bad", input' = [input EXCEPT ![r] = i],
               Goto(r, FirstCall(i)), UNCHANGED answer
        PROVE  Ledger(r)'
    <3>1. input'[r] = i /\ pc'[r] = FirstCall(i) /\ i \in Input
      BY <2>3, InputsTyped DEF Goto, TypeOK
    <3>2. /\ FirstCall(i) \in {"nextid", "insert", "update", "prefetch", "delete", "find"}
          /\ FirstCall(i) = "prefetch" => Native
      BY <2>3, <3>1, FirstCallFits
    <3>3. QED
      BY <1>1, <1>2, <2>1, <2>3, <3>1, <3>2 DEF Ledger, BeforeWriting, KeyedApart
  <2>4. QED
    BY <1>5, <2>2, <2>3 DEF BeforeHook
<1>6. Step(r) => input'[r].kind = input[r].kind
  BY KindStays
<1>7. CASE GetNextId(r)
  <2>1. /\ pc[r] = "nextid" /\ pc'[r] = "insert" /\ UNCHANGED <<wrote, found, answer>>
        /\ input[r].kind = "create" /\ input'[r].kind = "create" /\ answer[r].status = 0
    BY <1>6, <1>7 DEF GetNextId, Goto, TypeOK, ProgressInv, Progress, Step
  <2>2. QED
    BY <2>1 DEF Ledger, BeforeWriting, KeyedApart
<1>8. CASE InsertOne(r)
  <2>1. pc[r] = "insert" /\ input' = input /\ input[r].kind = "create" /\ answer[r].status = 0
    BY <1>8 DEF InsertOne, ProgressInv, Progress
  <2>2. CASE DriverFails(r) /\ (wrote' = [wrote EXCEPT ![r] = {r}] \/ UNCHANGED wrote) /\ UNCHANGED found
    <3>1. wrote' \in [Req -> SUBSET (Origins \cup Req)]
      BY <2>2 DEF TypeOK
    <3>2. QED
      BY <1>3, <2>1, <2>2, <3>1 DEF DriverFails
  <2>3. CASE /\ wrote' = [wrote EXCEPT ![r] = {r}] /\ found' = [found EXCEPT ![r] = {NewDoc(r)}]
             /\ Goto(r, "after") /\ UNCHANGED answer
    <3>1. wrote'[r] = {r} /\ found'[r] = {NewDoc(r)} /\ pc'[r] = "after" /\ answer' = answer
      BY <2>3 DEF TypeOK, Goto
    <3>2. KeyedApart(found'[r])
      BY <3>1 DEF KeyedApart
    <3>3. QED
      BY <2>1, <3>1, <3>2 DEF Ledger, BeforeWriting, KeyedApart
  <2>4. QED
    BY <1>8, <2>2, <2>3 DEF InsertOne
\* An UpdateMany or DeleteMany goes on.
<1>9. ASSUME pc[r] \in {"update", "updating", "delete", "deleting"},
             pc'[r] \in {"updating", "deleting", "requery", "after"},
             UNCHANGED <<input, found, answer>>
      PROVE  Ledger(r)'
  <2>1. answer[r].status = 0 /\ input[r].kind \in {"update", "delete"}
    BY <1>9 DEF ProgressInv, Progress
  <2>2. QED
    BY <1>1, <1>9, <2>1 DEF Ledger, BeforeWriting, KeyedApart
<1>10. CASE UpdateMany(r) \/ DeleteMany(r)
  <2>1. pc[r] \in {"update", "delete"} /\ UNCHANGED <<input, found, wrote>>
    BY <1>10 DEF UpdateMany, DeleteMany, StartMany, rest
  <2>2. CASE DriverFails(r)
    BY <1>3, <2>1, <2>2 DEF DriverFails, TypeOK
  <2>3. CASE UNCHANGED answer /\ pc'[r] \in {"updating", "deleting"}
    BY <1>9, <2>1, <2>3
  <2>4. QED
    BY <1>10, <2>2, <2>3 DEF UpdateMany, DeleteMany, StartMany, Goto, TypeOK
<1>11. CASE UpdateOne(r) \/ DeleteOne(r)
  <2>1. pc[r] \in {"updating", "deleting"} /\ UNCHANGED <<pc, input, found, answer>>
    BY <1>11, UpdateOneDoes, DeleteOneDoes
  <2>2. QED
    BY <1>9, <2>1
<1>12. CASE UpdateDone(r) \/ DeleteDone(r)
  <2>1. pc[r] \in {"updating", "deleting"} /\ UNCHANGED <<input, found, wrote>>
    BY <1>12 DEF UpdateDone, DeleteDone, EndMany, rest
  <2>2. CASE DriverFails(r)
    BY <1>3, <2>1, <2>2 DEF DriverFails, TypeOK
  <2>3. CASE UNCHANGED answer /\ pc'[r] \in {"requery", "after"}
    BY <1>9, <2>1, <2>3
  <2>4. QED
    BY <1>12, <2>2, <2>3 DEF UpdateDone, DeleteDone, EndMany, Goto, TypeOK
<1>13. CASE Requery(r) \/ Prefetch(r) \/ Find(r)
  <2>1. /\ pc[r] \in {"requery", "prefetch", "find"} /\ UNCHANGED <<input, wrote>>
        /\ answer[r].status = 0 /\ input[r].kind # "create"
        /\ input[r].kind = "delete" => pc[r] = "prefetch"
        /\ pc[r] = "prefetch" => input[r].kind = "delete"
    BY <1>13 DEF Requery, Prefetch, Find, FindAll, rest, ProgressInv, Progress
  <2>2. CASE DriverFails(r) /\ UNCHANGED found
    BY <1>3, <2>1, <2>2 DEF DriverFails, TypeOK
  <2>3. CASE /\ found' = [found EXCEPT ![r] = Matching(input[r].filter)] /\ UNCHANGED answer
             /\ pc'[r] = IF pc[r] = "prefetch" THEN "delete" ELSE "after"
    <3>1. KeyedApart(Matching(input[r].filter))
      BY DEF KeysInv, KeyedApart, Matching
    <3>2. KeyedApart(found'[r])
      BY <2>3, <3>1 DEF TypeOK
    <3>3. pc[r] = "prefetch" => Native /\ wrote[r] = {}
      BY <2>1 DEF Ledger, BeforeWriting
    <3>4. QED
      BY <1>1, <2>1, <2>3, <3>2, <3>3 DEF Ledger, BeforeWriting, KeyedApart
  <2>4. QED
    BY <1>13, <2>2, <2>3 DEF Requery, Prefetch, Find, FindAll, Goto, TypeOK
<1>14. CASE AfterHook(r)
  <2>1. pc[r] = "after" /\ UNCHANGED <<input, found, wrote>>
    BY <1>14 DEF AfterHook, rest
  <2>2. CASE Refuses(r, 400)
    BY <1>3, <2>1, <2>2 DEF TypeOK
  <2>3. CASE Answers(r, Result(r))
    <3>1. answer'[r] = Result(r) /\ pc'[r] = "done"
      BY <2>3, ResultTyped DEF Answers, Goto, TypeOK
    <3>2. /\ Result(r).docs = found[r] /\ Result(r).status = 200
          /\ input[r].kind = "delete" =>
                Result(r).count = IF ~Native THEN Cardinality(wrote[r]) ELSE 0
      BY DEF Result
    <3>3. KeyedApart(answer'[r].docs)
      BY <3>1, <3>2 DEF Ledger
    <3>4. QED
      BY <1>1, <2>1, <3>1, <3>2, <3>3 DEF Ledger, BeforeWriting, KeyedApart
  <2>4. QED
    BY <1>14, <2>2, <2>3 DEF AfterHook
<1>15. QED
  BY <1>4, <1>5, <1>7, <1>8, <1>10, <1>11, <1>12, <1>13, <1>14 DEF Step

\* A step keeps LedgerInv.
LEMMA LedgerStep == Base /\ LedgerInv /\ [Next]_vars => LedgerInv'
<1> SUFFICES ASSUME Base, LedgerInv, [Next]_vars PROVE LedgerInv'
  OBVIOUS
<1>1. CASE UNCHANGED vars
  <2>1. \A r \in Req : Ledger(r)'
    BY <1>1 DEF LedgerInv, Ledger, vars, Native, KeyedApart
  <2>2. BooksInv'
    <3>1. KeysOf(docs)' = KeysOf(docs) /\ Inserted' = Inserted
      BY <1>1 DEF vars, KeysOf, Inserted
    <3>2. \A r \in Req : Removes(r)' = Removes(r)
      BY <1>1 DEF vars, Removes
    <3>3. Removed' = Removed
      BY <3>2 DEF Removed
    <3>4. QED
      BY <3>1, <3>2, <3>3 DEF LedgerInv, BooksInv, KeysOf
  <2>3. QED
    BY <2>1, <2>2 DEF LedgerInv
<1>2. ASSUME NEW s \in Req, Arrive(s) \/ Step(s) PROVE LedgerInv'
  <2>1. Ledger(s)'
    BY <1>2, OwnLedger DEF LedgerInv
  <2>2. ASSUME NEW r \in Req, r # s PROVE Ledger(r)'
    <3>1. /\ pc'[r] = pc[r] /\ input'[r] = input[r] /\ found'[r] = found[r]
          /\ answer'[r] = answer[r] /\ wrote'[r] = wrote[r] /\ adapter' = adapter
      BY <1>2, <2>2, OthersUntouched DEF Base
    <3>2. Ledger(r)
      BY DEF LedgerInv
    <3>3. QED
      BY <3>1, <3>2 DEF Ledger, Native, KeyedApart
  <2>3. BooksInv'
    BY <1>2, BookKept, BooksBalance DEF LedgerInv, Base
  <2>4. QED
    BY <2>1, <2>2, <2>3 DEF LedgerInv
<1>3. QED
  BY <1>1, <1>2 DEF Next, AllAnswered

\* The books open with the stored documents.
LEMMA InitLedger == Init => LedgerInv
<1> SUFFICES ASSUME Init PROVE LedgerInv
  OBVIOUS
<1>1. \A r \in Req : Ledger(r)
  BY DEF Init, Ledger, BeforeWriting, KeyedApart, NoAnswer
<1>2. Removed = {} /\ Inserted = {} /\ \A r \in Req : Removes(r) = {}
  BY DEF Init, Removed, Removes, Inserted
<1>3. BooksInv
  BY <1>2 DEF BooksInv, Init, KeysOf
<1>4. QED
  BY <1>1, <1>3 DEF LedgerInv
-----------------------------------------------------------------------------
(***************************************************************************)
(* ... and so the sums are right.                                          *)
(***************************************************************************)

\* As many _ids as documents.
LEMMA KeyedCount ==
    ASSUME NEW D \in SUBSET Doc, KeyedApart(D)
    PROVE  IsFiniteSet(KeysOf(D)) /\ Cardinality(KeysOf(D)) = Cardinality(D)
<1> DEFINE f == [d \in D |-> d.key]
<1>1. f \in [D -> KeysOf(D)] /\ \A k \in KeysOf(D) : \E d \in D : f[d] = k
  BY DEF KeysOf
<1>2. \A d, e \in D : f[d] = f[e] => d = e
  BY DEF KeyedApart
<1> HIDE DEF f
<1>3. f \in Bijection(D, KeysOf(D))
  BY <1>1, <1>2 DEF Bijection, Injection, Surjection, IsInjective
<1>4. ExistsBijection(D, KeysOf(D))
  BY <1>3 DEF ExistsBijection
<1>5. QED
  BY <1>4, KeyedFinite, FS_Bijection

\* Sets without a common element have together as many elements as there are pairs
\* of a set's index and a number up to its size.
LEMMA PairsCount ==
    ASSUME NEW S, NEW U, IsFiniteSet(U), NEW W \in [S -> SUBSET U],
           \A r, s \in S : r # s => W[r] \cap W[s] = {}
    PROVE  LET pairs == UNION {{r} \X (1 .. Cardinality(W[r])) : r \in S}
               all == UNION {W[r] : r \in S}
           IN  IsFiniteSet(all) /\ Cardinality(pairs) = Cardinality(all)
<1> DEFINE N == [r \in S |-> Cardinality(W[r])]
           B == [r \in S |-> CHOOSE f : f \in Bijection(1 .. N[r], W[r])]
           pairs == UNION {{r} \X (1 .. N[r]) : r \in S}
           all == UNION {W[r] : r \in S}
           g == [p \in pairs |-> B[p[1]][p[2]]]
<1>1. IsFiniteSet(all)
  <2>1. all \in SUBSET U
    OBVIOUS
  <2>2. QED
    BY <2>1, FS_Subset
<1>2. ASSUME NEW r \in S
      PROVE  /\ B[r] \in [1 .. N[r] -> W[r]]
             /\ \A i, j \in 1 .. N[r] : B[r][i] = B[r][j] => i = j
             /\ \A k \in W[r] : \E i \in 1 .. N[r] : B[r][i] = k
  <2>1. IsFiniteSet(W[r])
    BY FS_Subset
  <2>2. ExistsBijection(1 .. N[r], W[r])
    BY <2>1, FS_CardinalityType
  <2>3. B[r] \in Bijection(1 .. N[r], W[r])
    BY <2>2 DEF ExistsBijection
  <2> HIDE DEF N, B
  <2>4. B[r] \in [1 .. N[r] -> W[r]] /\ IsInjective(B[r]) /\ B[r] \in Surjection(1 .. N[r], W[r])
    BY <2>3 DEF Bijection, Injection, Surjection
  <2>5. DOMAIN B[r] = 1 .. N[r]
    BY <2>4
  <2>6. QED
    BY <2>4, <2>5 DEF IsInjective, Surjection
<1> HIDE DEF N, B
<1>3. ASSUME NEW p \in pairs
      PROVE  p[1] \in S /\ p[2] \in 1 .. N[p[1]] /\ p = <<p[1], p[2]>>
  OBVIOUS
<1>4. \A r \in S : \A i \in 1 .. N[r] : <<r, i>> \in pairs
  OBVIOUS
<1> HIDE DEF pairs
<1>5. ASSUME NEW p \in pairs PROVE g[p] = B[p[1]][p[2]] /\ g[p] \in W[p[1]]
  <2>1. g[p] = B[p[1]][p[2]]
    OBVIOUS
  <2> HIDE DEF g
  <2>2. p[1] \in S /\ p[2] \in 1 .. N[p[1]]
    BY <1>3
  <2>3. B[p[1]] \in [1 .. N[p[1]] -> W[p[1]]]
    BY <1>2, <2>2
  <2>4. QED
    BY <2>1, <2>2, <2>3
<1>6. g \in [pairs -> all]
  <2>1. \A p \in pairs : g[p] \in all
    BY <1>3, <1>5
  <2> HIDE DEF all
  <2>2. QED
    BY <2>1
<1>7. ASSUME NEW p \in pairs, NEW q \in pairs, g[p] = g[q] PROVE p = q
  <2> HIDE DEF g
  <2>1. p[1] = q[1]
    BY <1>3, <1>5, <1>7
  <2>2. B[p[1]][p[2]] = B[p[1]][q[2]]
    BY <1>5, <1>7, <2>1
  <2>3. p[2] = q[2]
    BY <1>2, <1>3, <2>1, <2>2
  <2>4. QED
    BY <1>3, <2>1, <2>3
<1>8. ASSUME NEW k \in all PROVE \E p \in pairs : g[p] = k
  <2>1. PICK r \in S : k \in W[r]
    OBVIOUS
  <2>2. PICK i \in 1 .. N[r] : B[r][i] = k
    BY <1>2, <2>1
  <2>3. g[<<r, i>>] = k /\ <<r, i>> \in pairs
    BY <1>4, <2>2
  <2>4. QED
    BY <2>3
<1> HIDE DEF g, all
<1>9. g \in Bijection(pairs, all)
  BY <1>6, <1>7, <1>8 DEF Bijection, Injection, Surjection, IsInjective
<1>10. ExistsBijection(all, pairs)
  BY <1>9, Fun_ExistsBijSymmetric DEF ExistsBijection
<1>11. Cardinality(pairs) = Cardinality(all)
  BY <1>1, <1>10, FS_Bijection
<1>12. pairs = UNION {{r} \X (1 .. Cardinality(W[r])) : r \in S}
  BY DEF pairs, N
<1>13. QED
  BY <1>1, <1>11, <1>12 DEF all

\* What a delete reports is as much as it removed: the http adapter answers with the
\* server's count, and the native one found what it removed, if undisturbed.
LEMMA ReportsWhatItRemoved ==
    ASSUME Base, LoneInv, LedgerInv, NEW r \in Deletions, Native => Undisturbed(r)
    PROVE  Reported(r) = Cardinality(wrote[r])
<1>1. r \in Req /\ answer[r].status = 200 /\ input[r].kind = "delete"
  BY DEF Deletions, Succeeded
<1>2. Ledger(r)
  BY <1>1 DEF LedgerInv
<1>3. answer[r].docs \in SUBSET Doc /\ wrote[r] \in SUBSET (Origins \cup Req)
  BY <1>1 DEF Base, TypeOK, Answer
<1>4. CASE Native
  <2>1. KeysOf(answer[r].docs) = wrote[r]
    BY <1>1, <1>4 DEF LoneInv, LoneDelete, Exact
  <2>2. Cardinality(answer[r].docs) = Cardinality(wrote[r])
    BY <1>2, <1>3, <2>1, KeyedCount DEF Ledger
  <2>3. answer[r].count = 0
    BY <1>1, <1>2, <1>4 DEF Ledger
  <2>4. Cardinality(wrote[r]) \in Nat
    <3>1. IsFiniteSet(Origins \cup Req)
      BY OriginsFinite, FS_Union
    <3>2. QED
      BY <1>3, <3>1, FS_Subset, FS_CardinalityType
  <2>5. QED
    BY <2>2, <2>3, <2>4 DEF Reported
<1>5. CASE ~Native
  <2>1. answer[r].docs = {} /\ answer[r].count = Cardinality(wrote[r])
    BY <1>1, <1>2, <1>5 DEF Ledger
  <2>2. Cardinality(wrote[r]) \in Nat
    BY <1>1, <2>1 DEF Base, TypeOK, Answer
  <2>3. QED
    BY <2>1, <2>2, FS_EmptySet DEF Reported
<1>6. QED
  BY <1>4, <1>5

\* The books balance, however the steps of the deletes and of the other requests
\* interleave.
THEOREM BooksBalanceInTheEnd == Spec => []DeletionsAddUp
<1> DEFINE I == Base /\ LoneInv /\ LedgerInv
<1>1. Init => I
  BY InitBase, InitLone, InitLedger
<1>2. I /\ [Next]_vars => I'
  BY BaseStep, LoneStep, LedgerStep
<1>3. I => DeletionsAddUp
  <2>1. SUFFICES ASSUME I, \A r \in Req : Mutates(r) => answer[r].status = 200,
                        Native => \A r \in Deletions, s \in Req : ~(Overlap(r, s) /\ Mutates(s))
                 PROVE  Cardinality(docs) + Cardinality(ReportedDeleted)
                          = Cardinality(Stored) + Cardinality({r \in Req : Succeeded(r, "create")})
    BY DEF DeletionsAddUp
  <2> DEFINE W == [r \in Deletions |-> wrote[r]]
             U == Origins \cup Req
  <2>2. IsFiniteSet(U) /\ \A r \in Deletions : r \in Req
    BY OriginsFinite, FS_Union DEF Deletions
  \* Who has written has succeeded, and who has succeeded with a create has written.
  <2>3. ASSUME NEW r \in Req, wrote[r] # {}, input[r].kind \in {"create", "delete"}
        PROVE  answer[r].status = 200
    <3>1. pc[r] # "idle"
      BY <2>1, <2>3 DEF LedgerInv, Ledger, BeforeWriting
    <3>2. QED
      BY <2>1, <2>3, <3>1 DEF Mutates
  <2>4. {r \in Req : Succeeded(r, "create")} = Inserted
    BY <2>1, <2>3 DEF Inserted, Succeeded, LedgerInv, Ledger
  <2>5. Removed = UNION {W[r] : r \in Deletions}
    <3>1. \A r \in Req : Removes(r) # {} => r \in Deletions /\ Removes(r) = W[r]
      BY <2>3 DEF Removes, Deletions, Succeeded
    <3>2. \A r \in Deletions : r \in Req /\ W[r] = Removes(r)
      BY DEF Removes, Deletions, Succeeded
    <3> HIDE DEF W
    <3>3. QED
      BY <3>1, <3>2 DEF Removed
  <2>6. ReportedDeleted = UNION {{r} \X (1 .. Cardinality(W[r])) : r \in Deletions}
    <3>1. \A r \in Deletions : Reported(r) = Cardinality(W[r])
      BY <2>1, <2>2, ReportsWhatItRemoved DEF Undisturbed
    <3> HIDE DEF W
    <3>2. QED
      BY <3>1 DEF ReportedDeleted
  <2>7. IsFiniteSet(Removed) /\ Cardinality(ReportedDeleted) = Cardinality(Removed)
    <3>1. W \in [Deletions -> SUBSET U]
      BY <2>1, <2>2 DEF Base, TypeOK
    <3>2. \A r, s \in Deletions : r # s => W[r] \cap W[s] = {}
      BY <2>1, <2>2 DEF LedgerInv, BooksInv, Removes, Deletions, Succeeded
    <3> HIDE DEF W, U
    <3>3. LET pairs == UNION {{r} \X (1 .. Cardinality(W[r])) : r \in Deletions}
              all == UNION {W[r] : r \in Deletions}
          IN  IsFiniteSet(all) /\ Cardinality(pairs) = Cardinality(all)
      BY <2>2, <3>1, <3>2, PairsCount
    <3>4. QED
      BY <2>5, <2>6, <3>3
  <2>8. docs \in SUBSET Doc /\ KeyedApart(docs) /\ Stored \in SUBSET Doc /\ KeyedApart(Stored)
    BY <2>1, StoredTyped, StoredKeyed DEF Base, TypeOK, KeysInv, KeyedApart
  <2> DEFINE there == KeysOf(docs)
             stored == KeysOf(Stored)
  <2>9. /\ IsFiniteSet(there) /\ Cardinality(there) = Cardinality(docs)
        /\ IsFiniteSet(stored) /\ Cardinality(stored) = Cardinality(Stored)
    BY <2>8, KeyedCount
  <2>10. there \cup Removed = stored \cup Inserted /\ there \cap Removed = {}
    BY <2>1 DEF LedgerInv, BooksInv
  <2>11. stored \cap Inserted = {} /\ IsFiniteSet(Inserted)
    <3>1. stored \subseteq Origins
      BY StoredTyped DEF KeysOf
    <3>2. Inserted \in SUBSET Req
      BY DEF Inserted
    <3>3. QED
      BY <3>1, <3>2, OriginsAreNoRequests, OriginsFinite, FS_Subset
  <2> HIDE DEF there, stored
  <2>12. Cardinality(there \cup Removed) = Cardinality(there) + Cardinality(Removed)
    <3>1. Cardinality(there) \in Nat /\ Cardinality(Removed) \in Nat
      BY <2>7, <2>9, FS_CardinalityType
    <3>2. Cardinality(there \cap Removed) = 0
      BY <2>10, FS_EmptySet
    <3>3. Cardinality(there \cup Removed)
            = Cardinality(there) + Cardinality(Removed) - Cardinality(there \cap Removed)
      BY <2>7, <2>9, FS_Union
    <3>4. QED
      BY <3>1, <3>2, <3>3
  <2>13. Cardinality(stored \cup Inserted) = Cardinality(stored) + Cardinality(Inserted)
    <3>1. Cardinality(stored) \in Nat /\ Cardinality(Inserted) \in Nat
      BY <2>9, <2>11, FS_CardinalityType
    <3>2. Cardinality(stored \cap Inserted) = 0
      BY <2>11, FS_EmptySet
    <3>3. Cardinality(stored \cup Inserted)
            = Cardinality(stored) + Cardinality(Inserted) - Cardinality(stored \cap Inserted)
      BY <2>9, <2>11, FS_Union
    <3>4. QED
      BY <3>1, <3>2, <3>3
  <2>14. QED
    BY <2>4, <2>7, <2>9, <2>10, <2>12, <2>13
<1>4. QED
  BY <1>1, <1>2, <1>3, PTL DEF Spec
=============================================================================
