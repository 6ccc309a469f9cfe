-------------------------- MODULE SqlAdapterProofs --------------------------
(***************************************************************************)
(* Theorems about the SQL adapter, for any number of clients, any inputs,  *)
(* any pool and any combination of faults: about ids and duplicates, about *)
(* what answers are worth, and that it implements the atomic table.        *)
(***************************************************************************)
EXTENDS SqlAdapter, FiniteSetTheorems, TLAPS

(***************************************************************************)
(* What one statement does to a table.                                     *)
(***************************************************************************)

\* A patched row is a row, and that of the same request; its id is the old one from
\* whoever it was, or the patch's from the request that patches.
LEMMA PatchedTyped ==
    ASSUME NEW row \in Row, NEW i \in Input, NEW r \in Req
    PROVE  /\ Patched(row, i, r) \in Row
           /\ Patched(row, i, r).by = row.by
           /\ \/ Patched(row, i, r).id = row.id /\ Patched(row, i, r).idBy = row.idBy
              \/ Patched(row, i, r).id = i.id /\ Patched(row, i, r).idBy = r
<1>1. i.val \in Vals /\ i.id \in Id
  BY DEF Input
<1> DEFINE v == IF "val" \in i.cols THEN i.val ELSE row.val
           n == IF "id" \in i.cols THEN i.id ELSE row.id
           b == IF "id" \in i.cols THEN r ELSE row.idBy
<1>2. /\ v \in Vals /\ n \in Id /\ b \in Req \cup Origins
      /\ \/ n = row.id /\ b = row.idBy
         \/ n = i.id /\ b = r
  BY <1>1 DEF Row
<1>3. Patched(row, i, r) = [row EXCEPT !.val = v, !.id = n, !.idBy = b]
  BY DEF Patched
<1>4. QED
  <2> HIDE DEF v, n, b
  <2>1. QED  BY <1>2, <1>3 DEF Row

\* A statement leaves a set of rows.
LEMMA StatementTyped ==
    ASSUME NEW t \in SUBSET Row, NEW i \in Input, NEW k \in Id, NEW r \in Req
    PROVE  Statement(t, i, k, r) \in SUBSET Row
<1>1. i.val \in Vals /\ i.kind \in Kinds
  BY DEF Input
<1>2. CASE i.kind = "create"
  BY <1>1, <1>2 DEF Statement, Inserted, NewRow, Row
<1>3. CASE i.kind = "update"
  BY <1>3, PatchedTyped DEF Statement, Updated, PatchedRows, Matching
<1>4. CASE i.kind = "delete"
  BY <1>4 DEF Statement, Deleted, Matching
<1>5. CASE i.kind \in {"read", "bad"}
  BY <1>5 DEF Statement
<1>6. QED
  BY <1>1, <1>2, <1>3, <1>4, <1>5 DEF Kinds

\* A row found after a statement is the one it inserted, or it was there before; then
\* it has the id it had, or an UPDATE has just given it one.
LEMMA StatementOrigin ==
    ASSUME NEW t \in SUBSET Row, NEW i \in Input, NEW k \in Id, NEW r \in Req,
           NEW row \in Statement(t, i, k, r)
    PROVE  \/ i.kind = "create" /\ row.by = r /\ row.idBy = r /\ row.id = k
           \/ \E old \in t : /\ old.by = row.by
                             /\ \/ old.id = row.id /\ old.idBy = row.idBy
                                \/ i.kind = "update" /\ row.idBy = r
<1>1. i.kind \in Kinds
  BY DEF Input
<1>2. CASE i.kind = "create"
  BY <1>2 DEF Statement, Inserted, NewRow
<1>3. CASE i.kind = "update"
  <2>1. CASE row \in t
    BY <2>1
  <2>2. CASE row \notin t
    <3>1. PICK old \in Matching(t, i.where) : row = Patched(old, i, r)
      BY <1>3, <2>2 DEF Statement, Updated, PatchedRows
    <3>2. old \in t /\ old \in Row
      BY <3>1 DEF Matching
    <3>3. QED
      BY <1>3, <3>1, <3>2, PatchedTyped
  <2>3. QED
    BY <2>1, <2>2
<1>4. CASE i.kind = "delete"
  BY <1>4 DEF Statement, Deleted
<1>5. CASE i.kind \in {"read", "bad"}
  BY <1>5 DEF Statement
<1>6. QED
  BY <1>1, <1>2, <1>3, <1>4, <1>5 DEF Kinds

\* No creator has two rows.
OneRowEach(t) == \A row1, row2 \in t : row1.by = row2.by => row1 = row2

\* A statement of a request that has no row yet keeps it so.
LEMMA StatementOneRowEach ==
    ASSUME NEW t \in SUBSET Row, NEW i \in Input, NEW k \in Id, NEW r \in Req,
           OneRowEach(t), \A row \in t : row.by # r
    PROVE  OneRowEach(Statement(t, i, k, r))
<1>1. i.kind \in Kinds
  BY DEF Input
<1>2. CASE i.kind = "create"
  BY <1>2 DEF Statement, Inserted, NewRow, OneRowEach
<1>3. CASE i.kind = "update"
  <2> DEFINE New(row) == IF row.id \in i.where THEN Patched(row, i, r) ELSE row
  <2>1. \A row \in Row : New(row).by = row.by
    BY PatchedTyped
  <2>2. \A row \in Statement(t, i, k, r) : \E old \in t : row = New(old)
    BY <1>3 DEF Statement, Updated, PatchedRows, Matching
  <2>3. SUFFICES ASSUME NEW row1 \in Statement(t, i, k, r),
                        NEW row2 \in Statement(t, i, k, r),
                        row1.by = row2.by
                 PROVE  row1 = row2
    BY DEF OneRowEach
  <2>4. PICK old1 \in t : row1 = New(old1)
    BY <2>2
  <2>5. PICK old2 \in t : row2 = New(old2)
    BY <2>2
  <2>6. old1 = old2
    <3> HIDE DEF New
    <3>1. old1.by = row1.by /\ old2.by = row2.by
      BY <2>1, <2>4, <2>5
    <3>2. QED
      BY <3>1, <2>3 DEF OneRowEach
  <2>7. QED
    BY <2>4, <2>5, <2>6
<1>4. CASE i.kind = "delete"
  BY <1>4 DEF Statement, Deleted, OneRowEach
<1>5. CASE i.kind \in {"read", "bad"}
  BY <1>5 DEF Statement
<1>6. QED
  BY <1>1, <1>2, <1>3, <1>4, <1>5 DEF Kinds

\* The rows a statement hands back are rows.
LEMMA ResultTyped ==
    ASSUME NEW t \in SUBSET Row, NEW i \in Input, NEW k \in Id, NEW r \in Req,
           NEW returning \in BOOLEAN
    PROVE  ResultRows(t, i, k, r, returning) \in SUBSET Row
<1>1. i.val \in Vals /\ i.kind \in Kinds
  BY DEF Input
<1>2. CASE i.kind = "read"
  BY <1>2 DEF ResultRows, PatchedRows, Matching
<1>3. CASE i.kind = "create"
  BY <1>1, <1>3 DEF ResultRows, NewRow, Row
<1>4. CASE i.kind = "update"
  BY <1>4, PatchedTyped DEF ResultRows, PatchedRows, Matching
<1>5. CASE i.kind \in {"delete", "bad"}
  BY <1>5 DEF ResultRows
<1>6. QED
  BY <1>1, <1>2, <1>3, <1>4, <1>5 DEF Kinds
-----------------------------------------------------------------------------
(***************************************************************************)
(* Type correctness.                                                       *)
(***************************************************************************)

\* An INSERT stores its row under an id of the column's type, or NULL.
LEMMA StoredIdsTyped == \A i \in Input : StoredIds(i) \subseteq Id
BY DEF StoredIds, Input

\* The body with the id that getNextID made is a body for the same operation.
LEMMA WithIdTyped ==
    ASSUME NEW i \in Input, NEW id \in Id
    PROVE  /\ WithId(i, id) \in Input
           /\ WithId(i, id).route = i.route
           /\ WithId(i, id).kind = i.kind
           /\ WithId(i, id).id = id
<1>1. PICK c \in SUBSET Columns : WithId(i, id) = [i EXCEPT !.id = id, !.cols = c]
  BY DEF WithId, Input, Columns
<1>2. QED
  BY <1>1 DEF Input

\* An error answer is an answer with the status and stage it was given.
LEMMA ErrorTyped ==
    ASSUME NEW status \in {400, 500}, NEW stage \in Stages
    PROVE  /\ Error(status, stage) \in Answer
           /\ Error(status, stage).status = status
           /\ Error(status, stage).stage = stage
BY DEF Error, NoAnswer, Answer, Id

\* What running a statement changes, for the proofs of the actions that run one.
LEMMA RunsTyped ==
    ASSUME TypeOK, NEW r \in Req, NEW k \in StoredIds(input[r]), Runs(r, k)
    PROVE  /\ k \in Id
           /\ table' \in SUBSET Row
           /\ ran' \in SUBSET Req
           /\ ResultRows(table, input[r], k, r, Returning) \in SUBSET Row
<1>1. input[r] \in Input /\ table \in SUBSET Row
  BY DEF TypeOK
<1>2. k \in Id
  BY <1>1, StoredIdsTyped
<1>3. table' \in SUBSET Row
  BY <1>1, <1>2, StatementTyped DEF Runs
<1>4. ResultRows(table, input[r], k, r, Returning) \in SUBSET Row
  BY <1>1, <1>2, ResultTyped, OptionsTyped
<1>5. ran' \in SUBSET Req
  BY DEF Runs, TypeOK
<1>6. QED
  BY <1>2, <1>3, <1>4, <1>5

\* The initial state, with the stored rows and no request, has the declared types.
LEMMA InitTyped == Init => TypeOK
<1> SUFFICES ASSUME Init PROVE TypeOK
  OBVIOUS
<1>1. (CHOOSE i \in Inputs : TRUE) \in Input
  BY InputsTyped
<1>2. table \subseteq Row
  BY StoredTyped DEF Init
<1>3. NoAnswer \in Answer
  BY DEF NoAnswer, Answer, Stages, Id
<1>4. input \in [Req -> Input]
  BY <1>1 DEF Init
<1>5. QED
  BY <1>2, <1>3, <1>4 DEF Init, TypeOK, Phases

\* Every step of handler, engine or driver keeps the declared types.
LEMMA StepTyped == TypeOK /\ [Next]_vars => TypeOK'
<1> SUFFICES ASSUME TypeOK, [Next]_vars PROVE TypeOK'
  OBVIOUS
<1> USE DEF TypeOK, history
<1>1. ASSUME NEW r \in Req, Arrive(r) PROVE TypeOK'
  <2>1. input' \in [Req -> Input]
    BY <1>1, InputsTyped DEF Arrive
  <2>2. doneBefore' \in [Req -> SUBSET Req]
    BY <1>1 DEF Arrive, Answered
  <2>3. QED
    BY <1>1, <2>1, <2>2 DEF Arrive, Goto, Phases
<1>2. ASSUME NEW r \in Req, BeforeHook(r) PROVE TypeOK'
  <2>1. input' \in [Req -> Input]
    BY <1>2, InputsTyped DEF BeforeHook
  <2>2. pc' \in [Req -> Phases]
    BY <1>2 DEF BeforeHook, Goto, Fails, Answers, AfterBefore, Phases
  <2>3. answer' \in [Req -> Answer]
    BY <1>2, ErrorTyped DEF BeforeHook, Fails, Answers, Stages
  <2>4. QED
    BY <1>2, <2>1, <2>2, <2>3 DEF BeforeHook
<1>3. ASSUME NEW r \in Req, Reject(r) PROVE TypeOK'
  <2>1. answer' \in [Req -> Answer]
    BY <1>3, ErrorTyped DEF Reject, Fails, Answers, Stages
  <2>2. QED
    BY <1>3, <2>1 DEF Reject, Fails, Answers, Goto, Phases
<1>4. ASSUME NEW r \in Req, GetNextId(r) PROVE TypeOK'
  <2>1. result' \in [Req -> SUBSET Row]
    BY <1>4 DEF GetNextId, NewRow, Row, Id, Input
  <2>2. QED
    BY <1>4, <2>1 DEF GetNextId, Goto, Acquire, Phases
<1>5. ASSUME NEW r \in Req, ScanNextId(r) PROVE TypeOK'
  <2>1. input' \in [Req -> Input]
    <3>1. input' = input \/ \E row \in result[r] : input' = [input EXCEPT ![r] = WithId(@, row.id)]
      BY <1>5 DEF ScanNextId
    <3>2. \A row \in result[r] : WithId(input[r], row.id) \in Input
      BY WithIdTyped DEF Row
    <3>3. QED
      BY <3>1, <3>2
  <2>2. QED
    BY <1>5, <2>1 DEF ScanNextId, Goto, Release, Phases
<1>6. ASSUME NEW r \in Req, Execute(r) PROVE TypeOK'
  <2>1. answer' \in [Req -> Answer]
    BY <1>6, ErrorTyped DEF Execute, Fails, Answers, Stages
  <2>2. pc' \in [Req -> Phases]
    BY <1>6 DEF Execute, Fails, Answers, Goto, Phases
  <2>3. table' \in SUBSET Row /\ ran' \in SUBSET Req
    BY <1>6, RunsTyped DEF Execute
  <2>4. QED
    BY <1>6, <2>1, <2>2, <2>3 DEF Execute
<1>7. ASSUME NEW r \in Req, EngineQuery(r) PROVE TypeOK'
  <2>1. answer' \in [Req -> Answer]
    BY <1>7, ErrorTyped DEF EngineQuery, Fails, Answers, Stages
  <2>2. pc' \in [Req -> Phases]
    BY <1>7 DEF EngineQuery, Fails, Answers, Goto, Phases
  <2>3. table' \in SUBSET Row /\ ran' \in SUBSET Req
    BY <1>7, RunsTyped DEF EngineQuery
  <2>4. result' \in [Req -> SUBSET Row]
    BY <1>7, RunsTyped DEF EngineQuery
  <2>5. inUse' \subseteq Req
    BY <1>7 DEF EngineQuery, Acquire
  <2>6. QED
    BY <1>7, <2>1, <2>2, <2>3, <2>4, <2>5 DEF EngineQuery
<1>8. ASSUME NEW r \in Req, Hydrate(r) PROVE TypeOK'
  <2>1. answer' \in [Req -> Answer]
    BY <1>8, ErrorTyped DEF Hydrate, Fails, Answers, Stages
  <2>2. result' \in [Req -> SUBSET Row]
    BY <1>8 DEF Hydrate
  <2>3. pc' \in [Req -> Phases]
    BY <1>8 DEF Hydrate, Fails, Answers, Goto, Phases
  <2>4. QED
    BY <1>8, <2>1, <2>2, <2>3 DEF Hydrate, Release
<1>9. ASSUME NEW r \in Req, AfterHook(r) PROVE TypeOK'
  <2>1. Success(r) \in Answer
    BY DEF Success, Answer, Stages, Input, Id
  <2>2. answer' \in [Req -> Answer]
    BY <1>9, <2>1, ErrorTyped DEF AfterHook, Fails, Answers, Stages
  <2>3. QED
    BY <1>9, <2>2 DEF AfterHook, Fails, Answers, Goto, Phases
<1>10. CASE UNCHANGED vars
  BY <1>10 DEF vars
<1>11. QED
  BY <1>1, <1>2, <1>3, <1>4, <1>5, <1>6, <1>7, <1>8, <1>9, <1>10
  DEF Next, Step, AllAnswered

\* Every reachable state has the declared types: rows, inputs, results and
\* answers stay what the adapter's Go types say they are.
THEOREM TypeCorrect == Spec => []TypeOK
BY InitTyped, StepTyped, PTL DEF Spec
-----------------------------------------------------------------------------
(***************************************************************************)
(* Generated ids.  The adapter reads MAX(id) and inserts in two statements *)
(* with no transaction round them; what can be promised all the same rests *)
(* on WindowInv, which says what may happen between the two.               *)
(***************************************************************************)

\* A step keeps ProgressInv: a goroutine answers exactly when it ends, and its
\* statement runs only on the way to its rows, its After hook or its answer.
LEMMA ProgressStep == TypeOK /\ ProgressInv /\ [Next]_vars => ProgressInv'
<1> SUFFICES ASSUME TypeOK, ProgressInv, [Next]_vars PROVE ProgressInv'
  OBVIOUS
<1> USE DEF TypeOK, ProgressInv, Answered, history
<1>1. ASSUME NEW r \in Req, Arrive(r) PROVE ProgressInv'
  BY <1>1 DEF Arrive, Goto
<1>2. ASSUME NEW r \in Req, BeforeHook(r) PROVE ProgressInv'
  <2>1. CASE \E i \in Inputs : /\ input' = [input EXCEPT ![r] = i]
                               /\ Goto(r, AfterBefore(i))
                               /\ UNCHANGED answer
    <3>1. PICK i \in Inputs : input' = [input EXCEPT ![r] = i] /\ Goto(r, AfterBefore(i))
      BY <2>1
    <3>2. pc' = [pc EXCEPT ![r] = AfterBefore(i)] /\ pc[r] = "before"
      BY <1>2, <3>1 DEF BeforeHook, Goto
    <3>3. /\ AfterBefore(i) \in {"engine", "nextid", "execute"}
          /\ AfterBefore(i) = "nextid" => i.kind \in {"create", "bad"}
      BY DEF AfterBefore, NeedsId
    <3>4. UNCHANGED <<answer, ran, generated, doneBefore>>
      BY <1>2, <2>1 DEF BeforeHook
    <3>5. QED
      BY <3>1, <3>2, <3>3, <3>4
  <2>2. CASE Fails(r, 400, "before") /\ UNCHANGED input
    BY <1>2, <2>2, ErrorTyped DEF BeforeHook, Fails, Answers, Goto, Stages
  <2>3. QED
    BY <1>2, <2>1, <2>2 DEF BeforeHook
<1>3. ASSUME NEW r \in Req, Reject(r) PROVE ProgressInv'
  BY <1>3, ErrorTyped DEF Reject, Fails, Answers, Goto, Stages
<1>4. ASSUME NEW r \in Req, GetNextId(r) PROVE ProgressInv'
  BY <1>4 DEF GetNextId, Goto
<1>5. ASSUME NEW r \in Req, ScanNextId(r) PROVE ProgressInv'
  <2>1. /\ input'[r].kind = input[r].kind
        /\ \A q \in Req : q # r => input'[q] = input[q]
    BY <1>5, WithIdTyped DEF ScanNextId, Row
  <2>2. /\ pc' = [pc EXCEPT ![r] = "execute"] /\ pc[r] = "nextidRows"
        /\ generated' \subseteq generated \cup {r}
        /\ UNCHANGED <<answer, ran, doneBefore>>
    BY <1>5 DEF ScanNextId, Goto
  <2>3. QED
    BY <2>1, <2>2
<1>6. ASSUME NEW r \in Req, Execute(r) PROVE ProgressInv'
  BY <1>6, ErrorTyped DEF Execute, Runs, Fails, Answers, Goto, Stages
<1>7. ASSUME NEW r \in Req, EngineQuery(r) PROVE ProgressInv'
  BY <1>7, ErrorTyped DEF EngineQuery, Runs, Fails, Answers, Goto, Stages
<1>8. ASSUME NEW r \in Req, Hydrate(r) PROVE ProgressInv'
  BY <1>8, ErrorTyped DEF Hydrate, Fails, Answers, Goto, Stages
<1>9. ASSUME NEW r \in Req, AfterHook(r) PROVE ProgressInv'
  <2>1. Success(r).status = 200
    BY DEF Success
  <2>2. Error(400, "after").status = 400
    BY ErrorTyped DEF Stages
  <2>3. PICK a : a.status \in {200, 400} /\ Answers(r, a)
    BY <1>9, <2>1, <2>2 DEF AfterHook, Fails
  <2>4. /\ answer' = [answer EXCEPT ![r] = a]
        /\ pc' = [pc EXCEPT ![r] = "done"]
        /\ pc[r] = "after"
        /\ UNCHANGED <<ran, generated, input, doneBefore>>
    BY <1>9, <2>3 DEF AfterHook, Answers, Goto
  <2>5. QED
    BY <2>3, <2>4
<1>10. CASE UNCHANGED vars
  BY <1>10 DEF vars
<1>11. QED
  BY <1>1, <1>2, <1>3, <1>4, <1>5, <1>6, <1>7, <1>8, <1>9, <1>10
  DEF Next, Step, AllAnswered

\* The table changes only when some unanswered request runs its statement, once.
LEMMA TableStep ==
    ASSUME TypeOK, ProgressInv, [Next]_vars
    PROVE  \/ table' = table /\ ran \subseteq ran'
           \/ \E r \in Req : \E k \in StoredIds(input[r]) :
                 /\ Runs(r, k)
                 /\ pc[r] \in {"execute", "engine"}
                 /\ r \notin ran /\ r \notin Answered
                 /\ UNCHANGED <<generated, doneBefore, input>>
<1> USE DEF TypeOK, ProgressInv, Answered, history
<1>1. ASSUME NEW r \in Req, Execute(r)
      PROVE  \/ table' = table /\ ran' = ran
             \/ \E k \in StoredIds(input[r]) : Runs(r, k)
  BY <1>1 DEF Execute
<1>2. ASSUME NEW r \in Req, EngineQuery(r)
      PROVE  \/ table' = table /\ ran' = ran
             \/ \E k \in StoredIds(input[r]) : Runs(r, k)
  BY <1>2 DEF EngineQuery
<1>3. ASSUME NEW r \in Req, Execute(r) \/ EngineQuery(r)
      PROVE  /\ pc[r] \in {"execute", "engine"}
             /\ r \notin ran /\ r \notin Answered
             /\ UNCHANGED <<generated, doneBefore, input>>
  BY <1>3 DEF Execute, EngineQuery
<1>4. ASSUME NEW r \in Req,
             Arrive(r) \/ BeforeHook(r) \/ Reject(r) \/ GetNextId(r)
                \/ ScanNextId(r) \/ Hydrate(r) \/ AfterHook(r)
      PROVE  table' = table /\ ran' = ran
  BY <1>4 DEF Arrive, BeforeHook, Reject, GetNextId, ScanNextId, Hydrate, AfterHook
<1>5. CASE UNCHANGED vars
  BY <1>5 DEF vars
<1>6. QED
  BY <1>1, <1>2, <1>3, <1>4, <1>5 DEF Next, Step, AllAnswered

\* getNextID makes no id for a request whose statement ran.
LEMMA GeneratedStep ==
    ASSUME TypeOK, ProgressInv, [Next]_vars
    PROVE  ran \cap generated' \subseteq generated
<1>1. ASSUME NEW r \in Req, ScanNextId(r)
      PROVE  generated' \subseteq generated \cup {r} /\ r \notin ran
  BY <1>1 DEF ScanNextId, ProgressInv
<1>2. (\E r \in Req : ScanNextId(r)) \/ generated' = generated
  BY DEF Next, Step, AllAnswered, vars, history, Arrive, BeforeHook, Reject,
         GetNextId, Execute, EngineQuery, Hydrate, AfterHook
<1>3. QED
  BY <1>1, <1>2

\* A step keeps RowsInv: whoever made a row, or gave it its id, ran a statement; an
\* INSERT gives its request one row only, and a create patches none.
LEMMA RowsStep == TypeOK /\ ProgressInv /\ RowsInv /\ [Next]_vars => RowsInv'
<1> SUFFICES ASSUME TypeOK, ProgressInv, RowsInv, [Next]_vars PROVE RowsInv'
  OBVIOUS
<1>1. CASE table' = table /\ ran \subseteq ran'
  <2>1. ran \cap generated' \subseteq generated
    BY GeneratedStep
  <2>2. generated' \subseteq Req
    BY StepTyped DEF TypeOK
  <2>3. QED
    BY <1>1, <2>1, <2>2, OriginsAreNoRequests DEF RowsInv
<1>2. ASSUME NEW r \in Req, NEW k \in StoredIds(input[r]), Runs(r, k), r \notin ran,
             UNCHANGED generated
      PROVE  RowsInv'
  <2>1. /\ table \in SUBSET Row /\ input[r] \in Input /\ k \in Id
        /\ table' = Statement(table, input[r], k, r)
        /\ ran' = ran \cup {r}
    BY <1>2, RunsTyped DEF TypeOK, Runs
  <2>2. \A row \in table' : {row.by, row.idBy} \subseteq ran' \cup Origins
    BY <2>1, StatementOrigin DEF RowsInv
  <2>3. OneRowEach(table) /\ \A row \in table : row.by # r
    BY <1>2, OriginsAreNoRequests DEF RowsInv, OneRowEach
  <2>4. OneRowEach(table')
    BY <2>1, <2>3, StatementOneRowEach
  <2>5. input[r].kind = "update" => r \notin generated
    BY DEF ProgressInv
  <2>6. \A row \in table' : row.idBy \in generated => row.by = row.idBy
    BY <2>1, <2>5, StatementOrigin DEF RowsInv
  <2>7. QED
    BY <1>2, <2>2, <2>4, <2>6 DEF RowsInv, OneRowEach
<1>3. QED
  BY <1>1, <1>2, TableStep

\* A statement puts an intruder in nobody's way: the ids it gives are from a request
\* that has not answered, the other rows keep theirs.
LEMMA IntruderStep ==
    ASSUME TypeOK, ProgressInv, [Next]_vars, NEW r \in Req, NEW id,
           ~Intruder(r, id), doneBefore'[r] = doneBefore[r]
    PROVE  ~Intruder(r, id)'
<1>1. CASE table' = table
  BY <1>1 DEF Intruder
<1>2. ASSUME NEW s \in Req, NEW k \in StoredIds(input[s]), Runs(s, k), s \notin Answered
      PROVE  ~Intruder(r, id)'
  <2>1. /\ table \in SUBSET Row /\ input[s] \in Input /\ k \in Id
        /\ table' = Statement(table, input[s], k, s)
    BY <1>2, RunsTyped DEF TypeOK, Runs
  <2>2. s \notin doneBefore[r] \cup Origins
    BY <1>2, OriginsAreNoRequests DEF ProgressInv
  <2>3. \A row \in table' :
           row.idBy = s \/ \E old \in table : old.id = row.id /\ old.idBy = row.idBy
    BY <2>1, StatementOrigin
  <2>4. QED
    BY <2>2, <2>3 DEF Intruder
<1>3. QED
  BY <1>1, <1>2, TableStep

\* A step keeps WindowInv: whoever gives a row the chosen id between getNextID's
\* SELECT and the INSERT of the same request was not finished when that request arrived.
LEMMA WindowStep == TypeOK /\ ProgressInv /\ WindowInv /\ [Next]_vars => WindowInv'
<1> SUFFICES ASSUME TypeOK, ProgressInv, WindowInv, [Next]_vars, NEW r \in Req
             PROVE  /\ pc'[r] = "nextidRows" =>
                          \A row \in result'[r] : row.id # NoId /\ ~Intruder(r, row.id)'
                    /\ pc'[r] = "execute" /\ r \in generated' =>
                          input'[r].id # NoId /\ ~Intruder(r, input[r].id)'
  BY DEF WindowInv, Intruder
<1> USE DEF TypeOK, history
<1>1. CASE /\ pc'[r] = pc[r] /\ result'[r] = result[r] /\ input'[r] = input[r]
           /\ doneBefore'[r] = doneBefore[r]
           /\ r \in generated' => r \in generated
  <2>1. \A id : ~Intruder(r, id) => ~Intruder(r, id)'
    BY <1>1, IntruderStep
  <2>2. ~Intruder(r, input[r].id) => ~Intruder(r, input[r].id)'
    BY <1>1, <2>1 DEF Intruder
  <2>3. QED
    BY <1>1, <2>1, <2>2 DEF WindowInv
<1>2. CASE GetNextId(r)
  <2>1. CASE pc'[r] = "nextidRows"
    <3>1. PICK n \in Keys : IsNextId(n, table) /\ \A row \in result'[r] : row.id = n
      BY <1>2, <2>1 DEF GetNextId, Goto, NewRow
    <3>2. n # NoId /\ n \in Int
      BY <3>1, KeysAreNumbers, NoIdIsNoKey
    <3>3. \A row \in table : row.id # n
      BY <3>1, <3>2 DEF IsNextId
    <3>4. table' = table
      BY <1>2 DEF GetNextId
    <3>5. QED
      BY <2>1, <3>1, <3>2, <3>3, <3>4 DEF Intruder
  <2>2. CASE pc'[r] # "nextidRows"
    BY <1>2, <2>2 DEF GetNextId, Goto, ProgressInv
  <2>3. QED
    BY <2>1, <2>2
<1>3. CASE ScanNextId(r)
  <2>1. pc[r] = "nextidRows" /\ pc'[r] = "execute" /\ r \notin generated
    BY <1>3 DEF ScanNextId, Goto, ProgressInv
  <2>2. table' = table /\ doneBefore' = doneBefore
    BY <1>3 DEF ScanNextId
  <2>3. CASE r \in generated'
    <3>1. PICK row \in result[r] :
             input' = [input EXCEPT ![r] = WithId(@, row.id)]
      BY <1>3, <2>1, <2>3 DEF ScanNextId
    <3> input'[r].id = row.id
      BY <3>1, WithIdTyped DEF Row
    <3>2. row.id # NoId /\ ~Intruder(r, row.id)
      BY <2>1, <3>1 DEF WindowInv
    <3>3. QED
      BY <2>1, <2>2, <3>1, <3>2 DEF Intruder
  <2>4. QED
    BY <2>1, <2>3
<1>4. CASE Arrive(r) \/ BeforeHook(r) \/ Reject(r) \/ Execute(r) \/ EngineQuery(r)
             \/ Hydrate(r) \/ AfterHook(r)
  BY <1>4 DEF Arrive, BeforeHook, Reject, Execute, EngineQuery, Hydrate, AfterHook,
              Runs, Fails, Answers, Goto, AfterBefore, ProgressInv
<1>5. ASSUME NEW s \in Req, s # r, Arrive(s) \/ Step(s)
      PROVE  /\ pc'[r] = pc[r] /\ result'[r] = result[r] /\ input'[r] = input[r]
             /\ doneBefore'[r] = doneBefore[r]
             /\ r \in generated' => r \in generated
  BY <1>5 DEF Step, Arrive, BeforeHook, Reject, GetNextId, ScanNextId, Execute,
              EngineQuery, Hydrate, AfterHook, Runs, Fails, Answers, Goto
<1>6. CASE UNCHANGED vars
  BY <1>1, <1>6 DEF vars
<1>7. QED
  BY <1>1, <1>2, <1>3, <1>4, <1>5, <1>6 DEF Next, Step, AllAnswered

\* A step keeps generated ids apart from those of requests that were over before.
LEMMA CollisionStep ==
    ASSUME TypeOK, ProgressInv, RowsInv, RowsInv', WindowInv,
           GeneratedIdsCollideOnlyInOverlap, [Next]_vars
    PROVE  GeneratedIdsCollideOnlyInOverlap'
<1> DEFINE Fine(x, y) == /\ y \notin doneBefore[x] \cup Origins
                         /\ y \in generated => Overlap(x, y)
<1>1. ASSUME NEW r \in Req, NEW k \in StoredIds(input[r]), Runs(r, k),
             pc[r] \in {"execute", "engine"}, r \notin ran, r \notin Answered,
             UNCHANGED <<generated, doneBefore, input>>
      PROVE  GeneratedIdsCollideOnlyInOverlap'
  <2>1. /\ table \in SUBSET Row /\ input[r] \in Input /\ k \in Id
        /\ table' = Statement(table, input[r], k, r)
        /\ \A x \in Req : r \notin doneBefore[x]
        /\ generated \subseteq Req
    BY <1>1, RunsTyped DEF TypeOK, Runs, ProgressInv
  <2>2. SUFFICES ASSUME NEW row1 \in table', NEW row2 \in table', row1 # row2,
                        row1.id = row2.id, row1.id # NoId, row1.idBy \in generated
                 PROVE  Fine(row1.idBy, row2.idBy)
    BY <1>1, Zenon DEF GeneratedIdsCollideOnlyInOverlap, Overlap
  <2>3. /\ row1.by # row2.by
        /\ row2.idBy \in generated => row1.idBy # row2.idBy
    BY <1>1, <2>1, <2>2 DEF RowsInv
  <2> DEFINE Fresh(row) == row.idBy = r /\ (r \in generated => row.id = k)
             Kept(row) == \E old \in table : /\ old.id = row.id /\ old.by = row.by
                                            /\ old.idBy = row.idBy
  <2>4. \A row \in table' : Fresh(row) \/ Kept(row)
    <3>1. input[r].kind = "update" => r \notin generated
      BY DEF ProgressInv
    <3>2. QED
      BY <2>1, <3>1, StatementOrigin
  <2>5. r \in generated => \A row \in table :
           row.id = k => row.idBy \notin doneBefore[r] \cup Origins
    <3>1. SUFFICES ASSUME r \in generated PROVE ~Intruder(r, k)
      BY DEF Intruder
    <3>2. pc[r] = "execute"
      BY <1>1, <3>1 DEF ProgressInv
    <3>3. input[r].id # NoId /\ ~Intruder(r, input[r].id)
      BY <3>1, <3>2 DEF WindowInv
    <3>4. k = input[r].id
      BY <3>3 DEF StoredIds
    <3>5. QED
      BY <3>3, <3>4
  <2>6. r \notin Origins /\ \A x \in generated : r \notin doneBefore[x]
    BY <2>1, OriginsAreNoRequests
  <2>7. CASE Fresh(row1) /\ Kept(row2)
    BY <2>2, <2>3, <2>5, <2>6, <2>7 DEF Overlap
  <2>8. CASE Kept(row1) /\ Fresh(row2)
    <3>1. row2.idBy = r /\ r \notin doneBefore[row1.idBy] \cup Origins
      BY <2>2, <2>6, <2>8
    <3>2. r \in generated => row1.idBy \notin doneBefore[r]
      BY <2>2, <2>5, <2>8
    <3>3. QED
      BY <2>3, <3>1, <3>2 DEF Overlap
  <2>9. CASE Kept(row1) /\ Kept(row2)
    <3>1. PICK old1 \in table : old1.id = row1.id /\ old1.by = row1.by /\ old1.idBy = row1.idBy
      BY <2>9
    <3>2. PICK old2 \in table : old2.id = row2.id /\ old2.by = row2.by /\ old2.idBy = row2.idBy
      BY <2>9
    <3>3. old1 # old2
      BY <2>3, <3>1, <3>2
    <3>4. QED
      BY <2>2, <3>1, <3>2, <3>3 DEF GeneratedIdsCollideOnlyInOverlap
  <2>10. CASE Fresh(row1) /\ Fresh(row2)
    <3>1. row2.idBy \in generated /\ row1.idBy = row2.idBy
      BY <2>2, <2>10
    <3>2. QED
      BY <2>3, <3>1
  <2>11. QED
    BY <2>4, <2>7, <2>8, <2>9, <2>10
<1>2. CASE table' = table
  <2>1. SUFFICES ASSUME NEW row1 \in table, NEW row2 \in table, row1 # row2,
                        row1.id = row2.id, row1.id # NoId, row1.idBy \in generated'
                 PROVE  Fine(row1.idBy, row2.idBy)'
    BY <1>2, Zenon DEF GeneratedIdsCollideOnlyInOverlap, Overlap
  <2>2. \A x \in ran : x \in generated' => x \in generated
    BY GeneratedStep
  <2>3. \A x \in ran : doneBefore'[x] = doneBefore[x]
    <3>1. ASSUME NEW r \in Req, Arrive(r)
          PROVE  r \notin ran /\ \A x \in Req : x # r => doneBefore'[x] = doneBefore[x]
      BY <3>1 DEF Arrive, ProgressInv, TypeOK
    <3>2. (\E r \in Req : Arrive(r)) \/ doneBefore' = doneBefore
      BY DEF Next, Step, AllAnswered, vars, history, BeforeHook, Reject,
             GetNextId, ScanNextId, Execute, EngineQuery, Hydrate, AfterHook
    <3>3. QED
      BY <3>1, <3>2 DEF TypeOK
  <2>4. row1.idBy \in ran \cup Origins /\ row2.idBy \in ran \cup Origins
    BY DEF RowsInv
  <2>5. generated' \subseteq Req
    BY StepTyped DEF TypeOK
  <2>6. row1.idBy \in ran /\ row1.idBy \in generated
    BY <2>1, <2>2, <2>4, <2>5, OriginsAreNoRequests
  <2>7. Fine(row1.idBy, row2.idBy)
    BY <2>1, <2>6 DEF GeneratedIdsCollideOnlyInOverlap
  <2>8. row2.idBy \in ran
    BY <2>4, <2>7
  <2>9. QED
    BY <2>2, <2>3, <2>6, <2>7, <2>8 DEF Overlap
<1>3. QED
  BY <1>1, <1>2, TableStep

\* The inductive invariant of the adapter: types, progress of the goroutines,
\* where rows and their ids are from, and the window between SELECT MAX(id) and INSERT.
THEOREM Inductive == Spec => []IInv
<1>1. Init => IInv
  <2> SUFFICES ASSUME Init PROVE IInv
    OBVIOUS
  <2>1. ProgressInv
    BY DEF Init, ProgressInv, NoAnswer, Answered
  <2>2. /\ \A row \in table : row.by \in Origins /\ row.idBy \in Origins
        /\ \A row1, row2 \in table : row1.by = row2.by => row1 = row2
    BY StoredTyped DEF Init
  <2>3. RowsInv
    BY <2>2 DEF Init, RowsInv
  <2>4. WindowInv
    BY DEF Init, WindowInv
  <2>5. GeneratedIdsCollideOnlyInOverlap
    BY DEF Init, GeneratedIdsCollideOnlyInOverlap
  <2>6. QED
    BY <2>1, <2>3, <2>4, <2>5, InitTyped DEF IInv
<1>2. IInv /\ [Next]_vars => IInv'
  BY StepTyped, ProgressStep, RowsStep, WindowStep, CollisionStep DEF IInv
<1>3. QED
  BY <1>1, <1>2, PTL DEF Spec

\* For any number of concurrent clients and any faults: a row shares an id that the
\* adapter generated only if the request that gave it that id, by INSERT or patch,
\* had not answered when the create arrived, and overlapped it if it was generated too.
THEOREM GeneratedIds == Spec => []GeneratedIdsCollideOnlyInOverlap
BY Inductive, PTL DEF IInv

\* For any number of concurrent clients and any faults: a generated id is refused
\* as a duplicate only because of a request that had not finished on arrival.
THEOREM Duplicates == Spec => DuplicateOnlyInOverlap
<1>1. IInv /\ [Next]_vars => NoLoneDuplicate
  <2> USE DEF IInv, TypeOK, ProgressInv, history
  <2> SUFFICES ASSUME IInv, [Next]_vars, NEW r \in generated,
                      answer'[r].stage = "duplicate", answer[r].stage # "duplicate"
               PROVE  \E row \in table : row.id = input[r].id /\ row.idBy \notin doneBefore[r] \cup Origins
    BY DEF NoLoneDuplicate
  <2>1. Execute(r) /\ \E k \in StoredIds(input[r]) : Clash(r, k)
    <3>1. ASSUME NEW s \in Req, s # r, Arrive(s) \/ Step(s) PROVE answer'[r] = answer[r]
      BY <3>1 DEF Step, Arrive, BeforeHook, Reject, GetNextId, ScanNextId, Execute,
                  EngineQuery, Hydrate, AfterHook, Fails, Answers
    <3>2. pc[r] \in {"execute", "after", "done"}
      OBVIOUS
    <3>3. CASE Arrive(r) \/ BeforeHook(r) \/ GetNextId(r) \/ ScanNextId(r) \/ EngineQuery(r) \/ Hydrate(r)
      BY <3>2, <3>3 DEF Arrive, BeforeHook, GetNextId, ScanNextId, EngineQuery, Hydrate
    <3>4. CASE Reject(r)
      BY <3>4, ErrorTyped DEF Reject, Fails, Answers, Stages
    <3>5. CASE AfterHook(r)
      <4>1. Success(r).stage = "none"
        BY DEF Success
      <4>2. QED
        BY <3>5, <4>1, ErrorTyped DEF AfterHook, Fails, Answers, Stages
    <3>6. CASE Execute(r)
      BY <3>6, ErrorTyped DEF Execute, Fails, Answers, Stages
    <3>7. CASE UNCHANGED vars
      BY <3>7 DEF vars
    <3>8. QED
      BY <3>1, <3>3, <3>4, <3>5, <3>6, <3>7 DEF Next, Step, AllAnswered
  <2>2. input[r].id # NoId /\ ~Intruder(r, input[r].id)
    BY <2>1 DEF WindowInv, Execute
  <2>3. \E row \in table : row.id = input[r].id
    <3>1. input[r].kind = "create"
      BY <2>1 DEF Execute, Mutations
    <3>2. PICK k \in StoredIds(input[r]) : Violates(table, input[r], k, r)
      BY <2>1 DEF Clash
    <3>3. k = input[r].id
      BY <2>2, <3>2 DEF StoredIds
    <3>4. Statement(table, input[r], k, r) = table \cup {NewRow(k, input[r].val, r)}
      BY <3>1 DEF Statement, Inserted
    <3>5. NewRow(k, input[r].val, r).id = k
      BY DEF NewRow
    <3>6. QED
      BY <3>2, <3>3, <3>4, <3>5 DEF Violates
  <2>4. QED
    BY <2>2, <2>3 DEF Intruder
<1>2. QED
  BY <1>1, Inductive, PTL DEF Spec, DuplicateOnlyInOverlap

(***************************************************************************)
(* What the answers are worth: a success is true, a refusal had no effect, *)
(* a read is no older than what its client knows of, and connections come  *)
(* back.                                                                   *)
(***************************************************************************)

\* What a request knows of the table, and goes on knowing while others write: the
\* row it created has the id it will report, until somebody patches it; the rows that
\* have their ids from requests answered before it arrived are among those it read.
CreatedAs(r, id) == \A row \in table : row.by = r /\ row.idBy = r => row.id = id
Sees(r, rows) ==
    \A row \in Matching(table, input[r].where) :
        row.idBy \in doneBefore[r] \cup Origins =>
            \E seen \in rows : seen.by = row.by /\ seen.id = row.id

\* What is true of a request on the way to its answer and with it.
Working(r) ==
    /\ pc[r] = "engine" => input[r].route = "query"
    /\ pc[r] \in {"rows", "after"} =>
          /\ r \in ran
          /\ input[r].id # NoId => CreatedAs(r, input[r].id)
          /\ input[r].kind = "read" /\ r \notin broken =>
                input[r].route = "query" /\ Sees(r, result[r])
Honest(r) ==
    /\ answer[r].status = 200 =>
          /\ r \in ran
          /\ answer[r].id # NoId => CreatedAs(r, answer[r].id)
          /\ input[r].kind = "read" /\ r \notin broken => Sees(r, answer[r].rows)
    /\ answer[r].status \notin {0, 200} /\ answer[r].stage \in {"parse", "before", "duplicate"} =>
          r \notin ran

AnswerInv == \A r \in Req : Working(r) /\ Honest(r)
-----------------------------------------------------------------------------
\* A step leaves the id of a created row as it is: only the request itself could
\* store another, and its statement ran.
LEMMA CreatedAsStep ==
    ASSUME TypeOK, ProgressInv, [Next]_vars, NEW r \in ran, NEW id, CreatedAs(r, id)
    PROVE  CreatedAs(r, id)'
<1>1. CASE table' = table
  BY <1>1 DEF CreatedAs
<1>2. ASSUME NEW s \in Req, NEW k \in StoredIds(input[s]), Runs(s, k), s \notin ran
      PROVE  CreatedAs(r, id)'
  <2>1. /\ table \in SUBSET Row /\ input[s] \in Input /\ k \in Id
        /\ table' = Statement(table, input[s], k, s)
    BY <1>2, RunsTyped DEF TypeOK, Runs
  <2>2. \A row \in table' :
           \/ row.idBy = s
           \/ \E old \in table : old.id = row.id /\ old.by = row.by /\ old.idBy = row.idBy
    BY <2>1, StatementOrigin
  <2>3. QED
    BY <1>2, <2>2 DEF CreatedAs
<1>3. QED
  BY <1>1, <1>2, TableStep

\* A step adds nothing that a request should have read: who runs a statement now
\* had not answered when that request arrived.
LEMMA SeesStep ==
    ASSUME TypeOK, ProgressInv, [Next]_vars, NEW r \in Req, NEW rows, Sees(r, rows),
           input'[r] = input[r], doneBefore'[r] = doneBefore[r]
    PROVE  Sees(r, rows)'
<1>1. CASE table' = table
  BY <1>1 DEF Sees
<1>2. ASSUME NEW s \in Req, NEW k \in StoredIds(input[s]), Runs(s, k), s \notin Answered
      PROVE  Sees(r, rows)'
  <2>1. /\ table \in SUBSET Row /\ input[s] \in Input /\ k \in Id
        /\ table' = Statement(table, input[s], k, s)
    BY <1>2, RunsTyped DEF TypeOK, Runs
  <2>2. s \notin doneBefore[r] \cup Origins
    BY <1>2, OriginsAreNoRequests DEF ProgressInv
  <2>3. \A row \in table' :
           \/ row.idBy = s
           \/ \E old \in table : old.id = row.id /\ old.by = row.by /\ old.idBy = row.idBy
    BY <2>1, StatementOrigin
  <2>4. QED
    BY <2>2, <2>3 DEF Sees, Matching
<1>3. QED
  BY <1>1, <1>2, TableStep

\* What running a statement makes true for the request that runs it.
LEMMA RunsHonestly ==
    ASSUME TypeOK, ProgressInv, RowsInv, NEW r \in Req, r \notin ran,
           NEW k \in StoredIds(input[r]), Runs(r, k), input' = input
    PROVE  /\ r \in ran'
           /\ input[r].id # NoId => CreatedAs(r, input[r].id)'
<1>1. /\ table \in SUBSET Row /\ input[r] \in Input /\ k \in Id
      /\ table' = Statement(table, input[r], k, r)
      /\ ran' = ran \cup {r}
  BY RunsTyped DEF TypeOK, Runs
<1>2. \A row \in table : row.by # r
  BY OriginsAreNoRequests DEF RowsInv
<1>3. \A row \in table' : row.by = r => row.id = k
  BY <1>1, <1>2, StatementOrigin
<1>4. input[r].id # NoId => k = input[r].id
  BY DEF StoredIds
<1>5. input'[r].id = input[r].id
  OBVIOUS
<1>6. QED
  BY <1>1, <1>3, <1>4, <1>5 DEF CreatedAs

\* What others do leaves what a request knows, and its answer, true.
LEMMA OthersAnswerStep ==
    ASSUME TypeOK, ProgressInv, [Next]_vars, NEW r \in Req, Working(r), Honest(r),
           pc'[r] = pc[r], result'[r] = result[r], input'[r] = input[r],
           answer'[r] = answer[r], doneBefore'[r] = doneBefore[r],
           r \in ran' <=> r \in ran, r \in broken' <=> r \in broken
    PROVE  Working(r)' /\ Honest(r)'
<1>1. \A id : r \in ran /\ CreatedAs(r, id) => CreatedAs(r, id)'
  BY CreatedAsStep
<1>2. \A rows : Sees(r, rows) => Sees(r, rows)'
  BY SeesStep
<1>3. /\ r \in ran /\ CreatedAs(r, input[r].id) => CreatedAs(r, input[r].id)'
      /\ r \in ran /\ CreatedAs(r, answer[r].id) => CreatedAs(r, answer[r].id)'
  BY <1>1 DEF CreatedAs
<1>4. /\ Sees(r, result[r]) => Sees(r, result[r])'
      /\ Sees(r, answer[r].rows) => Sees(r, answer[r].rows)'
  BY <1>2 DEF Sees
<1>5. QED
  BY <1>3, <1>4 DEF Working, Honest

\* The server starts with no request answered and none at work.
LEMMA InitAnswer == Init => AnswerInv
<1> SUFFICES ASSUME Init, NEW r \in Req PROVE Working(r) /\ Honest(r)
  BY DEF AnswerInv
<1>1. pc[r] = "idle"
  BY DEF Init
<1>2. answer[r].status = 0
  BY DEF Init, NoAnswer
<1>3. QED
  BY <1>1, <1>2 DEF Working, Honest

\* Every step keeps the answers honest.
LEMMA AnswerStep == IInv /\ AnswerInv /\ [Next]_vars => AnswerInv'
<1> SUFFICES ASSUME IInv, AnswerInv, [Next]_vars, NEW r \in Req
             PROVE  Working(r)' /\ Honest(r)'
  BY DEF AnswerInv
<1> USE DEF IInv, TypeOK
<1>1. Working(r) /\ Honest(r)
  BY DEF AnswerInv
<1>2. CASE /\ pc'[r] = pc[r] /\ result'[r] = result[r] /\ input'[r] = input[r]
           /\ answer'[r] = answer[r] /\ doneBefore'[r] = doneBefore[r]
           /\ (r \in ran' <=> r \in ran) /\ (r \in broken' <=> r \in broken)
  BY <1>1, <1>2, OthersAnswerStep
<1>3. CASE Arrive(r) \/ BeforeHook(r) \/ Reject(r) \/ GetNextId(r) \/ ScanNextId(r)
  <2>1. /\ r \notin ran' /\ answer[r].status = 0
        /\ answer'[r] = answer[r] \/ answer'[r].status = 400
    BY <1>3, ErrorTyped DEF ProgressInv, Arrive, BeforeHook, Reject, GetNextId, ScanNextId,
       Fails, Answers, history, Stages
  <2>2. /\ pc'[r] \notin {"rows", "after"}
        /\ pc'[r] = "engine" => input'[r].route = "query"
    BY <1>3 DEF Arrive, BeforeHook, Reject, GetNextId, ScanNextId,
       Fails, Answers, Goto, AfterBefore, ProgressInv
  <2>3. QED
    BY <2>1, <2>2 DEF Working, Honest
<1>4. CASE Execute(r) \/ EngineQuery(r)
  <2>1. r \notin ran /\ answer[r].status = 0 /\ input' = input /\ doneBefore' = doneBefore
    BY <1>4 DEF Execute, EngineQuery, ProgressInv, history
  <2>2. \/ \E k \in StoredIds(input[r]) : Runs(r, k)
        \/ r \notin ran' /\ pc'[r] = "done"
    BY <1>4, <2>1 DEF Execute, EngineQuery, Fails, Answers, Goto
  <2>3. /\ pc'[r] \in {"rows", "after"} => answer'[r] = answer[r]
        /\ pc'[r] \in {"rows", "after", "done"}
        /\ pc'[r] = "done" =>
              /\ answer'[r].status = 500
              /\ r \in ran' => answer'[r].stage = "execute"
    BY <1>4, <2>1, ErrorTyped DEF Execute, EngineQuery, Fails, Answers, Goto, Stages
  <2>4. pc'[r] \in {"rows", "after"} => r \in ran' /\ (input[r].id # NoId => CreatedAs(r, input[r].id)')
    BY <2>1, <2>2, <2>3, RunsHonestly
  <2>5. pc'[r] \in {"rows", "after"} /\ input[r].kind = "read" =>
           input[r].route = "query" /\ Sees(r, result[r])'
    <3>1. SUFFICES ASSUME pc'[r] \in {"rows", "after"}, input[r].kind = "read"
                   PROVE  input[r].route = "query" /\ Sees(r, result[r])'
      OBVIOUS
    <3>2. EngineQuery(r) /\ input[r].route = "query"
      BY <1>1, <1>4, <3>1 DEF Execute, EngineQuery, Mutations, Working
    <3>3. PICK k \in StoredIds(input[r]) :
             Runs(r, k) /\ result' = [result EXCEPT ![r] = ResultRows(table, input[r], k, r, Returning)]
      BY <3>1, <3>2 DEF EngineQuery, Fails, Answers, Goto
    <3>4. table' = table /\ result'[r] = Matching(table, input[r].where)
      BY <3>1, <3>3 DEF Runs, Statement, ResultRows
    <3>5. QED
      BY <2>1, <3>2, <3>4 DEF Sees
  <2>6. answer'[r].status # 200
    BY <2>1, <2>3
  <2>7. QED
    BY <2>1, <2>3, <2>4, <2>5, <2>6 DEF Working, Honest, CreatedAs
<1>5. CASE Hydrate(r)
  <2>1. /\ pc[r] = "rows" /\ answer[r].status = 0 /\ r \in ran
        /\ UNCHANGED <<table, input, ran, doneBefore>>
    BY <1>1, <1>5 DEF Hydrate, ProgressInv, Working
  <2>2. \/ /\ pc'[r] = "after" /\ answer'[r] = answer[r]
           /\ r \notin broken' => result'[r] = result[r] /\ r \notin broken
        \/ pc'[r] = "done" /\ answer'[r].status = 500 /\ answer'[r].stage = "rows"
    BY <1>5, ErrorTyped DEF Hydrate, Fails, Answers, Goto, Stages
  <2>3. QED
    BY <1>1, <2>1, <2>2 DEF Working, Honest, CreatedAs, Sees
<1>6. CASE AfterHook(r)
  <2>1. /\ pc[r] = "after" /\ pc'[r] = "done" /\ r \in ran
        /\ UNCHANGED <<table, input, result, ran, broken, doneBefore>>
    BY <1>1, <1>6 DEF AfterHook, Fails, Answers, Goto, Working, history
  <2>2. CASE answer'[r] = Success(r)
    <3>1. /\ answer'[r].id # NoId => answer'[r].id = input[r].id
          /\ input[r].route = "query" => answer'[r].rows = result[r]
          /\ answer'[r].status = 200
      BY <2>2 DEF Success
    <3>2. input[r].id # NoId => CreatedAs(r, input[r].id)
      BY <1>1, <2>1 DEF Working
    <3>3. input[r].kind = "read" /\ r \notin broken => answer'[r].rows = result[r] /\ Sees(r, result[r])
      BY <1>1, <2>1, <3>1 DEF Working
    <3>4. QED
      BY <2>1, <3>1, <3>2, <3>3 DEF Working, Honest, CreatedAs, Sees
  <2>3. CASE answer'[r].status = 400 /\ answer'[r].stage = "after"
    BY <2>1, <2>3 DEF Working, Honest
  <2>4. QED
    BY <1>6, <2>2, <2>3, ErrorTyped DEF AfterHook, Fails, Answers, Stages
<1>7. ASSUME NEW s \in Req, s # r, Arrive(s) \/ Step(s)
      PROVE  /\ pc'[r] = pc[r] /\ result'[r] = result[r] /\ input'[r] = input[r]
             /\ answer'[r] = answer[r] /\ doneBefore'[r] = doneBefore[r]
             /\ (r \in ran' <=> r \in ran) /\ (r \in broken' <=> r \in broken)
  BY <1>7 DEF Step, Arrive, BeforeHook, Reject, GetNextId, ScanNextId, Execute,
              EngineQuery, Hydrate, AfterHook, Runs, Fails, Answers, Goto, history
<1>8. CASE UNCHANGED vars
  BY <1>2, <1>8 DEF vars
<1>9. QED
  BY <1>2, <1>3, <1>4, <1>5, <1>6, <1>7, <1>8 DEF Next, Step, AllAnswered

\* What the invariant says of the answers, once they are given.
LEMMA Honesty == Spec => []AnswerInv
BY InitAnswer, AnswerStep, Inductive, PTL DEF Spec
-----------------------------------------------------------------------------
\* For any clients, faults and pool: a 200 is never answered for a statement that
\* did not run, and reports the id under which a created row is in the table.
THEOREM Successes == Spec => []SuccessIsTrue
<1>1. AnswerInv => SuccessIsTrue
  BY DEF AnswerInv, Honest, SuccessIsTrue, Answered, CreatedAs
<1>2. QED
  BY <1>1, Honesty, PTL

\* For any clients, faults and pool: a request refused before its statement, or as
\* a duplicate, changed nothing.
THEOREM Refusals == Spec => []RejectedHasNoEffect
<1>1. AnswerInv => RejectedHasNoEffect
  BY DEF AnswerInv, Honest, RejectedHasNoEffect, Answered
<1>2. QED
  BY <1>1, Honesty, PTL

\* For any clients, faults and pool: a query whose stream did not break answers
\* every matching row that has its id from a request answered before its arrival.
THEOREM Reads == Spec => []ReadsSeeEarlierWrites
<1>1. AnswerInv => ReadsSeeEarlierWrites
  BY DEF AnswerInv, Honest, ReadsSeeEarlierWrites, Answered, Sees
<1>2. QED
  BY <1>1, Honesty, PTL
-----------------------------------------------------------------------------
\* The pool: who holds a connection has rows open, and it was handed out only
\* while one was free.
PoolInv ==
    /\ IsFiniteSet(inUse)
    /\ Cardinality(inUse) <= PoolSize
    /\ \A r \in inUse : pc[r] \in {"nextidRows", "rows"}

\* Every step keeps the pool within its size and its connections with open rows.
LEMMA PoolStep == TypeOK /\ PoolInv /\ [Next]_vars => PoolInv'
<1> SUFFICES ASSUME TypeOK, PoolInv, [Next]_vars PROVE PoolInv'
  OBVIOUS
<1> USE DEF TypeOK
<1>1. ASSUME NEW r \in Req, inUse' = inUse \cup {r}, ConnectionFree
      PROVE  IsFiniteSet(inUse') /\ Cardinality(inUse') <= PoolSize
  <2>1. Cardinality(inUse) \in Nat
    BY FS_CardinalityType DEF PoolInv
  <2>2. Cardinality(inUse') \in {Cardinality(inUse), Cardinality(inUse) + 1} /\ IsFiniteSet(inUse')
    BY <1>1, <2>1, FS_AddElement DEF PoolInv
  <2>3. Cardinality(inUse) < PoolSize
    BY <1>1 DEF ConnectionFree
  <2>4. QED
    BY <2>1, <2>2, <2>3, PoolIsPositive
<1>2. ASSUME NEW r \in Req, inUse' = inUse \ {r}
      PROVE  IsFiniteSet(inUse') /\ Cardinality(inUse') <= PoolSize
  <2>1. Cardinality(inUse) \in Nat
    BY FS_CardinalityType DEF PoolInv
  <2>2. Cardinality(inUse') \in {Cardinality(inUse), Cardinality(inUse) - 1} /\ IsFiniteSet(inUse')
    BY <1>2, <2>1, FS_RemoveElement DEF PoolInv
  <2>3. QED
    BY <2>1, <2>2, PoolIsPositive DEF PoolInv
<1>3. ASSUME NEW r \in Req,
             Arrive(r) \/ BeforeHook(r) \/ Reject(r) \/ Execute(r) \/ AfterHook(r)
      PROVE  PoolInv'
  <2>1. inUse' = inUse /\ pc[r] \notin {"nextidRows", "rows"} /\ \A s \in Req : s # r => pc'[s] = pc[s]
    BY <1>3 DEF Arrive, BeforeHook, Reject, Execute, AfterHook, Fails, Answers, Goto
  <2>2. QED
    BY <2>1 DEF PoolInv
<1>4. ASSUME NEW r \in Req, GetNextId(r) \/ EngineQuery(r) PROVE PoolInv'
  <2>1. /\ pc[r] \notin {"nextidRows", "rows"} /\ \A s \in Req : s # r => pc'[s] = pc[s]
        /\ ConnectionFree
        /\ \/ inUse' = inUse
           \/ inUse' = inUse \cup {r} /\ pc'[r] \in {"nextidRows", "rows"}
    <3>1. CASE GetNextId(r)
      BY <3>1 DEF GetNextId, Acquire, Goto
    <3>2. CASE EngineQuery(r)
      BY <3>2 DEF EngineQuery, Acquire, Fails, Answers, Goto
    <3>3. QED
      BY <1>4, <3>1, <3>2
  <2>2. QED
    BY <1>1, <2>1 DEF PoolInv
<1>5. ASSUME NEW r \in Req, ScanNextId(r) \/ Hydrate(r) PROVE PoolInv'
  <2>1. inUse' = inUse \ {r} /\ \A s \in Req : s # r => pc'[s] = pc[s]
    BY <1>5 DEF ScanNextId, Hydrate, Release, Fails, Answers, Goto
  <2>2. QED
    BY <1>2, <2>1 DEF PoolInv
<1>6. CASE UNCHANGED vars
  BY <1>6 DEF vars, PoolInv
<1>7. QED
  BY <1>3, <1>4, <1>5, <1>6 DEF Next, Step, AllAnswered

\* For any number of goroutines and any faults: never more connections than the
\* pool has, and none is held by a request that has answered.
THEOREM Connections == Spec => []ConnectionsReturned
<1>1. Init => PoolInv
  BY FS_EmptySet, PoolIsPositive DEF Init, PoolInv
<1>2. PoolInv /\ ProgressInv => ConnectionsReturned
  BY DEF PoolInv, ProgressInv, ConnectionsReturned, Answered
<1>3. IInv => TypeOK /\ ProgressInv
  BY DEF IInv
<1>4. QED
  BY <1>1, <1>2, <1>3, PoolStep, Inductive, PTL DEF Spec

(***************************************************************************)
(* The adapter implements the atomic table, whatever fails but a row       *)
(* stream that breaks and is not reported.                                 *)
(***************************************************************************)

\* The refinement mapping of Atomic, one request at a time: where the effect of a
\* request is, and the rows it gave.
StateOf(r) == CASE pc[r] = "idle" -> "new"
                [] pc[r] = "done" -> "answered"
                [] pc[r] # "done" /\ r \in ran -> "applied"
                [] OTHER -> "pending"
OutcomeOf(r) == CASE pc[r] = "done" -> answer[r].rows
                  [] pc[r] # "done" /\ r \in ran /\ input[r].route = "query" -> result[r]
                  [] OTHER -> {}
states == [r \in Req |-> StateOf(r)]
outcomes == [r \in Req |-> OutcomeOf(r)]

\* handleMutation and the calls below it serve bodies with "op" only.
RouteInv == \A r \in Req :
    pc[r] \in {"nextid", "nextidRows", "execute"} => input[r].route = "op"
-----------------------------------------------------------------------------
\* The atomic table runs the very statements of Store.
LEMMA SameStore ==
    /\ Atomic!Input = Input
    /\ \A i : Atomic!StoredIds(i) = StoredIds(i)
    /\ \A t, i, k, r : Atomic!Statement(t, i, k, r) = Statement(t, i, k, r)
    /\ \A t, i, k, r : Atomic!Violates(t, i, k, r) <=> Violates(t, i, k, r)
    /\ \A t, i, k, r, b : Atomic!ResultRows(t, i, k, r, b) = ResultRows(t, i, k, r, b)
<1>1. Atomic!Input = Input
  BY DEF Atomic!Input, Atomic!Kinds, Atomic!Id, Atomic!Where, Atomic!Columns,
         Input, Kinds, Id, Where, Columns
<1>2. \A i : Atomic!StoredIds(i) = StoredIds(i)
  BY DEF Atomic!StoredIds, StoredIds, Atomic!Id, Id
<1>3. \A t, w : Atomic!Matching(t, w) = Matching(t, w)
  BY DEF Atomic!Matching, Matching
<1>4. /\ \A k, v, r : Atomic!NewRow(k, v, r) = NewRow(k, v, r)
      /\ \A row, i, r : Atomic!Patched(row, i, r) = Patched(row, i, r)
  BY Zenon DEF Atomic!NewRow, NewRow, Atomic!Patched, Patched
<1>5. \A t, i, r : Atomic!PatchedRows(t, i, r) = PatchedRows(t, i, r)
  BY <1>3, <1>4 DEF Atomic!PatchedRows, PatchedRows
<1>6. \A t, i, r : Atomic!Updated(t, i, r) = Updated(t, i, r)
  BY <1>3, <1>5, Zenon DEF Atomic!Updated, Updated
<1>7. \A t, i, k, r : Atomic!Statement(t, i, k, r) = Statement(t, i, k, r)
  BY <1>3, <1>4, <1>6, Zenon DEF Atomic!Statement, Statement, Atomic!Inserted, Inserted,
     Atomic!Deleted, Deleted
<1>8. \A t, i, k, r : Atomic!Violates(t, i, k, r) <=> Violates(t, i, k, r)
  BY <1>7, Zenon DEF Atomic!Violates, Violates
<1>9. \A t, i, k, r, b : Atomic!ResultRows(t, i, k, r, b) = ResultRows(t, i, k, r, b)
  BY <1>3, <1>4, <1>5, Zenon DEF Atomic!ResultRows, ResultRows
<1>10. QED
  BY <1>1, <1>2, <1>7, <1>8, <1>9

\* A request that arrives is a Submit.
LEMMA Submits ==
    ASSUME NEW r \in Req, states[r] = "new", states' = [states EXCEPT ![r] = "pending"],
           \E i \in Inputs : input' = [input EXCEPT ![r] = i],
           table' = table, outcomes' = outcomes
    PROVE  Atomic!Submit(r)
BY DEF Atomic!Submit, states, outcomes, StateOf, OutcomeOf

\* A hook or getNextID that rewrites a pending request is a Settle.
LEMMA Settles ==
    ASSUME NEW r \in Req, states[r] = "pending", states' = states,
           \E i \in Input : /\ i.route = input[r].route
                            /\ i.route = "op" => i.kind = input[r].kind
                            /\ input' = [input EXCEPT ![r] = i],
           table' = table, outcomes' = outcomes
    PROVE  Atomic!Settle(r)
BY SameStore DEF Atomic!Settle, states, outcomes, StateOf, OutcomeOf

\* A statement that runs, and whose reply comes, is an Apply.
LEMMA Applies ==
    ASSUME NEW r \in Req, states[r] = "pending", states' = [states EXCEPT ![r] = "applied"],
           input[r].kind # "bad", input' = input,
           NEW k \in StoredIds(input[r]), Runs(r, k),
           outcomes' = [outcomes EXCEPT ![r] =
                           IF input[r].route = "query"
                           THEN ResultRows(table, input[r], k, r, Returning) ELSE {}]
    PROVE  Atomic!Apply(r)
BY SameStore DEF Atomic!Apply, states, outcomes, StateOf, OutcomeOf, Runs, Clash

\* A statement that runs, and whose reply is lost, is an ApplyAndErr.
LEMMA AppliesAndErrs ==
    ASSUME NEW r \in Req, states[r] = "pending", states' = [states EXCEPT ![r] = "answered"],
           input[r].kind # "bad", input' = input,
           NEW k \in StoredIds(input[r]), Runs(r, k), outcomes' = outcomes
    PROVE  Atomic!ApplyAndErr(r)
BY SameStore DEF Atomic!ApplyAndErr, states, outcomes, StateOf, OutcomeOf, Runs, Clash

\* A success answer is a Succeed.
LEMMA Succeeds ==
    ASSUME NEW r \in Req, states[r] = "applied", states' = [states EXCEPT ![r] = "answered"],
           table' = table, input' = input, outcomes' = outcomes
    PROVE  Atomic!Succeed(r)
BY DEF Atomic!Succeed, states, outcomes, StateOf, OutcomeOf

\* An error answer, whenever it comes, is an Err.
LEMMA Errs ==
    ASSUME NEW r \in Req, states[r] \in {"pending", "applied"},
           states' = [states EXCEPT ![r] = "answered"],
           outcomes' = [outcomes EXCEPT ![r] = {}],
           table' = table, input' = input
    PROVE  Atomic!Err(r)
BY DEF Atomic!Err, states, outcomes, StateOf, OutcomeOf

\* A step between two of these is none of the atomic table.
LEMMA Stutters ==
    ASSUME states' = states, outcomes' = outcomes, table' = table, input' = input
    PROVE  UNCHANGED Atomic!vars
BY DEF Atomic!vars, states, outcomes, StateOf, OutcomeOf
-----------------------------------------------------------------------------
\* What the mapping says of one request, by the phase it is in.
LEMMA Mapped ==
    ASSUME NEW r \in Req
    PROVE  /\ pc[r] = "idle" /\ r \notin ran => states[r] = "new"
           /\ pc[r] \notin {"idle", "done"} =>
                 states[r] = IF r \in ran THEN "applied" ELSE "pending"
           /\ pc[r] = "done" => outcomes[r] = answer[r].rows
           /\ pc[r] # "done" =>
                 outcomes[r] = IF r \in ran /\ input[r].route = "query" THEN result[r] ELSE {}
BY DEF states, outcomes, StateOf, OutcomeOf

\* ... and in the next state.
LEMMA MappedNext ==
    ASSUME NEW r \in Req
    PROVE  /\ pc'[r] = "done" => states'[r] = "answered" /\ outcomes'[r] = answer'[r].rows
           /\ pc'[r] \notin {"idle", "done"} =>
                 states'[r] = IF r \in ran' THEN "applied" ELSE "pending"
           /\ pc'[r] # "done" =>
                 outcomes'[r] = IF r \in ran' /\ input'[r].route = "query" THEN result'[r] ELSE {}
BY DEF states, outcomes, StateOf, OutcomeOf

\* A step of r touches r alone.
LEMMA Frame ==
    ASSUME TypeOK, NEW r \in Req, Arrive(r) \/ Step(r), NEW q \in Req, q # r
    PROVE  /\ pc'[q] = pc[q] /\ input'[q] = input[q] /\ result'[q] = result[q]
           /\ answer'[q] = answer[q]
           /\ q \in ran' <=> q \in ran
BY DEF TypeOK, Step, Arrive, BeforeHook, Reject, GetNextId, ScanNextId, Execute,
       EngineQuery, Hydrate, AfterHook, Runs, Fails, Answers, Goto, history

\* So the mapping moves r alone.
LEMMA Moves ==
    ASSUME TypeOK, NEW r \in Req, Arrive(r) \/ Step(r)
    PROVE  /\ states' = [states EXCEPT ![r] = states'[r]]
           /\ outcomes' = [outcomes EXCEPT ![r] = outcomes'[r]]
           /\ states'[r] = states[r] => states' = states
           /\ outcomes'[r] = outcomes[r] => outcomes' = outcomes
<1>1. \A q \in Req : q # r => states'[q] = states[q] /\ outcomes'[q] = outcomes[q]
  BY Frame DEF states, outcomes, StateOf, OutcomeOf
<1>2. /\ states = [q \in Req |-> states[q]] /\ outcomes = [q \in Req |-> outcomes[q]]
      /\ states' = [q \in Req |-> states'[q]] /\ outcomes' = [q \in Req |-> outcomes'[q]]
  BY DEF states, outcomes
<1>3. QED
  BY <1>1, <1>2

\* A step keeps the bodies without "op" out of handleMutation.
LEMMA RouteStep == TypeOK /\ RouteInv /\ [Next]_vars => RouteInv'
<1> SUFFICES ASSUME TypeOK, RouteInv, [Next]_vars PROVE RouteInv'
  OBVIOUS
<1> USE DEF TypeOK, RouteInv
<1>1. ASSUME NEW r \in Req, Arrive(r) \/ Step(r),
             pc'[r] \in {"nextid", "nextidRows", "execute"} => input'[r].route = "op"
      PROVE  RouteInv'
  BY <1>1, Frame
<1>2. ASSUME NEW r \in Req, BeforeHook(r) PROVE RouteInv'
  <2>1. pc'[r] \in {"nextid", "nextidRows", "execute"} => input'[r].route = "op"
    BY <1>2, InputsTyped DEF BeforeHook, Fails, Answers, Goto, AfterBefore, NeedsId, Input
  <2>2. QED
    BY <1>1, <1>2, <2>1 DEF Step
<1>3. ASSUME NEW r \in Req, ScanNextId(r) PROVE RouteInv'
  <2>1. input'[r].route = "op"
    BY <1>3, WithIdTyped DEF ScanNextId, Row
  <2>2. QED
    BY <1>1, <1>3, <2>1 DEF Step
<1>4. ASSUME NEW r \in Req,
             Arrive(r) \/ Reject(r) \/ GetNextId(r) \/ Execute(r) \/ EngineQuery(r)
                \/ Hydrate(r) \/ AfterHook(r)
      PROVE  RouteInv'
  <2>1. pc'[r] \in {"nextid", "nextidRows", "execute"} => input'[r].route = "op"
    BY <1>4 DEF Arrive, Reject, GetNextId, Execute, EngineQuery, Hydrate, AfterHook,
       Fails, Answers, Goto
  <2>2. QED
    BY <1>1, <1>4, <2>1 DEF Step
<1>5. CASE UNCHANGED vars
  BY <1>5 DEF vars
<1>6. QED
  BY <1>2, <1>3, <1>4, <1>5 DEF Next, Step, AllAnswered

\* The server starts with no request in handleMutation.
LEMMA InitRoute == Init => RouteInv
BY DEF Init, RouteInv
-----------------------------------------------------------------------------
\* A step of one request is a step of the atomic table or a stutter.
LEMMA RequestMaps ==
    ASSUME IInv, AnswerInv, RouteInv, "stream" \notin Faults,
           NEW r \in Req, Arrive(r) \/ Step(r)
    PROVE  [Atomic!Next]_Atomic!vars
<1> USE DEF IInv, TypeOK
<1>1. /\ states' = [states EXCEPT ![r] = states'[r]]
      /\ outcomes' = [outcomes EXCEPT ![r] = outcomes'[r]]
      /\ states'[r] = states[r] => states' = states
      /\ outcomes'[r] = outcomes[r] => outcomes' = outcomes
  BY Moves
<1>2. /\ pc[r] = "idle" => states[r] = "new"
      /\ pc[r] \in {"before", "nextid", "nextidRows", "execute", "engine"} =>
            r \notin ran /\ states[r] = "pending" /\ outcomes[r] = {}
      /\ pc[r] \in {"rows", "after"} =>
            /\ r \in ran /\ states[r] = "applied"
            /\ outcomes[r] = IF input[r].route = "query" THEN result[r] ELSE {}
      /\ pc[r] = "idle" => r \notin ran /\ outcomes[r] = {}
  BY Mapped DEF AnswerInv, Working, ProgressInv
<1>3. CASE Arrive(r)
  <2>1. /\ pc[r] = "idle" /\ pc'[r] = "before" /\ r \notin ran' /\ table' = table
        /\ \E i \in Inputs : input' = [input EXCEPT ![r] = i]
    BY <1>2, <1>3 DEF Arrive, Goto
  <2>2. states'[r] = "pending" /\ outcomes'[r] = {}
    BY <2>1, MappedNext
  <2>3. Atomic!Submit(r)
    BY <1>1, <1>2, <2>1, <2>2, Submits
  <2>4. QED
    BY <2>3 DEF Atomic!Next
<1>4. ASSUME pc[r] \in {"before", "nextid", "nextidRows", "execute", "engine", "rows", "after"},
             pc'[r] = "done", answer'[r].rows = {}, table' = table, input' = input
      PROVE  [Atomic!Next]_Atomic!vars
  <2>1. states'[r] = "answered" /\ outcomes'[r] = {}
    BY <1>4, MappedNext
  <2>2. Atomic!Err(r)
    BY <1>1, <1>2, <1>4, <2>1, Errs
  <2>3. QED
    BY <2>2 DEF Atomic!Next
<1>5. \A status, stage : Error(status, stage).rows = {}
  BY DEF Error, NoAnswer
<1>6. ASSUME NEW status, NEW stage, Fails(r, status, stage), pc[r] \notin {"idle", "done"},
             table' = table, input' = input
      PROVE  [Atomic!Next]_Atomic!vars
  BY <1>4, <1>5, <1>6 DEF Fails, Answers, Goto, Phases
<1>7. ASSUME pc[r] \in {"before", "nextid", "nextidRows"},
             pc'[r] \in {"nextid", "nextidRows", "execute", "engine"},
             table' = table, ran' = ran,
             \/ input' = input
             \/ \E i \in Input : /\ i.route = input[r].route
                                 /\ i.route = "op" => i.kind = input[r].kind
                                 /\ input' = [input EXCEPT ![r] = i]
      PROVE  [Atomic!Next]_Atomic!vars
  <2>1. states'[r] = "pending" /\ outcomes'[r] = {}
    BY <1>2, <1>7, MappedNext
  <2>2. states' = states /\ outcomes' = outcomes
    BY <1>1, <1>2, <1>7, <2>1
  <2>3. CASE input' = input
    BY <1>7, <2>2, <2>3, Stutters
  <2>4. CASE input' # input
    <3>1. Atomic!Settle(r)
      BY <1>2, <1>7, <2>2, <2>4, Settles
    <3>2. QED
      BY <3>1 DEF Atomic!Next
  <2>5. QED
    BY <2>3, <2>4
<1>8. CASE BeforeHook(r)
  <2>1. CASE \E i \in Inputs : /\ SameOperation(input[r], i)
                               /\ input' = [input EXCEPT ![r] = i]
                               /\ Goto(r, AfterBefore(i))
    <3>1. pc'[r] \in {"nextid", "execute", "engine"}
      BY <1>8, <2>1 DEF BeforeHook, Goto, AfterBefore
    <3>2. \E i \in Input : /\ i.route = input[r].route
                           /\ i.route = "op" => i.kind = input[r].kind
                           /\ input' = [input EXCEPT ![r] = i]
      BY <2>1, InputsTyped DEF SameOperation
    <3>3. QED
      BY <1>7, <1>8, <3>1, <3>2 DEF BeforeHook, history
  <2>2. CASE Fails(r, 400, "before") /\ UNCHANGED input
    BY <1>6, <1>8, <2>2 DEF BeforeHook
  <2>3. QED
    BY <1>8, <2>1, <2>2 DEF BeforeHook
<1>9. CASE Reject(r)
  BY <1>6, <1>9 DEF Reject
<1>10. CASE GetNextId(r)
  BY <1>7, <1>10 DEF GetNextId, Goto, history
<1>11. CASE ScanNextId(r)
  <2>1. input' = input \/ \E row \in result[r] : input' = [input EXCEPT ![r] = WithId(@, row.id)]
    BY <1>11 DEF ScanNextId
  <2>2. \A row \in result[r] :
           /\ WithId(input[r], row.id) \in Input
           /\ WithId(input[r], row.id).route = input[r].route
           /\ WithId(input[r], row.id).kind = input[r].kind
    BY WithIdTyped DEF Row
  <2>3. \/ input' = input
        \/ \E i \in Input : /\ i.route = input[r].route
                            /\ i.route = "op" => i.kind = input[r].kind
                            /\ input' = [input EXCEPT ![r] = i]
    BY <2>1, <2>2
  <2>4. QED
    BY <1>7, <1>11, <2>3 DEF ScanNextId, Goto
<1>12. ASSUME NEW k \in StoredIds(input[r]), Runs(r, k), input' = input, input[r].kind # "bad",
              pc[r] \in {"execute", "engine"}, Fails(r, 500, "execute")
       PROVE  [Atomic!Next]_Atomic!vars
  <2>1. pc'[r] = "done" /\ answer'[r].rows = {}
    BY <1>5, <1>12 DEF Fails, Answers, Goto
  <2>2. states'[r] = "answered" /\ outcomes'[r] = {}
    BY <2>1, MappedNext
  <2>3. Atomic!ApplyAndErr(r)
    BY <1>1, <1>2, <1>12, <2>2, AppliesAndErrs
  <2>4. QED
    BY <2>3 DEF Atomic!Next
<1>13. ASSUME NEW k \in StoredIds(input[r]), Runs(r, k), input' = input, input[r].kind # "bad",
              pc[r] \in {"execute", "engine"}, pc'[r] \in {"rows", "after"},
              input[r].route = "query" => result'[r] = ResultRows(table, input[r], k, r, Returning)
       PROVE  [Atomic!Next]_Atomic!vars
  <2>1. r \in ran'
    BY <1>13 DEF Runs
  <2>2. /\ states'[r] = "applied"
        /\ outcomes'[r] = IF input[r].route = "query"
                          THEN ResultRows(table, input[r], k, r, Returning) ELSE {}
    BY <1>13, <2>1, MappedNext
  <2>3. Atomic!Apply(r)
    BY <1>1, <1>2, <1>13, <2>2, Applies
  <2>4. QED
    BY <2>3 DEF Atomic!Next
<1>14. CASE Execute(r)
  <2>1. /\ pc[r] = "execute" /\ input' = input /\ input[r].kind # "bad"
        /\ input[r].route = "op"
    BY <1>14 DEF Execute, Mutations, RouteInv
  <2>2. ASSUME NEW k \in StoredIds(input[r]), Runs(r, k), Goto(r, "after")
        PROVE  [Atomic!Next]_Atomic!vars
    BY <1>13, <2>1, <2>2 DEF Goto
  <2>3. ASSUME NEW k \in StoredIds(input[r]), Runs(r, k), Fails(r, 500, "execute")
        PROVE  [Atomic!Next]_Atomic!vars
    BY <1>12, <2>1, <2>3
  <2>4. ASSUME NEW stage, Fails(r, 500, stage), table' = table
        PROVE  [Atomic!Next]_Atomic!vars
    BY <1>6, <2>1, <2>4
  <2>5. QED
    BY <1>14, <2>2, <2>3, <2>4 DEF Execute
<1>15. CASE EngineQuery(r)
  <2>1. pc[r] = "engine" /\ input' = input /\ input[r].kind # "bad"
    BY <1>15 DEF EngineQuery
  <2>2. ASSUME NEW k \in StoredIds(input[r]), Runs(r, k), Goto(r, "rows"),
               result' = [result EXCEPT ![r] = ResultRows(table, input[r], k, r, Returning)]
        PROVE  [Atomic!Next]_Atomic!vars
    BY <1>13, <2>1, <2>2 DEF Goto
  <2>3. ASSUME NEW k \in StoredIds(input[r]), Runs(r, k), Fails(r, 500, "execute")
        PROVE  [Atomic!Next]_Atomic!vars
    BY <1>12, <2>1, <2>3
  <2>4. ASSUME NEW stage, Fails(r, 500, stage), table' = table
        PROVE  [Atomic!Next]_Atomic!vars
    BY <1>6, <2>1, <2>4
  <2>5. QED
    BY <1>15, <2>2, <2>3, <2>4 DEF EngineQuery
<1>16. CASE Hydrate(r)
  <2>1. pc[r] = "rows" /\ table' = table /\ input' = input /\ ran' = ran
    BY <1>16 DEF Hydrate
  <2>2. CASE Goto(r, "after") /\ result' = result
    <3>1. states'[r] = states[r] /\ outcomes'[r] = outcomes[r]
      BY <1>2, <2>1, <2>2, MappedNext DEF Goto
    <3>2. QED
      BY <1>1, <2>1, <3>1, Stutters
  <2>3. CASE Fails(r, 500, "rows")
    BY <1>6, <2>1, <2>3
  <2>4. QED
    BY <1>16, <2>2, <2>3 DEF Hydrate
<1>17. CASE AfterHook(r)
  <2>1. pc[r] = "after" /\ table' = table /\ input' = input
    BY <1>17 DEF AfterHook
  <2>2. CASE Answers(r, Success(r))
    <3>1. pc'[r] = "done" /\ answer'[r].rows = outcomes[r]
      BY <1>2, <2>1, <2>2 DEF Answers, Goto, Success
    <3>2. states'[r] = "answered" /\ outcomes'[r] = outcomes[r]
      BY <3>1, MappedNext
    <3>3. Atomic!Succeed(r)
      BY <1>1, <1>2, <2>1, <3>2, Succeeds
    <3>4. QED
      BY <3>3 DEF Atomic!Next
  <2>3. CASE Fails(r, 400, "after")
    BY <1>6, <2>1, <2>3
  <2>4. QED
    BY <1>17, <2>2, <2>3 DEF AfterHook
<1>18. QED
  BY <1>3, <1>8, <1>9, <1>10, <1>11, <1>14, <1>15, <1>16, <1>17 DEF Step
-----------------------------------------------------------------------------
\* Linearizability, for any number of clients and any faults but a stream that
\* breaks: every request takes effect at one moment between its arrival and its
\* answer, and a query's answer is the rows of that moment.
THEOREM Linearizable ==
    ASSUME "stream" \notin Faults
    PROVE  Spec => ImplementsAtomicTable
<1>1. Init => Atomic!Init
  <2> SUFFICES ASSUME Init PROVE Atomic!Init
    OBVIOUS
  <2>1. states = [r \in Req |-> "new"] /\ outcomes = [r \in Req |-> {}]
    BY DEF Init, states, outcomes, StateOf, OutcomeOf
  <2>2. \E i \in Inputs : input = [r \in Req |-> i]
    BY InputsTyped DEF Init
  <2>3. QED
    BY <2>1, <2>2 DEF Init, Atomic!Init, states, outcomes, StateOf, OutcomeOf
<1>2. IInv /\ AnswerInv /\ RouteInv /\ [Next]_vars => [Atomic!Next]_Atomic!vars
  <2> SUFFICES ASSUME IInv, AnswerInv, RouteInv, [Next]_vars
               PROVE  [Atomic!Next]_Atomic!vars
    OBVIOUS
  <2>1. ASSUME NEW r \in Req, Arrive(r) \/ Step(r) PROVE [Atomic!Next]_Atomic!vars
    BY <2>1, RequestMaps
  <2>2. CASE UNCHANGED vars
    <3>1. states' = states /\ outcomes' = outcomes
      BY <2>2 DEF vars, states, outcomes, StateOf, OutcomeOf
    <3>2. QED
      BY <2>2, <3>1, Stutters DEF vars
  <2>3. QED
    BY <2>1, <2>2 DEF Next, AllAnswered
<1>3. RouteInv /\ IInv /\ [Next]_vars => RouteInv'
  BY RouteStep DEF IInv
<1>4. Spec => []IInv /\ []AnswerInv
  BY Inductive, Honesty, PTL
<1>5. QED
  BY <1>1, <1>2, <1>3, <1>4, InitRoute, PTL DEF Spec, ImplementsAtomicTable, Atomic!Spec
=============================================================================
