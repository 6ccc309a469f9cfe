----------------------------- MODULE SqlAdapter -----------------------------
(***************************************************************************)
(* The SQL adapter (adapters/http/adapter.go) over the engine (engine.go): *)
(* what Handle does for concurrent HTTP requests to one table.             *)
(*                                                                         *)
(* Every request is a goroutine, with no lock and no transaction between   *)
(* its statements.  Its steps are the points where it calls out: the       *)
(* application's hooks, and each driver call.  Between two of them the     *)
(* goroutine touches only its own variables, so that code is one step.     *)
(*                                                                         *)
(* A create without an id takes two statements (getNextID, then INSERT).   *)
(* Statements run on connections of the database/sql pool: open rows hold  *)
(* one until rows.Close, and a call that finds none free waits.            *)
(***************************************************************************)
EXTENDS Store, FiniteSets

CONSTANTS
    Inputs,         \* the requests clients may send
    Stored,         \* the rows in the table when the server starts
    PoolSize,       \* connections of the database/sql pool
    UniqueIds,      \* TRUE: a primary key or unique constraint on id
    Returning,      \* TRUE: a dialect whose INSERT and UPDATE have RETURNING
    Faults          \* what may go wrong, among FaultKinds

FaultKinds ==
    { "hook",       \* a Before or After hook returns an error
      "driver",     \* Query or Execute fails and the statement was not run
      "lost",       \* ... fails after the statement ran: its reply was lost
      "scan",       \* rows.Scan fails
      "stream" }    \* the connection breaks while rows are read

ASSUME InputsTyped == Inputs \subseteq Input /\ Inputs # {}
ASSUME StoredTyped ==
    /\ Stored \subseteq Row
    /\ \A row \in Stored : row.by \in Origins /\ row.idBy = row.by
    /\ \A row1, row2 \in Stored : row1.by = row2.by => row1 = row2
ASSUME PoolIsPositive == PoolSize \in Nat \ {0}
ASSUME FaultsTyped == Faults \subseteq FaultKinds
ASSUME OptionsTyped ==
    /\ UniqueIds \in BOOLEAN
    /\ Returning \in BOOLEAN

VARIABLES
    table,      \* the rows of the table
    inUse,      \* the requests that hold a connection
    pc,         \* where each request's goroutine is
    input,      \* its request body, as the hooks and getNextID leave it
    result,     \* the rows its open query yields
    answer,     \* what it answered
    \* History, read by no action:
    generated,  \* the requests whose id getNextID made
    ran,        \* the requests whose statement the database ran
    broken,     \* the requests whose row stream ended with an error
    doneBefore  \* for each request, those answered before it arrived

history == <<generated, ran, broken, doneBefore>>
vars == <<table, inUse, pc, input, result, answer, generated, ran, broken, doneBefore>>

Phases == {"idle", "before", "nextid", "nextidRows", "execute", "engine",
           "rows", "after", "done"}
Stages == {"none", "parse", "before", "execute", "duplicate", "rows", "after"}
Answer == [status : {0, 200, 400, 500}, stage : Stages, id : Id, rows : SUBSET Row]
NoAnswer == [status |-> 0, stage |-> "none", id |-> NoId, rows |-> {}]
Error(status, stage) == [NoAnswer EXCEPT !.status = status, !.stage = stage]

TypeOK ==
    /\ table \subseteq Row
    /\ inUse \subseteq Req
    /\ pc \in [Req -> Phases]
    /\ input \in [Req -> Input]
    /\ result \in [Req -> SUBSET Row]
    /\ answer \in [Req -> Answer]
    /\ generated \subseteq Req
    /\ ran \subseteq Req
    /\ broken \subseteq Req
    /\ doneBefore \in [Req -> SUBSET Req]

Init ==
    /\ table = Stored
    /\ inUse = {}
    /\ pc = [r \in Req |-> "idle"]
    /\ input = [r \in Req |-> CHOOSE i \in Inputs : TRUE]
    /\ result = [r \in Req |-> {}]
    /\ answer = [r \in Req |-> NoAnswer]
    /\ generated = {}
    /\ ran = {}
    /\ broken = {}
    /\ doneBefore = [r \in Req |-> {}]
-----------------------------------------------------------------------------
Answered == {r \in Req : answer[r].status # 0}

\* The goroutine of r moves on, or returns: deferred rows.Close calls run as it
\* returns, so an answer goes with the connection.
Goto(r, phase) == pc' = [pc EXCEPT ![r] = phase]
Answers(r, a) == answer' = [answer EXCEPT ![r] = a] /\ Goto(r, "done")
Fails(r, status, stage) == Answers(r, Error(status, stage))

\* The pool hands out a connection only when one is free.
ConnectionFree == Cardinality(inUse) < PoolSize
Acquire(r) == inUse' = inUse \cup {r}
KeepsOpen(r) == r \in Req /\ UNCHANGED inUse     \* (Mutant: no rows.Close.)
Release(r) == inUse' = inUse \ {r}

\* The database runs r's statement, storing a created row under id k.
Clash(r, k) == UniqueIds /\ Violates(table, input[r], k, r)
Runs(r, k) ==
    /\ ~Clash(r, k)
    /\ table' = Statement(table, input[r], k, r)
    /\ ran' = ran \cup {r}
-----------------------------------------------------------------------------
\* A client sends i; net/http starts a goroutine that reaches Handle.
Arrive(r) ==
    /\ pc[r] = "idle"
    /\ \E i \in Inputs : input' = [input EXCEPT ![r] = i]
    /\ doneBefore' = [doneBefore EXCEPT ![r] = Answered]
    /\ Goto(r, "before")
    /\ UNCHANGED <<table, inUse, result, answer, generated, ran, broken>>

\* A hook may hand back another body.  handleMutation has chosen its operation by
\* then; Engine.Execute looks only at the body that BeforeQuery handed back.
SameOperation(i, j) ==
    /\ i.route = j.route
    /\ i.route = "op" => i.kind = j.kind

\* getNextID is called for a create whose data has no "id" (a body that the
\* transpiler will refuse may get that far too).
NeedsId(i) == i.route = "op" /\ i.kind \in {"create", "bad"} /\ "id" \notin i.cols

\* (Mutant: the switch has no case for delete.)
AfterBeforeNoDelete(i) ==
    IF i.route = "query" THEN "engine"
    ELSE IF NeedsId(i) THEN "nextid" ELSE IF i.kind = "delete" THEN "after" ELSE "execute"

AfterBefore(i) ==
    IF i.route = "query" THEN "engine" ELSE IF NeedsId(i) THEN "nextid" ELSE "execute"

\* BeforeQuery, BeforeCreate, BeforeUpdate, BeforeDelete, or no hook at all.
BeforeHook(r) ==
    /\ pc[r] = "before"
    /\ \/ \E i \in Inputs :
            /\ SameOperation(input[r], i)
            /\ input' = [input EXCEPT ![r] = i]
            /\ Goto(r, AfterBefore(i))
            /\ UNCHANGED answer
       \/ /\ "hook" \in Faults
          /\ Fails(r, 400, "before")
          /\ UNCHANGED input
    /\ UNCHANGED <<table, inUse, result, history>>

\* (Mutant: a check that comes after the statement as well as before it.)
RejectLate(r) ==
    /\ pc[r] \in {"nextid", "execute", "engine", "after"}
    /\ Fails(r, 400, "parse")
    /\ UNCHANGED <<table, inUse, input, result, history>>

\* TranspileInsert and TranspileUpdate refuse a map with no columns, by now with the
\* id that getNextID may have put in.
NoColumns(i) == i.kind \in {"create", "update"} /\ i.cols = {}

\* The data or patch is no object, the operation is unknown, the parser or the
\* schema validator refuses the query, or the transpiler refuses the names.
Reject(r) ==
    /\ \/ pc[r] \in {"nextid", "execute", "engine"} /\ input[r].kind = "bad"
       \/ pc[r] \in {"execute", "engine"} /\ NoColumns(input[r])
    /\ Fails(r, 400, "parse")
    /\ UNCHANGED <<table, inUse, input, result, history>>
-----------------------------------------------------------------------------
\* getNextID: driver.Query of SELECT COALESCE(MAX(id), 0) + 1, which yields one
\* row.  On an error - MAX(id) + 1 out of the column's range is one - the create
\* goes on without an id.
GetNextId(r) ==
    /\ pc[r] = "nextid"
    /\ ConnectionFree
    /\ \/ /\ \E n \in Keys :
                /\ IsNextId(n, table)
                /\ result' = [result EXCEPT ![r] = {NewRow(n, input[r].val, r)}]
          /\ Acquire(r)
          /\ Goto(r, "nextidRows")
       \/ /\ "driver" \in Faults \/ \A n \in Keys : ~IsNextId(n, table)
          /\ Goto(r, "execute")
          /\ UNCHANGED <<inUse, result>>
    /\ UNCHANGED <<table, input, answer, history>>

\* data["id"] = nextID writes into the request's own map.
WithId(i, id) == [i EXCEPT !.id = id, !.cols = @ \cup {"id"}]

\* rows.Next, rows.Scan into a NullInt64 and the deferred rows.Close.
ScanNextId(r) ==
    /\ pc[r] = "nextidRows"
    /\ \/ /\ \E row \in result[r] : input' = [input EXCEPT ![r] = WithId(@, row.id)]
          /\ generated' = generated \cup {r}
       \/ /\ Faults \cap {"scan", "stream"} # {}
          /\ UNCHANGED <<input, generated>>
    /\ result' = [result EXCEPT ![r] = {}]
    /\ Release(r)
    /\ Goto(r, "execute")
    /\ UNCHANGED <<table, answer, ran, broken, doneBefore>>

\* handleMutation: driver.Execute of the INSERT, UPDATE or DELETE.
Execute(r) ==
    /\ pc[r] = "execute"
    /\ input[r].kind \in Mutations /\ ~NoColumns(input[r])
    /\ ConnectionFree
    /\ \/ \E k \in StoredIds(input[r]) :
            \/ /\ Runs(r, k)
               /\ Goto(r, "after")
               /\ UNCHANGED answer
            \/ /\ Clash(r, k)
               /\ Fails(r, 500, "duplicate")
               /\ UNCHANGED <<table, ran>>
            \/ /\ "lost" \in Faults
               /\ Runs(r, k)
               /\ Fails(r, 500, "execute")
       \/ /\ "driver" \in Faults
          /\ Fails(r, 500, "execute")
          /\ UNCHANGED <<table, ran>>
    /\ UNCHANGED <<inUse, input, result, generated, broken, doneBefore>>
-----------------------------------------------------------------------------
\* Engine.Execute: driver.Query of the SELECT - or, when a body without "op"
\* has data, patch or delete, of the mutation (executeMutation).
EngineQuery(r) ==
    /\ pc[r] = "engine"
    /\ input[r].kind # "bad" /\ ~NoColumns(input[r])
    /\ ConnectionFree
    /\ \/ \E k \in StoredIds(input[r]) :
            \/ /\ Runs(r, k)
               /\ result' = [result EXCEPT ![r] = ResultRows(table, input[r], k, r, Returning)]
               /\ Acquire(r)
               /\ Goto(r, "rows")
               /\ UNCHANGED answer
            \/ /\ Clash(r, k)
               /\ Fails(r, 500, "duplicate")
               /\ UNCHANGED <<table, inUse, result, ran>>
            \/ /\ "lost" \in Faults
               /\ Runs(r, k)
               /\ Fails(r, 500, "execute")
               /\ UNCHANGED <<inUse, result>>
       \/ /\ "driver" \in Faults
          /\ Fails(r, 500, "execute")
          /\ UNCHANGED <<table, inUse, result, ran>>
    /\ UNCHANGED <<input, generated, broken, doneBefore>>

\* Hydrate collects rows until rows.Next returns false, and does not ask
\* rows.Err why; then the deferred rows.Close.
Hydrate(r) ==
    /\ pc[r] = "rows"
    /\ \/ /\ Goto(r, "after")
          /\ UNCHANGED <<result, answer, broken>>
       \/ /\ "stream" \in Faults
          /\ \E got \in SUBSET result[r] :
                got # result[r] /\ result' = [result EXCEPT ![r] = got]
          /\ broken' = broken \cup {r}
          /\ Goto(r, "after")
          /\ UNCHANGED answer
       \/ /\ "scan" \in Faults
          /\ result[r] # {}
          /\ Fails(r, 500, "rows")
          /\ UNCHANGED <<result, broken>>
    /\ Release(r)
    /\ UNCHANGED <<table, input, generated, ran, doneBefore>>

\* (Mutants: rows read again when the answer is written; the first row lost.)
SuccessReadsAgain(r) ==
    [status |-> 200, stage |-> "none", id |-> NoId,
     rows |-> IF input[r].kind = "read" THEN Matching(table, input[r].where) ELSE {}]
SuccessSkipsARow(r) ==
    [status |-> 200, stage |-> "none", id |-> NoId,
     rows |-> {row \in result[r] : row # (CHOOSE first \in result[r] : TRUE)}]

\* The success response: a query's rows; the data map of a create; no rows for
\* an update or a delete.
Success(r) ==
    LET i == input[r] IN
    [status |-> 200, stage |-> "none",
     id   |-> IF i.route = "op" /\ i.kind = "create" THEN i.id ELSE NoId,
     rows |-> IF i.route = "query" THEN result[r] ELSE {}]

\* AfterQuery, AfterCreate, AfterUpdate, AfterDelete, or no hook at all.
AfterHook(r) ==
    /\ pc[r] = "after"
    /\ \/ Answers(r, Success(r))
       \/ "hook" \in Faults /\ Fails(r, 400, "after")
    /\ UNCHANGED <<table, inUse, input, result, history>>
-----------------------------------------------------------------------------
Step(r) ==
    \/ BeforeHook(r) \/ Reject(r) \/ GetNextId(r) \/ ScanNextId(r) \/ Execute(r)
    \/ EngineQuery(r) \/ Hydrate(r) \/ AfterHook(r)

\* The server idles once every request is answered.
AllAnswered == (\A r \in Req : pc[r] = "done") /\ UNCHANGED vars

Next == (\E r \in Req : Arrive(r) \/ Step(r)) \/ AllAnswered

Spec == Init /\ [][Next]_vars

\* The Go scheduler runs every goroutine, hooks return and the database answers;
\* nobody promises that a client sends a request.
FairSpec == Spec /\ \A r \in Req : WF_vars(Step(r))
-----------------------------------------------------------------------------
Overlap(r, s) == r # s /\ s \notin doneBefore[r] /\ r \notin doneBefore[s]

\* An id that getNextID made is shared with another row only if whoever gave that
\* row its id - with an INSERT or with a patch of "id" - had not answered when the
\* create arrived, and if getNextID made both, the two ran side by side: the window
\* between the SELECT MAX and the INSERT (adapter.go:398-410) is the only one.
GeneratedIdsCollideOnlyInOverlap ==
    \A row1, row2 \in table :
        /\ row1 # row2
        /\ row1.id = row2.id
        /\ row1.id # NoId
        /\ row1.idBy \in generated
        => /\ row2.idBy \notin doneBefore[row1.idBy] \cup Origins
           /\ row2.idBy \in generated => Overlap(row1.idBy, row2.idBy)

\* With a unique column, a create whose id getNextID made is refused as a
\* duplicate only because of a row that got its id, in an INSERT or an UPDATE, from
\* a request not finished when it arrived: a lone client never sees that 500.
NoLoneDuplicate ==
    \A r \in generated :
        answer'[r].stage = "duplicate" /\ answer[r].stage # "duplicate" =>
            \E row \in table :
                row.id = input[r].id /\ row.idBy \notin doneBefore[r] \cup Origins

DuplicateOnlyInOverlap == [][NoLoneDuplicate]_vars

\* A request answered with an error changed nothing, unless the driver lost the
\* reply of a statement that ran, or what failed came after the statement:
\* reading its rows, or the After hook.
RejectedHasNoEffect ==
    \A r \in Answered :
        answer[r].status # 200 /\ answer[r].stage \in {"parse", "before", "duplicate"} => r \notin ran

\* A success means that the statement ran - a 200 is never answered for an
\* operation the database did not do - and a created row that is still there
\* has the id the answer reports, unless a patch has given it another since.
SuccessIsTrue ==
    \A r \in Answered : answer[r].status = 200 =>
        /\ r \in ran
        /\ answer[r].id # NoId =>
              \A row \in table : row.by = r /\ row.idBy = r => row.id = answer[r].id

\* A query sees every row of the table that its where clause accepts and that has
\* had its id since before the query arrived - from a create or from a patch that
\* was answered by then - if the row stream did not break.  (The row may have been
\* changed otherwise in between, so only its id counts.)
ReadsSeeEarlierWrites ==
    \A r \in Answered \ broken :
        answer[r].status = 200 /\ input[r].kind = "read" =>
            \A row \in Matching(table, input[r].where) :
                row.idBy \in doneBefore[r] \cup Origins =>
                    \E seen \in answer[r].rows : seen.by = row.by /\ seen.id = row.id

\* Connections: never more than the pool has, and none kept by a goroutine that
\* has answered - every rows.Close is reached on every path.
ConnectionsReturned ==
    /\ Cardinality(inUse) <= PoolSize
    /\ inUse \cap Answered = {}

\* Every request is answered: no goroutine waits for ever for a connection, even
\* if the pool has one, and none waits for one while it holds one.
EveryRequestAnswered == \A r \in Req : pc[r] = "before" ~> pc[r] = "done"

\* A row stream that broke is reported as a failed execution, as errors.go says
\* of JsonQLExecutionError.
BrokenStreamIsReported == \A r \in broken : answer[r].status # 200

\* Linearizability: the adapter implements the atomic table.
Atomic == INSTANCE AtomicTable WITH
    want <- input,
    state <- [r \in Req |->
                CASE pc[r] = "idle" -> "new"
                  [] pc[r] = "done" -> "answered"
                  [] pc[r] # "done" /\ r \in ran -> "applied"
                  [] OTHER -> "pending"],
    outcome <- [r \in Req |->
                CASE pc[r] = "done" -> answer[r].rows
                  [] pc[r] # "done" /\ r \in ran /\ input[r].route = "query" -> result[r]
                  [] OTHER -> {}]

\* Concurrent requests, hooks, id generation and lost replies: each request takes
\* effect at one moment between its arrival and its answer, and a query's answer
\* is the rows of that moment.
ImplementsAtomicTable == Atomic!Spec
-----------------------------------------------------------------------------
(* The inductive invariant behind the theorems of SqlAdapterProofs.           *)

\* Who has answered, and what a goroutine has done by the time it gets to a phase.
ProgressInv ==
    /\ \A r \in Req : answer[r].status # 0 <=> pc[r] = "done"
    /\ \A r \in Req : doneBefore[r] \subseteq Answered
    /\ \A r \in ran : pc[r] \in {"rows", "after", "done"}
    /\ \A r \in generated : pc[r] \in {"execute", "after", "done"}
    /\ \A r \in Req : r \in generated \/ pc[r] \in {"nextid", "nextidRows"} =>
          input[r].kind \in {"create", "bad"}

\* A row is a stored one or the only row of a request whose statement ran; so did
\* that of the request that gave it its id, and an id that getNextID made is that of
\* the row it was made for.
RowsInv ==
    /\ \A row \in table : {row.by, row.idBy} \subseteq ran \cup Origins
    /\ \A row1, row2 \in table : row1.by = row2.by => row1 = row2
    /\ \A row \in table : row.idBy \in generated => row.by = row.idBy

\* From the SELECT MAX to the INSERT: a row that has come to hold the chosen id got
\* it from a request that had not answered when r arrived.
Intruder(r, id) == \E row \in table :
    row.id = id /\ row.idBy \in doneBefore[r] \cup Origins

WindowInv ==
    \A r \in Req :
        /\ pc[r] = "nextidRows" =>
              \A row \in result[r] : row.id # NoId /\ ~Intruder(r, row.id)
        /\ pc[r] = "execute" /\ r \in generated =>
              input[r].id # NoId /\ ~Intruder(r, input[r].id)

IInv ==
    /\ TypeOK
    /\ ProgressInv
    /\ RowsInv
    /\ WindowInv
    /\ GeneratedIdsCollideOnlyInOverlap
==============================================================================
