---------------------------- MODULE MongoAdapter ----------------------------
(***************************************************************************)
(* The two MongoDB adapters: the native one (adapters/mongo/adapter.go)    *)
(* and that of adapters/http, which calls drivers/mongodb.  Concurrent     *)
(* requests to one collection, each a goroutine that calls the driver once *)
(* or several times with nothing to keep other requests out in between.    *)
(*                                                                         *)
(* The server is external.  InsertOne and a Find read or write at one      *)
(* moment; UpdateMany and DeleteMany do not: MongoDB makes each document's  *)
(* write atomic, not the whole command, so they write the documents they   *)
(* match one by one.                                                       *)
(***************************************************************************)
EXTENDS Integers, FiniteSets

CONSTANTS
    Adapters,   \* the adapters that may serve them, among "native" and "http"
    Req,        \* the HTTP requests served, one goroutine each
    Origins,    \* the documents there when the server starts
    NoId,       \* no "id" field
    TextId,     \* an "id" that is a string
    Vals,       \* the values of another field, "val"
    Inputs,     \* the requests clients may send
    Stored,     \* the initial documents
    Faults      \* what may go wrong, among FaultKinds

FaultKinds ==
    { "hook",       \* a Before or After hook returns an error
      "driver" }    \* a driver call fails

Id == (Nat \ {0}) \cup {NoId, TextId}

\* A document, under its _id `key'; `by' and `idBy' are history: its last writer, and
\* who gave it its present id, with the insert or with a patch since.
Doc == [key : Origins \cup Req, id : Id, val : Vals,
        by : Origins \cup Req, idBy : Origins \cup Req]

\* A filter accepts some ids and some vals; TranspileUpdate and TranspileDelete
\* turn an absent where into the filter that accepts all.
Filter == [ids : SUBSET Id, vals : SUBSET Vals]
Kinds == {"create", "update", "delete", "read", "bad"}
\* `cols' are the fields that data or patch names, "id" like any other.
Fields == {"id", "val"}
Input == [kind : Kinds, cols : SUBSET Fields, id : Id, val : Vals, filter : Filter]

ASSUME SpecialIds == NoId \notin Int /\ TextId \notin Int /\ NoId # TextId
ASSUME OriginsAreNoRequests == Origins \cap Req = {}
ASSUME InputsTyped == Inputs \subseteq Input /\ Inputs # {}
ASSUME StoredTyped ==
    /\ Stored \subseteq Doc
    /\ \A d \in Stored : d.key \in Origins /\ d.by = d.key /\ d.idBy = d.key
ASSUME StoredKeyed == \A d, e \in Stored : d.key = e.key => d = e
ASSUME AdaptersTyped == Adapters \subseteq {"native", "http"} /\ Adapters # {}
ASSUME OriginsFinite == IsFiniteSet(Origins) /\ IsFiniteSet(Req)
ASSUME FaultsTyped == Faults \subseteq FaultKinds

VARIABLES
    adapter,    \* the adapter behind the endpoint
    docs,       \* the collection
    pc,         \* where each request's goroutine is
    input,      \* its request body
    found,      \* the documents its Find returned
    todo,       \* the _ids its running UpdateMany or DeleteMany has yet to visit
    answer,     \* what it answered
    wrote,      \* the _ids its mutation inserted, changed or removed, which the server counts
    \* History, read by no action:
    generated,  \* the requests whose id getNextID made
    blind,      \* ... although it could not tell the largest id
    doneBefore  \* for each request, those answered before it arrived

rest == <<adapter, wrote, generated, blind, doneBefore>>
vars == <<adapter, docs, pc, input, found, todo, answer, wrote, generated, blind, doneBefore>>

Phases == {"idle", "before", "nextid", "insert", "update", "updating", "requery",
           "prefetch", "delete", "deleting", "find", "after", "done"}
\* An answer has documents or, from the http adapter's updates and deletes, a number.
Answer == [status : {0, 200, 400, 500}, docs : SUBSET Doc, count : Nat]
NoAnswer == [status |-> 0, docs |-> {}, count |-> 0]
Answered == {r \in Req : answer[r].status # 0}

TypeOK ==
    /\ adapter \in Adapters
    /\ docs \subseteq Doc
    /\ pc \in [Req -> Phases]
    /\ input \in [Req -> Input]
    /\ found \in [Req -> SUBSET Doc]
    /\ todo \in [Req -> SUBSET (Origins \cup Req)]
    /\ answer \in [Req -> Answer]
    /\ wrote \in [Req -> SUBSET (Origins \cup Req)]
    /\ generated \subseteq Req
    /\ blind \subseteq generated
    /\ doneBefore \in [Req -> SUBSET Req]

Init ==
    /\ adapter \in Adapters
    /\ docs = Stored
    /\ pc = [r \in Req |-> "idle"]
    /\ input = [r \in Req |-> CHOOSE i \in Inputs : TRUE]
    /\ found = [r \in Req |-> {}]
    /\ todo = [r \in Req |-> {}]
    /\ answer = [r \in Req |-> NoAnswer]
    /\ wrote = [r \in Req |-> {}]
    /\ generated = {}
    /\ blind = {}
    /\ doneBefore = [r \in Req |-> {}]
-----------------------------------------------------------------------------
Matches(d, f) == d.id \in f.ids /\ d.val \in f.vals
Matching(f) == {d \in docs : Matches(d, f)}
KeysOf(D) == {d.key : d \in D}

Goto(r, phase) == pc' = [pc EXCEPT ![r] = phase]
Answers(r, ans) == answer' = [answer EXCEPT ![r] = ans] /\ Goto(r, "done")
Refuses(r, status) == Answers(r, [NoAnswer EXCEPT !.status = status])
DriverFails(r) == "driver" \in Faults /\ Refuses(r, 500)

\* A client sends i; its goroutine reaches Handle.
Arrive(r) ==
    /\ pc[r] = "idle"
    /\ \E i \in Inputs : input' = [input EXCEPT ![r] = i]
    /\ doneBefore' = [doneBefore EXCEPT ![r] = Answered]
    /\ Goto(r, "before")
    /\ UNCHANGED <<adapter, docs, found, todo, answer, wrote, generated, blind>>

\* The first driver call of each operation: the http adapter generates no id and
\* fetches nothing before a delete.
Native == adapter = "native"
FirstCallNative(i) ==
    CASE i.kind = "create" -> IF "id" \in i.cols THEN "insert" ELSE "nextid"
      [] i.kind = "update" -> "update"
      [] i.kind = "delete" -> "prefetch"
      [] i.kind = "read" -> "find"
FirstCallHttp(i) ==
    CASE i.kind = "create" -> "insert"
      [] i.kind = "update" -> "update"
      [] i.kind = "delete" -> "delete"
      [] i.kind = "read" -> "find"
FirstCall(i) == IF Native THEN FirstCallNative(i) ELSE FirstCallHttp(i)

\* The transpiler refuses a map with no fields; the native adapter has put an id in
\* that of a create by then.
NoFields(i) == i.cols = {} /\ (i.kind = "update" \/ (i.kind = "create" /\ ~Native))

\* The Before hook, then the checks and the transpiler, which refuse a bad body.
BeforeHook(r) ==
    /\ pc[r] = "before"
    /\ \/ \E i \in Inputs :
            /\ i.kind = input[r].kind /\ i.kind # "bad" /\ ~NoFields(i)
            /\ input' = [input EXCEPT ![r] = i]
            /\ Goto(r, FirstCall(i))
            /\ UNCHANGED answer
       \/ /\ input[r].kind = "bad" \/ NoFields(input[r]) \/ "hook" \in Faults
          /\ Refuses(r, 400)
          /\ UNCHANGED input
    /\ UNCHANGED <<docs, found, todo, rest>>

\* getNextID: one above the id of the first document in descending order of id.
\* A string sorts above every number and a missing id below; both, an empty
\* collection and a failed Find give 1.
LargestId(D) == CHOOSE k \in D : \A j \in D : j <= k
NumbersIn(D) == {d.id : d \in D} \ {NoId, TextId}
\* (Mutants: without the + 1, and counting from 0.)
LargestAgain == LET ids == {d.id : d \in docs} IN
    IF TextId \in ids \/ NumbersIn(docs) = {} THEN 1 ELSE LargestId(NumbersIn(docs))
NextIdFromZero == LET ids == {d.id : d \in docs} IN
    IF TextId \in ids \/ NumbersIn(docs) = {} THEN 0 ELSE LargestId(NumbersIn(docs)) + 1
NextId ==
    LET ids == {d.id : d \in docs} IN
    IF TextId \in ids \/ NumbersIn(docs) = {} THEN 1 ELSE LargestId(NumbersIn(docs)) + 1

WithId(i, id) == [i EXCEPT !.id = id, !.cols = @ \cup {"id"}]

GetNextId(r) ==
    /\ pc[r] = "nextid"
    /\ \/ /\ input' = [input EXCEPT ![r] = WithId(@, NextId)]
          /\ blind' = IF \E d \in docs : d.id = TextId THEN blind \cup {r} ELSE blind
       \/ /\ "driver" \in Faults
          /\ input' = [input EXCEPT ![r] = WithId(@, 1)]
          /\ blind' = blind \cup {r}
    /\ generated' = generated \cup {r}
    /\ Goto(r, "insert")
    /\ UNCHANGED <<adapter, docs, found, todo, answer, wrote, doneBefore>>

\* InsertOne.  A failure may come after the server has inserted the document.
NewDoc(r) == [key |-> r, id |-> input[r].id, val |-> input[r].val, by |-> r, idBy |-> r]
InsertOne(r) ==
    LET d == NewDoc(r)
        inserted == docs' = docs \cup {d} /\ wrote' = [wrote EXCEPT ![r] = {r}]
    IN
    /\ pc[r] = "insert"
    /\ \/ /\ inserted
          /\ found' = [found EXCEPT ![r] = {d}]
          /\ Goto(r, "after")
          /\ UNCHANGED answer
       \/ /\ DriverFails(r)
          /\ inserted \/ UNCHANGED <<docs, wrote>>
          /\ UNCHANGED found
    /\ UNCHANGED <<adapter, input, todo, generated, blind, doneBefore>>
-----------------------------------------------------------------------------
\* The server starts UpdateMany or DeleteMany on the documents that match.
StartMany(r, phase, next) ==
    /\ pc[r] = phase
    /\ \/ /\ todo' = [todo EXCEPT ![r] = KeysOf(Matching(input[r].filter))]
          /\ Goto(r, next)
          /\ UNCHANGED answer
       \/ DriverFails(r) /\ UNCHANGED todo
    /\ UNCHANGED <<docs, input, found, rest>>

UpdateMany(r) == StartMany(r, "update", "updating")
DeleteMany(r) == StartMany(r, "delete", "deleting")

\* ... and visits them one by one, in some order; a document that has gone or
\* no longer matches is left alone, and one that has the values is not counted.
Visit(r, phase, Written(_)) ==
    /\ pc[r] = phase
    /\ \E k \in todo[r] :
         LET hit == {d \in Matching(input[r].filter) : d.key = k}
             changed == {d \in hit : \A e \in Written(hit) : <<e.id, e.val>> # <<d.id, d.val>>}
         IN
         /\ docs' = (docs \ hit) \cup Written(hit)
         /\ wrote' = [wrote EXCEPT ![r] = @ \cup KeysOf(changed)]
         /\ todo' = [todo EXCEPT ![r] = @ \ {k}]
    /\ UNCHANGED <<adapter, pc, input, found, answer, generated, blind, doneBefore>>

\* $set: the fields of the patch, whichever they are.
Patched(d, r) ==
    [d EXCEPT !.val  = IF "val" \in input[r].cols THEN input[r].val ELSE @,
              !.id   = IF "id" \in input[r].cols THEN input[r].id ELSE @,
              !.idBy = IF "id" \in input[r].cols THEN r ELSE @,
              !.by   = r]

UpdateOne(r) ==
    LET Written(hit) == {Patched(d, r) : d \in hit} IN Visit(r, "updating", Written)

\* (Mutant: the delete counts the documents it was to visit.)
DeleteOneCountsMatched(r) ==
    /\ pc[r] = "deleting"
    /\ \E k \in todo[r] :
         /\ docs' = {d \in docs : d.key # k \/ ~Matches(d, input[r].filter)}
         /\ wrote' = [wrote EXCEPT ![r] = @ \cup {k}]
         /\ todo' = [todo EXCEPT ![r] = @ \ {k}]
    /\ UNCHANGED <<adapter, pc, input, found, answer, generated, blind, doneBefore>>

DeleteOne(r) == LET Written(hit) == {} IN Visit(r, "deleting", Written)

\* The command ends, or breaks off with some documents written.
EndMany(r, phase, next) ==
    /\ pc[r] = phase
    /\ \/ todo[r] = {} /\ Goto(r, next) /\ UNCHANGED <<todo, answer>>
       \/ DriverFails(r) /\ todo' = [todo EXCEPT ![r] = {}]
    /\ UNCHANGED <<docs, input, found, rest>>

\* (Mutants: an update that goes on while documents match; a delete of one.)
UpdateUntilNoneMatches(r) ==
    Matching(input[r].filter) = {} /\ EndMany(r, "updating", "requery")
DeleteStopsEarly(r) ==
    /\ pc[r] = "deleting"
    /\ todo' = [todo EXCEPT ![r] = {}]
    /\ Goto(r, "after")
    /\ UNCHANGED <<docs, input, found, answer, rest>>

UpdateDone(r) == EndMany(r, "updating", IF Native THEN "requery" ELSE "after")
DeleteDone(r) == EndMany(r, "deleting", "after")

\* Find with cursor.All: after an update with the update's filter, before a
\* delete, or for a query.
FindAll(r, phase, next) ==
    /\ pc[r] = phase
    /\ \/ /\ found' = [found EXCEPT ![r] = Matching(input[r].filter)]
          /\ Goto(r, next)
          /\ UNCHANGED answer
       \/ DriverFails(r) /\ UNCHANGED found
    /\ UNCHANGED <<docs, input, todo, rest>>

\* (Mutants: the filter is lost.)
FindEverything(r, phase, next) ==
    /\ pc[r] = phase
    /\ found' = [found EXCEPT ![r] = docs]
    /\ Goto(r, next)
    /\ UNCHANGED <<docs, input, todo, answer, rest>>
RequeryEverything(r) == FindEverything(r, "requery", "after")
PrefetchEverything(r) == FindEverything(r, "prefetch", "delete")

Requery(r) == FindAll(r, "requery", "after")
Prefetch(r) == FindAll(r, "prefetch", "delete")
Find(r) == FindAll(r, "find", "after")

\* The After hook, then the response: the documents found, or the server's count.
Result(r) ==
    [status |-> 200, docs |-> found[r],
     count |-> IF input[r].kind \in {"update", "delete"} /\ ~Native
               THEN Cardinality(wrote[r]) ELSE 0]

AfterHook(r) ==
    /\ pc[r] = "after"
    /\ \/ Answers(r, Result(r))
       \/ "hook" \in Faults /\ Refuses(r, 400)
    /\ UNCHANGED <<docs, input, found, todo, rest>>
-----------------------------------------------------------------------------
Step(r) ==
    \/ BeforeHook(r) \/ GetNextId(r) \/ InsertOne(r)
    \/ UpdateMany(r) \/ UpdateOne(r) \/ UpdateDone(r) \/ Requery(r)
    \/ Prefetch(r) \/ DeleteMany(r) \/ DeleteOne(r) \/ DeleteDone(r)
    \/ Find(r) \/ AfterHook(r)

AllAnswered == (\A r \in Req : pc[r] = "done") /\ UNCHANGED vars

Next == (\E r \in Req : Arrive(r) \/ Step(r)) \/ AllAnswered

Spec == Init /\ [][Next]_vars

FairSpec == Spec /\ \A r \in Req : WF_vars(Step(r))
-----------------------------------------------------------------------------
Overlap(r, s) == r # s /\ pc[s] # "idle" /\ s \notin doneBefore[r] /\ r \notin doneBefore[s]
Succeeded(r, kind) == answer[r].status = 200 /\ input[r].kind = kind

\* Nothing keeps ids apart in MongoDB.  A document shares an id that getNextID made
\* only if whoever gave it that id - with a create or with a patch of "id" - had not
\* answered when the create arrived, and overlapped it if getNextID made both; or
\* getNextID could not tell the largest id and answered 1.
GeneratedIdsCollideOnlyInOverlap ==
    \A d, e \in docs :
        /\ d # e
        /\ d.id = e.id
        /\ d.idBy \in generated \ blind
        => /\ e.idBy \notin Origins \cup doneBefore[d.idBy]
           /\ e.idBy \in generated \ blind => Overlap(d.idBy, e.idBy)

\* The fields of the patch, or of the data, are those of the document.
Carries(d, i) == ("val" \in i.cols => d.val = i.val) /\ ("id" \in i.cols => d.id = i.id)

\* An update answers with the documents its own filter finds afterwards.  Each
\* of them was last written by it, or by a request that had not answered when it
\* arrived: it never reports a document it should have updated and did not.
UpdateAnswerIsExplained ==
    \A r \in Req : Succeeded(r, "update") =>
        \A d \in answer[r].docs :
            IF d.by = r THEN Carries(d, input[r]) ELSE d.by \in Req \ doneBefore[r]

\* A delete of the native adapter that ran alone reports exactly the documents it
\* removed, although it finds and removes them in two commands.
LoneDeleteIsExact ==
    \A r \in Req :
        Native /\ Succeeded(r, "delete") /\ (\A s \in Req : ~Overlap(r, s)) =>
            KeysOf(answer[r].docs) = wrote[r]

\* A mutation that succeeded missed nothing, though it visits documents one by
\* one while others write them: a document its filter accepts and its update has
\* not reached, or its delete has left, was written by a request that had not
\* answered when it arrived.  So a native delete reports a survivor only if
\* another request rewrote it meanwhile.
MutationsMissNothing ==
    \A r \in Req, d \in docs :
        /\ Matches(d, input[r].filter)
        /\ \/ Succeeded(r, "delete")
           \/ Succeeded(r, "update") /\ ~Carries(d, input[r])
        => d.by \in Req \ doneBefore[r]

\* The books balance: when every create and delete has succeeded, the documents
\* that are left and those reported deleted are those that were stored and those
\* created.  The http adapter's counts add up whatever overlaps; the documents that
\* the native adapter reports do when no delete overlaps another mutation.  (Each
\* deletion that r reports is a pair of r and a number, so that they can be counted.)
Mutates(r) == pc[r] # "idle" /\ input[r].kind \in {"create", "update", "delete"}
Reported(r) == answer[r].count + Cardinality(answer[r].docs)
Deletions == {r \in Req : Succeeded(r, "delete")}
ReportedDeleted == UNION {{r} \X (1 .. Reported(r)) : r \in Deletions}
DeletionsAddUp ==
    /\ \A r \in Req : Mutates(r) => answer[r].status = 200
    /\ Native => \A r \in Deletions, s \in Req : ~(Overlap(r, s) /\ Mutates(s))
    => Cardinality(docs) + Cardinality(ReportedDeleted)
         = Cardinality(Stored) + Cardinality({r \in Req : Succeeded(r, "create")})

\* Every request is answered, whatever the others do to the documents an
\* UpdateMany or DeleteMany has still to visit.
EveryRequestAnswered == \A r \in Req : pc[r] = "before" ~> pc[r] = "done"

\* adapter.go:478 says the documents are fetched so that the delete returns them:
\* what it reports deleted is what it deleted.
DeleteReturnsDeleted ==
    \A r \in Req : Succeeded(r, "delete") => KeysOf(answer[r].docs) = wrote[r]
=============================================================================
