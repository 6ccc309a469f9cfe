-------------------------- MODULE FrontEndsProofs --------------------------
(***************************************************************************)
(* Theorems about the front ends, for any requests, any whitelist and any  *)
(* map from aliases to tables.                                             *)
(***************************************************************************)
EXTENDS FrontEnds, TLAPS

(***************************************************************************)
(* The two steps of a request, the front end's and Handle's, come to the   *)
(* one function Outcome of the front end and the request.                  *)
(***************************************************************************)

\* What has been computed is what the functions say.
Computed ==
    /\ front \in PathFronts \cup RootFronts
    /\ request \in Requests
    /\ stage \in {"received", "routed", "handled"}
    /\ stage = "routed" => routed = Route(front, request) /\ routed.status = 200
    /\ stage = "handled" => outcome = Outcome(front, request)

\* A request that the front end answers itself is refused with its status; one that
\* it routes is what Handle makes of it.
LEMMA OutcomeCases ==
    ASSUME NEW f, NEW q
    PROVE  /\ Route(f, q).status # 200 =>
                 Outcome(f, q) = [status |-> Route(f, q).status, op |-> "refused", table |-> "none"]
           /\ Route(f, q).status = 200 /\ Handle(f, Route(f, q).raw, Route(f, q).table) = "refused" =>
                 Outcome(f, q) = [status |-> 400, op |-> "refused", table |-> "none"]
           /\ Route(f, q).status = 200 /\ Handle(f, Route(f, q).raw, Route(f, q).table) # "refused" =>
                 Outcome(f, q) = [status |-> 200, op |-> Handle(f, Route(f, q).raw, Route(f, q).table),
                                  table |-> Route(f, q).table]
BY DEF Outcome

\* Computed is an invariant.
LEMMA AlwaysComputed == Spec => []Computed
<1>1. Init => Computed
  BY DEF Init, Computed
<1>2. Computed /\ [Next]_vars => Computed'
  <2> SUFFICES ASSUME Computed, [Next]_vars PROVE Computed'
    OBVIOUS
  <2>1. CASE Serve
    <3>1. /\ routed' = Route(front, request) /\ UNCHANGED <<front, request>>
          /\ IF routed'.status = 200 THEN stage' = "routed" /\ UNCHANGED outcome
             ELSE /\ stage' = "handled"
                  /\ outcome' = [status |-> routed'.status, op |-> "refused", table |-> "none"]
      BY <2>1 DEF Serve
    <3>2. QED
      BY <3>1, OutcomeCases DEF Computed
  <2>2. CASE Dispatch
    <3>1. /\ stage = "routed" /\ stage' = "handled" /\ UNCHANGED <<front, request, routed>>
          /\ outcome' = IF Handle(front, routed.raw, routed.table) = "refused"
                        THEN [status |-> 400, op |-> "refused", table |-> "none"]
                        ELSE [status |-> 200, op |-> Handle(front, routed.raw, routed.table),
                              table |-> routed.table]
      BY <2>2 DEF Dispatch
    <3>2. routed = Route(front, request) /\ routed.status = 200
      BY <3>1 DEF Computed
    <3>3. QED
      BY <3>1, <3>2, OutcomeCases DEF Computed
  <2>3. CASE UNCHANGED vars
    BY <2>3 DEF vars, Computed
  <2>4. QED
    BY <2>1, <2>2, <2>3 DEF Next
<1>3. QED
  BY <1>1, <1>2, PTL DEF Spec
-----------------------------------------------------------------------------
(***************************************************************************)
(* The whitelist.                                                          *)
(***************************************************************************)

\* What a front end that asks the whitelist lets through is the table of a listed
\* name.
LEMMA ListedRoute ==
    ASSUME NEW f \in RootFronts, NEW q \in Requests, Whitelist # {},
           Route(f, q).status = 200
    PROVE  \E alias \in Whitelist : Route(f, q).table = Mapped(alias)
<1> DEFINE found == Found(f, q)
<1>1. Route(f, q) = RootRoute(f, q)
  BY DEF Route, RootFronts, BodyFronts, PathFronts
<1>2. \A status : Refused(status).status = status
  BY DEF Refused
<1>3. found.status = 200 /\ found.table \in Whitelist
      /\ Route(f, q) = [found EXCEPT !.table = Mapped(found.table)]
  <2> HIDE DEF found
  <2>1. RootRoute(f, q) \in {Refused(405), Refused(400), found, Refused(403),
                            [found EXCEPT !.table = Mapped(found.table)]}
    BY DEF RootRoute, found
  <2>2. QED
    BY <1>1, <1>2 DEF RootRoute, found
<1>4. "table" \in DOMAIN found
  <2>1. \A status : "table" \in DOMAIN Refused(status)
    BY DEF Refused
  <2>2. \A table, raw : "table" \in DOMAIN Routed(table, raw)
    BY DEF Routed
  <2>3. "table" \in DOMAIN FromOrRootKey(q)
    BY <2>1, <2>2 DEF FromOrRootKey
  <2>4. "table" \in DOMAIN HandlerTable(q)
    BY <2>1, <2>2 DEF HandlerTable
  <2>5. "table" \in DOMAIN Resource(q)
    <3>1. "table" \in DOMAIN Routed(q.path, Decoded(q)) /\ "table" \in DOMAIN Refused(400)
      BY <2>1, <2>2
    <3>2. Resource(q) \in {Refused(400), FromOrRootKey(q), Routed(q.path, Decoded(q))}
      BY DEF Resource
    <3>3. QED
      BY <2>3, <3>1, <3>2
  <2>6. "table" \in DOMAIN EchoTable(q, {}) /\ "table" \in DOMAIN EchoTable(q, {"resource"})
    BY <2>1, <2>2 DEF EchoTable
  <2>7. found \in {HandlerTable(q), FromOrRootKey(q), Resource(q), EchoTable(q, {}),
                   EchoTable(q, {"resource"})}
    BY DEF found, Found, RootFronts, BodyFronts
  <2> HIDE DEF found
  <2>8. QED
    BY <2>3, <2>4, <2>5, <2>6, <2>7
<1>5. Route(f, q).table = Mapped(found.table)
  <2> HIDE DEF found
  <2>1. QED
    BY <1>3, <1>4
<1>6. QED
  BY <1>3, <1>5

\* With a whitelist, no request of these four front ends reaches a table but under
\* a listed name, whichever of body, key, "from" and route parameter names it.
THEOREM WhitelistHolds == Spec => []OnlyListedTables
<1>1. Computed => OnlyListedTables
  <2> SUFFICES ASSUME Computed, Whitelist # {}, stage = "handled", front \in RootFronts,
                      outcome.status = 200
               PROVE  \E alias \in Whitelist : outcome.table = Mapped(alias)
    BY DEF OnlyListedTables
  <2>1. outcome = Outcome(front, request) /\ request \in Requests
    BY DEF Computed
  <2>2. Route(front, request).status = 200 /\ outcome.table = Route(front, request).table
    BY <2>1, OutcomeCases
  <2>3. QED
    BY <2>1, <2>2, ListedRoute
<1>2. QED
  BY AlwaysComputed, <1>1, PTL
-----------------------------------------------------------------------------
(***************************************************************************)
(* The table as the one root key.                                          *)
(***************************************************************************)

\* Only the mongo adapter's Handle is another.
LEMMA SameHandle ==
    ASSUME NEW f, NEW raw, NEW table, f # "mongo"
    PROVE  Handle(f, raw, table) = Handle("handler", raw, table)
BY DEF Handle, QueryOrInline

\* What is routed alike is handled alike, if not in MongoDB.
LEMMA SameOutcome ==
    ASSUME NEW f, NEW q, f # "mongo", Route(f, q) = Route("handler", q)
    PROVE  Outcome(f, q) = Outcome("handler", q)
<1>1. Handle(f, Route(f, q).raw, Route(f, q).table) =
      Handle("handler", Route(f, q).raw, Route(f, q).table)
  BY SameHandle
<1>2. QED
  BY <1>1 DEF Outcome

\* What a front end does not find, it refuses.
LEMMA NothingFound ==
    ASSUME NEW f \in RootFronts, NEW q, q.method = "POST", Found(f, q) = Refused(400)
    PROVE  Outcome(f, q) = [status |-> 400, op |-> "refused", table |-> "none"]
<1>1. Route(f, q) = RootRoute(f, q)
  BY DEF Route, RootFronts, BodyFronts, PathFronts
<1>2. Refused(400).status = 400
  BY DEF Refused
<1>3. Route(f, q) = Refused(400)
  BY <1>1, <1>2 DEF RootRoute
<1>4. QED
  BY <1>2, <1>3, OutcomeCases

\* The front ends that find the table in the same place do the same with it.
LEMMA FoundAlike ==
    ASSUME NEW f \in RootFronts, NEW q, q.method = "POST", Found(f, q) = HandlerTable(q)
    PROVE  Outcome(f, q) = Outcome("handler", q)
<1>1. Found("handler", q) = HandlerTable(q)
  BY DEF Found
<1>2. Route(f, q) = RootRoute(f, q) /\ Route("handler", q) = RootRoute("handler", q)
  BY DEF Route, RootFronts, BodyFronts, PathFronts
<1>3. Route(f, q) = Route("handler", q)
  BY <1>1, <1>2 DEF RootRoute
<1>4. f # "mongo"
  BY DEF RootFronts, BodyFronts
<1>5. QED
  BY <1>3, <1>4, SameOutcome

\* Where nothing is bound before, echo finds what the http Handler finds.
LEMMA EchoFinds ==
    ASSUME NEW q, q.method = "POST"
    PROVE  EchoTable(q, {}) = HandlerTable(q)
<1>1. CASE q.text = "null"
  BY <1>1 DEF EchoTable, HandlerTable, RootKeys
<1>2. CASE q.text # "null"
  <2>1. {} \cup RootKeys(q) = RootKeys(q)
    OBVIOUS
  <2>2. QED
    BY <1>2, <2>1 DEF EchoTable, HandlerTable
<1>3. QED
  BY <1>1, <1>2

\* With a parameter bound, it finds a table only where that is the one key of the body.
LEMMA EchoFindsParameter ==
    ASSUME NEW q, q.method = "POST"
    PROVE  EchoTable(q, {"resource"}) = IF RootKeys(q) = {"resource"} THEN HandlerTable(q) ELSE Refused(400)
<1>1. CASE q.text = "null"
  <2>1. RootKeys(q) = {}
    BY <1>1 DEF RootKeys
  <2>2. QED
    BY <1>1, <2>1 DEF EchoTable
<1>2. CASE q.text # "null"
  <2> DEFINE keys == {"resource"} \cup RootKeys(q)
  <2>1. CASE RootKeys(q) = {"resource"}
    <3>1. keys = RootKeys(q)
      BY <2>1
    <3>2. QED
      BY <1>2, <3>1, <2>1 DEF EchoTable, HandlerTable
  <2>2. CASE RootKeys(q) # {"resource"}
    <3>1. ~\E k \in keys : keys = {k} /\ k \in RootKeys(q)
      BY <2>2
    <3>2. QED
      BY <1>2, <2>2, <3>1 DEF EchoTable
  <2>3. QED
    BY <2>1, <2>2
<1>3. QED
  BY <1>1, <1>2

\* A body without "from" has its table where gin and the http Handler both find it.
LEMMA GinFinds ==
    ASSUME NEW q, "from" \notin RootKeys(q)
    PROVE  FromOrRootKey(q) = HandlerTable(q)
<1>1. CASE \E k \in RootKeys(q) : RootKeys(q) = {k}
  <2>1. PICK k : RootKeys(q) = {k}
    BY <1>1
  <2>2. (CHOOSE key \in RootKeys(q) : TRUE) = k
    BY <2>1
  <2>3. QED
    BY <2>1, <2>2 DEF FromOrRootKey, HandlerTable
<1>2. CASE ~\E k \in RootKeys(q) : RootKeys(q) = {k}
  BY <1>2 DEF FromOrRootKey, HandlerTable
<1>3. QED
  BY <1>1, <1>2

\* One with a "from" is refused by gin, or by the http Handler, which wants an object
\* under its only key.
LEMMA FromIsRefused ==
    ASSUME NEW q, q.method = "POST", "from" \in RootKeys(q)
    PROVE  FromOrRootKey(q) = Refused(400) \/ HandlerTable(q) = Refused(400)
<1>1. CASE q.wrap = "from"
  BY <1>1 DEF FromOrRootKey
<1>2. CASE q.wrap # "from"
  <2>1. ~HoldsObject(q, "from")
    BY <1>2 DEF HoldsObject
  <2>2. \A k : RootKeys(q) = {k} => k = "from"
    OBVIOUS
  <2>3. QED
    BY <2>1, <2>2 DEF HandlerTable
<1>3. QED
  BY <1>1, <1>2

\* Three copies of one search: where they agree, what each of gin and echo refuses or
\* takes instead, and that no body means one thing to gin and another to the others.
THEOREM OneRootKeyOneMeaning == Spec => []RootRequestsAgree
<1>1. Computed => RootRequestsAgree
  <2> SUFFICES ASSUME Computed, stage = "handled", request.method = "POST"
               PROVE  /\ front = "echoNew" => outcome = Outcome("handler", request)
                      /\ front = "echoResource" =>
                            IF RootKeys(request) = {"resource"} THEN outcome = Outcome("handler", request)
                            ELSE outcome = [status |-> 400, op |-> "refused", table |-> "none"]
                      /\ front = "ginNew" =>
                            IF "from" \notin RootKeys(request) THEN outcome = Outcome("handler", request)
                            ELSE "refused" \in {outcome.op, Outcome("handler", request).op}
    BY DEF RootRequestsAgree
  <2>1. outcome = Outcome(front, request)
    BY DEF Computed
  <2>2. "echoNew" \in RootFronts /\ "echoResource" \in RootFronts /\ "ginNew" \in RootFronts
        /\ "handler" \in RootFronts
    BY DEF RootFronts, BodyFronts
  <2>3. CASE front = "echoNew"
    <3>1. Found("echoNew", request) = HandlerTable(request)
      BY EchoFinds DEF Found
    <3>2. QED
      BY <2>1, <2>2, <2>3, <3>1, FoundAlike
  <2>4. CASE front = "echoResource"
    <3>1. Found("echoResource", request) =
            IF RootKeys(request) = {"resource"} THEN HandlerTable(request) ELSE Refused(400)
      BY EchoFindsParameter DEF Found
    <3>2. QED
      BY <2>1, <2>2, <2>4, <3>1, FoundAlike, NothingFound
  <2>5. CASE front = "ginNew" /\ "from" \notin RootKeys(request)
    <3>1. Found("ginNew", request) = HandlerTable(request)
      BY <2>5, GinFinds DEF Found
    <3>2. QED
      BY <2>1, <2>2, <2>5, <3>1, FoundAlike
  <2>6. CASE front = "ginNew" /\ "from" \in RootKeys(request)
    <3>1. /\ Found("ginNew", request) = FromOrRootKey(request)
          /\ Found("handler", request) = HandlerTable(request)
      BY DEF Found
    <3>2. Outcome("ginNew", request).op = "refused" \/ Outcome("handler", request).op = "refused"
      BY <2>2, <2>6, <3>1, FromIsRefused, NothingFound
    <3>3. QED
      BY <2>1, <2>6, <3>2
  <2>7. QED
    BY <2>3, <2>4, <2>5, <2>6
<1>2. QED
  BY AlwaysComputed, <1>1, PTL
-----------------------------------------------------------------------------
(***************************************************************************)
(* Explicit requests.                                                      *)
(***************************************************************************)

\* The body of an explicit request is decoded as it is, and it is no null.
LEMMA ExplicitDecoded ==
    ASSUME NEW q \in Requests, Explicit(q)
    PROVE  /\ Decoded(q) = q.body /\ q.body \in Object /\ q.body # Nil
           /\ q.body.op \in {"none"} \cup Operations /\ ~q.body.invalid
<1>1. q.body \in Object
  BY RequestsTyped DEF Request
<1>2. Nil.op = "nil"
  BY DEF Nil, EmptyObject
<1>3. q.body.op # "nil"
  BY <1>1 DEF Object, Operations
<1>4. QED
  BY <1>1, <1>2, <1>3 DEF Explicit, Decoded

\* The operation that an explicit request asks for, with the parts of its body.
Inferred(q, raw) ==
    /\ raw.op \in Operations
    /\ raw.op = "create" <=> Asks(q, "create", "POST")
    /\ raw.op = "update" <=> Asks(q, "update", "PATCH")
    /\ raw.data = q.body.data /\ raw.patch = q.body.patch /\ raw.where = q.body.where
    /\ q.body.op # "none" => raw = q.body

\* The two pieces of code that infer the operation agree on an explicit request,
\* and what they infer is an operation.
LEMMA SameInference ==
    ASSUME NEW q \in Requests, Explicit(q), q.method # "PUT"
    PROVE  \E raw \in Object :
              /\ ServeHTTPInfers(q.method, Decoded(q)) = Routed("none", raw)
              /\ InferMutationFromHTTP(q.method, Decoded(q)) = Routed("none", raw)
              /\ Inferred(q, raw)
<1>1. /\ Decoded(q) = q.body /\ q.body \in Object /\ q.body # Nil
      /\ q.body.op \in {"none"} \cup Operations
  BY ExplicitDecoded
<1>2. CASE q.body.op # "none"
  BY <1>1, <1>2 DEF ServeHTTPInfers, InferMutationFromHTTP, Inferred, Asks, Operations
<1>3. CASE q.body.op = "none"
  <2> DEFINE As(op) == [q.body EXCEPT !.op = op]
  <2>1. \A op \in Operations :
            /\ As(op) \in Object /\ As(op).op = op /\ As(op).data = q.body.data
            /\ As(op).patch = q.body.patch /\ As(op).where = q.body.where
    BY <1>1 DEF Object, Operations
  <2>2. PICK op \in Operations :
            /\ op = "create" <=> q.method = "POST"
            /\ op = "update" <=> q.method = "PATCH"
            /\ ServeHTTPInfers(q.method, q.body) = Routed("none", As(op))
            /\ InferMutationFromHTTP(q.method, q.body) = Routed("none", As(op))
    <3>1. CASE q.method = "POST" /\ q.body.data # "none"
      BY <1>1, <1>3, <3>1 DEF ServeHTTPInfers, InferMutationFromHTTP, Operations
    <3>2. CASE q.method = "PATCH"
      BY <1>1, <1>3, <3>2 DEF ServeHTTPInfers, InferMutationFromHTTP, Operations
    <3>3. CASE q.method = "DELETE"
      BY <1>1, <1>3, <3>3 DEF ServeHTTPInfers, InferMutationFromHTTP, Operations
    <3>4. QED
      BY <1>3, <3>1, <3>2, <3>3 DEF Explicit, Operations
  <2>3. As(op) \in Object /\ Inferred(q, As(op))
    BY <1>3, <2>1, <2>2 DEF Inferred, Asks, Operations
  <2> HIDE DEF As
  <2>4. QED
    BY <1>1, <1>3, <2>2, <2>3
<1>4. QED
  BY <1>2, <1>3

\* A front end that takes the table from the URL refuses an explicit request for
\* its method or path, as the others do, or routes the inferred operation to the
\* table of the path.
LEMMA ExplicitPathRoute ==
    ASSUME NEW q \in Requests, Explicit(q), NEW f \in PathFronts
    PROVE  \/ /\ q.method = "PUT" /\ Route(f, q) = Refused(405)
           \/ /\ q.method # "PUT" /\ q.path \in {"", "favicon.ico"} /\ Route(f, q) = Refused(400)
           \/ /\ q.method # "PUT" /\ q.path \notin {"", "favicon.ico"}
              /\ \E raw \in Object :
                    /\ Routed("none", raw) = ServeHTTPInfers(q.method, Decoded(q))
                    /\ Inferred(q, raw)
                    /\ Route(f, q) = Routed(q.path, [raw EXCEPT !.from = q.path])
<1>1. Route(f, q) = PathRoute(f, q)
  BY DEF Route
<1>2. q.method \in Methods /\ q.text = "object" /\ ~Decoded(q).invalid
  BY ExplicitDecoded, RequestsTyped DEF Request, Explicit
<1>3. CASE q.method = "PUT"
  BY <1>1, <1>3 DEF PathRoute
<1>4. CASE q.method # "PUT" /\ q.path \in {"", "favicon.ico"}
  BY <1>1, <1>2, <1>4 DEF PathRoute, Methods
<1>5. CASE q.method # "PUT" /\ q.path \notin {"", "favicon.ico"}
  <2>1. PICK raw \in Object :
            /\ ServeHTTPInfers(q.method, Decoded(q)) = Routed("none", raw)
            /\ InferMutationFromHTTP(q.method, Decoded(q)) = Routed("none", raw)
            /\ Inferred(q, raw)
    BY <1>5, SameInference
  <2> DEFINE inferred == Routed("none", raw)
  <2>2. inferred.status = 200 /\ inferred.raw = raw
    BY DEF Routed
  <2>3. PathRoute(f, q) =
            [inferred EXCEPT !.table = q.path,
                             !.raw.from = IF inferred.raw.op \in {"none", "nil"} THEN @ ELSE q.path]
    <3> HIDE DEF inferred
    <3>1. (IF f \in {"http", "mongo"} THEN ServeHTTPInfers(q.method, Decoded(q))
           ELSE InferMutationFromHTTP(q.method, Decoded(q))) = inferred
      BY <2>1 DEF inferred
    <3>2. q.method \in {"POST", "GET", "PATCH", "DELETE"}
      BY <1>2, <1>5 DEF Methods
    <3>3. inferred.status # NoAnswer
      BY <2>2 DEF NoAnswer
    <3>4. QED
      BY <1>2, <1>5, <3>1, <3>2, <3>3 DEF PathRoute
  <2>4. PathRoute(f, q) = Routed(q.path, [raw EXCEPT !.from = q.path])
    <3>1. raw.op \notin {"none", "nil"}
      BY <2>1 DEF Operations, Inferred
    <3>2. QED
      BY <2>3, <3>1 DEF Routed
  <2>5. QED
    BY <1>1, <1>5, <2>1, <2>4
<1>6. QED
  BY <1>3, <1>4, <1>5

\* An operation at the mongo adapter, and at the others.
Mutation(f, raw, table) == IF f = "mongo" THEN MongoMutation(raw, table) ELSE SqlMutation(raw, table)

\* Handle of an operation asks for its parts and its table, and not for "from".
LEMMA OperationHandled ==
    ASSUME NEW f, NEW raw \in Object, raw.op \in Operations, NEW from \in STRING, NEW table
    PROVE  /\ Handle(f, raw, table) = Mutation(f, raw, table)
           /\ Handle(f, [raw EXCEPT !.from = from], table) = Mutation(f, raw, table)
<1> DEFINE other == [raw EXCEPT !.from = from]
<1>1. /\ other \in Object
      /\ other.op = raw.op /\ other.data = raw.data /\ other.patch = raw.patch
      /\ other.where = raw.where
  BY DEF Object
<1>2. Nil.op = "nil" /\ raw.op # "nil" /\ raw.op # "other"
  BY DEF Nil, EmptyObject, Operations
<1>3. raw # Nil /\ other # Nil
  <2> HIDE DEF other
  <2>1. QED
    BY <1>1, <1>2
<1>4. Mutation(f, other, table) = Mutation(f, raw, table)
  <2> HIDE DEF other
  <2>1. QED
    BY <1>1 DEF Mutation, SqlMutation, MongoMutation
<1>5. QED
  <2> HIDE DEF other
  <2>1. Handle(f, raw, table) = Mutation(f, raw, table) /\ Handle(f, other, table) = Mutation(f, other, table)
    BY <1>1, <1>2, <1>3 DEF Handle, Mutation
  <2>2. QED
    BY <1>4, <2>1 DEF other

\* What MongoDB does with an operation that SQL refuses is a create or an update with
\* a name that it does not check; with all others both do the same.
LEMMA MongoMutates ==
    ASSUME NEW q \in Requests, q.method # "PUT", q.path \notin {"", "favicon.ico"},
           NEW raw \in Object, Inferred(q, raw)
    PROVE  IF UncheckedInMongo(q)
           THEN /\ SqlMutation(raw, q.path) = "refused"
                /\ MongoMutation(raw, q.path) = IF Asks(q, "create", "POST") THEN "create" ELSE "update"
           ELSE MongoMutation(raw, q.path) = SqlMutation(raw, q.path)
<1>1. raw.op \in {"create", "update", "delete"} /\ raw.data \in Part /\ raw.patch \in Part
  BY DEF Inferred, Operations, Object
<1>2. CASE raw.op = "create"
  <2>1. Asks(q, "create", "POST") /\ ~Asks(q, "update", "PATCH")
    BY <1>2 DEF Inferred
  <2>2. UncheckedInMongo(q) <=> \/ raw.data = "badkey"
                                \/ raw.data \in {"object", "empty"} /\ q.path \notin Identifiers
    BY <2>1 DEF UncheckedInMongo, Inferred
  <2>3. QED
    BY <1>1, <1>2, <2>1, <2>2 DEF SqlMutation, SqlCreates, MongoMutation
<1>3. CASE raw.op = "update"
  <2>1. ~Asks(q, "create", "POST") /\ Asks(q, "update", "PATCH")
    BY <1>3 DEF Inferred
  <2>2. UncheckedInMongo(q) <=> q.path \in Identifiers /\ raw.patch = "badkey" /\ raw.where # "badkey"
    BY <2>1 DEF UncheckedInMongo, Inferred
  <2>3. QED
    BY <1>1, <1>3, <2>1, <2>2 DEF SqlMutation, SqlUpdates, MongoMutation
<1>4. CASE raw.op = "delete"
  <2>1. ~UncheckedInMongo(q)
    BY <1>4 DEF UncheckedInMongo, Inferred
  <2>2. QED
    BY <1>4, <2>1 DEF SqlMutation, SqlDeletes, MongoMutation
<1>5. QED
  BY <1>1, <1>2, <1>3, <1>4

\* Four front ends, two ways to infer the operation and two kinds of adapter: one
\* meaning for an explicit request, but for the names that MongoDB does not check; and
\* gin's resource gives one with an "op" the same, on the table its name stands for.
THEOREM ExplicitMeansOne == Spec => []ExplicitRequestsAgree
<1>1. ASSUME NEW q \in Requests, Explicit(q), NEW f \in PathFronts
      PROVE  IF f = "mongo" /\ UncheckedInMongo(q)
             THEN /\ Outcome(f, q).status = 200 /\ Outcome(f, q).table = q.path
                  /\ Outcome(f, q).op = IF Asks(q, "create", "POST") THEN "create" ELSE "update"
                  /\ Outcome("http", q).status = 400
             ELSE Outcome(f, q) = Outcome("http", q)
  <2>1. "http" \in PathFronts
    BY DEF PathFronts
  <2>2. \A status : Refused(status).status = status
    BY DEF Refused
  <2>3. CASE q.method = "PUT" \/ q.path \in {"", "favicon.ico"}
    <3>1. PICK status \in {400, 405} :
              Route(f, q) = Refused(status) /\ Route("http", q) = Refused(status)
      <4>1. CASE q.method = "PUT"
        <5>1. \A g \in PathFronts : Route(g, q) = Refused(405)
          BY <1>1, <4>1, ExplicitPathRoute
        <5>2. QED
          BY <1>1, <2>1, <5>1
      <4>2. CASE q.method # "PUT"
        <5>1. \A g \in PathFronts : Route(g, q) = Refused(400)
          BY <1>1, <2>3, <4>2, ExplicitPathRoute
        <5>2. QED
          BY <1>1, <2>1, <5>1
      <4>3. QED
        BY <4>1, <4>2
    <3>2. Route(f, q).status = status /\ Route("http", q).status = status /\ status # 200
      BY <2>2, <3>1
    <3>3. Outcome(f, q) = Outcome("http", q)
      BY <3>2, OutcomeCases
    <3>4. ~UncheckedInMongo(q)
      BY <2>3 DEF UncheckedInMongo
    <3>5. QED
      BY <3>3, <3>4
  <2>4. CASE q.method # "PUT" /\ q.path \notin {"", "favicon.ico"}
    <3>1. PICK raw \in Object :
              /\ Routed("none", raw) = ServeHTTPInfers(q.method, Decoded(q))
              /\ Inferred(q, raw)
              /\ Route(f, q) = Routed(q.path, [raw EXCEPT !.from = q.path])
      BY <1>1, <2>4, ExplicitPathRoute
    <3>2. PICK raw2 \in Object :
              /\ Routed("none", raw2) = ServeHTTPInfers(q.method, Decoded(q))
              /\ Inferred(q, raw2)
              /\ Route("http", q) = Routed(q.path, [raw2 EXCEPT !.from = q.path])
      BY <1>1, <2>1, <2>4, ExplicitPathRoute
    <3>3. raw2 = raw
      BY <3>1, <3>2 DEF Routed
    <3>4. /\ Route(f, q) = Route("http", q) /\ Route(f, q).raw = [raw EXCEPT !.from = q.path]
          /\ Route(f, q).status = 200 /\ Route(f, q).table = q.path
      BY <3>1, <3>2, <3>3 DEF Routed
    <3>5. q.path \in STRING /\ raw.op \in Operations
      BY <3>1, RequestsTyped DEF Request, Inferred
    <3>6. /\ Handle(f, Route(f, q).raw, q.path) = Mutation(f, raw, q.path)
          /\ Handle("http", Route("http", q).raw, q.path) = SqlMutation(raw, q.path)
      <4>1. Handle("http", Route("http", q).raw, q.path) = Mutation("http", raw, q.path)
        BY <3>1, <3>4, <3>5, OperationHandled
      <4>2. QED
        BY <3>1, <3>4, <3>5, <4>1, OperationHandled DEF Mutation
    <3>7. CASE f = "mongo" /\ UncheckedInMongo(q)
      <4>1. /\ SqlMutation(raw, q.path) = "refused"
            /\ MongoMutation(raw, q.path) = IF Asks(q, "create", "POST") THEN "create" ELSE "update"
        BY <2>4, <3>1, <3>7, MongoMutates
      <4>2. Mutation(f, raw, q.path) # "refused"
        BY <3>7, <4>1 DEF Mutation
      <4>3. Outcome(f, q) = [status |-> 200, op |-> Mutation(f, raw, q.path), table |-> q.path]
        BY <3>4, <3>6, <4>2, OutcomeCases
      <4>4. Outcome("http", q).status = 400
        BY <3>4, <3>6, <4>1, OutcomeCases
      <4>5. QED
        BY <3>7, <4>1, <4>3, <4>4 DEF Mutation
    <3>8. CASE ~(f = "mongo" /\ UncheckedInMongo(q))
      <4>1. Mutation(f, raw, q.path) = SqlMutation(raw, q.path)
        BY <2>4, <3>1, <3>8, MongoMutates DEF Mutation
      <4>2. Handle(f, Route(f, q).raw, Route(f, q).table) =
            Handle("http", Route("http", q).raw, Route("http", q).table)
        BY <3>4, <3>6, <4>1
      <4>3. QED
        BY <3>4, <3>8, <4>2 DEF Outcome
    <3>9. QED
      BY <3>7, <3>8
  <2>5. QED
    BY <2>3, <2>4
<1>2. ASSUME NEW q \in Requests, Explicit(q), q.body.op \in Operations, q.method # "PUT",
             q.path \in Whitelist \ {"", "favicon.ico"},
             q.path \in Identifiers, Mapped(q.path) \in Identifiers
      PROVE  Outcome("ginResource", q) = [Outcome("http", q) EXCEPT !.table = Mapped(@)]
  <2>1. q.body \in Object /\ q.path \in STRING /\ q.body.op # "none" /\ Decoded(q) = q.body
    BY <1>2, ExplicitDecoded, RequestsTyped DEF Request, Operations
  <2>2. Route("http", q) = Routed(q.path, [q.body EXCEPT !.from = q.path])
    <3>1. "http" \in PathFronts
      BY DEF PathFronts
    <3>2. PICK raw \in Object : Inferred(q, raw)
                               /\ Route("http", q) = Routed(q.path, [raw EXCEPT !.from = q.path])
      BY <1>2, <2>1, <3>1, ExplicitPathRoute
    <3>3. raw = q.body
      BY <2>1, <3>2 DEF Inferred
    <3>4. QED
      BY <3>2, <3>3
  <2>3. Found("ginResource", q) = Routed(q.path, q.body)
    BY <1>2, <2>1 DEF Found, Resource, Explicit
  <2>4. Route("ginResource", q) = Routed(Mapped(q.path), q.body)
    <3>1. Route("ginResource", q) = RootRoute("ginResource", q)
      BY DEF Route, PathFronts
    <3>2. RootRoute("ginResource", q) = [Routed(q.path, q.body) EXCEPT !.table = Mapped(q.path)]
      <4>1. Routed(q.path, q.body).status = 200 /\ Routed(q.path, q.body).table = q.path
        BY DEF Routed
      <4>2. QED
        BY <1>2, <2>3, <4>1 DEF RootRoute
    <3>3. QED
      BY <3>1, <3>2 DEF Routed
  <2>5. /\ Route("http", q).status = 200 /\ Route("ginResource", q).status = 200
        /\ Route("http", q).table = q.path /\ Route("ginResource", q).table = Mapped(q.path)
        /\ Route("http", q).raw = [q.body EXCEPT !.from = q.path]
        /\ Route("ginResource", q).raw = q.body
    BY <2>2, <2>4 DEF Routed
  <2>6. /\ Handle("http", Route("http", q).raw, Route("http", q).table) = SqlMutation(q.body, q.path)
        /\ Handle("ginResource", Route("ginResource", q).raw, Route("ginResource", q).table) =
              SqlMutation(q.body, q.path)
    <3>1. \A f, table : /\ Handle(f, q.body, table) = Mutation(f, q.body, table)
                        /\ Handle(f, [q.body EXCEPT !.from = q.path], table) = Mutation(f, q.body, table)
      BY <1>2, <2>1, OperationHandled
    <3>2. SqlMutation(q.body, Mapped(q.path)) = SqlMutation(q.body, q.path)
      BY <1>2 DEF SqlMutation, SqlCreates, SqlUpdates, SqlDeletes
    <3>3. QED
      BY <2>5, <3>1, <3>2 DEF Mutation
  <2>7. Mapped("none") = "none"
    BY NoneIsNoAlias DEF Mapped
  <2>8. CASE SqlMutation(q.body, q.path) = "refused"
    <3>1. /\ Outcome("http", q) = [status |-> 400, op |-> "refused", table |-> "none"]
          /\ Outcome("ginResource", q) = [status |-> 400, op |-> "refused", table |-> "none"]
      BY <2>5, <2>6, <2>8, OutcomeCases
    <3>2. QED
      BY <2>7, <3>1
  <2>9. CASE SqlMutation(q.body, q.path) # "refused"
    <3>1. /\ Outcome("http", q) = [status |-> 200, op |-> SqlMutation(q.body, q.path), table |-> q.path]
          /\ Outcome("ginResource", q) =
                [status |-> 200, op |-> SqlMutation(q.body, q.path), table |-> Mapped(q.path)]
      BY <2>5, <2>6, <2>9, OutcomeCases
    <3>2. QED
      BY <3>1
  <2>10. QED
    BY <2>8, <2>9
<1>3. Computed => ExplicitRequestsAgree
  <2>1. ASSUME Computed, stage = "handled", front \in PathFronts, Explicit(request)
        PROVE  IF front = "mongo" /\ UncheckedInMongo(request)
               THEN /\ outcome.status = 200 /\ outcome.table = request.path
                    /\ outcome.op = IF Asks(request, "create", "POST") THEN "create" ELSE "update"
                    /\ Outcome("http", request).status = 400
               ELSE outcome = Outcome("http", request)
    <3>1. outcome = Outcome(front, request) /\ request \in Requests
      BY <2>1 DEF Computed
    <3>2. QED
      BY <1>1, <2>1, <3>1
  <2>2. ASSUME Computed, stage = "handled", front = "ginResource", Explicit(request),
               request.body.op \in Operations, request.method # "PUT",
               request.path \in Whitelist \ {"", "favicon.ico"},
               request.path \in Identifiers, Mapped(request.path) \in Identifiers
        PROVE  outcome = [Outcome("http", request) EXCEPT !.table = Mapped(@)]
    <3>1. outcome = Outcome("ginResource", request) /\ request \in Requests
      BY <2>2 DEF Computed
    <3>2. QED
      BY <1>2, <2>2, <3>1
  <2>3. QED
    BY <2>1, <2>2 DEF ExplicitRequestsAgree
<1>4. QED
  BY AlwaysComputed, <1>3, PTL
=============================================================================
