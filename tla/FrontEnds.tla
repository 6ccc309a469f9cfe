------------------------------ MODULE FrontEnds ------------------------------
(***************************************************************************)
(* What becomes of an HTTP request before an adapter changes a database:   *)
(* which operation it is, and on which table.  Nine front ends decide it.   *)
(* Four take the table from the URL and infer the operation from the        *)
(* method: the http, gin, echo and mongo adapters.  Three take the table    *)
(* from the body: the http Handler and the NewHandler of gin and of echo.   *)
(* The last two are the NewHandlers on a route with a parameter "resource": *)
(* in gin it is the table, in echo one more key of the body.                *)
(*                                                                         *)
(* Bodies come as application/json, which only echo's Bind insists on.      *)
(***************************************************************************)
CONSTANTS
    Requests,   \* the requests clients send, see Request
    Whitelist,  \* AllowedTables; {} allows all
    TableMap,   \* from aliases to tables
    Identifiers \* the names that isValidIdentifier takes

PathFronts == {"http", "gin", "echo", "mongo"}
BodyFronts == {"handler", "ginNew", "echoNew"}
RootFronts == BodyFronts \cup {"ginResource", "echoResource"}
Methods == {"GET", "POST", "PATCH", "PUT", "DELETE"}

(***************************************************************************)
(* An object of a body: its "op" ("number" is a value that is no string),   *)
(* what its "data", "patch" and "where" are, whether "delete" is there, its *)
(* "from", whether it has an unsupported version or an empty "fields", and  *)
(* whether it has a key that JSONQL does not know; the parser refuses all   *)
(* three.  A part is an object with keys or without, one that has a key     *)
(* that is no identifier ("badkey"), or a value that is no object.          *)
(***************************************************************************)
Part == {"none", "object", "empty", "badkey", "other"}
Operations == {"create", "update", "delete"}
Object == [op : {"none", "other", "number"} \cup Operations, data : Part, patch : Part,
           where : Part, delete : BOOLEAN, from : STRING, invalid : BOOLEAN, unknown : BOOLEAN]
EmptyObject == [op |-> "none", data |-> "none", patch |-> "none", where |-> "none",
                delete |-> FALSE, from |-> "none", invalid |-> FALSE, unknown |-> FALSE]

\* The body (the parameter q of a GET) is missing, no JSON object, null, or an
\* object - by itself, or as the value of the one key `wrap', which is "from" or no
\* key of JSONQL.
Request == [method : Methods, path : STRING, text : {"missing", "garbage", "null", "object"},
            wrap : STRING \ {"op", "data", "patch", "where", "delete", "fields"}, body : Object]

ASSUME RequestsTyped == Requests \subseteq Request
ASSUME NoneIsNoAlias == "none" \notin DOMAIN TableMap

NoAnswer == 0   \* the status before there is one, and for good after a panic

Nil == [EmptyObject EXCEPT !.op = "nil"]
Refused(status) == [status |-> status, table |-> "none", raw |-> Nil]
Routed(table, raw) == [status |-> 200, table |-> table, raw |-> raw]
-----------------------------------------------------------------------------
(* The table from the URL.                                                   *)

\* ServeHTTP of http and of mongo.  Writing "op" into a nil map panics.
ServeHTTPInfers(method, raw) ==
    IF raw.op # "none" /\ raw # Nil THEN Routed("none", raw)
    ELSE IF raw = Nil /\ method \in {"PATCH", "DELETE"} THEN Refused(NoAnswer)
    ELSE Routed("none",
         CASE method = "POST" /\ raw.data # "none" -> [raw EXCEPT !.op = "create"]
           [] method = "PATCH" -> [raw EXCEPT !.op = "update"]
           [] method = "DELETE" -> [raw EXCEPT !.op = "delete"]
           [] OTHER -> raw)

\* (Mutant: the method wins over an "op" that is there.)
InferFromMethodOnly(method, raw) ==
    Routed("none",
        CASE method = "POST" -> [raw EXCEPT !.op = "create"]
          [] method \in {"PUT", "PATCH"} -> [raw EXCEPT !.op = "update"]
          [] method = "DELETE" -> [raw EXCEPT !.op = "delete"]
          [] OTHER -> raw)

\* InferMutationFromHTTP, for gin and echo: a POST is a create, data or not.
InferMutationFromHTTP(method, raw) ==
    LET body == IF raw = Nil THEN EmptyObject ELSE raw IN
    Routed("none",
        IF body.op # "none" THEN body
        ELSE CASE method = "POST" -> [body EXCEPT !.op = "create"]
               [] method \in {"PUT", "PATCH"} -> [body EXCEPT !.op = "update"]
               [] method = "DELETE" -> [body EXCEPT !.op = "delete"]
               [] OTHER -> body)

\* What the JSON decoder leaves; a wrapped body is an object with no known key, or
\* with a "from" that is no string.
Decoded(q) ==
    IF q.text = "null" THEN Nil
    ELSE IF q.text = "missing" THEN EmptyObject
    ELSE IF q.wrap = "from" THEN [EmptyObject EXCEPT !.from = "number"]
    ELSE IF q.wrap # "none" THEN [EmptyObject EXCEPT !.unknown = TRUE]
    ELSE q.body

PathRoute(front, q) ==
    LET raw == Decoded(q)
        inferred == IF front \in {"http", "mongo"} THEN ServeHTTPInfers(q.method, raw)
                    ELSE InferMutationFromHTTP(q.method, raw)
    IN
    IF q.method \notin {"POST", "GET", "PATCH", "DELETE"} THEN Refused(405)
    ELSE IF q.path \in {"", "favicon.ico"} \/ q.text = "garbage" THEN Refused(400)
    ELSE IF inferred.status = NoAnswer THEN inferred
    ELSE IF front = "mongo" /\ raw.invalid THEN Refused(400)
    ELSE [inferred EXCEPT !.table = q.path,
                          !.raw.from = IF inferred.raw.op \in {"none", "nil"} THEN @ ELSE q.path]
-----------------------------------------------------------------------------
(* The table from the body, or from a route parameter.                       *)

Keys(body) ==
    {k \in {"data", "patch", "where"} : body[k] # "none"}
      \cup (IF body.op # "none" THEN {"op"} ELSE {})
      \cup (IF body.delete THEN {"delete"} ELSE {})
      \cup (IF body.from # "none" THEN {"from"} ELSE {})
      \cup (IF body.invalid THEN {"fields"} ELSE {})
      \cup (IF body.unknown THEN {"unknown"} ELSE {})

\* The keys at the root of what was sent, those that hold an object, and the object.
RootKeys(q) ==
    IF q.text # "object" THEN {} ELSE IF q.wrap # "none" THEN {q.wrap} ELSE Keys(q.body)
HoldsObject(q, k) ==
    \/ q.wrap = k
    \/ q.wrap = "none" /\ k \in {"data", "patch", "where"} /\ q.body[k] \in {"object", "empty", "badkey"}
ObjectAt(q, k) ==
    IF q.wrap = k THEN q.body
    ELSE IF q.body[k] = "empty" THEN EmptyObject ELSE [EmptyObject EXCEPT !.unknown = TRUE]

\* ServeHTTP of Handler: the one key names the table and holds the query.
HandlerTable(q) ==
    IF \E k \in RootKeys(q) : RootKeys(q) = {k} /\ HoldsObject(q, k)
    THEN LET k == CHOOSE key \in RootKeys(q) : TRUE IN Routed(k, ObjectAt(q, k))
    ELSE Refused(400)

\* (Mutant: no fallback to the root key.)
FromOnly(q) ==
    IF q.text = "object" /\ q.wrap = "none" /\ q.body.from \notin {"none", "number"}
    THEN Routed(q.body.from, q.body) ELSE Refused(400)

\* gin's NewHandler looks for "from" first, which is the table's name or an error.
FromOrRootKey(q) ==
    IF "from" \in RootKeys(q)
    THEN IF q.wrap = "from" \/ q.body.from = "number" THEN Refused(400)
         ELSE Routed(q.body.from, q.body)
    ELSE IF \A k \in RootKeys(q) : RootKeys(q) # {k} THEN Refused(400)
    ELSE LET k == CHOOSE key \in RootKeys(q) : TRUE IN
         IF HoldsObject(q, k) THEN Routed(k, ObjectAt(q, k)) ELSE Refused(400)

\* gin's route parameter comes before any of that; without it the body is asked.
Resource(q) ==
    IF q.text \in {"missing", "garbage"} THEN Refused(400)
    ELSE IF q.path = "" THEN FromOrRootKey(q)
    ELSE Routed(q.path, Decoded(q))

\* echo's NewHandler binds the parameters of the route first, as strings, and the body
\* on top of them; a body that is null empties the map again, and a GET has none.
EchoTable(q, params) ==
    LET body == IF q.method = "GET" THEN {} ELSE RootKeys(q)
        keys == IF q.text = "null" THEN {} ELSE params \cup body
    IN  IF \E k \in keys : keys = {k} /\ k \in body /\ HoldsObject(q, k)
        THEN LET k == CHOOSE key \in keys : TRUE IN Routed(k, ObjectAt(q, k))
        ELSE Refused(400)

\* Where one of these front ends looks for the table.
Found(front, q) ==
    CASE front = "handler" -> HandlerTable(q)
      [] front = "ginNew" -> FromOrRootKey(q)
      [] front = "ginResource" -> Resource(q)
      [] front = "echoNew" -> EchoTable(q, {})
      [] front = "echoResource" -> EchoTable(q, {"resource"})

Mapped(table) == IF table \in DOMAIN TableMap THEN TableMap[table] ELSE table

\* (Mutant: gin's "from" is not looked up in the whitelist.)
RootRouteTrustsFrom(front, q) ==
    LET found == Found(front, q) IN
    IF found.status # 200 THEN found
    ELSE IF q.body.from = "none" /\ Whitelist # {} /\ found.table \notin Whitelist THEN Refused(403)
    ELSE [found EXCEPT !.table = Mapped(found.table)]

\* The whitelist is asked about the name the client gave, before the mapping.
RootRoute(front, q) ==
    LET found == Found(front, q) IN
    IF front = "handler" /\ q.method # "POST" THEN Refused(405)
    ELSE IF found.status # 200 THEN found
    ELSE IF Whitelist # {} /\ found.table \notin Whitelist THEN Refused(403)
    ELSE [found EXCEPT !.table = Mapped(found.table)]

Route(front, q) == IF front \in PathFronts THEN PathRoute(front, q) ELSE RootRoute(front, q)
-----------------------------------------------------------------------------
(* Handle, up to the statement of the operation.  The identifiers are checked *)
(* when it is made.                                                          *)

\* TranspileInsert, TranspileUpdate and TranspileDelete for SQL; a where that is no
\* object is none.
SqlCreates(data, table) == data = "object" /\ table \in Identifiers
SqlUpdates(patch, where, table) == patch = "object" /\ where # "badkey" /\ table \in Identifiers
SqlDeletes(where, table) == where # "badkey" /\ table \in Identifiers

\* An explicit operation, with what it needs.  A create without an id is given the one
\* after MAX(id), which any table is asked for, so that its data are not empty.
SqlMutation(raw, table) ==
    IF \/ raw.op = "create" /\ SqlCreates(IF raw.data = "empty" THEN "object" ELSE raw.data, table)
       \/ raw.op = "update" /\ SqlUpdates(raw.patch, raw.where, table)
       \/ raw.op = "delete" /\ SqlDeletes(raw.where, table)
    THEN raw.op ELSE "refused"

\* In MongoDB, update and delete are transpiled and have the collection checked, but
\* not the fields that are set; a create is handed to the driver as it is.
MongoMutation(raw, table) ==
    IF \/ raw.op = "create" /\ raw.data \in {"object", "empty", "badkey"}
       \/ /\ table \in Identifiers /\ raw.where # "badkey"
          /\ \/ raw.op = "update" /\ raw.patch \in {"object", "badkey"}
             \/ raw.op = "delete"
    THEN raw.op ELSE "refused"

\* The parser also refuses a "from" that is no string, and a where that is no object;
\* "op", data and patch it lets pass.  Both transpilers check the names.
Queries(raw, table) ==
    /\ ~raw.invalid /\ ~raw.unknown /\ ~raw.delete
    /\ raw.from # "number" /\ raw.where \notin {"other", "badkey"}
    /\ table \in Identifiers

\* handleQuery.  The SQL engine takes data, patch or delete for a mutation, and gives
\* no id; the MongoDB adapter goes straight to the parser.
QueryOrInline(front, raw, table) ==
    LET op == IF front = "mongo" THEN "query"
              ELSE IF raw.data # "none" THEN "create"
              ELSE IF raw.patch # "none" THEN "update"
              ELSE IF raw.delete THEN "delete" ELSE "query"
    IN  IF \/ op = "create" /\ SqlCreates(raw.data, table)
           \/ op = "update" /\ SqlUpdates(raw.patch, raw.where, table)
           \/ op = "delete" /\ SqlDeletes(raw.where, table)
           \/ op = "query" /\ Queries(raw, table)
        THEN op ELSE "refused"

Handle(front, raw, table) ==
    IF raw = Nil \/ raw.op = "other" THEN "refused"
    ELSE IF raw.op \notin Operations THEN QueryOrInline(front, raw, table)
    ELSE IF front = "mongo" THEN MongoMutation(raw, table) ELSE SqlMutation(raw, table)

\* What a front end makes of a request.
Outcome(front, q) ==
    LET route == Route(front, q)
        op == IF route.status = 200 THEN Handle(front, route.raw, route.table) ELSE "refused"
    IN  [status |-> IF route.status = 200 /\ op = "refused" THEN 400 ELSE route.status,
         op |-> op, table |-> IF op = "refused" THEN "none" ELSE route.table]
-----------------------------------------------------------------------------
VARIABLES
    front,      \* the front end that serves
    request,    \* the request
    stage,      \* "received", "routed" or "handled"
    routed,     \* the table and the map it hands to Handle
    outcome     \* what Handle starts to do

vars == <<front, request, stage, routed, outcome>>

Pending == [status |-> NoAnswer, op |-> "none", table |-> "none"]

Init ==
    /\ front \in PathFronts \cup RootFronts
    /\ request \in Requests
    /\ stage = "received"
    /\ routed = Refused(NoAnswer)
    /\ outcome = Pending

\* Up to the call of Handle: the checks, the body, the table, the operation.
Serve ==
    /\ stage = "received"
    /\ routed' = Route(front, request)
    /\ IF routed'.status = 200 THEN stage' = "routed" /\ UNCHANGED outcome
       ELSE /\ stage' = "handled"
            /\ outcome' = [status |-> routed'.status, op |-> "refused", table |-> "none"]
    /\ UNCHANGED <<front, request>>

Dispatch ==
    /\ stage = "routed"
    /\ stage' = "handled"
    /\ LET op == Handle(front, routed.raw, routed.table) IN
       outcome' = IF op = "refused" THEN [status |-> 400, op |-> op, table |-> "none"]
                  ELSE [status |-> 200, op |-> op, table |-> routed.table]
    /\ UNCHANGED <<front, request, routed>>

Next == Serve \/ Dispatch

Spec == Init /\ [][Next]_vars
-----------------------------------------------------------------------------
\* A request whose operation no front end has to guess: a string "op", or none
\* and PATCH, DELETE or a POST with data.
Explicit(q) ==
    /\ q.text = "object" /\ q.wrap = "none" /\ ~q.body.invalid
    /\ \/ q.body.op \in Operations
       \/ q.body.op = "none" /\ q.method \in {"PATCH", "DELETE"}
       \/ q.body.op = "none" /\ q.method = "POST" /\ q.body.data # "none"

\* A create or an update that MongoDB goes on with though SQL refuses a name in it: of
\* the table of a create, or of a column.
Asks(q, op, method) == q.body.op = op \/ (q.body.op = "none" /\ q.method = method)
UncheckedInMongo(q) ==
    /\ q.method # "PUT" /\ q.path \notin {"", "favicon.ico"}
    /\ \/ /\ Asks(q, "create", "POST")
          /\ \/ q.body.data = "badkey"
             \/ q.body.data \in {"object", "empty"} /\ q.path \notin Identifiers
       \/ /\ Asks(q, "update", "PATCH") /\ q.path \in Identifiers
          /\ q.body.patch = "badkey" /\ q.body.where # "badkey"

\* The same explicit request is the same operation on the same table at each of
\* the front ends that take the table from the URL, though one of two pieces of
\* code infers it and the one behind is an SQL or a MongoDB adapter - but for names
\* that only SQL checks, where MongoDB goes on with what the others refuse.  With an
\* "op" it is so for gin's resource too, on the table that a listed name stands for.
ExplicitRequestsAgree ==
    /\ stage = "handled" /\ front \in PathFronts /\ Explicit(request) =>
        IF front = "mongo" /\ UncheckedInMongo(request)
        THEN /\ outcome.status = 200 /\ outcome.table = request.path
             /\ outcome.op = IF Asks(request, "create", "POST") THEN "create" ELSE "update"
             /\ Outcome("http", request).status = 400
        ELSE outcome = Outcome("http", request)
    /\ stage = "handled" /\ front = "ginResource" /\ Explicit(request)
         /\ request.body.op \in Operations /\ request.method # "PUT"
         /\ request.path \in Whitelist \ {"", "favicon.ico"}
         /\ request.path \in Identifiers /\ Mapped(request.path) \in Identifiers =>
        outcome = [Outcome("http", request) EXCEPT !.table = Mapped(@)]

\* Three copies of the search for the one root key.  For any POST, echo's NewHandler
\* does what the http Handler does, with the parameter of a route only if that is the
\* key; so does gin's, but for bodies with a "from", which are never carried out by both.
RootRequestsAgree ==
    stage = "handled" /\ request.method = "POST" =>
        LET same == outcome = Outcome("handler", request) IN
        /\ front = "echoNew" => same
        /\ front = "echoResource" =>
              IF RootKeys(request) = {"resource"} THEN same
              ELSE outcome = [status |-> 400, op |-> "refused", table |-> "none"]
        /\ front = "ginNew" =>
              IF "from" \notin RootKeys(request) THEN same
              ELSE "refused" \in {outcome.op, Outcome("handler", request).op}

\* With a whitelist, no body - whatever key of it is taken for the table - gets
\* past it: the table of the query is the one that some listed name stands for.
OnlyListedTables ==
    Whitelist # {} /\ stage = "handled" /\ front \in RootFronts /\ outcome.status = 200 =>
        \E alias \in Whitelist : outcome.table = Mapped(alias)

\* README.md:113-115 and adapters/http/adapter.go:187: a POST without "op" and
\* without "data" is a query.
PostWithoutDataIsAQuery ==
    stage = "handled" /\ front \in PathFronts /\ request.method = "POST"
        /\ request.path = "users" /\ request.text = "object" /\ request.wrap = "none"
        /\ request.body = EmptyObject =>
            outcome = [status |-> 200, op |-> "query", table |-> "users"]
=============================================================================
