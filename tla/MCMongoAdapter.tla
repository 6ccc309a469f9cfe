--------------------------- MODULE MCMongoAdapter ---------------------------
(***************************************************************************)
(* Small instances of the MongoDB adapters for TLC.                        *)
(***************************************************************************)
EXTENDS MongoAdapter

CONSTANTS r1, r2, r3, o1, o2, v1, v2

AnyId == {1, 2, 3, 4, NoId, TextId}
All == [ids |-> AnyId, vals |-> Vals]
ById(k) == [ids |-> {k}, vals |-> Vals]
ByVal(v) == [ids |-> AnyId, vals |-> {v}]
Body(kind, cols, id, val, filter) ==
    [kind |-> kind, cols |-> cols, id |-> id, val |-> val, filter |-> filter]
Create == Body("create", {"val"}, NoId, v1, All)
CreateAs(id) == Body("create", {"id", "val"}, id, v1, All)
Update(cols, id, val, filter) == Body("update", cols, id, val, filter)
Delete(filter) == Body("delete", {}, NoId, v1, filter)

\* Creates with and without an id, one of them a string; mutations whose filter is
\* on a field that updates change, the id among them; reads; and bodies that are
\* refused, an empty patch among them.
AllInputs ==
    {Create, CreateAs(2), CreateAs(TextId),
     Update({"val"}, NoId, v2, ByVal(v1)), Update({"id", "val"}, 3, v1, ById(1)),
     Update({"id"}, 1, v1, ByVal(v2)), Update({}, NoId, v1, All),
     Delete(ByVal(v1)), Delete(ById(TextId)), Delete(All),
     Body("read", {}, NoId, v1, ByVal(v2)), Body("bad", {}, NoId, v1, All)}

Document(o, k, v) == [key |-> o, id |-> k, val |-> v, by |-> o, idBy |-> o]
TwoDocs == {Document(o1, 1, v1), Document(o2, 2, v2)}

Clients == {r1, r2, r3}
TwoClients == {r1, r2}
BothOrigins == {o1, o2}
=============================================================================
