---------------------------- MODULE MCSqlAdapter ----------------------------
(***************************************************************************)
(* Small instances of the SQL adapter for TLC.                             *)
(***************************************************************************)
EXTENDS SqlAdapter, TLC

CONSTANTS r1, r2, r3, v1, v2, o1, o2

\* The body of a request, with the fields its kind does not use at rest.
Body(route, kind, cols, id, val, where) ==
    [route |-> route, kind |-> kind, cols |-> cols, id |-> id, val |-> val, where |-> where]

Create == Body("op", "create", {"val"}, NoId, v1, {})
CreateOfNothing == Body("op", "create", {}, NoId, v1, {})
CreateAs(id) == Body("op", "create", {"id", "val"}, id, v1, {})
Read(where) == Body("query", "read", {}, NoId, v1, where)
Update(where) == Body("op", "update", {"val"}, NoId, v2, where)
\* A patch that names the id.
Renumber(id, where) == Body("op", "update", {"id"}, id, v1, where)
Delete(where) == Body("op", "delete", {}, NoId, v1, where)
Bad(route) == Body(route, "bad", {}, NoId, v1, {})
\* A body with data, patch or delete and no "op".
Inline(kind, cols, id, where) == Body("query", kind, cols, id, v2, where)

\* Every operation, on both routes.
AllInputs ==
    {Create, CreateOfNothing, CreateAs(NoId), CreateAs(1), Update({1}), Renumber(2, {1}), Delete(AllRows),
     Read(AllRows), Bad("op"), Bad("query"),
     Inline("create", {"val"}, NoId, {}), Inline("update", {"id", "val"}, 3, AllRows),
     Inline("delete", {}, NoId, {1})}

\* Creates with and without an id, and what may run beside them.
SharedInputs ==
    {Create, CreateAs(2), Update(AllRows), Renumber(2, AllRows), Renumber(3, {1}),
     Delete(AllRows), Delete({1}), Read(AllRows)}

OneRow == {NewRow(1, v1, o1)}
TwoRows == {NewRow(1, v1, o1), NewRow(NoId, v1, o2)}

Clients == {r1, r2, r3}
TwoClients == {r1, r2}
Symmetry == Permutations(Req)
=============================================================================
