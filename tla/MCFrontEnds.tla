---------------------------- MODULE MCFrontEnds ----------------------------
(***************************************************************************)
(* Every method, with bodies that have and lack what each front end looks   *)
(* for, on a listed table, on one that is not, and on none.                 *)
(***************************************************************************)
EXTENDS FrontEnds, TLC

Bodies ==
    [op : {"none", "other", "number"} \cup Operations, data : Part, patch : {"none", "object"},
     where : {"none", "badkey"}, delete : {FALSE}, from : {"none", "users"}, invalid : BOOLEAN,
     unknown : {FALSE}]
      \cup [op : {"none", "other", "number"} \cup Operations, data : {"none"}, patch : Part,
            where : Part, delete : BOOLEAN, from : {"none", "users"}, invalid : {FALSE},
            unknown : {FALSE}]
FewBodies ==
    {EmptyObject, [EmptyObject EXCEPT !.from = "number"], [EmptyObject EXCEPT !.from = "orders"],
     [EmptyObject EXCEPT !.unknown = TRUE],
     [EmptyObject EXCEPT !.op = "create", !.data = "object"], [EmptyObject EXCEPT !.op = "delete"]}

SomeRequests ==
    [method : Methods, path : {"users", "no-table"}, text : {"object"}, wrap : {"none"}, body : Bodies]
      \cup [method : Methods, path : {"users", "orders", ""}, text : {"missing", "garbage", "null", "object"},
            wrap : {"none", "users", "orders", "app_users", "from", "resource"}, body : FewBodies]

AppTables == "users" :> "app_users"
Names == {"users", "orders", "app_users", "from", "resource"}
=============================================================================
