---------------------------- MODULE MCReadPath ----------------------------
(***************************************************************************)
(* Six small databases, and queries of up to three tables.                 *)
(***************************************************************************)
EXTENDS ReadPath

CONSTANTS x, y

Names == {"id", "name", "users", "posts", "comments", "user", "post", "user_id", "post_id",
          "from_id", "to_id", "from", "to", "a", "b", "a_id", "b_id", "boss", "boss_id", "tags"}
StemOf == [n \in Names |->
    CASE n = "user_id" -> "user" [] n = "post_id" -> "post" [] n = "from_id" -> "from"
      [] n = "to_id" -> "to" [] n = "a_id" -> "a" [] n = "b_id" -> "b"
      [] n = "boss_id" -> "boss" [] OTHER -> n]
FK(from, t) == [from |-> from, table |-> t]

\* The text "01", which a driver may hand over as bytes, reads as 1.
Text01 == 101
Read(v) == IF v = Text01 THEN 1 ELSE v

\* Users write posts, and comments on them.
Blog ==
    [columns |-> ("users" :> {"id", "name"}) @@ ("posts" :> {"id", "user_id"})
                 @@ ("comments" :> {"id", "post_id", "user_id"}),
     fks |-> ("users" :> <<>>) @@ ("posts" :> <<FK("user_id", "users")>>)
             @@ ("comments" :> <<FK("post_id", "posts"), FK("user_id", "users")>>),
     implicit |-> {},
     rows |-> ("users" :> {[id |-> 1, name |-> x], [id |-> 2, name |-> y]})
              @@ ("posts" :> {[id |-> 1, user_id |-> 1], [id |-> 2, user_id |-> 1],
                              [id |-> 3, user_id |-> Null]})
              @@ ("comments" :> {[id |-> 1, post_id |-> 1, user_id |-> 1],
                                 [id |-> 2, post_id |-> 1, user_id |-> 1],
                                 [id |-> 3, post_id |-> 2, user_id |-> 2]})]
\* Keys that are texts.
Texts ==
    [columns |-> "users" :> {"id", "name"}, fks |-> "users" :> <<>>,
     implicit |-> {},
     rows |-> "users" :> {[id |-> 1, name |-> x], [id |-> Text01, name |-> y]}]
\* Two foreign keys to one table.
Messages ==
    [columns |-> ("users" :> {"id", "name"}) @@ ("posts" :> {"id", "from_id", "to_id"}),
     fks |-> ("users" :> <<>>) @@ ("posts" :> <<FK("to_id", "users"), FK("from_id", "users")>>),
     implicit |-> {},
     rows |-> ("users" :> {[id |-> 1, name |-> x], [id |-> 2, name |-> y]})
              @@ ("posts" :> {[id |-> 1, from_id |-> 1, to_id |-> 2]})]
\* Tables that refer to each other, and one to itself.
Cycle ==
    [columns |-> ("a" :> {"id", "b_id"}) @@ ("b" :> {"id", "a_id", "boss_id"}),
     fks |-> ("a" :> <<FK("b_id", "b")>>) @@ ("b" :> <<FK("a_id", "a"), FK("boss_id", "b")>>),
     implicit |-> {},
     rows |-> ("a" :> {[id |-> 1, b_id |-> 2]})
              @@ ("b" :> {[id |-> 1, a_id |-> 1, boss_id |-> 2], [id |-> 2, a_id |-> 1, boss_id |-> Null]})]
\* A column with the name of the table it refers to.
Plainly ==
    [columns |-> ("users" :> {"id", "name"}) @@ ("posts" :> {"id", "users"}),
     fks |-> ("users" :> <<>>) @@ ("posts" :> <<FK("users", "users")>>),
     implicit |-> {},
     rows |-> ("users" :> {[id |-> 2, name |-> y]}) @@ ("posts" :> {[id |-> 1, users |-> 2]})]
\* REFERENCES posts, without a column.
Short == [Blog EXCEPT !.implicit = {"comments"}]
Small == {Blog, Texts, Messages, Cycle, Plainly, Short}

\* Schema files: none; a field that is no column, another key and another
\* relation for users; a table of the file's own.
NoFile == Empty
Rich == ("users" :> [fields |-> {"post"}, key |-> "name",
                     relations |-> "posts" :> [type |-> "hasMany", field |-> "to_id", table |-> "posts"]])
        @@ ("tags" :> [fields |-> {"id"}, key |-> "id", relations |-> Empty])
SomeFiles == {NoFile, Rich}
-----------------------------------------------------------------------------
Inc(f, c, w, l, i) == [fields |-> f, count |-> c, where |-> w, skip |-> Absent, limit |-> l, include |-> i]
Root(t, f, l, i) == [table |-> t, fields |-> f, limit |-> l, include |-> i]

FieldChoices(s, t) == {Default, {"id"}, s[t].fields \ {"id"}}
Leaves(s, t) ==
    {Inc(f, c, Everything, Absent, Empty) : f \in FieldChoices(s, t), c \in BOOLEAN}
    \cup {Inc({}, TRUE, Everything, Absent, Empty)}
Filtered ==
    {[Inc({"id"}, c, w, l, Empty) EXCEPT !.skip = s] :
        c \in BOOLEAN, w \in {Everything, {2}}, l \in {Absent, 0, 1}, s \in {Absent, 1}}
Target(s, t, n) == s[t].relations[n].table
Includes(s, t) == {n \in DOMAIN s[t].relations : Target(s, t, n) \in DOMAIN s}

\* One include; two side by side; one in another; filters and limits; a relation
\* that nobody knows, here and below.
OneInclude(s, t) == UNION {{n :> i : i \in Leaves(s, Target(s, t, n)) \cup Filtered} : n \in Includes(s, t)}
Siblings(s, t) ==
    UNION {{(m :> i) @@ (n :> j) : i \in Leaves(s, Target(s, t, m)), j \in Leaves(s, Target(s, t, n))} :
             <<m, n>> \in {p \in Includes(s, t) \X Includes(s, t) : p[1] # p[2]}}
Below(s, t) ==
    UNION {{n :> Inc(f, FALSE, Everything, Absent, i) :
              f \in FieldChoices(s, Target(s, t, n)) \cup {{}}, i \in OneInclude(s, Target(s, t, n))} :
             n \in Includes(s, t)}
Nobodys == "nope" :> Inc(Default, FALSE, Everything, Absent, Empty)
Strange(s, t) == {Nobodys} \cup {n :> Inc({"id"}, FALSE, Everything, Absent, Nobodys) : n \in Includes(s, t)}
QueriesOn(s) ==
    UNION {
        {Root(t, f, l, i) : f \in FieldChoices(s, t), l \in {0, 1, 2}, i \in OneInclude(s, t) \cup {Empty}}
        \cup {Root(t, f, 0, i) : f \in FieldChoices(s, t), i \in Siblings(s, t) \cup Below(s, t)}
        \cup {Root(t, Default, 0, i) : i \in Strange(s, t)}
        : t \in DOMAIN s}
QueriesOf(s, d) == QueriesOn(Restrict(s, DOMAIN s \cap DOMAIN d.columns))
=============================================================================
