------------------------------ MODULE MCPaging ------------------------------
(***************************************************************************)
(* Every page a body can ask for, with numbers below, at and above every   *)
(* limit that counts; numbers in every spelling, at and above what a       *)
(* float64 and an int hold; and plain pages of queries that ask for all    *)
(* kinds of things, against several schemas.                               *)
(***************************************************************************)
EXTENDS Paging

Numbers == {-1, 0, 1, 2, 5, Absent, Null}
Pages == [limit : Numbers, skip : Numbers, offset : Numbers, json : BOOLEAN, floats : {{}}]
FirstPage == [limit |-> 1, skip |-> Absent, offset |-> Absent, json |-> TRUE, floats |-> {}]

Plain == [unknown |-> FALSE, fields |-> Absent, where |-> {}, sort |-> {}, groupBy |-> {},
          aggregate |-> {}, include |-> NoInclude]
NoOptions == [dialect |-> "postgres", maxLimit |-> 0, maxNesting |-> 0,
              allowedFields |-> {}, allowedIncludes |-> {}]
Dialects == {"postgres", "sqlite", "mysql", "mssql", "mongodb"}
AnyPage ==
    [pages |-> Pages,
     asks |-> {Plain, [Plain EXCEPT !.sort = {"a"}]},
     options |-> {[NoOptions EXCEPT !.dialect = d, !.maxLimit = m] : d \in Dialects, m \in {0, 2}},
     schemas |-> {NoSchema}]
-----------------------------------------------------------------------------
(* Schemas: two columns, of which b allows little; the same with settings;  *)
(* no fields; no table.  And what is asked of them.                         *)
Lax == [hasTable |-> TRUE, settings |-> [allowAggregate |-> TRUE, maxDepth |-> 0],
        fields |-> [a |-> [denied |-> {"aggregate"}, granted |-> {"sum"}],
                    b |-> [denied |-> {"select", "filter", "sort", "group", "avg"}, granted |-> {}]],
        relations |-> [r |-> "unset", s |-> "denied"]]
Strict == [Lax EXCEPT !.settings = [allowAggregate |-> FALSE, maxDepth |-> 1]]
Deep == [Lax EXCEPT !.settings.maxDepth = 2]
NoFields == [Lax EXCEPT !.fields = << >>]
NoTable == [Lax EXCEPT !.hasTable = FALSE]
Schemas == {NoSchema, Lax, Strict, Deep, NoFields, NoTable}

Named ==
    [unknown : BOOLEAN, fields : {Absent, {}, {"a"}, {"a", "b"}, {"*"}, {"b c"}},
     where : {{}, {"a"}, {"b", "or"}, {"not", "OR"}, {"c"}},
     sort : {{}, {"a"}, {"b"}, {"b c"}}, groupBy : {{}}, aggregate : {{}}, include : {NoInclude}]
Grouped ==
    {[Plain EXCEPT !.groupBy = g, !.aggregate = a] :
        g \in {{}, {"a"}, {"b"}, {"c"}},
        a \in {{}} \cup {{p} : p \in (Functions5 \cup {"median"}) \X {"a", "b", "c", "*"}}}

\* Includes: up to three deep, each with or without fields, with and without an
\* include that is empty at the end.
Chain == <<"r", "s", "t">>
Chains ==
    UNION {LET paths == {SubSeq(Chain, 1, k) : k \in 1 .. n}
               inner == {SubSeq(Chain, 1, k) : k \in 1 .. n - 1}
           IN  {[paths |-> paths, fields |-> F, opened |-> inner \cup e] :
                  F \in SUBSET paths, e \in {{}, {SubSeq(Chain, 1, n)}}} : n \in 1 .. 3}
Forks == {[c EXCEPT !.paths = @ \cup {<<n>>}] : c \in Chains, n \in {"s", "x"}}
Included == {[Plain EXCEPT !.include = i] : i \in {NoInclude} \cup Chains \cup Forks}

Limits ==
    {NoOptions, [NoOptions EXCEPT !.allowedFields = {"a"}], [NoOptions EXCEPT !.allowedIncludes = {"r"}]}
    \cup {[NoOptions EXCEPT !.maxNesting = n, !.maxLimit = 2] : n \in {1, 2}}
AnyQuery ==
    [pages |-> {FirstPage}, asks |-> Named \cup Grouped \cup Included, options |-> Limits,
     schemas |-> Schemas]
\* Even and odd numbers around Exact and MaxInt.
Large == {2, 8, 9, 11, 30, 31, 32, Absent}
AnySpelling ==
    [pages |-> [limit : Large, skip : {Absent, 9}, offset : Large, json : BOOLEAN,
                floats : SUBSET {"limit", "offset"}],
     asks |-> {Plain},
     options |-> {[NoOptions EXCEPT !.maxLimit = m] : m \in {0, 11}},
     schemas |-> {NoSchema, Lax}]
AllFamilies == {AnyPage, AnyQuery, AnySpelling}
=============================================================================
