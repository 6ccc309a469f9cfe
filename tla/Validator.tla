------------------------------ MODULE Validator ------------------------------
(***************************************************************************)
(* What a query may ask for, besides its page: the parser's options        *)
(* (doValidate of parser.go) and the two checks against a schema           *)
(* (schema.go) - Validate, which stops at its first error, and             *)
(* ValidateAll, which reports every one.                                   *)
(*                                                                         *)
(* A request has `fields', `where' (its keys), `sort', `groupBy' and        *)
(* `aggregate' (pairs of a function and a name) as sets, and `include': its *)
(* relations as paths, those of them that have "fields", and those that     *)
(* have an "include" that is an object, were it empty.                     *)
(*                                                                         *)
(* A schema has, for the table of the query, its fields with what they     *)
(* deny and grant, and its relations with whether they may be included.    *)
(***************************************************************************)
EXTENDS Integers, Sequences, FiniteSetsExt

CONSTANTS
    Absent,         \* the key is not in the map
    Identifiers     \* names that are identifiers

Functions5 == {"count", "sum", "avg", "min", "max"}
Logical == {"or", "and", "not"}
UpperLogical == {"OR", "AND", "NOT"}

NoInclude == [paths |-> {}, fields |-> {}, opened |-> {}]
Asked(q) == IF q.fields = Absent THEN {} ELSE q.fields
Roots(q) == {p[1] : p \in q.include.paths}
Longest(paths) == Max({Len(p) : p \in paths} \cup {0})
-----------------------------------------------------------------------------
(* The parser.                                                             *)

\* (Mutant: no recursion.)
IncludeDepthOfRoots(include) == IF include.paths = {} THEN 0 ELSE 1

\* calculateIncludeDepth: an object that is empty counts as a level.
IncludeDepth(include) ==
    Max({Longest(include.paths)} \cup {Len(p) + 1 : p \in include.opened})

\* The options are about the fields and the includes of the root.
OptionsRefuse(q, options) ==
    \/ options.maxNesting > 0 /\ IncludeDepth(q.include) > options.maxNesting
    \/ options.allowedFields # {} /\ ~(Asked(q) \subseteq options.allowedFields)
    \/ options.allowedIncludes # {} /\ ~(Roots(q) \subseteq options.allowedIncludes)

Malformed(q) ==
    \/ ~(Asked(q) \subseteq Identifiers \cup {"*"})
    \/ ~(q.sort \subseteq Identifiers)
    \/ \E a \in q.aggregate : a[1] \notin Functions5
-----------------------------------------------------------------------------
(* The validator.                                                          *)

\* calculateDepth looks below an include only if that include has "fields".
Depth(include) ==
    Longest({p \in include.paths : \A k \in 1 .. Len(p) - 1 : SubSeq(p, 1, k) \in include.fields})

\* The settings of the whole schema.
Aggregates(q) == q.aggregate # {} \/ q.groupBy # {}
AggregatesDisabled(schema, q) == ~schema.settings.allowAggregate /\ Aggregates(q)
TooDeep(schema, q) ==
    schema.settings.maxDepth > 0 /\ Depth(q.include) > schema.settings.maxDepth

Known(schema, f) == f \in DOMAIN schema.fields
May(schema, f, what) == Known(schema, f) /\ what \notin schema.fields[f].denied

\* What a field says of the function decides, else what it says of aggregates.
MayAggregate(field, function) ==
    IF function \in field.granted \cup field.denied THEN function \in field.granted
    ELSE "aggregate" \notin field.denied
CountsRows(a) == a = <<"count", "*">>

\* Validate.  A table of which the schema gives no fields has no checks of names.
NamesAllowed(schema, q) ==
    /\ \A f \in Asked(q) : May(schema, f, "select")
    /\ \A f \in q.where \ (Logical \cup UpperLogical) : May(schema, f, "filter")
    /\ \A f \in q.sort : May(schema, f, "sort")
    /\ \A f \in q.groupBy : May(schema, f, "group")
    /\ \A a \in q.aggregate :
          CountsRows(a) \/ (Known(schema, a[2]) /\ MayAggregate(schema.fields[a[2]], a[1]))
Validates(schema, q) ==
    /\ ~AggregatesDisabled(schema, q)
    /\ ~TooDeep(schema, q)
    /\ schema.hasTable
    /\ DOMAIN schema.fields # {} => NamesAllowed(schema, q)
    /\ \A n \in Roots(q) : n \in DOMAIN schema.relations /\ schema.relations[n] # "denied"

\* ValidateAll: every error, with the name it is about.
Errors(code, names) == {[code |-> code, name |-> n] : n \in names}
SettingsErrors(schema, q) ==
    Errors("AGGREGATION_DISABLED", IF AggregatesDisabled(schema, q) THEN {"*"} ELSE {})
    \cup Errors("MAX_DEPTH_EXCEEDED", IF TooDeep(schema, q) THEN {"*"} ELSE {})
NameErrors(schema, q) ==
    Errors("FIELD_NOT_ALLOWED", {f \in Asked(q) : ~May(schema, f, "select")})
    \cup Errors("FIELD_NOT_FILTERABLE", {f \in q.where \ Logical : ~May(schema, f, "filter")})
    \cup Errors("FIELD_NOT_SORTABLE", {f \in q.sort : ~May(schema, f, "sort")})
    \cup Errors("FIELD_NOT_GROUPABLE", {f \in q.groupBy : ~May(schema, f, "group")})

AggregateErrors(schema, q) ==
    LET named == {a \in q.aggregate : ~CountsRows(a)}
        found == {a \in named : Known(schema, a[2])}
    IN  Errors("FIELD_NOT_FOUND", {a[2] : a \in named \ found})
        \cup Errors("AGGREGATION_NOT_ALLOWED",
                    {a[2] : a \in {b \in found : ~MayAggregate(schema.fields[b[2]], b[1])}})

\* (Mutant: a relation is there or not, whatever it allows.)
RelationErrorsIfMissing(schema, q) == Errors("RELATION_NOT_FOUND", Roots(q) \ DOMAIN schema.relations)

RelationErrors(schema, q) ==
    LET found == Roots(q) \cap DOMAIN schema.relations IN
    Errors("RELATION_NOT_FOUND", Roots(q) \ found)
    \cup Errors("RELATION_NOT_ALLOWED", {n \in found : schema.relations[n] = "denied"})
ValidateAll(schema, q) ==
    SettingsErrors(schema, q) \cup
    IF ~schema.hasTable THEN Errors("TABLE_NOT_FOUND", {"*"})
    ELSE NameErrors(schema, q) \cup AggregateErrors(schema, q) \cup RelationErrors(schema, q)
=============================================================================
