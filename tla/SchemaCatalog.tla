--------------------------- MODULE SchemaCatalog ---------------------------
(***************************************************************************)
(* Where an endpoint's schema comes from (schema/): relations inferred     *)
(* from the foreign keys of a SQLite database, in the order in which Go    *)
(* ranges over its maps, and a file merged over them.  A Go table is a     *)
(* pointer: when an Introspector hands out the tables it holds, as that of *)
(* manager_test.go does, a Load writes the file into them.                 *)
(***************************************************************************)
EXTENDS Naturals, SequencesExt

CONSTANTS
    Name,       \* names of tables, columns and relations
    Stem,       \* a column's name without its suffix _id, or the name itself
    Databases,  \* what there may be to introspect
    Files,      \* what the schema file may say, one of them no file at all
    NoKey       \* no primaryKey

\* A database has, for each table, columns, fks (in the order of PRAGMA
\* foreign_key_list) and rows, and the set of tables with an implicit foreign key,
\* which names no column of its target.  A schema gives each table fields, a key
\* and relations, a function from their names:
Relation == [type : {"hasOne", "hasMany"}, field : Name, table : Name]

ASSUME DatabasesTyped == \A d \in Databases : \A t \in DOMAIN d.columns :
    d.fks[t] \in Seq([from : Name, table : Name])

VARIABLES
    db,         \* the database
    holds,      \* history: whether the introspector handed out tables that it held
    phase,      \* where Load is
    left,       \* the tables that the inference has yet to range over
    table,      \* the table it ranges over
    todo,       \* the relations of that table it has yet to visit
    tables,     \* the introspected tables
    file,       \* the schema file
    schema,     \* what Load returned
    loads       \* history: the files merged so far, oldest first

catalogVars == <<db, holds, phase, left, table, todo, tables, file, schema, loads>>

Empty == [n \in {} |-> 0]
TableNames == DOMAIN db.columns

\* A Go map after every entry of over has been written into it.
Overlaid(over, map) ==
    [k \in DOMAIN over \cup DOMAIN map |-> IF k \in DOMAIN over THEN over[k] ELSE map[k]]

\* The relation of a foreign key is named after the column, else after the table.
RelName(fk) == IF Stem[fk.from] # fk.from THEN Stem[fk.from] ELSE fk.table
HasOne(fk) == [type |-> "hasOne", field |-> fk.from, table |-> fk.table]

\* Two foreign keys with one name: the later overwrites the earlier.
RelationsOf(fks) ==
    LET last(n) == CHOOSE i \in DOMAIN fks :
                     RelName(fks[i]) = n /\ \A j \in DOMAIN fks : RelName(fks[j]) = n => j <= i
    IN  [n \in {RelName(fks[i]) : i \in DOMAIN fks} |-> HasOne(fks[last(n)])]

CatalogInit ==
    /\ db \in Databases
    /\ holds = FALSE
    /\ file \in Files
    /\ phase = "tables"
    /\ left = {} /\ todo = {} /\ table = NoKey
    /\ tables = Empty /\ schema = Empty /\ loads = <<>>

\* Columns and foreign keys are read table by table: nobody sees the steps.  A
\* column that is not named is NULL, which does not scan into a string.
ReadTables ==
    /\ phase = "tables" /\ db.implicit = {}
    /\ tables' = [t \in TableNames |->
                    [fields |-> db.columns[t], key |-> NoKey,
                     relations |-> RelationsOf(db.fks[t])]]
    /\ left' = TableNames
    /\ phase' = "infer"
    /\ UNCHANGED <<db, holds, table, todo, file, schema, loads>>

\* An error of the database or of a scan is one of Load, which returns no schema.
ReadFails ==
    /\ phase = "tables"
    /\ phase' = "failed"
    /\ schema' = Empty
    /\ UNCHANGED <<db, holds, left, table, todo, tables, file, loads>>

\* The outer range takes the next table; the inner one will visit the relations
\* it has then (those added on the way are hasMany, and skipped).
RangeTable ==
    /\ phase = "infer" /\ todo = {}
    /\ \E t \in left :
         /\ table' = t
         /\ todo' = DOMAIN tables[t].relations
         /\ left' = left \ {t}
    /\ UNCHANGED <<db, holds, phase, tables, file, schema, loads>>

\* A hasOne gives its target a hasMany, named after the table it is in, over
\* whatever had that name.
\* (Mutant: on the key of the source.)
HasManyByKey(t, field) == [type |-> "hasMany", field |-> "id", table |-> t]
HasMany(t, field) == [type |-> "hasMany", field |-> field, table |-> t]
RangeRelation ==
    /\ phase = "infer"
    /\ \E n \in todo :
         LET rel == tables[table].relations[n] IN
         /\ todo' = todo \ {n}
         /\ IF rel.type = "hasOne" /\ rel.table \in TableNames
            THEN tables' = [tables EXCEPT ![rel.table].relations =
                               Overlaid([t \in {table} |-> HasMany(t, rel.field)], @)]
            ELSE UNCHANGED tables
    /\ UNCHANGED <<db, holds, phase, left, table, file, schema, loads>>

\* (Mutant: the base wins.)
MergedBaseWins(base, over) ==
    [t \in DOMAIN base \cup DOMAIN over |->
        IF t \notin DOMAIN over THEN base[t]
        ELSE IF t \notin DOMAIN base THEN over[t]
        ELSE [fields |-> base[t].fields \cup over[t].fields, key |-> base[t].key,
              relations |-> Overlaid(base[t].relations, over[t].relations)]]

\* mergeSchemas: fields and relations are added to a table that is there, its
\* primaryKey is not; a new table is taken as it is.
Merged(base, over) ==
    [t \in DOMAIN base \cup DOMAIN over |->
        IF t \notin DOMAIN over THEN base[t]
        ELSE IF t \notin DOMAIN base THEN over[t]
        ELSE [fields |-> base[t].fields \cup over[t].fields, key |-> base[t].key,
              relations |-> Overlaid(over[t].relations, base[t].relations)]]

\* Load: the file is merged into the tables that the introspector returned.
Load ==
    /\ phase = "infer" /\ left = {} /\ todo = {}
    /\ schema' = Merged(tables, file)
    /\ loads' = Append(loads, file)
    /\ phase' = "loaded"
    /\ UNCHANGED <<db, holds, left, table, todo, tables, file>>

\* The file is edited and the schema loaded again: from the database, or from the
\* tables that the introspector holds, which are those that the last Load returned.
\* (Bound: two loads.)
Reload ==
    /\ phase \in {"loaded", "failed"} /\ Len(loads) < 2
    /\ file' \in Files
    /\ \/ phase' = "tables" /\ tables' = Empty /\ UNCHANGED holds
       \/ /\ phase = "loaded" /\ phase' = "infer"
          /\ tables' = Restrict(schema, DOMAIN tables) /\ holds' = TRUE
    /\ UNCHANGED <<db, left, table, todo, schema, loads>>

CatalogNext == ReadTables \/ ReadFails \/ RangeTable \/ RangeRelation \/ Load \/ Reload

CatalogSpec == CatalogInit /\ [][CatalogNext]_catalogVars
-----------------------------------------------------------------------------
\* A schema comes from the database and the file, whatever the order of the maps:
\* each relation is one that the file gives or follows a foreign key, one way or
\* the other.  If the introspector holds its tables, what an earlier version of
\* the file said stays in them (manager.go:85, 94).
SaidBy(f, t, n, rel) == t \in DOMAIN f /\ n \in DOMAIN f[t].relations /\ f[t].relations[n] = rel
Follows(t, rel) ==
    \/ /\ rel.type = "hasOne" /\ t \in TableNames
       /\ \E i \in DOMAIN db.fks[t] : rel = HasOne(db.fks[t][i])
    \/ /\ rel.type = "hasMany" /\ rel.table \in TableNames
       /\ [from |-> rel.field, table |-> t] \in ToSet(db.fks[rel.table])
RelationsHaveASource ==
    phase = "loaded" =>
        \A t \in DOMAIN schema : \A n \in DOMAIN schema[t].relations :
            LET rel == schema[t].relations[n] IN
            \/ SaidBy(file, t, n, rel)
            \/ Follows(t, rel) /\ ~(t \in DOMAIN file /\ n \in DOMAIN file[t].relations)
            \/ holds /\ \E i \in DOMAIN loads : SaidBy(loads[i], t, n, rel)

\* Every foreign key can be included from both its ends, in every order of the
\* maps, as long as names are clear: no other foreign key of the table has the
\* name of this one or its target, no table that refers to this one is called like
\* the relation, and no version of the file says otherwise.
Renamed(t, n) == \E i \in DOMAIN loads : t \in DOMAIN loads[i] /\ n \in DOMAIN loads[i][t].relations
ClearName(t, fk) ==
    /\ \A g \in ToSet(db.fks[t]) : g # fk => RelName(g) # RelName(fk)
    /\ ~ \E u \in TableNames : u = RelName(fk) /\ \E g \in ToSet(db.fks[u]) : g.table = t
ForeignKeysAreRelations ==
    phase = "loaded" =>
        \A t \in TableNames : \A fk \in ToSet(db.fks[t]) :
            LET n == RelName(fk) IN
            ClearName(t, fk) =>
                /\ ~Renamed(t, n) =>
                     n \in DOMAIN schema[t].relations /\ schema[t].relations[n] = HasOne(fk)
                /\ /\ fk.table \in TableNames /\ ~Renamed(fk.table, t)
                   /\ \A g \in ToSet(db.fks[t]) : g # fk => g.table # fk.table
                   => SaidBy(schema, fk.table, t, [type |-> "hasMany", field |-> fk.from, table |-> t])
=============================================================================
