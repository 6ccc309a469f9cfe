------------------------ MODULE SchemaCatalogProofs ------------------------
(***************************************************************************)
(* Theorems about where a schema comes from, for any databases and any     *)
(* schema files, and every order in which Go ranges over its maps.         *)
(***************************************************************************)
EXTENDS SchemaCatalog, SequenceTheorems, WellFoundedInduction, TLAPS

(***************************************************************************)
(* The relations of the foreign keys of one table.                         *)
(***************************************************************************)

\* A set of naturals that is not empty has a least element.
LEMMA LeastExists ==
    ASSUME NEW S \in SUBSET Nat, S # {}
    PROVE  \E m \in S : \A k \in S : m <= k
<1> DEFINE R == OpToRel(<, Nat)
<1>1. IsWellFoundedOn(R, Nat)
  BY NatLessThanWellFounded, Zenon
<1>2. \A k, m \in Nat : k < m => <<k, m>> \in R
  BY Zenon DEF OpToRel
<1> HIDE DEF R
<1>3. PICK m \in S : \A k \in S : <<k, m>> \notin R
  BY <1>1, WFMin
<1>4. \A k \in S : ~(k < m)
  BY <1>2, <1>3
<1>5. QED
  BY <1>4

\* Of some positions of a sequence one is the last.
LEMMA LastExists ==
    ASSUME NEW L \in Nat, NEW I \in SUBSET (1 .. L), I # {}
    PROVE  \E i \in I : \A j \in I : j <= i
<1> DEFINE S == {L - i : i \in I}
<1>1. S \in SUBSET Nat /\ S # {}
  <2>1. \A i \in I : i \in 1 .. L
    OBVIOUS
  <2>2. \A i \in I : L - i \in Nat
    BY <2>1
  <2>3. QED
    BY <2>2
<1>2. PICK m \in S : \A k \in S : m <= k
  <2> HIDE DEF S
  <2>1. QED
    BY <1>1, LeastExists
<1>3. PICK i \in I : m = L - i
  BY <1>2
<1>4. \A j \in I : L - i <= L - j
  BY <1>2, <1>3
<1>5. QED
  BY <1>3, <1>4

\* A foreign key, as the introspector reads it.
ForeignKey == [from : Name, table : Name]

\* The relations of a table are named after its foreign keys, and each is that of a
\* foreign key of its name.
LEMMA RelationsOfKeys ==
    ASSUME NEW fks \in Seq(ForeignKey)
    PROVE  /\ DOMAIN RelationsOf(fks) = {RelName(fks[i]) : i \in DOMAIN fks}
           /\ \A n \in DOMAIN RelationsOf(fks) : \E i \in DOMAIN fks :
                 RelName(fks[i]) = n /\ RelationsOf(fks)[n] = HasOne(fks[i])
<1> DEFINE names == {RelName(fks[i]) : i \in DOMAIN fks}
           IsLast(i, n) == /\ RelName(fks[i]) = n
                           /\ \A j \in DOMAIN fks : RelName(fks[j]) = n => j <= i
           last(n) == CHOOSE i \in DOMAIN fks : IsLast(i, n)
<1>1. RelationsOf(fks) = [n \in names |-> HasOne(fks[last(n)])]
  BY DEF RelationsOf
<1>2. ASSUME NEW n \in names
      PROVE  last(n) \in DOMAIN fks /\ RelName(fks[last(n)]) = n
  <2> DEFINE I == {i \in DOMAIN fks : RelName(fks[i]) = n}
  <2>1. Len(fks) \in Nat /\ DOMAIN fks = 1 .. Len(fks)
    BY LenProperties
  <2>2. I # {} /\ I \in SUBSET (1 .. Len(fks))
    BY <1>2, <2>1
  <2>3. PICK i \in I : \A j \in I : j <= i
    <3> HIDE DEF I
    <3>1. QED
      BY <2>1, <2>2, LastExists
  <2>4. i \in DOMAIN fks /\ IsLast(i, n)
    BY <2>3
  <2> HIDE DEF IsLast
  <2>5. last(n) \in DOMAIN fks /\ IsLast(last(n), n)
    BY <2>4
  <2>6. QED
    BY <2>5 DEF IsLast
<1> HIDE DEF last
<1>3. QED
  BY <1>1, <1>2
-----------------------------------------------------------------------------
(***************************************************************************)
(* The invariant.                                                          *)
(***************************************************************************)

\* While there are tables or relations to visit, the tables are those that were just
\* read: none has been merged with a file.
Fresh == left # {} \/ todo # {}

\* The types, and what the phases of Load say of the tables.
TypeInv ==
    /\ db \in Databases
    /\ file \in Files /\ loads \in Seq(Files)
    /\ phase \in {"tables", "failed", "infer", "loaded"}
    /\ left \subseteq TableNames
    /\ phase \notin {"tables", "failed"} => DOMAIN tables = TableNames
    /\ phase # "infer" => ~Fresh
    /\ phase = "loaded" => /\ loads # << >> /\ file = loads[Len(loads)]
                           /\ TableNames \subseteq DOMAIN schema
    /\ todo # {} => table \in TableNames /\ todo \subseteq DOMAIN tables[table].relations

\* Where the relations of fresh tables come from.
FreshInv ==
    Fresh => \A t \in TableNames :
        /\ DOMAIN tables[t] = {"fields", "key", "relations"}
        /\ \A n \in DOMAIN tables[t].relations : Follows(t, tables[t].relations[n])

\* Where those of any tables come from, before the file is merged into them.
Held(t, n, rel) == holds /\ \E i \in DOMAIN loads : SaidBy(loads[i], t, n, rel)
SourceInv ==
    /\ phase = "infer" =>
          \A t \in TableNames : \A n \in DOMAIN tables[t].relations :
              Follows(t, tables[t].relations[n]) \/ Held(t, n, tables[t].relations[n])
    /\ RelationsHaveASource

\* The invariant that RelationsHaveASource needs.
CatalogInv == TypeInv /\ FreshInv /\ SourceInv

\* What a step of the inference writes: one hasMany, into the table that a foreign key
\* of the current table refers to.
LEMMA RangeRelationDoes ==
    ASSUME TypeInv, FreshInv, RangeRelation
    PROVE  /\ phase = "infer" /\ table \in TableNames
           /\ UNCHANGED <<db, holds, phase, left, table, file, schema, loads>>
           /\ todo' \subseteq todo
           /\ DOMAIN tables' = TableNames
           /\ \E n \in todo : LET rel == tables[table].relations[n] IN
                 /\ todo' = todo \ {n}
                 /\ n \in DOMAIN tables[table].relations
                 /\ \/ tables' = tables /\ ~(rel.type = "hasOne" /\ rel.table \in TableNames)
                    \/ /\ rel.type = "hasOne" /\ rel.table \in TableNames
                       /\ \A t \in TableNames : t # rel.table => tables'[t] = tables[t]
                       /\ DOMAIN tables'[rel.table] = {"fields", "key", "relations"}
                       /\ DOMAIN tables'[rel.table].relations =
                             {table} \cup DOMAIN tables[rel.table].relations
                       /\ tables'[rel.table].relations[table] = HasMany(table, rel.field)
                       /\ \A m \in DOMAIN tables[rel.table].relations :
                             m # table =>
                               tables'[rel.table].relations[m] = tables[rel.table].relations[m]
<1>1. PICK n \in todo :
        LET rel == tables[table].relations[n] IN
        /\ todo' = todo \ {n}
        /\ IF rel.type = "hasOne" /\ rel.table \in TableNames
           THEN tables' = [tables EXCEPT ![rel.table].relations =
                               Overlaid([t \in {table} |-> HasMany(t, rel.field)], @)]
           ELSE UNCHANGED tables
  BY DEF RangeRelation
<1> DEFINE rel == tables[table].relations[n]
           target == rel.table
           old == tables[target].relations
           new == Overlaid([t \in {table} |-> HasMany(t, rel.field)], old)
<1>2. /\ phase = "infer" /\ Fresh /\ todo # {}
      /\ UNCHANGED <<db, holds, phase, left, table, file, schema, loads>>
  BY <1>1 DEF RangeRelation, Fresh
<1>3. /\ table \in TableNames /\ n \in DOMAIN tables[table].relations
      /\ DOMAIN tables = TableNames
  BY <1>1, <1>2 DEF TypeInv
<1>4. CASE ~(rel.type = "hasOne" /\ target \in TableNames)
  BY <1>1, <1>2, <1>3, <1>4
<1>5. CASE rel.type = "hasOne" /\ target \in TableNames
  <2>1. /\ DOMAIN new = {table} \cup DOMAIN old
        /\ new[table] = HasMany(table, rel.field)
        /\ \A m \in DOMAIN old : m # table => new[m] = old[m]
    BY DEF Overlaid
  <2>2. tables' = [tables EXCEPT ![target].relations = new]
    BY <1>1, <1>5
  <2>3. DOMAIN tables[target] = {"fields", "key", "relations"}
    BY <1>2, <1>5 DEF FreshInv
  <2> HIDE DEF new, target
  <2>4. /\ DOMAIN tables' = TableNames
        /\ \A t \in TableNames : t # target => tables'[t] = tables[t]
        /\ DOMAIN tables'[target] = {"fields", "key", "relations"}
        /\ tables'[target].relations = new
    BY <1>3, <1>5, <2>2, <2>3
  <2>5. QED
    BY <1>1, <1>2, <1>3, <1>5, <2>1, <2>4 DEF target
<1>6. QED
  BY <1>4, <1>5

\* A relation of a merged table is one of the file's, or else one that was there.
ComesFrom(base, over, t, n, rel) ==
    \/ SaidBy(over, t, n, rel)
    \/ /\ ~(t \in DOMAIN over /\ n \in DOMAIN over[t].relations)
       /\ t \in DOMAIN base /\ n \in DOMAIN base[t].relations
       /\ rel = base[t].relations[n]

\* What Load and the next Reload make of a table: a relation of the file, or else one
\* that was there.
LEMMA MergedRelations ==
    ASSUME NEW base, NEW over, NEW t \in DOMAIN base \cup DOMAIN over
    PROVE  /\ DOMAIN Merged(base, over) = DOMAIN base \cup DOMAIN over
           /\ \A n \in DOMAIN Merged(base, over)[t].relations :
                 ComesFrom(base, over, t, n, Merged(base, over)[t].relations[n])
           /\ \A n : /\ t \in DOMAIN base /\ n \in DOMAIN base[t].relations
                     /\ ~(t \in DOMAIN over /\ n \in DOMAIN over[t].relations)
                     => SaidBy(Merged(base, over), t, n, base[t].relations[n])
<1> DEFINE m == Merged(base, over)
           both == Overlaid(over[t].relations, base[t].relations)
<1>1. DOMAIN m = DOMAIN base \cup DOMAIN over
  BY DEF Merged
<1>2. CASE t \notin DOMAIN over
  <2>1. m[t] = base[t]
    BY <1>2 DEF Merged
  <2>2. QED
    BY <1>1, <1>2, <2>1 DEF SaidBy, ComesFrom
<1>3. CASE t \in DOMAIN over /\ t \notin DOMAIN base
  <2>1. m[t] = over[t]
    BY <1>3 DEF Merged
  <2>2. QED
    BY <1>1, <1>3, <2>1 DEF SaidBy, ComesFrom
<1>4. CASE t \in DOMAIN over /\ t \in DOMAIN base
  <2>1. m[t].relations = both
    BY <1>4 DEF Merged
  <2>2. /\ DOMAIN both = DOMAIN over[t].relations \cup DOMAIN base[t].relations
        /\ \A n \in DOMAIN over[t].relations : both[n] = over[t].relations[n]
        /\ \A n \in DOMAIN base[t].relations \ DOMAIN over[t].relations :
              both[n] = base[t].relations[n]
    BY DEF Overlaid
  <2> HIDE DEF both, m
  <2>3. \A n \in DOMAIN m[t].relations : ComesFrom(base, over, t, n, m[t].relations[n])
    BY <1>4, <2>1, <2>2 DEF SaidBy, ComesFrom
  <2>4. \A n \in DOMAIN base[t].relations \ DOMAIN over[t].relations :
           SaidBy(m, t, n, base[t].relations[n])
    BY <1>1, <1>4, <2>1, <2>2 DEF SaidBy
  <2>5. QED
    BY <1>1, <1>4, <2>3, <2>4 DEF m
<1>5. QED
  BY <1>2, <1>3, <1>4

\* What Load does.
LEMMA LoadDoes ==
    ASSUME TypeInv, Load
    PROVE  /\ phase = "infer" /\ phase' = "loaded" /\ ~Fresh /\ ~Fresh'
           /\ schema' = Merged(tables, file)
           /\ UNCHANGED <<db, holds, left, table, todo, tables, file>>
           /\ loads' \in Seq(Files) /\ loads' # << >> /\ file = loads'[Len(loads')]
           /\ \A i \in DOMAIN loads : i \in DOMAIN loads' /\ loads'[i] = loads[i]
<1>1. loads' = Append(loads, file) /\ loads \in Seq(Files) /\ file \in Files
  BY DEF Load, TypeInv
<1>2. /\ loads' \in Seq(Files)
      /\ Len(loads') = Len(loads) + 1 /\ loads'[Len(loads')] = file
      /\ \A i \in 1 .. Len(loads) : loads'[i] = loads[i]
      /\ Len(loads) \in Nat /\ DOMAIN loads = 1 .. Len(loads) /\ DOMAIN loads' = 1 .. Len(loads')
  BY <1>1, AppendProperties, LenProperties
<1>3. loads' # << >>
  BY <1>2, EmptySeq
<1>4. QED
  BY <1>2, <1>3 DEF Load, Fresh

\* What Reload does with tables that the introspector holds.
LEMMA ReloadHeld ==
    ASSUME TypeInv, phase = "loaded", tables' = Restrict(schema, DOMAIN tables)
    PROVE  DOMAIN tables' = TableNames /\ \A t \in TableNames : tables'[t] = schema[t]
BY DEF TypeInv, Restrict

\* The other end of a relation that follows a foreign key follows it too.
LEMMA BackFollows ==
    ASSUME TypeInv, NEW t \in TableNames, NEW rel, Follows(t, rel),
           rel.type = "hasOne", rel.table \in TableNames
    PROVE  /\ [from |-> rel.field, table |-> rel.table] \in ToSet(db.fks[t])
           /\ Follows(rel.table, HasMany(t, rel.field))
<1>1. PICK i \in DOMAIN db.fks[t] : rel = HasOne(db.fks[t][i])
  BY DEF Follows
<1>2. db.fks[t][i] \in ForeignKey
  <2>1. db.fks[t] \in Seq(ForeignKey)
    BY DatabasesTyped DEF TypeInv, TableNames, ForeignKey
  <2>2. QED
    BY <1>1, <2>1, ElementOfSeq, LenProperties
<1>3. db.fks[t][i] = [from |-> rel.field, table |-> rel.table]
  BY <1>1, <1>2 DEF HasOne, ForeignKey
<1>4. [from |-> rel.field, table |-> rel.table] \in ToSet(db.fks[t])
  BY <1>3 DEF ToSet
<1>5. QED
  BY <1>4 DEF Follows, HasMany

\* Every relation has a source, at every stage.
LEMMA CatalogInvHolds == CatalogSpec => []CatalogInv
<1>1. CatalogInit => CatalogInv
  <2>1. << >> \in Seq(Files)
    BY EmptySeq
  <2>2. QED
    BY <2>1 DEF CatalogInit, CatalogInv, TypeInv, FreshInv, SourceInv, Fresh, RelationsHaveASource
<1>2. CatalogInv /\ [CatalogNext]_catalogVars => CatalogInv'
  <2> SUFFICES ASSUME CatalogInv, [CatalogNext]_catalogVars PROVE CatalogInv'
    OBVIOUS
  <2> USE DEF CatalogInv
  <2>1. CASE ReadTables
    <3>1. /\ phase = "tables" /\ phase' = "infer" /\ left' = TableNames /\ todo = {}
          /\ tables' = [t \in TableNames |-> [fields |-> db.columns[t], key |-> NoKey,
                                              relations |-> RelationsOf(db.fks[t])]]
          /\ UNCHANGED <<db, holds, table, todo, file, schema, loads>>
      BY <2>1 DEF ReadTables, TypeInv, Fresh
    <3>3. ASSUME NEW t \in TableNames
          PROVE  /\ DOMAIN tables'[t] = {"fields", "key", "relations"}
                 /\ \A n \in DOMAIN tables'[t].relations : Follows(t, tables'[t].relations[n])
      <4>1. db.fks[t] \in Seq(ForeignKey)
        BY DatabasesTyped DEF TypeInv, TableNames, ForeignKey
      <4>2. /\ DOMAIN tables'[t] = {"fields", "key", "relations"}
            /\ tables'[t].relations = RelationsOf(db.fks[t])
        BY <3>1
      <4>3. \A n \in DOMAIN RelationsOf(db.fks[t]) : \E i \in DOMAIN db.fks[t] :
               RelationsOf(db.fks[t])[n] = HasOne(db.fks[t][i])
        BY <4>1, RelationsOfKeys
      <4>4. \A fk : HasOne(fk).type = "hasOne"
        BY DEF HasOne
      <4>5. QED
        BY <4>2, <4>3, <4>4 DEF Follows
    <3>4. TypeInv'
      BY <3>1 DEF TypeInv, Fresh, TableNames
    <3>5. /\ db' = db /\ phase' = "infer"
          /\ \A t \in TableNames :
                /\ DOMAIN tables'[t] = {"fields", "key", "relations"}
                /\ \A n \in DOMAIN tables'[t].relations : Follows(t, tables'[t].relations[n])
      BY <3>1, <3>3
    <3>6. RelationsHaveASource'
      BY <3>5 DEF RelationsHaveASource
    <3>7. FreshInv' /\ SourceInv'
      BY <3>5, <3>6 DEF FreshInv, SourceInv, Follows, TableNames
    <3>8. QED
      BY <3>4, <3>7
  <2>2. CASE RangeTable
    <3>1. PICK t \in left : table' = t /\ todo' = DOMAIN tables[t].relations /\ left' = left \ {t}
      BY <2>2 DEF RangeTable
    <3>2. /\ phase = "infer" /\ Fresh /\ t \in TableNames
          /\ UNCHANGED <<db, holds, phase, tables, file, schema, loads>>
      BY <2>2, <3>1 DEF RangeTable, Fresh, TypeInv
    <3>3. TypeInv'
      BY <3>1, <3>2 DEF TypeInv, TableNames
    <3>4. FreshInv' /\ SourceInv'
      BY <3>2 DEF FreshInv, SourceInv, RelationsHaveASource, Follows, TableNames, Held, SaidBy
    <3>5. QED
      BY <3>3, <3>4
  <2>3. CASE RangeRelation
    <3>1. PICK n \in todo : LET rel == tables[table].relations[n] IN
                 /\ todo' = todo \ {n}
                 /\ n \in DOMAIN tables[table].relations
                 /\ \/ tables' = tables
                    \/ /\ rel.type = "hasOne" /\ rel.table \in TableNames
                       /\ \A t \in TableNames : t # rel.table => tables'[t] = tables[t]
                       /\ DOMAIN tables'[rel.table] = {"fields", "key", "relations"}
                       /\ DOMAIN tables'[rel.table].relations =
                             {table} \cup DOMAIN tables[rel.table].relations
                       /\ tables'[rel.table].relations[table] = HasMany(table, rel.field)
                       /\ \A m \in DOMAIN tables[rel.table].relations :
                             m # table =>
                               tables'[rel.table].relations[m] = tables[rel.table].relations[m]
      BY <2>3, RangeRelationDoes
    <3> DEFINE rel == tables[table].relations[n]
    <3>2. /\ phase = "infer" /\ Fresh /\ table \in TableNames
          /\ UNCHANGED <<db, holds, phase, left, table, file, schema, loads>>
          /\ DOMAIN tables' = TableNames
      BY <2>3, <3>1, RangeRelationDoes DEF Fresh
    <3>3. Follows(table, rel)
      BY <3>1, <3>2 DEF FreshInv
    <3>4. rel.type = "hasOne" /\ rel.table \in TableNames =>
            Follows(rel.table, HasMany(table, rel.field))
      BY <3>2, <3>3, BackFollows
    <3> HIDE DEF rel
    <3>5. ASSUME NEW t \in TableNames
          PROVE  /\ DOMAIN tables'[t] = {"fields", "key", "relations"}
                 /\ DOMAIN tables[t].relations \subseteq DOMAIN tables'[t].relations
                 /\ \A m \in DOMAIN tables'[t].relations : Follows(t, tables'[t].relations[m])
      <4>1. /\ DOMAIN tables[t] = {"fields", "key", "relations"}
            /\ \A m \in DOMAIN tables[t].relations : Follows(t, tables[t].relations[m])
        BY <3>2 DEF FreshInv
      <4>2. CASE tables'[t] = tables[t]
        BY <4>1, <4>2
      <4>3. CASE tables'[t] # tables[t]
        <5>1. t = rel.table /\ rel.type = "hasOne" /\ rel.table \in TableNames
          BY <3>1, <4>3 DEF rel
        <5>2. /\ DOMAIN tables'[t] = {"fields", "key", "relations"}
              /\ DOMAIN tables'[t].relations = {table} \cup DOMAIN tables[t].relations
              /\ tables'[t].relations[table] = HasMany(table, rel.field)
              /\ \A m \in DOMAIN tables[t].relations :
                    m # table => tables'[t].relations[m] = tables[t].relations[m]
          BY <3>1, <4>3, <5>1 DEF rel
        <5>3. QED
          BY <3>4, <4>1, <5>1, <5>2
      <4>4. QED
        BY <4>2, <4>3
    <3>6. TypeInv'
      <4>1. Fresh' => phase' = "infer"
        BY <3>2
      <4>2. todo' # {} => table' \in TableNames' /\ todo' \subseteq DOMAIN tables'[table'].relations
        BY <3>1, <3>2, <3>5 DEF TypeInv, TableNames
      <4>3. QED
        BY <3>2, <4>1, <4>2 DEF TypeInv, TableNames
    <3>7. FreshInv' /\ SourceInv'
      BY <3>2, <3>5 DEF FreshInv, SourceInv, RelationsHaveASource, Follows, TableNames
    <3>8. QED
      BY <3>6, <3>7
  <2>4. CASE Load
    <3>1. /\ phase = "infer" /\ phase' = "loaded" /\ ~Fresh /\ ~Fresh'
          /\ schema' = Merged(tables, file)
          /\ UNCHANGED <<db, holds, left, table, todo, tables, file>>
          /\ loads' \in Seq(Files) /\ loads' # << >> /\ file = loads'[Len(loads')]
          /\ \A i \in DOMAIN loads : i \in DOMAIN loads' /\ loads'[i] = loads[i]
      BY <2>4, LoadDoes
    <3>2. DOMAIN tables = TableNames
      BY <3>1 DEF TypeInv
    <3>3. DOMAIN schema' = TableNames \cup DOMAIN file
      <4>1. DOMAIN Merged(tables, file) = DOMAIN tables \cup DOMAIN file
        BY DEF Merged
      <4>2. QED
        BY <3>1, <3>2, <4>1
    <3>4. TypeInv'
      BY <3>1, <3>2, <3>3 DEF TypeInv, TableNames, Fresh
    <3>5. ASSUME NEW t \in DOMAIN schema', NEW n \in DOMAIN schema'[t].relations
          PROVE  LET rel == schema'[t].relations[n] IN
                 \/ SaidBy(file, t, n, rel)
                 \/ Follows(t, rel) /\ ~(t \in DOMAIN file /\ n \in DOMAIN file[t].relations)
                 \/ holds /\ \E i \in DOMAIN loads' : SaidBy(loads'[i], t, n, rel)
      <4> DEFINE rel == schema'[t].relations[n]
      <4>1. ComesFrom(tables, file, t, n, rel)
        <5>1. t \in DOMAIN tables \cup DOMAIN file /\ n \in DOMAIN Merged(tables, file)[t].relations
          BY <3>1, <3>2, <3>3, <3>5
        <5>2. \A m \in DOMAIN Merged(tables, file)[t].relations :
                ComesFrom(tables, file, t, m, Merged(tables, file)[t].relations[m])
          BY <5>1, MergedRelations
        <5>3. rel = Merged(tables, file)[t].relations[n]
          BY <3>1
        <5> HIDE DEF rel
        <5>4. QED
          BY <5>1, <5>2, <5>3
      <4> HIDE DEF rel
      <4>2. t \in DOMAIN tables /\ n \in DOMAIN tables[t].relations /\ rel = tables[t].relations[n]
              => Follows(t, rel) \/ Held(t, n, rel)
        BY <3>1, <3>2 DEF SourceInv
      <4>3. Held(t, n, rel) => holds /\ \E i \in DOMAIN loads' : SaidBy(loads'[i], t, n, rel)
        BY <3>1 DEF Held
      <4>4. QED
        BY <4>1, <4>2, <4>3 DEF rel, ComesFrom
    <3>6. RelationsHaveASource'
      BY <3>1, <3>5 DEF RelationsHaveASource, Follows, TableNames
    <3>7. QED
      BY <3>1, <3>4, <3>6 DEF FreshInv, SourceInv
  <2>5. CASE Reload
    <3>1. /\ phase \in {"loaded", "failed"} /\ file' \in Files
          /\ UNCHANGED <<db, left, table, todo, schema, loads>>
          /\ ~Fresh /\ ~Fresh'
      BY <2>5 DEF Reload, TypeInv, Fresh
    <3>2. CASE phase' = "tables"
      BY <3>1, <3>2 DEF TypeInv, FreshInv, SourceInv, RelationsHaveASource, TableNames, Fresh
    <3>3. CASE /\ phase = "loaded" /\ phase' = "infer"
               /\ tables' = Restrict(schema, DOMAIN tables) /\ holds' = TRUE
      <4>1. DOMAIN tables' = TableNames /\ \A t \in TableNames : tables'[t] = schema[t]
        BY <3>1, <3>3, ReloadHeld
      <4>2. TypeInv'
        BY <3>1, <3>3, <4>1 DEF TypeInv, TableNames, Fresh
      <4>3. ASSUME NEW t \in TableNames, NEW n \in DOMAIN tables'[t].relations
            PROVE  LET rel == tables'[t].relations[n] IN
                   Follows(t, rel) \/ \E i \in DOMAIN loads : SaidBy(loads[i], t, n, rel)
        <5>1. t \in DOMAIN schema /\ n \in DOMAIN schema[t].relations
              /\ tables'[t].relations[n] = schema[t].relations[n]
          BY <3>1, <3>3, <4>1, <4>3 DEF TypeInv
        <5>2. Len(loads) \in DOMAIN loads /\ file = loads[Len(loads)]
          <6>1. loads \in Seq(Files) /\ loads # << >> /\ file = loads[Len(loads)]
            BY <3>1, <3>3 DEF TypeInv
          <6>2. Len(loads) \in Nat \ {0} /\ DOMAIN loads = 1 .. Len(loads)
            BY <6>1, LenProperties, EmptySeq
          <6>3. QED
            BY <6>1, <6>2
        <5>3. QED
          BY <3>1, <3>3, <5>1, <5>2 DEF SourceInv, RelationsHaveASource
      <4>4. SourceInv'
        BY <3>1, <3>3, <4>3 DEF SourceInv, RelationsHaveASource, Follows, TableNames, Held
      <4>5. QED
        BY <3>1, <4>2, <4>4 DEF FreshInv
    <3>4. QED
      BY <2>5, <3>2, <3>3 DEF Reload
  <2>6. CASE UNCHANGED catalogVars
    <3>1. UNCHANGED <<db, holds, phase, left, table, todo, tables, file, schema, loads>>
      BY <2>6 DEF catalogVars
    <3>2. TypeInv'
      BY <3>1 DEF TypeInv, Fresh, TableNames
    <3>3. FreshInv'
      BY <3>1 DEF FreshInv, Fresh, Follows, TableNames
    <3>4. RelationsHaveASource'
      BY <3>1 DEF SourceInv, RelationsHaveASource, Follows, TableNames
    <3>5. SourceInv'
      BY <3>1, <3>4 DEF SourceInv, Held, Follows, TableNames
    <3>6. QED
      BY <3>2, <3>3, <3>5
  <2>7. CASE ReadFails
    <3>1. /\ phase' = "failed" /\ ~Fresh /\ ~Fresh'
          /\ UNCHANGED <<db, holds, left, table, todo, tables, file, loads>>
      BY <2>7 DEF ReadFails, TypeInv, Fresh
    <3>2. QED
      BY <3>1 DEF TypeInv, FreshInv, SourceInv, RelationsHaveASource, TableNames, Fresh
  <2>8. QED
    BY <2>1, <2>2, <2>3, <2>4, <2>5, <2>6, <2>7 DEF CatalogNext
<1>3. QED
  BY <1>1, <1>2, PTL DEF CatalogSpec

\* A schema comes from the database and the file alone, in every order of the maps.
THEOREM EveryRelationHasASource == CatalogSpec => []RelationsHaveASource
<1>1. CatalogInv => RelationsHaveASource
  BY DEF CatalogInv, SourceInv
<1>2. QED
  BY CatalogInvHolds, <1>1, PTL
-----------------------------------------------------------------------------
(***************************************************************************)
(* Both ends of a foreign key.                                             *)
(***************************************************************************)

\* A relation of a table is the hasOne of one of its foreign keys.
One(ts, t, fk) ==
    LET n == RelName(fk) IN n \in DOMAIN ts[t].relations /\ ts[t].relations[n] = HasOne(fk)

\* The inference has visited a relation of a table: it is past the table, or past
\* the relation.
Visited(t, n) == t \notin left /\ ~(table = t /\ n \in todo)

\* The only foreign key of its table to the table it refers to.
OnlyKeyTo(t, fk) ==
    fk.table \in TableNames /\ \A g \in ToSet(db.fks[t]) : g # fk => g.table # fk.table
Back(t, fk) == [type |-> "hasMany", field |-> fk.from, table |-> t]

\* The two ends of a foreign key whose names are clear.
OneInv(t, fk) ==
    /\ phase = "infer" /\ (Fresh \/ ~Renamed(t, RelName(fk))) => One(tables, t, fk)
    /\ phase = "loaded" /\ ~Renamed(t, RelName(fk)) => One(schema, t, fk)
ManyInv(t, fk) ==
    OnlyKeyTo(t, fk) /\ ~Renamed(fk.table, t) =>
        /\ phase = "infer" /\ Visited(t, RelName(fk)) => SaidBy(tables, fk.table, t, Back(t, fk))
        /\ phase = "loaded" => SaidBy(schema, fk.table, t, Back(t, fk))
KeyInv ==
    \A t \in TableNames : \A fk \in ToSet(db.fks[t]) :
        ClearName(t, fk) => OneInv(t, fk) /\ ManyInv(t, fk)

\* The database does not change, nor what is clear about its foreign keys; what a
\* file once said is remembered.
LEMMA KeysStay ==
    ASSUME CatalogInv, [CatalogNext]_catalogVars
    PROVE  /\ db' = db /\ TableNames' = TableNames
           /\ \A t, fk : (ClearName(t, fk)' <=> ClearName(t, fk)) /\ (OnlyKeyTo(t, fk)' <=> OnlyKeyTo(t, fk))
           /\ \A t, n : Renamed(t, n) => Renamed(t, n)'
<1>1. db' = db
  BY DEF CatalogNext, ReadTables, ReadFails, RangeTable, RangeRelation, Load, Reload, catalogVars
<1>2. TableNames' = TableNames
  BY <1>1 DEF TableNames
<1>3. ASSUME NEW t, NEW fk
      PROVE  (ClearName(t, fk)' <=> ClearName(t, fk)) /\ (OnlyKeyTo(t, fk)' <=> OnlyKeyTo(t, fk))
  BY <1>1, <1>2 DEF ClearName, OnlyKeyTo
<1>4. ASSUME NEW t, NEW n, Renamed(t, n)
      PROVE  Renamed(t, n)'
  <2>1. CASE Load
    BY <1>4, <2>1, LoadDoes DEF CatalogInv, Renamed
  <2>2. CASE ~Load
    <3>1. loads' = loads
      BY <2>2 DEF CatalogNext, ReadTables, ReadFails, RangeTable, RangeRelation, Reload, catalogVars
    <3>2. QED
      BY <1>4, <3>1 DEF Renamed
  <2>3. QED
    BY <2>1, <2>2
<1>5. QED
  BY <1>1, <1>2, <1>3, <1>4

\* What was just read names each foreign key with a clear name.
LEMMA KeyAfterRead ==
    ASSUME CatalogInv, ReadTables,
           NEW t \in TableNames, NEW fk \in ToSet(db.fks[t]), ClearName(t, fk)
    PROVE  OneInv(t, fk)' /\ ManyInv(t, fk)'
<1> DEFINE n == RelName(fk)
           fks == db.fks[t]
<1>1. /\ phase' = "infer" /\ left' = TableNames /\ db' = db
      /\ tables'[t].relations = RelationsOf(fks)
  BY DEF ReadTables
<1>2. fks \in Seq(ForeignKey)
  BY DatabasesTyped DEF CatalogInv, TypeInv, TableNames, ForeignKey
<1>3. PICK i \in DOMAIN fks : fk = fks[i]
  BY DEF ToSet
<1>4. n \in DOMAIN RelationsOf(fks)
  BY <1>2, <1>3, RelationsOfKeys
<1>5. PICK j \in DOMAIN fks : RelName(fks[j]) = n /\ RelationsOf(fks)[n] = HasOne(fks[j])
  BY <1>2, <1>4, RelationsOfKeys
<1>6. fks[j] = fk
  BY <1>5 DEF ClearName, ToSet
<1>7. One(tables', t, fk)
  BY <1>1, <1>4, <1>5, <1>6 DEF One
<1>8. ~Visited(t, n)'
  BY <1>1 DEF Visited
<1>9. QED
  BY <1>1, <1>7, <1>8 DEF OneInv, ManyInv, One

\* A table that the range takes has its relations still to visit.
LEMMA KeyAfterRangeTable ==
    ASSUME CatalogInv, RangeTable,
           NEW t \in TableNames, NEW fk \in ToSet(db.fks[t]),
           OneInv(t, fk), ManyInv(t, fk)
    PROVE  OneInv(t, fk)' /\ ManyInv(t, fk)'
<1> DEFINE n == RelName(fk)
<1>1. PICK u \in left : table' = u /\ todo' = DOMAIN tables[u].relations /\ left' = left \ {u}
  BY DEF RangeTable
<1>2. /\ phase = "infer" /\ todo = {} /\ Fresh
      /\ UNCHANGED <<db, holds, phase, tables, file, schema, loads>>
  BY <1>1 DEF RangeTable, Fresh
<1>3. One(tables, t, fk)
  BY <1>2 DEF OneInv
<1>4. OneInv(t, fk)'
  BY <1>2, <1>3 DEF OneInv, One
<1>5. Visited(t, n)' => Visited(t, n)
  <2>1. CASE t = u
    BY <1>1, <1>3, <2>1 DEF Visited, One
  <2>2. CASE t # u
    BY <1>1, <1>2, <2>2 DEF Visited
  <2>3. QED
    BY <2>1, <2>2
<1>6. ManyInv(t, fk)'
  BY <1>2, <1>5 DEF ManyInv, OnlyKeyTo, TableNames, Renamed, SaidBy, Back
<1>7. QED
  BY <1>4, <1>6

\* Visiting a relation keeps the hasOne of every clear foreign key, and gives its
\* target the hasMany when its turn comes.
LEMMA KeyAfterRangeRelation ==
    ASSUME CatalogInv, RangeRelation,
           NEW t \in TableNames, NEW fk \in ToSet(db.fks[t]), ClearName(t, fk),
           OneInv(t, fk), ManyInv(t, fk)
    PROVE  OneInv(t, fk)' /\ ManyInv(t, fk)'
<1> DEFINE n == RelName(fk)
<1>1. TypeInv /\ FreshInv
  BY DEF CatalogInv
<1>2. /\ phase = "infer" /\ table \in TableNames
      /\ UNCHANGED <<db, holds, phase, left, table, file, schema, loads>>
      /\ DOMAIN tables' = TableNames
  BY <1>1, RangeRelationDoes
<1>3. PICK m \in todo : LET rel == tables[table].relations[m] IN
         /\ todo' = todo \ {m}
         /\ m \in DOMAIN tables[table].relations
         /\ \/ tables' = tables /\ ~(rel.type = "hasOne" /\ rel.table \in TableNames)
            \/ /\ rel.type = "hasOne" /\ rel.table \in TableNames
               /\ \A s \in TableNames : s # rel.table => tables'[s] = tables[s]
               /\ DOMAIN tables'[rel.table] = {"fields", "key", "relations"}
               /\ DOMAIN tables'[rel.table].relations =
                     {table} \cup DOMAIN tables[rel.table].relations
               /\ tables'[rel.table].relations[table] = HasMany(table, rel.field)
               /\ \A k \in DOMAIN tables[rel.table].relations :
                     k # table =>
                       tables'[rel.table].relations[k] = tables[rel.table].relations[k]
  BY <1>1, RangeRelationDoes
<1> DEFINE rel == tables[table].relations[m]
           wrote == rel.type = "hasOne" /\ rel.table \in TableNames
<1>4. ~wrote => tables' = tables
  BY <1>3
<1>5. wrote =>
         /\ \A s \in TableNames : s # rel.table => tables'[s] = tables[s]
         /\ DOMAIN tables'[rel.table].relations = {table} \cup DOMAIN tables[rel.table].relations
         /\ tables'[rel.table].relations[table] = HasMany(table, rel.field)
         /\ \A k \in DOMAIN tables[rel.table].relations :
               k # table => tables'[rel.table].relations[k] = tables[rel.table].relations[k]
  BY <1>3
<1>6. Fresh /\ DOMAIN tables = TableNames
  BY <1>1, <1>2 DEF Fresh, TypeInv
<1>7. One(tables, t, fk)
  BY <1>2, <1>6 DEF OneInv
<1>8. wrote => [from |-> rel.field, table |-> rel.table] \in ToSet(db.fks[table])
  <2>1. Follows(table, rel)
    BY <1>1, <1>2, <1>3, <1>6 DEF FreshInv
  <2> HIDE DEF rel
  <2>2. QED
    BY <1>1, <1>2, <2>1, BackFollows
<1>9. One(tables', t, fk)
  <2>1. wrote => ~(rel.table = t /\ table = n)
    <3> DEFINE g == [from |-> rel.field, table |-> rel.table]
    <3>1. g.table = rel.table
      OBVIOUS
    <3> HIDE DEF g, rel
    <3>2. QED
      BY <1>2, <1>8, <3>1 DEF ClearName, g
  <2>2. CASE ~wrote
    BY <1>4, <1>7, <2>2
  <2>3. CASE wrote /\ rel.table # t
    <3>1. tables'[t] = tables[t]
      BY <1>5, <2>3
    <3>2. QED
      BY <1>7, <3>1 DEF One
  <2>4. CASE wrote /\ rel.table = t
    <3> HIDE DEF wrote, rel
    <3>1. QED
      BY <1>5, <1>7, <2>1, <2>4 DEF One
  <2>5. QED
    BY <2>2, <2>3, <2>4
<1>10. OneInv(t, fk)'
  BY <1>2, <1>9 DEF OneInv, One
<1>11. ASSUME OnlyKeyTo(t, fk), ~Renamed(fk.table, t), Visited(t, n)'
       PROVE  SaidBy(tables', fk.table, t, Back(t, fk))
  <2>1. fk.table \in TableNames
    BY <1>11 DEF OnlyKeyTo
  <2>2. wrote /\ rel.table = fk.table /\ table = t => rel.field = fk.from
    <3> DEFINE g == [from |-> rel.field, table |-> rel.table]
    <3>1. g.table = rel.table /\ g.from = rel.field
      OBVIOUS
    <3>2. wrote /\ table = t => g \in ToSet(db.fks[t])
      BY <1>8
    <3> HIDE DEF g, rel
    <3>3. QED
      BY <1>11, <3>1, <3>2 DEF OnlyKeyTo
  <2>3. HasMany(t, fk.from) = Back(t, fk)
    BY DEF HasMany, Back
  <2>4. wrote /\ rel.table = fk.table /\ table = t =>
          SaidBy(tables', fk.table, t, Back(t, fk))
    <3> HIDE DEF rel, wrote
    <3>1. QED
      BY <1>2, <1>5, <2>1, <2>2, <2>3 DEF SaidBy
  <2>5. CASE Visited(t, n)
    <3>1. SaidBy(tables, fk.table, t, Back(t, fk))
      BY <1>2, <1>11, <2>5 DEF ManyInv
    <3>2. CASE ~wrote
      BY <1>4, <3>1, <3>2
    <3>3. CASE wrote /\ rel.table # fk.table
      <4>1. tables'[fk.table] = tables[fk.table]
        BY <1>5, <2>1, <3>3
      <4>2. QED
        BY <1>2, <2>1, <3>1, <4>1 DEF SaidBy
    <3>4. CASE wrote /\ rel.table = fk.table /\ table # t
      <4> HIDE DEF rel, wrote
      <4>1. QED
        BY <1>2, <1>5, <2>1, <3>1, <3>4 DEF SaidBy
    <3>5. QED
      BY <2>4, <3>2, <3>3, <3>4
  <2>6. CASE ~Visited(t, n)
    <3>1. table = t /\ m = n
      BY <1>2, <1>3, <1>11, <2>6 DEF Visited
    <3>2. rel = HasOne(fk)
      BY <1>7, <3>1 DEF One
    <3>3. wrote /\ rel.table = fk.table
      BY <2>1, <3>2 DEF HasOne
    <3>4. QED
      BY <2>4, <3>1, <3>3
  <2>7. QED
    BY <2>5, <2>6
<1>12. ManyInv(t, fk)'
  BY <1>2, <1>11 DEF ManyInv, OnlyKeyTo, TableNames, Renamed, SaidBy, Back
<1>13. QED
  BY <1>10, <1>12

\* Merging a file keeps what no file says otherwise.
LEMMA KeyAfterLoad ==
    ASSUME CatalogInv, Load,
           NEW t \in TableNames, NEW fk \in ToSet(db.fks[t]),
           OneInv(t, fk), ManyInv(t, fk)
    PROVE  OneInv(t, fk)' /\ ManyInv(t, fk)'
<1> DEFINE n == RelName(fk)
<1>1. /\ phase = "infer" /\ phase' = "loaded" /\ ~Fresh
      /\ schema' = Merged(tables, file)
      /\ UNCHANGED <<db, holds, left, table, todo, tables, file>>
      /\ loads' \in Seq(Files) /\ loads' # << >> /\ file = loads'[Len(loads')]
      /\ \A i \in DOMAIN loads : i \in DOMAIN loads' /\ loads'[i] = loads[i]
  BY LoadDoes DEF CatalogInv
<1>2. DOMAIN tables = TableNames
  BY <1>1 DEF CatalogInv, TypeInv
<1>3. Len(loads') \in DOMAIN loads'
  <2>1. Len(loads') \in Nat \ {0} /\ DOMAIN loads' = 1 .. Len(loads')
    BY <1>1, LenProperties, EmptySeq
  <2>2. QED
    BY <2>1
<1>4. \A u, k : ~Renamed(u, k)' => ~(u \in DOMAIN file /\ k \in DOMAIN file[u].relations)
  BY <1>1, <1>3 DEF Renamed
<1>5. \A u, k : Renamed(u, k) => Renamed(u, k)'
  BY KeysStay DEF CatalogNext
<1>6. ASSUME NEW u \in TableNames, NEW k \in DOMAIN tables[u].relations, ~Renamed(u, k)'
      PROVE  SaidBy(schema', u, k, tables[u].relations[k])
  BY <1>1, <1>2, <1>4, <1>6, MergedRelations
<1>7. OneInv(t, fk)'
  <2>1. ASSUME ~Renamed(t, n)' PROVE One(schema', t, fk)
    <3>1. One(tables, t, fk)
      BY <1>1, <1>5, <2>1 DEF OneInv
    <3>2. QED
      BY <1>6, <2>1, <3>1 DEF One, SaidBy
  <2>2. QED
    BY <1>1, <2>1 DEF OneInv, One
<1>8. ManyInv(t, fk)'
  <2>1. ASSUME OnlyKeyTo(t, fk), ~Renamed(fk.table, t)'
        PROVE  SaidBy(schema', fk.table, t, Back(t, fk))
    <3>1. fk.table \in TableNames /\ ~Renamed(fk.table, t)
      BY <1>5, <2>1 DEF OnlyKeyTo
    <3>2. Visited(t, n)
      BY <1>1 DEF Visited, Fresh
    <3>3. SaidBy(tables, fk.table, t, Back(t, fk))
      BY <1>1, <2>1, <3>1, <3>2 DEF ManyInv
    <3>4. QED
      BY <1>6, <2>1, <3>1, <3>3 DEF SaidBy
  <2>2. QED
    BY <1>1, <2>1 DEF ManyInv, OnlyKeyTo, TableNames, SaidBy, Back
<1>9. QED
  BY <1>7, <1>8

\* Tables that the introspector holds are those that the last Load returned.
LEMMA KeyAfterReload ==
    ASSUME CatalogInv, Reload,
           NEW t \in TableNames, NEW fk \in ToSet(db.fks[t]),
           OneInv(t, fk), ManyInv(t, fk)
    PROVE  OneInv(t, fk)' /\ ManyInv(t, fk)'
<1>1. /\ phase \in {"loaded", "failed"} /\ ~Fresh /\ ~Fresh'
      /\ UNCHANGED <<db, left, table, todo, schema, loads>>
  BY DEF Reload, CatalogInv, TypeInv, Fresh
<1>2. CASE phase' = "tables"
  BY <1>2 DEF OneInv, ManyInv
<1>3. CASE phase = "loaded" /\ phase' = "infer" /\ tables' = Restrict(schema, DOMAIN tables)
  <2>1. DOMAIN tables' = TableNames /\ \A u \in TableNames : tables'[u] = schema[u]
    BY <1>1, <1>3, ReloadHeld DEF CatalogInv
  <2>2. ~Renamed(t, RelName(fk)) => One(tables', t, fk)
    BY <1>1, <1>3, <2>1 DEF OneInv, One
  <2>3. OneInv(t, fk)'
    BY <1>1, <1>3, <2>2 DEF OneInv, One, Renamed
  <2>4. OnlyKeyTo(t, fk) /\ ~Renamed(fk.table, t) => SaidBy(tables', fk.table, t, Back(t, fk))
    BY <1>1, <1>3, <2>1 DEF ManyInv, OnlyKeyTo, SaidBy
  <2>5. ManyInv(t, fk)'
    BY <1>1, <1>3, <2>4 DEF ManyInv, OnlyKeyTo, TableNames, Renamed, SaidBy, Back
  <2>6. QED
    BY <2>3, <2>5
<1>4. QED
  BY <1>2, <1>3 DEF Reload

\* Both ends of each clear foreign key are as they should be, at every stage.
LEMMA KeyInvHolds == CatalogSpec => []KeyInv
<1>1. CatalogInit => KeyInv
  <2>1. CatalogInit => phase = "tables"
    BY DEF CatalogInit
  <2>2. QED
    BY <2>1 DEF KeyInv, OneInv, ManyInv
<1>2. CatalogInv /\ KeyInv /\ [CatalogNext]_catalogVars => KeyInv'
  <2> SUFFICES ASSUME CatalogInv, KeyInv, [CatalogNext]_catalogVars PROVE KeyInv'
    OBVIOUS
  <2>1. /\ db' = db /\ TableNames' = TableNames
        /\ \A t, fk : ClearName(t, fk)' <=> ClearName(t, fk)
    BY KeysStay
  <2>2. ASSUME NEW t \in TableNames, NEW fk \in ToSet(db.fks[t]), ClearName(t, fk)
        PROVE  OneInv(t, fk)' /\ ManyInv(t, fk)'
    <3>1. OneInv(t, fk) /\ ManyInv(t, fk)
      BY <2>2 DEF KeyInv
    <3>2. CASE ReadTables
      BY <2>2, <3>2, KeyAfterRead
    <3>3. CASE RangeTable
      BY <3>1, <3>3, KeyAfterRangeTable
    <3>4. CASE RangeRelation
      BY <2>2, <3>1, <3>4, KeyAfterRangeRelation
    <3>5. CASE Load
      BY <3>1, <3>5, KeyAfterLoad
    <3>6. CASE Reload
      BY <3>1, <3>6, KeyAfterReload
    <3>7. CASE UNCHANGED catalogVars
      <4>1. UNCHANGED <<db, holds, phase, left, table, todo, tables, file, schema, loads>>
        BY <3>7 DEF catalogVars
      <4>2. OneInv(t, fk)'
        BY <3>1, <4>1 DEF OneInv, One, Fresh, Renamed
      <4>3. ManyInv(t, fk)'
        BY <3>1, <4>1 DEF ManyInv, OnlyKeyTo, TableNames, Renamed, Visited, SaidBy, Back
      <4>4. QED
        BY <4>2, <4>3
    <3>8. CASE ReadFails
      BY <3>8 DEF ReadFails, OneInv, ManyInv
    <3>9. QED
      BY <3>2, <3>3, <3>4, <3>5, <3>6, <3>7, <3>8 DEF CatalogNext
  <2>3. QED
    BY <2>1, <2>2 DEF KeyInv
<1>3. QED
  BY <1>1, <1>2, CatalogInvHolds, PTL DEF CatalogSpec

\* Every foreign key with a clear name can be included from both its ends, whatever the
\* database and the files and in every order of the maps.
THEOREM KeysAreRelations == CatalogSpec => []ForeignKeysAreRelations
<1>1. CatalogInv /\ KeyInv => ForeignKeysAreRelations
  <2>1. SUFFICES ASSUME KeyInv, phase = "loaded",
                        NEW t \in TableNames, NEW fk \in ToSet(db.fks[t]), ClearName(t, fk)
                 PROVE  /\ ~Renamed(t, RelName(fk)) => One(schema, t, fk)
                        /\ OnlyKeyTo(t, fk) /\ ~Renamed(fk.table, t) =>
                             SaidBy(schema, fk.table, t, Back(t, fk))
    BY DEF ForeignKeysAreRelations, One, OnlyKeyTo, Back
  <2>2. QED
    BY <2>1 DEF KeyInv, OneInv, ManyInv
<1>2. QED
  BY CatalogInvHolds, KeyInvHolds, <1>1, PTL
=============================================================================
