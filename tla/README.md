# jsonql-go in TLA+

jsonql-go takes queries and mutations as JSON over HTTP and runs them on an SQL
database or on MongoDB. This directory models the parts of it that decide what a
client gets: the adapters with their concurrent requests, the checks and the
translation of a query, the schema it is read against, and the tree made of the
rows that come back. TLC checks the models on small instances; TLAPS proves every invariant of
the adapters, paging, include trees, where clauses, schema and front ends for every instance.

Run a check with `tlc -config SqlAdapter_shared.cfg MCSqlAdapter`, the proofs of a
module with `tlapm SqlAdapterProofs.tla`.
`PROJECT.json` lists every run with its module, configuration and properties, and
maps every definition to the lines it models.

## The system

| Part | State | Operations | Talks to |
|---|---|---|---|
| SQL adapter, `adapters/http/adapter.go` | none between requests; per request the body, open rows, the response | `ServeHTTP`, `Handle`, `handleQuery`, `handleMutation`, `getNextID` | hooks of the application, engine, transpiler, driver |
| Engine, `engine.go` | none | `Execute`, `executeQuery`, `executeMutation` | parser, validator, transpiler, driver, hydrator |
| Hydrator, `hydrator.go` | none | `Hydrate`, `MergeRows` | open rows |
| Parser, `parser.go` | its options; rewrites the caller's map | `Parse`, `ParseJSON`, `Validate` | validator |
| Validator, `schema.go` | schema | `Validate`, `ValidateAll` | |
| SQL transpiler, `transpiler.go`, `dialect.go` | per call: SELECT parts, JOIN parts, arguments | `Transpile`, `processJoin`, `processWhere`, `TranspileInsert`, `-Update`, `-Delete` | schema, dialect |
| MongoDB transpiler, `mongo_transpiler.go` | none | the same | |
| MongoDB adapter, `adapters/mongo` | as the SQL adapter | `ServeHTTP`, `Handle`, `handleCreate`, `-Update`, `-Delete`, `executeFind`, `getNextID` | hooks, parser, transpiler, mongo driver |
| `MongoAdapter`, `adapters/http/mongo_adapter.go` | the same | `Handle`, `handleQuery`, `handleMutation` | hooks, parser, transpiler, `drivers/mongodb` |
| Front ends, `adapters/http/handler.go`, `adapters/gin`, `adapters/echo` | whitelist, table map | `ServeHTTP`, `NewHandler`, `Handler`, `InferMutationFromHTTP` | SQL adapter |
| Drivers, `drivers/*` | a `database/sql` pool or a mongo client | `Query`, `Execute`, ... | the database |
| Schema, `schema/` | the schema, whose tables are pointers | `Load`, `mergeSchemas`, `Introspect` | database, file |
| Builder, `builder/` | the query under construction; the caller's maps | `Where`, `AndWhere`, `OrWhere`, `Reset`, `Build`, helpers | |
| `factory.go`, `logger.go`, `types.go`, `errors.go`, `cmd/jsonql-gen-sql` | none | construction, output, declarations, DDL | |

Nothing in the repository takes a lock or opens a transaction. Every HTTP request
is a goroutine; requests meet in the database, in its connection pool and,
through hooks, in maps of the application. That makes these things hard:

- *Several statements for one request.* A create without an id runs
  `SELECT MAX(id) + 1` and then an INSERT; MongoDB's update writes and then
  searches again, its delete searches and then removes.
- *Failure after the effect.* The reply of a statement that ran is lost, a scan or
  the row stream fails, an After hook refuses a response when all is done.
- *Bounded resources.* Open rows hold a connection of the pool while the
  goroutine goes on to ask for another.
- *Order.* Includes, aggregates and where clauses are Go maps, ranged over in any
  order, while arguments must follow the placeholders of the text.
- *Shared maps and pointers.* The schema manager merges a file into tables that the
  introspector may still hold; the query builder writes to maps of its caller; the
  parser rewrites the map it is given.
- *Undoing a join.* The hydrator makes a tree of joined rows in which parents are
  repeated and siblings multiplied, with nothing to go by but primary keys.
- *The same rule in several places.* Two transpilers, four dialects, two validators,
  two ways to count the depth of includes, two MongoDB adapters, three ways to read a
  string as a pattern, nine front ends.

What makes each part correct: for the adapters, that a request takes effect once,
at one moment, and is answered truthfully, whatever runs beside it; for the
transpilers, that arguments reach their placeholders, that names are unambiguous
and that every database gives the same rows; for the parser and the validators,
that limits hold and that two checks of one thing agree; for the schema, that its
relations come from the database and the file; for the hydrator, that objects are
rows, each in its place; for the builder, that a query says what its calls say; for
the front ends, that one request is one operation on one permitted table.
`PROJECT.json` lists the hazards, line by line, with the properties aimed at them.

## Modules

| Module | Models | Checked by |
|---|---|---|
| `Store` | the table behind an endpoint: what one INSERT, UPDATE, DELETE or SELECT does (external), and the requests | with `SqlAdapter` |
| `SqlAdapter` | the SQL adapter, the engine and the connection pool | `MCSqlAdapter`: `sql_*` |
| `AtomicTable` | the promise: each request takes effect at one moment or not at all | refined by `SqlAdapter` in `sql_unique` |
| `SqlAdapterProofs` | types, generated ids and duplicates in `SqlAdapter`; what its answers are worth; its connections; that it implements `AtomicTable` | TLAPS |
| `MongoAdapter` | both MongoDB adapters over one collection, and the driver | `MCMongoAdapter`: `mongo*` |
| `MongoAdapterProofs` | types, ids, updates, deletes and the sum of all in `MongoAdapter` | TLAPS |
| `IncludeJoin` | the order of joins and arguments of include trees | `MCIncludeJoin`: `include*` |
| `IncludeJoinProofs` | placeholders, arguments and aliases in `IncludeJoin` | TLAPS |
| `SchemaCatalog` | introspection, inference of relations, merging with a file | with `ReadPath` |
| `SchemaCatalogProofs` | the relations of `SchemaCatalog` | TLAPS |
| `ReadPath` | a query with includes: schema, joined rows, hydrator | `MCReadPath`: `read_path` |
| `Where` | where clauses in both transpilers and both databases | with `Builder` |
| `Builder` | the query builder in front of `Where` | `MCWhere`: `where` |
| `Recursion` | functions that call themselves on smaller arguments exist (mathematics, no code) | TLAPS |
| `WhereProofs` | arguments, errors and the agreement of both databases in `Where`; what is built in `Builder` | TLAPS |
| `Validator` | the options of the parser; `Validate` and `ValidateAll` | with `Paging` |
| `Paging` | a body through parser and validators; limit, skip and offset through transpilers, dialects and databases | `MCPaging`: `paging` |
| `PagingProofs` | pages, caps and the two ways in of `Paging` and `Validator` | TLAPS |
| `FrontEnds` | operation and table of an HTTP request | `MCFrontEnds`: `front_ends*` |
| `FrontEndsProofs` | agreement of the front ends of `FrontEnds`; the whitelist | TLAPS |

`ReadPath` extends `SchemaCatalog`, since a query needs the schema that was loaded;
`Builder` extends `Where` and `Paging` extends `Validator` in the same way: what
the first makes is the input of the second.

### SqlAdapter

A step of a request is what its goroutine does between two calls out: to a hook,
to the driver, to `rows.Next`. In between it touches only its own variables, so
other goroutines cannot tell. `pc` names the point it has reached:

    Handle        before --BeforeHook--> nextid | execute | engine
    getNextID     nextid --GetNextId--> nextidRows --ScanNextId--> execute
    mutation      execute --Execute--> after
    engine        engine --EngineQuery--> rows --Hydrate--> after
    response      after --AfterHook--> done

`Reject` is every refusal between the Before hook and the statement (type
assertions, parser, validator, transpiler); it may come before or after the id is
generated, as in the code. A hook may replace the body. The operation
that `op` names was chosen before it ran, but what a query does is not: the engine
looks at the body the hook handed back. `inUse` is the set of connections that open rows hold. A
where clause is the set of ids it accepts; data and patch have columns (`cols`), the id
one like any other, since `TranspileInsert` and `TranspileUpdate` look at no name but for
its spelling. Faults are constants, so a run says
which it allows: a failing hook; a driver call that fails before the statement ran
(`driver`) or after it (`lost`); a failing scan; a broken stream. A client that
goes away cancels the context of its calls, which looks to the goroutine like
`driver` or `lost`. 200 stands for whatever `MutationStatus` chooses.

`generated`, `ran`, `broken`, `doneBefore` and the marks `by` and `idBy` on a row are
history: no action reads them. `by` is the request that inserted the row, `idBy` the one
that gave it the id it has, which an update may change. `doneBefore[r]` is who had been
answered when r arrived, so two requests overlap when neither is in the other's.

### AtomicTable

The abstract specification has four variables: the table, what each request
wants, how far it is (`new`, `pending`, `applied`, `answered`) and the rows of its
effect. An effect is one step; an error may hide an effect that happened; a
success may not lie. The mapping takes a request whose statement ran for
`applied`. `Settle` lets the server choose the details of a request (a hook's
rewriting, a generated id) before its effect.

### MongoAdapter

As `SqlAdapter`, over a collection in which only the write of a single document is atomic:
`UpdateMany` and `DeleteMany` visit the documents that matched when they began, one step
each, and leave alone one that has gone or no longer matches. A find is one step: its
results fit in the first batch. Filters accept some ids and some values, so that an update
can change whether a document matches. An id may be any positive number, or text, which
`getNextID` cannot count up from, and `$set` takes it from a patch as it takes any field;
`key` is the `_id`, which the server makes and keeps apart, so that two documents never
share one.

The repository has two adapters for one MongoDB. The one of `adapters/mongo` makes
ids and answers with documents, for which it searches before a delete and after an
update; the one of `adapters/http` leaves the id to the server and answers with
counts. `adapter` says which of them is behind the endpoint, from the start; `Native`
is the first.

### IncludeJoin

`processJoin` ranges over a Go map and calls itself; `calls` is that stack, and
`\E n` the order of the range. The three slices it appends to are variables. Of
the text only aliases and placeholders are left, and a where clause is one
placeholder - which `ArgumentsFollowPlaceholders` of `Where` justifies. `selectMarks`
and `joinMarks` are the placeholders of the SELECT list and of the JOINs, `args` the
arguments that are collected beside them. A name is
the sequence of its parts between underscores, so that joining names is
concatenation and `a_b` is both one relation and b under a.

### SchemaCatalog

Reading the tables may fail: on an error of the database, or on a foreign key that names no
column of its target, whose NULL does not scan into a string. `Load` then returns no schema.
`Introspect` ranges over the tables and, inside, over the relations that a table
has when its turn comes, while it adds relations to others: `left` and `todo` are
what the two ranges have yet to visit, in any order. `Merged` is `mergeSchemas`. A
schema may be loaded twice, with another file, and from an introspector that hands
out the tables it holds, as the one of `manager_test.go` does.

### ReadPath

`Run` is one query from end to end. `Columns`, `Related`, `Paged` and `Joined` are what
the transpiler asks for and the rows that the LEFT JOINs yield (in two orders, one the
reverse of the other); `Placed` and `Nested` are what `Hydrate` makes of the columns of
one row, and `MergeRows` with `Groups`, `Valid` and `Shaped` is the hydrator's merge.
`Tree` is the reference: the row, and under each relation the rows that belong to it,
computed from the database without joining or merging anything. A column is the path that
its alias spells. The limit and skip of an include may be absent, which is not the same as
0. `Fails` is what the database refuses. It is strict or it is SQLite, where a quoted name
of no column is a text: the page of a hasOne include, which is partitioned by a column
that its table does not have, is refused by the one and counts over the whole table in the
other.

### Where and Builder

A clause is the sequence of its entries in the order Go took them. `SqlWhere` and
`MongoWhere` are the two `processWhere`, functions on a set of clauses that contains
the clauses in its clauses; `SqlEntry` and `MongoEntry` are one round of their loops.
The databases are constants: `Sql3` is what SQL makes of a condition, with three truth
values, and `MongoSelects` what MongoDB makes of a filter, with null as a value; `SqlLogic`
and `MongoLogic` assume of them what `TruthGiven` and `KeySelects` say. `Holds` is the
reference: what a clause says on rows without nulls. A string used as a pattern is what each
matcher makes of it: `wild`, the values that LIKE finds by it as it is, anywhere, at the start
and at the end; `literal`, those that MongoDB finds by it quoted at these places; `regex`, those
that MongoDB's like finds, where only % and _ are translated and nothing is quoted or anchored.
How these hang together is `TextMeans`: they differ for `wildcards` (characters that LIKE reads
as more than themselves), for `metas` (those of regular expressions) and for the case of
letters (`cased`). `Plain` says of which clauses the two databases are compared, `Even` of
which they are expected to select the same rows.

In `Builder` the caller has one map and several builders. What a query holds is a
map, which may be the caller's by reference (`CallersMap`), and the layers that AndWhere
and OrWhere put around it; they write to the map itself while there are no layers and
it has their key. `Inside` is the clause that this is. Build hands out the pointer to the
query and changes nothing, so it is no step; `Ask`, the moment at which a query is transpiled,
may come before or after any call, and reads what the query has become. Reset gives the builder
another query, so a query is a builder and a number. `said` is what the calls on a query
say, one after the other, each taken as the caller wrote it. `Built` is every clause that
so many calls can make, and `Clauses` is assumed to have them. The conditions of AndWhere and
OrWhere that join others are maps made for the call. A caller may also pass a map that it gives
away elsewhere, which is then shared there too, or the one that the query holds, which then
contains itself (`builder.go:50`); both are left out.

### Validator and Paging

`Validator` is the two checks against a schema as operators: `Validates` stops at the
first error, so it is a conjunction; `ValidateAll` is the set of errors. `IncludeDepth`
and `Depth` are the two ways to count how deep includes go.

In `Paging` a body takes both ways in: `Parse`, which rewrites the map, asks
`Validate` and may run twice on the map it rewrote; and `ParseJSON`, followed by
`ValidateAll`. What `Parse` accepts goes through `Transpile` to a database with `RowCount`
rows, which refuses clauses that are not legal in its dialect. Numbers have a spelling:
`Parse` reads every number of a JSON map as a float64 (`Float64`, exact up to 2^53) and
marshals it again, `ParseJSON` unmarshals it into an int, which refuses 2.0 and 2e0; both
refuse what is too large for an int. A number that is no integer is refused by both, and is
left out.

### FrontEnds

A request goes to one of nine front ends; `Route` is what each does up to the call of
`Handle`, `Handle` what the adapter behind it starts to do, up to the first statement.
Only the parts of a body that some front end looks at are kept. The `NewHandler` of gin
and that of echo count as two each, with and without a route parameter `resource`: gin
takes it for the table, and echo's `Bind` makes it one more key of the body. The three
searches for the table in the body are three operators, `HandlerTable`, `FromOrRootKey`
and `EchoTable`, since they are three pieces of code. `Identifiers` are the names that
`isValidIdentifier` takes: the SQL transpiler checks the table and the columns of a
mutation, the MongoDB adapter neither for a create nor for the columns of a patch. Bodies
come as `application/json`, without which `Bind` refuses them.

## Runs

| Run | Shows | Bounds |
|---|---|---|
| `sql_shared` | the inductive invariant; generated ids collide only with ids written meanwhile; a read sees every row that has had its id since before it arrived; a success is true | 3 clients, pool of 2, ids not unique; creates with and without an id, updates of values and of ids, deletes, reads; three of five faults |
| `sql_unique` | the adapter implements `AtomicTable`; a lone client never sees a duplicate; what is refused did nothing; connections come back and every request is answered | 2 clients, requests of every kind, pool of 1, ids unique, RETURNING; four of five faults |
| `mongo` | generated ids, in MongoDB; what updates and deletes may report and may not miss; every document is counted as deleted once; every request is answered | 2 clients, requests of every kind, behind either adapter, ids and text |
| `include` | one argument per placeholder, and when they are out of order, exactly; parents first; simple names have unique aliases | every tree of 3 includes with 4 names, filters and aggregates anywhere |
| `read_path` | where relations come from; foreign keys are relations both ways; the hydrator's tree is the tree that was joined; nothing is invented or lost; what limits count | 6 databases of up to 3 tables and 3 rows each, 2 files, 2 loads; includes of every kind, side by side and nested |
| `paging` | one page in five dialects; caps; parsing again; both ways in and both validators agree; includes are no deeper than allowed | 3 rows, numbers -1, 0, 1, 2, 5 and, in every spelling, around 8 (for 2^53) and 31 (for the largest int); five schemas and none, includes to depth 3 |
| `where` | arguments follow placeholders; where SQL and MongoDB agree, strings and all; a query that was built says what the calls on it say, before and after Build | 2 columns with 1, 2 and null, 5 strings, three levels; 2 builders, 3 calls and resets |
| `front_ends` | one request, one operation, one permitted table, and where that is not so | every method and combination of what front ends look at, names that are no identifiers among them |

The bounds are the smallest at which the hazards happen. Two clients make every race on
one row or document; the third is needed for a client that had finished before one of the
two began, and `sql_shared` has it. More ids than creates leave room for each of them to
count up, and let `MAX(id) + 1` leave the range. A pool of one makes any goroutine that
keeps a connection block the others. Three includes allow a sibling, a child and a
grandchild; a collision of names needs two parts. Numbers in `Paging` lie below, at and
above zero, the cap (2) and the number of rows (3); an include three deep is beyond both
caps on depth (1 and 2). The databases of `ReadPath` are each there for one thing: two and
three tables in a row, two foreign keys to one table, tables that refer to each other and
to themselves, a column called like its target, keys that are texts, a foreign key without
a target column. The five strings of `where` are one for each way in which matchers
differ: none, letters, _, % and $. Two rows under one parent and a row under none are
enough for joins to multiply, repeat and leave nulls. Three calls let one builder write to
a map between two calls of the other, or to a query after Build.

Symmetry is used in `sql_shared` over clients, which are interchangeable: their
initial state treats all alike. `CHECK_DEADLOCK FALSE` is set for `IncludeJoin`,
`Builder`, `Paging`, `ReadPath` and `FrontEnds`, which follow one query to its end; the adapters
have an explicit step for a server whose clients have all been answered, so
deadlock is checked there.

### Where code and comments disagree

| Run | What happens |
|---|---|
| `sql_stream` | a broken row stream is answered 200 with part of the rows (`hydrator.go:36`) |
| `mongo_delete` | a delete beside another mutation reports what it did not delete (`adapters/mongo/adapter.go:489`) |
| `include_misorder` | filters of includes get each other's values (`transpiler.go:392`) |
| `front_ends_post` | gin and echo take the Quick Start query for a create (`adapters/http/adapter.go:526`) |

Each such run checks the sentence that a comment says, and TLC answers with a behaviour of
the code. The passing runs say what holds instead: for `mongo_delete`, that a delete which
ran alone is exact, that what should have gone and is still there was changed or inserted
meanwhile, and that the counts of all deletes add up to the documents that are gone; for
`include_misorder`, exactly which queries are affected.

The models also show these, each of which a passing property takes into account:

| Where | What happens | Property |
|---|---|---|
| `adapters/mongo/adapter.go:438` | an update searches again with its old filter, so it reports neither a document that it moved out of the filter nor only what it wrote | `UpdateAnswerIsExplained` |
| `transpiler.go:265` | the include `a_b` and the include b under a get one alias | `SimpleNamesHaveUniqueAliases` |
| `dialect.go:32`, `mongo_transpiler.go:83` | limit 0 means no limit | `PageIsTheSlice` |
| `transpiler.go:802`, `mongo_transpiler.go:270` | a patch may set `id`: an id then changes hands without a create, and a row or document found by its old id is gone though nobody deleted it | `GeneratedIdsCollideOnlyInOverlap`, `SuccessIsTrue`, `ReadsSeeEarlierWrites` |
| `mongo_transpiler.go:394` | like is an unanchored, unquoted regular expression in MongoDB and anchored in SQL; % and _ in contains, startsWith and endsWith are wildcards in SQL (`transpiler.go:686`) and quoted in MongoDB (`mongo_transpiler.go:422`) | `PlainClausesAgree`, `SqlRowsAreMongoRows` |
| `transpiler.go:666` | an IN over an empty list selects every row | `PlainClausesAgree` |
| `mongo_transpiler.go:368` | a comparison of two fields compares with an object in MongoDB | `PlainClausesAgree` |
| `transpiler.go:211` | offset 0 without a limit yields no rows in SQL | `PageIsTheSlice` |
| `parser.go:116` | `ParseJSON` drops `skip` and unknown keys, and takes a negative offset and empty `fields`; `Parse` does not. `ParseJSON` refuses 2.0 and 2e0, which `Parse` takes, and `Parse` rounds above 2^53 | `WaysInAgree` |
| `schema.go:239`, `schema.go:253` | `ValidateAll` checks names even if the table has no fields, and does not know `OR`, `AND`, `NOT` in upper case; `Validate` the reverse | `WaysInAgree` |
| `parser.go:234`, `schema.go:402` | an empty nested `include` counts as a level for the parser; for the validator an include without `fields` hides what is below it | `NestingIsCapped` |
| `builder.go:49`, `builder.go:71` | a map with an `and` or `or` that is given to Where twice collects the conditions of both; what is called after Build shows in the query that Build returned (`builder.go:134`); OrWhere joins a list beside which there are other keys, which still hold | `BuiltClauseSaysItsCalls` |
| `manager.go:78` | a `primaryKey` in the file is ignored for a table that was introspected | `KeyedQueriesNest` |
| `manager.go:85`, `manager.go:94` | what an earlier file said stays if the introspector holds its tables | `RelationsHaveASource` |
| `sqlite.go:92` | a foreign key that names no target column makes the whole Load fail | `ForeignKeysAreRelations` |
| `sqlite.go:124` | the hasMany of a foreign key replaces whatever had that name, by map order | `ForeignKeysAreRelations` |
| `transpiler.go:45`, `transpiler.go:116` | an include without root `fields` drops the root's own columns | `KeyedQueriesNest` |
| `transpiler.go:447` | an include's limit counts rows before its filter, and for a hasOne it partitions by a column that its table does not have, an error but in SQLite, where the limit then counts over the whole table; an include's limit 0 is no rows, the root's is none | `LimitsCountObjects` |
| `hydrator.go:57` | text keys that read as one number become one object | `KeyedQueriesNest`, `NothingInventedOrLost` |
| `hydrator.go:283` | an include without its key that has a count or includes of its own is taken for a child where there is none | `NothingInventedOrLost` |
| `adapters/gin/handler.go:65` | with a `resource` parameter nothing is inferred: a DELETE without `op` is a query | `ExplicitRequestsAgree` |
| `adapters/mongo/adapter.go:395` | MongoDB creates in a collection, and sets fields, whose names the SQL side refuses | `ExplicitRequestsAgree` |
| `adapters/gin/handler.go:70`, `adapters/echo/handler.go:37` | `{"from": {...}}` is refused by gin's `NewHandler`, while those of http and echo take `from` for the table; a route parameter makes echo's refuse every body with a key of its own | `RootRequestsAgree` |
| `adapters/http/adapter.go:196` | PATCH and DELETE with the body `null` panic | none: the request gets no answer in `FrontEnds` |

## Fairness

`FairSpec` of both adapters is weak fairness of each request's own steps: the Go
scheduler runs every goroutine, hooks return and drivers answer (or fail, which is
an answer). No fairness is assumed for `Arrive`. Weak fairness is enough for the
pool although waiting goroutines compete: each takes finitely many steps, so in
the end the others stop competing. A hook that never returns, or a driver call
without an answer and without a deadline, is outside this assumption.

## Proofs

Eight modules prove theorems for all values of the constants: every set of
requests, documents, trees, bodies, databases and files, every size of the pool and
of a page, and any faults.

| Module | Theorem | States |
|---|---|---|
| `SqlAdapterProofs` | `TypeCorrect` | `Spec => []TypeOK` |
| | `Inductive` | `Spec => []IInv` |
| | `GeneratedIds` | `Spec => []GeneratedIdsCollideOnlyInOverlap` |
| | `Duplicates` | `Spec => DuplicateOnlyInOverlap` |
| | `Successes` | `Spec => []SuccessIsTrue` |
| | `Refusals` | `Spec => []RejectedHasNoEffect` |
| | `Reads` | `Spec => []ReadsSeeEarlierWrites` |
| | `Connections` | `Spec => []ConnectionsReturned` |
| | `Linearizable` | `Spec => ImplementsAtomicTable`, if `"stream" \notin Faults` |
| `MongoAdapterProofs` | `TypeCorrect` | `Spec => []TypeOK` |
| | `GeneratedIds` | `Spec => []GeneratedIdsCollideOnlyInOverlap` |
| | `MissNothing` | `Spec => []MutationsMissNothing` |
| | `UpdateAnswers` | `Spec => []UpdateAnswerIsExplained` |
| | `LoneDeletes` | `Spec => []LoneDeleteIsExact` |
| | `BooksBalanceInTheEnd` | `Spec => []DeletionsAddUp` |
| `IncludeJoinProofs` | `ParentsFirst` | `Spec => []ParentsJoinedFirst` |
| | `UniqueAliases` | `Spec => []SimpleNamesHaveUniqueAliases` |
| | `OneArgumentEach` | `Spec => []EveryPlaceholderHasOneArgument` |
| | `MisorderedExactly` | `Spec => []MisorderedExactlyAfterFilter` |
| `SchemaCatalogProofs` | `EveryRelationHasASource` | `CatalogSpec => []RelationsHaveASource` |
| | `KeysAreRelations` | `CatalogSpec => []ForeignKeysAreRelations` |
| `PagingProofs` | `ReparseIsTheSame` | `Spec => []ReparseGivesTheSame` |
| | `ClausesAreLegal` | `Spec => []OnlyTheEmptyPageFails` |
| | `OnePageEverywhere` | `Spec => []PageIsTheSlice` |
| | `CapReachesTheRows` | `Spec => []PagesAreCapped` |
| | `TwoWaysIn` | `Spec => []WaysInAgree` |
| | `DepthIsCapped` | `Spec => []NestingIsCapped` |
| `WhereProofs` | `ArgumentsFollow` | `Spec \/ BuildSpec => []ArgumentsFollowPlaceholders` |
| | `TheyRefuseAlike` | `Spec \/ BuildSpec => []RefusedAlike` |
| | `SqlRowsAreInMongo` | `Spec \/ BuildSpec => []SqlRowsAreMongoRows` |
| | `PlainClausesAgreeAlways` | `Spec \/ BuildSpec => []PlainClausesAgree` |
| | `BuiltClausesSayTheirCalls` | `BuildSpec => []BuiltClauseSaysItsCalls` |
| `Recursion` | `RecursiveFunctionExists` | if the parts of every element are less deep, the function exists |
| `FrontEndsProofs` | `WhitelistHolds` | `Spec => []OnlyListedTables` |
| | `OneRootKeyOneMeaning` | `Spec => []RootRequestsAgree` |
| | `ExplicitMeansOne` | `Spec => []ExplicitRequestsAgree` |

The theorems assume what the modules state in their ASSUMEs, which TLC evaluates in every
run. Constants have their types: `InputsTyped`, `StoredTyped`, `FaultsTyped`,
`QueriesTyped`, `NamesTyped`, `FamiliesTyped`, `DatabasesTyped`, `RequestsTyped`,
`AdaptersTyped`, `OptionsTyped`, `ParseBoundTyped`, `CallBoundTyped`. Special values are
no ordinary ones: `SpecialIds`, `NoIdIsNoKey`, `SentinelsAreNoNumbers`, `RootIsNoNode`,
and `NoneIsNoAlias` of the mark for a request without a table; `OriginsAreNoRequests` of
the marks on rows that no request wrote. Ids that clients may use are positive numbers
(`KeysAreNumbers`). The rest says something about the system:

- `IntsAreWide`: the integers of a float64 end below the largest int, and 2^10 times
  higher at most.
- `NullIsSpecial`, `RowsTyped`, `FieldsTyped`, `ClausesTyped`: values are numbers or null
  (a number may stand for a string), no column is called like a logical operator, the keys of a
  JSON object differ, `not` has one clause, and a pattern is what `TextMeans` says of LIKE and
  of regular expressions. `ClausesNest`: a clause is deeper than the clauses in it.
- `SqlLogic`, `MongoLogic`: the databases evaluate what they are sent.
- `BuiltAreClauses`: what builders make within the bound on calls is among the clauses.
  `NilIsSpecial`: no Where, and the reference to the caller's map, are no clauses.
- `StoredKeyed`: MongoDB's unique index on `_id` held before the server started.
- `PoolIsPositive`: there is a connection at all. `HugeIsHuge`: the limit that stands
  for none in MySQL is more than the rows there are.
- `OriginsFinite`, `AggregatesAreFinite`: collections, requests and the aggregates of
  an include are finite.
- `OnIsNoAggregate` tells the mark of an ON clause from that of a subquery.
- `QueriesTyped` and `FamiliesTyped` say that keys of one map differ and that an
  include which has includes has an `include`, as any tree of maps does.

### SqlAdapter

That generated ids collide only in an overlap is not inductive. A collision is made
in two steps, and the first - `SELECT MAX` - leaves its mark only in a local
variable. `IInv` adds

- `ProgressInv`: who has answered and what has run by the time a goroutine reaches
  a phase, which ties `doneBefore`, `ran` and `generated` to `pc`;
- `RowsInv`: a row is an initial one or the only row of a request that ran, so a
  row's `by` identifies it; whoever gave it its id ran too; and an id that `getNextID` made
  is the id of the row it was made for, since a patch of ids gives one from the request;
- `WindowInv`: from the `SELECT MAX` to the INSERT, a row with the chosen id got
  it from a request that had not been answered when this one arrived. It holds
  when the id is chosen, since it is larger than every id there, and others cannot
  break it, since whoever gives a row that id now, by an INSERT or by an UPDATE, has not been
  answered yet.

The proof has a lemma per conjunct (`ProgressStep`, `RowsStep`, `WindowStep`,
`CollisionStep`), each with a case per action, and lemmas on what a statement does
to a table. `Duplicates` is an action property: the conflict that refuses the INSERT
is with a row that `WindowInv` is about.

What an answer says is decided a few steps before it is given, and others go on
writing in between. `AnswerInv` says what a request knows from its statement on:
that it ran, that a created row has the id to be reported (`CreatedAs`), and that a
query's rows are no older than its arrival (`Sees`). Both facts survive what others
do, because after a statement a row either has the id it had, from whoever gave it, or has a
new one from the request that runs the statement (`StatementOrigin`), and that one had
not been answered when this request arrived. `PoolInv` ties a connection to open rows
and to the moment it was free, which gives the bound of `ConnectionsReturned`.

`Linearizable` goes through the mapping one request at a time. Each abstract step has
a lemma (`Submits`, `Settles`, `Applies`, `AppliesAndErrs`, `Succeeds`, `Errs`,
`Stutters`); `Moves` says that a step moves the mapping of its own request only; and
`RequestMaps` assigns to each action the lemma it goes by. It needs `IInv`,
`AnswerInv` and `RouteInv` (bodies without `op` are never in `handleMutation`). The
one fault it excludes is the one that `sql_stream` shows to matter: a stream that
breaks is answered as a success with fewer rows, which no atomic table gives.

### MongoAdapter

`TypeOK` is inductive only with `KeysInv`: the next id is a number because the
collection is finite, and it is finite because no `_id` occurs twice.
`GeneratedIds` goes as for SQL, with a `WindowInv` from the Find to the InsertOne, but
a text id or a failed Find leaves the window open, which is what `blind` records. `IdInv` ties
the request that gave a document its id to what it has done, as `ProgressInv` does for writers.

The other theorems are about commands that are not atomic. Each has an invariant that
says, for one request, what is true of the collection while its command runs:

- `SweepInv`: a document that the running command of `r` is past, and that still
  matches, was written by a request that had not answered when `r` arrived. Another
  request's write keeps it, since the writer has not answered yet. It gives
  `MutationsMissNothing` when the command ends.
- `FoundInv`: the same of the documents the second Find of an update returned, and
  that those it wrote itself have its value. `SweepInv` holds at the moment of that Find.
- `LoneInv`: while no other mutation overlaps, a native delete has still to visit only
  documents that match, and has removed or has still to visit exactly those it found.
  Whoever acts meanwhile only reads, or disturbs it, and what has disturbed it goes on
  doing so (`StaysDisturbed`): the hypothesis cannot become true again.
- `LedgerInv`: the `_id`s in the collection and those removed by deletes are those
  stored and those inserted; no two deletes removed the same; and a request's counts
  and documents say what it wrote. `BookKept` shows every step to be an insert or the
  removal of one `_id` or none.

`DeletionsAddUp` follows from the last two by counting: `PairsCount` says that
disjoint sets have together as many elements as there are pairs of a set and a number
up to its size, which are the deletions reported.

### IncludeJoin

A visit of an include pushes a call, so the invariants are about the stack: a call
works under a JOIN that is in the text (`Anchored`), ranges over what has none yet
(`Ahead`), and no two range over one map. So no include is visited twice, whatever the
order of the ranges, and `PartInv` says of each JOIN that it is at the top level or
hangs on an earlier one and has its alias for a prefix. From that follow
`ParentsJoinedFirst` and, by comparing the last parts of two aliases, `AliasInv`. For a
table or relation with an underscore in its name the argument fails, as the code does.
`CountInv` counts the arguments of each kind against the placeholders. `OrderInv` has
the two sides of `MisorderedExactlyAfterFilter`: until an aggregate follows a filter,
`args` is the placeholders in order; from then on an argument of a subquery stands
behind one of an ON clause, and no later append can mend that.

### SchemaCatalog

`CatalogSpec` is the part of `ReadPath` that is about the schema: the steps of `ReadPath`
are its steps or leave its variables alone. What makes a relation, and what keeps it,
are many steps apart, with a nondeterministic order in between and tables that are
shared from one load to the next. `SourceInv` therefore speaks of the tables while they
are being inferred, of those that the introspector holds and of the schema at once;
`FreshInv` says that tables still to be visited have not met a file. `KeyInv` says how
far the two ends of one foreign key have got: its hasOne is there from the start, its
hasMany once the two ranges are past it. The hypotheses of
`ForeignKeysAreRelations` (`ClearName`) are what keeps other steps from overwriting it.

### Paging

`PagingInv` says that everything a query has become is a function of the body, the
options and the schema; that `Parse` may run again comes down to `RewrittenOnce`. The
theorems are then about these functions, one dialect at a time. `Float64Is` says that
rounding makes integers of integers and leaves those up to `Exact` alone. `ReportAgrees` relates
`Validates`, which stops at the first error, to `ValidateAll`. For `NestingIsCapped` a
tree has paths of any length: the deepest path is found by well-foundedness of finite
sets, not by induction over the tree. In the limits of the options and the schema, zero
and negative numbers both mean no limit, as in the code.

### Where

Nothing happens to a clause but that it is transpiled and tried, so the invariant
(`ResultsAreKept`) only says where the results come from. The theorems are about two
functions that call themselves, on clauses of any depth. TLAPS does not take a
function for what its definition says unless such a function exists; `Recursion`
shows that it does, by piecing together functions that are right up to a depth, and
`SqlWhereIs`, `MongoWhereIs` and `MeantIs` unfold the functions once. What holds of all
clauses is then shown for a shallowest exception (`ShallowestClause`): the clauses in it
are none.

- `ArgumentsFollow`: `Fits` says that the arguments of a result are those its conditions
  remember, in order. Concatenation keeps it (`JoinedIs`, `ArgsFlatten`), and so does each
  operator of a field and each logical operator.
- `TheyRefuseAlike`: an entry is refused by both or by neither if that is so of its
  subclauses (`ErrorsOfEntries`).
- `SqlRowsAreInMongo` and `PlainClausesAgreeAlways`: neither is inductive over the depth.
  Under a NOT, that SQL's rows are MongoDB's turns round, and unknown is not false.
  `SubAgrees` therefore says both: what is true in SQL is selected in MongoDB, what is
  false is not, and on rows without nulls nothing is unknown and both say what the clause
  means. `OperatorsAgree` has this for each operator, of which the patterns are the ones
  that differ (`PatternsAgree`): what LIKE finds the regular expression finds too, and the
  converse only where the clause is `Even`, as everything negated must be; `LogicAgrees`
  for each logical one; `MergedIs` is where it matters that the keys of a plain clause
  differ, since MongoDB's filter is a map in which one part may overwrite another.

### Builder

That a built clause says what its calls say is about a map that others write to, so the
invariant has four parts:

- `HeldIsBuilt`: what a query holds can be made by the calls so far, for any map in the
  middle that the caller's calls can have made of it meanwhile (`Takes`). So whatever is
  built is a clause, and may be unfolded.
- `BeginningsAreKept`: the caller's map is as it was made until it is given away, and for
  good if it has no lists; given once, one query holds it. A map has the keys it began
  with, which is why `OrBeside` may ask about the first one.
- `SaidIsHeld`: what a query holds means what the calls on it say. A call wraps or extends
  the clause (`AddedIs`), which adds one condition to what it means (`MeantOfWrapped`,
  `MeantOfExtended`: the latter needs that nothing is beside an `or`). The case that can
  go wrong is `WritesToCallersMap`, where the clauses of other queries change; then either
  there is no other query with that map, or the hypothesis of the property fails.
- `HandedOver`: what is transpiled is what the query that was asked for holds at that moment; no
  call comes in between, though they may before and after.

The last step is `PlainClausesAgree`. `Inside` is a function defined by recursion on the
number of layers; `InsideLonger` unfolds it as `FlattenSeqIs` does the library's.

### FrontEnds

The two steps of a request come to a function `Outcome` of front end and request
(`Computed`). `OnlyListedTables` supposes that there is a whitelist.
What `ExplicitRequestsAgree` says of gin's `resource` leaves out the empty name and
`favicon.ico`, which the front ends with the table in the URL refuse even if listed.

### Only model-checked

- The liveness properties of both adapters: fairness is out of the prover's reach.
- What `ReadPath` adds to `SchemaCatalog` (`KeyedQueriesNest`, `NothingInventedOrLost`,
  `LimitsCountObjects`): the merge and its reference are written with RECURSIVE operators.


## Not modelled

- The text of statements: quoting, grouping, distinct, the stages of a MongoDB
  pipeline. Nothing in the state depends on it; the databases' reading of it is in
  `Store`, `Paging`, `ReadPath` and `Where`.
- An include's sort: children have no order in `ReadPath`. The rows of its window
  function are numbered by id, the default.
- The setters of the query builder that only set or append to one field of their
  query, and the mutation builder, which fills a record.
- `BuildRESTMutation`, a pure function that no code of the repository calls.
- Opening and closing of drivers.
- Isolation levels: a statement is atomic. The adapter runs single statements, and
  the databases it supports make each of them atomic.
- Factory, logger, type declarations, the DDL command: no state that later steps
  depend on.

## Plan

1. `ReadPath`: the merge of one level of the hydrator without recursion, and
   `NothingInventedOrLost` for trees of one level.
2. An abstract specification of a collection, which `MongoAdapter` implements where
   mutations do not overlap.
