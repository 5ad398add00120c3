# Verification of mirk

mirk is a set of TypeScript packages for local-first storage: a key-value and
record store with several backends (`packages/store` and the `store-*`
packages), artifacts whose bytes and metadata live in different stores
(`packages/artifact`), migration between stores, statements, and layered
fixtures. This directory holds TLA+ models of the parts where several callers,
processes or failures meet, or where several backends promise the same, TLC
configurations that check them on small instances, and proofs, checked by
TLAPS, of what holds for every instance.

Paths below are relative to the repository; `coordination.ts`,
`transaction.ts`, `atomic.ts`, `adapters/sqlite-core.ts` (`sqlite-core.ts`),
`sql.ts`, `graph.ts`, `namespace.ts` and `backends/memory.ts` are under
`packages/store/src`; `coordinator.ts`, `store.ts`, `memory.ts`, `fs.ts` and
`maintenance.ts` are under `packages/artifact/src`; `libsql-core.ts` is under
`packages/store-libsql/src`, `postgres-adapter.ts` under
`packages/store-postgres/src`, `storage.ts` under `packages/surreal/src`, and
`index.ts` is `packages/migrate/src/index.ts`.

## The system

| Component | State it keeps | Operations | Meets others through | Module |
|---|---|---|---|---|
| Coordination leases (`coordination.ts`) | lease and generation rows in a SQLite file; a promise queue per process and key | `runExclusive`, the guard's `assertOwned` and `signal` | processes sharing the file, abort signals, a renewal timer | `Coordination` |
| Async transactions (`transaction.ts`) | a tree of scopes bound to async contexts, registered callbacks | `transaction`, `afterCommit`, `withConnection` under every store call | SQLite, libSQL and Postgres adapters; code that was not awaited | `AsyncTransactions` |
| Atomic mutations (`atomic.ts`, `sqlite-core.ts`, `backends/memory.ts`) | values, version tokens, a version sequence, idempotency receipts | `getVersioned`, `mutateAtomically`, `pruneExpiredReceipts`, the plain writes | other processes on the file; transactions around the calls | `AtomicStore`, `MemoryStore` |
| SQLite adapter (`sqlite-core.ts`, `sql.ts`) | tables with hashed names and their registry, caches of what exists, a queue per file | every store call, synchronous and awaitable; `transaction` | processes and adapters on one file | `SqliteTables`, `Logs`, `Queries` |
| Filters, order, paging | none | `list`, `count`, `keys`, IN lists | six backends that promise one answer | `Queries` |
| Graph (`graph.ts`) | edges, as records | `put`, `remove`, `neighbors`, `traverse` | writers beside a walk | `GraphTraversal` |
| Vectors, full text | documents, the pinned dimension; postings and counts | `upsert`, `index`, `remove`, `search` | five and two stores that promise one answer | `VectorStores`, `SearchStores` |
| Append-only log (`log/`, `SqliteLogFacet`) | numbered rows per stream | `append`, `appendMany`, `read` | transactions of several processes; consumers | `Logs` |
| Namespaces (`namespace.ts`) | none: prefixes on keys, tokens and receipts | every store call | handles of other namespaces on the store | `Namespaces` |
| Postgres adapter | rows, receipts, a sequence, sessions with an advisory lock | `transaction`, `mutateAtomically`, plain calls | connections that break at any statement | `PostgresAdapter` |
| libSQL and Turso adapter | as SQLite, over a network; a version floor | as SQLite | servers that drop transactions; adapters of one file | `LibsqlAdapter` |
| IndexedDB adapter | an IndexedDB database, a connection per page | store calls, export and import | pages of several releases, upgrades, lost connections | `IndexedDb` |
| SurrealDB, Qdrant | records, edges, vectors; uploads, generations and chunks | store calls, `put`, `get`, `delete` of objects | statements outside any transaction | `SurrealObjects`, and the comparisons above |
| Markdown store | one file per record, an index, git | `put`, `set`, `remove` | people who edit the files | `MarkdownFiles` |
| Artifact repository (`store.ts`, `memory.ts`) | records, lineage edges, idempotency receipts, object leases | `create`, `updateAnnotations`, `delete`, `addLineage`, leases | calls that overlap; repairs | `Lineage`, `ObjectLeases`, `Artifacts` |
| Artifact coordinator | objects and records in two stores | `write`, `import`, `delete` | two stores without a common transaction; other coordinators | `Artifacts` |
| Artifact maintenance | audit snapshots | `audit`, `planRepair`, `applyRepair` | live writers | `Artifacts`, `Lineage` |
| Object stores (memory, files, OpenDAL, Vercel Blob) | objects, sidecar files | `put`, `head`, `delete`, `list` | one another on a key; failures of source and service | `ObjectStores` |
| Migration (`packages/migrate`) | checkpoints, saved by the caller | `migrateStore`, copies of manifests, resumption | a source that grows; jobs that share destinations | `Migrate` |
| Statements | revisions, heads, receipts in SQLite | `admit`, `revise`, `retract`, backfill | processes whose lease ran out | `Statements` |
| Fixtures | three caches over files and stores | `load`, `materialize`, `validateAll`, `seed`, `invalidate` | hosts of one loader; edits of the files | `Fixtures` |
| Encryption, canonical JSON, the Python port, conformance suites, scripts | – | – | – | not modelled |

What is hard: leases whose owner stalls past its expiry; queued callers that
give up; transactions with work nobody awaited; rollbacks under a caller that
kept a version token; retries around an expiring receipt; a commit whose answer
is lost; a crash between the object and its record, between a file and its
index, or between two statements outside any transaction; a repair beside a
writer; a cache of what a rolled-back transaction created; several languages
that have to filter, order and rank alike.

## The modules

### `FencedLock`, `Coordination`

`FencedLock` is what `runExclusive` promises for one key: at most one owner, a
fencing generation above every earlier one at each grant, and an owner that
ends by giving the lock back or by its lease running out.

`Coordination` is the code. The database rows are `lease` and
`lastGeneration`; the `#queues` map is `tail`, with `ahead` and `freed` for the
promises chained in it; `pc` is how far each call of `runExclusive` is. One
action is what a process does between two awaits: entering the queue (`Start`),
its turn or the timeout there (`TakeTurn`, `QueueTimeout`), one `#tryAcquire`
transaction (`Acquire`, `AcquireMissed`, `AcquireThrows`), the pause, the entry
into the work, the renewal timer, `assertOwned`, the end with its release, and
the caller's signal. Processes crash at any time. Two clocks are kept apart:
the wall clock (`options.now`), which expiries are read from and which may be
set, and the timers, which count elapsed time. A process in `Punctual` runs
what is due before time goes on; any other may stall for as long as it likes.

One key of one namespace is modelled: keys share no state but the file, whose
write lock makes every transaction one step.

### `AsyncTransactions`

`AsyncTransactionCoordinator` with one outermost transaction and any tree of
nested ones. A scope's fields are `active`, `childActive`, `rolledBack`,
`unsafe` and its tail (`queue`); its context outlives it, so store calls,
registrations and nested transactions may come from any context at any later
moment, as they do from promises nobody awaited. The connection keeps a
savepoint stack; statements may throw (`Faults`): BEGIN or SAVEPOINT, COMMIT
or RELEASE, ROLLBACK TO or the RELEASE after it. Callbacks are registered and
delivered as sets: no property asks for their order.

### `AtomicStore`

The SQLite store's versioned values, conditional batches, receipts and the
transactions around them. A call inside a transaction is one action, because
SQLite serializes writers. `getVersioned` of a value that has no version yet is
three statements when it runs outside a transaction in another process
(`Look`, `Mint`, `Enter`). `RollBack` is `rollbackKeepingVersions`, which moves
the version sequence past what the undone work minted; `Crash` is the death of
the process; `RolledBackBySqlite` is a transaction that SQLite itself ends on a
full disk or an I/O error. The variables `serial`, `issued` and the fields
`applied` and `consumed` are history for the properties: who wrote a value,
which tokens were handed out, which keys were applied, which versions were
consumed.

### `ObjectLeases`, `Artifacts`

`ObjectLeases` is the leases of one object as the reference repository decides
them (`memory.ts`), each decision in one step, with callers that pass any time
they may have read before. Its reference check is left out: over a store that
check is a separate read.

`Artifacts` is the coordinator's `write`, `import` and `delete`
(`coordinator.ts`) and the repair of unreferenced objects
(`maintenance.ts`: `audit`, `planRepair`, `#deleteOrphan`), over the repository
of `store.ts` and an object store. What the calls ask for is chosen at the
start among the constant `Requests`. `call[c].pc` is the request a call makes next: one action
is its answer, and what the call does with it. The lease row of an object is
read (`Acquire`, `Renew`, `Release`, `Commit`) and written on the condition
that it is still the row that was read (`Claim`, `Renewing`, `Releasing`,
`Committing`); instead of a version number, `fresh` holds the calls whose read
is current. `now` is read before the request it goes with, so a call may decide
with a time that has passed. The object store refuses, loses its answer, fails
without saying what happened, or fails to delete (`Faults`); calls in `Fragile`
may die anywhere. `objects` changes in the steps of the coordinator and the
maintenance only: applications that delete objects behind them are not
modelled. `Prompt` is an assumption on the object store: a deletion is carried
out before the lease that was renewed for it runs out. Without it a deletion
may land on an object that was imported since, and the package's README says
that leases are no transaction with the object store.

`read` and `verify` change nothing and are not modelled. Bytes stand for their
digest and size, and a request's metadata is its source.

### `Migrate`

`migrateStore` and the copies of manifests (`index.ts`), called by jobs. Each
lane has its entries numbered in the order in which they are read, since the
code counts them; `copied` is what a destination holds of them, `saved` the
checkpoints a job's callback stored, `run` the call that is under way. One
action is one request: a page that is listed (`Page`), an entry that is written
(`Put`, `Entry`), the end of a manifest (`Exhausted`), a checkpoint that is
saved (`Checkpoint`). Any request may throw or the process die (`Stop`), and
calls are made again with the checkpoints of any job (`Start`), which
`normalizeResume` accepts or refuses by their plans; a checkpoint without a plan
names no destination, and passing it to a job that has another is left to the
caller (`CallersDuty`). Sources only grow, at their end: the package asks for
the same order on every run. A repeated write is an upsert, so an entry is there
or not.

### The backends: `PostgresAdapter`, `LibsqlAdapter`, `IndexedDb`

`PostgresAdapter` is clients on any number of hosts. A session is one attempt of
a client and stays with the server until the server ends it, whatever became of
the client: `queue` is the order of the requests for the adapter's advisory
lock, `draft` what the holder's transaction sees, `sent` a COMMIT the server has
but the client does not know of. A connection breaks at any statement, the
server ends sessions that are idle in a transaction, and the client decides by
what it knows whether to try again, to look for its receipt, or to say that it
does not know. `named` is history: every version with its value.

`LibsqlAdapter` is write transactions of adapters on a server, or on one file
beside other processes: the lock per file and its use count (`entry`), `BEGIN`
with its retries, operations in savepoints, commit and rollback whose answers
may be lost, the version sequence that a rollback has to commit, and the floor
the adapter remembers where it could not.

`IndexedDb` is pages that open one database, upgrade what an earlier release
left, are blocked by it, lose connections, and make each call in one
transaction, which may abort; export and import with the checks an import makes.
Only the IndexedDB rules the code relies on are assumed: read-write transactions
run one at a time in the order they were made, an abort takes back every write,
and an upgrade waits for older connections.

### The SQLite file: `SqliteTables`, `Logs`

`SqliteTables` is how processes find and remember the tables of collections and
search indexes: candidates by hash, the registry, what `ensure` creates, the
caches of the synchronous and of the libSQL adapter, in blocks that commit or
roll back. Every statement is a step.

`Logs` is the append-only log in memory and in SQLite, and with it the
transactions of the SQLite adapter: deferred, immediate and awaitable ones,
nested ones (savepoints), the queue of awaitable units per file (`line`), and
the refusal of synchronous calls while another context's unit is open. A unit is
a synchronous caller, which leaves its process no other step, or an awaitable
one. `rows` are the committed records, `unit[u].view` what a transaction sees;
the holder of the write lock is `writer`. Consumers read past the last sequence
they saw, and mailers append what they sent in the transaction that read it.

### One promise, several stores: `Queries`, `GraphTraversal`, `VectorStores`, `SearchStores`, `MemoryStore`

In these the in-memory store is the abstract specification, as the repository's
conformance suites treat it, and the property is that each backend answers as it
does, in its order.

`Queries` has the translations of filters, IN lists, order and pages of memory,
SQLite (and libSQL), Postgres, IndexedDB and SurrealDB, over values of every
JSON type, null and missing, with contents that grow, shrink and are put again
(which keeps the place of a record in some of them by a counter and in others by
a row). It finds them agree but in one thing, which
`PrefixesAreLiteralButForCase` states: `keys(prefix)` of SQLite and libSQL is a
`LIKE`, which folds the case of letters, so it also returns keys that begin with the
prefix in another case, although the code says that the prefix "matches LITERALLY
(startsWith)" as in the reference (sqlite-core.ts:941, libsql-core.ts:1007).
`GraphTraversal` compares the walk that loads every edge, the one that
asks at each hop, and SurrealDB's, while edges change: a walk that was overtaken
has to be explained by edges that were there at some moment of it.
`VectorStores` compares the searches of five stores, their filters and their
dimensions; Qdrant pages by scores in single precision until no document of the
true answer can be missing. `SearchStores` asks the in-memory search and two
adapters of one SQLite file for the same: bm25 is some function of the counts
both keep, so what is compared is whether these are kept alike. `MemoryStore`
makes the same mutations of the reference store and of SQLite, with the checks
and the digest of a request (`atomic.ts`), retries that list their conditions in
another order, and a clock that passes the retention.

### Names: `Namespaces`

Handles of several namespaces on one store. Strings are sequences of code
units, because the question is one of characters: whether what one handle
prefixes is ever taken for another's. `WellNamed` says which names the code
accepts (`assertNamespace`). `KeysAreOwn` is said of a store whose `keys(prefix)`
compares as the reference does; over SQLite or libSQL the handle of `A` also lists
the keys of `a` (see `Queries`).

### Objects: `ObjectStores`, `SurrealObjects`

`ObjectStores` is the stores in memory, in files, over OpenDAL and on Vercel
Blob: puts of two chunks, conditional or not, whose source or service fails or
whose process dies after any of them, deletions, and lists, at once on one key.
`store` is the kind; a service behind OpenDAL checks a conditional write when
the writer opens (`early`) or closes (`late`). `witness` is history: what the
calls saw and were told. The code and its words part in one case, which
`RefusedPutsLeaveNothing` names (`MayLeaveItsEmptyObject`) and `objects` reaches:
on an `early` service a conditional put whose source fails before its first chunk
is answered with `ObjectWriteRejectedError`, and the empty object that the writer
made stays (artifact-opendal/src/index.ts:177 removes only if `wroteAny`), while
index.ts:76, the package's README.md:134 and artifact/src/errors.ts:92 say that
nothing of the write remains. Later conditional puts of the key are refused.

`SurrealObjects` is one key of the object store in SurrealDB: uploads with a
lease that is renewed, generations of chunks, the pointer, streams that keep a
superseded generation, and scavenging. Each statement is an action. A get reads
the pointer and retains what it names after an await (`Get`, `Retain`), and
`#gcGeneration` looks for streams once (`Gc`, `FindCurrent`), so a get that overlaps
a replacement may retain a generation that somebody drops: history marks it `late`
(`IsDropped`), and its stream may throw. `StreamsAreWhole` is of all others.

### Files: `MarkdownFiles`, `Fixtures`

`MarkdownFiles` is a directory of records, with or without an index, git and a
section or field for the body. A text is the sequence of its lines, so the
editing of sections is the code's; people save, rename and remove files between
the steps of a mutation or beside it.

`Fixtures` is the loader: layers in their order, the three caches and the loads
that await a listing, a file and a parse, the merging of patches, references,
validation, and seeding of a store. Hosts share a loader, change files and
invalidate.

### Claims and lineage: `Statements`, `Lineage`

`Statements` is `admit`, `revise` and `retract`, each in one deferred
transaction under a lease that a stalled process may lose, with receipts,
idempotency conflicts and the marks of a backfill.

`Lineage` is the repository's records and edges, in memory and over a store, and
the audit and repair of both. `job[p].pc` is the request a call or a repair
makes next. The repairs of one plan run together, as `Promise.all` does. `met`
is history: which calls of the application overlapped; `doubted` and `harmed`,
what was unsound at some moment while repairs were under way, and what they
removed otherwise.

### `MCParts`

The modules of this section share no state, so one composite module checks them
side by side: a behaviour is one of one part, which the initial state chooses
(`part`), and the variables of the other parts are idle. Each property says of
every part what the part's module says of it, under one heading: for example
`VersionsStandForOneValue` is a property of five modules. The cases of each part
(what is stored at first and what is asked) are in the `...Cases` modules;
`Marks` has the model values they share.

### Definitions marked "Bug:"

Beside some definitions stands a variant with a plausible mistake (a release by
key, a sequence that is rewound, a callback list filtered by one scope only).
No specification uses them. Each property below was checked to fail when the
definition is replaced by such a variant, so none holds merely by the shape of
the model.

## The runs

| Run | What it shows | Instance |
|---|---|---|
| `coordination_safety` | one owner, growing fencing generations, nobody touches a successor's lease, an abort is never lost | 3 calls in 2 processes, every call may throw, crash, stall; clock set back; one owner token for all |
| `coordination_punctual` | refinement of `FencedLock`; punctual work keeps its lease; no lease stands for a call that ended; a waiter is granted or gives up; work that lost its lease is told | the clock only goes on, process A punctual, fair event loops, work may last for ever |
| `coordination_local_queue` | violation, see below | 3 calls in one process |
| `async_transactions` | durable = issued and kept by every `transaction()` around it; callbacks exactly for that; statements land in their own savepoint | 3 nested transactions in any arrangement, 1 write, 1 callback, all faults |
| `atomic_store_versions` | a token names one value for ever; one winner per version | 2 targets, 4 tokens, 3 writing calls, 2 levels of transactions |
| `atomic_store_receipts` | applied once per window; work in force answers its retries | 2 keys, 2 writing calls, receipts of an earlier release, batches of 1, window 1, clock to 2 |
| `atomic_store_readers` | violation, see below | as `atomic_store_versions` |
| `artifacts` | records have bytes; one artifact per key; failed writes leave nothing; the lease rows decide as `ObjectLeases` | three scenarios of three calls, see below; every fault of the object store, one caller may die |
| `artifacts_twins` | violation, see below | two writes under one id, no fault, no time |
| `migrate` | checkpoints count what was copied; a call that returns missed nothing; resumed jobs finish | 3 jobs, 2 destinations, a collection and a manifest of 2 to 3 entries, batches of 2, 1 interruption |
| `parts` | what the modules of `MCParts` promise, and that what was asked of Postgres, of nested transactions, of lineage and of logs ends | the cases of 18 parts, see below |
| `libsql_floor` | violation, see below | three clients of one adapter on a server that drops transactions |

Bounds. Three calls of `runExclusive` are the fewest with an owner, a waiter
that gives up and a third that arrives after it; two of them share a process
for the local queue, one is elsewhere for takeovers. The clock reaches past two
leases, enough for an expiry, a takeover and the old owner's return. Three
nested transactions allow siblings, a child of a child, and one queued behind
another. Two targets let a batch hold a condition on one and write the other;
three writing calls let two race and a third follow; two levels of transactions
are an inner rollback kept by an outer one, and the reverse. A window of one
with a clock of two reaches ages below, at and past the edge, and batches of
one leave an expired receipt behind whenever two have expired.

One write suffices in `async_transactions`: writes do not influence one
another. In `artifacts` the calls are an import of an object, the deletion of
its only artifact and a repair of it (`Shared`); two writes of one idempotency
key and the deletion of what one of them made (`Retried`); or a write that
finds left-over bytes at its object, the deletion of its source, and a repair
of those bytes (`Adopted`). A lease of two ticks and a clock of two let every
lease expire once while its holder goes on, and two attempts let a row be lost
once and be tried again.

In `migrate` two jobs have plans that differ in their destination only and one
has no plan, so that checkpoints are accepted, refused and upgraded between
them; entries of one full batch and of one more reach both ends of a lane, and
growth turns the one into the other while a copy is under way.

The parts of `parts`:

| Part | Module | Cases |
|---|---|---|
| `postgres` | `PostgresAdapter` | 3 clients, one of which may freeze; one key from two clients, one version from two, an expiring receipt, a receipt and a column of an earlier release, plain calls beside `transaction()`; 2 attempts, 2 faults |
| `libsql` | `LibsqlAdapter` | 3 clients of one or two adapters on a server; a server that drops transactions; a file with three adapters that close; an adapter closed in the middle |
| `indexeddb` | `IndexedDb` | 2 pages beside one of an earlier release; two calls at once, receipts at the window, lost connections, imports |
| `tables` | `SqliteTables` | 2 processes, names that share a hash, blocks that roll back, 5 attempts |
| `queries` | `Queries` | 3 records, 4 shapes of data, every filter, order and page of `QueryCases`, 3 steps |
| `fixtures` | `Fixtures` | 2 hosts, 3 paths, 2 types; shared paths, patches in three layers, equal priorities, a patch of itself, references in a circle, broken files, a source that is down |
| `nesting` | `AsyncTransactions` | 2 nested transactions and a write, for liveness |
| `statements` | `Statements` | 2 writers of one or two claims, stalls and crashes, answers of an earlier release |
| `objects` | `ObjectStores` | 5 kinds of store, 2 or 3 calls on one key, every failure |
| `streams` | `SurrealObjects` | puts, deletions, reads and scavenging in one or two processes, leases that run out |
| `walks` | `GraphTraversal` | 3 nodes, 3 edges in a line, a circle with a loop, or a fork; one edit during the walk; depths 0, 1.5 and 2 |
| `documents` | `MarkdownFiles` | 3 records whose names differ in their case, 3 mutations, 1 edit by people between or during them |
| `vectors` | `VectorStores` | 4 ids, ties, vectors without direction or of other dimensions, two clients |
| `namespaces` | `Namespaces` | the namespaces `a` and `a\0`, names that begin with separators |
| `lineage` | `Lineage` | 3 artifacts, 6 edges; 2 or 3 calls at once; plans with several repairs, alone and beside a call |
| `logs` | `Logs` | 3 units in 2 processes, of every kind of transaction, nested, in memory and in a file |
| `memory` | `MemoryStore` | 3 targets whose names run together, retries, faulty requests, retention 1, a clock that may be set back |
| `texts` | `SearchStores` | 3 documents, 2 terms, texts and fields, batches with a bad document, an index of an earlier release |

Two calls or clients race for one key, version, object or edge in every part
with concurrency, and a third follows or reads where an answer depends on it.
Each limit is reached from both sides: an attempt that is repeated and one that
is the last, a receipt before, at and after its expiry, a page that ends with
the list and one before its end, a full and an empty filter.

Fairness. `Coordination`'s `FairSpec` lets event loops run what is due and time
pass; nothing makes work end or a caller stop retrying. `AsyncTransactions`
assumes that statements are answered and work ends: a call cannot settle
otherwise. `Migrate` lets a call under way go on, and assumes that an
interrupted job is called again with what it saved; interruptions are bounded
(`MaxStops`). In `parts` each of four parts has weak fairness of what goes on by
itself: the Postgres server and the clients that are not frozen, the statements
and the work of a `transaction()`, the requests of artifact calls and repairs,
and the steps of log units. Faults, deaths and the clock are not among them, and
the number of faults and attempts is bounded. The safety runs assume nothing.

## What the code does otherwise

* `coordination_local_queue` – `#enterLocalQueue` deletes the process's queue
  entry when a *waiting* call gives up (`coordination.ts:303`), although the
  call it waited for still runs. The next call of the process finds no queue,
  and is granted the lease once it expires, while the earlier work still runs.
* `atomic_store_readers` – outside a transaction, `readVersionedTarget` reads a
  value, takes a number and enters it in three statements
  (`sqlite-core.ts:1257`). Another process's write in between ends up under the
  token the reader was given for the value before it.
* `artifacts_twins` – under a deterministic id a retry may overlap the write it
  retries: one adopts the other's bytes, and whichever fails deletes the object
  of the one that commits (`coordinator.ts:490`).
* `libsql_floor` – `begin` reads the adapter's version floor before it waits for
  its turn (`libsql-core.ts:518`). When another transaction's rollback cannot be
  confirmed meanwhile, the waiting one begins with the old floor and hands out
  the numbers of the undone work again.

The first three need two or three calls and no fault. `RecordsHaveBytes`
therefore holds of writes whose ids are their own, which is what `artifacts`
asks for.

More behaviours were met while modelling. The definitions have them, and no run
asks about them:

* `rollback` returns before it moves the version sequence when SQLite has already
  ended the transaction, on a full disk or an I/O error (`sqlite-core.ts:474`;
  `RolledBackBySqlite`), and a token given out in the undone work is minted
  again: `TokensStandForOneValue` does not hold with `AutoRollback` in
  `AtomicStoreVersions.cfg`. The package's README (682) says that such a token is
  never issued again.

* `getVersioned` of the Postgres adapter reads a row that an earlier release left
  without a version, and gives it one, in two statements
  (`postgres-adapter.ts:506`, `backfillVersion` at 791). Outside a transaction
  another client may write the row in between; the version is then that of the
  write (`COALESCE`), and the value the one from before it (`ReadAlone`). `parts`
  asks for no such write, and the proofs exclude it (`ReadsAreQuiet`).
* `mutateAtomically` of the Postgres adapter answers that its outcome is
  indeterminate when it knows the error that `COMMIT` raised (`INDETERMINATE_CODES`,
  `postgres-adapter.ts:142`). Another, as the driver's "Query read timeout", is
  thrown as it is although the `COMMIT` may have taken effect (`"lost"` in
  `OutcomesOfLoss`), as `transaction()` throws all of them. The package's README
  (190) says of every connection failure during `COMMIT` that the call throws
  `AtomicMutationIndeterminateError`. `AnswersAreTrue` asks nothing of such errors.
* `releaseObjectLease` makes one attempt. When another holder changes the row in
  between, a write or an import throws and its record stays
  (`coordinator.ts:251`; the outcome `"unreleased"`).
* An import that is replayed deletes the object it was asked to register
  (`coordinator.ts:437`; `Drop`).
* A retry is answered from the record of a write whose lineage is still to come,
  and the record goes when the lineage fails (`coordinator.ts:100`; `Prior` and
  `Undo`).
* Objects. A conditional put over OpenDAL whose source fails after its first
  chunk deletes the key (`packages/artifact-opendal/src/index.ts:178`). On a
  service that checks the condition when the writer closes, the object there may
  be another writer's; the package's README (131) says such an object is left
  alone. `StoredObjectsStand` is therefore asked of every store but `late`.
* The object store in SurrealDB. When a put dies or fails between the upsert of
  the pointer and the deletion of its upload, scavenging takes the generation
  the pointer names; so it does when a process renews an upload whose lease ran
  out while another scavenges. In two processes `ifAbsent` is a look and a write,
  and superseded generations may stay. A stream nobody consumes keeps its
  generation. `PointersHaveBytes` and `NoOrphans` name these conditions. A get that
  overlaps a replacement may be answered with a stream that throws
  `generation-chunks-missing` (storage.ts:203-206, `late`).
* Graphs in SurrealDB. The nodes of a native traversal ignore `edgeTypes` and
  the filter of edges; a fractional depth is rounded down where the others round
  up; a put is a deletion and a relation, between which a walk misses the edge.
* Vectors. For `whereNot` with several fields SurrealDB excludes what equals any
  of them, the others what equals all (`vector/types.ts:50`). The libSQL index is
  asked for a bounded surplus, and may miss results that a filter leaves
  (`libsql-core.ts:1667`). SQLite without declared dimensions accepts a first
  batch of mixed ones (`sqlite-core.ts:1398`); SurrealDB with declared ones never
  records them, and answers a query without direction with nothing.
* Search. A transaction that rolls back leaves the facet remembering a table that
  is gone (`sqlite-core.ts:1773`): its next search says "no such table" until the
  file is opened again. A batch with a bad document is refused whole by SQLite;
  the in-memory store keeps the documents before it.
* Lineage. Overlapping calls of `addLineage` close a cycle, although an edge that
  would is said to be rejected (README of the package, 129): each looks before
  the other puts. An edge put while one of its ends is deleted stays, and
  `updateAnnotations` brings back a record that was deleted under it. The repairs
  of one plan each look whether their edge is on a cycle and then remove it, at
  the same time, so that all edges of the cycle go. Edges that lead into a cycle
  are reported and kept, edges between two missing records are never found, and
  one audit and repair need not be enough.
* Markdown. `writePreamble` loses the line break before what follows; a body
  read back from a field begins with a newline; a value that holds a heading is
  cut there; an edit that people save during a put is lost; one corrupt file
  blocks the collection; a renamed file is listed and not found by its id.
* The in-memory store keeps the caller's object and hands out its own, so that
  editing it changes a stored value under an unchanged version. Receipts of one
  moment, or of a clock that was set back, may be pruned in another order than
  SQLite's, and a retry then be decided differently. `StoresAgree` states when
  the two have to agree.

## What is proved

`Coordination_proofs`, for any number of calls, processes and tokens and any
times the code accepts: type correctness, `OneOwner`, `FencingMonotone`,
`LiveLeaseIsItsOwners` under all faults and clock settings; and, while the
clock is not set, `PunctualOwnerKeepsLease` and the refinement of `FencedLock`.
None of these is inductive alone. The invariant says that every generation in
use was once `lastGeneration`, that generations are unique to calls, that a
lease row carries the last generation, and, for the punctual properties, that
the renewal timer fires before the lease runs out.

Two more say how calls end. `AbortReachesTheGuard` is inductive with the types,
in every order of grant, guard and signal. `NoLiveLeaseLeftBehind`, while the
clock is not set, needs the unique generations: a lease that has not run out
belongs to a call under way, or to one whose process died or whose release failed.

The module also proves `Statements`, for any processes and requests, whatever is
decided, stalls or dies, under `StatementsWellFormed`: the file is one that processes
of this or an earlier release leave, the requests are about statements there are, and
the marks for nothing are no values. Type correctness and the four safety properties
hold: histories are whole, models are held back, revisions have receipts and answers
are stable. The invariant is `SoundLog`, said of the file and of what each transaction
under way read. `Answered`: a row names its request, a key and a kind have one receipt,
and a conflict stands beside a receipt of another request. `Whole`: the events of a
statement are its revisions up to its head, each once, and a terminal one is the last.
`Receipted`: a revision past the first is the commit of exactly one receipt. A process
that reads and then commits does so on the file it read, for whoever is not told of
another's write sees the file as it is. The leases are not needed for this: it holds
of processes that lost theirs.

And it proves `ObjectStores`, for any calls, keys and stores, whatever fails or dies,
under `ObjectsWellFormed`: calls are of keys and stores there are, and the marks for
nothing and for earlier calls are none of them. Type correctness and the six safety
properties hold, `StoredObjectsStand` as in `objects`: on all but services that look
when the writer closes. Each step is first reduced to a named effect (`ObjectStep`), and
the invariant is then shown of the effects. `Traces`: a chunk under a key is of a put
that wrote it and was not refused; `Made`: so is the object itself, or it is that of
`MayLeaveItsEmptyObject`; so refused puts leave nothing else. `Standing` and
`Undisturbed`: while nobody has begun to delete or overwrite a key, what stands there
is whole or belongs to one call still at work, so every other conditional put finds the
key occupied. `Exclusive` and `Paired`, under leases: while a deletion is under
way nothing but lists is, and a sidecar is of the bytes beside it until a deletion has
taken them, because a conditional call that writes found none. `Counted`: the claims,
with the object that is there, are no more than what stood before and the puts that may
have landed. `FairLists` relates the pages a list has had to the keys there while it ran.

`AsyncTransactions_proofs`, for any number of transactions, writes and callbacks,
whichever statements throw, with `ScopesAssumption` alone: type correctness and
the four properties of `async_transactions`. While the process lives, the
transactions that have a place on the connection form one line, each nested in
the one before it (`OneLine`). That rests on the queues, in which a transaction
goes on only when those before it are over (`Turns`), and on parents that wait
for what is nested in them before they settle (`Phases`, `Held`). Therefore the
savepoints lie on each other in the order of the nesting (`Stack`), each holds
what was written outside its scope (`Saves`), and rolling back to one undoes the
writes of its scope and no others. `Effects` follows: until a rollback fails,
what the connection holds is what was issued in scopes that were not rejected.
Savepoints that a failed statement left behind are why `Stack` speaks of scopes
that have a place, and why `Saves` and `Effects` say nothing once the outermost
transaction can only be rolled back (`unsafe`).

`AtomicStore_proofs`, for any targets, keys, requests and nesting: type
correctness; and, where no other process reads outside a transaction and SQLite
ends none by itself (the behaviours above show that both are needed),
`TokensStandForOneValue` and `OneWinnerPerVersion`. The inductive invariant
`VersionsInv` states the soundness of the tables against the tokens given out
not only for the tables but for every savepoint a rollback may return to, and
that the sequence is past every token given out. A number that a rollback
returned would break it exactly in the step of `RollBack`.

The receipts need neither condition. `InForceMeansAnswered` and
`AppliedOncePerWindow` follow from `ReceiptsInv`: in the tables and in every
savepoint, a key has a receipt, of the time when it was applied, unless it never
was applied or its window is over; and no savepoint has seen a later application
of a key than the tables or a savepoint above it. Pruning removes a receipt only
after its window, and a rollback takes the application back with the receipt.
`MarkersAssumption` says that the marks for a missing time and a missing receipt
are none of the times and receipts.

The module also proves `IndexedDb`, for any pages, setups, targets and keys that
`IndexedDbWellFormed` describes (the rows, versions and receipts that a store of some
schema may have left, and calls on targets there are): type correctness and the five
safety properties `parts` checks of it. The invariant (`Inductive`) has a part for each
thing the code relies on. `Connections`: a connection is open only for an adapter in
use, and the schema is current while one is, or a transaction waits, because an upgrade
waits for older connections. `Lines` and `Drafts`: each page is in the line once,
only the first may have written, and the times the pages read are in the order of the
line. `VersionsNumbered`: a version given since the last import is numbered below the
counter, which an import never sets back behind the rows it brings, so it stands for one
value (`Stand`). `ReceiptsKept`: an application of a keyed request is remembered by a
receipt until every transaction that is in the line, or may yet come to it, is past its
window. The order of the times makes this inductive: a page that read the time early
has its turn early. `Told` says that what a page was told is what its transaction did.

`Artifacts_proofs`, for any calls, requests, stores, faults and bounds that
`ArtifactsAssumption` allows:

* type correctness (`ArtifactsTypes`);
* that each object's lease row implements `ObjectLeases`
  (`ArtifactsImplementObjectLeases`): what `store.ts` does in a read and a
  conditional write, with a time read before either, is one decision of the
  reference repository or none. Most of the invariant is `Decided`: what a call concluded from the
  row it read (that nothing refuses it, that its lease is live) is true of the
  row while that read is current, and the call writes only then. `Placed` says
  what a call has at each place, `Single`, `HeldInMode` and `NoneYet` that a call
  has at most one lease in a row, in its own mode, and none before its grant,
  without which a renewal could change more than one lease;
* that a deleter's lease is the only one of its row (`DeletersAreAlone`) and that
  no record is made beside it (`NoCommitBehindADeleter`). Both are proved of the
  steps of `ObjectLeases`, for any times its callers read, and so of the rows:
  `ExclusiveIsAlone` is inductive with the types because what is not live when a
  deleter is let in is reclaimed in that step;
* that the calls of one key end with one artifact (`KeysNameOneArtifact`), from
  `Keyed`: a record with a key, and every result of a call with it, is the
  artifact its receipt names. Receipts are never removed, so that this survives
  the artifact's deletion;
* that every record has its bytes (`RecordsHaveBytesHolds`), if deletions are
  carried out while the lease renewed for them lasts (`Prompt`) and no other call
  brings the object of a write, or of an import with a key (`OwnObjects`). Both are
  needed: `artifacts_twins` shows two writes of one object, and without `Prompt` a
  late deletion takes an object that was imported since. `BytesInv` says of each
  place a call may be at (`OnRoute`) what it relies on there (`Fits`). While a writer
  has its lease, the bytes it digested are still at the object; while a deleter has
  its own, the object it found unreferenced is so. An exclusive lease is the only
  one of its row (`Lone`), so neither can be undone by a call of the other mode that
  has a lease, and a call whose lease was reclaimed has none and finds out when it
  renews or commits. `Prompt` keeps the lease of a deleter that is about to erase.
  Only writes that undo themselves and replays drop an object without an exclusive
  lease, and no record but their own refers to it (`Sole`);
* that a failed write leaves nothing (`FailedWritesLeaveNothingHolds`), if its
  artifact id is new and neither its id nor its object is asked for by another write
  or import (`OwnIds`). `CleanInv` follows a write: its record is one that it made and has
  not undone, the record is gone before its object is, and bytes that were not there
  before are there only while it goes on or ends otherwise. Of another call's step a
  write only notices that its object or its record goes.

`Resumed_proofs`, of `Migrate` and `Logs`. Of `Migrate`, for any jobs, lanes, plans,
batch size and growth: type correctness, `CheckpointsAreCopied` and
`FinishedIsComplete`. The invariant says of a call under way that what it resumed
from, what it counts and what it has put of the page are at its destination
(`Progress`, `PageOK`), that the lanes behind it are complete, and that a page or
manifest taken for the last one reached what the source had when the call was made
(`LastOK`). That another job's checkpoints are sound for this one rests on
`PlanMatches`, `CallersDuty` and the assumption that a plan names the
destination its job copies to.

Of `Logs`, for any number of units, processes and adapters: type correctness, the
five safety properties and `OnlyAppends`. The invariant says that every set of rows
there is, the committed ones, what a transaction sees and what a savepoint would
bring back, numbers each stream 1, 2, 3, ... (`Full`), and that the holder of
the write lock sees all that is committed, also after a savepoint is rolled
back, so that its commit only adds. `SentOnce` needs besides that what a mailer
read is still all there is when it appends. `LogsWellFormed` asks that the marks for
"nothing" are no values, and that cases name units there are.

The other three, `NeverWaitsForItself`, `ConsumersMissNothing` and `AppendsAreWhole`,
rest on what the file queue and `assertSyncAccess` do together (`LinesIInv`). The line
of a process holds its awaitable units under way, each once; whoever is past waiting
is the first in it, and its adapter owns the file. So nobody may call while another
unit of its process is in a transaction or waits for SQLite's lock (`CallsAlone`), and
at most one such unit is there. What a consumer lists is then what is committed
(`VisibleIsRows`), and the lock that anybody waits for is of another process. Of a
transaction the invariant says that what it sees is what is committed and what it has
told of, and that nothing of it is committed before it returns (`Whole`).
`AdaptersAreOfOneProcess` asks that no two processes share an adapter, which is an
object in memory.

`Names_proofs`, of `Namespaces` and `SqliteTables`. Of `Namespaces`, for any
namespaces, names, ids and values that `WellNamed` describes (the names the code
accepts, as strings of code units): type correctness, and `NamespacesAreIsolated`,
that no call through one handle changes a row or a receipt another sees. The
argument is that `Prefix` is injective and no prefix begins another, which is
derived from `assertNamespace`: a namespace holds no separator, so the first
separator of a stored name ends it.

Of `SqliteTables`, for any processes, blocks of operations, names and hashes: type
correctness with what isolates the transactions (`TransactionsAreIsolated`) and the
four safety properties that `parts` checks of it, `RowsStayTheirs`,
`CachesAreDurable`, `TablesAreFound` and `ResolutionEnds`. The first three rest on
what may happen to a database. Its registry gives every table to one name, and rows
are in the table registered for their name (`Sound`); nothing registered or created
is lost, and whoever creates a table has registered it (`Grows`). The invariant says
what each process sees. Before it writes, its transaction sees what the file once
was, from which the file has only grown since; once it has written it holds the
file's lock, and what it sees is what the file will be if it commits. So what a
process has found out by looking (that nobody claims a candidate, that a foreign
table is there) is either still true when it writes or the write is refused, and
what it remembers after its transaction is what was committed (`Remembers`), while
what it found in its transaction waits to be remembered or forgotten with it.
`WellFormed` asks that the marks for "nothing" are no values, that the file at first
is sound (rows that no name of the program owns are in suffixed tables that are not
registered: the one table of a hash without a suffix is adopted by the first name
that comes, as the code does with tables of earlier releases), and that the libSQL
processes only put and read, which is what is modelled of them. `ResolutionEnds`
asks besides for `FewShareAHash`, that fewer names than attempts share a hash: who
starts again has seen a name of its hash registered that was not when it started
before, so it starts again at most once for each. The code gives up after the fifth attempt.

`PostgresAdapter_proofs`, for any clients, requests, faults and bounds: type
correctness and the four safety properties that `parts` checks of the module,
`TokensStandForOneValue`, `AppliedOncePerWindow`, `OneWinnerPerVersion` and
`AnswersAreTrue`. The invariant says of both databases there are, the committed
one and the one that the holder of the lock sees, that they are sound (`Sound`):
their versions were handed out with the values they stand beside, and carry no
number that the sequence has yet to give (`Numbered`); a request in force has a
receipt that is no older, unless its window is over, and two of one key lie a
window apart (`Windowed`); a version that a batch was conditional on and wrote
over is in no row any more (`Won`); and a receipt's answer is that of a request
in force (`Backed`). `Numbered` holds over rollbacks because no rollback takes
the sequence back. About sessions it says that the lock's queue holds each
attempt once and that a COMMIT at the server is of a client that waits for its
answer or will say that it does not know (`Queued`), that what a client was
told it applied is in force, in the draft until its commit (`Claims`), and that what
is in the draft and not in force is the first session's, and what is in force of a
client's attempt is of one that says so or does not know (`Authors`): so an attempt
that failed before its `COMMIT`, or conflicted, left nothing.
The hypothesis `WellFormed` asks that the marks for "nothing" are no values; that
the versions of earlier releases are none of this one's and stand for one value
each; that what is in force at first has its receipts; that a call outside
`transaction()` is one operation, as each is, and `init` comes alone; and that
nobody writes a row without a version that `getVersioned` reads outside a
transaction, without which `TokensStandForOneValue` does not hold (see above).
The cases of `parts` are such.

`LibsqlAdapter_proofs`, for any clients, adapters, targets, requests and faults, on
files and servers: type correctness, `OneLockPerFile`, `ReceiptsNameTheirTokens` and
`TokensStandForOneValue`. The draft of the transaction that holds the lock has a
sequence that is the database's, or the last number its client has seen issued if
that is more (`Locked`). So a rollback to a savepoint, which keeps the number, a
rollback, which commits it, and a commit leave the sequence where it was or further
on, and a receipt's numbers stay behind it (`Named`). The entry of a file counts the
adapters that are open on it and is theirs (`Files`): when the last one closes there
is no other to take turns with. A client under way is once in each line it has come
to, and the first in those it has gone past (`Lines`). That a number stands for one
value needs more (`Counted`). The server, or a close in the middle of a transaction,
can take back a sequence whose numbers were handed out, and then only the floor of
the client's adapter knows them. `InTurn` asks of a setup that this cannot happen, or
that the clients that write share an adapter and one has ended before the next begins;
the next then starts from a floor that has what the last one saw. `libsql_floor` shows
that clients which begin while another's transaction is open can issue a number twice.
`LibsqlWellFormed` asks that the mark for "nothing" is no value, that there are finitely
many adapters, and that operations write targets that there are.

The same module proves `SurrealObjects` (as `Str`), for any calls, processes, sizes,
leases and clock: type correctness and the four safety properties that `parts` checks
of it. Each action is first reduced to what it does to the tables, the lock and the
memory of its process (`StreamStep`). The lock of a process is held by the one call
of it that finalizes or deletes (`Held`), so where all calls are of one process
whoever is about to point the key knows what it points at (`Unraced`):
`CreationsCreate`. While puts keep their leases (`InLease`), no query fails and no
put died before it settled, the generation the key points at is whole, its put will
not write it again, its upload row is gone once that put has settled, and no call has
it to drop (`Sound`); and whatever a call is to drop, or has found, is of a put that
is past the pointer (`Kept`). So scavenging, which does not look at the
pointer, finds only uploads of puts that never got there: `PointersHaveBytes`. That
what a stream lists is `Sound` too, though another call replaced it since, is what
the readers of a process are counted for: `StreamsAreWhole`. What a get found is sound
until somebody drops it or comes to (`DroppedStep`), and nobody comes to drop what a
stream that was not late has retained (`Streamed`). For `NoOrphans` the
invariant says that, while nobody died, chunks or a row that are there are pointed
at, uploading, or some call is to drop them: the put that replaced them, whoever
scavenges or deletes, or the last stream of a generation that waits (`Remembered`).
The conditions, punctual puts, queries that do not fail, one process, are those of
the properties.
`StreamsWellFormed` asks that the mark for "nothing" is no value and that requests
are of processes that there are.

Every safety invariant of the runs other than `parts` is thus proved, under the
conditions above, and of `parts` what it says of `PostgresAdapter`, `LibsqlAdapter`,
`IndexedDb`, `Namespaces`, `SqliteTables`, `Logs`, `Statements`, `ObjectStores` and
`SurrealObjects`; `AsyncTransactions`, whose liveness `parts` checks, has its safety
proved. The other modules of `MCParts` are only model-checked.
In several of these modules the content is an evaluation of functions over data
(filters, merges, walks, scores), which is compared over the enumerated inputs and not
by induction. Out of the prover's reach are liveness (`WaitersGiveUp`,
`LostOwnerIsTold`, `JobsFinish`, `RequestsEnd`) and the violations.

## Not modelled

* Encryption, canonical JSON, formatting and SQL text: conversions with no state.
* Within modelled components: the upgrade of SQLite schemas with one index;
  vectors and search of libSQL beside its tables; notifications, search and the
  initial schema of Postgres; range reads and credentials of the object stores;
  the lenses of statements; schemas, the extension registry and the command
  line of fixtures; the reference check of the in-memory artifact repository and
  the paging of `#hasObjectReference`; the validation of options in
  `packages/migrate`.
* External services are modelled by what the code relies on: one writer per
  SQLite file and snapshots of its readers, Postgres advisory locks and
  sessions, IndexedDB's transaction rules, single statements of SurrealDB.
* The Python port repeats the contracts of the TypeScript code, which is the one
  modelled. The conformance suites, benchmarks and release scripts are harnesses.

## Plan

1. Proofs about the other parts of `MCParts`: `CyclesComeOfOverlap` of `Lineage`.
2. The coordinator over each object store of `ObjectStores` instead of the one
   `Artifacts` assumes; the paging of `#hasObjectReference` under deletions.
