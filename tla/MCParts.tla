-------------------------------- MODULE MCParts --------------------------------
(* Parts of mirk that share no state, checked side by side: a behaviour is one
   of one part, which the initial state chooses, and each property says of
   every part what the part's module says of it. The variables of the other
   parts are idle. The cases of each part are in modules of their own. *)
EXTENDS AdapterCases, IndexedDbCases, SqliteCases, QueryCases, FixtureCases,
        StorageCases, IndexCases

CONSTANTS
  Parts,      \* the parts of this run
  LibsqlCase  \* which of the setups of the libSQL adapter

VARIABLES
  part,
  clock, draft, committed, queue, client, setup, line, lock, call, given, file, memory, sqlite,
  files, edits, objects, witness, edges, kept, rows, last, calls,
  sequence, sent, named, faults,
  db, entry, adapter, tx, handed,
  database, earlier, backup, conn, promise, unusable, applied, imports,
  set, locked, cache, proc,
  ordered, surreal, counters, keys, steps,
  listing, raw, parsed, material, host, collection, clean,
  pc, parent, chain, active, childActive, rolledBack, unsafe, created, callbacks, delivered,
  callScope, awaited, written, savepoints,
  log, lease, worker, answers,
  sidecars,
  pointer, uploads, generations, chunks, reads, pending,
  relating, walk,
  history, op, noted, current, lost, left,
  indexed,
  minted, receipts,
  records, job, snapshot, met, doubted, harmed,
  window, issued,
  ensured, parted,
  writer, owner, unit

(* Variables of several parts, and those of one. *)
sharedVars ==
  <<clock, draft, committed, queue, client, setup, line, lock, call, given, file, memory,
    sqlite, files, edits, objects, witness, edges, kept, rows, last, calls>>

postgresOnly == <<sequence, sent, named, faults>>

libsqlOnly == <<db, entry, adapter, tx, handed>>

indexedDbOnly == <<database, earlier, backup, conn, promise, unusable, applied, imports>>

tablesOnly == <<set, locked, cache, proc>>

queriesOnly == <<ordered, surreal, counters, keys, steps>>

fixturesOnly == <<listing, raw, parsed, material, host, collection, clean>>

nestingOnly == <<pc, parent, chain, active, childActive, rolledBack, unsafe, created, callbacks, delivered,
    callScope, awaited, written, savepoints>>

claimsOnly == <<log, lease, worker, answers>>

objectsOnly == <<sidecars>>

streamsOnly == <<pointer, uploads, generations, chunks, reads, pending>>

walksOnly == <<relating, walk>>

documentsOnly == <<history, op, noted, current, lost, left>>

vectorsOnly == <<indexed>>

spacesOnly == <<minted, receipts>>

lineageOnly == <<records, job, snapshot, met, doubted, harmed>>

referredOnly == <<window, issued>>

searchedOnly == <<ensured, parted>>

logsOnly == <<writer, owner, unit>>

partVars ==
  <<part, sharedVars, postgresOnly, libsqlOnly, indexedDbOnly, tablesOnly, queriesOnly,
    fixturesOnly, nestingOnly, claimsOnly, objectsOnly, streamsOnly, walksOnly, documentsOnly,
    vectorsOnly, spacesOnly, lineageOnly, referredOnly, searchedOnly, logsOnly>>

Clients == {"c1", "c2", "c3"}

Targets == {1, 2}

Postgres == INSTANCE PostgresAdapter WITH
  Scenarios <- PostgresScenarios, Frozen <- {"c3"}, Keys <- {"k1", "k2"},
  RetentionMs <- 0, PruneBatch <- 1, MaxAttempts <- 2, MaxFaults <- 2, MaxClock <- 1

Libsql == INSTANCE LibsqlAdapter WITH
  Setups <- IF LibsqlCase = "overlapping" THEN OverlappingLibsqlSetups ELSE LibsqlSetups,
  Adapters <- {"a", "b", "c"}, Keys <- {"k1"}

Browser == INSTANCE IndexedDb WITH
  Setups <- IndexedDbSetups, Pages <- {"p1", "p2"}, KeyTargets <- {1}, RecordTargets <- {2, 3},
  Keys <- {"k1"}, RetentionMs <- 1, MaxClock <- 3

Tables == INSTANCE SqliteTables WITH
  Setups <- SqliteTablesSetups, Processes <- {"p1", "p2"}, Names <- TableNames, Attempts <- 5

Compared == INSTANCE Queries WITH
  Ids <- 1 .. 3, Data <- QueryData, Contents <- QueryContents, Filters <- QueryFilters,
  InLists <- QueryInLists, Keys <- QueryKeys, FoldsTo <- LikeFolds, Steps <- 3

Layers == INSTANCE Fixtures WITH
  Setups <- FixtureSetups, Hosts <- {"h1", "h2"}, Paths <- 1 .. 3

Nesting == INSTANCE AsyncTransactions WITH
  Root <- "root", Nested <- {"n1", "n2"}, Writes <- {"w1"}, Callbacks <- {}, None <- "none",
  Faults <- {"open", "close", "undo"}

Claims == INSTANCE Statements WITH
  Setups <- StatementsSetups, Processes <- {"p1", "p2"}, Names <- {"s1", "s2"}, Attempts <- 2

Objects == INSTANCE ObjectStores WITH
  Setups <- ObjectStoreSetups, Calls <- {"x", "y", "z"}, Keys <- <<"k", "l">>

Streams == INSTANCE SurrealObjects WITH
  Setups <- SurrealObjectSetups, Calls <- {"x", "y", "z"}, Lease <- 2, RenewEvery <- 1,
  Size <- 2, MaxClock <- 3

Walks == INSTANCE GraphTraversal WITH
  Setups <- WalkSetups, Nodes <- {"a", "b", "c"}, EdgeIds <- 1 .. 3, NewEdges <- WalkNewEdges,
  Edits <- 1, MaxHops <- 2

Documents == INSTANCE MarkdownFiles WITH
  Setups <- MarkdownSetups, Items <- MarkdownItems, Files <- MarkdownFileNames,
  IndexName <- "INDEX.md", Alias <- MarkdownAlias, Levels <- MarkdownLevels,
  Section <- "## A", Notes <- "## B", Mutations <- 3, Edits <- 1

Vectors == INSTANCE VectorStores WITH
  Setups <- VectorSetups, Clients <- {"c1", "c2"}, Ids <- 1 .. 4, Bound <- 1,
  Indexes <- {"terms", "usable"}, PageSize <- 1, QueryDims <- 2

(* The strings "a" and "a\0"; a key, and a key that begins with NUL. *)
Spaces == INSTANCE Namespaces WITH
  Spaces <- {<<97>>, <<97, 0>>}, Names <- {<<31, 98>>, <<0, 31, 98>>}, Ids <- {<<31, 98>>},
  Values <- {"v"}, Versions <- <<<<49>>, <<49, 48>>>>

Traced == INSTANCE Lineage WITH
  Setups <- LineageSetups, Artifacts <- <<"a", "b", "c">>, Ends <- LineageEnds,
  Ids <- <<"ab", "ac", "ba", "bc", "ca", "cc">>

Recorded == INSTANCE Logs WITH
  Setups <- LogSetups, Units <- {"x", "y", "z"}, Names <- {"d", "sent"}, MaxCalls <- 3

Referred == INSTANCE MemoryStore WITH
  Setups <- MemorySetups, Targets <- MemoryTargets, Keys <- {"k1", "k2"}, Limits <- MemoryLimits,
  PruneBatch <- 1

Texts == INSTANCE SearchStores WITH
  Setups <- SearchSetups, Ids <- 1 .. 3, Adapters <- {"a1", "a2"},
  Terms <- {"t", "u"}

(* The variables of the other parts, while a part runs. *)
besidesPostgres ==
  <<part, setup, line, lock, call, given, file, memory, sqlite, files, edits, objects, witness,
    edges, kept, rows, last, calls, libsqlOnly, indexedDbOnly, tablesOnly, queriesOnly,
    fixturesOnly, nestingOnly, claimsOnly, objectsOnly, streamsOnly, walksOnly, documentsOnly,
    vectorsOnly, spacesOnly, lineageOnly, referredOnly, searchedOnly, logsOnly>>

besidesLibsql ==
  <<part, clock, committed, queue, client, call, given, file, memory, sqlite, files, edits,
    objects, witness, edges, kept, rows, last, calls, postgresOnly, indexedDbOnly, tablesOnly,
    queriesOnly, fixturesOnly, nestingOnly, claimsOnly, objectsOnly, streamsOnly, walksOnly,
    documentsOnly, vectorsOnly, spacesOnly, lineageOnly, referredOnly, searchedOnly, logsOnly>>

besidesBrowser ==
  <<part, draft, committed, queue, client, lock, file, memory, sqlite, files, edits, objects,
    witness, edges, kept, rows, last, calls, postgresOnly, libsqlOnly, tablesOnly, queriesOnly,
    fixturesOnly, nestingOnly, claimsOnly, objectsOnly, streamsOnly, walksOnly, documentsOnly,
    vectorsOnly, spacesOnly, lineageOnly, referredOnly, searchedOnly, logsOnly>>

besidesTables ==
  <<part, clock, draft, committed, queue, client, setup, line, lock, call, given, memory,
    sqlite, files, edits, objects, witness, edges, kept, rows, last, calls, postgresOnly,
    libsqlOnly, indexedDbOnly, queriesOnly, fixturesOnly, nestingOnly, claimsOnly, objectsOnly,
    streamsOnly, walksOnly, documentsOnly, vectorsOnly, spacesOnly, lineageOnly, referredOnly,
    searchedOnly, logsOnly>>

besidesCompared ==
  <<part, clock, draft, committed, queue, client, setup, line, lock, call, given, file, files,
    edits, objects, witness, edges, kept, rows, last, calls, postgresOnly, libsqlOnly,
    indexedDbOnly, tablesOnly, fixturesOnly, nestingOnly, claimsOnly, objectsOnly, streamsOnly,
    walksOnly, documentsOnly, vectorsOnly, spacesOnly, lineageOnly, referredOnly, searchedOnly,
    logsOnly>>

besidesLayers ==
  <<part, clock, draft, committed, queue, client, line, lock, call, given, file, memory,
    sqlite, objects, witness, edges, kept, rows, last, calls, postgresOnly, libsqlOnly,
    indexedDbOnly, tablesOnly, queriesOnly, nestingOnly, claimsOnly, objectsOnly, streamsOnly,
    walksOnly, documentsOnly, vectorsOnly, spacesOnly, lineageOnly, referredOnly, searchedOnly,
    logsOnly>>

besidesNesting ==
  <<part, clock, draft, client, setup, line, lock, given, file, memory, sqlite, files, edits,
    objects, witness, edges, kept, rows, last, calls, postgresOnly, libsqlOnly, indexedDbOnly,
    tablesOnly, queriesOnly, fixturesOnly, claimsOnly, objectsOnly, streamsOnly, walksOnly,
    documentsOnly, vectorsOnly, spacesOnly, lineageOnly, referredOnly, searchedOnly, logsOnly>>

besidesClaims ==
  <<part, clock, draft, committed, queue, client, line, lock, call, given, file, memory,
    sqlite, files, edits, objects, witness, edges, kept, rows, last, calls, postgresOnly,
    libsqlOnly, indexedDbOnly, tablesOnly, queriesOnly, fixturesOnly, nestingOnly, objectsOnly,
    streamsOnly, walksOnly, documentsOnly, vectorsOnly, spacesOnly, lineageOnly, referredOnly,
    searchedOnly, logsOnly>>

besidesObjects ==
  <<part, clock, draft, committed, queue, client, line, lock, given, file, memory, sqlite,
    files, edits, edges, kept, rows, last, calls, postgresOnly, libsqlOnly, indexedDbOnly,
    tablesOnly, queriesOnly, fixturesOnly, nestingOnly, claimsOnly, streamsOnly, walksOnly,
    documentsOnly, vectorsOnly, spacesOnly, lineageOnly, referredOnly, searchedOnly, logsOnly>>

besidesStreams ==
  <<part, draft, committed, queue, client, line, given, file, memory, sqlite, files, edits,
    objects, witness, edges, kept, rows, last, calls, postgresOnly, libsqlOnly, indexedDbOnly,
    tablesOnly, queriesOnly, fixturesOnly, nestingOnly, claimsOnly, objectsOnly, walksOnly,
    documentsOnly, vectorsOnly, spacesOnly, lineageOnly, referredOnly, searchedOnly, logsOnly>>

besidesWalks ==
  <<part, clock, draft, committed, queue, client, line, lock, call, given, file, memory,
    sqlite, files, objects, kept, rows, last, calls, postgresOnly, libsqlOnly, indexedDbOnly,
    tablesOnly, queriesOnly, fixturesOnly, nestingOnly, claimsOnly, objectsOnly, streamsOnly,
    documentsOnly, vectorsOnly, spacesOnly, lineageOnly, referredOnly, searchedOnly, logsOnly>>

besidesDocuments ==
  <<part, clock, draft, committed, queue, client, line, lock, call, given, file, memory,
    sqlite, edits, objects, witness, edges, rows, last, calls, postgresOnly, libsqlOnly,
    indexedDbOnly, tablesOnly, queriesOnly, fixturesOnly, nestingOnly, claimsOnly, objectsOnly,
    streamsOnly, walksOnly, vectorsOnly, spacesOnly, lineageOnly, referredOnly, searchedOnly,
    logsOnly>>

besidesVectors ==
  <<part, clock, draft, committed, queue, line, lock, call, given, file, memory, sqlite, files,
    edits, objects, witness, edges, last, calls, postgresOnly, libsqlOnly, indexedDbOnly,
    tablesOnly, queriesOnly, fixturesOnly, nestingOnly, claimsOnly, objectsOnly, streamsOnly,
    walksOnly, documentsOnly, spacesOnly, lineageOnly, referredOnly, searchedOnly, logsOnly>>

besidesSpaces ==
  <<part, clock, draft, committed, queue, client, setup, line, lock, call, file, memory,
    sqlite, files, edits, objects, witness, edges, kept, calls, postgresOnly, libsqlOnly,
    indexedDbOnly, tablesOnly, queriesOnly, fixturesOnly, nestingOnly, claimsOnly, objectsOnly,
    streamsOnly, walksOnly, documentsOnly, vectorsOnly, lineageOnly, referredOnly,
    searchedOnly, logsOnly>>

besidesTraced ==
  <<part, clock, draft, committed, queue, client, line, lock, call, given, file, memory,
    sqlite, files, edits, witness, kept, rows, last, calls, postgresOnly, libsqlOnly,
    indexedDbOnly, tablesOnly, queriesOnly, fixturesOnly, nestingOnly, claimsOnly, objectsOnly,
    streamsOnly, walksOnly, documentsOnly, vectorsOnly, spacesOnly, referredOnly, searchedOnly,
    logsOnly>>

besidesReferred ==
  <<part, draft, committed, queue, client, line, lock, call, given, file, files, edits,
    objects, witness, edges, kept, rows, postgresOnly, libsqlOnly, indexedDbOnly, tablesOnly,
    queriesOnly, fixturesOnly, nestingOnly, claimsOnly, objectsOnly, streamsOnly, walksOnly,
    documentsOnly, vectorsOnly, spacesOnly, lineageOnly, searchedOnly, logsOnly>>

besidesTexts ==
  <<part, clock, draft, committed, queue, client, line, lock, call, given, sqlite, files,
    edits, objects, witness, edges, kept, rows, postgresOnly, libsqlOnly, indexedDbOnly,
    tablesOnly, queriesOnly, fixturesOnly, nestingOnly, claimsOnly, objectsOnly, streamsOnly,
    walksOnly, documentsOnly, vectorsOnly, spacesOnly, lineageOnly, referredOnly, logsOnly>>

besidesRecorded ==
  <<part, clock, draft, committed, queue, client, lock, call, given, file, memory, sqlite,
    files, edits, objects, witness, edges, kept, last, calls, postgresOnly, libsqlOnly,
    indexedDbOnly, tablesOnly, queriesOnly, fixturesOnly, nestingOnly, claimsOnly, objectsOnly,
    streamsOnly, walksOnly, documentsOnly, vectorsOnly, spacesOnly, lineageOnly, referredOnly,
    searchedOnly>>

(* Variables that several parts use are idle in the others. *)
SharedIdle ==
  /\ IF part \in {"postgres", "indexeddb", "streams", "memory"} THEN TRUE ELSE clock = "idle"
  /\ IF part \in {"postgres", "libsql"} THEN TRUE ELSE draft = "idle"
  /\ IF part \in {"postgres", "nesting"} THEN TRUE ELSE committed = "idle"
  /\ IF part \in {"postgres", "nesting"} THEN TRUE ELSE queue = "idle"
  /\ IF part \in {"postgres", "vectors"} THEN TRUE ELSE client = "idle"
  /\ IF part \in {"libsql", "indexeddb", "fixtures", "statements", "objects", "streams", "walks", "documents", "vectors", "lineage", "memory", "texts", "logs"} THEN TRUE ELSE setup = "idle"
  /\ IF part \in {"libsql", "indexeddb", "logs"} THEN TRUE ELSE line = "idle"
  /\ IF part \in {"libsql", "streams"} THEN TRUE ELSE lock = "idle"
  /\ IF part \in {"indexeddb", "nesting", "objects", "streams"} THEN TRUE ELSE call = "idle"
  /\ IF part \in {"indexeddb", "namespaces"} THEN TRUE ELSE given = "idle"
  /\ IF part \in {"tables", "texts"} THEN TRUE ELSE file = "idle"
  /\ IF part \in {"queries", "memory", "texts"} THEN TRUE ELSE memory = "idle"
  /\ IF part \in {"queries", "memory"} THEN TRUE ELSE sqlite = "idle"
  /\ IF part \in {"fixtures", "documents"} THEN TRUE ELSE files = "idle"
  /\ IF part \in {"fixtures", "walks"} THEN TRUE ELSE edits = "idle"
  /\ IF part \in {"objects", "lineage"} THEN TRUE ELSE objects = "idle"
  /\ IF part \in {"objects", "walks"} THEN TRUE ELSE witness = "idle"
  /\ IF part \in {"walks", "lineage"} THEN TRUE ELSE edges = "idle"
  /\ IF part \in {"documents", "vectors"} THEN TRUE ELSE kept = "idle"
  /\ IF part \in {"vectors", "namespaces", "logs"} THEN TRUE ELSE rows = "idle"
  /\ IF part \in {"namespaces", "memory", "texts"} THEN TRUE ELSE last = "idle"
  /\ IF part \in {"memory", "texts"} THEN TRUE ELSE calls = "idle"

PostgresIdle ==
  /\ sequence = "idle" /\ sent = "idle" /\ named = "idle" /\ faults = "idle"

LibsqlIdle ==
  /\ db = "idle" /\ entry = "idle" /\ adapter = "idle" /\ tx = "idle"
  /\ handed = "idle"

BrowserIdle ==
  /\ database = "idle" /\ earlier = "idle" /\ backup = "idle" /\ conn = "idle"
  /\ promise = "idle" /\ unusable = "idle" /\ applied = "idle" /\ imports = "idle"

TablesIdle ==
  /\ set = "idle" /\ locked = "idle" /\ cache = "idle" /\ proc = "idle"

ComparedIdle ==
  /\ ordered = "idle" /\ surreal = "idle" /\ counters = "idle" /\ keys = "idle"
  /\ steps = "idle"

LayersIdle ==
  /\ listing = "idle" /\ raw = "idle" /\ parsed = "idle" /\ material = "idle"
  /\ host = "idle" /\ collection = "idle" /\ clean = "idle"

NestingIdle ==
  /\ pc = "idle" /\ parent = "idle" /\ chain = "idle" /\ active = "idle"
  /\ childActive = "idle" /\ rolledBack = "idle" /\ unsafe = "idle" /\ created = "idle"
  /\ callbacks = "idle" /\ delivered = "idle" /\ callScope = "idle" /\ awaited = "idle"
  /\ written = "idle" /\ savepoints = "idle"

ClaimsIdle ==
  /\ log = "idle" /\ lease = "idle" /\ worker = "idle" /\ answers = "idle"

ObjectsIdle ==
  /\ sidecars = "idle"

StreamsIdle ==
  /\ pointer = "idle" /\ uploads = "idle" /\ generations = "idle" /\ chunks = "idle"
  /\ reads = "idle" /\ pending = "idle"

WalksIdle ==
  /\ relating = "idle" /\ walk = "idle"

DocumentsIdle ==
  /\ history = "idle" /\ op = "idle" /\ noted = "idle" /\ current = "idle"
  /\ lost = "idle" /\ left = "idle"

VectorsIdle ==
  /\ indexed = "idle"

SpacesIdle ==
  /\ minted = "idle" /\ receipts = "idle"

TracedIdle ==
  /\ records = "idle" /\ job = "idle" /\ snapshot = "idle" /\ met = "idle"
  /\ doubted = "idle" /\ harmed = "idle"

ReferredIdle ==
  /\ window = "idle" /\ issued = "idle"

TextsIdle ==
  /\ ensured = "idle" /\ parted = "idle"

RecordedIdle ==
  /\ writer = "idle" /\ owner = "idle" /\ unit = "idle"

Init ==
  /\ part \in Parts
  /\ IF part = "postgres" THEN Postgres!Init ELSE PostgresIdle
  /\ IF part = "libsql" THEN Libsql!Init ELSE LibsqlIdle
  /\ IF part = "indexeddb" THEN Browser!Init ELSE BrowserIdle
  /\ IF part = "tables" THEN Tables!Init ELSE TablesIdle
  /\ IF part = "queries" THEN Compared!Init ELSE ComparedIdle
  /\ IF part = "fixtures" THEN Layers!Init ELSE LayersIdle
  /\ IF part = "nesting" THEN Nesting!Init ELSE NestingIdle
  /\ IF part = "statements" THEN Claims!Init ELSE ClaimsIdle
  /\ IF part = "objects" THEN Objects!Init ELSE ObjectsIdle
  /\ IF part = "streams" THEN Streams!Init ELSE StreamsIdle
  /\ IF part = "walks" THEN Walks!Init ELSE WalksIdle
  /\ IF part = "documents" THEN Documents!Init ELSE DocumentsIdle
  /\ IF part = "vectors" THEN Vectors!Init ELSE VectorsIdle
  /\ IF part = "namespaces" THEN Spaces!Init ELSE SpacesIdle
  /\ IF part = "lineage" THEN Traced!Init ELSE TracedIdle
  /\ IF part = "memory" THEN Referred!Init ELSE ReferredIdle
  /\ IF part = "texts" THEN Texts!Init ELSE TextsIdle
  /\ IF part = "logs" THEN Recorded!Init ELSE RecordedIdle
  /\ SharedIdle

Next ==
  \/ part = "postgres" /\ Postgres!Next /\ UNCHANGED besidesPostgres
  \/ part = "libsql" /\ Libsql!Next /\ UNCHANGED besidesLibsql
  \/ part = "indexeddb" /\ Browser!Next /\ UNCHANGED besidesBrowser
  \/ part = "tables" /\ Tables!Next /\ UNCHANGED besidesTables
  \/ part = "queries" /\ Compared!Next /\ UNCHANGED besidesCompared
  \/ part = "fixtures" /\ Layers!Next /\ UNCHANGED besidesLayers
  \/ part = "nesting" /\ Nesting!Next /\ UNCHANGED besidesNesting
  \/ part = "statements" /\ Claims!Next /\ UNCHANGED besidesClaims
  \/ part = "objects" /\ Objects!Next /\ UNCHANGED besidesObjects
  \/ part = "streams" /\ Streams!Next /\ UNCHANGED besidesStreams
  \/ part = "walks" /\ Walks!Next /\ UNCHANGED besidesWalks
  \/ part = "documents" /\ Documents!Next /\ UNCHANGED besidesDocuments
  \/ part = "vectors" /\ Vectors!Next /\ UNCHANGED besidesVectors
  \/ part = "namespaces" /\ Spaces!Next /\ UNCHANGED besidesSpaces
  \/ part = "lineage" /\ Traced!Next /\ UNCHANGED besidesTraced
  \/ part = "memory" /\ Referred!Next /\ UNCHANGED besidesReferred
  \/ part = "texts" /\ Texts!Next /\ UNCHANGED besidesTexts
  \/ part = "logs" /\ Recorded!Next /\ UNCHANGED besidesRecorded

(* What goes on by itself, in the parts of which liveness is asked. *)
Fairness ==
  /\ WF_(Postgres!postgresVars)(part = "postgres" /\ Postgres!GoesOn)
  /\ WF_(Nesting!vars)(part = "nesting" /\ Nesting!GoesOn)
  /\ WF_(Traced!lineageVars)(part = "lineage" /\ Traced!Next)
  /\ WF_(Recorded!logVars)(part = "logs" /\ Recorded!GoesOn)

Spec == Init /\ [][Next]_partVars /\ Fairness

--------------------
(* Properties *)

(* Every part's state has its type: what is held is held by something under
   way, rows and versions come in pairs, resolution and merging stay in range. *)
TypeOK ==
  CASE part = "postgres" -> Postgres!TypeOK
    [] part = "libsql" -> Libsql!TypeOK
    [] part = "indexeddb" -> Browser!TypeOK
    [] part = "tables" -> Tables!TypeOK
    [] part = "queries" -> Compared!TypeOK
    [] part = "fixtures" -> Layers!TypeOK
    [] part = "nesting" -> Nesting!TypeOK
    [] part = "statements" -> Claims!TypeOK
    [] part = "objects" -> Objects!TypeOK
    [] part = "streams" -> Streams!TypeOK
    [] part = "walks" -> Walks!TypeOK
    [] part = "documents" -> Documents!TypeOK
    [] part = "vectors" -> Vectors!TypeOK
    [] part = "namespaces" -> Spaces!TypeOK
    [] part = "lineage" -> Traced!TypeOK
    [] part = "memory" -> Referred!TypeOK
    [] part = "texts" -> Texts!TypeOK
    [] part = "logs" -> Recorded!TypeOK

(* A version stands for one value for ever, in every backend: over rollbacks,
   lost connections, several writers and imports. *)
VersionsStandForOneValue ==
  CASE part = "postgres" -> Postgres!TokensStandForOneValue
    [] part = "libsql" -> Libsql!TokensStandForOneValue
    [] part = "indexeddb" -> Browser!VersionsStandForOneValue
    [] part = "namespaces" -> Spaces!TokensServe
    [] part = "memory" -> Referred!TokensStandForOneValue
    [] OTHER -> TRUE

(* A request with an idempotency key takes effect once in its window, a
   version is replaced by one compare-and-set, and an object is created or
   deleted by one call: over retries of requests whose answer was lost,
   pruning, other adapters, other pages and other calls; a delivery noted in a
   log is sent once. (A blob service that checks the condition when the write
   closes is apart: see the README.) *)
RequestsTakeEffectOnce ==
  CASE part = "postgres" -> Postgres!AppliedOncePerWindow /\ Postgres!OneWinnerPerVersion
    [] part = "libsql" -> Libsql!ReceiptsNameTheirTokens
    [] part = "indexeddb" -> Browser!AppliedOncePerWindow
    [] part = "statements" -> Claims!RevisionsHaveReceipts
    [] part = "objects" -> /\ setup.store # "late" => Objects!StoredObjectsStand
                           /\ Objects!DeletionsAreClaimedOnce
    [] part = "streams" -> Streams!CreationsCreate
    [] part = "memory" -> Referred!AppliedOncePerWindow /\ Referred!ExpiredIsForgotten
    [] part = "logs" -> Recorded!SentOnce
    [] OTHER -> TRUE

(* What a caller is told is so: an answer of success is of what is in force, a
   failure left nothing (but see MayLeaveItsEmptyObject, and OutcomesOfLoss for
   what is not told as a failure), a loaded fixture is what its layers say, and a walk,
   a list or a stream answers with what was there. *)
AnswersAreTrue ==
  CASE part = "postgres" -> Postgres!AnswersAreTrue
    [] part = "indexeddb" -> Browser!PromisesTellTheTruth
    [] part = "fixtures" -> /\ Layers!AnswersAreRight /\ Layers!ChainsAreSimple
                            /\ Layers!ReportsAreFair /\ Layers!SeedsAllOrNothing
    [] part = "statements" -> Claims!AnswersAreStable
    [] part = "objects" -> Objects!RefusedPutsLeaveNothing /\ Objects!ListsAreFair
    [] part = "streams" -> Streams!StreamsAreWhole
    [] part = "walks" -> Walks!WalksAreOfTheirTime /\ Walks!PassedOnce /\ Walks!NeighborsAreNext
    [] part = "documents" -> Documents!PutsAreRead
    [] part = "namespaces" -> Spaces!KeysAreOwn
    [] part = "memory" -> Referred!AnswersAreTrue
    [] part = "logs" -> Recorded!AppendsAreWhole
    [] part = "texts" -> Texts!HitsAreWhole
    [] OTHER -> TRUE

(* A file's lock and a page's connection are shared and given back by the last
   that uses them, whatever fails in between; nothing stored is left without
   what describes it. *)
NothingLeaks ==
  CASE part = "libsql" -> Libsql!OneLockPerFile
    [] part = "indexeddb" -> Browser!NoConnectionLeaks
    [] part = "objects" -> Objects!SidecarsAreTrue /\ Objects!NoSidecarAlone
    [] part = "streams" -> Streams!PointersHaveBytes /\ Streams!NoOrphans
    [] part = "lineage" -> Traced!RepairsLeaveNothing
    [] part = "logs" -> Recorded!NeverWaitsForItself
    [] part = "texts" -> Texts!IndexIsOfRows
    [] OTHER -> TRUE

(* A collection's rows stay in its table although names share a hash, and its
   table is found in a bounded number of attempts. *)
TablesAreFound ==
  part = "tables" => Tables!RowsStayTheirs /\ Tables!TablesAreFound /\ Tables!ResolutionEnds

(* What a process or loader remembers is so: of tables after rollbacks, of
   fixtures after invalidation; a directory's index is of its files; a vector
   collection remembers the one dimension its vectors have; and the counts
   that searches rank by are of the documents. *)
CachesAreCurrent ==
  CASE part = "tables" -> Tables!CachesAreDurable
    [] part = "fixtures" -> Layers!CachesAreCurrent
    [] part = "documents" -> Documents!IndexIsCurrent
    [] part = "vectors" -> Vectors!OneDimension /\ Vectors!OpenedWhole
    [] part = "texts" -> Texts!CountsAreExact /\ Texts!TablesAreRemembered
    [] OTHER -> TRUE

(* Every backend lists, counts, pages, walks and searches as the reference
   does, in its order, and SQLite decides requests as it does; but keys of
   SQLite and libSQL also finds keys that begin with the prefix in other case. *)
BackendsAgree ==
  CASE part = "queries" -> /\ Compared!ListsAgree /\ Compared!InListsAgree /\ Compared!CountsAgree
                           /\ Compared!PagesCoverTheList /\ Compared!PrefixesAreLiteralButForCase
    [] part = "indexeddb" -> Browser!OrdinalsOrderRecords
    [] part = "walks" -> Walks!NativeWalksMissNothing
    [] part = "vectors" -> Vectors!SearchesAgree
    [] part = "memory" -> Referred!StoresAgree
    [] part = "texts" -> Texts!SearchesAgree
    [] OTHER -> TRUE

(* A claim keeps every revision, ends once, and is not accepted on the word of
   a model; records keep their files, people's notes and their history; lineage
   has no cycle and no loose end but those of overlapping calls, and a repair
   removes what is wrong. *)
HistoriesAreKept ==
  CASE part = "statements" -> Claims!HistoriesAreWhole /\ Claims!ModelsAreHeldBack
    [] part = "documents" -> /\ Documents!RecordsKeepTheirFiles /\ Documents!NotesSurvive
                             /\ Documents!HistoryFollows
    [] part = "lineage" -> /\ Traced!CyclesComeOfOverlap /\ Traced!DanglingEdgesComeOfOverlap
                           /\ Traced!DeletionsStand /\ Traced!RepairsActOnWhatIsWrong
    [] part = "logs" -> Recorded!Gapless /\ Recorded!ConsumersMissNothing
    [] OTHER -> TRUE

(* A step of one changes nothing that another sees: of a namespace or of a
   target, whatever namespaces, keys and records are called; no step changes
   or removes an entry of a log, and a refused call no document. *)
OthersAreUntouched ==
  [][CASE part = "namespaces" -> Spaces!StaysWithin
       [] part = "memory" -> Referred!OthersStay
       [] part = "texts" -> Texts!RefusedLeavesNothing
       [] part = "logs" -> Recorded!OnlyAppends
       [] OTHER -> TRUE]_partVars

(* What was asked for ends: every PostgreSQL client that goes on has its
   request answered, every transaction() settles, every store call that waits
   for a nested transaction is answered, and audits and repairs of artifacts
   come to an end, and so do the calls and transactions on a log. *)
RequestsEnd ==
  <>[]CASE part = "postgres" -> Postgres!AllAnswered
        [] part = "nesting" -> Nesting!AllAnswered
        [] part = "lineage" -> Traced!AllEnded
        [] part = "logs" -> Recorded!AllEnded
        [] OTHER -> TRUE
===============================================================================
