----------------------------- MODULE SqliteTables -----------------------------
(***************************************************************************)
(* How processes that share one SQLite file find and remember the tables   *)
(* of collections and search indexes: the registry and tableResolution     *)
(* (packages/store/src/sql.ts), the synchronous adapter's caches           *)
(* (adapters/sqlite-core.ts) and the libSQL adapter's                      *)
(* (packages/store-libsql/src/libsql-core.ts), which work on the same file.*)
(*                                                                         *)
(* Every statement is a step. A process runs blocks: transactions, that    *)
(* commit or roll back, or operations on their own. The first candidate of *)
(* a name is a hash of it, so that names may share it.                     *)
(***************************************************************************)
EXTENDS Naturals, Sequences, FiniteSets

CONSTANTS
  Processes,
  Setups,      \* [libsql, blocks, disk, hash]: the processes that use the libSQL adapter,
               \* the blocks of each process, the file at first, and the hash of each name
  Names,
  Attempts,    \* TABLE_RESOLUTION_ATTEMPTS
  Missing      \* no table, no process, no transaction

VARIABLES
  set,     \* which of the setups this is
  file,    \* the committed database: [registry, tables, rows, schemas]
  locked,  \* the process whose transaction has written
  cache,   \* per process: [resolved, initialized, ensured], what it remembers
  proc     \* per process: [pc, block, op, candidate, attempt, table, draft, base, pending, results]

tablesVars == <<set, file, locked, cache, proc>>

Kinds == {"collection", "search"}

(* A physical table: the prefix of its kind, a hash, and the suffix. *)
Candidate(kind, name, i) == <<kind, set.hash[name], i>>

(* Operations on records go to a collection, the others to an index. *)
KindOf(o) == IF o.op \in {"put", "read", "peek"} THEN "collection" ELSE "search"

Blocks(p) == set.blocks[p]

Block(p) == Blocks(p)[proc[p].block]

Operation(p) == Block(p).ops[proc[p].op]

Kind(p) == KindOf(Operation(p))

Name(p) == Operation(p).name

Key(p) == <<Kind(p), Name(p)>>

Init ==
  /\ set \in Setups
  /\ file = set.disk
  /\ locked = Missing
  /\ cache = [p \in Processes |-> [resolved |-> [k \in Kinds \X Names |-> Missing],
                                   initialized |-> {}, ensured |-> {}]]
  /\ proc = [p \in Processes |-> [pc |-> "next", block |-> 1, op |-> 1, candidate |-> 1, attempt |-> 1,
                                  table |-> Missing, draft |-> Missing, base |-> Missing,
                                  pending |-> {}, results |-> <<>>]]

--------------------
(* Transactions: deferred ones in the synchronous adapter, where a write
   after someone else's commit is refused; immediate ones in libSQL. *)

InTransaction(p) == proc[p].draft # Missing

View(p) == IF InTransaction(p) THEN proc[p].draft ELSE file

MayWrite(p) == locked \in {Missing, p}

Stale(p) == InTransaction(p) /\ locked # p /\ proc[p].base # file

(* A writing statement of p makes its view d and its process q. *)
Write(p, d, q) ==
  /\ ~Stale(p) /\ MayWrite(p)
  /\ IF InTransaction(p)
     THEN proc' = [proc EXCEPT ![p] = [q EXCEPT !.draft = d]] /\ locked' = p /\ UNCHANGED file
     ELSE proc' = [proc EXCEPT ![p] = q] /\ file' = d /\ UNCHANGED locked

At(p, pc) == [proc[p] EXCEPT !.pc = pc]

Begin(p) ==
  /\ proc[p].pc = "next" /\ proc[p].block <= Len(Blocks(p)) /\ proc[p].op = 1 /\ ~InTransaction(p)
  /\ Block(p).ends # "none"
  /\ p \in set.libsql => locked = Missing
  /\ locked' = IF p \in set.libsql THEN p ELSE locked
  /\ proc' = [proc EXCEPT ![p].draft = file, ![p].base = file]
  /\ UNCHANGED <<set, file, cache>>

(* Bug: a table is remembered as soon as it is found. *)
RememberedAtOnce(p) == TRUE

(* What is found in a transaction is not remembered by the synchronous
   adapter; libSQL remembers it when the transaction commits. *)
MayRemember(p) == ~InTransaction(p)

AfterBlock(p, result) ==
  [proc[p] EXCEPT !.pc = "next", !.block = @ + 1, !.op = 1, !.draft = Missing, !.base = Missing,
                  !.pending = {}, !.results = Append(@, result)]

Unlocked(p) == IF locked = p THEN Missing ELSE locked

(* Bug: what a transaction found is remembered however it ends. *)
RememberedAnyway(p, commits) ==
  [cache EXCEPT ![p].resolved =
     [k \in Kinds \X Names |-> IF \E t \in proc[p].pending : t[1] = k
                               THEN (CHOOSE t \in proc[p].pending : t[1] = k)[2] ELSE @[k]]]

AfterEnd(p, commits) ==
  IF ~commits THEN cache
  ELSE [cache EXCEPT ![p].resolved =
          [k \in Kinds \X Names |-> IF \E t \in proc[p].pending : t[1] = k
                                    THEN (CHOOSE t \in proc[p].pending : t[1] = k)[2] ELSE @[k]]]

(* The transaction of the block ends. *)
EndBlock(p) ==
  LET commits == Block(p).ends = "commit" IN
  /\ proc[p].pc = "next" /\ proc[p].block <= Len(Blocks(p)) /\ proc[p].op > Len(Block(p).ops)
  /\ file' = IF commits /\ InTransaction(p) /\ locked = p THEN proc[p].draft ELSE file
  /\ locked' = Unlocked(p)
  /\ cache' = AfterEnd(p, commits)
  /\ proc' = [proc EXCEPT ![p] = AfterBlock(p, "done")]
  /\ UNCHANGED set

(* An operation throws: its transaction, if any, is rolled back. *)
Throw(p, why) ==
  /\ proc' = [proc EXCEPT ![p] = AfterBlock(p, why)]
  /\ locked' = Unlocked(p)
  /\ UNCHANGED <<set, file, cache>>

Writes(p) ==
  CASE proc[p].pc \in {"register", "newSchema"} -> TRUE
    [] proc[p].pc = "create" -> Operation(p).op # "peek" /\ proc[p].table \notin View(p).tables
    [] proc[p].pc = "run" -> Operation(p).op \in {"put", "index"}
    [] OTHER -> FALSE

(* What the transaction has read is out of date, or its turn to write does
   not come in busyTimeoutMs. *)
Busy(p) ==
  /\ InTransaction(p) /\ Writes(p) /\ (Stale(p) \/ ~MayWrite(p))
  /\ Throw(p, "busy")

--------------------
(* An operation starts with what is remembered. *)

Libsql(p) == p \in set.libsql

Remembered(p) == cache[p].resolved[Key(p)]

(* libSQL makes its own transaction for an operation that is in none and
   has to look for its table, or writes. *)
Start(p) ==
  LET o == Operation(p)
      own == Libsql(p) /\ ~InTransaction(p) /\ (o.op = "put" \/ Remembered(p) = Missing) IN
  /\ proc[p].pc = "next" /\ proc[p].block <= Len(Blocks(p)) /\ proc[p].op <= Len(Block(p).ops)
  /\ Block(p).ends # "none" => InTransaction(p)
  /\ own => locked = Missing
  /\ locked' = IF own THEN p ELSE locked
  /\ proc' = [proc EXCEPT ![p] =
        [proc[p] EXCEPT !.candidate = 1, !.attempt = 1, !.table = Remembered(p),
                  !.draft = IF own THEN file ELSE @, !.base = IF own THEN file ELSE @,
                  !.pc = IF KindOf(o) = "search" THEN "schema"
                         ELSE IF Remembered(p) = Missing THEN "look" ELSE "create"]]
  /\ UNCHANGED <<set, file, cache>>

--------------------
(* tableResolution and its drivers. *)

(* What is remembered once p resolved its name to table t. *)
AfterResolution(p, t) ==
  IF MayRemember(p) /\ ~Libsql(p) THEN [cache EXCEPT ![p].resolved[Key(p)] = t] ELSE cache

Pending(p, t) == IF Libsql(p) THEN proc[p].pending \cup {<<Key(p), t>>} ELSE proc[p].pending

Resolved(p, t) == [proc[p] EXCEPT !.pc = "create", !.table = t, !.pending = Pending(p, t)]

(* SELECT_REGISTERED_TABLE_SQL. *)
Look(p) ==
  LET t == View(p).registry[Key(p)] IN
  /\ proc[p].pc = "look"
  /\ IF t = Missing
     THEN proc' = [proc EXCEPT ![p] = [At(p, "claim") EXCEPT !.candidate = 1]] /\ UNCHANGED cache
     ELSE proc' = [proc EXCEPT ![p] = Resolved(p, t)] /\ cache' = AfterResolution(p, t)
  /\ UNCHANGED <<set, file, locked>>

Claimed(d, t) == \E k \in Kinds \X Names : d.registry[k] = t

(* SELECT_TABLE_CLAIM_SQL. An unclaimed first candidate is adopted with
   what is in it. *)
Claim(p) ==
  LET t == Candidate(Kind(p), Name(p), proc[p].candidate) IN
  /\ proc[p].pc = "claim"
  /\ proc' = [proc EXCEPT ![p] =
        IF Claimed(View(p), t) THEN [proc[p] EXCEPT !.candidate = @ + 1]
        ELSE IF proc[p].candidate = 1 THEN [proc[p] EXCEPT !.pc = "register", !.table = t]
        ELSE [proc[p] EXCEPT !.pc = "exists", !.table = t]]
  /\ UNCHANGED <<set, file, locked, cache>>

(* Bug: a suffixed table that exists is adopted. *)
Adopted(d, t) == FALSE

(* A stray table holds rows that this name has no claim to. *)
Stray(d, t) == t \in d.tables

(* SELECT_TABLE_EXISTS_SQL. *)
Exists(p) ==
  /\ proc[p].pc = "exists"
  /\ proc' = [proc EXCEPT ![p] =
        IF Stray(View(p), proc[p].table) THEN [proc[p] EXCEPT !.pc = "claim", !.candidate = @ + 1]
        ELSE [proc[p] EXCEPT !.pc = "register"]]
  /\ UNCHANGED <<set, file, locked, cache>>

(* Bug: table names are not unique: only a name's own row is in conflict. *)
OwnRowOnly(p, t) == View(p).registry[Key(p)] # Missing

(* The primary key and the UNIQUE table_name of _mirk_tables. *)
Conflict(p, t) == View(p).registry[Key(p)] # Missing \/ Claimed(View(p), t)

(* INSERT_REGISTERED_TABLE_SQL. *)
Register(p) ==
  LET t == proc[p].table IN
  /\ proc[p].pc = "register" /\ ~Conflict(p, t)
  /\ Write(p, [View(p) EXCEPT !.registry[Key(p)] = t], Resolved(p, t))
  /\ cache' = AfterResolution(p, t)
  /\ UNCHANGED set

(* Bug: the resolution goes on with its candidate. *)
NextCandidate(p) == At(p, "claim")

FromTheStart(p) == [At(p, "look") EXCEPT !.candidate = 1]

(* isTableRegistryConflict: the resolution starts again. *)
Restart(p) ==
  /\ proc[p].pc = "register" /\ Conflict(p, proc[p].table) /\ ~Stale(p) /\ MayWrite(p)
  /\ IF proc[p].attempt >= Attempts THEN Throw(p, "conflict")
     ELSE /\ proc' = [proc EXCEPT ![p] = [FromTheStart(p) EXCEPT !.attempt = @ + 1]]
          /\ UNCHANGED <<set, file, locked, cache>>

--------------------
(* ensureTable, tableIfExists, and the search facet's schema and ensure. *)

(* Bug: the search facet's discipline for collections too. *)
InitializedAtOnce(p, t) == [cache EXCEPT ![p].initialized = @ \cup {t}]

AfterCreate(p, t) ==
  IF Libsql(p) \/ ~MayRemember(p) THEN cache ELSE [cache EXCEPT ![p].initialized = @ \cup {t}]

(* libSQL commits the transaction in which it looked for the table of a
   read. *)
Looked(p) == Libsql(p) /\ Block(p).ends = "none" /\ InTransaction(p) /\ Operation(p).op # "put"

Known(p, t) == IF Libsql(p) THEN Remembered(p) = t ELSE t \in cache[p].initialized

Created(p) == LET t == proc[p].table IN [View(p) EXCEPT !.tables = @ \cup {t}]

(* CREATE TABLE IF NOT EXISTS, unless p remembers that there is one. *)
Create(p) ==
  LET t == proc[p].table IN
  /\ proc[p].pc = "create" /\ Kind(p) = "collection" /\ Operation(p).op # "peek"
  /\ IF Known(p, t)
     THEN proc' = [proc EXCEPT ![p].pc = "run"] /\ UNCHANGED <<file, locked, cache>>
     ELSE /\ IF Looked(p)
             THEN /\ file' = Created(p)
                  /\ locked' = Unlocked(p)
                  /\ proc' = [proc EXCEPT ![p] = [At(p, "run") EXCEPT !.draft = Missing, !.base = Missing, !.pending = {}]]
             ELSE IF t \in View(p).tables
                  THEN proc' = [proc EXCEPT ![p].pc = "run"] /\ UNCHANGED <<file, locked>>
                  ELSE Write(p, Created(p), At(p, "run"))
          /\ cache' = IF Looked(p) THEN AfterEnd(p, TRUE) ELSE AfterCreate(p, t)
  /\ UNCHANGED set

(* tableIfExists: nothing is created for a read of a version. *)
Peek(p) ==
  /\ proc[p].pc = "create" /\ Operation(p).op = "peek" /\ ~Libsql(p)
  /\ proc' = [proc EXCEPT ![p] =
        IF proc[p].table \in cache[p].initialized \/ proc[p].table \in View(p).tables
        THEN At(p, "run") ELSE [At(p, "next") EXCEPT !.op = @ + 1]]
  /\ UNCHANGED <<set, file, locked, cache>>

(* loadSchema and schemaForIndex. *)
Schema(p) ==
  /\ proc[p].pc = "schema"
  /\ LET known == Name(p) \in View(p).schemas
         on == IF Remembered(p) = Missing THEN "look" ELSE "create" IN
     IF known THEN proc' = [proc EXCEPT ![p].pc = on] /\ UNCHANGED <<file, locked>>
     ELSE IF Operation(p).op = "index" THEN proc' = [proc EXCEPT ![p].pc = "newSchema"] /\ UNCHANGED <<file, locked>>
     ELSE proc' = [proc EXCEPT ![p] = [At(p, "next") EXCEPT !.op = @ + 1]] /\ UNCHANGED <<file, locked>>
  /\ UNCHANGED <<set, cache>>

NewSchema(p) ==
  /\ proc[p].pc = "newSchema"
  /\ IF Name(p) \in View(p).schemas THEN Throw(p, "constraint")
     ELSE /\ Write(p, [View(p) EXCEPT !.schemas = @ \cup {Name(p)}],
                   At(p, IF Remembered(p) = Missing THEN "look" ELSE "create"))
          /\ UNCHANGED <<set, cache>>

(* ensure: the documents' table, its full text index and triggers, which
   are remembered inside transactions too. *)
Ensure(p) ==
  LET t == proc[p].table IN
  /\ proc[p].pc = "create" /\ Kind(p) = "search"
  /\ IF t \in cache[p].ensured \/ t \in View(p).tables
     THEN proc' = [proc EXCEPT ![p].pc = "run"] /\ UNCHANGED <<file, locked>>
     ELSE Write(p, Created(p), At(p, "run"))
  /\ cache' = [cache EXCEPT ![p].ensured = @ \cup {t}]
  /\ UNCHANGED set

--------------------
(* The statement of the operation itself. *)

Row(p) == <<proc[p].table, Name(p)>>

(* In libSQL the write's own transaction commits. *)
Run(p) ==
  LET writes == Operation(p).op \in {"put", "index"}
      after == [At(p, "next") EXCEPT !.op = @ + 1]
      d == [View(p) EXCEPT !.rows = @ \cup {Row(p)}] IN
  /\ proc[p].pc = "run" /\ proc[p].table \in View(p).tables
  /\ IF ~writes THEN proc' = [proc EXCEPT ![p] = after] /\ UNCHANGED <<file, locked, cache>>
     ELSE IF Libsql(p) /\ Block(p).ends = "none"
     THEN /\ file' = d /\ locked' = Missing /\ cache' = AfterEnd(p, TRUE)
          /\ proc' = [proc EXCEPT ![p] = [after EXCEPT !.draft = Missing, !.base = Missing, !.pending = {}]]
     ELSE Write(p, d, after) /\ UNCHANGED cache
  /\ UNCHANGED set

NoSuchTable(p) == proc[p].pc = "run" /\ proc[p].table \notin View(p).tables /\ Throw(p, "no such table")

Step(p) ==
  \/ Begin(p) \/ EndBlock(p) \/ Busy(p) \/ Start(p) \/ Look(p) \/ Claim(p) \/ Exists(p) \/ Register(p)
  \/ Restart(p) \/ Create(p) \/ Peek(p) \/ Schema(p) \/ NewSchema(p) \/ Ensure(p) \/ Run(p) \/ NoSuchTable(p)

Next == \E p \in Processes : Step(p)

Spec == Init /\ [][Next]_tablesVars

--------------------
(* Properties *)

(* A process that has written holds the lock; nobody else's view changes
   the file. *)
TypeOK ==
  /\ locked # Missing => InTransaction(locked)
  /\ \A p \in Processes : InTransaction(p) /\ locked # p => proc[p].draft = proc[p].base
  /\ \A p \in Processes : proc[p].block <= Len(Blocks(p)) + 1

(* Two names never share a table, and the rows of one name are all in one
   table of their kind. *)
RowsStayTheirs ==
  \A r, s \in file.rows :
    /\ r[1] = s[1] => r[2] = s[2]
    /\ r[2] = s[2] /\ r[1][1] = s[1][1] => r[1] = s[1]

(* What a process remembers of collections is committed: their tables'
   names and that they exist. *)
CachesAreDurable ==
  \A p \in Processes :
    /\ \A k \in Kinds \X Names :
         cache[p].resolved[k] # Missing => file.registry[k] = cache[p].resolved[k]
    /\ cache[p].initialized \subseteq file.tables

(* No operation on a collection fails because its table is missing. *)
TablesAreFound ==
  \A p \in Processes : proc[p].pc = "run" /\ Kind(p) = "collection" => proc[p].table \in View(p).tables

(* A process gets its table for a name however often others claim first. *)
ResolutionEnds == \A p \in Processes : \A i \in DOMAIN proc[p].results : proc[p].results[i] # "conflict"
===============================================================================
