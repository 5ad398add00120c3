------------------------------ MODULE IndexedDb ------------------------------
(***************************************************************************)
(* The IndexedDB adapter (packages/store-indexeddb/src/index.ts): pages of *)
(* a browser that open one database, upgrade what an earlier release left, *)
(* and make each call in one IndexedDB transaction.                        *)
(*                                                                         *)
(* Of the browser: read-write transactions run one at a time, in the order *)
(* they were made; their requests succeed before they complete; an abort   *)
(* takes back every write. An upgrade waits until no older connection is   *)
(* open. A page of an earlier release (earlier) holds its connection until *)
(* its user closes it, and a newer release (or a deletion) first asks the  *)
(* open connections to close.                                              *)
(***************************************************************************)
EXTENDS Naturals, Sequences, FiniteSets, FiniteSetsExt

CONSTANTS
  Pages,
  Setups,       \* [database, earlier, work, faults, backup]: what is stored, whether an
                \* earlier release's page is open, the calls of each page,
                \* what may go wrong, the backup a page was handed
  KeyTargets, RecordTargets,
  Keys, NoKey,  \* idempotency keys
  Missing,      \* no row, version, receipt, creation time or counters
  RetentionMs,  \* receiptRetentionMs
  MaxClock      \* bound: the browser's clock

VARIABLES
  setup,
  database,   \* [schema, rows, versions, receipts, meta]
  earlier,    \* an earlier release's page has the database open
  clock,
  backup,     \* the last export
  conn,       \* per page: "none", "requested", "open" or "closed"
  promise,    \* per page, of openIndexedDbAdapter: "none", "pending", "resolved", "rejected"
  unusable,   \* per page: the adapter was released, and why
  line,       \* pages with a transaction, in order; the first runs
  call,       \* per page: [at, pc, now, draft, result]
  given,      \* versions that were stored, with their values, per import
  applied,    \* requests that were applied, likewise
  imports     \* imports that were carried out

indexedDbVars == <<setup, database, earlier, clock, backup, conn, promise, unusable, line, call,
                   given, applied, imports>>

SchemaVersion == 3   \* DATABASE_VERSION

Targets == KeyTargets \cup RecordTargets

Row(value, ordinal) == [value |-> value, ordinal |-> ordinal]

Stored(d) == {t \in Targets : d.rows[t] # Missing}

Given(d, epoch) ==
  {[version |-> d.versions[t], target |-> t, value |-> d.rows[t].value, import |-> epoch] :
     t \in {u \in Stored(d) : d.versions[u] # Missing}}

Result(status, versions) == [status |-> status, versions |-> versions]

(* Schema version 1 left the version of a key's earlier value in place. *)
Init ==
  /\ setup \in Setups
  /\ database = setup.database
  /\ earlier = setup.earlier
  /\ clock = 1
  /\ backup = setup.backup
  /\ conn = [p \in Pages |-> "none"]
  /\ promise = [p \in Pages |-> "none"]
  /\ unusable = [p \in Pages |-> "no"]
  /\ line = <<>>
  /\ call = [p \in Pages |-> [at |-> 1, pc |-> "idle", now |-> 0, draft |-> Missing,
                              result |-> Result("none", <<>>)]]
  /\ given = {g \in Given(database, 0) : database.schema = 3 \/ g.target \in RecordTargets}
             \cup {[g EXCEPT !.value = "before"] :
                     g \in {h \in Given(database, 0) : database.schema = 1 /\ h.target \in KeyTargets}}
  /\ applied = {}
  /\ imports = 0

--------------------
(* The schema upgrade, in the open request's own transaction. *)

(* Definitions marked "Bug:" are not part of the specification: each is
   the definition that follows it with a plausible mistake, for checking
   that the properties below notice it. *)

NewMeta(identity) == [identity |-> identity, nextVersion |-> 1, nextOrdinal |-> 1]

Version(meta, i) == <<meta.identity, meta.nextVersion + i - 1>>

(* Fresh versions for the targets, in some order, and the counters after. *)
Backfill(d, meta, identity, targets) ==
  IF targets = {} THEN [d EXCEPT !.meta = meta]
  ELSE LET state == IF meta = Missing THEN NewMeta(identity) ELSE meta
           order == CHOOSE f \in [targets -> 1 .. Cardinality(targets)] :
                      \A s, t \in targets : s # t => f[s] # f[t]
       IN [d EXCEPT !.versions = [t \in Targets |-> IF t \in targets THEN Version(state, order[t])
                                                    ELSE d.versions[t]],
                    !.meta = [state EXCEPT !.nextVersion = @ + Cardinality(targets)]]

Unversioned(d) == {t \in Stored(d) : d.versions[t] = Missing}

(* Bug: keys that have a version keep it, as records do. *)
TheUnversioned(d) == Unversioned(d)

ToBackfill(d) == (Stored(d) \cap KeyTargets) \cup Unversioned(d)

(* Identities of the first schema came from a counter per page. *)
Rekeyed(meta, identity) ==
  IF meta # Missing /\ meta.identity = "idb1" THEN [meta EXCEPT !.identity = identity] ELSE meta

BackfillVersions(d, identity) == Backfill(d, Rekeyed(d.meta, identity), identity, ToBackfill(d))

Stamped(receipt, now) ==
  IF receipt # Missing /\ receipt.created = Missing THEN [receipt EXCEPT !.created = now] ELSE receipt

StampReceipts(d, now) == [d EXCEPT !.receipts = [k \in Keys |-> Stamped(d.receipts[k], now)]]

Upgraded(d, identity, now) ==
  LET versioned == IF d.schema = 1 THEN BackfillVersions(d, identity) ELSE d
      stamped == IF d.schema \in 1 .. 2 THEN StampReceipts(versioned, now) ELSE versioned
  IN [stamped EXCEPT !.schema = SchemaVersion]

--------------------
(* openIndexedDbAdapter, the events of its request and of the connection. *)

RequestOpen(p) ==
  /\ promise[p] = "none" /\ conn[p] = "none"
  /\ conn' = [conn EXCEPT ![p] = "requested"]
  /\ promise' = [promise EXCEPT ![p] = "pending"]
  /\ UNCHANGED <<setup, database, earlier, clock, backup, unusable, line, call, given, applied, imports>>

(* onblocked: the caller is told, and the request stays. *)
Blocked(p) ==
  /\ conn[p] = "requested" /\ promise[p] = "pending"
  /\ earlier /\ database.schema < SchemaVersion
  /\ promise' = [promise EXCEPT ![p] = "rejected"]
  /\ UNCHANGED <<setup, database, earlier, clock, backup, conn, unusable, line, call, given, applied, imports>>

(* onerror: a newer schema, a failure of the browser or of the upgrade,
   whose transaction is aborted. *)
OpenFails(p) ==
  /\ conn[p] = "requested"
  /\ database.schema > SchemaVersion
     \/ ("open" \in setup.faults /\ (database.schema = SchemaVersion \/ ~earlier))
  /\ conn' = [conn EXCEPT ![p] = "none"]
  /\ promise' = [promise EXCEPT ![p] = "rejected"]
  /\ UNCHANGED <<setup, database, earlier, clock, backup, unusable, line, call, given, applied, imports>>

(* Bug: a connection that comes after the rejection is kept. *)
KeptOpen(p) == "open"

(* Nobody is told of a connection that comes after the rejection. *)
Settled(p) == IF promise[p] = "pending" THEN "open" ELSE "closed"

(* onupgradeneeded where there is something to upgrade, then onsuccess. *)
OpenSucceeds(p) ==
  /\ conn[p] = "requested"
  /\ database.schema = SchemaVersion \/ (database.schema < SchemaVersion /\ ~earlier)
  /\ database' = IF database.schema = SchemaVersion THEN database ELSE Upgraded(database, p, clock)
  /\ given' = given \cup Given(database', imports)
  /\ conn' = [conn EXCEPT ![p] = Settled(p)]
  /\ promise' = [promise EXCEPT ![p] = IF @ = "pending" THEN "resolved" ELSE @]
  /\ UNCHANGED <<setup, earlier, clock, backup, unusable, line, call, applied, imports>>

(* Bug: the adapter remembers the reason, and leaves its connection open. *)
LeftOpen(p) == conn

ConnectionClosed(p) == [conn EXCEPT ![p] = "closed"]

(* release: the first reason stays, and transactions that were made finish. *)
Release(p, reason) ==
  /\ unusable' = [unusable EXCEPT ![p] = IF @ = "no" THEN reason ELSE @]
  /\ conn' = ConnectionClosed(p)

Close(p) ==
  /\ promise[p] = "resolved" /\ "close" \in setup.faults /\ conn[p] = "open"
  /\ Release(p, "closed")
  /\ UNCHANGED <<setup, database, earlier, clock, backup, promise, line, call, given, applied, imports>>

(* onversionchange *)
VersionChange(p) ==
  /\ conn[p] = "open" /\ "newer" \in setup.faults
  /\ Release(p, "version-change")
  /\ UNCHANGED <<setup, database, earlier, clock, backup, promise, line, call, given, applied, imports>>

Rejected(p) == [call EXCEPT ![p].pc = "ended", ![p].result = Result("rejected", <<>>), ![p].draft = Missing]

(* A page has one place in the line at most. *)
Place(p) == CHOOSE i \in DOMAIN line : line[i] = p

Without(p) ==
  IF \A i \in DOMAIN line : line[i] # p THEN line
  ELSE [i \in 1 .. Len(line) - 1 |-> IF i < Place(p) THEN line[i] ELSE line[i + 1]]

(* onclose: the browser closed the connection; its transaction aborts. *)
ConnectionLost(p) ==
  /\ conn[p] = "open" /\ "lost" \in setup.faults
  /\ Release(p, "connection-lost")
  /\ call' = IF call[p].pc \in {"made", "finished"} THEN Rejected(p) ELSE call
  /\ line' = Without(p)
  /\ UNCHANGED <<setup, database, earlier, clock, backup, promise, given, applied, imports>>

(* External: the user closes the earlier release's page. *)
EarlierCloses ==
  /\ earlier
  /\ earlier' = FALSE
  /\ UNCHANGED <<setup, database, clock, backup, conn, promise, unusable, line, call, given, applied, imports>>

(* External: a newer release upgrades once every connection is closed. *)
NewerUpgrades ==
  /\ "newer" \in setup.faults /\ database.schema = SchemaVersion
  /\ line = <<>> /\ \A p \in Pages : conn[p] # "open"
  /\ database' = [database EXCEPT !.schema = SchemaVersion + 1]
  /\ UNCHANGED <<setup, earlier, clock, backup, conn, promise, unusable, line, call, given, applied, imports>>

--------------------
(* Operations on the database as their transaction sees it. A call is
   [op, target, value], or [op |-> "mutate", key, digest, condition,
   writes, removes] with writes in order, or [op] alone. *)

(* Records: a new row gets the next ordinal, a stored one keeps its own. *)
NewRecords(d, writes) == {i \in DOMAIN writes : writes[i] \in RecordTargets /\ d.rows[writes[i]] = Missing}

(* Bug: a record that is put again goes to the end, over the next one. *)
OrdinalTaken(d, meta, writes, i) == IF writes[i] \in KeyTargets THEN 0 ELSE meta.nextOrdinal

Ordinal(d, meta, writes, i) ==
  IF writes[i] \in KeyTargets THEN 0
  ELSE IF d.rows[writes[i]] # Missing THEN d.rows[writes[i]].ordinal
  ELSE meta.nextOrdinal + Cardinality({j \in NewRecords(d, writes) : j < i})

(* Bug: a key's plain write leaves its version, as in schema version 1. *)
VersionLeft(d, meta, writes) == d.versions

NewVersions(d, meta, writes) ==
  [t \in Targets |-> IF \E i \in DOMAIN writes : writes[i] = t
                     THEN Version(meta, CHOOSE i \in DOMAIN writes : writes[i] = t)
                     ELSE d.versions[t]]

Written(d, writes, value, identity) ==
  LET meta == IF d.meta = Missing THEN NewMeta(identity) ELSE d.meta IN
  [d EXCEPT
     !.rows = [t \in Targets |-> IF \E i \in DOMAIN writes : writes[i] = t
                                 THEN Row(value, Ordinal(d, meta, writes, CHOOSE i \in DOMAIN writes : writes[i] = t))
                                 ELSE d.rows[t]],
     !.versions = NewVersions(d, meta, writes),
     !.meta = [meta EXCEPT !.nextVersion = @ + Len(writes),
                           !.nextOrdinal = @ + Cardinality(NewRecords(d, writes))]]

Removed(d, removes) ==
  [d EXCEPT !.rows = [t \in Targets |-> IF t \in removes THEN Missing ELSE d.rows[t]],
            !.versions = [t \in Targets |-> IF t \in removes THEN Missing ELSE d.versions[t]]]

(* Bug: a receipt is expired at the end of its window, not after it. *)
IsExpiredAtItsEnd(receipt, now) ==
  receipt # Missing /\ receipt.created # Missing /\ receipt.created + RetentionMs <= now

(* isReceiptExpired; the range of pruneReceiptBatch is the same. *)
IsExpired(receipt, now) ==
  receipt # Missing /\ receipt.created # Missing /\ receipt.created + RetentionMs < now

(* One batch holds every receipt of the bounds used here. *)
Pruned(d, now, keep) ==
  [d EXCEPT !.receipts = [k \in Keys |-> IF k # keep /\ IsExpired(d.receipts[k], now) THEN Missing
                                         ELSE d.receipts[k]]]

Observed(d, t) == IF d.rows[t] = Missing THEN Missing ELSE d.versions[t]

ConditionMatches(d, condition) ==
  \/ condition = Missing
  \/ Observed(d, condition.target) = condition.version

WithReceipt(d, o, after, now) ==
  IF o.key = NoKey THEN after
  ELSE [after EXCEPT !.receipts[o.key] =
          [digest |-> o.digest, created |-> now, versions |-> [i \in DOMAIN o.writes |-> after.versions[o.writes[i]]]]]

(* mutateAtomically: the database after it and its answer. *)
Mutated(d, o, now, identity) ==
  LET pruned == IF o.key = NoKey THEN d ELSE Pruned(d, now, o.key)
      receipt == IF o.key = NoKey \/ IsExpired(d.receipts[o.key], now) THEN Missing ELSE d.receipts[o.key]
      after == Removed(IF o.writes = <<>> THEN pruned ELSE Written(pruned, o.writes, o.digest, identity), o.removes)
  IN IF receipt # Missing
     THEN [database |-> pruned,
           result |-> IF receipt.digest = o.digest THEN Result("replayed", receipt.versions)
                      ELSE Result("idempotency-conflict", <<>>)]
     ELSE IF ~ConditionMatches(d, o.condition) THEN [database |-> pruned, result |-> Result("conflict", <<>>)]
     ELSE LET final == WithReceipt(pruned, o, after, now)
          IN [database |-> final,
              result |-> Result("applied", [i \in DOMAIN o.writes |-> final.versions[o.writes[i]]])]

(* validateIndexedDbExport: rows, version targets and counters. *)
Valid(b) ==
  /\ \A t \in Targets : b.versions[t] # Missing => b.rows[t] # Missing
  /\ IF b.meta = Missing
     THEN \A t \in Targets : b.versions[t] = Missing /\ (t \in RecordTargets => b.rows[t] = Missing)
     ELSE /\ \A t \in Targets : b.versions[t] # Missing => b.versions[t][2] < b.meta.nextVersion
          /\ \A t \in RecordTargets : b.rows[t] # Missing => b.rows[t].ordinal < b.meta.nextOrdinal

(* Bug: what the backup does not have is left. *)
ImportedOver(d, b, identity, now) ==
  [[StampReceipts(b, now) EXCEPT !.schema = d.schema]
     EXCEPT !.rows = [t \in Targets |-> IF b.rows[t] = Missing THEN d.rows[t] ELSE b.rows[t]]]

(* importState: what was stored is cleared, the backup's rows put, missing
   versions issued and receipts stamped. *)
Imported(d, b, identity, now) ==
  [StampReceipts(Backfill(b, b.meta, identity, Unversioned(b)), now) EXCEPT !.schema = d.schema]

(* The outcome of page p's call, which is o, on database d. *)
Outcome(p, d, o) ==
  CASE o.op = "write"  -> [database |-> Written(d, <<o.target>>, o.value, p), result |-> Result("done", <<>>)]
    [] o.op = "remove" -> [database |-> Removed(d, {o.target}), result |-> Result("done", <<>>)]
    [] o.op = "mutate" -> Mutated(d, o, call[p].now, p)
    [] o.op = "prune"  -> [database |-> Pruned(d, call[p].now, NoKey), result |-> Result("done", <<>>)]
    [] o.op = "export" -> [database |-> d, result |-> Result("done", <<>>)]
    [] o.op = "import" -> [database |-> Imported(d, backup, p, clock), result |-> Result("done", <<>>)]

--------------------
(* run: one IndexedDB transaction per call. *)

HasCall(p) == promise[p] = "resolved" /\ call[p].at <= Len(setup.work[p])

Call(p) == setup.work[p][call[p].at]

(* The adapter is not usable any more, or the backup is not valid. *)
Refuse(p) ==
  /\ HasCall(p) /\ call[p].pc = "idle"
  /\ (unusable[p] # "no") \/ (Call(p).op = "import" /\ ~Valid(backup))
  /\ call' = Rejected(p)
  /\ UNCHANGED <<setup, database, earlier, clock, backup, conn, promise, unusable, line, given, applied, imports>>

(* The time is read before the transaction is made. *)
Make(p) ==
  /\ HasCall(p) /\ call[p].pc = "idle" /\ unusable[p] = "no"
  /\ Call(p).op = "import" => Valid(backup)
  /\ call' = [call EXCEPT ![p].pc = "made", ![p].now = clock]
  /\ line' = Append(line, p)
  /\ UNCHANGED <<setup, database, earlier, clock, backup, conn, promise, unusable, given, applied, imports>>

(* Its requests succeed, and finish keeps the answer. *)
Finish(p) ==
  /\ line # <<>> /\ Head(line) = p /\ call[p].pc = "made"
  /\ LET outcome == Outcome(p, database, Call(p)) IN
     call' = [call EXCEPT ![p].pc = "finished", ![p].draft = outcome.database, ![p].result = outcome.result]
  /\ UNCHANGED <<setup, database, earlier, clock, backup, conn, promise, unusable, line, given, applied, imports>>

Request(p) == [page |-> p, at |-> call[p].at, key |-> Call(p).key, digest |-> Call(p).digest,
               now |-> call[p].now, import |-> imports]

(* oncomplete: the writes are durable and the promise resolves. *)
Complete(p) ==
  /\ line # <<>> /\ Head(line) = p /\ call[p].pc = "finished"
  /\ database' = call[p].draft
  /\ line' = Tail(line)
  /\ call' = [call EXCEPT ![p].pc = "ended", ![p].draft = Missing]
  /\ imports' = IF Call(p).op = "import" THEN imports + 1 ELSE imports
  /\ given' = given \cup Given(database', imports')
  /\ backup' = IF Call(p).op = "export" THEN database ELSE backup
  /\ applied' = IF call[p].result.status = "applied" THEN applied \cup {Request(p)} ELSE applied
  /\ UNCHANGED <<setup, earlier, clock, conn, promise, unusable>>

(* Bug: the promise resolves when the requests have succeeded. *)
AnswerKept(p) == [call EXCEPT ![p].pc = "ended", ![p].draft = Missing]

AbortedCall(p) == Rejected(p)

(* A request fails, or the commit does (the quota): onerror, onabort. *)
Abort(p) ==
  /\ "abort" \in setup.faults /\ call[p].pc \in {"made", "finished"}
  /\ call' = AbortedCall(p)
  /\ line' = Without(p)
  /\ UNCHANGED <<setup, database, earlier, clock, backup, conn, promise, unusable, given, applied, imports>>

(* The page goes on with its next call. *)
GoOn(p) ==
  /\ call[p].pc = "ended" /\ call[p].at < Len(setup.work[p])
  /\ call' = [call EXCEPT ![p].pc = "idle", ![p].at = @ + 1]
  /\ UNCHANGED <<setup, database, earlier, clock, backup, conn, promise, unusable, line, given, applied, imports>>

Tick ==
  /\ clock < MaxClock
  /\ clock' = clock + 1
  /\ UNCHANGED <<setup, database, earlier, backup, conn, promise, unusable, line, call, given, applied, imports>>

Step(p) ==
  \/ RequestOpen(p) \/ Blocked(p) \/ OpenFails(p) \/ OpenSucceeds(p)
  \/ Refuse(p) \/ Make(p) \/ Finish(p) \/ Complete(p) \/ GoOn(p)

Next ==
  \/ \E p \in Pages : Step(p) \/ Close(p) \/ VersionChange(p) \/ ConnectionLost(p) \/ Abort(p)
  \/ EarlierCloses \/ NewerUpgrades \/ Tick

Spec == Init /\ [][Next]_indexedDbVars

--------------------
(* Properties *)

(* In the current schema every row has its version and no version is
   without a row, so no stored value is taken for an absent one. *)
TypeOK ==
  /\ database.schema = SchemaVersion => \A t \in Targets : (database.rows[t] = Missing) = (database.versions[t] = Missing)
  /\ \A p \in Pages : unusable[p] # "no" => promise[p] = "resolved"
  /\ \A i \in DOMAIN line : call[line[i]].pc \in {"made", "finished"}

(* A connection is open only for an adapter that a caller has and may use:
   one that nobody holds would block the next upgrade for ever. *)
NoConnectionLeaks ==
  \A p \in Pages : conn[p] = "open" => promise[p] = "resolved" /\ unusable[p] = "no"

(* A version stands for one value of one target, across the upgrade from
   every schema, and between two imports. *)
VersionsStandForOneValue ==
  \A g, h \in given : g.version = h.version /\ g.import = h.import =>
    g.target = h.target /\ g.value = h.value

(* What a resolved promise says was applied is durable, and what a
   rejected one says has left nothing. *)
PromisesTellTheTruth ==
  \A p \in Pages : call[p].pc = "ended" =>
    /\ call[p].result.status = "rejected" => ~\E r \in applied : r.page = p /\ r.at = call[p].at
    /\ call[p].result.status = "applied" => \E r \in applied : r.page = p /\ r.at = call[p].at

(* A request is applied once while its receipt lasts: again only by one
   that came more than the window after it, or in another import's time. *)
AppliedOncePerWindow ==
  \A r, s \in applied : r # s /\ r.key = s.key /\ r.key # NoKey /\ r.import = s.import =>
    r.now + RetentionMs < s.now \/ s.now + RetentionMs < r.now

(* Records list in the order they were first put: no two share an ordinal,
   and the next one is past them all. *)
OrdinalsOrderRecords ==
  \A t \in RecordTargets : database.rows[t] # Missing =>
    /\ database.rows[t].ordinal < database.meta.nextOrdinal
    /\ \A u \in RecordTargets \ {t} :
         database.rows[u] # Missing => database.rows[u].ordinal # database.rows[t].ordinal
===============================================================================
