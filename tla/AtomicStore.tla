----------------------------- MODULE AtomicStore -----------------------------
(***************************************************************************)
(* The atomic mutation store of @mirk/store over SQLite: versioned values, *)
(* conditional batches, idempotency receipts that expire, and transactions *)
(* around them (packages/store/src/adapters/sqlite-core.ts, atomic.ts).    *)
(*                                                                         *)
(* SQLite's write lock serializes whoever writes the file, so a call made  *)
(* in one transaction is one action, and while a transaction is open only  *)
(* calls inside it write. Reading a value that has no version yet outside  *)
(* of any transaction is three statements, and other processes act between *)
(* them. A version token is its number; the identity in front of it is     *)
(* fixed for a file. A value is told apart by the serial number of the     *)
(* call that wrote it; 0 is a value from an earlier release.               *)
(***************************************************************************)
EXTENDS Integers, Sequences, FiniteSets

CONSTANTS
  Targets,       \* keys and records, numbered in the order of compareTargets
  Keys,          \* idempotency keys
  NoKey,         \* the request carries none
  Requests,      \* [conditions, operations]; the digest of a request is the request
  Readers,       \* other processes that call getVersioned outside a transaction
  Idle,          \* a reader between two calls
  NoReceipt,
  Unstamped,     \* the created_at of a receipt from an earlier release
  Never,         \* when a key was applied, if it was not
  RetentionMs,   \* receiptRetentionMs; a negative value for none
  PruneBatch,    \* RECEIPT_PRUNE_BATCH
  MaxNesting,    \* bound: transactions open inside each other
  MaxMinted,     \* bound: version tokens minted
  MaxCalls,      \* bound: calls that write
  MaxClock,      \* bound: the clock's last value
  AutoRollback   \* whether SQLite may end a transaction by itself (full disk, I/O)

Expectations == [expected : {"missing", "present", "version"}, version : Nat]

ASSUME RequestsAssumption ==
  /\ Targets \subseteq Nat
  /\ IsFiniteSet(Targets)
  /\ NoKey \notin Keys
  /\ \A r \in Requests :
       /\ DOMAIN r.conditions \subseteq Targets
       /\ \A t \in DOMAIN r.conditions : r.conditions[t] \in Expectations
       /\ DOMAIN r.operations \subseteq Targets
       /\ DOMAIN r.operations # {}
       /\ \A t \in DOMAIN r.operations : r.operations[t] \in {"write", "remove"}

ASSUME BoundsAssumption ==
  /\ RetentionMs \in Int
  /\ {PruneBatch, MaxNesting, MaxMinted, MaxCalls, MaxClock} \subseteq Nat
  /\ AutoRollback \in BOOLEAN

VARIABLES
  db,        \* the tables, see Databases
  sequence,  \* _mirk_atomic_sequence: the last version number minted
  saved,     \* per open transaction, outermost first: db and sequence at its savepoint
  looking,   \* per reader: what it has read of a value without a version
  serial,    \* calls that wrote so far, rolled back or not
  issued,    \* [token, target, content]: tokens given out, and what they stood for
  clock      \* options.now()

vars == <<db, sequence, saved, looking, serial, issued, clock>>

Moments == Int \cup {Unstamped, Never}

(* Who answers for a key: the request of its receipt, none for a receipt
   of an earlier release. *)
Receipts == [request : Requests \cup {NoKey}, created : Int \cup {Unstamped}]

ASSUME MarkersAssumption ==
  /\ Unstamped \notin Int /\ Never \notin Int /\ Unstamped # Never
  /\ NoReceipt \notin Receipts

(* The fields applied and consumed are history, rolled back with the rest:
   when and by which call a key was last applied, and which call replaced
   a version it was conditioned on. *)
Databases == [present  : [Targets -> BOOLEAN],
              version  : [Targets -> Nat],
              content  : [Targets -> Nat],
              receipt  : [Keys -> Receipts \cup {NoReceipt}],
              applied  : [Keys -> [at : Moments, by : Nat]],
              consumed : SUBSET [target : Targets, version : Nat, by : Nat]]

(* A file an earlier release may have left: values without versions, and
   receipts without a creation time. *)
Init ==
  /\ \E present \in [Targets -> BOOLEAN], old \in SUBSET Keys :
       db = [present  |-> present,
             version  |-> [t \in Targets |-> 0],
             content  |-> [t \in Targets |-> 0],
             receipt  |-> [k \in Keys |-> IF k \in old THEN [request |-> NoKey, created |-> Unstamped]
                                                       ELSE NoReceipt],
             applied  |-> [k \in Keys |-> [at |-> IF k \in old THEN Unstamped ELSE Never, by |-> 0]],
             consumed |-> {}]
  /\ sequence = 0
  /\ saved = <<>>
  /\ looking = [p \in Readers |-> Idle]
  /\ serial = 0
  /\ issued = {}
  /\ clock = 0

--------------------
(* Version tokens (writeVersion, clearVersion, readVersionedTarget). *)

Rank(T, t) == Cardinality({u \in T : u =< t})

(* A fresh number after last for each member of T, in order. *)
Numbered(f, T, last) == [t \in Targets |-> IF t \in T THEN last + Rank(T, t) ELSE f[t]]

Tokens(d, T) == {[token |-> d.version[t], target |-> t, content |-> d.content[t]] : t \in T}

(* A value found without a version is given one when it is looked at. *)
Unversioned(d, T) == {t \in T : d.present[t] /\ d.version[t] = 0}

Looked(d, T) == [d EXCEPT !.version = Numbered(d.version, T, sequence)]

Writes(r) == {t \in DOMAIN r.operations : r.operations[t] = "write"}
Removes(r) == {t \in DOMAIN r.operations : r.operations[t] = "remove"}

(* The batch on d, its fresh tokens coming after last. *)
Batch(d, r, last) ==
  [d EXCEPT !.present = [t \in Targets |-> (d.present[t] \/ t \in Writes(r)) /\ t \notin Removes(r)],
            !.version = [t \in Targets |-> IF t \in Removes(r) THEN 0
                                           ELSE Numbered(d.version, Writes(r), last)[t]],
            !.content = [t \in Targets |-> IF t \in Writes(r) THEN serial + 1 ELSE d.content[t]]]

--------------------
(* Receipts (readReceipt, writeReceipt, pruneReceiptBatch). *)

(* Definitions marked "Bug:" are not part of the specification: each is
   the definition that follows it with a plausible mistake, for checking
   that the properties below notice it. *)

(* Bug: a receipt is expired at the age of the window. *)
IsReceiptExpiredEarly(created, now) ==
  RetentionMs >= 0 /\ created # Unstamped /\ now - created >= RetentionMs

IsReceiptExpired(created, now) ==
  RetentionMs >= 0 /\ created # Unstamped /\ now - created > RetentionMs

(* Bug: a receipt without a creation time answers nothing. *)
ReadStampedReceipt(d, k, now) ==
  IF d.receipt[k] = NoReceipt THEN NoReceipt
  ELSE IF d.receipt[k].created = Unstamped THEN NoReceipt
  ELSE IF IsReceiptExpired(d.receipt[k].created, now) THEN NoReceipt
  ELSE d.receipt[k]

ReadReceipt(d, k, now) ==
  IF d.receipt[k] = NoReceipt THEN NoReceipt
  ELSE IF IsReceiptExpired(d.receipt[k].created, now) THEN NoReceipt
  ELSE d.receipt[k]

AtMost(S, n) == {T \in SUBSET S : Cardinality(T) =< n /\ (T = S \/ Cardinality(T) = n)}

With(d, created) == {k \in Keys : d.receipt[k] # NoReceipt /\ d.receipt[k].created \in created}

Stamped(d, S) ==
  [d EXCEPT !.receipt = [k \in Keys |-> IF k \in S THEN [d.receipt[k] EXCEPT !.created = clock]
                                                   ELSE d.receipt[k]],
            !.applied = [k \in Keys |-> IF k \in S THEN [d.applied[k] EXCEPT !.at = clock]
                                                   ELSE d.applied[k]]]

(* One batch of the expired receipts, the oldest ones. *)
OldestExpired(d) ==
  LET expired == With(d, {c \in 0..MaxClock : IsReceiptExpired(c, clock)}) IN
  {T \in AtMost(expired, PruneBatch) :
     \A k \in T, l \in expired \ T : d.receipt[k].created =< d.receipt[l].created}

Without(d, T) == [d EXCEPT !.receipt = [k \in Keys |-> IF k \in T THEN NoReceipt ELSE d.receipt[k]]]

(* The databases one batch of pruning may leave. *)
Pruned(d) ==
  IF RetentionMs < 0 THEN {d}
  ELSE UNION {{Without(Stamped(d, S), T) : T \in OldestExpired(Stamped(d, S))} :
              S \in AtMost(With(d, {Unstamped}), PruneBatch)}

WriteReceipt(d, k, r) ==
  IF k = NoKey THEN d
  ELSE [d EXCEPT !.receipt[k] = [request |-> r, created |-> clock],
                 !.applied[k] = [at |-> clock, by |-> serial + 1]]

--------------------
(* Conditions. *)

(* Bug: a version is expected to be there, not to be current. *)
HoldsIfPresent(d, t, c) == IF c.expected = "missing" THEN ~d.present[t] ELSE d.present[t]

Holds(d, t, c) == \/ c.expected = "missing" /\ ~d.present[t]
                  \/ c.expected = "present" /\ d.present[t]
                  \/ c.expected = "version" /\ d.present[t] /\ d.version[t] = c.version

ConditionHolds(d, r, t) == Holds(d, t, r.conditions[t])

(* Conditions are checked in order, up to the first that fails. *)
Checked(d, r) == {t \in DOMAIN r.conditions :
                    \A u \in DOMAIN r.conditions : u < t => ConditionHolds(d, r, u)}

AllHold(d, r) == \A t \in DOMAIN r.conditions : ConditionHolds(d, r, t)

(* Tokens are opaque: a caller has only those that were given out. *)
HoldsItsTokens(r) ==
  \A t \in DOMAIN r.conditions :
    r.conditions[t].expected = "version"
      => \E i \in issued : i.target = t /\ i.token = r.conditions[t].version

Replaced(r) == {[target |-> t, version |-> r.conditions[t].version, by |-> serial + 1] :
                  t \in {u \in DOMAIN r.conditions \cap DOMAIN r.operations :
                           r.conditions[u].expected = "version"}}

--------------------
(* Calls. *)

MayMint(n) == sequence + n =< MaxMinted

(* getVersioned of a value that has no version, with nobody in between. *)
GetVersioned(t) ==
  /\ Unversioned(db, {t}) # {}
  /\ MayMint(1)
  /\ db' = Looked(db, {t})
  /\ sequence' = sequence + 1
  /\ issued' = issued \cup Tokens(db', {t})
  /\ UNCHANGED <<saved, looking, serial, clock>>

Committed == IF saved = <<>> THEN db ELSE saved[1].db

(* The same in another process, statement by statement: it reads what is
   committed, takes a number, and enters it for the target. *)
Look(p, t) ==
  /\ looking[p] = Idle
  /\ Unversioned(Committed, {t}) # {}
  /\ looking' = [looking EXCEPT ![p] = [token |-> 0, target |-> t, content |-> Committed.content[t]]]
  /\ UNCHANGED <<db, sequence, saved, serial, issued, clock>>

Mint(p) ==
  /\ looking[p] # Idle
  /\ looking[p].token = 0
  /\ saved = <<>>
  /\ MayMint(1)
  /\ sequence' = sequence + 1
  /\ looking' = [looking EXCEPT ![p].token = sequence + 1]
  /\ UNCHANGED <<db, saved, serial, issued, clock>>

Enter(p) ==
  /\ looking[p] # Idle
  /\ looking[p].token # 0
  /\ saved = <<>>
  /\ db' = [db EXCEPT !.version[looking[p].target] = looking[p].token]
  /\ issued' = issued \cup {looking[p]}
  /\ looking' = [looking EXCEPT ![p] = Idle]
  /\ UNCHANGED <<sequence, saved, serial, clock>>

(* set and put *)
Set(t) ==
  /\ serial < MaxCalls
  /\ MayMint(1)
  /\ db' = [db EXCEPT !.present[t] = TRUE, !.version[t] = sequence + 1, !.content[t] = serial + 1]
  /\ sequence' = sequence + 1
  /\ serial' = serial + 1
  /\ issued' = issued \cup Tokens(db', {t})
  /\ UNCHANGED <<saved, looking, clock>>

(* delete and remove *)
Delete(t) ==
  /\ db.present[t]
  /\ db' = [db EXCEPT !.present[t] = FALSE, !.version[t] = 0]
  /\ UNCHANGED <<sequence, saved, looking, serial, issued, clock>>

(* mutateAtomically: what pruning left answers first, then the conditions
   decide, and the batch is applied with its receipt or not at all. *)
Answered(d, k) ==  \* replayed, or idempotency-conflict for another request
  /\ k # NoKey
  /\ ReadReceipt(d, k, clock) # NoReceipt
  /\ db' = d
  /\ UNCHANGED <<sequence, serial, issued>>

Conflict(d, k, r) ==
  LET seen == Unversioned(d, Checked(d, r)) IN
  /\ k # NoKey => ReadReceipt(d, k, clock) = NoReceipt
  /\ ~AllHold(d, r)
  /\ MayMint(Cardinality(seen))
  /\ db' = Looked(d, seen)
  /\ sequence' = sequence + Cardinality(seen)
  /\ issued' = issued \cup Tokens(db', seen)
  /\ UNCHANGED serial

Applied(d, k, r) ==
  LET seen == Unversioned(d, DOMAIN r.conditions)
      looked == Looked(d, seen)
      last == sequence + Cardinality(seen)
      batch == Batch(looked, r, last) IN
  /\ k # NoKey => ReadReceipt(d, k, clock) = NoReceipt
  /\ AllHold(d, r)
  /\ serial < MaxCalls
  /\ MayMint(Cardinality(seen) + Cardinality(Writes(r)))
  /\ db' = [WriteReceipt(batch, k, r) EXCEPT !.consumed = d.consumed \cup Replaced(r)]
  /\ sequence' = last + Cardinality(Writes(r))
  /\ serial' = serial + 1
  /\ issued' = issued \cup Tokens(looked, seen) \cup Tokens(batch, Writes(r))

MutateAtomically(k, r) ==
  /\ HoldsItsTokens(r)
  /\ \E d \in IF k = NoKey THEN {db} ELSE Pruned(db) :
       Answered(d, k) \/ Conflict(d, k, r) \/ Applied(d, k, r)
  /\ UNCHANGED <<saved, looking, clock>>

(* One transaction of pruneExpiredReceipts, which repeats it until a batch
   is not full. *)
PruneExpiredReceipts ==
  /\ db' \in Pruned(db)
  /\ UNCHANGED <<sequence, saved, looking, serial, issued, clock>>

--------------------
(* Transactions. *)

Begin ==
  /\ Len(saved) < MaxNesting
  /\ saved' = Append(saved, [db |-> db, sequence |-> sequence])
  /\ UNCHANGED <<db, sequence, looking, serial, issued, clock>>

Keep ==
  /\ saved # <<>>
  /\ saved' = SubSeq(saved, 1, Len(saved) - 1)
  /\ UNCHANGED <<db, sequence, looking, serial, issued, clock>>

(* Bug: the rollback rewinds the sequence with the rest. *)
SequenceRewound(minted, rewound) == rewound

(* Bug: the sequence is moved by the difference, the wrong way round. *)
SequenceMovedBack(minted, rewound) == rewound - minted

(* The sequence stays past what the undone work minted, before anyone else
   can mint again. *)
KeepVersionsMinted(minted, rewound) == IF minted =< rewound THEN rewound ELSE minted

(* rollbackKeepingVersions *)
RollBack ==
  /\ saved # <<>>
  /\ db' = saved[Len(saved)].db
  /\ sequence' = KeepVersionsMinted(sequence, saved[Len(saved)].sequence)
  /\ saved' = SubSeq(saved, 1, Len(saved) - 1)
  /\ UNCHANGED <<looking, serial, issued, clock>>

(* The process dies inside a transaction, and whoever held a token minted
   in it dies with the process: its savepoints never left its connection. *)
Crash ==
  /\ saved # <<>>
  /\ db' = saved[1].db
  /\ sequence' = saved[1].sequence
  /\ saved' = <<>>
  /\ issued' = {i \in issued : i.token =< saved[1].sequence}
  /\ UNCHANGED <<looking, serial, clock>>

(* A full disk or an I/O error makes SQLite roll the whole transaction
   back; rollback then finds none open and returns. *)
RolledBackBySqlite ==
  /\ AutoRollback
  /\ saved # <<>>
  /\ db' = saved[1].db
  /\ sequence' = saved[1].sequence
  /\ saved' = <<>>
  /\ UNCHANGED <<looking, serial, issued, clock>>

Tick ==
  /\ clock < MaxClock
  /\ clock' = clock + 1
  /\ UNCHANGED <<db, sequence, saved, looking, serial, issued>>

Next == \/ \E t \in Targets : GetVersioned(t) \/ Set(t) \/ Delete(t)
        \/ \E p \in Readers : (\E t \in Targets : Look(p, t)) \/ Mint(p) \/ Enter(p)
        \/ \E k \in Keys \cup {NoKey}, r \in Requests : MutateAtomically(k, r)
        \/ PruneExpiredReceipts
        \/ Begin \/ Keep \/ RollBack \/ Crash \/ RolledBackBySqlite
        \/ Tick

Spec == Init /\ [][Next]_vars

--------------------
(* Properties. *)

Issues == [token : Nat, target : Targets, content : Nat]

(* The types of the tables, the savepoints and the history. *)
TypeOK ==
  /\ db \in Databases
  /\ sequence \in Nat
  /\ saved \in Seq([db : Databases, sequence : Nat])
  /\ looking \in [Readers -> Issues \cup {Idle}]
  /\ serial \in Nat
  /\ issued \subseteq Issues
  /\ clock \in Nat

(* A token is never given out twice, and while a target's version equals a
   token somebody holds, its value is the one the token was given out for:
   not after a delete and re-creation, a rollback or a crash may an old
   token match by accident (writeVersion, rollbackKeepingVersions). *)
TokensStandForOneValue ==
  \A i \in issued :
    /\ \A j \in issued : i.token = j.token => i = j
    /\ \A t \in Targets : db.version[t] = i.token
                            => t = i.target /\ db.content[t] = i.content

(* Of all batches conditioned on one version of a target, at most one is
   ever in force: no two of them each replace what the other wrote
   (decideAtomic), whatever rolls back in between. *)
OneWinnerPerVersion ==
  \A w, x \in db.consumed : w.target = x.target /\ w.version = x.version => w = x

(* A key that was applied is applied again only once its receipt is older
   than the window, and never without a window: pruning, replays and
   transactions around it change nothing to that (readReceipt). *)
AppliedOncePerWindow ==
  [][\A k \in Keys : db'.applied[k].by > db.applied[k].by
       => \/ db.applied[k].at = Never
          \/ RetentionMs >= 0 /\ db.applied[k].at # Unstamped
               /\ clock - db.applied[k].at > RetentionMs]_vars

(* While a mutation under a key is in force and no older than the window,
   its receipt is there to answer a retry: neither pruning nor a rollback
   may lose the receipt of work it keeps, or keep that of work it undoes. *)
InForceMeansAnswered ==
  \A k \in Keys :
    LET at == db.applied[k].at IN
    IF at = Never THEN db.receipt[k] = NoReceipt
    ELSE (RetentionMs >= 0 /\ at # Unstamped => clock - at =< RetentionMs)
           => db.receipt[k] # NoReceipt /\ db.receipt[k].created = at
===============================================================================
