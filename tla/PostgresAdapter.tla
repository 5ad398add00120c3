--------------------------- MODULE PostgresAdapter ---------------------------
(***************************************************************************)
(* The Postgres adapter (packages/store-postgres/src/postgres-adapter.ts): *)
(* clients on any number of hosts write through transactions that hold one *)
(* advisory lock, over connections that break at any moment.               *)
(*                                                                         *)
(* A client makes one request: work in a transaction of its own (one       *)
(* operation, as every plain write and mutateAtomically run) or in a       *)
(* caller's transaction, whose operations are savepoints and which may     *)
(* throw. A session is one attempt of a client; it stays with the server   *)
(* until the server ends it, whatever became of the client. The statements *)
(* of one operation are one step: only the holder of the lock writes.      *)
(***************************************************************************)
EXTENDS Naturals, Sequences, FiniteSets, FiniteSetsExt

CONSTANTS
  Clients,
  Scenarios,     \* [database, work, wrapped]: what is stored at first, the
                 \* operations of each client, whose work is a transaction()
  Frozen,        \* clients that may stop for ever at any moment
  Targets,       \* keys and records
  Keys, NoKey,   \* idempotency keys
  Missing,       \* no row, no receipt, no version, no creation time, no answer
  RetentionMs,   \* receiptRetentionMs
  PruneBatch,    \* RECEIPT_PRUNE_BATCH
  MaxAttempts,   \* bound: attempts of a client
  MaxFaults,     \* bound: connections that break and operations that fail
  MaxClock       \* bound: the database's clock

VARIABLES
  committed,   \* the database: [rows, receipts, versioned, applied]
  sequence,    \* the version sequence, which no rollback takes back
  clock,
  queue,       \* sessions in the order of their lock requests; the first holds it
  draft,       \* the database as the transaction of the first session sees it
  sent,        \* the COMMIT of the first session has reached the server
  client,      \* per client: [work, wrapped, pc, attempt, began, at, seen, answer]
  named,       \* versions that were handed out or stored, with their values
  faults       \* connections broken and operations failed so far

postgresVars == <<committed, sequence, clock, queue, draft, sent, client, named, faults>>

Token(n) == <<"v", n>>

Row(value, version) == [value |-> value, version |-> version]

Named(rows) == {<<rows[t].version, rows[t].value>> :
                  t \in {u \in Targets : rows[u] # Missing /\ rows[u].version # Missing}}

Answer(c, status, versions) == [client |-> c, status |-> status, versions |-> versions]

(* versioned: the tables have the column that this release writes;
   applied: the batches in force, each with the session that it is of. *)
Init ==
  /\ sequence = 0
  /\ clock = 0
  /\ queue = <<>>
  /\ sent = FALSE
  /\ faults = 0
  /\ \E s \in Scenarios :
       /\ committed = s.database
       /\ draft = s.database
       /\ client = [c \in Clients |-> [work |-> s.work[c], wrapped |-> c \in s.wrapped,
                                       pc |-> IF s.work[c] = <<>> THEN "ended" ELSE "idle",
                                       attempt |-> 1, began |-> 0, at |-> 1, seen |-> Missing,
                                       answer |-> Answer(c, "none", <<>>)]]
       /\ named = Named(s.database.rows)

Session(c) == <<c, client[c].attempt>>

Holds(c) == client[c].pc = "open" /\ queue # <<>> /\ Head(queue) = Session(c)

Operation(c) == client[c].work[client[c].at]

(* The client's next operation may run and is of this kind. *)
Ready(c, kind) == Holds(c) /\ client[c].at <= Len(client[c].work) /\ Operation(c).kind = kind

--------------------
(* Receipts: readReceipt, writeReceipt and pruneReceiptBatch. The time is
   now() of the transaction, when it began. *)

(* Definitions marked "Bug:" are not part of the specification: each is
   the definition that follows it with a plausible mistake, for checking
   that the properties below notice it. *)

Batches(S) == IF Cardinality(S) <= PruneBatch THEN {S} ELSE kSubset(PruneBatch, S)

IsExpired(receipt, now) ==
  receipt # Missing /\ receipt.created # Missing /\ receipt.created + RetentionMs < now

Live(receipts, key, now) == receipts[key] # Missing /\ ~IsExpired(receipts[key], now)

(* Bug: a receipt is deleted as soon as its age is the window. *)
IsPrunableAtTheWindow(receipt, now) ==
  receipt # Missing /\ receipt.created # Missing /\ receipt.created + RetentionMs <= now

IsPrunable(receipt, now) == IsExpired(receipt, now)

Stamped(receipts, now) ==
  {[k \in Keys |-> IF k \in batch THEN [receipts[k] EXCEPT !.created = now] ELSE receipts[k]] :
     batch \in Batches({k \in Keys : receipts[k] # Missing /\ receipts[k].created = Missing})}

OldestFirst(receipts, batch, all) ==
  \A k \in batch, l \in all \ batch : receipts[k].created <= receipts[l].created

Pruned(receipts, now) ==
  UNION {LET old == {k \in Keys : IsPrunable(stamped[k], now)} IN
         {[k \in Keys |-> IF k \in batch THEN Missing ELSE stamped[k]] :
            batch \in {b \in Batches(old) : OldestFirst(stamped, b, old)}} :
         stamped \in Stamped(receipts, now)}

--------------------
(* decideAtomic: conditions and operations are sequences over targets. *)

Matches(condition, row) ==
  \/ condition.expected = "missing" /\ row = Missing
  \/ condition.expected = "present" /\ row # Missing
  \/ condition.expected = "version" /\ row # Missing /\ row.version = condition.version

Failing(conditions, rows) ==
  {i \in DOMAIN conditions : ~Matches(conditions[i], rows[conditions[i].target])}

(* Those of the first i operations that issue a version. *)
Issuing(operations, i) == {j \in 1..i : operations[j].op = "write"}

(* The number of the version that the i-th operation issues. *)
Issued(operations, i) == sequence + Cardinality(Issuing(operations, i))

(* One statement applies every operation of the batch. *)
Written(rows, operations, value) ==
  [t \in Targets |->
     IF ~\E i \in DOMAIN operations : operations[i].target = t THEN rows[t]
     ELSE LET i == CHOOSE j \in DOMAIN operations : operations[j].target = t IN
          IF operations[i].op = "write" THEN Row(value, Token(Issued(operations, i)))
          ELSE Missing]

VersionsOf(operations) ==
  [i \in DOMAIN operations |->
     IF operations[i].op = "write" THEN Token(Issued(operations, i)) ELSE Missing]

(* The operation leaves the database in state d, has used n numbers, and
   answers. *)
Outcome(d, n, answer) ==
  /\ draft' = d
  /\ sequence' = sequence + n
  /\ named' = named \cup Named(d.rows)
  /\ client' = [client EXCEPT ![answer.client].at = @ + 1, ![answer.client].answer = answer]
  /\ UNCHANGED <<committed, clock, queue, sent, faults>>

Backfilled(row) == IF row.version = Missing THEN Row(row.value, Token(sequence + 1)) ELSE row

(* backfillVersion, in the transaction: statement and number in one. *)
Backfill(c, status, t, d) ==
  Outcome([d EXCEPT !.rows[t] = Backfilled(@)], 1,
          Answer(c, status, <<Backfilled(d.rows[t]).version>>))

Replay(c, o, receipts) ==
  LET prior == receipts[o.key] IN
  Outcome([draft EXCEPT !.receipts = receipts], 0,
          IF prior.digest = o.digest THEN Answer(c, "replayed", prior.versions)
          ELSE Answer(c, "idempotency-conflict", <<>>))

Conflict(c, o, receipts) ==
  LET failing == Min(Failing(o.conditions, draft.rows))
      t == o.conditions[failing].target
      d == [draft EXCEPT !.receipts = receipts]
  IN IF o.conditions[failing].expected = "version" /\ draft.rows[t] # Missing
          /\ draft.rows[t].version = Missing
     THEN Backfill(c, "conflict", t, d)
     ELSE Outcome(d, 0, Answer(c, "conflict", <<>>))

Apply(c, o, receipts) ==
  LET rows == Written(draft.rows, o.operations, o.digest)
      versions == VersionsOf(o.operations)
      receipt == [digest |-> o.digest, versions |-> versions, created |-> client[c].began]
      record == [key |-> o.key, digest |-> o.digest, created |-> client[c].began, decided |-> clock,
                 versions |-> versions, conditions |-> o.conditions,
                 targets |-> {o.operations[i].target : i \in DOMAIN o.operations}, by |-> Session(c)]
  IN Outcome([draft EXCEPT !.rows = rows,
                           !.receipts = IF o.key = NoKey THEN @ ELSE [receipts EXCEPT ![o.key] = receipt],
                           !.applied = @ \cup {record}],
             Cardinality(Issuing(o.operations, Len(o.operations))), Answer(c, "applied", versions))

MutateAtomically(c) ==
  LET o == Operation(c) IN
  /\ Ready(c, "mutate")
  /\ \E receipts \in IF o.key = NoKey THEN {draft.receipts} ELSE Pruned(draft.receipts, client[c].began) :
       IF o.key # NoKey /\ Live(receipts, o.key, client[c].began) THEN Replay(c, o, receipts)
       ELSE IF Failing(o.conditions, draft.rows) # {} THEN Conflict(c, o, receipts)
       ELSE Apply(c, o, receipts)

(* set, put; delete, remove. *)
Write(c) ==
  LET o == Operation(c) IN
  \/ /\ Ready(c, "set")
     /\ Outcome([draft EXCEPT !.rows[o.target] = Row(c, Token(sequence + 1))], 1, Answer(c, "done", <<>>))
  \/ /\ Ready(c, "delete")
     /\ Outcome([draft EXCEPT !.rows[o.target] = Missing], 0, Answer(c, "done", <<>>))

(* getVersioned: the row, and in a transaction a version if it has none. *)
GetVersioned(c) ==
  LET o == Operation(c)
      row == draft.rows[o.target]
      seen == IF client[c].seen = Missing THEN row ELSE client[c].seen
      unversioned == seen # Missing /\ seen.version = Missing
  IN /\ Ready(c, "read")
     /\ IF row = Missing THEN Outcome(draft, 0, Answer(c, "absent", <<>>))
        ELSE /\ named' = named \cup {<<Backfilled(row).version, seen.value>>}
             /\ draft' = [draft EXCEPT !.rows[o.target] = Backfilled(@)]
             /\ sequence' = IF unversioned THEN sequence + 1 ELSE sequence
             /\ client' = [client EXCEPT ![c].at = @ + 1, ![c].answer = Answer(c, "value", <<Backfilled(row).version>>)]
             /\ UNCHANGED <<committed, clock, queue, sent, faults>>

(* The reading of getVersioned outside a transaction. *)
ReadAlone(c) ==
  /\ client[c].pc = "idle" /\ ~client[c].wrapped /\ client[c].work[1].kind = "read" /\ client[c].seen = Missing
  /\ LET row == committed.rows[client[c].work[1].target] IN
     IF row = Missing \/ row.version # Missing
     THEN /\ client' = [client EXCEPT ![c].pc = "ended",
                                      ![c].answer = Answer(c, IF row = Missing THEN "absent" ELSE "value", <<>>)]
          /\ named' = IF row = Missing THEN named ELSE named \cup {<<row.version, row.value>>}
     ELSE client' = [client EXCEPT ![c].seen = row] /\ UNCHANGED named
  /\ UNCHANGED <<committed, sequence, clock, queue, draft, sent, faults>>

(* pruneExpiredReceipts, one batch; the caller makes further batches. *)
PruneExpiredReceipts(c) ==
  /\ Ready(c, "prune")
  /\ \E receipts \in Pruned(draft.receipts, client[c].began) :
       Outcome([draft EXCEPT !.receipts = receipts], 0, Answer(c, "done", <<>>))

(* Bug: the rows of an earlier release get one version together. *)
OneVersion(t) == <<"u", "one">>

(* gen_random_uuid, for a row that an earlier release wrote. *)
OwnVersion(t) == <<"u", t>>

(* init: tables and columns that are missing, and versions for the rows of
   tables that had no column for them. *)
Open(c) ==
  /\ Ready(c, "open")
  /\ Outcome([draft EXCEPT !.versioned = TRUE,
                !.rows = IF draft.versioned THEN @
                         ELSE [t \in Targets |-> IF @[t] = Missing THEN Missing
                                                 ELSE Row(@[t].value, OwnVersion(t))]],
             0, Answer(c, "done", <<>>))

--------------------
(* Transactions: begin, commit, rollback and end, and the server's part. *)

NeedsTransaction(c) == client[c].wrapped \/ client[c].work[1].kind # "read" \/ client[c].seen # Missing

(* Adapters open first, so that the tables have their columns. *)
MayBegin(c) == client[c].work[1].kind = "open" \/ committed.versioned

Begin(c) ==
  /\ client[c].pc = "idle" /\ NeedsTransaction(c) /\ MayBegin(c)
  /\ client' = [client EXCEPT ![c].pc = "begun", ![c].began = clock, ![c].at = 1]
  /\ UNCHANGED <<committed, sequence, clock, queue, draft, sent, named, faults>>

(* Bug: a session may take a place beside the holder. *)
BesideTheHolder(c) == <<Session(c)>> \o queue

InTurn(c) == Append(queue, Session(c))

RequestLock(c) ==
  /\ client[c].pc = "begun"
  /\ client' = [client EXCEPT ![c].pc = "open"]
  /\ queue' = InTurn(c)
  /\ UNCHANGED <<committed, sequence, clock, draft, sent, named, faults>>

(* Bug: what is rolled back is left to the next session. *)
LeftToTheNext(d) ==
  /\ committed' = d
  /\ UNCHANGED draft
  /\ queue' = Tail(queue)
  /\ sent' = FALSE

(* The transaction of the first session ends and leaves the database at d. *)
EndSession(d) ==
  /\ committed' = d
  /\ draft' = d
  /\ queue' = Tail(queue)
  /\ sent' = FALSE

Ended(c, status) == [client EXCEPT ![c].pc = "ended", ![c].answer = Answer(c, status, <<>>)]

(* An operation fails and is rolled back to its savepoint; the caller's
   work goes on. What it numbered stays used. *)
OperationFails(c) ==
  /\ Holds(c) /\ client[c].wrapped /\ client[c].at <= Len(client[c].work)
  /\ client' = [client EXCEPT ![c].at = @ + 1, ![c].answer = Answer(c, "failed", <<>>)]
  /\ sequence' \in sequence..(sequence + 1)
  /\ faults < MaxFaults /\ faults' = faults + 1
  /\ UNCHANGED <<committed, clock, queue, draft, sent, named>>

(* The work throws, or its only operation fails. *)
Rollback(c) ==
  /\ Holds(c)
  /\ EndSession(committed)
  /\ client' = Ended(c, "failed")
  /\ faults < MaxFaults /\ faults' = faults + 1
  /\ UNCHANGED <<sequence, clock, named>>

Commit(c) ==
  /\ Holds(c) /\ client[c].at > Len(client[c].work)
  /\ client' = [client EXCEPT ![c].pc = "committing"]
  /\ sent' = TRUE
  /\ UNCHANGED <<committed, sequence, clock, queue, draft, named, faults>>

(* The server carries out the COMMIT, whether or not its client still
   waits for the answer. *)
ServerCommits ==
  /\ queue # <<>> /\ sent
  /\ EndSession(draft)
  /\ LET c == Head(queue)[1] IN
     client' = IF client[c].pc = "committing" /\ Session(c) = Head(queue)
               THEN [client EXCEPT ![c].pc = "committed"] ELSE client
  /\ UNCHANGED <<sequence, clock, named, faults>>

Answered(c) ==
  /\ client[c].pc = "committed"
  /\ client' = [client EXCEPT ![c].pc = "ended"]
  /\ UNCHANGED <<committed, sequence, clock, queue, draft, sent, named, faults>>

(* Bug: every error of a standalone mutateAtomically counts as definite. *)
AlwaysDefinite(c) == {"failed"}

(* What a client says whose connection breaks. While COMMIT is in flight,
   mutateAtomically says that its outcome is indeterminate when it knows
   the driver's error (INDETERMINATE_CODES, "Connection terminated"); an
   error that it does not know, as the driver's "Query read timeout", it
   throws as it is ("lost"), which is what transaction() and the other
   writes do with all of them. (packages/store-postgres/README.md:190 says
   of every connection failure during COMMIT that the call throws
   AtomicMutationIndeterminateError.) *)
OutcomesOfLoss(c) ==
  IF client[c].pc \notin {"committing", "committed"} THEN {"failed"}
  ELSE {"lost"} \cup {o \in {"indeterminate"} : ~client[c].wrapped /\ client[c].work[1].kind = "mutate"}

(* The connection breaks; a COMMIT in flight may yet reach the server. *)
LoseConnection(c) ==
  /\ client[c].pc \in {"begun", "open", "committing", "committed"}
  /\ \E status \in OutcomesOfLoss(c) : client' = Ended(c, status)
  /\ IF client[c].pc = "committing" /\ queue # <<>> /\ Head(queue) = Session(c)
     THEN sent' \in {TRUE, FALSE} ELSE UNCHANGED sent
  /\ faults < MaxFaults /\ faults' = faults + 1
  /\ UNCHANGED <<committed, sequence, clock, queue, draft, named>>

Gone(session) == client[session[1]].pc # "open" \/ Session(session[1]) # session

(* Bug: there is no limit to an idle transaction. *)
IsGone(session) == Gone(session)

(* The client is gone, or idle for longer than the session may be
   (idle_in_transaction_session_timeout). *)
IsGoneOrIdle(session) == Gone(session) \/ session[1] \in Frozen

ServerEndsSession ==
  /\ queue # <<>> /\ ~sent /\ IsGoneOrIdle(Head(queue))
  /\ EndSession(committed)
  /\ UNCHANGED <<sequence, clock, client, named, faults>>

(* The client of a session that the server ended finds out. *)
FindsSessionEnded(c) ==
  /\ client[c].pc = "open" /\ ~\E i \in DOMAIN queue : queue[i] = Session(c)
  /\ client' = Ended(c, "failed")
  /\ UNCHANGED <<committed, sequence, clock, queue, draft, sent, named, faults>>

(* The caller makes a request again that failed or may have. *)
Retry(c) ==
  /\ client[c].pc = "ended" /\ client[c].attempt < MaxAttempts
  /\ client[c].answer.status \in {"indeterminate", "lost", "failed"} /\ client[c].work[1].kind = "mutate"
  /\ client' = [client EXCEPT ![c].pc = "idle", ![c].attempt = @ + 1]
  /\ UNCHANGED <<committed, sequence, clock, queue, draft, sent, named, faults>>

Tick ==
  /\ clock < MaxClock
  /\ clock' = clock + 1
  /\ UNCHANGED <<committed, sequence, queue, draft, sent, client, named, faults>>

Step(c) ==
  \/ ReadAlone(c) \/ Begin(c) \/ RequestLock(c) \/ MutateAtomically(c) \/ Write(c)
  \/ GetVersioned(c) \/ PruneExpiredReceipts(c) \/ Open(c) \/ Commit(c) \/ Answered(c)
  \/ FindsSessionEnded(c)

Fault(c) == OperationFails(c) \/ Rollback(c) \/ LoseConnection(c) \/ Retry(c)

Next == (\E c \in Clients : Step(c) \/ Fault(c)) \/ ServerCommits \/ ServerEndsSession \/ Tick

(* What goes on by itself: clients that are not frozen, and the server. *)
GoesOn == (\E c \in Clients \ Frozen : Step(c)) \/ ServerCommits \/ ServerEndsSession

Spec == Init /\ [][Next]_postgresVars /\ WF_postgresVars(GoesOn)

--------------------
(* Properties *)

(* State of a client; the draft is the committed state while nobody holds
   the lock; COMMIT is sent only by the holder. *)
TypeOK ==
  /\ \A c \in Clients : client[c].pc \in {"idle", "begun", "open", "committing", "committed", "ended"}
  /\ sequence \in Nat /\ clock \in 0..MaxClock
  /\ queue = <<>> => draft = committed /\ ~sent

(* A version that anybody was given, even by work that was rolled back
   later, stands for one value for ever: nextval and identity, and the
   uuids of init. It is so of scenarios in which nobody writes a row that
   an earlier release left without a version while getVersioned reads it
   outside a transaction: such a read gives the version that the write
   issued in between together with the value it read before. *)
TokensStandForOneValue == \A a, b \in named : a[1] = b[1] => a[2] = b[2]

(* A keyed request that took effect is not applied again within the window
   (counted from the beginning of its transaction), over lost COMMITs,
   retries while the first session still holds the lock, and pruning. *)
AppliedOncePerWindow ==
  \A a, b \in committed.applied :
    a # b /\ a.key = b.key /\ a.key # NoKey =>
      a.decided > b.created + RetentionMs \/ b.decided > a.created + RetentionMs

(* What mutateAtomically says of its outcome is so: when it fails before
   COMMIT was sent or reports a conflict, nothing of that attempt is in
   force and no COMMIT of it is on its way; what it says it applied or
   replayed is in force. An error that COMMIT raised and that is thrown as
   it is ("lost") says nothing. *)
AnswersAreTrue ==
  \A c \in {d \in Clients : ~client[d].wrapped /\ client[d].pc = "ended"} :
    /\ client[c].answer.status \in {"failed", "conflict", "idempotency-conflict"} =>
         /\ ~\E a \in committed.applied : a.by = Session(c)
         /\ ~(sent /\ queue # <<>> /\ Head(queue) = Session(c))
    /\ client[c].answer.status \in {"applied", "replayed"} =>
         \E a \in committed.applied : a.digest = client[c].work[1].digest /\ a.versions = client[c].answer.versions

(* Of the batches in force that change a target on the condition that it
   has one version there is one at most. *)
OneWinnerPerVersion ==
  \A a, b \in committed.applied : a # b =>
    ~\E i \in DOMAIN a.conditions, j \in DOMAIN b.conditions :
       /\ a.conditions[i].expected = "version" /\ a.conditions[i] = b.conditions[j]
       /\ a.conditions[i].target \in a.targets \cap b.targets

(* No request of a host that is not frozen is under way: it comes to that
   although a frozen one may have held the lock. *)
AllAnswered == \A c \in Clients \ Frozen : client[c].pc = "ended" \/ ~MayBegin(c)
===============================================================================
