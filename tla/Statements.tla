------------------------------ MODULE Statements ------------------------------
(***************************************************************************)
(* SqliteStatementStore (packages/statements/src/sqlite.ts): claims that   *)
(* are admitted, revised and retracted by processes which share a file.    *)
(* Each call runs under the coordinator's lease of its statement, which    *)
(* a process that stalls may lose (see Coordination), and decides in one   *)
(* deferred transaction: what it reads is the file as of its first read,   *)
(* and its first write fails ("database is locked", at once) when anything *)
(* was written since, leases and backfills included. The caller repeats    *)
(* requests that failed so, or whose process died.                         *)
(*                                                                         *)
(* A request is [kind, statement, key, expected, status, origin,           *)
(* successor, sound]: its key stands for authority scope and idempotency   *)
(* key, its origin for its provenance, and it is sound if the record it    *)
(* makes passes validateRecord. A fingerprint names its request, and the   *)
(* order of object keys it was made with.                                  *)
(***************************************************************************)
EXTENDS Naturals, Sequences, FiniteSets

CONSTANTS
  Setups,     \* [work, db, decisions, faults]: what each process asks for, the
              \* file, what the authority may decide, "stall" and "die"
  Processes,
  Names,      \* of statements
  Missing,    \* no head, status, origin, decision or process
  Attempts    \* bound: how often a caller makes a request

VARIABLES
  setup,
  log,       \* [revisions, heads, receipts, conflicts, backfills]
  lease,    \* per statement: the process that runs it exclusively
  worker,   \* per process: [at, attempt, pc, seen, stale, decision, result]
  answers   \* what callers were told: [request, result]

statementsVars == <<setup, log, lease, worker, answers>>

Idle(at, attempt) ==
  [at |-> at, attempt |-> attempt, pc |-> "idle", seen |-> Missing, stale |-> FALSE,
   result |-> Missing]

Init ==
  /\ setup \in Setups
  /\ log = setup.db
  /\ lease = [s \in Names |-> Missing]
  /\ worker = [p \in Processes |-> Idle(1, 1)]
  /\ answers = {[request |-> c.print.of, result |-> c.result] : c \in log.receipts \cup log.conflicts}

--------------------
(* What one transaction does. *)

(* Definitions marked "Bug:" are not part of the specification: each is
   the definition that follows it with a plausible mistake, for checking
   that the properties below notice it. *)

(* Bug: a superseded statement is revised. *)
IsTerminalButSuperseded(status) == status \in {"rejected", "retracted"}

IsTerminal(status) == status \in {"rejected", "superseded", "retracted"}

Enforced(origin, status) == IF origin = "model" THEN "proposed" ELSE status

HeadOf(b, s) ==
  IF b.heads[s] = 0 THEN Missing
  ELSE CHOOSE record \in b.revisions : record.statement = s /\ record.revision = b.heads[s]

Or(given, otherwise) == IF given = Missing THEN otherwise ELSE given

(* Fingerprints of earlier releases order object keys by locale. *)
Fingerprint(r) == [of |-> r, keys |-> "by code point"]

(* Bug: those of earlier releases are not recognized. *)
IsOwn(print, r) == print = Fingerprint(r)

IsOf(print, r) == print.of = r

Existing(b, r) == {c \in b.receipts : c.key = r.key /\ c.kind = r.kind}

Conflicts(b, r) == {c \in b.conflicts : c.key = r.key /\ c.kind = r.kind /\ IsOf(c.print, r)}

Receipt(r, result) == [key |-> r.key, kind |-> r.kind, print |-> Fingerprint(r), result |-> result]

Refusal(code, reason) == [code |-> code, reason |-> reason, revision |-> 0, status |-> Missing]

Committed(record) ==
  [code |-> "committed", reason |-> Missing, revision |-> record.revision, status |-> record.status]

(* Answered as before, nothing is written. *)
Replayed(b, c) == [db |-> b, result |-> c.result]

Thrown(b) == [db |-> b, result |-> Refusal("thrown", Missing)]

IdempotencyConflict(b, r) ==
  LET result == Refusal("idempotency-conflict", "idempotency-conflict") IN
  [db |-> [b EXCEPT !.conflicts = @ \cup {Receipt(r, result)}], result |-> result]

PersistRefusal(b, r, code, reason) ==
  LET result == Refusal(code, reason) IN
  [db |-> [b EXCEPT !.receipts = @ \cup {Receipt(r, result)}], result |-> result]

PersistCommit(b, r, record) ==
  IF r.sound
  THEN [db |-> [b EXCEPT !.revisions = @ \cup {record},
                         !.heads[r.statement] = record.revision,
                         !.receipts = @ \cup {Receipt(r, Committed(record))}],
        result |-> Committed(record)]
  ELSE Thrown(b)

(* Why the head does not allow the request. *)
Obstacle(head, r) ==
  CASE head # Missing /\ IsTerminal(head.status) -> "terminal-head"
    [] r.kind = "admit" /\ head # Missing -> "head-exists"
    [] r.kind # "admit" /\ head = Missing -> "missing-head"
    [] r.kind # "admit" /\ head.revision # r.expected -> "expected-revision-mismatch"
    [] OTHER -> Missing

MayBecome(from, to) == from = "proposed" \/ (from = "accepted" /\ to \in {"accepted", "superseded"})

Admit(b, r, decided) ==
  LET status == Enforced(r.origin, decided) IN
  IF IsTerminal(status) THEN Thrown(b)
  ELSE PersistCommit(b, r, [statement |-> r.statement, revision |-> 1, status |-> status,
                            origin |-> r.origin, successor |-> FALSE])

Revise(b, r, head, decided) ==
  LET origin == Or(r.origin, head.origin)
      status == Enforced(origin, Or(r.status, decided))
      successor == r.successor \/ head.successor
  IN CASE ~MayBecome(head.status, status) -> Thrown(b)
       [] MayBecome(head.status, status) /\ status = "superseded" /\ ~successor ->
            PersistRefusal(b, r, "store-refused", "superseded-requires-reference")
       [] OTHER -> PersistCommit(b, r, [head EXCEPT !.revision = @ + 1, !.status = status,
                                                    !.origin = origin, !.successor = successor])

Retract(b, r, head) ==
  PersistCommit(b, r, [head EXCEPT !.revision = @ + 1, !.status = "retracted", !.origin = r.origin])

CommitMutation(b, r, decided) ==
  LET head == HeadOf(b, r.statement)
      obstacle == Obstacle(head, r)
  IN CASE obstacle # Missing -> PersistRefusal(b, r, "revision-conflict", obstacle)
       [] obstacle = Missing /\ r.kind = "admit" -> Admit(b, r, decided)
       [] obstacle = Missing /\ r.kind = "revise" -> Revise(b, r, head, decided)
       [] obstacle = Missing /\ r.kind = "retract" -> Retract(b, r, head)

Decided(b, r, decision) ==
  IF decision = "refuse" THEN PersistRefusal(b, r, "authority-refused", decision)
  ELSE CommitMutation(b, r, decision)

(* The possible outcomes of a request on the file as it was read. *)
Outcomes(b, r) ==
  LET own == {c \in Existing(b, r) : IsOf(c.print, r)}
  IN CASE own # {} -> {Replayed(b, c) : c \in own}
       [] own = {} /\ Existing(b, r) # {} ->
            IF Conflicts(b, r) # {} THEN {Replayed(b, c) : c \in Conflicts(b, r)}
            ELSE {IdempotencyConflict(b, r)}
       [] OTHER -> {Decided(b, r, d) : d \in setup.decisions}

--------------------
(* The processes. *)

Request(p) == setup.work[p][worker[p].at]

HasRequest(p) == worker[p].at <= Len(setup.work[p])

IsCall(p) == HasRequest(p) /\ Request(p).kind # "backfill"

(* Whoever has read and not yet written finds that p wrote since. *)
AfterWriteOf(p, own) ==
  [q \in Processes |-> IF q = p THEN own ELSE [worker[q] EXCEPT !.stale = @ \/ worker[q].pc = "reading"]]

Become(p, place) == [worker[p] EXCEPT !.pc = place]

Acquire(p) ==
  /\ worker[p].pc = "idle" /\ IsCall(p) /\ worker[p].attempt <= Attempts
  /\ lease[Request(p).statement] = Missing
  /\ lease' = [lease EXCEPT ![Request(p).statement] = p]
  /\ worker' = AfterWriteOf(p, Become(p, "granted"))
  /\ UNCHANGED <<setup, log, answers>>

Failed(p, code) == [worker[p] EXCEPT !.pc = "leaving", !.seen = Missing, !.stale = FALSE, !.result = Refusal(code, Missing)]

AssertOwned(p) ==
  /\ worker[p].pc = "granted"
  /\ worker' = [worker EXCEPT ![p] = IF lease[Request(p).statement] = p THEN Become(p, "owner")
                                     ELSE Failed(p, "lost")]
  /\ UNCHANGED <<setup, log, lease, answers>>

(* BEGIN is deferred: the first read decides what the transaction sees. *)
Read(p) ==
  /\ worker[p].pc = "owner"
  /\ worker' = [worker EXCEPT ![p] = [Become(p, "reading") EXCEPT !.seen = log]]
  /\ UNCHANGED <<setup, log, lease, answers>>

Write(p) ==
  /\ worker[p].pc = "reading"
  /\ \E outcome \in Outcomes(worker[p].seen, Request(p)) :
       LET done == [Failed(p, "busy") EXCEPT !.result = outcome.result] IN
       \/ /\ outcome.db = worker[p].seen
          /\ worker' = [worker EXCEPT ![p] = done]
          /\ UNCHANGED log
       \/ /\ outcome.db # worker[p].seen /\ ~worker[p].stale
          /\ log' = outcome.db
          /\ worker' = AfterWriteOf(p, done)
       \/ /\ outcome.db # worker[p].seen /\ worker[p].stale
          /\ worker' = [worker EXCEPT ![p] = Failed(p, "busy")]
          /\ UNCHANGED log
  /\ UNCHANGED <<setup, lease, answers>>

(* What the caller makes again. *)
IsRetried(result) == result.code \in {"lost", "busy"}

(* The lease is given back, unless it is another's by now. *)
Leave(p) ==
  LET s == Request(p).statement
      result == worker[p].result
      next == IF IsRetried(result) THEN Idle(worker[p].at, worker[p].attempt + 1) ELSE Idle(worker[p].at + 1, 1) IN
  /\ worker[p].pc = "leaving"
  /\ IF lease[s] = p THEN lease' = [lease EXCEPT ![s] = Missing] /\ worker' = AfterWriteOf(p, next)
     ELSE UNCHANGED lease /\ worker' = [worker EXCEPT ![p] = next]
  /\ answers' = answers \cup (IF result.code \in {"lost", "busy", "thrown"} THEN {}
                              ELSE {[request |-> Request(p), result |-> result]})
  /\ UNCHANGED <<setup, log>>

(* beginBackfill, updateBackfill: one statement, under no lease. *)
WriteBackfill(p) ==
  /\ worker[p].pc = "idle" /\ HasRequest(p) /\ Request(p).kind = "backfill"
  /\ log' = [log EXCEPT !.backfills[Request(p).key] = Request(p).status]
  /\ worker' = AfterWriteOf(p, Idle(worker[p].at + 1, 1))
  /\ UNCHANGED <<setup, lease, answers>>

(* A process that stalls loses its lease, or one that died leaves it. *)
Expire(s) ==
  /\ lease[s] # Missing /\ ("stall" \in setup.faults \/ worker[lease[s]].pc = "idle")
  /\ lease' = [lease EXCEPT ![s] = Missing]
  /\ UNCHANGED <<setup, log, worker, answers>>

(* The process dies and is started again; the caller makes the request
   again. *)
Die(p) ==
  /\ "die" \in setup.faults /\ worker[p].pc # "idle"
  /\ worker' = [worker EXCEPT ![p] = Idle(worker[p].at, worker[p].attempt + 1)]
  /\ UNCHANGED <<setup, log, lease, answers>>

Next ==
  \/ \E p \in Processes : \/ Acquire(p) \/ AssertOwned(p) \/ Read(p) \/ Write(p) \/ Leave(p)
                          \/ WriteBackfill(p) \/ Die(p)
  \/ \E s \in Names : Expire(s)

Spec == Init /\ [][Next]_statementsVars

--------------------
(* Properties *)

(* A key has one receipt per kind of request, and one conflict per request
   that came after it; a transaction that nobody disturbed sees the file. *)
TypeOK ==
  /\ \A c, d \in log.receipts : c.key = d.key /\ c.kind = d.kind => c = d
  /\ \A c, d \in log.conflicts : c.key = d.key /\ c.kind = d.kind /\ c.print.of = d.print.of => c = d
  /\ \A c \in log.conflicts : \E d \in log.receipts : c.key = d.key /\ c.kind = d.kind /\ c.print.of # d.print.of
  /\ \A p \in Processes : worker[p].pc = "reading" /\ ~worker[p].stale => worker[p].seen = log

History(s) == {record \in log.revisions : record.statement = s}

(* A claim's revisions are numbered without a gap, its head is the last,
   and nothing comes after a terminal one. *)
HistoriesAreWhole ==
  \A s \in Names :
    /\ {record.revision : record \in History(s)} = 1 .. log.heads[s]
    /\ Cardinality(History(s)) = log.heads[s]
    /\ \A record \in History(s) :
         record.status \in {"rejected", "superseded", "retracted"} => record.revision = log.heads[s]

(* What a model, or inference, said is never accepted, rejected or
   superseded, whatever authority and requests say. *)
ModelsAreHeldBack ==
  \A record \in log.revisions : record.origin = "model" => record.status \in {"proposed", "retracted"}

IsCommitOf(c, record) ==
  c.result.code = "committed" /\ c.print.of.statement = record.statement /\ c.result.revision = record.revision

(* Every revision has the receipt of one request, which expected the
   revision before it, and no request made two. *)
RevisionsHaveReceipts ==
  /\ \A record \in log.revisions : Cardinality({c \in log.receipts : IsCommitOf(c, record)}) = 1
  /\ \A c \in log.receipts : c.result.code = "committed" =>
       /\ \E record \in log.revisions : IsCommitOf(c, record) /\ record.status = c.result.status
       /\ c.kind # "admit" => c.result.revision = c.print.of.expected + 1

(* A request that was answered is answered so ever after: by whichever
   process, after crashes and other requests, from whichever release. *)
AnswersAreStable ==
  /\ \A a, b \in answers : a.request = b.request => a.result = b.result
  /\ \A a \in answers : \E c \in log.receipts \cup log.conflicts : c.print.of = a.request /\ c.result = a.result
===============================================================================
