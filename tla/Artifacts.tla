------------------------------ MODULE Artifacts ------------------------------
(***************************************************************************)
(* Artifacts (packages/artifact/src): the coordinator's write, import and  *)
(* delete (coordinator.ts) and the repair of unreferenced objects          *)
(* (maintenance.ts), over a metadata repository in an atomic store         *)
(* (store.ts) and an object store that share no transaction.               *)
(*                                                                         *)
(* Each call awaits the two stores in turn, and other calls act in         *)
(* between: one action is what a call does from one answer to the next. A  *)
(* change of an object's lease row is a read and a conditional write of    *)
(* the version that was read. A call takes at most one lease, so that the  *)
(* call serves as its leaseId and ownerId.                                 *)
(***************************************************************************)
EXTENDS Integers

CONSTANTS
  Calls,
  Requests,         \* what the calls may ask for, together: functions of the calls
  Artifacts, Objects, Keys, Bytes,
  None,             \* no record, bytes, receipt, source, idempotency key or outcome
  Stored,           \* the objects there at first, with their bytes
  Recorded,         \* the artifacts there at first, with their objects
  LeaseTtlMs,
  AcquireAttempts,  \* tries of acquireObjectLease (8 in the code)
  Faults,           \* answers of the object store: "rejected", "indeterminate", "unknown", "delete"
  Fragile,          \* calls whose process may die
  Prompt,           \* whether a deletion lands before the lease renewed for it runs out
  MaxClock          \* bound: the clock's last value

Kinds == {"write", "import", "delete", "repair"}

(* A key, an artifact id and an object key are what the caller passed or
   idFactory returned; a delete finds its object in the record. *)
Request == [kind : Kinds, artifact : Artifacts, object : Objects, key : Keys \cup {None},
            bytes : Bytes, source : Artifacts \cup {None}]

Records == [object : Objects, bytes : Bytes, key : Keys \cup {None}, source : Artifacts \cup {None}]

Receipts == [artifact : Artifacts, bytes : Bytes]

ASSUME ArtifactsAssumption ==
  /\ Requests \subseteq [Calls -> Request]
  /\ None \notin Keys \cup Artifacts \cup Bytes \cup Records \cup Receipts
  /\ DOMAIN Stored \subseteq Objects /\ \A o \in DOMAIN Stored : Stored[o] \in Bytes
  /\ DOMAIN Recorded \subseteq Artifacts
  /\ \A a \in DOMAIN Recorded : Recorded[a] \in DOMAIN Stored
  /\ LeaseTtlMs \in Nat \ {0} /\ AcquireAttempts \in Nat \ {0} /\ MaxClock \in Nat

VARIABLES
  objects,   \* the object store
  records,   \* the repository's records
  edges,     \* its lineage, [source, result]
  receipts,  \* its idempotency index
  rows,      \* per object: the lease row, [generation, leases]
  fresh,     \* calls whose object's lease row is as they read it
  call,      \* per call: its own state
  clock

store == <<records, edges, receipts, rows>>
vars == <<objects, store, fresh, call, clock>>

First == [write |-> "prior", import |-> "prior", delete |-> "find", repair |-> "list"]

Init ==
  /\ objects = [o \in Objects |-> IF o \in DOMAIN Stored THEN Stored[o] ELSE None]
  /\ records = [a \in Artifacts |->
                  IF a \in DOMAIN Recorded
                  THEN [object |-> Recorded[a], bytes |-> Stored[Recorded[a]], key |-> None, source |-> None]
                  ELSE None]
  /\ edges = {}
  /\ receipts = [k \in Keys |-> None]
  /\ rows = [o \in Objects |-> [generation |-> 0, leases |-> {}]]
  /\ fresh = {}
  /\ \E request \in Requests :
       call = [c \in Calls |-> [request |-> request[c], pc |-> First[request[c].kind],
                               now |-> 0, attempts |-> 0, round |-> 0, bytes |-> None,
                               made |-> FALSE, result |-> None, outcome |-> None]]
  /\ clock = 0

--------------------
(* A call's own state. *)

Asked(c) == call[c].request
Object(c) == Asked(c).object
Kind(c) == Asked(c).kind
Mode(c) == IF Kind(c) \in {"write", "import"} THEN "shared-writer" ELSE "exclusive-delete"

At(c, place) == call[c].pc = place

Move(c, s) == call' = [call EXCEPT ![c] = s]

Goto(c, place) == Move(c, [call[c] EXCEPT !.pc = place])

(* now() is read for the request the call goes on to make. *)
GotoNow(c, place) == Move(c, [call[c] EXCEPT !.pc = place, !.now = clock])

GotoWith(c, place, outcome) == Move(c, [call[c] EXCEPT !.pc = place, !.outcome = outcome])

End(c, outcome) == GotoWith(c, "ended", outcome)

(* The finally block releases the lease, if there is one. *)
Leave(c, outcome) == GotoWith(c, "release", outcome)

(* #commit fails: what it created is undone. *)
Fail(c, outcome) == GotoWith(c, "undo", outcome)

Referenced(o) == \E a \in Artifacts : records[a] # None /\ records[a].object = o

--------------------
(* Lease rows (StoreArtifactRepository). *)

Entries(c) == {l \in rows[Object(c)].leases : l.holder = c}

Live(o, now) == {l \in rows[o].leases : l.expires > now}

(* Definitions marked "Bug:" are not part of the specification: each is
   the definition that follows it with a plausible mistake, for checking
   that the properties below notice it. *)

(* Bug: a deleter looks for other deleters only. *)
RefusedByOwnKind(c) == \E l \in Live(Object(c), call[c].now) : l.mode = Mode(c) /\ Mode(c) = "exclusive-delete"

Refused(c) ==
  \E l \in Live(Object(c), call[c].now) :
    Mode(c) = "exclusive-delete" \/ l.mode = "exclusive-delete"

HasLive(c) == \E l \in Entries(c) : l.expires > call[c].now

(* Bug: the generation stays when an expired lease is reclaimed. *)
SameGeneration(c) == rows[Object(c)].generation

NextGeneration(c) ==
  LET row == rows[Object(c)] IN
  IF Live(Object(c), call[c].now) = row.leases THEN row.generation ELSE row.generation + 1

Granted(c) ==
  LET gen == NextGeneration(c) IN
  [generation |-> gen,
   leases |-> Live(Object(c), call[c].now)
                \cup {[holder |-> c, mode |-> Mode(c), generation |-> gen,
                       expires |-> call[c].now + LeaseTtlMs]}]

Renewed(c) ==
  [rows[Object(c)] EXCEPT !.leases = (@ \ Entries(c))
                             \cup {[l EXCEPT !.expires = call[c].now + LeaseTtlMs] : l \in Entries(c)}]

Released(c) == [rows[Object(c)] EXCEPT !.leases = @ \ Entries(c)]

(* getVersioned of the row. *)
Read(c) == fresh' = fresh \cup {c}

(* The row is written, and what others read of it is out of date. *)
Write(c, row) ==
  /\ rows' = [rows EXCEPT ![Object(c)] = row]
  /\ fresh' = {d \in fresh : Object(d) # Object(c)}

--------------------
(* acquireObjectLease *)

(* The lease is not granted: nothing was written yet, or, for a delete,
   the record is gone and the object stays. *)
Unavailable(c) == End(c, IF Kind(c) = "delete" THEN "orphaned"
                         ELSE IF Kind(c) = "repair" THEN "conflict" ELSE "failed")

(* Bug: one attempt too many. *)
OutOfAttemptsLate(c) == call[c].attempts > AcquireAttempts

OutOfAttempts(c) == call[c].attempts = AcquireAttempts

Attempt(c, place) == Move(c, [call[c] EXCEPT !.pc = place, !.attempts = @ + 1])

Acquire(c) ==
  /\ At(c, "acquire")
  /\ IF OutOfAttempts(c)
     THEN Unavailable(c) /\ UNCHANGED fresh
     ELSE /\ Read(c)
          /\ IF Refused(c)
             THEN Unavailable(c)
             ELSE Attempt(c, IF Mode(c) = "exclusive-delete" THEN "references" ELSE "claim")
  /\ UNCHANGED <<objects, store, clock>>

(* An object that is referenced is not to be deleted. *)
StillReferenced(c, place) ==
  GotoWith(c, place, IF Kind(c) = "delete" THEN "deleted" ELSE "conflict")

References(c) ==
  /\ At(c, "references")
  /\ IF Referenced(Object(c)) THEN StillReferenced(c, "ended") ELSE Goto(c, "claim")
  /\ UNCHANGED <<objects, store, fresh, clock>>

Claim(c) ==
  /\ At(c, "claim")
  /\ IF c \in fresh
     THEN /\ Write(c, Granted(c))
          /\ Goto(c, CASE Kind(c) = "write" -> "head"
                       [] Kind(c) = "import" -> "get"
                       [] OTHER -> "held")
     ELSE Goto(c, "acquire") /\ UNCHANGED <<rows, fresh>>
  /\ UNCHANGED <<objects, records, edges, receipts, clock>>

(* renewObjectLease, one attempt: it reads the row, then writes it. *)
LeaseLost(c) ==
  CASE Kind(c) = "delete" -> Leave(c, "orphaned")
    [] Kind(c) = "repair" -> Leave(c, "conflict")
    [] OTHER -> Fail(c, "failed")

Renew(c) ==
  /\ At(c, "renew")
  /\ Read(c)
  /\ IF HasLive(c) THEN Goto(c, "renewing") ELSE LeaseLost(c)
  /\ UNCHANGED <<objects, store, clock>>

(* What a repair renews its lease for, the first, second and third time. *)
AfterRound(c) == CASE call[c].round = 1 -> "compare"
                   [] call[c].round = 2 -> "held"
                   [] OTHER -> "erase"

Renewing(c) ==
  /\ At(c, "renewing")
  /\ IF c \in fresh
     THEN /\ Write(c, Renewed(c))
          /\ CASE Kind(c) = "delete" -> Goto(c, "erase")
               [] Kind(c) = "repair" -> Goto(c, AfterRound(c))
               [] OTHER -> GotoNow(c, "commit")
     ELSE LeaseLost(c) /\ UNCHANGED <<rows, fresh>>
  /\ UNCHANGED <<objects, records, edges, receipts, clock>>

(* releaseObjectLease, one attempt. A write that completed fails with its
   release; the others ignore it. *)
NotReleased(c) == End(c, IF call[c].outcome \in {"returned", "replayed"} THEN "unreleased"
                         ELSE call[c].outcome)

Release(c) ==
  /\ At(c, "release")
  /\ Read(c)
  /\ IF Entries(c) # {} THEN Goto(c, "releasing") ELSE NotReleased(c)
  /\ UNCHANGED <<objects, store, clock>>

Releasing(c) ==
  /\ At(c, "releasing")
  /\ IF c \in fresh
     THEN Write(c, Released(c)) /\ Goto(c, "ended")
     ELSE NotReleased(c) /\ UNCHANGED <<rows, fresh>>
  /\ UNCHANGED <<objects, records, edges, receipts, clock>>

--------------------
(* write and import, up to the commit. *)

(* The earlier artifact and its digest. *)
Remember(c, a) == Move(c, [call[c] EXCEPT !.pc = "replay", !.result = a, !.bytes = records[a].bytes])

Prior(c) ==
  /\ At(c, "prior")
  /\ LET prior == {a \in Artifacts : Asked(c).key # None /\ records[a] # None
                                       /\ records[a].key = Asked(c).key} IN
     IF prior = {} THEN GotoNow(c, "acquire")
     ELSE \E a \in prior :
            IF records[a].source # Asked(c).source
            THEN End(c, "conflict")
            ELSE Remember(c, a)
  /\ UNCHANGED <<objects, store, fresh, clock>>

(* The bytes are read again and compared with the earlier request's. *)
Replay(c) ==
  LET actual == IF Kind(c) = "write" THEN Asked(c).bytes ELSE objects[Object(c)] IN
  /\ At(c, "replay")
  /\ End(c, IF actual = None THEN "failed"
            ELSE IF actual = call[c].bytes THEN "replayed" ELSE "conflict")
  /\ UNCHANGED <<objects, store, fresh, clock>>

Head(c) ==
  /\ At(c, "head")
  /\ Goto(c, IF objects[Object(c)] = None THEN "put" ELSE "beside")
  /\ UNCHANGED <<objects, store, fresh, clock>>

Beside(c) ==
  /\ At(c, "beside")
  /\ Goto(c, IF Referenced(Object(c)) THEN "putBeside" ELSE "adopt")
  /\ UNCHANGED <<objects, store, fresh, clock>>

(* The digest is taken, and the commit begins with a renewal. *)
Digested(c, bytes) ==
  Move(c, [call[c] EXCEPT !.pc = "renew", !.now = clock, !.bytes = bytes])

Adopt(c) ==
  /\ At(c, "adopt")
  /\ IF objects[Object(c)] = Asked(c).bytes
     THEN Digested(c, Asked(c).bytes)
     ELSE Leave(c, "occupied")
  /\ UNCHANGED <<objects, store, fresh, clock>>

Get(c) ==
  /\ At(c, "get")
  /\ IF objects[Object(c)] = None THEN Leave(c, "failed") ELSE Digested(c, objects[Object(c)])
  /\ UNCHANGED <<objects, store, fresh, clock>>

Putting(c) == At(c, "put") \/ At(c, "putBeside")

(* put with ifAbsent *)
Landed(c) ==
  /\ objects[Object(c)] = None
  /\ objects' = [objects EXCEPT ![Object(c)] = Asked(c).bytes]

Put(c) ==
  /\ Putting(c)
  /\ IF objects[Object(c)] = None
     THEN Landed(c) /\ Digested(c, Asked(c).bytes)
     ELSE Leave(c, "failed") /\ UNCHANGED objects
  /\ UNCHANGED <<store, fresh, clock>>

(* The answer is lost: the bytes may have landed and are left alone. *)
PutUncertain(c) ==
  /\ Putting(c)
  /\ "indeterminate" \in Faults
  /\ Landed(c) \/ UNCHANGED objects
  /\ Leave(c, "indeterminate")
  /\ UNCHANGED <<store, fresh, clock>>

(* The store refuses, or fails in a way that says nothing. *)
PutFails(c) ==
  /\ Putting(c)
  /\ \/ "rejected" \in Faults /\ Leave(c, "failed") /\ UNCHANGED objects
     \/ /\ "unknown" \in Faults
        /\ Landed(c) \/ UNCHANGED objects
        /\ IF At(c, "putBeside") THEN Leave(c, "failed") ELSE GotoWith(c, "scrap", "failed")
  /\ UNCHANGED <<store, fresh, clock>>

--------------------
(* createWithLease, createIdempotentWithLease, and the end of #commit. *)

Replayed(c, place, artifact) ==
  Move(c, [call[c] EXCEPT !.pc = place, !.result = artifact, !.outcome = "replayed"])

(* A receipt answers: the same request is replayed while its record lasts. *)
Answer(c) ==
  LET receipt == receipts[Asked(c).key]
      artifact == receipt.artifact IN
  IF receipt.bytes = call[c].bytes /\ records[artifact] # None
  THEN Replayed(c, IF records[artifact].object = Object(c) THEN "release" ELSE "drop", artifact)
  ELSE Fail(c, "conflict")

Commit(c) ==
  /\ At(c, "commit")
  /\ Read(c)
  /\ IF HasLive(c) THEN Goto(c, IF Asked(c).key = None THEN "committing" ELSE "receipt")
                   ELSE LeaseLost(c)
  /\ UNCHANGED <<objects, store, clock>>

Receipt(c) ==
  /\ At(c, "receipt")
  /\ IF receipts[Asked(c).key] = None THEN Goto(c, "committing") ELSE Answer(c)
  /\ UNCHANGED <<objects, store, fresh, clock>>

(* Bug: the batch is not conditioned on the lease row. *)
MayCommitUnfenced(c) ==
  /\ records[Asked(c).artifact] = None
  /\ Asked(c).key # None => receipts[Asked(c).key] = None

(* Bug: the batch is not conditioned on the receipt's absence. *)
MayCommitUnlisted(c) == c \in fresh /\ records[Asked(c).artifact] = None

MayCommit(c) ==
  /\ c \in fresh
  /\ records[Asked(c).artifact] = None
  /\ Asked(c).key # None => receipts[Asked(c).key] = None

Committing(c) ==
  LET a == Asked(c).artifact
      k == Asked(c).key IN
  /\ At(c, "committing")
  /\ IF MayCommit(c)
     THEN /\ records' = [records EXCEPT ![a] = [object |-> Object(c), bytes |-> call[c].bytes,
                                                key |-> k, source |-> Asked(c).source]]
          /\ receipts' = IF k = None THEN receipts
                         ELSE [receipts EXCEPT ![k] = [artifact |-> a, bytes |-> call[c].bytes]]
          /\ Move(c, [call[c] EXCEPT !.pc = "lineage", !.made = TRUE, !.result = a])
     ELSE Goto(c, "recheck") /\ UNCHANGED <<records, receipts>>
  /\ UNCHANGED <<objects, edges, rows, fresh, clock>>

(* Why the batch was refused. *)
Recheck(c) ==
  /\ At(c, "recheck")
  /\ CASE Asked(c).key # None /\ receipts[Asked(c).key] # None -> Answer(c)
       [] Asked(c).key = None /\ records[Asked(c).artifact] # None -> Fail(c, "conflict")
       [] OTHER -> LeaseLost(c)
  /\ UNCHANGED <<objects, store, fresh, clock>>

(* addLineage: it looks for both ends, then puts the edge. *)
Lineage(c) ==
  LET source == Asked(c).source IN
  /\ At(c, "lineage")
  /\ CASE source = None -> Leave(c, "returned")
       [] source # None /\ records[source] # None /\ records[call[c].result] # None -> Goto(c, "link")
       [] OTHER -> Fail(c, "failed")
  /\ UNCHANGED <<objects, store, fresh, clock>>

Link(c) ==
  /\ At(c, "link")
  /\ edges' = edges \cup {[source |-> Asked(c).source, result |-> call[c].result]}
  /\ Leave(c, "returned")
  /\ UNCHANGED <<objects, records, receipts, rows, fresh, clock>>

(* Bug: an object whose record was never made is left. *)
AfterUndoOfARecord(c) == Goto(c, IF Kind(c) = "write" /\ call[c].made THEN "scrap" ELSE "release")

(* A write deletes the object it takes to be its own, an import does not. *)
AfterUndo(c) == Goto(c, IF Kind(c) = "write" THEN "scrap" ELSE "release")

Undo(c) ==
  /\ At(c, "undo")
  /\ IF call[c].made /\ records[Asked(c).artifact] # None
     THEN records' = [records EXCEPT ![Asked(c).artifact] = None] /\ Goto(c, "unlink")
     ELSE AfterUndo(c) /\ UNCHANGED records
  /\ UNCHANGED <<objects, edges, receipts, rows, fresh, clock>>

Unlink(c) ==
  /\ At(c, "unlink")
  /\ edges' = {e \in edges : Asked(c).artifact \notin {e.source, e.result}}
  /\ IF Kind(c) = "delete" THEN Goto(c, "referenced") ELSE AfterUndo(c)
  /\ UNCHANGED <<objects, records, receipts, rows, fresh, clock>>

(* #deleteOwnedObject *)
Scrap(c) ==
  /\ At(c, "scrap")
  /\ \/ objects' = [objects EXCEPT ![Object(c)] = None] /\ Goto(c, "release")
     \/ "delete" \in Faults /\ Leave(c, "orphaned") /\ UNCHANGED objects
  /\ UNCHANGED <<store, fresh, clock>>

(* A replay drops the object it brought, and if that fails, fails. *)
Drop(c) ==
  /\ At(c, "drop")
  /\ \/ objects' = [objects EXCEPT ![Object(c)] = None] /\ Goto(c, "release")
     \/ "delete" \in Faults /\ Fail(c, "orphaned") /\ UNCHANGED objects
  /\ UNCHANGED <<store, fresh, clock>>

--------------------
(* delete *)

Find(c) ==
  /\ At(c, "find")
  /\ IF records[Asked(c).artifact] = None THEN End(c, "notFound") ELSE Goto(c, "unrecord")
  /\ UNCHANGED <<objects, store, fresh, clock>>

Unrecord(c) ==
  LET a == Asked(c).artifact IN
  /\ At(c, "unrecord")
  /\ IF records[a] = None
     THEN End(c, "notFound") /\ UNCHANGED records
     ELSE records' = [records EXCEPT ![a] = None] /\ Goto(c, "unlink")
  /\ UNCHANGED <<objects, edges, receipts, rows, fresh, clock>>

(* Before the lease is asked for. *)
BeforeLease(c) ==
  /\ At(c, "referenced")
  /\ IF Referenced(Object(c)) THEN StillReferenced(c, "ended") ELSE GotoNow(c, "acquire")
  /\ UNCHANGED <<objects, store, fresh, clock>>

--------------------
(* audit, planRepair and #deleteOrphan. *)

(* An object is found that no record referenced when they were listed,
   before the objects were. *)
List(c) ==
  /\ At(c, "list")
  /\ IF Referenced(Object(c)) THEN End(c, "notFound") ELSE Goto(c, "audit")
  /\ UNCHANGED <<objects, store, fresh, clock>>

Found(c, bytes) == Move(c, [call[c] EXCEPT !.pc = "referenced", !.bytes = bytes])

Audit(c) ==
  /\ At(c, "audit")
  /\ IF objects[Object(c)] = None
     THEN End(c, "notFound")
     ELSE Found(c, objects[Object(c)])
  /\ UNCHANGED <<objects, store, fresh, clock>>

(* The three renewals of a repair are numbered. *)
RenewNext(c) == Move(c, [call[c] EXCEPT !.pc = "renew", !.now = clock, !.round = @ + 1])

Compare(c) ==
  /\ At(c, "compare")
  /\ CASE objects[Object(c)] = None -> Leave(c, "notFound")
       [] objects[Object(c)] = call[c].bytes -> RenewNext(c)
       [] OTHER -> Leave(c, "conflict")
  /\ UNCHANGED <<objects, store, fresh, clock>>

--------------------
(* Deleting an object under the exclusive lease. *)

(* Bug: the references are not looked at again under the lease. *)
UnreferencedOnce(c) == TRUE

Unreferenced(c) == ~Referenced(Object(c))

(* Under the lease. *)
Held(c) ==
  /\ At(c, "held")
  /\ CASE ~Unreferenced(c) -> StillReferenced(c, "release")
       [] Unreferenced(c) /\ call[c].round = 2 -> Goto(c, "compare")
       [] OTHER -> RenewNext(c)
  /\ UNCHANGED <<objects, store, fresh, clock>>

Erase(c) ==
  /\ At(c, "erase")
  /\ \/ /\ objects' = [objects EXCEPT ![Object(c)] = None]
        /\ Leave(c, IF Kind(c) = "delete" /\ objects[Object(c)] = None THEN "orphaned" ELSE "deleted")
     \/ "delete" \in Faults /\ Leave(c, "orphaned") /\ UNCHANGED objects
  /\ UNCHANGED <<store, fresh, clock>>

--------------------
Die(c) ==
  /\ c \in Fragile
  /\ call[c].pc # "ended"
  /\ End(c, "dead")
  /\ UNCHANGED <<objects, store, fresh, clock>>

(* A deleter that asked for its last renewal at now has not erased yet. *)
Erasing(c) ==
  \/ At(c, "erase")
  \/ (At(c, "renew") \/ At(c, "renewing")) /\ (Kind(c) = "delete" \/ call[c].round = 3)

Tick ==
  /\ clock < MaxClock
  /\ Prompt => \A c \in Calls : Mode(c) = "exclusive-delete" /\ Erasing(c)
                                  => clock + 1 < call[c].now + LeaseTtlMs
  /\ clock' = clock + 1
  /\ UNCHANGED <<objects, store, fresh, call>>

Leasing(c) == Acquire(c) \/ References(c) \/ Claim(c) \/ Renew(c) \/ Renewing(c) \/ Release(c) \/ Releasing(c)

Bringing(c) == \/ Prior(c) \/ Replay(c) \/ Head(c) \/ Beside(c) \/ Adopt(c) \/ Get(c)
               \/ Put(c) \/ PutUncertain(c) \/ PutFails(c)

Recording(c) == \/ Commit(c) \/ Receipt(c) \/ Committing(c) \/ Recheck(c) \/ Lineage(c) \/ Link(c)
                \/ Undo(c) \/ Unlink(c) \/ Scrap(c) \/ Drop(c)

Deleting(c) == \/ Find(c) \/ Unrecord(c) \/ BeforeLease(c) \/ List(c) \/ Audit(c) \/ Held(c) \/ Compare(c) \/ Erase(c)

AllEnded == (\A c \in Calls : At(c, "ended")) /\ UNCHANGED vars

Next == \/ \E c \in Calls : Leasing(c) \/ Bringing(c) \/ Recording(c) \/ Deleting(c) \/ Die(c)
        \/ Tick
        \/ AllEnded

Spec == Init /\ [][Next]_vars

--------------------
(* Properties. *)

Leases == [holder : Calls, mode : {"shared-writer", "exclusive-delete"},
           generation : Nat, expires : Nat]

Outcomes == {None, "returned", "replayed", "unreleased", "failed", "conflict", "occupied",
             "indeterminate", "orphaned", "deleted", "notFound", "dead"}

Places == {"prior", "replay", "acquire", "references", "claim", "head", "beside", "adopt", "get",
           "put", "putBeside", "renew", "renewing", "commit", "receipt", "committing", "recheck",
           "lineage", "link", "undo", "unlink", "scrap", "drop", "find", "unrecord", "referenced",
           "list", "audit", "held", "compare", "erase", "release", "releasing", "ended"}

CallStates == [request : Request, pc : Places, now : 0..MaxClock, attempts : 0..AcquireAttempts,
               round : 0..3, bytes : Bytes \cup {None}, made : BOOLEAN,
               result : Artifacts \cup {None}, outcome : Outcomes]

TypeOK ==
  /\ objects \in [Objects -> Bytes \cup {None}]
  /\ records \in [Artifacts -> Records \cup {None}]
  /\ edges \subseteq [source : Artifacts, result : Artifacts]
  /\ receipts \in [Keys -> Receipts \cup {None}]
  /\ rows \in [Objects -> [generation : Nat, leases : SUBSET Leases]]
  /\ fresh \subseteq Calls
  /\ call \in [Calls -> CallStates]
  /\ clock \in 0..MaxClock

(* Every recorded artifact has its bytes, whichever writes, imports,
   deletions and repairs of its object run: an artifact exists only after
   its bytes are stored, and bytes are deleted only when no record refers
   to them (coordinator.ts, the leases of store.ts, #deleteOrphan). It
   needs the leases, their renewal before the commit and before a
   deletion, and the second look at the records under the lease. *)
RecordsHaveBytes ==
  \A a \in Artifacts : records[a] # None => objects[records[a].object] = records[a].bytes

(* The calls of one idempotency key end with one artifact, whichever of
   them makes it, and although it may be deleted in between: its receipt
   stays (createIdempotentWithLease). *)
OneArtifactPerKey ==
  \A c, d \in Calls :
    /\ Asked(c).key # None /\ Asked(c).key = Asked(d).key
    /\ call[c].result # None /\ call[d].result # None
    => call[c].result = call[d].result

(* A write that fails on a definite answer leaves neither a record nor its
   bytes: it undoes what it made (#commit, #deleteOwnedObject). The other
   outcomes say that bytes may be left for maintenance to find, and bytes
   that were there before may stay. *)
FailedWritesLeaveNothing ==
  \A c \in Calls :
    Kind(c) = "write" /\ At(c, "ended") /\ call[c].outcome \in {"failed", "conflict"}
    => /\ records[Asked(c).artifact] = None
       /\ objects[Object(c)] = None \/ Object(c) \in DOMAIN Stored

(* The leases of an object, kept in a row that is read and conditionally
   written, are those of the reference repository, which decides in one
   step: compatible modes, generations that advance on a reclaim, and
   records made under a live shared lease only. *)
ReferenceLeases(o) ==
  INSTANCE ObjectLeases WITH
    Holders <- Calls,
    generation <- rows[o].generation,
    leases <- rows[o].leases,
    commits <- {c \in Calls : Object(c) = o /\ call[c].made}

ImplementsObjectLeases ==
  /\ \A o \in Objects : ReferenceLeases(o)!Init
  /\ [][\A o \in Objects : UNCHANGED ReferenceLeases(o)!vars \/ ReferenceLeases(o)!Next]_vars
===============================================================================
