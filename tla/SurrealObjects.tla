----------------------------- MODULE SurrealObjects -----------------------------
(***************************************************************************)
(* The object store in SurrealDB (packages/surreal/src/storage.ts), for    *)
(* one key. A put writes its chunks as a generation of its own, under an   *)
(* upload with a lease that it renews, and then points the key at it; the  *)
(* generation it replaced is dropped, unless a stream of the same process  *)
(* reads it, which then drops it at its end; a get that comes too late to  *)
(* be seen finds no chunks. Uploads whose lease ran out are scavenged.     *)
(* Each statement is an action: nothing here is in a transaction, and what *)
(* keeps finalizing puts and deletions of a key apart is a lock in the     *)
(* memory of one process.                                                  *)
(***************************************************************************)
EXTENDS Naturals, FiniteSets

CONSTANTS
  Setups,    \* [requests, process, punctual, faults]: per call "create", "overwrite", "read",
             \* "delete" or "scavenge"; its process; whether puts keep their leases;
             \* "source", "query" and "die"
  Calls,     \* also the identities of the generations they write
  Lease, RenewEvery,
  Size,      \* chunks of an object
  MaxClock,  \* bounds the clock
  Missing    \* no pointer, upload, generation or answer

VARIABLES
  setup, clock,
  pointer,     \* the key's generation
  uploads,     \* per generation: when its lease ends
  generations, \* the generation rows
  chunks,      \* per generation: the chunks there are
  lock,        \* per process: the call that holds the key's lock
  reads,       \* per process: the streams that read, and what
  pending,     \* per process: generations to drop when their streams end
  call         \* per call: [pc, todo, then, n, renewAt, found, clash, late, answer];
               \* clash and late are history

surrealObjectVars == <<setup, clock, pointer, uploads, generations, chunks, lock, reads, pending, call>>

tables == <<pointer, uploads, generations, chunks>>

memory == <<lock, reads, pending>>

Processes == {"p1", "p2"}

Asked == DOMAIN setup.requests

Init ==
  /\ setup \in Setups
  /\ clock = 0 /\ pointer = Missing /\ generations = {}
  /\ uploads = [g \in Calls |-> Missing] /\ chunks = [g \in Calls |-> {}]
  /\ lock = [p \in Processes |-> Missing] /\ reads = [p \in Processes |-> {}] /\ pending = [p \in Processes |-> {}]
  /\ call = [c \in Calls |-> [pc |-> "idle", todo |-> {}, then |-> "ended", n |-> 0, renewAt |-> 0,
                              found |-> Missing, clash |-> FALSE, late |-> FALSE, answer |-> Missing]]

Of(c) == setup.process[c]

Kind(c) == setup.requests[c]

IsPut(c) == Kind(c) \in {"create", "overwrite"}

At(c, pc) == c \in Asked /\ call[c].pc = pc

UnderWay(c) == c \in Asked /\ call[c].pc \notin {"idle", "ended", "died"}

Set(c, record) == call' = [call EXCEPT ![c] = record]

Become(c, pc) == [call[c] EXCEPT !.pc = pc]

Go(c, pc) == Set(c, Become(c, pc))

Ended(c, answer) == [Become(c, "ended") EXCEPT !.answer = answer]

Fails(what) == what \in setup.faults

Expired(g) == uploads[g] # Missing /\ uploads[g] < clock

--------------------
(* put *)

(* A put, and open, first look for uploads whose lease ran out. *)
Begin(c) ==
  /\ At(c, "idle") /\ (IsPut(c) \/ Kind(c) = "scavenge")
  /\ LET stale == {g \in Calls : Expired(g)}
         next == IF IsPut(c) THEN "create" ELSE "ended" IN
     Set(c, IF stale = {} THEN Become(c, next) ELSE [Become(c, "drop") EXCEPT !.todo = stale, !.then = next])
  /\ UNCHANGED <<tables, memory>>

CreateUpload(c) ==
  /\ At(c, "create")
  /\ uploads' = [uploads EXCEPT ![c] = clock + Lease]
  /\ Set(c, [Become(c, "writing") EXCEPT !.renewAt = clock + RenewEvery])
  /\ UNCHANGED <<pointer, generations, chunks, memory>>

MustRenew(c) == clock >= call[c].renewAt

(* renewUpload and insertChunk look for the upload, whatever its lease,
   and then write. *)
FindUpload(c) ==
  /\ At(c, "writing") /\ call[c].n < Size
  /\ Go(c, IF uploads[c] = Missing THEN "undo" ELSE IF MustRenew(c) THEN "renew" ELSE "insert")
  /\ UNCHANGED <<tables, memory>>

Renew(c) ==
  /\ At(c, "renew")
  /\ uploads' = [uploads EXCEPT ![c] = IF @ = Missing THEN Missing ELSE clock + Lease]
  /\ Set(c, [Become(c, "writing") EXCEPT !.renewAt = clock + RenewEvery])
  /\ UNCHANGED <<pointer, generations, chunks, memory>>

InsertChunk(c) ==
  /\ At(c, "insert")
  /\ chunks' = [chunks EXCEPT ![c] = @ \cup {call[c].n + 1}]
  /\ Set(c, [Become(c, "writing") EXCEPT !.n = @ + 1])
  /\ UNCHANGED <<pointer, uploads, generations, memory>>

SourceFails(c) == At(c, "writing") /\ Fails("source") /\ Go(c, "undo") /\ UNCHANGED <<tables, memory>>

(* Bug: finalizing puts do not wait for each other. *)
LockAtOnce(c) == Go(c, "check") /\ UNCHANGED lock

TakeLock(c) ==
  /\ lock[Of(c)] = Missing /\ lock' = [lock EXCEPT ![Of(c)] = c] /\ Go(c, "check")

Finalize(c) ==
  /\ At(c, "writing") /\ call[c].n = Size
  /\ TakeLock(c)
  /\ UNCHANGED <<tables, reads, pending>>

Unlocked(p, c) == [lock EXCEPT ![p] = IF @ = c THEN Missing ELSE @]

Unlock(c) == lock' = Unlocked(Of(c), c) /\ UNCHANGED <<reads, pending>>

Refuse(c, answer) ==
  Set(c, [Become(c, "undo") EXCEPT !.answer = answer]) /\ Unlock(c) /\ UNCHANGED tables

CheckUpload(c) ==
  /\ At(c, "check")
  /\ IF uploads[c] = Missing \/ Expired(c) THEN Refuse(c, "failed")
     ELSE Go(c, "count") /\ UNCHANGED <<tables, memory>>

CountChunks(c) ==
  /\ At(c, "count")
  /\ IF chunks[c] # 1 .. Size THEN Refuse(c, "failed") ELSE Go(c, "compare") /\ UNCHANGED <<tables, memory>>

ReadPrevious(c) ==
  /\ At(c, "compare")
  /\ IF Kind(c) = "create" /\ pointer # Missing THEN Refuse(c, "exists")
     ELSE Set(c, [Become(c, "generation") EXCEPT !.found = pointer]) /\ UNCHANGED <<tables, memory>>

WriteGeneration(c) ==
  /\ At(c, "generation")
  /\ generations' = generations \cup {c}
  /\ Go(c, "point") /\ UNCHANGED <<pointer, uploads, chunks, memory>>

WritePointer(c) ==
  /\ At(c, "point")
  /\ pointer' = c
  /\ Set(c, [Become(c, "settle") EXCEPT !.clash = pointer # call[c].found]) /\ UNCHANGED <<uploads, generations, chunks, memory>>

(* The upload is done; what it replaced is to be dropped. *)
Settle(c) ==
  /\ At(c, "settle")
  /\ uploads' = [uploads EXCEPT ![c] = Missing] /\ Unlock(c)
  /\ Set(c, IF call[c].found = Missing THEN Ended(c, "stored") ELSE [Become(c, "gc") EXCEPT !.answer = "stored"])
  /\ UNCHANGED <<pointer, generations, chunks>>

(* deleteUpload, of a put that failed: its chunks go if its upload was
   still there. *)
Undo(c) ==
  /\ At(c, "undo")
  /\ uploads' = [uploads EXCEPT ![c] = Missing]
  /\ Go(c, IF uploads[c] = Missing THEN "ended" ELSE "undoChunks")
  /\ UNCHANGED <<pointer, generations, chunks, memory>>

UndoChunks(c) ==
  /\ At(c, "undoChunks")
  /\ chunks' = [chunks EXCEPT ![c] = {}]
  /\ Go(c, "ended") /\ UNCHANGED <<pointer, uploads, generations, memory>>

--------------------
(* Dropping generations *)

(* Bug: a generation is dropped under the streams that read it. *)
IgnoredStreams(p, g) == {}

StreamsOf(p, g) == {r \in reads[p] : call[r].found = g}

(* #gcGeneration: of a generation that is read, or that the key points at,
   nothing is dropped. It looks at the streams once, and then awaits. *)
Gc(c) ==
  /\ At(c, "gc")
  /\ LET g == call[c].found
         p == Of(c) IN
     IF StreamsOf(p, g) # {}
     THEN pending' = [pending EXCEPT ![p] = @ \cup {g}] /\ Go(c, "ended")
     ELSE Go(c, "current") /\ UNCHANGED pending
  /\ UNCHANGED <<tables, lock, reads>>

FindCurrent(c) ==
  /\ At(c, "current")
  /\ LET g == call[c].found IN
     Set(c, IF pointer = g THEN Become(c, "ended") ELSE [Become(c, "drop") EXCEPT !.todo = {g}, !.then = "ended"])
  /\ UNCHANGED <<tables, memory>>

(* deleteGeneration: the row of the generation, that of the upload, the
   chunks. *)
DropGeneration(c) ==
  /\ At(c, "drop")
  /\ \E g \in call[c].todo :
       /\ generations' = generations \ {g}
       /\ Set(c, [Become(c, "dropUpload") EXCEPT !.found = g])
  /\ UNCHANGED <<pointer, uploads, chunks, memory>>

DropUpload(c) ==
  /\ At(c, "dropUpload")
  /\ uploads' = [uploads EXCEPT ![call[c].found] = Missing]
  /\ Go(c, "dropChunks") /\ UNCHANGED <<pointer, generations, chunks, memory>>

DropChunks(c) ==
  /\ At(c, "dropChunks")
  /\ LET rest == call[c].todo \ {call[c].found} IN
     /\ chunks' = [chunks EXCEPT ![call[c].found] = {}]
     /\ Set(c, [call[c] EXCEPT !.pc = IF rest = {} THEN call[c].then ELSE "drop", !.todo = rest, !.found = Missing])
  /\ UNCHANGED <<pointer, uploads, generations, memory>>

--------------------
(* delete, get *)

LockToDelete(c) ==
  /\ At(c, "idle") /\ Kind(c) = "delete"
  /\ lock[Of(c)] = Missing /\ lock' = [lock EXCEPT ![Of(c)] = c]
  /\ Go(c, "unpoint") /\ UNCHANGED <<tables, reads, pending>>

DeletePointer(c) ==
  /\ At(c, "unpoint")
  /\ pointer' = Missing /\ Unlock(c)
  /\ Set(c, IF pointer = Missing THEN Ended(c, "absent")
            ELSE [Become(c, "gc") EXCEPT !.found = pointer, !.answer = "deleted"])
  /\ UNCHANGED <<uploads, generations, chunks>>

Get(c) ==
  /\ At(c, "idle") /\ Kind(c) = "read"
  /\ Set(c, IF pointer = Missing THEN Ended(c, "absent") ELSE [Become(c, "retain") EXCEPT !.found = pointer])
  /\ UNCHANGED <<tables, memory>>

(* Somebody drops the generation, or has, and looked at the streams before. *)
IsDropped(g) ==
  \/ g \notin generations
  \/ \E d \in Asked : \/ call[d].pc = "current" /\ call[d].found = g
                      \/ call[d].pc \in {"drop", "dropUpload", "dropChunks"} /\ g \in call[d].todo

(* get answers with a stream, which keeps the generation that the key
   pointed at when it was asked. A caller may never take it up. *)
Retain(c) ==
  /\ At(c, "retain")
  /\ reads' = [reads EXCEPT ![Of(c)] = @ \cup {c}]
  /\ Set(c, [Become(c, "stream") EXCEPT !.late = IsDropped(call[c].found)])
  /\ UNCHANGED <<tables, lock, pending>>

ListChunks(c) ==
  /\ At(c, "stream")
  /\ Set(c, [Become(c, "release") EXCEPT !.answer = IF chunks[call[c].found] = 1 .. Size THEN "whole" ELSE "torn"])
  /\ UNCHANGED <<tables, memory>>

(* The last stream of a generation drops it, if somebody wanted to. *)
Release(c) ==
  /\ At(c, "release")
  /\ LET p == Of(c)
         g == call[c].found
         last == StreamsOf(p, g) \subseteq {c} IN
     /\ reads' = [reads EXCEPT ![p] = @ \ {c}]
     /\ pending' = [pending EXCEPT ![p] = IF last THEN @ \ {g} ELSE @]
     /\ Go(c, IF last /\ g \in pending[p] THEN "current" ELSE "ended")
  /\ UNCHANGED <<tables, lock>>

--------------------
(* Failures, and time *)

(* The states of a put whose failures take back its upload. *)
Guarded ==
  {"writing", "renew", "insert", "check", "count", "compare", "generation", "point", "settle"}

(* A statement fails, without an effect. *)
QueryFails(c) ==
  /\ UnderWay(c) /\ Fails("query") /\ (At(c, "writing") => call[c].n < Size)
  /\ call[c].pc \notin {"gc", "retain", "release"}
  /\ LET taken == IF At(c, "stream") THEN "release" ELSE "ended"
         undone == call[c].pc \in Guarded \/ (IsPut(c) /\ call[c].answer = "stored") IN
     Set(c, [call[c] EXCEPT !.pc = IF undone THEN "undo" ELSE taken, !.answer = "failed"])
  /\ Unlock(c) /\ UNCHANGED tables

(* A process dies, with its calls and what it remembers. *)
Die(p) ==
  /\ Fails("die") /\ \E c \in Asked : Of(c) = p /\ UnderWay(c)
  /\ call' = [c \in Calls |-> IF UnderWay(c) /\ Of(c) = p THEN [Become(c, "died") EXCEPT !.then = call[c].pc] ELSE call[c]]
  /\ lock' = [lock EXCEPT ![p] = Missing] /\ reads' = [reads EXCEPT ![p] = {}]
  /\ pending' = [pending EXCEPT ![p] = {}]
  /\ UNCHANGED tables

Tick ==
  /\ clock < MaxClock
  /\ setup.punctual => \A c \in Asked : UnderWay(c) /\ uploads[c] # Missing => uploads[c] > clock
  /\ clock' = clock + 1
  /\ UNCHANGED <<tables, memory, call>>

Next ==
  /\ \/ \E c \in Calls :
          /\ \/ Begin(c) \/ CreateUpload(c) \/ FindUpload(c) \/ Renew(c) \/ InsertChunk(c) \/ SourceFails(c)
             \/ Finalize(c) \/ CheckUpload(c) \/ CountChunks(c) \/ ReadPrevious(c) \/ WriteGeneration(c)
             \/ WritePointer(c) \/ Settle(c) \/ Undo(c) \/ UndoChunks(c) \/ Gc(c) \/ FindCurrent(c)
             \/ DropGeneration(c) \/ DropUpload(c) \/ DropChunks(c)
             \/ LockToDelete(c) \/ DeletePointer(c) \/ Get(c) \/ Retain(c) \/ ListChunks(c) \/ Release(c)
             \/ QueryFails(c)
          /\ UNCHANGED clock
     \/ \E p \in Processes : Die(p) /\ UNCHANGED clock
     \/ Tick
  /\ UNCHANGED setup

Spec == Init /\ [][Next]_surrealObjectVars

--------------------
(* Properties *)

OneProcess == \E p \in Processes : \A c \in Asked : Of(c) = p

AllEnded == \A c \in Asked : call[c].pc = "ended"

(* A lock is held by a put or a deletion under way; chunks are of puts. *)
TypeOK ==
  /\ \A p \in Processes : lock[p] # Missing =>
       Of(lock[p]) = p /\ call[lock[p]].pc \in Guarded \cup {"unpoint"}
  /\ \A g \in Calls : chunks[g] # {} \/ uploads[g] # Missing => g \in Asked /\ IsPut(g)

(* The call that died after it pointed the key at its generation, and
   before it deleted its upload. *)
Unsettled == \E c \in Asked : At(c, "died") /\ call[c].then = "settle"

(* What the key points at can be read: all its chunks are there, if puts
   keep their leases and finish. Scavenging does not look whether the key
   points at what it drops, so it loses the bytes of an object whose put
   failed, died or was overtaken by its lease before it deleted its upload. *)
PointersHaveBytes ==
  setup.punctual /\ ~Fails("query") /\ ~Unsettled /\ pointer # Missing => chunks[pointer] = 1 .. Size

(* In one process a conditional put creates, and the generation a put
   drops is the one it replaced. *)
CreationsCreate ==
  OneProcess => \A c \in Asked : ~call[c].clash

(* A stream of the process that puts and deletes reads all of an object,
   whatever replaces or deletes it meanwhile, if get answered before the
   replacement looked for streams. A get that overlaps it may be late:
   there is an await between reading the pointer and retaining what it
   names (storage.ts:203-206), and #gcGeneration does not look again
   (252-253); its stream then throws "generation-chunks-missing". *)
StreamsAreWhole ==
  setup.punctual /\ OneProcess /\ ~Fails("query") /\ ~Unsettled =>
    \A c \in Asked : call[c].answer = "torn" => call[c].late

(* When all is done, what is not pointed at is an upload that will be
   scavenged. *)
NoOrphans ==
  AllEnded /\ setup.punctual /\ OneProcess /\ ~Fails("query") =>
    \A g \in Calls : chunks[g] # {} \/ g \in generations => g = pointer \/ uploads[g] # Missing
===============================================================================
