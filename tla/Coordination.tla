----------------------------- MODULE Coordination -----------------------------
(***************************************************************************)
(* SqliteCoordinator.runExclusive (packages/store/src/coordination.ts) for *)
(* one key of one namespace: the lease and generation rows that processes  *)
(* share through a SQLite file, each process's local queue, the renewal    *)
(* timer, abort signals, and processes that stall, crash and come back.    *)
(*                                                                         *)
(* Every call is one invocation of runExclusive. What a process does       *)
(* between two awaits is one action. Two kinds of time are kept apart:     *)
(* clock is the wall clock of options.now, which deadlines and expiries    *)
(* are read from and which may be set; the timers of setTimeout and        *)
(* setInterval count down with elapsed time whatever the clock shows.      *)
(***************************************************************************)
EXTENDS Integers

CONSTANTS
  Calls,        \* invocations of runExclusive
  Hosts,        \* processes, one coordinator instance each
  HostOf,       \* the process a call is made in
  Tokens,       \* owner tokens ownerTokenFactory can return, repeats included
  NoLease,      \* there is no lease row
  None,         \* no call in a local queue; no token yet
  WaitMs, LeaseMs, RenewEveryMs, MinRetryMs, MaxRetryMs,
  MaxClock,       \* bound: the wall clock stops here
  ClockSettings,  \* values the wall clock may be set to at any moment
  Punctual,       \* processes whose event loop runs what is due before time goes on
  Faults          \* database calls that may throw: "acquire", "renew", "release"

ASSUME CallsAssumption ==
  /\ HostOf \in [Calls -> Hosts]
  /\ None \notin Calls
  /\ None \notin Tokens
  /\ NoLease \notin [owner : Tokens, gen : Nat, expires : Int]
  /\ Punctual \subseteq Hosts

(* runExclusive refuses a renewal interval that is not below the lease. *)
ASSUME TimesAssumption ==
  /\ {WaitMs, LeaseMs, RenewEveryMs, MinRetryMs, MaxRetryMs} \subseteq Nat \ {0}
  /\ RenewEveryMs < LeaseMs
  /\ MinRetryMs =< MaxRetryMs
  /\ MaxClock \in Nat
  /\ ClockSettings \subseteq Nat

VARIABLES
  lastGeneration, \* _mirk_coordination_generations: last generation, 0 for no row
  lease,          \* _mirk_coordination_leases: the row, or NoLease
  tail,           \* per process: the call whose promise #queues holds, or None
  ahead,          \* per call: the calls its promise was chained behind
  freed,          \* calls that resolved their own promise in the queue
  pc,             \* per call: how far runExclusive is
  deadline,       \* per call: when it gives up, on the wall clock
  timer,          \* per call: time left on the one timer it has set
  token,          \* per call: the owner token it was given, or None
  generation,     \* per call: the fencing generation it was given, 0 for none
  guardAborted,   \* calls whose guard's signal is aborted
  signalled,      \* calls whose options.signal is aborted
  clock           \* options.now()

rows == <<lastGeneration, lease>>
queue == <<tail, ahead, freed>>
grants == <<token, generation>>
vars == <<rows, queue, pc, deadline, timer, grants, guardAborted, signalled, clock>>

Waiting == {"queued", "acquiring", "sleeping"}
Active  == Waiting \cup {"granted", "working"}
Ended   == {"done", "timedOut", "aborted", "failed", "crashed"}

Init ==
  /\ lastGeneration = 0
  /\ lease = NoLease
  /\ tail = [h \in Hosts |-> None]
  /\ ahead = [c \in Calls |-> {}]
  /\ freed = {}
  /\ pc = [c \in Calls |-> "idle"]
  /\ deadline = [c \in Calls |-> 0]
  /\ timer = [c \in Calls |-> 0]
  /\ token = [c \in Calls |-> None]
  /\ generation = [c \in Calls |-> 0]
  /\ guardAborted = {}
  /\ signalled = {}
  /\ clock = 0

--------------------
(* The rows. *)

(* Definitions marked "Bug:" are not part of the specification: each is
   the definition that follows it with a plausible mistake, for checking
   that the properties below notice it. *)

(* Bug: ownership is compared by token alone. *)
OwnsByToken(c) == lease # NoLease /\ lease.owner = token[c] /\ lease.expires > clock

Owns(c) == /\ lease # NoLease
           /\ lease.owner = token[c]
           /\ lease.gen = generation[c]
           /\ lease.expires > clock

Lease(tok, gen) == [owner |-> tok, gen |-> gen, expires |-> clock + LeaseMs]

(* Bug: the generation is counted in the lease row, which release deletes. *)
NextGenerationOfRow == IF lease = NoLease THEN 1 ELSE lease.gen + 1

NextGeneration == lastGeneration + 1

(* Bug: a lease is taken over when its owner should have renewed it. *)
IsFreeEarly == lease # NoLease => lease.expires =< clock + RenewEveryMs

IsFree == lease # NoLease => lease.expires =< clock

(* Bug: the lease is extended only to the next renewal. *)
RenewedToNextRenewal(c) == [lease EXCEPT !.expires = clock + RenewEveryMs]

RenewedLease(c) == [lease EXCEPT !.expires = clock + LeaseMs]

(* Bug: the row is deleted by key. *)
ReleaseByKey(c) == NoLease

(* Bug: the row is left to expire. *)
ReleaseNothing(c) == lease

LeaseAfterRelease(c) == IF Owns(c) THEN NoLease ELSE lease

(* The local queue: a call waits for every promise its own was chained to. *)

ChainAt(h) == IF tail[h] = None THEN {} ELSE ahead[tail[h]] \cup {tail[h]}

TurnHasCome(c) == ahead[c] \subseteq freed

(* Bug: the chain the call waited for is put back. *)
TailBeforeIt(c, t) == [t EXCEPT ![HostOf[c]] = IF @ = c THEN ahead[c] ELSE @]

TailWithout(c, t) == [t EXCEPT ![HostOf[c]] = IF @ = c THEN None ELSE @]

LeaveQueue(c) == /\ freed' = freed \cup {c}
                 /\ tail' = TailWithout(c, tail)
                 /\ UNCHANGED ahead

(* A call's locals go with it: its deadline, its timer and its guard. *)
Return(c, outcome) == /\ pc' = [pc EXCEPT ![c] = outcome]
                      /\ deadline' = [deadline EXCEPT ![c] = 0]
                      /\ timer' = [timer EXCEPT ![c] = 0]
                      /\ guardAborted' = guardAborted \ {c}

(* runExclusive throws before it has a guard: only the queue is left. *)
GiveUp(c, outcome) == Return(c, outcome) /\ LeaveQueue(c)

--------------------
(* Waiting for the local queue. *)

Start(c) ==
  /\ pc[c] = "idle"
  /\ clock + WaitMs =< MaxClock
  /\ ahead' = [ahead EXCEPT ![c] = ChainAt(HostOf[c])]
  /\ IF c \in signalled
     THEN /\ pc' = [pc EXCEPT ![c] = "aborted"]
          /\ tail' = [tail EXCEPT ![HostOf[c]] = None]
          /\ freed' = freed \cup {c}
          /\ UNCHANGED <<deadline, timer>>
     ELSE /\ pc' = [pc EXCEPT ![c] = "queued"]
          /\ tail' = [tail EXCEPT ![HostOf[c]] = c]
          /\ deadline' = [deadline EXCEPT ![c] = clock + WaitMs]
          /\ timer' = [timer EXCEPT ![c] = WaitMs]
          /\ UNCHANGED freed
  /\ UNCHANGED <<rows, grants, guardAborted, signalled, clock>>

TakeTurn(c) ==
  /\ pc[c] = "queued"
  /\ TurnHasCome(c)
  /\ pc' = [pc EXCEPT ![c] = "acquiring"]
  /\ timer' = [timer EXCEPT ![c] = 0]
  /\ UNCHANGED <<rows, queue, deadline, grants, guardAborted, signalled, clock>>

QueueTimeout(c) ==
  /\ pc[c] = "queued"
  /\ timer[c] = 0
  /\ GiveUp(c, "timedOut")
  /\ UNCHANGED <<rows, grants, signalled, clock>>

--------------------
(* One round of the #acquire loop. *)

AcquireAborted(c) ==
  /\ pc[c] = "acquiring"
  /\ c \in signalled
  /\ GiveUp(c, "aborted")
  /\ UNCHANGED <<rows, grants, signalled, clock>>

(* #tryAcquire and #nextGeneration, one immediate transaction: the lease
   row is inserted, or an expired one taken over. *)
Acquire(c) ==
  /\ pc[c] = "acquiring"
  /\ c \notin signalled
  /\ IsFree
  /\ \E tok \in Tokens :
       /\ token' = [token EXCEPT ![c] = tok]
       /\ lease' = Lease(tok, NextGeneration)
  /\ lastGeneration' = NextGeneration
  /\ generation' = [generation EXCEPT ![c] = NextGeneration]
  /\ pc' = [pc EXCEPT ![c] = "granted"]
  /\ UNCHANGED <<queue, deadline, timer, guardAborted, signalled, clock>>

Pause(left) == IF left >= MaxRetryMs THEN MaxRetryMs
               ELSE IF left >= MinRetryMs THEN left ELSE MinRetryMs

(* Bug: the loop goes on while the key is held. *)
NeverOutOfTime(c) == FALSE

OutOfTime(c) == clock >= deadline[c]

AcquireMissed(c) ==
  /\ pc[c] = "acquiring"
  /\ c \notin signalled
  /\ ~IsFree \/ "acquire" \in Faults
  /\ IF OutOfTime(c)
     THEN GiveUp(c, "timedOut")
     ELSE /\ pc' = [pc EXCEPT ![c] = "sleeping"]
          /\ timer' = [timer EXCEPT ![c] = Pause(deadline[c] - clock)]
          /\ UNCHANGED <<queue, deadline, guardAborted>>
  /\ UNCHANGED <<rows, grants, signalled, clock>>

(* Any error but SQLITE_BUSY leaves the loop. *)
AcquireThrows(c) ==
  /\ pc[c] = "acquiring"
  /\ c \notin signalled
  /\ "acquire" \in Faults
  /\ GiveUp(c, "failed")
  /\ UNCHANGED <<rows, grants, signalled, clock>>

Wake(c) ==
  /\ pc[c] = "sleeping"
  /\ timer[c] = 0
  /\ pc' = [pc EXCEPT ![c] = "acquiring"]
  /\ UNCHANGED <<rows, queue, deadline, timer, grants, guardAborted, signalled, clock>>

--------------------
(* The caller's work, under a guard. *)

(* Bug: only an abort that is still to come is forwarded. *)
NoAbortAtEntry(c) == {}

(* The guard is made a turn of the event loop after the lease: the abort
   that came in between is forwarded here, as no event will tell of it. *)
AbortedAtEntry(c) == IF c \in signalled THEN {c} ELSE {}

EnterWork(c) ==
  /\ pc[c] = "granted"
  /\ pc' = [pc EXCEPT ![c] = "working"]
  /\ guardAborted' = guardAborted \cup AbortedAtEntry(c)
  /\ timer' = [timer EXCEPT ![c] = RenewEveryMs]
  /\ UNCHANGED <<rows, queue, deadline, grants, signalled, clock>>

(* Bug: a renewal that found the lease lost is ignored. *)
RenewTimerSilent(c) ==
  /\ pc[c] = "working"
  /\ timer[c] = 0
  /\ timer' = [timer EXCEPT ![c] = RenewEveryMs]
  /\ lease' = IF c \notin guardAborted /\ Owns(c) THEN RenewedLease(c) ELSE lease
  /\ UNCHANGED <<guardAborted, lastGeneration, queue, pc, deadline, grants, signalled, clock>>

RenewTimer(c) ==
  /\ pc[c] = "working"
  /\ timer[c] = 0
  /\ timer' = [timer EXCEPT ![c] = RenewEveryMs]
  /\ IF c \notin guardAborted /\ Owns(c)
     THEN lease' = RenewedLease(c) /\ UNCHANGED guardAborted
     ELSE guardAborted' = guardAborted \cup {c} /\ UNCHANGED lease
  /\ UNCHANGED <<lastGeneration, queue, pc, deadline, grants, signalled, clock>>

(* guard.assertOwned, called by the work as often as it likes. *)
AssertOwned(c) ==
  /\ pc[c] = "working"
  /\ c \notin guardAborted
  /\ ~Owns(c)
  /\ guardAborted' = guardAborted \cup {c}
  /\ UNCHANGED <<rows, queue, pc, deadline, timer, grants, signalled, clock>>

(* The work's promise settles, either way, and the finally block runs. *)
EndWork(c) ==
  /\ pc[c] = "working"
  /\ lease' = LeaseAfterRelease(c)
  /\ Return(c, "done")
  /\ LeaveQueue(c)
  /\ UNCHANGED <<lastGeneration, grants, signalled, clock>>

(* #release throws in the finally block: releaseLocalQueue is not reached. *)
EndWorkReleaseThrows(c) ==
  /\ pc[c] = "working"
  /\ "release" \in Faults
  /\ Return(c, "failed")
  /\ UNCHANGED <<rows, queue, grants, signalled, clock>>

--------------------
(* What happens to a call from outside. *)

(* options.signal fires: a waiter is rejected, a guard is aborted. *)
Abort(c) ==
  /\ pc[c] \notin Ended
  /\ c \notin signalled
  /\ signalled' = signalled \cup {c}
  /\ IF pc[c] \in {"queued", "sleeping"}
     THEN GiveUp(c, "aborted")
     ELSE /\ guardAborted' = guardAborted \cup (IF pc[c] = "working" THEN {c} ELSE {})
          /\ UNCHANGED <<pc, queue, deadline, timer>>
  /\ UNCHANGED <<rows, grants, clock>>

(* The process dies with its queue and timers; the rows stay. A process
   that comes back makes its remaining calls. *)
InFlightIn(h) == {c \in Calls : HostOf[c] = h /\ pc[c] \in Active}

ForAll(C, f, v) == [c \in Calls |-> IF c \in C THEN v ELSE f[c]]

CrashOf(h) ==
  /\ pc' = ForAll(InFlightIn(h), pc, "crashed")
  /\ deadline' = ForAll(InFlightIn(h), deadline, 0)
  /\ timer' = ForAll(InFlightIn(h), timer, 0)
  /\ guardAborted' = guardAborted \ InFlightIn(h)
  /\ tail' = [tail EXCEPT ![h] = None]
  /\ UNCHANGED <<rows, ahead, freed, grants, signalled, clock>>

Crash(h) == InFlightIn(h) # {} /\ CrashOf(h)

(* #renew throws in the timer's callback, where nobody catches it. *)
RenewThrows(c) ==
  /\ pc[c] = "working"
  /\ timer[c] = 0
  /\ c \notin guardAborted
  /\ "renew" \in Faults
  /\ CrashOf(HostOf[c])

--------------------
(* Time. *)

Due(c) == \/ pc[c] \in {"acquiring", "granted"}
          \/ pc[c] \in {"queued", "sleeping", "working"} /\ timer[c] = 0

(* A punctual process does what is due before time goes on; another may
   stall for as long as it likes. *)
Tick ==
  /\ \A c \in Calls : HostOf[c] \in Punctual => ~Due(c)
  /\ clock < MaxClock \/ \E c \in Calls : pc[c] \in Active /\ timer[c] > 0
  /\ clock' = IF clock < MaxClock THEN clock + 1 ELSE clock
  /\ timer' = [c \in Calls |-> IF timer[c] > 0 THEN timer[c] - 1 ELSE 0]
  /\ UNCHANGED <<rows, queue, pc, deadline, grants, guardAborted, signalled>>

SetClock == /\ clock' \in ClockSettings \ {clock}
            /\ UNCHANGED <<rows, queue, pc, deadline, timer, grants, guardAborted, signalled>>

Step(c) == \/ TakeTurn(c) \/ QueueTimeout(c)
           \/ AcquireAborted(c) \/ Acquire(c) \/ AcquireMissed(c) \/ Wake(c)
           \/ EnterWork(c) \/ RenewTimer(c)

CallNext(c) == \/ Start(c) \/ Step(c) \/ AcquireThrows(c) \/ AssertOwned(c)
               \/ EndWork(c) \/ EndWorkReleaseThrows(c)
               \/ Abort(c) \/ RenewThrows(c)

(* No call is in flight; those still idle are never made. *)
AllEnded == (\A c \in Calls : pc[c] \in Ended \cup {"idle"}) /\ UNCHANGED vars

Next == \/ \E c \in Calls : CallNext(c)
        \/ \E h \in Hosts : Crash(h)
        \/ Tick \/ SetClock \/ AllEnded

Spec == Init /\ [][Next]_vars

(* The event loop of a live process gets to what is due, and time passes.
   Nothing makes a caller's work end. *)
Fairness == (\A c \in Calls : WF_vars(Step(c))) /\ WF_vars(Tick)

FairSpec == Spec /\ Fairness

--------------------
(* Properties. *)

LeaseRow == [owner : Tokens, gen : Nat, expires : Int]

(* The types of the rows, the queues and the calls of runExclusive. *)
TypeOK ==
  /\ lastGeneration \in Nat
  /\ lease \in LeaseRow \cup {NoLease}
  /\ tail \in [Hosts -> Calls \cup {None}]
  /\ ahead \in [Calls -> SUBSET Calls]
  /\ freed \subseteq Calls
  /\ pc \in [Calls -> {"idle"} \cup Active \cup Ended]
  /\ deadline \in [Calls -> Int]
  /\ timer \in [Calls -> Nat]
  /\ token \in [Calls -> Tokens \cup {None}]
  /\ generation \in [Calls -> Nat]
  /\ guardAborted \subseteq Calls
  /\ signalled \subseteq Calls
  /\ clock \in Nat

(* assertOwned succeeds for at most one call, whatever tokens the factory
   repeats and however the clock is set (#isOwned). *)
OneOwner == \A c, d \in Calls : Owns(c) /\ Owns(d) => c = d

(* A grant's fencing generation exceeds every one granted before, although
   release deletes the lease row it was read from (#nextGeneration). *)
FencingMonotone ==
  [][\A c, d \in Calls : generation'[c] # generation[c]
                           => generation'[c] > generation[d]]_vars

(* While a lease stands, only the call it was given to extends it or ends
   it: a stale owner's renewal or release never reaches its successor's
   row, and nobody takes over early (#tryAcquire, #renew, #release). *)
LiveLeaseIsItsOwners ==
  [][(lease # NoLease /\ lease.expires > clock /\ lease' # lease)
       => \E c \in Calls :
            /\ generation[c] = lease.gen
            /\ pc[c] = "working"
            /\ \/ lease' = NoLease /\ pc'[c] = "done"
               \/ lease' = RenewedLease(c) /\ pc'[c] = "working"]_vars

(* A lease that stands belongs to a call that is still under way, or whose
   process died or whose release failed: nobody waits on a call that has
   returned (the finally block of runExclusive). Holds while the wall
   clock is not set back. *)
NoLiveLeaseLeftBehind ==
  ~IsFree => \E c \in Calls : /\ generation[c] = lease.gen
                               /\ pc[c] \in {"granted", "working", "crashed", "failed"}

(* In a process that does not stall, work never outlives its lease: the
   renewal timer is in time, every time (renewEveryMs < leaseMs). Holds
   while the wall clock is not set forward. *)
PunctualOwnerKeepsLease ==
  \A c \in Calls : pc[c] = "working" /\ HostOf[c] \in Punctual /\ c \notin guardAborted
                     => Owns(c)

(* An abort reaches the work's guard whenever it comes, before the grant,
   between the grant and the guard, or after (the recheck at 242). *)
AbortReachesTheGuard ==
  \A c \in Calls : pc[c] = "working" /\ c \in signalled => c \in guardAborted

(* A call waits no longer than it said, though the owner works and renews
   for ever or died holding the key (the deadline of runExclusive). *)
WaitersGiveUp == \A c \in Calls : pc[c] \in Waiting ~> pc[c] \notin Waiting

(* Work that lost its lease is told through its guard, without calling
   assertOwned (the renewal timer). *)
LostOwnerIsTold ==
  \A c \in Calls : (pc[c] = "working" /\ ~Owns(c))
                     ~> (c \in guardAborted \/ pc[c] # "working" \/ Owns(c))

(* Calls of one process on one key go one at a time: no call is past the
   local queue while the work of an earlier one still runs there
   ("queues a second same-process owner until the first owner releases"). *)
OneAtATimeInAProcess ==
  \A c, d \in Calls :
    /\ c # d /\ HostOf[c] = HostOf[d]
    /\ pc[c] = "working"
    => pc[d] \notin {"granted", "working"}

(* The coordinator implements the lock it promises, while the wall clock
   is not set back: a lapsed lease would stand again. *)
Holder == IF lease = NoLease THEN None
          ELSE CHOOSE c \in Calls : generation[c] = lease.gen

Promise == INSTANCE FencedLock WITH
             Nobody <- None,
             holder <- Holder,
             lapsed <- lease # NoLease /\ lease.expires =< clock,
             fence <- lastGeneration,
             granted <- {c \in Calls : generation[c] # 0}

ImplementsFencedLock == Promise!Spec
===============================================================================
