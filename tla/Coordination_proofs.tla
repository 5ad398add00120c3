-------------------------- MODULE Coordination_proofs --------------------------
(***************************************************************************)
(* Proofs about SqliteCoordinator for any number of calls and processes,   *)
(* any lease and wait times, any repetition of owner tokens and any faults;*)
(* about the statement store, which runs each call under a lease of the    *)
(* coordinator and relies on its file where the lease was lost; and about  *)
(* the object stores, whose deletions leases keep from the puts.           *)
(***************************************************************************)
EXTENDS Coordination, Sequences, FiniteSetTheorems, TLAPS

CONSTANTS   \* of Statements, and what its records and rows hold
  Desks, Processes, Names, Missing, Attempts,
  RequestKeys, Statuses, Origins

VARIABLES   \* of Statements
  desk, log, held, worker, answers

CONSTANTS Depots, Accesses, ObjectKeys   \* of ObjectStores, with Missing

VARIABLES depot, objects, sidecars, access, witness   \* of ObjectStores

USE DEF Waiting, Active, Ended, NextGeneration, OutOfTime

LEMMA LeaseType ==
  ASSUME clock \in Nat, NEW tok \in Tokens, NEW gen \in Nat
  PROVE  /\ Lease(tok, gen) \in LeaseRow
         /\ Lease(tok, gen) # NoLease
  BY CallsAssumption, TimesAssumption DEF Lease, LeaseRow

LEMMA RenewedLeaseType ==
  ASSUME clock \in Nat, lease \in LeaseRow, NEW c \in Calls
  PROVE  /\ RenewedLease(c) \in LeaseRow
         /\ RenewedLease(c) # NoLease
         /\ RenewedLease(c).owner = lease.owner
         /\ RenewedLease(c).gen = lease.gen
         /\ RenewedLease(c).expires = clock + LeaseMs
  BY CallsAssumption, TimesAssumption DEF RenewedLease, LeaseRow

(* The types of the rows, queues and calls are preserved by every step. *)
THEOREM TypeCorrect == Spec => []TypeOK
<1>1. Init => TypeOK
  BY CallsAssumption DEF Init, TypeOK
<1>2. TypeOK /\ [Next]_vars => TypeOK'
  <2> SUFFICES ASSUME TypeOK, [Next]_vars PROVE TypeOK'
    OBVIOUS
  <2> USE CallsAssumption, TimesAssumption DEF TypeOK
  <2>1. ASSUME NEW c \in Calls, Start(c) PROVE TypeOK'
    BY <2>1 DEF Start, ChainAt, rows, grants
  <2>2. ASSUME NEW c \in Calls, TakeTurn(c) PROVE TypeOK'
    BY <2>2 DEF TakeTurn, rows, grants, queue
  <2>3. ASSUME NEW c \in Calls, QueueTimeout(c) PROVE TypeOK'
    BY <2>3 DEF QueueTimeout, GiveUp, Return, LeaveQueue, TailWithout, rows, grants
  <2>4. ASSUME NEW c \in Calls, AcquireAborted(c) PROVE TypeOK'
    BY <2>4 DEF AcquireAborted, GiveUp, Return, LeaveQueue, TailWithout, rows, grants
  <2>5. ASSUME NEW c \in Calls, Acquire(c) PROVE TypeOK'
    <3>1. PICK tok \in Tokens : /\ token' = [token EXCEPT ![c] = tok]
                                /\ lease' = Lease(tok, lastGeneration + 1)
      BY <2>5 DEF Acquire
    <3>2. lastGeneration + 1 \in Nat /\ lease' \in LeaseRow
      BY <3>1, LeaseType
    <3>3. QED
      BY <2>5, <3>1, <3>2 DEF Acquire, queue
  <2>6. ASSUME NEW c \in Calls, AcquireMissed(c) PROVE TypeOK'
    <3>1. Pause(deadline[c] - clock) \in Nat
      BY DEF Pause
    <3>2. CASE clock >= deadline[c]
      BY <2>6, <3>2 DEF AcquireMissed, GiveUp, Return, LeaveQueue, TailWithout, rows, grants
    <3>3. CASE ~(clock >= deadline[c])
      BY <2>6, <3>1, <3>3 DEF AcquireMissed, rows, grants, queue
    <3>4. QED BY <3>2, <3>3
  <2>7. ASSUME NEW c \in Calls, AcquireThrows(c) PROVE TypeOK'
    BY <2>7 DEF AcquireThrows, GiveUp, Return, LeaveQueue, TailWithout, rows, grants
  <2>8. ASSUME NEW c \in Calls, Wake(c) PROVE TypeOK'
    BY <2>8 DEF Wake, rows, grants, queue
  <2>9. ASSUME NEW c \in Calls, EnterWork(c) PROVE TypeOK'
    BY <2>9 DEF EnterWork, AbortedAtEntry, rows, grants, queue
  <2>10. ASSUME NEW c \in Calls, RenewTimer(c) PROVE TypeOK'
    BY <2>10, RenewedLeaseType DEF RenewTimer, Owns, LeaseRow, rows, grants, queue
  <2>11. ASSUME NEW c \in Calls, AssertOwned(c) PROVE TypeOK'
    BY <2>11 DEF AssertOwned, rows, grants, queue
  <2>12. ASSUME NEW c \in Calls, EndWork(c) PROVE TypeOK'
    BY <2>12 DEF EndWork, Return, LeaveQueue, TailWithout, LeaseAfterRelease, LeaseRow, grants
  <2>13. ASSUME NEW c \in Calls, EndWorkReleaseThrows(c) PROVE TypeOK'
    BY <2>13 DEF EndWorkReleaseThrows, Return, rows, queue, grants
  <2>14. ASSUME NEW c \in Calls, Abort(c) PROVE TypeOK'
    BY <2>14 DEF Abort, GiveUp, Return, LeaveQueue, TailWithout, rows, queue, grants
  <2>15. ASSUME NEW h \in Hosts, CrashOf(h) PROVE TypeOK'
    BY <2>15 DEF CrashOf, InFlightIn, ForAll, rows, grants
  <2>16. ASSUME NEW c \in Calls, RenewThrows(c) PROVE TypeOK'
    BY <2>15, <2>16 DEF RenewThrows
  <2>17. CASE Tick
    BY <2>17 DEF Tick, rows, queue, grants
  <2>18. CASE SetClock
    BY <2>18 DEF SetClock, rows, queue, grants
  <2>19. CASE UNCHANGED vars
    BY <2>19 DEF vars, rows, queue, grants
  <2>20. QED
    BY <2>1, <2>2, <2>3, <2>4, <2>5, <2>6, <2>7, <2>8, <2>9, <2>10, <2>11, <2>12,
       <2>13, <2>14, <2>15, <2>16, <2>17, <2>18, <2>19
       DEF Next, CallNext, Step, Crash, AllEnded
<1>3. QED
  BY <1>1, <1>2, PTL DEF Spec

--------------------
(* What a step may do to the two rows and to the grants already made. *)

LEMMA RowSteps ==
  ASSUME TypeOK, [Next]_vars
  PROVE  \/ \E c \in Calls : Acquire(c)
         \/ /\ UNCHANGED <<lastGeneration, token, generation>>
            /\ \/ UNCHANGED lease
               \/ \E c \in Calls :
                    /\ clock' = clock
                    /\ pc[c] = "working"
                    /\ Owns(c)
                    /\ \/ lease' = NoLease /\ pc'[c] = "done"
                       \/ lease' = RenewedLease(c) /\ pc'[c] = "working"
<1> USE DEF TypeOK
<1>1. ASSUME NEW c \in Calls, RenewTimer(c)
      PROVE  /\ UNCHANGED <<lastGeneration, token, generation>>
             /\ \/ UNCHANGED lease
                \/ /\ clock' = clock
                   /\ Owns(c) /\ pc[c] = "working" /\ lease' = RenewedLease(c) /\ pc'[c] = "working"
  BY <1>1 DEF RenewTimer, grants
<1>2. ASSUME NEW c \in Calls, EndWork(c)
      PROVE  /\ UNCHANGED <<lastGeneration, token, generation>>
             /\ \/ UNCHANGED lease
                \/ /\ clock' = clock
                   /\ Owns(c) /\ pc[c] = "working" /\ lease' = NoLease /\ pc'[c] = "done"
  BY <1>2 DEF EndWork, Return, LeaseAfterRelease, grants
<1>3. ASSUME NEW c \in Calls, CallNext(c), ~Acquire(c), ~RenewTimer(c), ~EndWork(c)
      PROVE  UNCHANGED <<lastGeneration, lease, token, generation>>
  BY <1>3 DEF CallNext, Step, Start, TakeTurn, QueueTimeout, AcquireAborted, AcquireMissed,
              AcquireThrows, Wake, EnterWork, AssertOwned, EndWorkReleaseThrows, Abort,
              RenewThrows, CrashOf, rows, grants
<1>4. ASSUME \/ \E h \in Hosts : Crash(h)
             \/ Tick \/ SetClock \/ UNCHANGED vars
      PROVE  UNCHANGED <<lastGeneration, lease, token, generation>>
  BY <1>4 DEF Crash, CrashOf, Tick, SetClock, vars, rows, grants
<1>5. QED
  BY <1>1, <1>2, <1>3, <1>4 DEF Next, CallNext, AllEnded

(* A call that is idle or waiting was idle or waiting a step earlier. *)
LEMMA WaitingSteps ==
  ASSUME TypeOK, [Next]_vars, NEW d \in Calls, pc'[d] \in {"idle"} \cup Waiting
  PROVE  pc[d] \in {"idle"} \cup Waiting
<1> USE DEF TypeOK
<1>1. ASSUME NEW c \in Calls, CallNext(c), ~RenewThrows(c) PROVE pc[d] \in {"idle"} \cup Waiting
  BY <1>1 DEF CallNext, Step, Start, TakeTurn, QueueTimeout, AcquireAborted, Acquire, AcquireMissed,
              AcquireThrows, Wake, EnterWork, RenewTimer, AssertOwned, EndWork, EndWorkReleaseThrows,
              Abort, GiveUp, Return
<1>2. ASSUME NEW h \in Hosts, CrashOf(h) PROVE pc[d] \in {"idle"} \cup Waiting
  BY <1>2 DEF CrashOf, ForAll, InFlightIn
<1>3. CASE Tick \/ SetClock \/ UNCHANGED vars
  BY <1>3 DEF Tick, SetClock, vars
<1>4. QED
  BY <1>1, <1>2, <1>3, CallsAssumption DEF Next, CallNext, RenewThrows, Crash, AllEnded

--------------------
(* The inductive invariant behind the fencing theorems. Generations are
   told apart by the counter alone: tokens may repeat. *)

FencingInv ==
  /\ \A c \in Calls : generation[c] =< lastGeneration
  /\ \A c, d \in Calls : c # d /\ generation[c] # 0 => generation[c] # generation[d]
  /\ \A c \in Calls : pc[c] \in {"idle"} \cup Waiting => generation[c] = 0
  /\ lease # NoLease => \E c \in Calls : /\ generation[c] = lease.gen
                                         /\ token[c] = lease.owner
                                         /\ lease.gen # 0

LEMMA FencingInit == Init => FencingInv
  BY DEF Init, FencingInv

LEMMA FencingStep == TypeOK /\ TypeOK' /\ FencingInv /\ [Next]_vars => FencingInv'
<1> SUFFICES ASSUME TypeOK, TypeOK', FencingInv, [Next]_vars PROVE FencingInv'
  OBVIOUS
<1>1. CASE \E c \in Calls : Acquire(c)
  <2>1. PICK c \in Calls : Acquire(c)
    BY <1>1
  <2>2. PICK tok \in Tokens : /\ token' = [token EXCEPT ![c] = tok]
                             /\ lease' = Lease(tok, lastGeneration + 1)
    BY <2>1 DEF Acquire
  <2>3. /\ lastGeneration' = lastGeneration + 1
        /\ generation' = [generation EXCEPT ![c] = lastGeneration + 1]
        /\ pc' = [pc EXCEPT ![c] = "granted"]
    BY <2>1 DEF Acquire
  <2>4. lease'.gen = generation'[c] /\ lease'.owner = token'[c] /\ lease'.gen # 0
    BY <2>2, <2>3 DEF Lease, TypeOK
  <2>5. \A d \in Calls : generation'[d] =< lastGeneration'
    BY <2>3 DEF FencingInv, TypeOK
  <2>6. \A d, e \in Calls : d # e /\ generation'[d] # 0 => generation'[d] # generation'[e]
    BY <2>3 DEF FencingInv, TypeOK
  <2>7. \A d \in Calls : pc'[d] \in {"idle"} \cup Waiting => generation'[d] = 0
    BY <2>3 DEF FencingInv, TypeOK
  <2>8. QED
    BY <2>4, <2>5, <2>6, <2>7 DEF FencingInv
<1>2. CASE /\ UNCHANGED <<lastGeneration, token, generation>>
           /\ \/ UNCHANGED lease
              \/ \E c \in Calls :
                   /\ clock' = clock
                   /\ pc[c] = "working"
                   /\ Owns(c)
                   /\ \/ lease' = NoLease /\ pc'[c] = "done"
                      \/ lease' = RenewedLease(c) /\ pc'[c] = "working"
  <2>1. \A d \in Calls : pc'[d] \in {"idle"} \cup Waiting => generation'[d] = 0
    BY <1>2, WaitingSteps DEF FencingInv
  <2>2. lease' # NoLease => lease # NoLease /\ lease'.gen = lease.gen /\ lease'.owner = lease.owner
    BY <1>2, RenewedLeaseType DEF Owns, TypeOK
  <2>3. QED
    BY <1>2, <2>1, <2>2 DEF FencingInv
<1>3. QED
  BY <1>1, <1>2, RowSteps

LEMMA FencingHolds == Spec => []FencingInv
<1>1. TypeOK /\ TypeOK' /\ FencingInv /\ [Next]_vars => FencingInv'
  BY FencingStep
<1>2. QED
  BY <1>1, FencingInit, TypeCorrect, PTL DEF Spec

(* assertOwned can succeed for at most one call at a time. *)
THEOREM OneOwnerHolds == Spec => []OneOwner
<1>1. FencingInv => OneOwner
  BY DEF FencingInv, OneOwner, Owns
<1>2. QED
  BY <1>1, FencingHolds, PTL

(* Every grant's fencing generation exceeds all earlier ones. *)
THEOREM FencingMonotoneHolds == Spec => FencingMonotone
<1>1. TypeOK /\ FencingInv /\ [Next]_vars =>
        [\A c, d \in Calls : generation'[c] # generation[c] => generation'[c] > generation[d]]_vars
  <2> SUFFICES ASSUME TypeOK, FencingInv, [Next]_vars, NEW c \in Calls, NEW d \in Calls,
                      generation'[c] # generation[c]
               PROVE  generation'[c] > generation[d]
    OBVIOUS
  <2>1. PICK e \in Calls : Acquire(e)
    BY RowSteps
  <2>2. generation' = [generation EXCEPT ![e] = lastGeneration + 1]
    BY <2>1 DEF Acquire
  <2>3. QED
    BY <2>2 DEF FencingInv, TypeOK
<1>2. QED
  BY <1>1, TypeCorrect, FencingHolds, PTL DEF Spec, FencingMonotone

(* A lease that stands is changed by its own call only. *)
THEOREM LiveLeaseIsItsOwnersHolds == Spec => LiveLeaseIsItsOwners
<1>1. TypeOK /\ [Next]_vars =>
        [(lease # NoLease /\ lease.expires > clock /\ lease' # lease)
           => \E c \in Calls :
                /\ generation[c] = lease.gen
                /\ pc[c] = "working"
                /\ \/ lease' = NoLease /\ pc'[c] = "done"
                   \/ lease' = RenewedLease(c) /\ pc'[c] = "working"]_vars
  <2> SUFFICES ASSUME TypeOK, [Next]_vars, lease # NoLease, lease.expires > clock, lease' # lease
               PROVE  \E c \in Calls :
                        /\ generation[c] = lease.gen
                        /\ pc[c] = "working"
                        /\ \/ lease' = NoLease /\ pc'[c] = "done"
                           \/ lease' = RenewedLease(c) /\ pc'[c] = "working"
    OBVIOUS
  <2>1. ~\E c \in Calls : Acquire(c)
    BY DEF Acquire, IsFree, TypeOK, LeaseRow
  <2>2. QED
    BY <2>1, RowSteps DEF Owns
<1>2. QED
  BY <1>1, TypeCorrect, PTL DEF Spec, LiveLeaseIsItsOwners

--------------------
(* The steps of one call, or of a process, as another call sees them. *)

LEMMA StepsOfOthers ==
  ASSUME TypeOK, NEW c \in Calls, NEW d \in Calls, c # d, CallNext(d)
  PROVE  /\ clock' = clock
         /\ \/ pc'[c] = "crashed"
            \/ /\ pc'[c] = pc[c]
               /\ timer'[c] = timer[c]
               /\ c \in guardAborted' <=> c \in guardAborted
<1> USE DEF TypeOK
<1>1. CASE RenewThrows(d)
  BY <1>1 DEF RenewThrows, CrashOf, ForAll, InFlightIn
<1>2. CASE ~RenewThrows(d)
  BY <1>2 DEF CallNext, Step, Start, TakeTurn, QueueTimeout, AcquireAborted, Acquire, AcquireMissed,
              AcquireThrows, Wake, EnterWork, AbortedAtEntry, RenewTimer, AssertOwned, EndWork,
              EndWorkReleaseThrows, Abort, GiveUp, Return
<1>3. QED
  BY <1>1, <1>2

LEMMA CrashSteps ==
  ASSUME TypeOK, NEW c \in Calls, NEW h \in Hosts, CrashOf(h)
  PROVE  /\ UNCHANGED <<clock, lease, generation, token>>
         /\ \/ pc'[c] = "crashed"
            \/ /\ pc'[c] = pc[c]
               /\ timer'[c] = timer[c]
               /\ c \in guardAborted' <=> c \in guardAborted
  BY DEF CrashOf, ForAll, InFlightIn, TypeOK, rows, grants

LEMMA LeaseStepsOfOthers ==
  ASSUME TypeOK, FencingInv, NEW c \in Calls, NEW d \in Calls, c # d, CallNext(d), Owns(c)
  PROVE  UNCHANGED lease /\ generation'[c] = generation[c] /\ token'[c] = token[c]
<1> USE DEF TypeOK
<1>1. ~Owns(d)
  BY DEF Owns, FencingInv
<1>2. ~Acquire(d)
  BY DEF Acquire, IsFree, Owns, LeaseRow
<1>3. QED
  BY <1>1, <1>2 DEF CallNext, Step, Start, TakeTurn, QueueTimeout, AcquireAborted, AcquireMissed,
              AcquireThrows, Wake, EnterWork, RenewTimer, AssertOwned, EndWork, LeaseAfterRelease,
              EndWorkReleaseThrows, Abort, RenewThrows, CrashOf, rows, grants

(* The renewal timer keeps ahead of the expiry by the difference between
   the lease and the renewal interval. *)

InTime(c) ==
  /\ pc[c] = "granted" => Owns(c) /\ lease.expires = clock + LeaseMs
  /\ pc[c] = "working" /\ c \notin guardAborted =>
       /\ Owns(c)
       /\ timer[c] =< RenewEveryMs
       /\ lease.expires >= clock + timer[c] + (LeaseMs - RenewEveryMs)

PunctualInv == \A c \in Calls : HostOf[c] \in Punctual => InTime(c)

LEMMA InTimeOwnStep ==
  ASSUME TypeOK, TypeOK', FencingInv, NEW c \in Calls, InTime(c), CallNext(c)
  PROVE  InTime(c)'
<1> USE CallsAssumption, TimesAssumption DEF TypeOK
<1>1. CASE Acquire(c)
  <2>1. PICK tok \in Tokens : /\ token' = [token EXCEPT ![c] = tok]
                             /\ lease' = Lease(tok, lastGeneration + 1)
    BY <1>1 DEF Acquire
  <2>2. Owns(c)' /\ lease'.expires = clock' + LeaseMs
    BY <1>1, <2>1, LeaseType DEF Acquire, Owns, Lease
  <2>3. QED
    BY <1>1, <2>2 DEF Acquire, InTime
<1>2. CASE EnterWork(c)
  BY <1>2 DEF EnterWork, InTime, Owns, LeaseRow, rows, grants
<1>3. CASE RenewTimer(c)
  <2>1. CASE c \notin guardAborted /\ Owns(c)
    <3>1. lease \in LeaseRow /\ lease' = RenewedLease(c)
      BY <1>3, <2>1 DEF RenewTimer, Owns
    <3>2. /\ lease' # NoLease /\ lease'.owner = lease.owner /\ lease'.gen = lease.gen
          /\ lease'.expires = clock + LeaseMs
      BY <3>1, RenewedLeaseType
    <3>3. /\ token'[c] = token[c] /\ generation'[c] = generation[c] /\ clock' = clock
          /\ timer'[c] = RenewEveryMs /\ pc'[c] = "working"
      BY <1>3 DEF RenewTimer, grants
    <3>4. QED
      BY <2>1, <3>2, <3>3 DEF InTime, Owns
  <2>2. CASE ~(c \notin guardAborted /\ Owns(c))
    BY <1>3, <2>2 DEF RenewTimer, InTime
  <2>3. QED BY <2>1, <2>2
<1>4. CASE Abort(c)
  BY <1>4 DEF Abort, GiveUp, Return, InTime, Owns, rows, grants
<1>5. CASE AssertOwned(c)
  BY <1>5 DEF AssertOwned, InTime
<1>6. CASE RenewThrows(c)
  BY <1>6 DEF RenewThrows, CrashOf, ForAll, InFlightIn, InTime
<1>7. CASE EndWork(c) \/ EndWorkReleaseThrows(c) \/ Start(c) \/ TakeTurn(c) \/ QueueTimeout(c)
           \/ AcquireAborted(c) \/ AcquireMissed(c) \/ AcquireThrows(c) \/ Wake(c)
  <2>1. pc'[c] \notin {"granted", "working"}
    BY <1>7 DEF EndWork, EndWorkReleaseThrows, Start, TakeTurn, QueueTimeout, AcquireAborted,
                AcquireMissed, AcquireThrows, Wake, GiveUp, Return
  <2>2. QED
    BY <2>1 DEF InTime
<1>8. QED
  BY <1>1, <1>2, <1>3, <1>4, <1>5, <1>6, <1>7 DEF CallNext, Step

LEMMA InTimeTick ==
  ASSUME TypeOK, NEW c \in Calls, HostOf[c] \in Punctual, InTime(c), Tick
  PROVE  InTime(c)'
<1> USE TimesAssumption DEF TypeOK
<1>1. ~Due(c)
  BY DEF Tick
<1>2. pc'[c] = pc[c] /\ pc[c] # "granted"
  BY <1>1 DEF Tick, Due
<1>3. CASE pc[c] = "working" /\ c \notin guardAborted
  <2>1. timer[c] > 0 /\ timer'[c] = timer[c] - 1 /\ clock' =< clock + 1 /\ clock' \in Nat
    BY <1>1, <1>3 DEF Due, Tick
  <2>2. Owns(c) /\ lease \in LeaseRow /\ timer[c] =< RenewEveryMs
        /\ lease.expires >= clock + timer[c] + (LeaseMs - RenewEveryMs)
    BY <1>3 DEF InTime, Owns
  <2>3. lease'.expires >= clock' + timer'[c] + (LeaseMs - RenewEveryMs) /\ timer'[c] =< RenewEveryMs
    BY <2>1, <2>2 DEF Tick, rows, LeaseRow
  <2>4. lease'.expires > clock'
    BY <2>1, <2>2, <2>3 DEF Tick, rows, LeaseRow
  <2>5. QED
    BY <1>2, <2>2, <2>3, <2>4 DEF InTime, Owns, Tick, rows, grants
<1>4. QED
  BY <1>2, <1>3 DEF InTime, Tick

LEMMA PunctualStep ==
  ASSUME ClockSettings = {}, TypeOK, TypeOK', FencingInv, PunctualInv, [Next]_vars
  PROVE  PunctualInv'
<1> SUFFICES ASSUME NEW c \in Calls, HostOf[c] \in Punctual, InTime(c) PROVE InTime(c)'
  BY DEF PunctualInv
<1>1. CASE CallNext(c)
  BY <1>1, InTimeOwnStep
<1>2. ASSUME NEW d \in Calls, d # c, CallNext(d) PROVE InTime(c)'
  <2>1. /\ clock' = clock
        /\ \/ pc'[c] = "crashed"
           \/ /\ pc'[c] = pc[c]
              /\ timer'[c] = timer[c]
              /\ c \in guardAborted' <=> c \in guardAborted
    BY <1>2, StepsOfOthers
  <2>2. Owns(c) => UNCHANGED lease /\ generation'[c] = generation[c] /\ token'[c] = token[c]
    BY <1>2, LeaseStepsOfOthers
  <2>3. QED
    BY <2>1, <2>2 DEF InTime, Owns
<1>3. ASSUME NEW h \in Hosts, CrashOf(h) PROVE InTime(c)'
  BY <1>3, CrashSteps DEF InTime, Owns
<1>4. CASE Tick
  BY <1>4, InTimeTick
<1>5. CASE UNCHANGED vars
  BY <1>5 DEF vars, rows, grants, InTime, Owns
<1>6. ~SetClock
  BY DEF SetClock
<1>7. QED
  BY <1>1, <1>2, <1>3, <1>4, <1>5, <1>6 DEF Next, Crash, AllEnded

(* In a process that does not stall, work never outlives its lease, as
   long as nobody sets the clock. *)
THEOREM PunctualOwnerKeepsLeaseHolds ==
  ASSUME ClockSettings = {} PROVE Spec => []PunctualOwnerKeepsLease
<1>1. Init => PunctualInv
  BY DEF Init, PunctualInv, InTime
<1>2. TypeOK /\ TypeOK' /\ FencingInv /\ PunctualInv /\ [Next]_vars => PunctualInv'
  BY PunctualStep
<1>3. PunctualInv => PunctualOwnerKeepsLease
  BY DEF PunctualInv, InTime, PunctualOwnerKeepsLease
<1>4. QED
  BY <1>1, <1>2, <1>3, TypeCorrect, FencingHolds, PTL DEF Spec

--------------------
(* The coordinator implements FencedLock. *)

LEMMA ClockGoesOn ==
  ASSUME ClockSettings = {}, TypeOK, [Next]_vars PROVE clock' >= clock
<1>1. ASSUME NEW c \in Calls, CallNext(c) PROVE clock' = clock
  BY <1>1 DEF CallNext, Step, Start, TakeTurn, QueueTimeout, AcquireAborted, Acquire, AcquireMissed,
              AcquireThrows, Wake, EnterWork, RenewTimer, AssertOwned, EndWork, EndWorkReleaseThrows,
              Abort, RenewThrows, CrashOf
<1>2. ~SetClock
  BY DEF SetClock
<1>3. QED
  BY <1>1, <1>2 DEF Next, Crash, CrashOf, Tick, AllEnded, vars, TypeOK

LEMMA HolderIs ==
  ASSUME FencingInv, lease # NoLease, NEW c \in Calls, generation[c] = lease.gen
  PROVE  Holder = c
<1>1. \A d \in Calls : generation[d] = lease.gen => d = c
  BY DEF FencingInv
<1>2. QED
  BY <1>1 DEF Holder

LEMMA AcquireGrants ==
  ASSUME TypeOK, FencingInv, FencingInv', NEW c \in Calls, Acquire(c)
  PROVE  Promise!Grant(c)
<1> USE DEF TypeOK
<1>1. PICK tok \in Tokens : lease' = Lease(tok, lastGeneration + 1)
  BY DEF Acquire
<1>2. lease' # NoLease /\ lease'.gen = lastGeneration + 1 /\ lease'.expires = clock + LeaseMs
  BY <1>1, LeaseType DEF Lease
<1>3. /\ lastGeneration' = lastGeneration + 1 /\ clock' = clock
      /\ generation' = [generation EXCEPT ![c] = lastGeneration + 1]
      /\ pc[c] = "acquiring" /\ IsFree
  BY DEF Acquire
<1>4. Holder' = c
  <2>1. \A d \in Calls : generation'[d] = lease'.gen => d = c
    BY <1>2, <1>3 DEF FencingInv
  <2>2. generation'[c] = lease'.gen
    BY <1>2, <1>3
  <2>3. QED
    BY <1>2, <2>1, <2>2 DEF Holder
<1>5. Holder = None \/ (lease # NoLease /\ lease.expires =< clock)
  BY <1>3 DEF IsFree, Holder
<1>6. ~(lease' # NoLease /\ lease'.expires =< clock')
  BY <1>2, <1>3, TimesAssumption
<1>7. generation[c] = 0
  BY <1>3 DEF FencingInv
<1>8. {d \in Calls : generation'[d] # 0} = {d \in Calls : generation[d] # 0} \cup {c}
  BY <1>3
<1>9. QED
  BY <1>3, <1>4, <1>5, <1>6, <1>7, <1>8 DEF Promise!Grant

LEMMA HolderIsACall ==
  ASSUME FencingInv, lease # NoLease PROVE Holder \in Calls /\ Holder # None
  BY HolderIs, CallsAssumption DEF FencingInv

LEMMA PromiseStep ==
  ASSUME ClockSettings = {}, TypeOK, TypeOK', FencingInv, FencingInv', [Next]_vars
  PROVE  [Promise!Next]_(Promise!vars)
<1> USE TimesAssumption DEF TypeOK
<1>1. ASSUME NEW c \in Calls, Acquire(c) PROVE Promise!Next
  BY <1>1, AcquireGrants DEF Promise!Next
<1>2. ASSUME UNCHANGED <<lastGeneration, token, generation, lease>>
      PROVE  [Promise!Next]_(Promise!vars)
  <2>1. Holder' = Holder
    BY <1>2 DEF Holder
  <2>2. {c \in Calls : generation'[c] # 0} = {c \in Calls : generation[c] # 0}
    BY <1>2
  <2>3. CASE lease = NoLease
    BY <1>2, <2>1, <2>2, <2>3 DEF Promise!vars
  <2>4. CASE lease # NoLease /\ (lease'.expires =< clock' <=> lease.expires =< clock)
    BY <1>2, <2>1, <2>2, <2>4 DEF Promise!vars
  <2>5. CASE lease # NoLease /\ ~(lease'.expires =< clock' <=> lease.expires =< clock)
    <3>1. lease'.expires =< clock' /\ lease' # NoLease
      BY <1>2, <2>5, ClockGoesOn DEF LeaseRow
    <3>2. Holder # None
      BY <2>5, HolderIsACall
    <3>3. Promise!Lapse
      BY <1>2, <2>1, <2>2, <3>1, <3>2 DEF Promise!Lapse
    <3>4. QED BY <3>3 DEF Promise!Next
  <2>6. QED BY <2>3, <2>4, <2>5
<1>3. ASSUME UNCHANGED <<lastGeneration, token, generation>>, clock' = clock,
             NEW c \in Calls, Owns(c), lease' = NoLease
      PROVE  Promise!Next
  <2>1. Holder # None /\ Holder' = None
    BY <1>3, HolderIsACall DEF Owns, Holder
  <2>2. ~(lease # NoLease /\ lease.expires =< clock)
    BY <1>3 DEF Owns, LeaseRow
  <2>3. Promise!GiveBack
    BY <1>3, <2>1, <2>2 DEF Promise!GiveBack
  <2>4. QED BY <2>3 DEF Promise!Next
<1>4. ASSUME UNCHANGED <<lastGeneration, token, generation>>, clock' = clock,
             NEW c \in Calls, Owns(c), lease' = RenewedLease(c)
      PROVE  UNCHANGED Promise!vars
  <2>1. /\ lease # NoLease /\ lease' # NoLease /\ lease'.gen = lease.gen
        /\ lease'.expires = clock + LeaseMs
    BY <1>4, RenewedLeaseType DEF Owns
  <2>2. Holder' = Holder
    BY <1>4, <2>1 DEF Holder
  <2>3. ~(lease.expires =< clock) /\ ~(lease'.expires =< clock')
    BY <1>4, <2>1 DEF Owns, LeaseRow
  <2>4. QED
    BY <1>4, <2>1, <2>2, <2>3 DEF Promise!vars
<1>5. QED
  BY <1>1, <1>2, <1>3, <1>4, RowSteps

(* While nobody sets the clock, every step of every coordinator is a step
   of the fenced lock or a stutter. *)
THEOREM CoordinationImplementsFencedLock ==
  ASSUME ClockSettings = {} PROVE Spec => ImplementsFencedLock
<1>1. Init => Promise!Init
  <2>1. Init => Holder = None /\ lease = NoLease
    BY DEF Init, Holder
  <2>2. Init => lastGeneration = 0 /\ {c \in Calls : generation[c] # 0} = {}
    BY DEF Init
  <2>3. QED
    BY <2>1, <2>2 DEF Promise!Init
<1>2. TypeOK /\ TypeOK' /\ FencingInv /\ FencingInv' /\ [Next]_vars => [Promise!Next]_(Promise!vars)
  BY PromiseStep
<1>3. QED
  BY <1>1, <1>2, TypeCorrect, FencingHolds, PTL DEF Spec, ImplementsFencedLock, Promise!Spec
--------------------
(* An abort reaches the guard of the work it is meant for, in whichever
   order the grant, the guard's creation and the signal come. *)
THEOREM AbortReachesTheGuardHolds == Spec => []AbortReachesTheGuard
<1>1. Init => AbortReachesTheGuard
  BY DEF Init, AbortReachesTheGuard
<1>2. TypeOK /\ AbortReachesTheGuard /\ [Next]_vars => AbortReachesTheGuard'
  <2> SUFFICES ASSUME TypeOK, AbortReachesTheGuard, [Next]_vars,
                      NEW c \in Calls, pc'[c] = "working", c \in signalled'
               PROVE  c \in guardAborted'
    BY DEF AbortReachesTheGuard
  <2> USE DEF TypeOK
  <2>1. CASE EnterWork(c)
    BY <2>1 DEF EnterWork, AbortedAtEntry
  <2>2. CASE Abort(c)
    BY <2>2 DEF Abort, GiveUp, Return
  <2>3. CASE RenewTimer(c) \/ AssertOwned(c)
    BY <2>3 DEF RenewTimer, AssertOwned, AbortReachesTheGuard
  <2>4. CASE RenewThrows(c)
    BY <2>4 DEF RenewThrows, CrashOf, ForAll, InFlightIn
  <2>5. CASE \/ Start(c) \/ TakeTurn(c) \/ QueueTimeout(c) \/ AcquireAborted(c) \/ Acquire(c)
             \/ AcquireMissed(c) \/ AcquireThrows(c) \/ Wake(c) \/ EndWork(c)
             \/ EndWorkReleaseThrows(c)
    BY <2>5 DEF Start, TakeTurn, QueueTimeout, AcquireAborted, Acquire, AcquireMissed,
                AcquireThrows, Wake, EndWork, EndWorkReleaseThrows, GiveUp, Return
  <2>6. ASSUME NEW d \in Calls, d # c, CallNext(d) PROVE c \in guardAborted'
    <3>1. pc'[c] = pc[c] /\ (c \in guardAborted' <=> c \in guardAborted)
      BY <2>6, StepsOfOthers
    <3>2. c \in signalled
      BY <2>6 DEF CallNext, Step, Start, TakeTurn, QueueTimeout, AcquireAborted, Acquire,
                  AcquireMissed, AcquireThrows, Wake, EnterWork, RenewTimer, AssertOwned, EndWork,
                  EndWorkReleaseThrows, Abort, RenewThrows, CrashOf
    <3>3. QED
      BY <3>1, <3>2 DEF AbortReachesTheGuard
  <2>7. ASSUME NEW h \in Hosts, CrashOf(h) PROVE c \in guardAborted'
    BY <2>7, CrashSteps DEF CrashOf, AbortReachesTheGuard
  <2>8. CASE Tick \/ SetClock \/ UNCHANGED vars
    BY <2>8 DEF Tick, SetClock, vars, AbortReachesTheGuard
  <2>9. QED
    BY <2>1, <2>2, <2>3, <2>4, <2>5, <2>6, <2>7, <2>8 DEF Next, CallNext, Step, Crash, AllEnded
<1>3. QED
  BY <1>1, <1>2, TypeCorrect, PTL DEF Spec

--------------------
(* A call that holds the lease lets go of it before it returns. *)

KeepsLease == {"granted", "working", "crashed", "failed"}

LEMMA KeepsLeaseSteps ==
  ASSUME TypeOK, [Next]_vars, NEW c \in Calls, pc[c] \in KeepsLease
  PROVE  pc'[c] \in KeepsLease \/ EndWork(c)
<1> USE DEF TypeOK, KeepsLease
<1>1. CASE CallNext(c) /\ ~RenewThrows(c)
  BY <1>1 DEF CallNext, Step, Start, TakeTurn, QueueTimeout, AcquireAborted, Acquire, AcquireMissed,
              AcquireThrows, Wake, EnterWork, RenewTimer, AssertOwned, EndWorkReleaseThrows, Abort,
              Return
<1>2. ASSUME NEW d \in Calls, d # c, CallNext(d) PROVE pc'[c] \in KeepsLease
  BY <1>2, StepsOfOthers
<1>3. ASSUME NEW h \in Hosts, CrashOf(h) PROVE pc'[c] \in KeepsLease
  BY <1>3, CrashSteps
<1>4. CASE Tick \/ SetClock \/ UNCHANGED vars
  BY <1>4 DEF Tick, SetClock, vars
<1>5. QED
  BY <1>1, <1>2, <1>3, <1>4, CallsAssumption DEF Next, CallNext, RenewThrows, Crash, AllEnded

(* The call a lease was given to owns it while it stands. *)
LEMMA GranteeOwns ==
  ASSUME TypeOK, FencingInv, ~IsFree, NEW c \in Calls, generation[c] = lease.gen
  PROVE  Owns(c)
<1>1. PICK d \in Calls : generation[d] = lease.gen /\ token[d] = lease.owner /\ lease.gen # 0
  BY DEF FencingInv, IsFree
<1>2. c = d
  BY <1>1 DEF FencingInv
<1>3. QED
  BY <1>1, <1>2 DEF Owns, IsFree, TypeOK, LeaseRow

(* While nobody sets the clock, a lease that stands belongs to a call that
   is under way, or whose process died or whose release failed. *)
THEOREM NoLiveLeaseLeftBehindHolds ==
  ASSUME ClockSettings = {} PROVE Spec => []NoLiveLeaseLeftBehind
<1>1. Init => NoLiveLeaseLeftBehind
  BY DEF Init, NoLiveLeaseLeftBehind, IsFree
<1>2. TypeOK /\ TypeOK' /\ FencingInv /\ NoLiveLeaseLeftBehind /\ [Next]_vars
        => NoLiveLeaseLeftBehind'
  <2> SUFFICES ASSUME TypeOK, TypeOK', FencingInv, NoLiveLeaseLeftBehind, [Next]_vars, (~IsFree)'
               PROVE  \E c \in Calls : generation'[c] = lease'.gen /\ pc'[c] \in KeepsLease
    BY DEF NoLiveLeaseLeftBehind, KeepsLease
  <2>1. ASSUME NEW c \in Calls, Acquire(c)
        PROVE  generation'[c] = lease'.gen /\ pc'[c] \in KeepsLease
    BY <2>1 DEF Acquire, Lease, TypeOK, KeepsLease
  <2>2. CASE UNCHANGED <<lastGeneration, token, generation, lease>>
    <3>1. ~IsFree
      BY <2>2, ClockGoesOn DEF IsFree, TypeOK, LeaseRow
    <3>2. PICK c \in Calls : generation[c] = lease.gen /\ pc[c] \in KeepsLease
      BY <3>1 DEF NoLiveLeaseLeftBehind, KeepsLease
    <3>3. ~EndWork(c)
      <4>1. Owns(c)
        BY <3>1, <3>2, GranteeOwns
      <4>2. lease' # NoLease
        BY <2>2, <3>1 DEF IsFree
      <4>3. QED
        BY <4>1, <4>2 DEF EndWork, LeaseAfterRelease
    <3>4. QED
      BY <2>2, <3>2, <3>3, KeepsLeaseSteps
  <2>3. ASSUME NEW c \in Calls, UNCHANGED <<lastGeneration, token, generation>>, Owns(c),
               lease' = RenewedLease(c), pc'[c] = "working"
        PROVE  generation'[c] = lease'.gen /\ pc'[c] \in KeepsLease
    BY <2>3, RenewedLeaseType DEF Owns, TypeOK, KeepsLease
  <2>4. lease' # NoLease
    BY DEF IsFree
  <2>5. QED
    BY <2>1, <2>2, <2>3, <2>4, RowSteps
<1>3. QED
  BY <1>1, <1>2, TypeCorrect, FencingHolds, PTL DEF Spec

--------------------
(* The statement store *)

Stm == INSTANCE Statements WITH Setups <- Desks, setup <- desk, lease <- held

(* What requests, records and rows of the log may hold. *)
Requests ==
  [kind : {"admit", "revise", "retract", "backfill"}, statement : Names, key : RequestKeys,
   expected : Nat, status : Statuses, origin : Origins, successor : BOOLEAN, sound : BOOLEAN]

Records ==
  [statement : Names, revision : Nat, status : Statuses, origin : Origins, successor : BOOLEAN]

ResultCodes ==
  {"committed", "idempotency-conflict", "store-refused", "revision-conflict", "authority-refused",
   "thrown", "lost", "busy"}

Obstacles == {"terminal-head", "head-exists", "missing-head", "expected-revision-mismatch"}

Reasons ==
  Obstacles \cup {"idempotency-conflict", "superseded-requires-reference", "refuse", Missing}

Results == [code : ResultCodes, reason : Reasons, revision : Nat, status : Statuses]

Rows ==
  [key : RequestKeys, kind : {"admit", "revise", "retract"},
   print : [of : Requests, keys : {"by code point", "by locale"}], result : Results]

Backfills == UNION {[D -> Statuses] : D \in SUBSET RequestKeys}

LogStates ==
  [revisions : SUBSET Records, heads : [Names -> Nat], receipts : SUBSET Rows,
   conflicts : SUBSET Rows, backfills : Backfills]

(* Rows name the request they are of, and a request finds one answer. *)
Answered(b) ==
  /\ \A c \in b.receipts \cup b.conflicts : c.key = c.print.of.key /\ c.kind = c.print.of.kind
  /\ \A c, d \in b.receipts : c.key = d.key /\ c.kind = d.kind => c = d
  /\ \A c, d \in b.conflicts : c.print.of = d.print.of => c = d
  /\ \A c \in b.conflicts :
       \E d \in b.receipts : c.key = d.key /\ c.kind = d.kind /\ c.print.of # d.print.of

HistoryIn(b, s) == {record \in b.revisions : record.statement = s}

(* Every revision up to the head is there once, and a terminal one is last. *)
Whole(b) ==
  /\ \A x, y \in b.revisions : x.statement = y.statement /\ x.revision = y.revision => x = y
  /\ \A x \in b.revisions : x.revision \in 1 .. b.heads[x.statement]
  /\ \A s \in Names : \A n \in 1 .. b.heads[s] : \E x \in HistoryIn(b, s) : x.revision = n
  /\ \A s \in Names : IsFiniteSet(HistoryIn(b, s)) /\ Cardinality(HistoryIn(b, s)) = b.heads[s]
  /\ \A x \in b.revisions : Stm!IsTerminal(x.status) => x.revision = b.heads[x.statement]
  /\ \A x \in b.revisions : x.origin = "model" => x.status \in {"proposed", "retracted"}

(* Every revision is the commit of one receipt, and every commit made one. *)
Receipted(b) ==
  /\ \A x \in b.revisions : \E c \in b.receipts : Stm!IsCommitOf(c, x)
  /\ \A x \in b.revisions : \A c, d \in b.receipts : Stm!IsCommitOf(c, x) /\ Stm!IsCommitOf(d, x) => c = d
  /\ \A c \in b.receipts : c.result.code = "committed" =>
       /\ \E x \in b.revisions : Stm!IsCommitOf(c, x) /\ x.status = c.result.status
       /\ c.kind # "admit" => c.result.revision = c.print.of.expected + 1

SoundLog(b) == b \in LogStates /\ Answered(b) /\ Whole(b) /\ Receipted(b)

(* What is asked of the setups: calls on statements that there are, and a
   file as processes of this or an earlier release leave it. *)
StatementsWellFormed ==
  /\ {"proposed", "retracted", Missing} \subseteq Statuses
  /\ Missing \notin Obstacles \cup Records
  /\ \A s \in Desks : /\ s.work \in [Processes -> Seq(Requests)]
                       /\ SoundLog(s.db)
                       /\ s.decisions \subseteq Statuses

--------------------
(* What a transaction that read the file b may leave, and answer. *)
GoodOutcome(b, r, outcome) ==
  /\ SoundLog(outcome.db)
  /\ b.receipts \subseteq outcome.db.receipts /\ b.conflicts \subseteq outcome.db.conflicts
  /\ outcome.result \in Results
  /\ outcome.result.code # "thrown" =>
       \E c \in outcome.db.receipts \cup outcome.db.conflicts : c.print.of = r /\ c.result = outcome.result

(* The store counts as everybody does. *)
LEMMA SameCount == \A S : Stm!Cardinality(S) = Cardinality(S)
BY DEF Stm!Cardinality, Cardinality

LEMMA RowTypes ==
  ASSUME StatementsWellFormed, NEW r \in Requests, r.kind # "backfill", NEW result \in Results
  PROVE  /\ Stm!Receipt(r, result) \in Rows
         /\ Stm!Receipt(r, result).print.of = r /\ Stm!Receipt(r, result).result = result
         /\ Stm!Receipt(r, result).key = r.key /\ Stm!Receipt(r, result).kind = r.kind
<1>1. r.key \in RequestKeys /\ r.kind \in {"admit", "revise", "retract"}
  BY DEF Requests
<1>2. Stm!Fingerprint(r) \in [of : Requests, keys : {"by code point", "by locale"}] /\ Stm!Fingerprint(r).of = r
  BY DEF Stm!Fingerprint
<1> QED BY <1>1, <1>2 DEF Stm!Receipt, Rows

LEMMA RefusalTypes ==
  ASSUME StatementsWellFormed, NEW code \in ResultCodes, NEW reason \in Reasons
  PROVE  Stm!Refusal(code, reason) \in Results /\ Stm!Refusal(code, reason).code = code
<1>1. Missing \in Statuses
  BY DEF StatementsWellFormed
<1> QED BY <1>1 DEF Stm!Refusal, Results

LEMMA RefusalSound ==
  ASSUME StatementsWellFormed, NEW b, SoundLog(b), NEW r \in Requests, r.kind # "backfill", Stm!Existing(b, r) = {},
         NEW code \in ResultCodes \ {"committed"}, NEW reason \in Reasons
  PROVE  GoodOutcome(b, r, Stm!PersistRefusal(b, r, code, reason))
<1> DEFINE o == Stm!PersistRefusal(b, r, code, reason)
           c == Stm!Receipt(r, Stm!Refusal(code, reason))
<1>1. /\ o.result = Stm!Refusal(code, reason) /\ o.result \in Results /\ o.result.code # "committed"
      /\ c \in Rows /\ c.print.of = r /\ c.result = o.result /\ c.key = r.key /\ c.kind = r.kind
  BY RowTypes, RefusalTypes DEF Stm!PersistRefusal
<1>2. /\ o.db \in LogStates /\ o.db.receipts = b.receipts \cup {c} /\ o.db.conflicts = b.conflicts
      /\ o.db.revisions = b.revisions /\ o.db.heads = b.heads
  BY <1>1 DEF SoundLog, LogStates, Stm!PersistRefusal
<1> HIDE DEF o, c
<1>3. Answered(o.db)
  <2>1. \A d \in b.receipts : ~(d.key = r.key /\ d.kind = r.kind)
    BY DEF Stm!Existing
  <2> QED BY <1>1, <1>2, <2>1 DEF SoundLog, Answered
<1>4. Whole(o.db)
  BY <1>2 DEF SoundLog, Whole, HistoryIn
<1>5. Receipted(o.db)
  BY <1>1, <1>2 DEF SoundLog, Receipted, Stm!IsCommitOf
<1> QED BY <1>1, <1>2, <1>3, <1>4, <1>5 DEF SoundLog, GoodOutcome, o

LEMMA ConflictSound ==
  ASSUME StatementsWellFormed, NEW b, SoundLog(b), NEW r \in Requests, r.kind # "backfill", Stm!Existing(b, r) # {},
         \A c \in Stm!Existing(b, r) : c.print.of # r, Stm!Conflicts(b, r) = {}
  PROVE  GoodOutcome(b, r, Stm!IdempotencyConflict(b, r))
<1> DEFINE o == Stm!IdempotencyConflict(b, r)
           c == Stm!Receipt(r, Stm!Refusal("idempotency-conflict", "idempotency-conflict"))
<1>1. /\ o.result \in Results
      /\ c \in Rows /\ c.print.of = r /\ c.result = o.result /\ c.key = r.key /\ c.kind = r.kind
  BY RowTypes, RefusalTypes DEF Stm!IdempotencyConflict, ResultCodes, Reasons
<1>2. /\ o.db \in LogStates /\ o.db.conflicts = b.conflicts \cup {c} /\ o.db.receipts = b.receipts
      /\ o.db.revisions = b.revisions /\ o.db.heads = b.heads
  BY <1>1 DEF SoundLog, LogStates, Stm!IdempotencyConflict
<1> HIDE DEF o, c
<1>3. Answered(o.db)
  <2>1. \A d \in b.conflicts : d.print.of # r
    BY DEF Stm!Conflicts, Stm!IsOf, SoundLog, Answered
  <2>2. PICK d \in b.receipts : d.key = r.key /\ d.kind = r.kind /\ d.print.of # r
    BY DEF Stm!Existing
  <2> QED BY <1>1, <1>2, <2>1, <2>2 DEF SoundLog, Answered
<1>4. Whole(o.db)
  BY <1>2 DEF SoundLog, Whole, HistoryIn
<1>5. Receipted(o.db)
  BY <1>2 DEF SoundLog, Receipted
<1> QED BY <1>1, <1>2, <1>3, <1>4, <1>5 DEF SoundLog, GoodOutcome, o

(* The next revision of a claim that has not ended, with its receipt. *)
LEMMA CommitSound ==
  ASSUME StatementsWellFormed, NEW b, SoundLog(b), NEW r \in Requests, r.kind # "backfill", r.sound,
         Stm!Existing(b, r) = {}, NEW record \in Records, record.statement = r.statement,
         record.revision = b.heads[r.statement] + 1,
         record.origin = "model" => record.status \in {"proposed", "retracted"},
         \A x \in HistoryIn(b, r.statement) : ~Stm!IsTerminal(x.status),
         r.kind # "admit" => b.heads[r.statement] = r.expected
  PROVE  GoodOutcome(b, r, Stm!PersistCommit(b, r, record))
<1> DEFINE o == Stm!PersistCommit(b, r, record)
           c == Stm!Receipt(r, Stm!Committed(record))
           s == r.statement
<1>1. /\ o.result = Stm!Committed(record) /\ o.result \in Results
      /\ o.result.code = "committed" /\ o.result.revision = record.revision /\ o.result.status = record.status
      /\ c \in Rows /\ c.print.of = r /\ c.result = o.result /\ c.key = r.key /\ c.kind = r.kind
  <2>1. Stm!Committed(record) \in Results
    BY DEF Stm!Committed, Results, Records, ResultCodes, Reasons
  <2> QED BY <2>1, RowTypes DEF Stm!PersistCommit, Stm!Committed
<1>2. /\ o.db \in LogStates /\ o.db.receipts = b.receipts \cup {c} /\ o.db.conflicts = b.conflicts
      /\ o.db.revisions = b.revisions \cup {record}
      /\ o.db.heads \in [Names -> Nat] /\ o.db.heads[s] = record.revision
      /\ \A t \in Names \ {s} : o.db.heads[t] = b.heads[t]
      /\ s \in Names /\ b.heads \in [Names -> Nat] /\ b.revisions \in SUBSET Records
      /\ record.revision \in Nat /\ record.revision > b.heads[s]
      /\ b.receipts \in SUBSET Rows
  <2>1. /\ s \in Names /\ b.heads \in [Names -> Nat] /\ b.revisions \in SUBSET Records
        /\ b.receipts \in SUBSET Rows /\ b \in LogStates /\ record.revision \in Nat
    BY DEF SoundLog, LogStates, Requests, Records
  <2>2. o.db = [b EXCEPT !.revisions = b.revisions \cup {record}, !.heads = [b.heads EXCEPT ![s] = record.revision],
                         !.receipts = b.receipts \cup {c}]
    BY <2>1 DEF Stm!PersistCommit, LogStates
  <2>3. o.db.heads = [b.heads EXCEPT ![s] = record.revision]
    BY <2>1, <2>2 DEF LogStates
  <2>4. /\ o.db.receipts = b.receipts \cup {c} /\ o.db.conflicts = b.conflicts
        /\ o.db.revisions = b.revisions \cup {record}
    BY <2>1, <2>2 DEF LogStates
  <2>5. /\ o.db.heads \in [Names -> Nat] /\ o.db.heads[s] = record.revision
        /\ \A t \in Names \ {s} : o.db.heads[t] = b.heads[t]
    BY <2>1, <2>3
  <2>6. o.db \in LogStates
    <3>1. o.db = [revisions |-> b.revisions \cup {record}, heads |-> [b.heads EXCEPT ![s] = record.revision],
                  receipts |-> b.receipts \cup {c}, conflicts |-> b.conflicts, backfills |-> b.backfills]
      BY <2>1, <2>2 DEF LogStates
    <3>2. /\ b.revisions \cup {record} \in SUBSET Records /\ b.receipts \cup {c} \in SUBSET Rows
          /\ b.conflicts \in SUBSET Rows /\ b.backfills \in Backfills
          /\ [b.heads EXCEPT ![s] = record.revision] \in [Names -> Nat]
      BY <2>1, <1>1 DEF LogStates
    <3> QED BY <3>1, <3>2 DEF LogStates
  <2>7. record.revision > b.heads[s]
    BY <2>1
  <2> QED BY <2>1, <2>4, <2>5, <2>6, <2>7
<1> HIDE DEF o, c
<1>3. Answered(o.db)
  <2>1. \A d \in b.receipts : ~(d.key = r.key /\ d.kind = r.kind)
    BY DEF Stm!Existing
  <2> QED BY <1>1, <1>2, <2>1 DEF SoundLog, Answered
<1>4. \A x \in b.revisions : x \in Records /\ x.statement \in Names /\ x.revision \in 1 .. b.heads[x.statement]
  BY <1>2 DEF SoundLog, Whole, Records
<1>5. \A x \in b.revisions : x.statement = s => x.revision < record.revision
  BY <1>2, <1>4
<1>6. Whole(o.db)
  <2>1. \A x, y \in o.db.revisions : x.statement = y.statement /\ x.revision = y.revision => x = y
    BY <1>2, <1>4, <1>5 DEF SoundLog, Whole
  <2>2. \A x \in o.db.revisions : x.revision \in 1 .. o.db.heads[x.statement]
    <3> SUFFICES ASSUME NEW x \in o.db.revisions PROVE x.revision \in 1 .. o.db.heads[x.statement]
      OBVIOUS
    <3>1. CASE x = record
      BY <3>1, <1>2
    <3>2. CASE x \in b.revisions /\ x.statement = s
      BY <3>2, <1>2, <1>4, <1>5
    <3>3. CASE x \in b.revisions /\ x.statement # s
      BY <3>3, <1>2, <1>4
    <3> QED BY <3>1, <3>2, <3>3, <1>2
  <2>3. ASSUME NEW t \in Names
        PROVE  HistoryIn(o.db, t) = IF t = s THEN HistoryIn(b, t) \cup {record} ELSE HistoryIn(b, t)
    BY <1>2 DEF HistoryIn
  <2>4. ASSUME NEW t \in Names, NEW n \in 1 .. o.db.heads[t]
        PROVE  \E x \in HistoryIn(o.db, t) : x.revision = n
    <3>1. CASE t = s /\ n = record.revision
      BY <3>1, <2>3
    <3>2. CASE ~(t = s /\ n = record.revision)
      <4>1. n \in 1 .. b.heads[t]
        BY <3>2, <1>2
      <4>2. PICK x \in HistoryIn(b, t) : x.revision = n
        BY <4>1 DEF SoundLog, Whole
      <4> QED BY <4>2, <2>3
    <3> QED BY <3>1, <3>2
  <2>5. ASSUME NEW t \in Names
        PROVE  IsFiniteSet(HistoryIn(o.db, t)) /\ Cardinality(HistoryIn(o.db, t)) = o.db.heads[t]
    <3>1. IsFiniteSet(HistoryIn(b, t)) /\ Cardinality(HistoryIn(b, t)) = b.heads[t]
      BY DEF SoundLog, Whole
    <3>2. record \notin HistoryIn(b, t)
      BY <1>2, <1>5 DEF HistoryIn
    <3>3. CASE t = s
      <4>1. IsFiniteSet(HistoryIn(b, t) \cup {record})
            /\ Cardinality(HistoryIn(b, t) \cup {record}) = Cardinality(HistoryIn(b, t)) + 1
        BY <3>1, <3>2, FS_AddElement
      <4> QED BY <4>1, <3>1, <3>3, <2>3, <1>2
    <3>4. CASE t # s
      BY <3>1, <3>4, <2>3, <1>2
    <3> QED BY <3>3, <3>4
  <2>6. \A x \in o.db.revisions : Stm!IsTerminal(x.status) => x.revision = o.db.heads[x.statement]
    BY <1>2, <1>4 DEF SoundLog, Whole, HistoryIn
  <2> QED BY <2>1, <2>2, <2>4, <2>5, <2>6, <1>2 DEF SoundLog, Whole
<1>7. Receipted(o.db)
  <2>1. \A x \in b.revisions : ~Stm!IsCommitOf(c, x)
    BY <1>1, <1>2, <1>4, <1>5 DEF Stm!IsCommitOf
  <2>2. \A d \in b.receipts : ~Stm!IsCommitOf(d, record)
    <3> SUFFICES ASSUME NEW d \in b.receipts, Stm!IsCommitOf(d, record) PROVE FALSE
      OBVIOUS
    <3>1. PICK x \in b.revisions : Stm!IsCommitOf(d, x)
      BY DEF SoundLog, Receipted, Stm!IsCommitOf
    <3> QED BY <3>1, <1>2, <1>4, <1>5 DEF Stm!IsCommitOf
  <2>3. Stm!IsCommitOf(c, record)
    BY <1>1 DEF Stm!IsCommitOf
  <2>4. c.kind # "admit" => c.result.revision = c.print.of.expected + 1
    BY <1>1
  <2>5. \A x \in o.db.revisions : \E d \in o.db.receipts : Stm!IsCommitOf(d, x)
    BY <1>2, <2>3 DEF SoundLog, Receipted
  <2>6. \A x \in o.db.revisions : \A d, e \in o.db.receipts : Stm!IsCommitOf(d, x) /\ Stm!IsCommitOf(e, x) => d = e
    BY <1>2, <2>1, <2>2 DEF SoundLog, Receipted
  <2>7. ASSUME NEW d \in o.db.receipts, d.result.code = "committed"
        PROVE  /\ \E x \in o.db.revisions : Stm!IsCommitOf(d, x) /\ x.status = d.result.status
               /\ d.kind # "admit" => d.result.revision = d.print.of.expected + 1
    BY <1>1, <1>2, <2>3, <2>4, <2>7 DEF SoundLog, Receipted
  <2> QED BY <2>5, <2>6, <2>7 DEF Receipted
<1> QED BY <1>1, <1>2, <1>3, <1>6, <1>7 DEF SoundLog, GoodOutcome, o

LEMMA ThrownGood ==
  ASSUME StatementsWellFormed, NEW b, SoundLog(b), NEW r
  PROVE  GoodOutcome(b, r, Stm!Thrown(b))
<1>1. Missing \in Reasons /\ "thrown" \in ResultCodes
  BY DEF Reasons, ResultCodes
<1>2. Stm!Refusal("thrown", Missing) \in Results /\ Stm!Refusal("thrown", Missing).code = "thrown"
  BY <1>1, RefusalTypes
<1> QED BY <1>2 DEF GoodOutcome, Stm!Thrown

LEMMA HeadFacts ==
  ASSUME StatementsWellFormed, NEW b, SoundLog(b), NEW s \in Names
  PROVE  /\ b.heads[s] \in Nat
         /\ Stm!HeadOf(b, s) = Missing => b.heads[s] = 0 /\ HistoryIn(b, s) = {}
         /\ Stm!HeadOf(b, s) # Missing =>
              /\ Stm!HeadOf(b, s) \in b.revisions /\ Stm!HeadOf(b, s) \in Records
              /\ Stm!HeadOf(b, s).statement = s /\ Stm!HeadOf(b, s).revision = b.heads[s]
         /\ Stm!HeadOf(b, s) # Missing /\ ~Stm!IsTerminal(Stm!HeadOf(b, s).status) =>
              \A x \in HistoryIn(b, s) : ~Stm!IsTerminal(x.status)
<1>1. b.heads[s] \in Nat /\ b.revisions \subseteq Records /\ Missing \notin Records
  BY DEF SoundLog, LogStates, StatementsWellFormed
<1>2. CASE b.heads[s] = 0
  <2>1. HistoryIn(b, s) = {}
    BY <1>1, <1>2 DEF SoundLog, Whole, HistoryIn
  <2> QED BY <1>1, <1>2, <2>1 DEF Stm!HeadOf
<1>3. CASE b.heads[s] # 0
  <2>1. b.heads[s] \in 1 .. b.heads[s]
    BY <1>1, <1>3
  <2>2. \E x \in b.revisions : x.statement = s /\ x.revision = b.heads[s]
    BY <2>1 DEF SoundLog, Whole, HistoryIn
  <2>3. Stm!HeadOf(b, s) = CHOOSE x \in b.revisions : x.statement = s /\ x.revision = b.heads[s]
    BY <1>3 DEF Stm!HeadOf
  <2>4. Stm!HeadOf(b, s) \in b.revisions /\ Stm!HeadOf(b, s).statement = s /\ Stm!HeadOf(b, s).revision = b.heads[s]
    BY <2>2, <2>3
  <2>5. \A x \in HistoryIn(b, s) : Stm!IsTerminal(x.status) => x = Stm!HeadOf(b, s)
    BY <2>4 DEF SoundLog, Whole, HistoryIn
  <2> QED BY <1>1, <2>4, <2>5
<1> QED BY <1>2, <1>3

LEMMA MutationGood ==
  ASSUME StatementsWellFormed, NEW b, SoundLog(b), NEW r \in Requests, r.kind # "backfill",
         Stm!Existing(b, r) = {}, NEW decided \in Statuses
  PROVE  GoodOutcome(b, r, Stm!CommitMutation(b, r, decided))
<1> DEFINE head == Stm!HeadOf(b, r.statement)
           obstacle == Stm!Obstacle(head, r)
<1>1. /\ r.statement \in Names /\ r.kind \in {"admit", "revise", "retract"} /\ r.expected \in Nat
      /\ r.status \in Statuses /\ r.origin \in Origins /\ r.successor \in BOOLEAN
      /\ {"proposed", "retracted", Missing} \subseteq Statuses /\ Missing \notin Obstacles
  BY DEF Requests, StatementsWellFormed
<1>2. obstacle \in Obstacles \cup {Missing}
  BY DEF Stm!Obstacle, Obstacles
<1>3. CASE obstacle # Missing
  <2>1. obstacle \in Reasons /\ "revision-conflict" \in ResultCodes \ {"committed"}
    BY <1>2, <1>3 DEF Reasons, ResultCodes
  <2>2. Stm!CommitMutation(b, r, decided) = Stm!PersistRefusal(b, r, "revision-conflict", obstacle)
    BY <1>3 DEF Stm!CommitMutation
  <2> QED BY <2>1, <2>2, RefusalSound
<1>4. ASSUME obstacle = Missing
      PROVE  /\ head # Missing => ~Stm!IsTerminal(head.status)
             /\ r.kind = "admit" <=> head = Missing
             /\ r.kind # "admit" => head.revision = r.expected
  BY <1>1, <1>4 DEF Stm!Obstacle, Obstacles
<1>5. \A origin \in Origins, status \in Statuses :
        /\ Stm!Enforced(origin, status) \in Statuses
        /\ origin = "model" => Stm!Enforced(origin, status) \in {"proposed", "retracted"}
  BY <1>1 DEF Stm!Enforced
<1>6. CASE obstacle = Missing /\ r.kind = "admit"
  <2> DEFINE status == Stm!Enforced(r.origin, decided)
             record == [statement |-> r.statement, revision |-> 1, status |-> status,
                        origin |-> r.origin, successor |-> FALSE]
  <2>1. Stm!CommitMutation(b, r, decided) = Stm!Admit(b, r, decided)
    BY <1>6 DEF Stm!CommitMutation
  <2>2. Stm!Admit(b, r, decided) =
          IF Stm!IsTerminal(status) \/ ~r.sound THEN Stm!Thrown(b) ELSE Stm!PersistCommit(b, r, record)
    BY DEF Stm!Admit, Stm!PersistCommit
  <2>3. ASSUME r.sound PROVE GoodOutcome(b, r, Stm!PersistCommit(b, r, record))
    <3>1. b.heads[r.statement] = 0 /\ HistoryIn(b, r.statement) = {}
      BY <1>1, <1>4, <1>6, HeadFacts
    <3>2. record \in Records /\ record.statement = r.statement /\ record.revision = 1
          /\ record.origin = r.origin /\ record.status = status
      BY <1>1, <1>5 DEF Records
    <3> HIDE DEF record
    <3> QED BY <2>3, <3>1, <3>2, <1>1, <1>5, <1>6, CommitSound
  <2> QED BY <2>1, <2>2, <2>3, ThrownGood
<1>7. CASE obstacle = Missing /\ r.kind = "revise"
  <2> DEFINE origin == Stm!Or(r.origin, head.origin)
             status == Stm!Enforced(origin, Stm!Or(r.status, decided))
             successor == r.successor \/ head.successor
             record == [head EXCEPT !.revision = @ + 1, !.status = status, !.origin = origin, !.successor = successor]
  <2>1. Stm!CommitMutation(b, r, decided) = Stm!Revise(b, r, head, decided)
    BY <1>7, <1>1 DEF Stm!CommitMutation
  <2>2. Stm!Revise(b, r, head, decided) \in
          {Stm!Thrown(b), Stm!PersistRefusal(b, r, "store-refused", "superseded-requires-reference"),
           Stm!PersistCommit(b, r, record)}
    BY DEF Stm!Revise
  <2>3. "superseded-requires-reference" \in Reasons /\ "store-refused" \in ResultCodes \ {"committed"}
    BY DEF Reasons, ResultCodes
  <2>4. Stm!PersistCommit(b, r, record) = Stm!Thrown(b) \/ GoodOutcome(b, r, Stm!PersistCommit(b, r, record))
    <3>1. CASE ~r.sound
      BY <3>1 DEF Stm!PersistCommit
    <3>2. CASE r.sound
      <4>1. /\ head # Missing /\ ~Stm!IsTerminal(head.status) /\ head.revision = r.expected
            /\ head \in Records /\ head.statement = r.statement /\ head.revision = b.heads[r.statement]
            /\ \A x \in HistoryIn(b, r.statement) : ~Stm!IsTerminal(x.status)
        BY <1>1, <1>4, <1>7, HeadFacts
      <4>2. origin \in Origins /\ status \in Statuses /\ successor \in BOOLEAN /\ head.revision + 1 \in Nat
            /\ (origin = "model" => status \in {"proposed", "retracted"})
        BY <4>1, <1>1, <1>5 DEF Stm!Or, Records
      <4>3. /\ record \in Records /\ record.statement = r.statement /\ record.revision = b.heads[r.statement] + 1
            /\ record.origin = origin /\ record.status = status
        <5> HIDE DEF origin, status, successor
        <5> QED BY <4>1, <4>2 DEF Records
      <4> HIDE DEF record, origin, status, head
      <4> QED BY <3>2, <4>1, <4>2, <4>3, <1>1, <1>7, CommitSound
    <3> QED BY <3>1, <3>2
  <2> QED BY <2>1, <2>2, <2>3, <2>4, ThrownGood, RefusalSound
<1>8. CASE obstacle = Missing /\ r.kind = "retract"
  <2> DEFINE record == [head EXCEPT !.revision = @ + 1, !.status = "retracted", !.origin = r.origin]
  <2>1. Stm!CommitMutation(b, r, decided) = Stm!PersistCommit(b, r, record)
    BY <1>8, <1>1 DEF Stm!CommitMutation, Stm!Retract
  <2>2. CASE ~r.sound
    BY <2>1, <2>2, ThrownGood DEF Stm!PersistCommit
  <2>3. CASE r.sound
    <3>1. /\ head # Missing /\ ~Stm!IsTerminal(head.status) /\ head.revision = r.expected
          /\ head \in Records /\ head.statement = r.statement /\ head.revision = b.heads[r.statement]
          /\ \A x \in HistoryIn(b, r.statement) : ~Stm!IsTerminal(x.status)
      BY <1>1, <1>4, <1>8, HeadFacts
    <3>2. /\ record \in Records /\ record.statement = r.statement /\ record.revision = b.heads[r.statement] + 1
          /\ record.origin = r.origin /\ record.status = "retracted"
      <4>1. head \in Records /\ head.revision + 1 \in Nat /\ "retracted" \in Statuses /\ r.origin \in Origins
        BY <3>1, <1>1 DEF Records
      <4> HIDE DEF head
      <4> QED BY <3>1, <4>1 DEF Records
    <3> HIDE DEF record, head
    <3> QED BY <2>1, <2>3, <3>1, <3>2, <1>1, <1>8, CommitSound
  <2> QED BY <2>2, <2>3
<1> QED BY <1>1, <1>3, <1>6, <1>7, <1>8

LEMMA OutcomesGood ==
  ASSUME StatementsWellFormed, desk \in Desks, NEW b, SoundLog(b), NEW r \in Requests, r.kind # "backfill",
         NEW outcome \in Stm!Outcomes(b, r)
  PROVE  GoodOutcome(b, r, outcome)
<1>1. desk.decisions \subseteq Statuses
  BY DEF StatementsWellFormed
<1>2. b.receipts \subseteq Rows /\ b.conflicts \subseteq Rows
  BY DEF SoundLog, LogStates
<1>3. \A c \in b.receipts \cup b.conflicts : Stm!IsOf(c.print, r) => GoodOutcome(b, r, Stm!Replayed(b, c))
  BY <1>2 DEF GoodOutcome, Stm!Replayed, Stm!IsOf, Rows
<1> DEFINE own == {c \in Stm!Existing(b, r) : Stm!IsOf(c.print, r)}
<1>4. CASE own # {}
  <2>1. outcome \in {Stm!Replayed(b, c) : c \in own}
    BY <1>4 DEF Stm!Outcomes
  <2> QED BY <2>1, <1>3 DEF Stm!Existing
<1>5. CASE own = {} /\ Stm!Existing(b, r) # {} /\ Stm!Conflicts(b, r) # {}
  <2>1. outcome \in {Stm!Replayed(b, c) : c \in Stm!Conflicts(b, r)}
    BY <1>5 DEF Stm!Outcomes
  <2> QED BY <2>1, <1>3 DEF Stm!Conflicts
<1>6. CASE own = {} /\ Stm!Existing(b, r) # {} /\ Stm!Conflicts(b, r) = {}
  <2>1. outcome = Stm!IdempotencyConflict(b, r)
    BY <1>6 DEF Stm!Outcomes
  <2> QED BY <2>1, <1>6, ConflictSound DEF Stm!IsOf
<1>7. CASE Stm!Existing(b, r) = {}
  <2>1. own = {}
    BY <1>7
  <2>2. PICK d \in desk.decisions : outcome = Stm!Decided(b, r, d)
    BY <2>1, <1>7 DEF Stm!Outcomes
  <2>3. d \in Statuses /\ "authority-refused" \in ResultCodes \ {"committed"} /\ "refuse" \in Reasons
    BY <1>1 DEF ResultCodes, Reasons
  <2> QED BY <2>2, <2>3, <1>7, MutationGood, RefusalSound DEF Stm!Decided
<1> QED BY <1>4, <1>5, <1>6, <1>7

--------------------
(* The invariant *)

WorkerStates ==
  [at : Nat \ {0}, attempt : Nat, pc : {"idle", "granted", "owner", "reading", "leaving"},
   seen : LogStates \cup {Missing}, stale : BOOLEAN, result : Results \cup {Missing}]

(* Who is past the lease has a call; who reads has read the file as it was
   once, and is told when somebody writes. *)
Working(p) ==
  /\ worker[p].pc # "idle" => Stm!IsCall(p)
  /\ worker[p].pc = "reading" =>
       /\ SoundLog(worker[p].seen)
       /\ worker[p].seen.receipts \subseteq log.receipts /\ worker[p].seen.conflicts \subseteq log.conflicts
       /\ ~worker[p].stale => worker[p].seen = log
  /\ worker[p].pc = "leaving" =>
       /\ worker[p].result \in Results
       /\ worker[p].result.code \notin {"lost", "busy", "thrown"} =>
            \E c \in log.receipts \cup log.conflicts : c.print.of = Stm!Request(p) /\ c.result = worker[p].result

StatementsInv ==
  /\ desk \in Desks
  /\ SoundLog(log)
  /\ worker \in [Processes -> WorkerStates]
  /\ \A p \in Processes : Working(p)
  /\ \A a \in answers : \E c \in log.receipts \cup log.conflicts : c.print.of = a.request /\ c.result = a.result

LEMMA InvInit == StatementsWellFormed /\ Stm!Init => StatementsInv
<1> SUFFICES ASSUME StatementsWellFormed, Stm!Init PROVE StatementsInv
  OBVIOUS
<1>1. desk \in Desks /\ SoundLog(log)
  BY DEF Stm!Init, StatementsWellFormed
<1>2. Stm!Idle(1, 1) \in WorkerStates /\ Stm!Idle(1, 1).pc = "idle"
  BY DEF Stm!Idle, WorkerStates
<1>3. worker \in [Processes -> WorkerStates] /\ \A p \in Processes : Working(p)
  BY <1>2 DEF Stm!Init, Working
<1>4. \A a \in answers : \E c \in log.receipts \cup log.conflicts : c.print.of = a.request /\ c.result = a.result
  BY DEF Stm!Init
<1> QED BY <1>1, <1>3, <1>4 DEF StatementsInv

(* A step that leaves the file and the setup alone, or only adds answers to
   it, keeps what is said of the processes that do nothing. *)
LEMMA OthersWork ==
  ASSUME StatementsInv, desk' = desk, NEW p \in Processes, worker'[p] = worker[p],
         log' = log \/ worker[p].pc # "reading",
         log.receipts \subseteq log'.receipts, log.conflicts \subseteq log'.conflicts
  PROVE  Working(p)'
<1>1. Stm!IsCall(p)' = Stm!IsCall(p) /\ Stm!Request(p)' = Stm!Request(p)
  BY DEF Stm!IsCall, Stm!HasRequest, Stm!Request
<1>2. Working(p)
  BY DEF StatementsInv
<1>3. worker'[p].pc = "reading" => worker[p].pc = "reading" /\ log' = log
  OBVIOUS
<1> QED BY <1>1, <1>2, <1>3 DEF Working

LEMMA RequestTypes ==
  ASSUME StatementsWellFormed, StatementsInv, NEW p \in Processes, Stm!HasRequest(p)
  PROVE  Stm!Request(p) \in Requests
<1>1. desk.work[p] \in Seq(Requests) /\ worker[p].at \in Nat \ {0}
  BY DEF StatementsWellFormed, StatementsInv, WorkerStates
<1> QED BY <1>1 DEF Stm!HasRequest, Stm!Request

LEMMA AfterWrite ==
  ASSUME StatementsInv, NEW p \in Processes, NEW own \in WorkerStates, worker' = Stm!AfterWriteOf(p, own)
  PROVE  /\ worker' \in [Processes -> WorkerStates] /\ worker'[p] = own
         /\ \A q \in Processes \ {p} :
              /\ worker'[q].pc = worker[q].pc /\ worker'[q].at = worker[q].at /\ worker'[q].seen = worker[q].seen
              /\ worker'[q].result = worker[q].result
              /\ worker'[q].stale = (worker[q].stale \/ worker[q].pc = "reading")
<1>1. \A q \in Processes : worker[q] \in WorkerStates
  BY DEF StatementsInv
<1>2. \A q \in Processes :
        /\ [worker[q] EXCEPT !.stale = @ \/ worker[q].pc = "reading"] \in WorkerStates
        /\ [worker[q] EXCEPT !.stale = @ \/ worker[q].pc = "reading"].pc = worker[q].pc
        /\ [worker[q] EXCEPT !.stale = @ \/ worker[q].pc = "reading"].at = worker[q].at
        /\ [worker[q] EXCEPT !.stale = @ \/ worker[q].pc = "reading"].seen = worker[q].seen
        /\ [worker[q] EXCEPT !.stale = @ \/ worker[q].pc = "reading"].result = worker[q].result
        /\ [worker[q] EXCEPT !.stale = @ \/ worker[q].pc = "reading"].stale = (worker[q].stale \/ worker[q].pc = "reading")
  BY <1>1 DEF WorkerStates
<1> QED BY <1>2 DEF Stm!AfterWriteOf

(* Whoever reads is told of a write. *)
LEMMA OthersAreTold ==
  ASSUME StatementsInv, desk' = desk, NEW q \in Processes,
         worker'[q].pc = worker[q].pc, worker'[q].at = worker[q].at, worker'[q].seen = worker[q].seen,
         worker'[q].result = worker[q].result,
         worker'[q].stale = (worker[q].stale \/ worker[q].pc = "reading"),
         log.receipts \subseteq log'.receipts, log.conflicts \subseteq log'.conflicts
  PROVE  Working(q)'
<1>1. Stm!IsCall(q)' = Stm!IsCall(q) /\ Stm!Request(q)' = Stm!Request(q)
  BY DEF Stm!IsCall, Stm!HasRequest, Stm!Request
<1>2. Working(q)
  BY DEF StatementsInv
<1> QED BY <1>1, <1>2 DEF Working

LEMMA Places ==
  ASSUME StatementsWellFormed, StatementsInv, NEW p \in Processes
  PROVE  /\ worker[p] \in WorkerStates
         /\ \A place \in {"granted", "owner", "reading"} :
              /\ Stm!Become(p, place) \in WorkerStates /\ Stm!Become(p, place).pc = place
              /\ Stm!Become(p, place).at = worker[p].at
         /\ \A at \in Nat \ {0}, attempt \in Nat :
              Stm!Idle(at, attempt) \in WorkerStates /\ Stm!Idle(at, attempt).pc = "idle"
         /\ \A code \in ResultCodes, result \in Results :
              /\ Stm!Failed(p, code) \in WorkerStates /\ Stm!Failed(p, code).pc = "leaving"
              /\ Stm!Failed(p, code).at = worker[p].at /\ Stm!Failed(p, code).result = Stm!Refusal(code, Missing)
              /\ [Stm!Failed(p, code) EXCEPT !.result = result] \in WorkerStates
              /\ [Stm!Failed(p, code) EXCEPT !.result = result].pc = "leaving"
              /\ [Stm!Failed(p, code) EXCEPT !.result = result].at = worker[p].at
              /\ [Stm!Failed(p, code) EXCEPT !.result = result].result = result
<1>1. worker[p] \in WorkerStates
  BY DEF StatementsInv
<1>2. \A code \in ResultCodes : Stm!Refusal(code, Missing) \in Results
  BY RefusalTypes DEF Reasons
<1>3. ASSUME NEW place \in {"granted", "owner", "reading"}
      PROVE  /\ Stm!Become(p, place) \in WorkerStates /\ Stm!Become(p, place).pc = place
             /\ Stm!Become(p, place).at = worker[p].at
  BY <1>1 DEF Stm!Become, WorkerStates
<1>4. ASSUME NEW at \in Nat \ {0}, NEW attempt \in Nat
      PROVE  Stm!Idle(at, attempt) \in WorkerStates /\ Stm!Idle(at, attempt).pc = "idle"
  BY DEF Stm!Idle, WorkerStates
<1>5. ASSUME NEW code \in ResultCodes
      PROVE  /\ Stm!Failed(p, code) \in WorkerStates /\ Stm!Failed(p, code).pc = "leaving"
             /\ Stm!Failed(p, code).at = worker[p].at /\ Stm!Failed(p, code).result = Stm!Refusal(code, Missing)
  BY <1>1, <1>2 DEF Stm!Failed, WorkerStates
<1>6. ASSUME NEW code \in ResultCodes, NEW result \in Results
      PROVE  /\ [Stm!Failed(p, code) EXCEPT !.result = result] \in WorkerStates
             /\ [Stm!Failed(p, code) EXCEPT !.result = result].pc = "leaving"
             /\ [Stm!Failed(p, code) EXCEPT !.result = result].at = worker[p].at
             /\ [Stm!Failed(p, code) EXCEPT !.result = result].result = result
  <2> HIDE DEF Stm!Failed
  <2> QED BY <1>5 DEF WorkerStates
<1> QED BY <1>1, <1>3, <1>4, <1>5, <1>6

LEMMA SameRequest ==
  ASSUME NEW p \in Processes, desk' = desk, worker'[p].at = worker[p].at
  PROVE  Stm!IsCall(p)' = Stm!IsCall(p) /\ Stm!Request(p)' = Stm!Request(p)
  BY DEF Stm!IsCall, Stm!HasRequest, Stm!Request

LEMMA AcquireStep ==
  ASSUME StatementsWellFormed, StatementsInv, NEW p \in Processes, Stm!Acquire(p)
  PROVE  StatementsInv'
<1>1. /\ worker' = Stm!AfterWriteOf(p, Stm!Become(p, "granted")) /\ UNCHANGED <<desk, log, answers>> /\ Stm!IsCall(p)
  BY DEF Stm!Acquire
<1>2. /\ worker' \in [Processes -> WorkerStates] /\ worker'[p] = Stm!Become(p, "granted")
      /\ worker'[p].pc = "granted" /\ worker'[p].at = worker[p].at
  BY <1>1, Places, AfterWrite
<1>3. Working(p)'
  BY <1>1, <1>2, SameRequest DEF Working
<1>4. \A q \in Processes \ {p} : Working(q)'
  BY <1>1, Places, AfterWrite, OthersAreTold
<1> QED BY <1>1, <1>2, <1>3, <1>4 DEF StatementsInv

LEMMA AssertOwnedStep ==
  ASSUME StatementsWellFormed, StatementsInv, NEW p \in Processes, Stm!AssertOwned(p)
  PROVE  StatementsInv'
<1>1. /\ worker[p].pc = "granted" /\ UNCHANGED <<desk, log, answers>>
      /\ \/ worker' = [worker EXCEPT ![p] = Stm!Become(p, "owner")]
         \/ worker' = [worker EXCEPT ![p] = Stm!Failed(p, "lost")]
  BY DEF Stm!AssertOwned
<1>2. "lost" \in ResultCodes /\ Missing \in Reasons
  BY DEF ResultCodes, Reasons
<1>3. Stm!Refusal("lost", Missing) \in Results /\ Stm!Refusal("lost", Missing).code = "lost"
  BY <1>2, RefusalTypes
<1>4. worker \in [Processes -> WorkerStates]
  BY DEF StatementsInv
<1>5. /\ worker' \in [Processes -> WorkerStates] /\ worker'[p].at = worker[p].at
      /\ worker'[p].pc = "owner" \/ (worker'[p].pc = "leaving" /\ worker'[p].result = Stm!Refusal("lost", Missing))
      /\ \A q \in Processes \ {p} : worker'[q] = worker[q]
  <2>1. /\ Stm!Become(p, "owner") \in WorkerStates /\ Stm!Become(p, "owner").pc = "owner"
        /\ Stm!Become(p, "owner").at = worker[p].at
        /\ Stm!Failed(p, "lost") \in WorkerStates /\ Stm!Failed(p, "lost").pc = "leaving"
        /\ Stm!Failed(p, "lost").at = worker[p].at /\ Stm!Failed(p, "lost").result = Stm!Refusal("lost", Missing)
    BY <1>2, <1>3, Places
  <2> QED BY <1>1, <1>4, <2>1
<1>6. Stm!IsCall(p)
  BY <1>1 DEF StatementsInv, Working
<1>7. Working(p)'
  BY <1>1, <1>3, <1>5, <1>6, SameRequest DEF Working
<1>8. \A q \in Processes \ {p} : Working(q)'
  BY <1>1, <1>5, OthersWork
<1> QED BY <1>1, <1>5, <1>7, <1>8 DEF StatementsInv

LEMMA ReadStep ==
  ASSUME StatementsWellFormed, StatementsInv, NEW p \in Processes, Stm!Read(p)
  PROVE  StatementsInv'
<1> DEFINE own == [Stm!Become(p, "reading") EXCEPT !.seen = log]
<1>1. worker[p].pc = "owner" /\ UNCHANGED <<desk, log, answers>> /\ worker' = [worker EXCEPT ![p] = own]
  BY DEF Stm!Read
<1>2. worker \in [Processes -> WorkerStates] /\ SoundLog(log) /\ log \in LogStates
  BY DEF StatementsInv, SoundLog
<1>3. own \in WorkerStates /\ own.pc = "reading" /\ own.at = worker[p].at /\ own.seen = log
  <2>1. Stm!Become(p, "reading") \in WorkerStates /\ Stm!Become(p, "reading").pc = "reading"
        /\ Stm!Become(p, "reading").at = worker[p].at
    BY Places
  <2> QED BY <2>1, <1>2 DEF WorkerStates
<1> HIDE DEF own
<1>4. /\ worker' \in [Processes -> WorkerStates] /\ worker'[p] = own
      /\ \A q \in Processes \ {p} : worker'[q] = worker[q]
  BY <1>1, <1>2, <1>3
<1>5. Stm!IsCall(p)
  BY <1>1 DEF StatementsInv, Working
<1>6. Working(p)'
  BY <1>1, <1>2, <1>3, <1>4, <1>5, SameRequest DEF Working
<1>7. \A q \in Processes \ {p} : Working(q)'
  BY <1>1, <1>4, OthersWork
<1> QED BY <1>1, <1>4, <1>6, <1>7 DEF StatementsInv

LEMMA WriteStep ==
  ASSUME StatementsWellFormed, StatementsInv, NEW p \in Processes, Stm!Write(p)
  PROVE  StatementsInv'
<1>1. worker[p].pc = "reading" /\ UNCHANGED <<desk, answers>>
  BY DEF Stm!Write
<1>2. PICK outcome \in Stm!Outcomes(worker[p].seen, Stm!Request(p)) :
        LET done == [Stm!Failed(p, "busy") EXCEPT !.result = outcome.result] IN
        \/ outcome.db = worker[p].seen /\ worker' = [worker EXCEPT ![p] = done] /\ log' = log
        \/ /\ outcome.db # worker[p].seen /\ ~worker[p].stale
           /\ log' = outcome.db /\ worker' = Stm!AfterWriteOf(p, done)
        \/ worker' = [worker EXCEPT ![p] = Stm!Failed(p, "busy")] /\ log' = log
  BY DEF Stm!Write
<1> DEFINE done == [Stm!Failed(p, "busy") EXCEPT !.result = outcome.result]
<1>3. /\ Stm!IsCall(p) /\ SoundLog(worker[p].seen) /\ desk \in Desks
      /\ worker[p].seen.receipts \subseteq log.receipts /\ worker[p].seen.conflicts \subseteq log.conflicts
      /\ ~worker[p].stale => worker[p].seen = log
      /\ worker \in [Processes -> WorkerStates] /\ SoundLog(log)
  BY <1>1 DEF StatementsInv, Working
<1>4. Stm!Request(p) \in Requests /\ Stm!Request(p).kind # "backfill"
  BY <1>3, RequestTypes DEF Stm!IsCall
<1>5. GoodOutcome(worker[p].seen, Stm!Request(p), outcome)
  BY <1>3, <1>4, OutcomesGood
<1>6. "busy" \in ResultCodes /\ Missing \in Reasons
  BY DEF ResultCodes, Reasons
<1>7. Stm!Refusal("busy", Missing) \in Results /\ Stm!Refusal("busy", Missing).code = "busy"
  BY <1>6, RefusalTypes
<1>8. /\ done \in WorkerStates /\ done.pc = "leaving" /\ done.at = worker[p].at /\ done.result = outcome.result
      /\ outcome.result \in Results
      /\ Stm!Failed(p, "busy") \in WorkerStates /\ Stm!Failed(p, "busy").pc = "leaving"
      /\ Stm!Failed(p, "busy").at = worker[p].at /\ Stm!Failed(p, "busy").result = Stm!Refusal("busy", Missing)
  BY <1>5, <1>6, Places DEF GoodOutcome
<1> HIDE DEF done
<1>9. CASE outcome.db = worker[p].seen /\ worker' = [worker EXCEPT ![p] = done] /\ log' = log
  <2>1. /\ worker' \in [Processes -> WorkerStates] /\ worker'[p] = done
        /\ \A q \in Processes \ {p} : worker'[q] = worker[q]
    BY <1>3, <1>8, <1>9
  <2>2. Working(p)'
    <3>1. Stm!IsCall(p)' /\ Stm!Request(p)' = Stm!Request(p)
      BY <1>1, <1>3, <1>8, <2>1, SameRequest
    <3> QED BY <3>1, <2>1, <1>3, <1>5, <1>8, <1>9 DEF Working, GoodOutcome
  <2>3. \A q \in Processes \ {p} : Working(q)'
    BY <1>1, <1>9, <2>1, OthersWork
  <2> QED BY <1>1, <1>9, <2>1, <2>2, <2>3 DEF StatementsInv
<1>10. CASE worker' = [worker EXCEPT ![p] = Stm!Failed(p, "busy")] /\ log' = log
  <2>1. /\ worker' \in [Processes -> WorkerStates] /\ worker'[p] = Stm!Failed(p, "busy")
        /\ \A q \in Processes \ {p} : worker'[q] = worker[q]
    BY <1>3, <1>8, <1>10
  <2>2. Working(p)'
    <3>1. Stm!IsCall(p)' /\ Stm!Request(p)' = Stm!Request(p)
      BY <1>1, <1>3, <1>8, <2>1, SameRequest
    <3> QED BY <3>1, <2>1, <1>7, <1>8 DEF Working
  <2>3. \A q \in Processes \ {p} : Working(q)'
    BY <1>1, <1>10, <2>1, OthersWork
  <2> QED BY <1>1, <1>10, <2>1, <2>2, <2>3 DEF StatementsInv
<1>11. CASE ~worker[p].stale /\ log' = outcome.db /\ worker' = Stm!AfterWriteOf(p, done)
  <2>1. /\ SoundLog(log') /\ log.receipts \subseteq log'.receipts /\ log.conflicts \subseteq log'.conflicts
    BY <1>3, <1>5, <1>11 DEF GoodOutcome
  <2>2. worker' \in [Processes -> WorkerStates] /\ worker'[p] = done
    BY <1>8, <1>11, AfterWrite
  <2>3. Working(p)'
    <3>1. Stm!IsCall(p)' /\ Stm!Request(p)' = Stm!Request(p)
      BY <1>1, <1>3, <1>8, <2>2, SameRequest
    <3> QED BY <3>1, <2>2, <1>5, <1>8, <1>11 DEF Working, GoodOutcome
  <2>4. \A q \in Processes \ {p} : Working(q)'
    BY <1>1, <1>8, <1>11, <2>1, AfterWrite, OthersAreTold
  <2>5. \A a \in answers' : \E c \in log'.receipts \cup log'.conflicts : c.print.of = a.request /\ c.result = a.result
    BY <1>1, <2>1 DEF StatementsInv
  <2> QED BY <1>1, <1>3, <2>1, <2>2, <2>3, <2>4, <2>5 DEF StatementsInv
<1> QED BY <1>2, <1>9, <1>10, <1>11 DEF done

LEMMA LeaveStep ==
  ASSUME StatementsWellFormed, StatementsInv, NEW p \in Processes, Stm!Leave(p)
  PROVE  StatementsInv'
<1> DEFINE result == worker[p].result
           next == IF Stm!IsRetried(result) THEN Stm!Idle(worker[p].at, worker[p].attempt + 1)
                   ELSE Stm!Idle(worker[p].at + 1, 1)
<1>1. /\ worker[p].pc = "leaving" /\ UNCHANGED <<desk, log>>
      /\ worker' = Stm!AfterWriteOf(p, next) \/ worker' = [worker EXCEPT ![p] = next]
      /\ answers' = answers \cup (IF result.code \in {"lost", "busy", "thrown"} THEN {}
                                  ELSE {[request |-> Stm!Request(p), result |-> result]})
  BY DEF Stm!Leave
<1>2. worker \in [Processes -> WorkerStates] /\ Working(p)
  BY DEF StatementsInv
<1>3. next \in WorkerStates /\ next.pc = "idle"
  <2>1. worker[p].at \in Nat \ {0} /\ worker[p].at + 1 \in Nat \ {0} /\ worker[p].attempt + 1 \in Nat
    BY <1>2 DEF WorkerStates
  <2> QED BY <2>1, Places
<1> HIDE DEF next
<1>4. worker' \in [Processes -> WorkerStates] /\ worker'[p] = next
  BY <1>1, <1>2, <1>3, AfterWrite
<1>5. Working(p)'
  BY <1>3, <1>4 DEF Working
<1>6. \A q \in Processes \ {p} : Working(q)'
  <2>1. CASE worker' = Stm!AfterWriteOf(p, next)
    BY <1>1, <1>3, <2>1, AfterWrite, OthersAreTold
  <2>2. CASE worker' = [worker EXCEPT ![p] = next]
    BY <1>1, <1>2, <2>2, OthersWork
  <2> QED BY <1>1, <2>1, <2>2
<1>7. \A a \in answers' : \E c \in log.receipts \cup log.conflicts : c.print.of = a.request /\ c.result = a.result
  BY <1>1, <1>2 DEF StatementsInv, Working
<1> QED BY <1>1, <1>4, <1>5, <1>6, <1>7 DEF StatementsInv

LEMMA WriteBackfillStep ==
  ASSUME StatementsWellFormed, StatementsInv, NEW p \in Processes, Stm!WriteBackfill(p)
  PROVE  StatementsInv'
<1> DEFINE r == Stm!Request(p)
           own == Stm!Idle(worker[p].at + 1, 1)
<1>1. /\ log' = [log EXCEPT !.backfills[r.key] = r.status] /\ worker' = Stm!AfterWriteOf(p, own)
      /\ UNCHANGED <<desk, answers>> /\ Stm!HasRequest(p)
  BY DEF Stm!WriteBackfill
<1>2. log \in LogStates /\ SoundLog(log) /\ worker[p].at \in Nat \ {0}
  BY DEF StatementsInv, SoundLog, WorkerStates
<1>3. r.key \in RequestKeys /\ r.status \in Statuses
  BY <1>1, RequestTypes DEF Requests
<1>4. own \in WorkerStates /\ own.pc = "idle"
  <2>1. worker[p].at + 1 \in Nat \ {0} /\ 1 \in Nat
    BY <1>2
  <2> QED BY <2>1, Places
<1> HIDE DEF r, own
<1>5. /\ log' \in LogStates /\ log'.receipts = log.receipts /\ log'.conflicts = log.conflicts
      /\ log'.revisions = log.revisions /\ log'.heads = log.heads
  <2>1. [log.backfills EXCEPT ![r.key] = r.status] \in Backfills
    <3>1. PICK D \in SUBSET RequestKeys : log.backfills \in [D -> Statuses]
      BY <1>2 DEF LogStates, Backfills
    <3>2. [log.backfills EXCEPT ![r.key] = r.status] \in [D -> Statuses]
      BY <1>3, <3>1
    <3> QED BY <3>2 DEF Backfills
  <2> QED BY <1>1, <1>2, <2>1 DEF LogStates
<1>6. SoundLog(log')
  <2>1. Answered(log')
    BY <1>2, <1>5 DEF SoundLog, Answered
  <2>2. \A s \in Names : HistoryIn(log', s) = HistoryIn(log, s)
    BY <1>5 DEF HistoryIn
  <2>3. Whole(log')
    BY <1>2, <1>5, <2>2 DEF SoundLog, Whole
  <2>4. Receipted(log')
    BY <1>2, <1>5 DEF SoundLog, Receipted
  <2> QED BY <1>5, <2>1, <2>3, <2>4 DEF SoundLog
<1>7. worker' \in [Processes -> WorkerStates] /\ worker'[p] = own
  BY <1>1, <1>4, AfterWrite
<1>8. Working(p)'
  BY <1>4, <1>7 DEF Working
<1>9. \A q \in Processes \ {p} : Working(q)'
  BY <1>1, <1>4, <1>5, AfterWrite, OthersAreTold
<1> QED BY <1>1, <1>5, <1>6, <1>7, <1>8, <1>9 DEF StatementsInv

LEMMA DieStep ==
  ASSUME StatementsWellFormed, StatementsInv, NEW p \in Processes, Stm!Die(p)
  PROVE  StatementsInv'
<1> DEFINE own == Stm!Idle(worker[p].at, worker[p].attempt + 1)
<1>1. worker' = [worker EXCEPT ![p] = own] /\ UNCHANGED <<desk, log, answers>>
  BY DEF Stm!Die
<1>2. worker \in [Processes -> WorkerStates] /\ worker[p].at \in Nat \ {0} /\ worker[p].attempt + 1 \in Nat
  BY DEF StatementsInv, WorkerStates
<1>3. own \in WorkerStates /\ own.pc = "idle"
  BY <1>2, Places
<1> HIDE DEF own
<1>4. /\ worker' \in [Processes -> WorkerStates] /\ worker'[p] = own
      /\ \A q \in Processes \ {p} : worker'[q] = worker[q]
  BY <1>1, <1>2, <1>3
<1>5. Working(p)'
  BY <1>3, <1>4 DEF Working
<1>6. \A q \in Processes \ {p} : Working(q)'
  BY <1>1, <1>4, OthersWork
<1> QED BY <1>1, <1>4, <1>5, <1>6 DEF StatementsInv

LEMMA StatementsInvariant == StatementsWellFormed => (Stm!Spec => []StatementsInv)
<1> SUFFICES ASSUME StatementsWellFormed PROVE Stm!Spec => []StatementsInv
  OBVIOUS
<1>1. Stm!Init => StatementsInv
  BY InvInit
<1>2. StatementsInv /\ [Stm!Next]_Stm!statementsVars => StatementsInv'
  <2> SUFFICES ASSUME StatementsInv, [Stm!Next]_Stm!statementsVars PROVE StatementsInv'
    OBVIOUS
  <2>1. ASSUME NEW p \in Processes,
               Stm!Acquire(p) \/ Stm!AssertOwned(p) \/ Stm!Read(p) \/ Stm!Write(p) \/ Stm!Leave(p)
               \/ Stm!WriteBackfill(p) \/ Stm!Die(p)
        PROVE  StatementsInv'
    BY <2>1, AcquireStep, AssertOwnedStep, ReadStep, WriteStep, LeaveStep, WriteBackfillStep, DieStep
  <2>2. CASE UNCHANGED <<desk, log, worker, answers>>
    <3>1. \A q \in Processes : Working(q)'
      BY <2>2, OthersWork
    <3> QED BY <2>2, <3>1 DEF StatementsInv
  <2>3. ASSUME NEW s \in Names, Stm!Expire(s) PROVE StatementsInv'
    BY <2>2, <2>3 DEF Stm!Expire
  <2> QED BY <2>1, <2>2, <2>3 DEF Stm!Next, Stm!statementsVars
<1> QED BY <1>1, <1>2, PTL DEF Stm!Spec

(* One receipt per key and kind of request, one conflict per request after
   it; a transaction that nobody disturbed sees the file (Write). *)
THEOREM StatementsTypes == StatementsWellFormed => (Stm!Spec => []Stm!TypeOK)
<1> SUFFICES ASSUME StatementsWellFormed PROVE Stm!Spec => []Stm!TypeOK
  OBVIOUS
<1>1. StatementsInv => Stm!TypeOK
  BY DEF StatementsInv, SoundLog, Answered, Working, Stm!TypeOK
<1> QED BY <1>1, StatementsInvariant, PTL

(* A claim's revisions are numbered without a gap up to its head, and none
   comes after a terminal one (PersistCommit, Obstacle). *)
THEOREM HistoriesAreWholeHolds == StatementsWellFormed => (Stm!Spec => []Stm!HistoriesAreWhole)
<1> SUFFICES ASSUME StatementsWellFormed PROVE Stm!Spec => []Stm!HistoriesAreWhole
  OBVIOUS
<1>1. StatementsInv => Stm!HistoriesAreWhole
  <2> SUFFICES ASSUME StatementsInv, NEW s \in Names
               PROVE  /\ {record.revision : record \in Stm!History(s)} = 1 .. log.heads[s]
                      /\ Cardinality(Stm!History(s)) = log.heads[s]
                      /\ \A record \in Stm!History(s) :
                           record.status \in {"rejected", "superseded", "retracted"} => record.revision = log.heads[s]
    BY SameCount DEF Stm!HistoriesAreWhole
  <2>1. Stm!History(s) = HistoryIn(log, s) /\ Whole(log)
    BY DEF Stm!History, HistoryIn, StatementsInv, SoundLog
  <2>2. \A x \in Stm!History(s) : x \in log.revisions /\ x.statement = s
    BY DEF Stm!History
  <2>3. \A x \in Stm!History(s) : x.revision \in 1 .. log.heads[s]
    BY <2>1, <2>2 DEF Whole
  <2> QED BY <2>1, <2>2, <2>3 DEF Whole, Stm!IsTerminal
<1> QED BY <1>1, StatementsInvariant, PTL

(* What a model said is proposed or retracted, whoever decides (Enforced). *)
THEOREM ModelsAreHeldBackHolds == StatementsWellFormed => (Stm!Spec => []Stm!ModelsAreHeldBack)
<1> SUFFICES ASSUME StatementsWellFormed PROVE Stm!Spec => []Stm!ModelsAreHeldBack
  OBVIOUS
<1>1. StatementsInv => Stm!ModelsAreHeldBack
  BY DEF StatementsInv, SoundLog, Whole, Stm!ModelsAreHeldBack
<1> QED BY <1>1, StatementsInvariant, PTL

(* Every revision is the commit of one receipt, whose request expected the
   revision before it, and no request committed twice (Outcomes). *)
THEOREM RevisionsHaveReceiptsHolds == StatementsWellFormed => (Stm!Spec => []Stm!RevisionsHaveReceipts)
<1> SUFFICES ASSUME StatementsWellFormed PROVE Stm!Spec => []Stm!RevisionsHaveReceipts
  OBVIOUS
<1>1. StatementsInv => Stm!RevisionsHaveReceipts
  <2> SUFFICES ASSUME StatementsInv PROVE Stm!RevisionsHaveReceipts
    OBVIOUS
  <2>1. Receipted(log)
    BY DEF StatementsInv, SoundLog
  <2>2. ASSUME NEW record \in log.revisions
        PROVE  Cardinality({c \in log.receipts : Stm!IsCommitOf(c, record)}) = 1
    <3>1. PICK c \in log.receipts : Stm!IsCommitOf(c, record)
      BY <2>1 DEF Receipted
    <3>2. {d \in log.receipts : Stm!IsCommitOf(d, record)} = {c}
      BY <2>1, <3>1 DEF Receipted
    <3> QED BY <3>2, FS_Singleton
  <2> QED BY <2>1, <2>2, SameCount DEF Receipted, Stm!RevisionsHaveReceipts
<1> QED BY <1>1, StatementsInvariant, PTL

(* A request that was answered is answered so ever after, by whichever
   process, after crashes and stalls, from whichever release (Outcomes). *)
THEOREM AnswersAreStableHolds == StatementsWellFormed => (Stm!Spec => []Stm!AnswersAreStable)
<1> SUFFICES ASSUME StatementsWellFormed PROVE Stm!Spec => []Stm!AnswersAreStable
  OBVIOUS
<1>1. StatementsInv => Stm!AnswersAreStable
  <2> SUFFICES ASSUME StatementsInv PROVE Stm!AnswersAreStable
    OBVIOUS
  <2>1. \A a \in answers : \E c \in log.receipts \cup log.conflicts : c.print.of = a.request /\ c.result = a.result
    BY DEF StatementsInv
  <2>2. \A c, d \in log.receipts \cup log.conflicts : c.print.of = d.print.of => c.result = d.result
    <3>1. Answered(log)
      BY DEF StatementsInv, SoundLog
    <3> SUFFICES ASSUME NEW c \in log.receipts \cup log.conflicts, NEW d \in log.receipts \cup log.conflicts,
                        c.print.of = d.print.of
                 PROVE  c.result = d.result
      OBVIOUS
    <3>2. c.key = d.key /\ c.kind = d.kind
      BY <3>1 DEF Answered
    <3>3. \A x \in log.receipts, y \in log.conflicts : x.key = y.key /\ x.kind = y.kind => x.print.of # y.print.of
      BY <3>1 DEF Answered
    <3> QED BY <3>1, <3>2, <3>3 DEF Answered
  <2> QED BY <2>1, <2>2 DEF Stm!AnswersAreStable
<1> QED BY <1>1, StatementsInvariant, PTL

--------------------
(* The object stores *)

Obj == INSTANCE ObjectStores
         WITH Setups <- Depots, Calls <- Accesses, Keys <- ObjectKeys, setup <- depot, call <- access

Makers == Accesses \cup {"old"}

StoredObjects == [file : Makers, content : [1 .. 2 -> Makers \cup {Missing}]]

StoreNames == {"memory", "files", "early", "late", "blob"}

ObjectRequests == [kind : {"create", "overwrite", "delete"}, key : Obj!KeySet] \cup [kind : {"list"}, key : {"none"}]

CallPlaces ==
  {"idle", "sending", "writing", "closed", "removing", "confirming", "found", "unlinked", "listing", "ended"}

CallAnswers == {"stored", "exists", "rejected", "unknown", "died", "gone", "deleted", "listed"}

CallRecords ==
  [pc : CallPlaces, file : Makers \cup {Missing}, wrote : Nat, found : SUBSET Obj!KeySet,
   answer : CallAnswers \cup {Missing}, adrift : BOOLEAN]

(* What is asked of the setups: that calls are of keys and stores there
   are, and the marks for "nothing" and for earlier calls are none of them. *)
ObjectsWellFormed ==
  /\ IsFiniteSet(Accesses) /\ "old" \notin Accesses /\ Accesses \cap Obj!KeySet = {}
  /\ ObjectKeys \in Seq(Obj!KeySet) /\ Len(ObjectKeys) > 0 /\ "none" \notin Obj!KeySet
  /\ Missing \notin StoredObjects \cup Makers \cup CallAnswers
  /\ \A s \in Depots :
       /\ s.store \in StoreNames /\ s.leased \in BOOLEAN /\ s.before \subseteq Obj!KeySet
       /\ DOMAIN s.requests \subseteq Accesses /\ \A c \in DOMAIN s.requests : s.requests[c] \in ObjectRequests

--------------------
(* The invariant *)

(* Where a call may be, by its kind and the store. *)
Placed(c) ==
  /\ access[c].pc = "sending" => Obj!IsPut(c) /\ Obj!Under({"memory", "blob"})
  /\ access[c].pc = "writing" => Obj!IsPut(c) /\ Obj!Under({"files", "early", "late"})
  /\ access[c].pc \in {"closed", "confirming"} => Obj!IsPut(c) /\ Obj!Under({"early", "late"})
  /\ access[c].pc = "removing" => Obj!IsPut(c) /\ Obj!Under({"files", "early", "late"})
       /\ (Obj!Under({"files"}) => Obj!IsConditional(c))
  /\ access[c].pc = "found" => Obj!Kind(c) = "delete" /\ Obj!Under({"files", "early", "late", "blob"})
  /\ access[c].pc = "unlinked" => Obj!Kind(c) = "delete" /\ Obj!Under({"files"})
  /\ access[c].pc = "listing" => Obj!Kind(c) = "list" /\ Obj!Under({"files", "blob"})
  /\ access[c].pc = "idle" => access[c].wrote = 0
  /\ access[c].answer # Missing => access[c].pc = "ended"
  /\ access[c].answer = "stored" => Obj!IsPut(c)
  /\ access[c].answer = "listed" => Obj!Kind(c) = "list"
  /\ access[c].adrift => Obj!IsPut(c) /\ Obj!Under({"blob"}) /\ access[c].pc = "ended"
       /\ access[c].answer \in {"unknown", "died"}

ObjectsTyped ==
  /\ depot \in Depots
  /\ objects \in [Obj!KeySet -> StoredObjects \cup {Missing}]
  /\ sidecars \in [Obj!KeySet -> Makers \cup {Missing}]
  /\ access \in [Accesses -> CallRecords]
  /\ \A c \in Obj!Asked : Placed(c)
  /\ \A c \in Accesses \ Obj!Asked : access[c].pc = "ended" /\ ~access[c].adrift

--------------------
(* What a step changes *)

(* The call takes a step that leaves it with this. *)
Becomes(c, place, answer, adrift) ==
  /\ depot' = depot /\ access' \in [Accesses -> CallRecords] /\ \A d \in Accesses \ {c} : access'[d] = access[d]
  /\ access'[c].pc = place /\ access'[c].answer = answer /\ access'[c].adrift = adrift

Same(c) == access'[c].file = access[c].file /\ access'[c].wrote = access[c].wrote

Moves(c, place) == Becomes(c, place, access[c].answer, access[c].adrift)

Goes(c, place) == Moves(c, place) /\ Same(c)

Ends(c, answer) == Becomes(c, "ended", answer, access[c].adrift) /\ Same(c)

Holds(c, object) ==
  /\ objects' \in [Obj!KeySet -> StoredObjects \cup {Missing}]
  /\ objects'[Obj!Key(c)] = object /\ \A k \in Obj!KeySet \ {Obj!Key(c)} : objects'[k] = objects[k]
  /\ sidecars' = sidecars

(* The stores count as everybody does. *)
LEMMA SameSize == \A S : Obj!Cardinality(S) = Cardinality(S)
BY DEF Obj!Cardinality, Cardinality

LEMMA SetupFacts ==
  ASSUME ObjectsWellFormed, depot \in Depots
  PROVE  /\ depot.store \in StoreNames /\ depot.leased \in BOOLEAN /\ depot.before \subseteq Obj!KeySet
         /\ Obj!Asked \subseteq Accesses
         /\ \A c \in Obj!Asked : /\ Obj!Kind(c) \in {"create", "overwrite", "delete", "list"}
                                 /\ Obj!Kind(c) # "list" => Obj!Key(c) \in Obj!KeySet
                                 /\ Obj!Kind(c) = "list" => Obj!Key(c) \notin Obj!KeySet
  BY DEF ObjectsWellFormed, Obj!Asked, Obj!Kind, Obj!Key, ObjectRequests

LEMMA AnswerNames ==
  ASSUME ObjectsWellFormed
  PROVE  /\ \A a \in {"stored", "exists", "rejected", "unknown", "died", "gone", "deleted", "listed"} :
              a \in CallAnswers /\ a # Missing
         /\ Missing \notin Makers /\ Missing \notin StoredObjects
  BY DEF ObjectsWellFormed, CallAnswers

LEMMA CallRecordFacts ==
  ASSUME ObjectsWellFormed, ObjectsTyped, NEW c \in Accesses
  PROVE  /\ access[c] \in CallRecords
         /\ \A place \in CallPlaces :
              /\ Obj!Become(c, place) \in CallRecords /\ Obj!Become(c, place).pc = place
                   /\ Obj!Become(c, place).answer = access[c].answer
              /\ Obj!Become(c, place).adrift = access[c].adrift /\ Obj!Become(c, place).file = access[c].file
              /\ Obj!Become(c, place).wrote = access[c].wrote /\ Obj!Become(c, place).found = access[c].found
         /\ \A a \in CallAnswers :
              /\ Obj!Ended(c, a) \in CallRecords /\ Obj!Ended(c, a).pc = "ended" /\ Obj!Ended(c, a).answer = a
              /\ Obj!Ended(c, a).adrift = access[c].adrift /\ Obj!Ended(c, a).file = access[c].file
              /\ Obj!Ended(c, a).wrote = access[c].wrote /\ Obj!Ended(c, a).found = access[c].found
<1>1. access[c] \in CallRecords
  BY DEF ObjectsTyped
<1>2. ASSUME NEW place \in CallPlaces
      PROVE  /\ Obj!Become(c, place) \in CallRecords /\ Obj!Become(c, place).pc = place
                  /\ Obj!Become(c, place).answer = access[c].answer
             /\ Obj!Become(c, place).adrift = access[c].adrift /\ Obj!Become(c, place).file = access[c].file
             /\ Obj!Become(c, place).wrote = access[c].wrote /\ Obj!Become(c, place).found = access[c].found
  BY <1>1 DEF CallRecords, Obj!Become
<1>3. "ended" \in CallPlaces
  BY DEF CallPlaces
<1>4. ASSUME NEW a \in CallAnswers
      PROVE  /\ Obj!Ended(c, a) \in CallRecords /\ Obj!Ended(c, a).pc = "ended" /\ Obj!Ended(c, a).answer = a
             /\ Obj!Ended(c, a).adrift = access[c].adrift /\ Obj!Ended(c, a).file = access[c].file
             /\ Obj!Ended(c, a).wrote = access[c].wrote /\ Obj!Ended(c, a).found = access[c].found
  BY <1>2, <1>3 DEF CallRecords, Obj!Ended
<1> QED BY <1>1, <1>2, <1>4

LEMMA SetFacts ==
  ASSUME ObjectsTyped, depot' = depot, NEW c \in Accesses, NEW record \in CallRecords, Obj!Set(c, record)
  PROVE  Becomes(c, record.pc, record.answer, record.adrift) /\ access'[c] = record
  BY DEF ObjectsTyped, Obj!Set, Becomes

LEMMA HoldFacts ==
  ASSUME ObjectsTyped, NEW c, Obj!Key(c) \in Obj!KeySet, NEW object \in StoredObjects
       \cup {Missing}, Obj!Hold(c, object)
  PROVE  Holds(c, object)
  BY DEF ObjectsTyped, Obj!Hold, Holds

LEMMA WholeObject ==
  ASSUME NEW c \in Makers
  PROVE  /\ Obj!Whole(c) \in StoredObjects /\ Obj!Whole(c).file = c
         /\ Obj!Whole(c).content[1] = c /\ Obj!Whole(c).content[2] = c
  BY DEF Obj!Whole, StoredObjects

LEMMA AnswerFacts ==
  ASSUME ObjectsWellFormed, ObjectsTyped, depot' = depot, NEW c \in Accesses, NEW a \in CallAnswers, Obj!Answer(c, a)
  PROVE  Ends(c, a)
  BY CallRecordFacts, SetFacts DEF Obj!Answer, Ends, Same

LEMMA BecomeFacts ==
  ASSUME ObjectsWellFormed, ObjectsTyped, depot' = depot, NEW c \in Accesses, NEW place \in CallPlaces,
         Obj!Set(c, Obj!Become(c, place))
  PROVE  Goes(c, place)
  BY CallRecordFacts, SetFacts DEF Goes, Moves, Same

--------------------
(* The steps by what they change, each of one or several actions. *)

Refused(c) ==
  /\ access[c].pc \in {"idle", "sending"} /\ Obj!IsPut(c) /\ Obj!Untouched
  /\ Ends(c, "exists") \/ Ends(c, "rejected")

Begun(c) ==
  /\ Obj!MayBegin(c) /\ Obj!IsPut(c) /\ Obj!Untouched
  /\ (Obj!Under({"memory", "blob"}) /\ Goes(c, "sending")) \/ (Obj!Under({"late"}) /\ Goes(c, "writing"))

Landed(c) ==
  /\ access[c].pc = "sending" /\ Ends(c, "stored")
  /\ Holds(c, Obj!Whole(c)) /\ (Obj!IsConditional(c) => Obj!Here(c) = Missing)

Lost(c) ==
  /\ access[c].pc = "sending" /\ Obj!Under({"blob"}) /\ Obj!Untouched /\ Same(c)
  /\ \E adrift \in BOOLEAN : Becomes(c, "ended", "unknown", adrift)

Arrived(c) ==
  /\ access[c].adrift /\ Becomes(c, access[c].pc, access[c].answer, FALSE) /\ Same(c)
  /\ Obj!Untouched \/ (Holds(c, Obj!Whole(c)) /\ (Obj!IsConditional(c) => Obj!Here(c) = Missing))

OpenedInPlace(c) ==
  /\ Obj!MayBegin(c) /\ Obj!IsPut(c) /\ Obj!InPlace /\ (Obj!IsConditional(c) => Obj!Here(c) = Missing)
  /\ Moves(c, "writing") /\ access'[c].wrote = access[c].wrote
  /\ Holds(c, Obj!Opened(c)) /\ access'[c].file = Obj!Opened(c).file /\ Obj!Opened(c) \in StoredObjects

Rewritten(c, object) ==
  /\ object \in StoredObjects /\ object.file = Obj!Here(c).file
  /\ \A i \in 1 .. 2 : object.content[i] = IF i = access[c].wrote + 1 THEN c ELSE Obj!Here(c).content[i]

Wrote(c) ==
  /\ access[c].pc = "writing" /\ access[c].wrote < 2 /\ Moves(c, "writing")
  /\ access'[c].file = access[c].file /\ access'[c].wrote = access[c].wrote + 1
  /\ IF Obj!InPlace /\ Obj!Here(c) # Missing /\ Obj!Here(c).file = access[c].file
     THEN \E object \in StoredObjects : Rewritten(c, object) /\ Holds(c, object)
     ELSE Obj!Untouched

Failing(c) ==
  /\ access[c].pc = "writing" /\ Obj!Untouched
  /\ \/ Goes(c, "removing") /\ (Obj!Under({"files"}) => Obj!IsConditional(c))
     \/ Ends(c, "unknown")
     \/ Ends(c, "rejected") /\ access[c].wrote = 0 /\ Obj!Under({"early", "late"}) /\ Obj!IsConditional(c)

Described(c) ==
  /\ access[c].pc = "writing" /\ access[c].wrote = 2 /\ Obj!Under({"files"}) /\ Ends(c, "stored")
  /\ sidecars' \in [Obj!KeySet -> Makers \cup {Missing}] /\ sidecars'[Obj!Key(c)] = c
  /\ \A k \in Obj!KeySet \ {Obj!Key(c)} : sidecars'[k] = sidecars[k]
  /\ objects' = objects

Closed(c) ==
  /\ access[c].pc = "writing" /\ access[c].wrote = 2
  /\ \/ Obj!Under({"early"}) /\ Obj!Untouched /\ Goes(c, "closed")
     \/ Obj!Under({"late"}) /\ Holds(c, Obj!Whole(c))
          /\ (Goes(c, "closed") \/ Goes(c, "removing") \/ Ends(c, "unknown"))

Settled(c) ==
  /\ access[c].pc = "closed" /\ Obj!Untouched
  /\ Ends(c, "stored") \/ Ends(c, "unknown")

Removed(c) ==
  /\ access[c].pc = "removing"
  /\ \/ Holds(c, Missing) /\ Obj!Under({"files"}) /\ Ends(c, "rejected")
     \/ Obj!Untouched /\ Obj!Under({"files"}) /\ Ends(c, "unknown")
     \/ (Holds(c, Missing) \/ Obj!Untouched) /\ ~Obj!Under({"files"}) /\ Goes(c, "confirming")

Confirmed(c) ==
  /\ access[c].pc = "confirming" /\ Obj!Untouched
  /\ (Obj!Here(c) = Missing /\ Ends(c, "rejected")) \/ Ends(c, "unknown")

Found(c) ==
  /\ Obj!MayBegin(c) /\ Obj!Kind(c) = "delete"
  /\ \/ Obj!Under({"memory"}) /\ Holds(c, Missing) /\ Obj!Here(c) = Missing /\ Ends(c, "gone")
     \/ Obj!Under({"memory"}) /\ Holds(c, Missing) /\ Obj!Here(c) # Missing /\ Ends(c, "deleted")
     \/ ~Obj!Under({"memory"}) /\ Obj!Untouched /\ Ends(c, "gone")
     \/ ~Obj!Under({"memory"}) /\ Obj!Untouched /\ Moves(c, "found")

Deleted(c) ==
  /\ access[c].pc = "found"
  /\ \/ Obj!Matches(c) /\ Holds(c, Missing) /\ Obj!Under({"files"}) /\ Goes(c, "unlinked")
     \/ Obj!Matches(c) /\ Holds(c, Missing) /\ ~Obj!Under({"files"}) /\ Ends(c, "deleted")
     \/ Obj!Untouched /\ Ends(c, "gone") /\ ~Obj!Matches(c)
     \/ (Obj!Untouched \/ Holds(c, Missing)) /\ Ends(c, "unknown")

Unlinked(c) ==
  /\ access[c].pc = "unlinked" /\ objects' = objects
  /\ sidecars' \in [Obj!KeySet -> Makers \cup {Missing}]
  /\ \A k \in Obj!KeySet \ {Obj!Key(c)} : sidecars'[k] = sidecars[k]
  /\ \/ sidecars'[Obj!Key(c)] = Missing /\ (Ends(c, "gone") \/ Ends(c, "deleted"))
     \/ sidecars' = sidecars /\ Ends(c, "unknown")

Listed(c) ==
  /\ Obj!Kind(c) = "list" /\ access[c].pc = "idle" /\ Obj!Untouched
  /\ \/ /\ Obj!Under({"memory", "early", "late"}) /\ Becomes(c, "ended", "listed", access[c].adrift)
        /\ access'[c].found = Obj!Present(objects)
     \/ /\ Obj!Under({"files", "blob"}) /\ Moves(c, "listing") /\ access'[c].wrote = access[c].wrote
        /\ access'[c].found = IF Obj!Under({"files"}) THEN Obj!Present(objects) ELSE {}

PageOf(c) ==
  LET k == ObjectKeys[access[c].wrote + 1] IN
  IF Obj!Under({"files"}) THEN IF Obj!HasHead(k) THEN access[c].found ELSE access[c].found \ {k}
  ELSE access[c].found \cup ({k} \cap Obj!Present(objects))

ListedNext(c) ==
  /\ access[c].pc = "listing" /\ Obj!Untouched
  /\ access'[c].wrote = access[c].wrote + 1 /\ access'[c].found = PageOf(c)
  /\ \/ access[c].wrote + 1 = Len(ObjectKeys) /\ Becomes(c, "ended", "listed", access[c].adrift)
     \/ access[c].wrote + 1 # Len(ObjectKeys) /\ Moves(c, "listing")

Died(c) ==
  /\ Obj!UnderWay(c) /\ Obj!Untouched
  /\ \E adrift \in BOOLEAN : /\ Becomes(c, "ended", "died", adrift)
                             /\ adrift => Obj!Under({"blob"}) /\ access[c].pc = "sending"

PutStep(c) ==
  \/ Refused(c) \/ Begun(c) \/ Landed(c) \/ Lost(c) \/ Arrived(c) \/ OpenedInPlace(c) \/ Wrote(c)
  \/ Failing(c) \/ Described(c) \/ Closed(c) \/ Settled(c) \/ Removed(c) \/ Confirmed(c)

ObjectStep(c) ==
  PutStep(c) \/ Found(c) \/ Deleted(c) \/ Unlinked(c) \/ Listed(c) \/ ListedNext(c) \/ Died(c)

PutAction(c) ==
  \/ Obj!LookFirst(c) \/ Obj!SourceFails(c) \/ Obj!Keep(c) \/ Obj!Unheard(c) \/ Obj!Arrive(c)
  \/ Obj!Open(c) \/ Obj!Write(c) \/ Obj!WriteFails(c) \/ Obj!Describe(c)
  \/ Obj!Close(c) \/ Obj!CloseFails(c) \/ Obj!Stat(c) \/ Obj!Remove(c) \/ Obj!Confirm(c)

ObjectAction(c) ==
  \/ PutAction(c)
  \/ Obj!FindIt(c) \/ Obj!DeleteIt(c) \/ Obj!DeleteSidecar(c)
  \/ Obj!List(c) \/ Obj!ListNext(c) \/ Obj!Die(c)

LEMMA StepContext ==
  ASSUME ObjectsWellFormed, ObjectsTyped, depot' = depot, NEW c \in Obj!Asked
  PROVE  /\ c \in Accesses /\ c \in Makers /\ Placed(c) /\ access[c] \in CallRecords /\ depot.store \in StoreNames
         /\ access[c].wrote \in Nat /\ access[c].file \in Makers \cup {Missing} /\ access[c].adrift \in BOOLEAN
         /\ access[c].answer \in CallAnswers \cup {Missing} /\ access[c].found \subseteq Obj!KeySet
         /\ Obj!IsPut(c) => Obj!Kind(c) # "list"
         /\ Obj!Kind(c) # "list" => Obj!Key(c) \in Obj!KeySet /\ Obj!Here(c) \in StoredObjects \cup {Missing}
         /\ Obj!Kind(c) # "list" /\ Obj!Hold(c, Missing) => Holds(c, Missing)
         /\ Obj!Kind(c) # "list" /\ Obj!Land(c) => Holds(c, Obj!Whole(c))
         /\ \A object \in StoredObjects : Obj!Kind(c) # "list" /\ Obj!Hold(c, object) => Holds(c, object)
<1>1. /\ c \in Accesses /\ c \in Makers /\ Placed(c) /\ access[c] \in CallRecords /\ depot.store \in StoreNames
      /\ access[c].wrote \in Nat /\ access[c].file \in Makers \cup {Missing} /\ access[c].adrift \in BOOLEAN
      /\ access[c].answer \in CallAnswers \cup {Missing} /\ access[c].found \subseteq Obj!KeySet
  BY SetupFacts DEF ObjectsTyped, CallRecords, Makers
<1>2. Obj!Kind(c) # "list" => Obj!Key(c) \in Obj!KeySet /\ Obj!Here(c) \in StoredObjects \cup {Missing}
  BY SetupFacts DEF ObjectsTyped, Obj!Here
<1>3. Obj!IsPut(c) => Obj!Kind(c) # "list"
  BY DEF Obj!IsPut
<1>4. \A object \in StoredObjects \cup {Missing} : Obj!Kind(c) # "list" /\ Obj!Hold(c, object) => Holds(c, object)
  BY <1>2, HoldFacts
<1>5. Obj!Kind(c) # "list" /\ Obj!Land(c) => Holds(c, Obj!Whole(c))
  BY <1>1, <1>4, WholeObject DEF Obj!Land
<1> QED BY <1>1, <1>2, <1>3, <1>4, <1>5

LEMMA AnswersEnd ==
  ASSUME ObjectsWellFormed, ObjectsTyped, depot' = depot, NEW c \in Obj!Asked
  PROVE  /\ Obj!Answer(c, "stored") => Ends(c, "stored")
         /\ Obj!Answer(c, "exists") => Ends(c, "exists")
         /\ Obj!Answer(c, "rejected") => Ends(c, "rejected")
         /\ Obj!Answer(c, "unknown") => Ends(c, "unknown")
         /\ Obj!Answer(c, "gone") => Ends(c, "gone")
         /\ Obj!Answer(c, "deleted") => Ends(c, "deleted")
<1>1. c \in Accesses
  BY StepContext
<1>2. \A a \in CallAnswers : Obj!Answer(c, a) => Ends(c, a)
  BY <1>1, AnswerFacts
<1> QED BY <1>2 DEF CallAnswers

LEMMA PlacesMove ==
  ASSUME ObjectsWellFormed, ObjectsTyped, depot' = depot, NEW c \in Obj!Asked
  PROVE  /\ Obj!Set(c, Obj!Become(c, "sending")) => Goes(c, "sending")
         /\ Obj!Set(c, Obj!Become(c, "writing")) => Goes(c, "writing")
         /\ Obj!Set(c, Obj!Become(c, "closed")) => Goes(c, "closed")
         /\ Obj!Set(c, Obj!Become(c, "removing")) => Goes(c, "removing")
         /\ Obj!Set(c, Obj!Become(c, "confirming")) => Goes(c, "confirming")
         /\ Obj!Set(c, Obj!Become(c, "unlinked")) => Goes(c, "unlinked")
<1>1. c \in Accesses
  BY StepContext
<1>2. \A place \in CallPlaces : Obj!Set(c, Obj!Become(c, place)) => Goes(c, place)
  BY <1>1, BecomeFacts
<1> QED BY <1>2 DEF CallPlaces

LEMMA PutsAct ==
  ASSUME ObjectsWellFormed, ObjectsTyped, depot' = depot, NEW c \in Obj!Asked, PutAction(c)
  PROVE  PutStep(c)
<1>1. /\ c \in Accesses /\ c \in Makers /\ Placed(c) /\ access[c] \in CallRecords /\ depot.store \in StoreNames
      /\ access[c].wrote \in Nat /\ access[c].file \in Makers \cup {Missing} /\ access[c].adrift \in BOOLEAN
      /\ access[c].answer \in CallAnswers \cup {Missing}
      /\ Obj!IsPut(c) => Obj!Key(c) \in Obj!KeySet /\ Obj!Here(c) \in StoredObjects \cup {Missing}
      /\ Obj!IsPut(c) /\ Obj!Hold(c, Missing) => Holds(c, Missing)
      /\ Obj!IsPut(c) /\ Obj!Land(c) => Holds(c, Obj!Whole(c))
      /\ \A object \in StoredObjects : Obj!IsPut(c) /\ Obj!Hold(c, object) => Holds(c, object)
  BY StepContext
<1>2. /\ Obj!Answer(c, "stored") => Ends(c, "stored")
      /\ Obj!Answer(c, "exists") => Ends(c, "exists")
      /\ Obj!Answer(c, "rejected") => Ends(c, "rejected")
      /\ Obj!Answer(c, "unknown") => Ends(c, "unknown")
  BY AnswersEnd
<1>3. /\ Obj!Set(c, Obj!Become(c, "sending")) => Goes(c, "sending")
      /\ Obj!Set(c, Obj!Become(c, "writing")) => Goes(c, "writing")
      /\ Obj!Set(c, Obj!Become(c, "closed")) => Goes(c, "closed")
      /\ Obj!Set(c, Obj!Become(c, "removing")) => Goes(c, "removing")
      /\ Obj!Set(c, Obj!Become(c, "confirming")) => Goes(c, "confirming")
  BY PlacesMove
<1>4. "unknown" \in CallAnswers /\ {"writing", "sending"} \subseteq CallPlaces
  BY DEF CallPlaces, CallAnswers
<1>10. CASE Obj!LookFirst(c)
  <2>1. Obj!MayBegin(c) /\ Obj!IsPut(c) /\ Obj!Under({"memory", "blob"}) /\ Obj!Untouched
    BY <1>10 DEF Obj!LookFirst
  <2>2. Obj!Answer(c, "exists") \/ Obj!Set(c, Obj!Become(c, "sending"))
    BY <1>10 DEF Obj!LookFirst
  <2>3. CASE Obj!Answer(c, "exists")
    BY <1>2, <2>1, <2>3 DEF Obj!MayBegin, PutStep, Refused
  <2>4. CASE Obj!Set(c, Obj!Become(c, "sending"))
    BY <1>3, <2>1, <2>4 DEF PutStep, Begun
  <2> QED BY <2>2, <2>3, <2>4
<1>11. CASE Obj!SourceFails(c)
  BY <1>1, <1>2, <1>11 DEF Obj!SourceFails, Obj!At, PutStep, Refused, Placed
<1>12. CASE Obj!Keep(c)
  <2>1. access[c].pc = "sending" /\ Obj!IsPut(c)
    BY <1>1, <1>12 DEF Obj!Keep, Obj!At, Placed
  <2>2. CASE Obj!IsConditional(c) /\ Obj!Here(c) # Missing
    <3>1. Obj!Answer(c, "exists") /\ Obj!Untouched
      BY <1>12, <2>2 DEF Obj!Keep
    <3> QED BY <1>2, <2>1, <3>1 DEF PutStep, Refused
  <2>3. CASE ~(Obj!IsConditional(c) /\ Obj!Here(c) # Missing)
    <3>1. Obj!Answer(c, "stored") /\ Obj!Land(c)
      BY <1>12, <2>3 DEF Obj!Keep
    <3> QED BY <1>1, <1>2, <2>1, <2>3, <3>1 DEF PutStep, Landed
  <2> QED BY <2>2, <2>3
<1>13. CASE Obj!Unheard(c)
  <2>1. access[c].pc = "sending" /\ Obj!IsPut(c) /\ Obj!Under({"blob"})
    BY <1>1, <1>13 DEF Obj!Unheard, Obj!At, Placed
  <2>2. CASE Obj!Answer(c, "rejected") /\ Obj!Untouched
    BY <1>2, <2>1, <2>2 DEF PutStep, Refused
  <2>3. CASE Obj!Answer(c, "unknown") /\ Obj!Untouched
    <3>1. Becomes(c, "ended", "unknown", access[c].adrift) /\ Same(c)
      BY <1>2, <2>3 DEF Ends
    <3> QED BY <1>1, <2>1, <2>3, <3>1 DEF PutStep, Lost
  <2>4. CASE Obj!Set(c, [Obj!Ended(c, "unknown") EXCEPT !.adrift = TRUE]) /\ Obj!Untouched
    <3> DEFINE record == [Obj!Ended(c, "unknown") EXCEPT !.adrift = TRUE]
    <3>1. /\ Obj!Ended(c, "unknown") \in CallRecords /\ Obj!Ended(c, "unknown").pc = "ended"
          /\ Obj!Ended(c, "unknown").answer = "unknown"
          /\ Obj!Ended(c, "unknown").file = access[c].file /\ Obj!Ended(c, "unknown").wrote = access[c].wrote
      BY <1>1, <1>4, CallRecordFacts
    <3>2. /\ record \in CallRecords /\ record.pc = "ended" /\ record.answer = "unknown" /\ record.adrift = TRUE
          /\ record.file = access[c].file /\ record.wrote = access[c].wrote
      <4> HIDE DEF Obj!Ended
      <4> QED BY <3>1 DEF CallRecords
    <3>3. Obj!Set(c, record)
      BY <2>4
    <3> HIDE DEF record
    <3>4. Becomes(c, record.pc, record.answer, record.adrift) /\ access'[c] = record
      BY <1>1, <3>2, <3>3, SetFacts
    <3>5. Becomes(c, "ended", "unknown", TRUE) /\ Same(c)
      BY <3>2, <3>4 DEF Same
    <3> QED BY <2>1, <2>4, <3>5 DEF PutStep, Lost
  <2> QED BY <1>13, <2>2, <2>3, <2>4 DEF Obj!Unheard
<1>14. CASE Obj!Arrive(c)
  <2> DEFINE record == [access[c] EXCEPT !.adrift = FALSE]
  <2>1. access[c].adrift /\ Obj!IsPut(c) /\ Obj!Set(c, record)
    BY <1>1, <1>14 DEF Obj!Arrive, Placed
  <2>2. /\ record \in CallRecords /\ record.pc = access[c].pc /\ record.answer = access[c].answer
             /\ record.adrift = FALSE
        /\ record.file = access[c].file /\ record.wrote = access[c].wrote
    BY <1>1 DEF CallRecords
  <2> HIDE DEF record
  <2>3. Becomes(c, record.pc, record.answer, record.adrift) /\ access'[c] = record
    BY <1>1, <2>1, <2>2, SetFacts
  <2>4. Becomes(c, access[c].pc, access[c].answer, FALSE) /\ Same(c)
    BY <2>2, <2>3 DEF Same
  <2>5. Obj!Untouched \/ (Obj!Land(c) /\ ~(Obj!IsConditional(c) /\ Obj!Here(c) # Missing))
    BY <1>14 DEF Obj!Arrive
  <2> QED BY <1>1, <2>1, <2>4, <2>5 DEF PutStep, Arrived
<1>15. CASE Obj!Open(c)
  <2>1. Obj!MayBegin(c) /\ Obj!IsPut(c) /\ access[c].pc = "idle"
    BY <1>15 DEF Obj!Open, Obj!MayBegin
  <2>2. CASE (Obj!Answer(c, "rejected") \/ Obj!Answer(c, "exists")) /\ Obj!Untouched
    BY <1>2, <2>1, <2>2 DEF PutStep, Refused
  <2>3. CASE Obj!Under({"late"}) /\ Obj!Set(c, Obj!Become(c, "writing")) /\ Obj!Untouched
    BY <1>3, <2>1, <2>3 DEF PutStep, Begun
  <2>4. CASE /\ Obj!InPlace /\ ~(Obj!IsConditional(c) /\ Obj!Here(c) # Missing)
             /\ Obj!Set(c, [Obj!Become(c, "writing") EXCEPT !.file = Obj!Opened(c).file])
                  /\ Obj!Hold(c, Obj!Opened(c))
    <3>1. Obj!Opened(c) \in StoredObjects /\ Obj!Opened(c).file \in Makers
      <4>1. <<Missing, Missing>> \in [1 .. 2 -> Makers \cup {Missing}]
        OBVIOUS
      <4>2. Obj!Here(c) # Missing => Obj!Here(c).file \in Makers
        BY <1>1, <2>1 DEF StoredObjects
      <4> QED BY <1>1, <4>1, <4>2 DEF Obj!Opened, StoredObjects
    <3> DEFINE file == Obj!Opened(c).file
               record == [Obj!Become(c, "writing") EXCEPT !.file = file]
    <3>2. file \in Makers \cup {Missing}
      BY <3>1
    <3> HIDE DEF file
    <3>3. /\ Obj!Become(c, "writing") \in CallRecords /\ Obj!Become(c, "writing").pc = "writing"
          /\ Obj!Become(c, "writing").answer = access[c].answer /\ Obj!Become(c, "writing").adrift = access[c].adrift
          /\ Obj!Become(c, "writing").wrote = access[c].wrote
      BY <1>1, <1>4, CallRecordFacts
    <3>4. /\ record \in CallRecords /\ record.pc = "writing" /\ record.answer = access[c].answer
          /\ record.adrift = access[c].adrift /\ record.file = file /\ record.wrote = access[c].wrote
      BY <3>2, <3>3 DEF CallRecords
    <3>5. Obj!Set(c, record)
      BY <2>4 DEF file
    <3> HIDE DEF record
    <3>6. Becomes(c, record.pc, record.answer, record.adrift) /\ access'[c] = record
      BY <1>1, <3>4, <3>5, SetFacts
    <3>7. Moves(c, "writing") /\ access'[c].wrote = access[c].wrote /\ access'[c].file = Obj!Opened(c).file
      BY <3>4, <3>6 DEF Moves, file
    <3>8. Holds(c, Obj!Opened(c))
      BY <1>1, <2>1, <2>4, <3>1
    <3> QED BY <2>1, <2>4, <3>1, <3>7, <3>8 DEF PutStep, OpenedInPlace
  <2> QED BY <1>15, <2>2, <2>3, <2>4 DEF Obj!Open, Obj!OpenRefused
<1>16. CASE Obj!Write(c)
  <2>1. access[c].pc = "writing" /\ access[c].wrote < 2 /\ Obj!IsPut(c)
    BY <1>1, <1>16 DEF Obj!Write, Obj!At, Placed
  <2>2. PICK n \in Nat : n = access[c].wrote + 1
    BY <1>1
  <2> DEFINE record == [access[c] EXCEPT !.wrote = n]
             object == [Obj!Here(c) EXCEPT !.content[access[c].wrote + 1] = c]
  <2>3. /\ record \in CallRecords /\ record.pc = access[c].pc /\ record.answer = access[c].answer
        /\ record.adrift = access[c].adrift /\ record.file = access[c].file /\ record.wrote = n
    BY <1>1 DEF CallRecords
  <2>4. Obj!Set(c, record)
    BY <1>16, <2>2 DEF Obj!Write
  <2> HIDE DEF record
  <2>5. Becomes(c, record.pc, record.answer, record.adrift) /\ access'[c] = record
    BY <1>1, <2>3, <2>4, SetFacts
  <2>6. Moves(c, "writing") /\ access'[c].wrote = access[c].wrote + 1 /\ access'[c].file = access[c].file
    BY <2>1, <2>2, <2>3, <2>5 DEF Moves
  <2>7. ASSUME Obj!Here(c) # Missing
        PROVE  Rewritten(c, object)
    <3>1. Obj!Here(c) \in StoredObjects
      BY <1>1, <2>1, <2>7
    <3>2. Obj!Here(c).content \in [1 .. 2 -> Makers \cup {Missing}] /\ Obj!Here(c).file \in Makers
      BY <3>1 DEF StoredObjects
    <3>3. object = [file |-> Obj!Here(c).file, content |-> [Obj!Here(c).content EXCEPT ![n] = c]]
      BY <3>1, <2>2 DEF StoredObjects
    <3>4. [Obj!Here(c).content EXCEPT ![n] = c] \in [1 .. 2 -> Makers \cup {Missing}]
      BY <3>2, <1>1
    <3>5. object \in StoredObjects /\ object.file = Obj!Here(c).file
      BY <3>2, <3>3, <3>4 DEF StoredObjects
    <3>6. \A i \in 1 .. 2 : object.content[i] = IF i = access[c].wrote + 1 THEN c ELSE Obj!Here(c).content[i]
      BY <2>2, <3>2, <3>3
    <3> QED BY <3>5, <3>6 DEF Rewritten
  <2>8. CASE Obj!InPlace /\ Obj!Here(c) # Missing /\ Obj!Here(c).file = access[c].file
    <3>1. Obj!Hold(c, object)
      BY <1>16, <2>8 DEF Obj!Write
    <3> HIDE DEF object
    <3>2. Rewritten(c, object) /\ object \in StoredObjects
      BY <2>7, <2>8 DEF Rewritten
    <3>3. Holds(c, object)
      BY <1>1, <2>1, <3>1, <3>2
    <3> QED BY <2>1, <2>6, <2>8, <3>2, <3>3 DEF PutStep, Wrote
  <2>9. CASE ~(Obj!InPlace /\ Obj!Here(c) # Missing /\ Obj!Here(c).file = access[c].file)
    <3>1. Obj!Untouched
      BY <1>16, <2>9 DEF Obj!Write
    <3> QED BY <2>1, <2>6, <2>9, <3>1 DEF PutStep, Wrote
  <2> QED BY <2>8, <2>9
<1>17. CASE Obj!WriteFails(c)
  <2>1. PICK wroteAny \in {access[c].wrote > 0, TRUE} :
          IF Obj!Removes(c, wroteAny)
            THEN Obj!Set(c, Obj!Become(c, "removing"))
            ELSE Obj!Answer(c, Obj!AnswerOfFailure)
    BY <1>17 DEF Obj!WriteFails
  <2>2. access[c].pc = "writing" /\ Obj!Untouched /\ Obj!Under({"files", "early", "late"})
    BY <1>1, <1>17 DEF Obj!WriteFails, Obj!At, Placed
  <2>3. CASE Obj!Removes(c, wroteAny)
    <3>1. Goes(c, "removing")
      BY <1>3, <2>1, <2>3
    <3>2. Obj!Under({"files"}) => Obj!IsConditional(c)
      BY <2>3 DEF Obj!Removes
    <3> QED BY <2>2, <3>1, <3>2 DEF PutStep, Failing
  <2>4. CASE ~Obj!Removes(c, wroteAny) /\ Obj!Under({"files"})
    <3>1. Ends(c, "unknown")
      BY <1>2, <2>1, <2>4 DEF Obj!AnswerOfFailure
    <3> QED BY <2>2, <3>1 DEF PutStep, Failing
  <2>5. CASE ~Obj!Removes(c, wroteAny) /\ ~Obj!Under({"files"})
    <3>1. ~wroteAny /\ Obj!IsConditional(c)
      BY <2>5 DEF Obj!Removes
    <3>2. ~(access[c].wrote > 0)
      BY <2>1, <3>1, Zenon
    <3>3. access[c].wrote = 0
      BY <1>1, <3>2
    <3>4. Ends(c, "rejected")
      BY <1>2, <2>1, <2>5 DEF Obj!AnswerOfFailure
    <3>5. Obj!Under({"early", "late"})
      BY <2>2, <2>5 DEF Obj!Under
    <3> QED BY <2>2, <3>1, <3>3, <3>4, <3>5 DEF PutStep, Failing
  <2> QED BY <2>3, <2>4, <2>5
<1>18. CASE Obj!Describe(c)
  <2>1. access[c].pc = "writing" /\ access[c].wrote = 2 /\ Obj!Under({"files"}) /\ Obj!IsPut(c)
    BY <1>1, <1>18 DEF Obj!Describe, Obj!At, Placed
  <2>2. CASE Obj!Answer(c, "stored") /\ Obj!WriteSidecar(c)
    <3>1. sidecars' = [sidecars EXCEPT ![Obj!Key(c)] = c] /\ sidecars \in [Obj!KeySet -> Makers \cup {Missing}]
         /\ objects' = objects
      BY <2>2 DEF Obj!WriteSidecar, ObjectsTyped
    <3>2. /\ sidecars' \in [Obj!KeySet -> Makers \cup {Missing}] /\ sidecars'[Obj!Key(c)] = c
          /\ \A k \in Obj!KeySet \ {Obj!Key(c)} : sidecars'[k] = sidecars[k]
      BY <1>1, <2>1, <3>1
    <3> QED BY <1>2, <2>1, <2>2, <3>1, <3>2 DEF PutStep, Described
  <2>3. CASE Obj!Untouched /\ IF Obj!IsConditional(c)
                               THEN Obj!Set(c, Obj!Become(c, "removing"))
                               ELSE Obj!Answer(c, "unknown")
    BY <1>2, <1>3, <2>1, <2>3 DEF PutStep, Failing
  <2> QED BY <1>18, <2>2, <2>3 DEF Obj!Describe
<1>19. CASE Obj!Close(c)
  <2>1. access[c].pc = "writing" /\ access[c].wrote = 2 /\ Obj!Under({"early", "late"}) /\ Obj!IsPut(c)
       /\ Goes(c, "closed")
    BY <1>1, <1>3, <1>19 DEF Obj!Close, Obj!At, Placed
  <2>2. CASE Obj!Under({"late"})
    BY <1>1, <1>19, <2>1, <2>2 DEF Obj!Close, PutStep, Closed
  <2>3. CASE ~Obj!Under({"late"})
    <3>1. Obj!Under({"early"}) /\ Obj!Untouched
      BY <1>19, <2>1, <2>3 DEF Obj!Close, Obj!Under
    <3> QED BY <2>1, <3>1 DEF PutStep, Closed
  <2> QED BY <2>2, <2>3
<1>20. CASE Obj!CloseFails(c)
  <2>1. access[c].pc = "writing" /\ access[c].wrote = 2 /\ Obj!Under({"early", "late"}) /\ Obj!IsPut(c)
       /\ ~Obj!Under({"files"})
    BY <1>1, <1>20 DEF Obj!CloseFails, Obj!At, Placed, Obj!Under
  <2>2. Goes(c, "removing") \/ Ends(c, "unknown")
    BY <1>2, <1>3, <1>20 DEF Obj!CloseFails
  <2>3. CASE Obj!Untouched
    BY <2>1, <2>2, <2>3 DEF PutStep, Failing
  <2>4. CASE Obj!Under({"late"}) /\ Obj!Land(c)
    BY <1>1, <2>1, <2>2, <2>4 DEF PutStep, Closed
  <2> QED BY <1>20, <2>3, <2>4 DEF Obj!CloseFails
<1>21. CASE Obj!Stat(c)
  BY <1>2, <1>21 DEF Obj!Stat, Obj!At, PutStep, Settled
<1>22. CASE Obj!Remove(c)
  <2>1. access[c].pc = "removing" /\ Obj!IsPut(c)
    BY <1>1, <1>22 DEF Obj!Remove, Obj!At, Placed
  <2>2. \/ Holds(c, Missing) /\ IF Obj!Under({"files"}) THEN Ends(c, "rejected") ELSE Goes(c, "confirming")
        \/ Obj!Untouched /\ IF Obj!Under({"files"}) THEN Ends(c, "unknown") ELSE Goes(c, "confirming")
    BY <1>1, <1>2, <1>3, <1>22, <2>1 DEF Obj!Remove
  <2> QED BY <2>1, <2>2 DEF PutStep, Removed
<1>23. CASE Obj!Confirm(c)
  BY <1>2, <1>23 DEF Obj!Confirm, Obj!At, PutStep, Confirmed
<1> QED BY <1>10, <1>11, <1>12, <1>13, <1>14, <1>15, <1>16, <1>17, <1>18, <1>19, <1>20, <1>21, <1>22,
           <1>23 DEF PutAction

LEMMA OthersAct ==
  ASSUME ObjectsWellFormed, ObjectsTyped, depot' = depot, NEW c \in Obj!Asked, ObjectAction(c)
  PROVE  ObjectStep(c)
<1>1. /\ c \in Accesses /\ Placed(c) /\ access[c] \in CallRecords /\ depot.store \in StoreNames
      /\ access[c].wrote \in Nat /\ access[c].file \in Makers \cup {Missing} /\ access[c].adrift \in BOOLEAN
      /\ access[c].answer \in CallAnswers \cup {Missing} /\ access[c].found \subseteq Obj!KeySet
      /\ Obj!Kind(c) = "delete" => Obj!Key(c) \in Obj!KeySet /\ Obj!Here(c) \in StoredObjects \cup {Missing}
      /\ Obj!Kind(c) = "delete" /\ Obj!Hold(c, Missing) => Holds(c, Missing)
  BY StepContext
<1>2. /\ Obj!Answer(c, "unknown") => Ends(c, "unknown")
      /\ Obj!Answer(c, "gone") => Ends(c, "gone")
      /\ Obj!Answer(c, "deleted") => Ends(c, "deleted")
  BY AnswersEnd
<1>3. Obj!Set(c, Obj!Become(c, "unlinked")) => Goes(c, "unlinked")
  BY PlacesMove
<1>4. {"listed", "died"} \subseteq CallAnswers /\ {"found", "listing", "ended"} \subseteq CallPlaces
  BY DEF CallPlaces, CallAnswers
<1>10. CASE PutAction(c)
  BY <1>10, PutsAct DEF ObjectStep
<1>24. CASE Obj!FindIt(c)
  <2>1. Obj!MayBegin(c) /\ Obj!Kind(c) = "delete"
    BY <1>24 DEF Obj!FindIt
  <2>2. CASE Obj!Under({"memory"}) /\ Obj!Here(c) = Missing
    <3>1. Obj!Answer(c, "gone") /\ Obj!Hold(c, Missing)
      BY <1>24, <2>2 DEF Obj!FindIt
    <3> QED BY <1>1, <1>2, <2>1, <2>2, <3>1 DEF ObjectStep, Found
  <2>3. CASE Obj!Under({"memory"}) /\ Obj!Here(c) # Missing
    <3>1. Obj!Answer(c, "deleted") /\ Obj!Hold(c, Missing)
      BY <1>24, <2>3 DEF Obj!FindIt
    <3> QED BY <1>1, <1>2, <2>1, <2>3, <3>1 DEF ObjectStep, Found
  <2>4. CASE ~Obj!Under({"memory"}) /\ Obj!Here(c) = Missing /\ ~Obj!Under({"files"})
    <3>1. Obj!Answer(c, "gone") /\ Obj!Untouched
      BY <1>24, <2>4 DEF Obj!FindIt
    <3> QED BY <1>2, <2>1, <2>4, <3>1 DEF ObjectStep, Found
  <2>5. CASE ~Obj!Under({"memory"}) /\ ~(Obj!Here(c) = Missing /\ ~Obj!Under({"files"}))
    <3> DEFINE file == IF Obj!Here(c) = Missing THEN Missing ELSE Obj!Here(c).file
               record == [Obj!Become(c, "found") EXCEPT !.file = file]
    <3>1. file \in Makers \cup {Missing}
      BY <1>1, <2>1 DEF StoredObjects
    <3>2. Obj!Set(c, record) /\ Obj!Untouched
      BY <1>24, <2>5 DEF Obj!FindIt
    <3> HIDE DEF file
    <3>3. /\ Obj!Become(c, "found") \in CallRecords /\ Obj!Become(c, "found").pc = "found"
          /\ Obj!Become(c, "found").answer = access[c].answer /\ Obj!Become(c, "found").adrift = access[c].adrift
      BY <1>1, <1>4, CallRecordFacts
    <3>4. record \in CallRecords /\ record.pc = "found" /\ record.answer = access[c].answer
         /\ record.adrift = access[c].adrift
      BY <3>1, <3>3 DEF CallRecords
    <3> HIDE DEF record
    <3>5. Becomes(c, record.pc, record.answer, record.adrift)
      BY <1>1, <3>2, <3>4, SetFacts
    <3>6. Moves(c, "found")
      BY <3>4, <3>5 DEF Moves
    <3> QED BY <2>1, <2>5, <3>2, <3>6 DEF ObjectStep, Found
  <2> QED BY <2>2, <2>3, <2>4, <2>5
<1>25. CASE Obj!DeleteIt(c)
  <2>1. access[c].pc = "found" /\ Obj!Kind(c) = "delete"
    BY <1>1, <1>25 DEF Obj!DeleteIt, Obj!At, Placed
  <2>2. CASE Obj!Matches(c) /\ Obj!Hold(c, Missing)
       /\ IF Obj!Under({"files"}) THEN Obj!Set(c, Obj!Become(c, "unlinked")) ELSE Obj!Answer(c, "deleted")
    BY <1>1, <1>2, <1>3, <2>1, <2>2 DEF ObjectStep, Deleted
  <2>3. CASE ~Obj!Matches(c) /\ Obj!Untouched /\ Obj!Answer(c, "gone")
    BY <1>2, <2>1, <2>3 DEF ObjectStep, Deleted
  <2>4. CASE Obj!Answer(c, "unknown") /\ (Obj!Untouched \/ Obj!Hold(c, Missing))
    BY <1>1, <1>2, <2>1, <2>4 DEF ObjectStep, Deleted
  <2> QED BY <1>25, <2>2, <2>3, <2>4 DEF Obj!DeleteIt
<1>26. CASE Obj!DeleteSidecar(c)
  <2>1. /\ access[c].pc = "unlinked" /\ Obj!Kind(c) = "delete" /\ Obj!Key(c) \in Obj!KeySet /\ objects' = objects
        /\ sidecars \in [Obj!KeySet -> Makers \cup {Missing}]
    BY <1>1, <1>26 DEF Obj!DeleteSidecar, Obj!At, Placed, ObjectsTyped
  <2>2. CASE /\ sidecars' = [sidecars EXCEPT ![Obj!Key(c)] = Missing]
             /\ Obj!Answer(c, IF access[c].file = Missing THEN "gone" ELSE "deleted")
    <3>1. Ends(c, "gone") \/ Ends(c, "deleted")
      BY <1>2, <2>2
    <3>2. /\ sidecars' \in [Obj!KeySet -> Makers \cup {Missing}] /\ sidecars'[Obj!Key(c)] = Missing
          /\ \A k \in Obj!KeySet \ {Obj!Key(c)} : sidecars'[k] = sidecars[k]
      BY <2>1, <2>2
    <3> QED BY <2>1, <3>1, <3>2 DEF ObjectStep, Unlinked
  <2>3. CASE Obj!Answer(c, "unknown") /\ UNCHANGED sidecars
    <3>1. Ends(c, "unknown") /\ sidecars' \in [Obj!KeySet -> Makers \cup {Missing}]
          /\ \A k \in Obj!KeySet \ {Obj!Key(c)} : sidecars'[k] = sidecars[k]
      BY <1>2, <2>1, <2>3
    <3> QED BY <2>1, <2>3, <3>1 DEF ObjectStep, Unlinked
  <2> QED BY <1>26, <2>2, <2>3 DEF Obj!DeleteSidecar
<1>27. CASE Obj!List(c)
  <2> DEFINE found == IF Obj!Under({"files"}) THEN Obj!Present(objects) ELSE {}
             listed == [Obj!Ended(c, "listed") EXCEPT !.found = Obj!Present(objects)]
             begun == [Obj!Become(c, "listing") EXCEPT !.found = found]
  <2>1. /\ access[c].pc = "idle" /\ Obj!Kind(c) = "list" /\ Obj!Untouched
        /\ IF Obj!Under({"memory", "early", "late"}) THEN Obj!Set(c, listed) ELSE Obj!Set(c, begun)
    BY <1>27 DEF Obj!List, Obj!MayBegin
  <2>2. Obj!Present(objects) \subseteq Obj!KeySet /\ found \subseteq Obj!KeySet
    BY DEF Obj!Present
  <2>3. /\ Obj!Ended(c, "listed") \in CallRecords /\ Obj!Ended(c, "listed").pc = "ended"
             /\ Obj!Ended(c, "listed").answer = "listed"
        /\ Obj!Ended(c, "listed").adrift = access[c].adrift
        /\ Obj!Become(c, "listing") \in CallRecords /\ Obj!Become(c, "listing").pc = "listing"
        /\ Obj!Become(c, "listing").answer = access[c].answer /\ Obj!Become(c, "listing").adrift = access[c].adrift
        /\ Obj!Become(c, "listing").wrote = access[c].wrote
    BY <1>1, <1>4, CallRecordFacts
  <2>4. /\ listed \in CallRecords /\ listed.pc = "ended" /\ listed.answer = "listed"
        /\ listed.adrift = access[c].adrift /\ listed.found = Obj!Present(objects)
    BY <2>2, <2>3 DEF CallRecords
  <2> HIDE DEF found
  <2>5. /\ begun \in CallRecords /\ begun.pc = "listing" /\ begun.answer = access[c].answer
        /\ begun.adrift = access[c].adrift /\ begun.wrote = access[c].wrote /\ begun.found = found
    BY <2>2, <2>3 DEF CallRecords
  <2> HIDE DEF listed, begun
  <2>6. CASE Obj!Under({"memory", "early", "late"})
    <3>1. Becomes(c, listed.pc, listed.answer, listed.adrift) /\ access'[c] = listed
      BY <1>1, <2>1, <2>4, <2>6, SetFacts
    <3> QED BY <2>1, <2>4, <2>6, <3>1 DEF ObjectStep, Listed
  <2>7. CASE ~Obj!Under({"memory", "early", "late"})
    <3>1. Obj!Under({"files", "blob"})
      BY <1>1, <2>7 DEF Obj!Under, StoreNames
    <3>2. Becomes(c, begun.pc, begun.answer, begun.adrift) /\ access'[c] = begun
      BY <1>1, <2>1, <2>5, <2>7, SetFacts
    <3> QED BY <2>1, <2>5, <3>1, <3>2 DEF ObjectStep, Listed, Moves, found
  <2> QED BY <2>6, <2>7
<1>28. CASE Obj!ListNext(c)
  <2>1. PICK n \in Nat : n = access[c].wrote + 1
    BY <1>1
  <2> DEFINE next == [access[c] EXCEPT !.wrote = n, !.found = PageOf(c)]
             listed == [next EXCEPT !.pc = "ended", !.answer = "listed"]
  <2>2. /\ access[c].pc = "listing" /\ Obj!Untouched
        /\ Obj!Set(c, IF next.wrote = Len(ObjectKeys) THEN listed ELSE next)
    BY <1>28, <2>1 DEF Obj!ListNext, Obj!At, PageOf
  <2>3. PageOf(c) \subseteq Obj!KeySet
    BY <1>1 DEF PageOf, Obj!Present
  <2>4. /\ next \in CallRecords /\ next.pc = "listing" /\ next.answer = access[c].answer
             /\ next.adrift = access[c].adrift
        /\ next.wrote = n /\ next.found = PageOf(c)
    BY <1>1, <2>2, <2>3 DEF CallRecords
  <2> HIDE DEF next
  <2>5. /\ listed \in CallRecords /\ listed.pc = "ended" /\ listed.answer = "listed"
             /\ listed.adrift = access[c].adrift
        /\ listed.wrote = n /\ listed.found = PageOf(c)
    BY <1>4, <2>4 DEF CallRecords
  <2> HIDE DEF listed
  <2>6. CASE n = Len(ObjectKeys)
    <3>1. Obj!Set(c, listed)
      BY <2>2, <2>4, <2>6
    <3>2. Becomes(c, listed.pc, listed.answer, listed.adrift) /\ access'[c] = listed
      BY <1>1, <2>5, <3>1, SetFacts
    <3> QED BY <2>1, <2>2, <2>5, <2>6, <3>2 DEF ObjectStep, ListedNext
  <2>7. CASE n # Len(ObjectKeys)
    <3>1. Obj!Set(c, next)
      BY <2>2, <2>4, <2>7
    <3>2. Becomes(c, next.pc, next.answer, next.adrift) /\ access'[c] = next
      BY <1>1, <2>4, <3>1, SetFacts
    <3> QED BY <2>1, <2>2, <2>4, <2>7, <3>2 DEF ObjectStep, ListedNext, Moves
  <2> QED BY <2>6, <2>7
<1>29. CASE Obj!Die(c)
  <2>1. PICK b \in BOOLEAN : b = (Obj!Under({"blob"}) /\ access[c].pc = "sending")
    OBVIOUS
  <2> DEFINE record == [Obj!Ended(c, "died") EXCEPT !.adrift = b]
  <2>2. Obj!Ended(c, "died") \in CallRecords /\ Obj!Ended(c, "died").pc = "ended"
       /\ Obj!Ended(c, "died").answer = "died"
    BY <1>1, <1>4, CallRecordFacts
  <2>3. record \in CallRecords /\ record.pc = "ended" /\ record.answer = "died" /\ record.adrift = b
    BY <2>2 DEF CallRecords
  <2>4. Obj!Set(c, record)
    BY <1>29, <2>1 DEF Obj!Die
  <2> HIDE DEF record
  <2>5. Becomes(c, record.pc, record.answer, record.adrift)
    BY <1>1, <2>3, <2>4, SetFacts
  <2>6. Becomes(c, "ended", "died", b)
    BY <2>3, <2>5
  <2>7. Obj!UnderWay(c) /\ Obj!Untouched
    BY <1>29 DEF Obj!Die
  <2> QED BY <2>1, <2>6, <2>7 DEF ObjectStep, Died
<1> QED BY <1>10, <1>24, <1>25, <1>26, <1>27, <1>28, <1>29 DEF ObjectAction

(* A step of the stores is one of these, and what the lists saw. *)
LEMMA StepsAreCalls ==
  ASSUME ObjectsWellFormed, ObjectsTyped, Obj!Next
  PROVE  Obj!Watch /\ depot' = depot /\ \E c \in Obj!Asked : ObjectStep(c)
<1>1. Obj!Watch /\ depot' = depot
  BY DEF Obj!Next
<1>2. PICK c \in Accesses : ObjectAction(c)
  BY DEF Obj!Next, ObjectAction, PutAction
<1>3. CASE c \in Obj!Asked
  BY <1>1, <1>2, <1>3, OthersAct
<1>4. CASE c \notin Obj!Asked
  <2>1. access[c].pc = "ended" /\ ~access[c].adrift
    BY <1>4 DEF ObjectsTyped
  <2> QED BY <1>2, <1>4, <2>1 DEF ObjectAction, PutAction, Obj!LookFirst, Obj!SourceFails, Obj!Keep, Obj!Unheard,
             Obj!Arrive, Obj!Open, Obj!Write,
                 Obj!WriteFails, Obj!Describe, Obj!Close, Obj!CloseFails, Obj!Stat, Obj!Remove, Obj!Confirm,
                 Obj!FindIt, Obj!DeleteIt, Obj!DeleteSidecar,
                 Obj!List, Obj!ListNext, Obj!Die, Obj!MayBegin, Obj!At
<1> QED BY <1>1, <1>3, <1>4

--------------------
(* Types *)

LEMMA TypedInit ==
  ASSUME ObjectsWellFormed, Obj!Init
  PROVE  ObjectsTyped
<1>1. depot \in Depots /\ Obj!Asked \subseteq Accesses
  BY SetupFacts DEF Obj!Init
<1>2. Obj!Whole("old") \in StoredObjects
  BY WholeObject DEF Makers
<1>3. objects \in [Obj!KeySet -> StoredObjects \cup {Missing}] /\ sidecars \in [Obj!KeySet -> Makers \cup {Missing}]
  BY <1>2 DEF Obj!Init, Makers
<1>4. \A c \in Accesses : /\ access[c].wrote = 0 /\ access[c].answer = Missing /\ access[c].adrift = FALSE
                          /\ access[c].pc = IF c \in Obj!Asked THEN "idle" ELSE "ended"
                          /\ access[c] \in CallRecords
  BY DEF Obj!Init, Obj!Asked, CallRecords, CallPlaces
<1>5. access \in [Accesses -> CallRecords]
  BY <1>4 DEF Obj!Init
<1>6. \A a \in CallAnswers : a # Missing
  BY DEF ObjectsWellFormed
<1>7. \A c \in Obj!Asked : Placed(c)
  BY <1>1, <1>4, <1>6 DEF Placed, CallAnswers
<1> QED BY <1>1, <1>3, <1>4, <1>5, <1>7 DEF ObjectsTyped

(* Whoever takes the step is where it may be. *)
LEMMA PlacedStep ==
  ASSUME ObjectsWellFormed, ObjectsTyped, NEW c \in Obj!Asked, ObjectStep(c)
  PROVE  /\ Placed(c)' /\ depot' = depot
         /\ access' \in [Accesses -> CallRecords] /\ \A d \in Accesses \ {c} : access'[d] = access[d]
         /\ objects' \in [Obj!KeySet -> StoredObjects \cup {Missing}]
              /\ sidecars' \in [Obj!KeySet -> Makers \cup {Missing}]
<1>1. /\ Placed(c) /\ objects \in [Obj!KeySet -> StoredObjects \cup {Missing}]
           /\ sidecars \in [Obj!KeySet -> Makers \cup {Missing}]
      /\ c \in Accesses /\ access[c] \in CallRecords
  BY SetupFacts DEF ObjectsTyped
<1>2. \A a \in {"stored", "exists", "rejected", "unknown", "died", "gone", "deleted", "listed"} : a # Missing
  BY AnswerNames
<1> DEFINE Kept == objects' \in [Obj!KeySet -> StoredObjects \cup {Missing}]
     /\ sidecars' \in [Obj!KeySet -> Makers \cup {Missing}]
<1>3. (Obj!Untouched => Kept) /\ \A object : Holds(c, object) => Kept
  BY <1>1 DEF Obj!Untouched, Holds
<1> DEFINE Fine ==
      /\ Placed(c)' /\ depot' = depot
      /\ access' \in [Accesses -> CallRecords] /\ \A d \in Accesses \ {c} : access'[d] = access[d]
<1>4. \A adrift : Becomes(c, "ended", "died", adrift) /\ (adrift => Obj!IsPut(c) /\ Obj!Under({"blob"})) => Fine
  BY <1>1, <1>2 DEF Becomes, Placed, Obj!IsPut, Obj!Kind, Obj!Under, Obj!IsConditional
<1>5. \A adrift : Becomes(c, "ended", "unknown", adrift) /\ (adrift => Obj!IsPut(c) /\ Obj!Under({"blob"})) => Fine
  BY <1>1, <1>2 DEF Becomes, Placed, Obj!IsPut, Obj!Kind, Obj!Under, Obj!IsConditional
<1>6. \A a \in {"exists", "rejected", "unknown", "gone", "deleted"} :
        Becomes(c, "ended", a, access[c].adrift) /\ access[c].pc # "ended" => Fine
  BY <1>1, <1>2 DEF Becomes, Placed, Obj!IsPut, Obj!Kind, Obj!Under, Obj!IsConditional
<1>7. Becomes(c, "ended", "stored", access[c].adrift) /\ access[c].pc # "ended" /\ Obj!IsPut(c) => Fine
  BY <1>1, <1>2 DEF Becomes, Placed, Obj!IsPut, Obj!Kind, Obj!Under, Obj!IsConditional
<1>8. Becomes(c, "ended", "listed", access[c].adrift) /\ access[c].pc # "ended" /\ Obj!Kind(c) = "list" => Fine
  BY <1>1, <1>2 DEF Becomes, Placed, Obj!IsPut, Obj!Kind, Obj!Under, Obj!IsConditional
<1>9. ASSUME NEW place \in {"sending", "writing", "closed", "removing", "confirming", "found", "unlinked", "listing"},
             Moves(c, place), access[c].pc # "ended",
             place = "sending" => Obj!IsPut(c) /\ Obj!Under({"memory", "blob"}),
             place = "writing" => Obj!IsPut(c) /\ Obj!Under({"files", "early", "late"}),
             place \in {"closed", "confirming"} => Obj!IsPut(c) /\ Obj!Under({"early", "late"}),
             place = "removing" => Obj!IsPut(c) /\ Obj!Under({"files", "early", "late"})
                  /\ (Obj!Under({"files"}) => Obj!IsConditional(c)),
             place = "found" => Obj!Kind(c) = "delete" /\ Obj!Under({"files", "early", "late", "blob"}),
             place = "unlinked" => Obj!Kind(c) = "delete" /\ Obj!Under({"files"}),
             place = "listing" => Obj!Kind(c) = "list" /\ Obj!Under({"files", "blob"})
      PROVE  Fine
  BY <1>1, <1>2, <1>9 DEF Moves, Becomes, Placed, Obj!IsPut, Obj!Kind, Obj!Under, Obj!IsConditional
<1>10. depot.store \in StoreNames
  BY SetupFacts DEF ObjectsTyped
<1>11. Obj!MayBegin(c) => access[c].pc = "idle"
  BY DEF Obj!MayBegin
<1> HIDE DEF Fine, Kept
<1> SUFFICES Fine /\ Kept
  BY DEF Fine, Kept
<1>20. CASE Refused(c)
  BY <1>3, <1>6, <1>20 DEF Refused, Ends
<1>21. CASE Begun(c)
  BY <1>3, <1>9, <1>11, <1>21 DEF Begun, Goes, Obj!Under
<1>22. CASE Landed(c)
  BY <1>3, <1>1, <1>7, <1>22 DEF Landed, Ends, Placed
<1>23. CASE Lost(c)
  BY <1>1, <1>3, <1>5, <1>23 DEF Lost, Placed
<1>24. CASE Arrived(c)
  <2>1. Fine
    BY <1>1, <1>24 DEF Fine, Arrived, Becomes, Placed, Obj!IsPut, Obj!Kind, Obj!Under, Obj!IsConditional
  <2> QED BY <1>3, <1>24, <2>1 DEF Arrived
<1>25. CASE OpenedInPlace(c)
  BY <1>3, <1>9, <1>11, <1>25 DEF OpenedInPlace, Obj!InPlace, Obj!Under
<1>26. CASE Wrote(c)
  BY <1>1, <1>3, <1>9, <1>26 DEF Wrote, Placed
<1>27. CASE Failing(c)
  BY <1>1, <1>3, <1>6, <1>9, <1>27 DEF Failing, Goes, Ends, Placed
<1>28. CASE Described(c)
  BY <1>1, <1>7, <1>28 DEF Described, Ends, Placed, Kept
<1>29. CASE Closed(c)
  BY <1>1, <1>3, <1>6, <1>9, <1>29 DEF Closed, Goes, Ends, Placed, Obj!Under
<1>30. CASE Settled(c)
  BY <1>1, <1>3, <1>6, <1>7, <1>30 DEF Settled, Ends, Placed
<1>31. CASE Removed(c)
  BY <1>1, <1>3, <1>6, <1>9, <1>10, <1>31 DEF Removed, Goes, Ends, Placed, Obj!Under
<1>32. CASE Confirmed(c)
  BY <1>3, <1>6, <1>32 DEF Confirmed, Ends
<1>33. CASE Found(c)
  BY <1>3, <1>6, <1>9, <1>10, <1>11, <1>33 DEF Found, Ends, Obj!Under, StoreNames
<1>34. CASE Deleted(c)
  BY <1>1, <1>3, <1>6, <1>9, <1>34 DEF Deleted, Ends, Goes, Placed
<1>35. CASE Unlinked(c)
  BY <1>1, <1>6, <1>35 DEF Unlinked, Ends, Kept
<1>36. CASE Listed(c)
  BY <1>1, <1>3, <1>8, <1>9, <1>36 DEF Listed
<1>37. CASE ListedNext(c)
  BY <1>1, <1>3, <1>8, <1>9, <1>37 DEF ListedNext, Placed
<1>38. CASE Died(c)
  BY <1>1, <1>3, <1>4, <1>38 DEF Died, Placed
<1> QED BY <1>20, <1>21, <1>22, <1>23, <1>24, <1>25, <1>26, <1>27, <1>28, <1>29, <1>30, <1>31, <1>32, <1>33,
           <1>34, <1>35, <1>36, <1>37, <1>38 DEF ObjectStep, PutStep

LEMMA TypedStep ==
  ASSUME ObjectsWellFormed, ObjectsTyped, NEW c \in Obj!Asked, ObjectStep(c)
  PROVE  ObjectsTyped' /\ Obj!Asked' = Obj!Asked
<1>1. /\ Placed(c)' /\ depot' = depot
      /\ access' \in [Accesses -> CallRecords] /\ \A d \in Accesses \ {c} : access'[d] = access[d]
      /\ objects' \in [Obj!KeySet -> StoredObjects \cup {Missing}]
           /\ sidecars' \in [Obj!KeySet -> Makers \cup {Missing}]
  BY PlacedStep
<1>2. Obj!Asked' = Obj!Asked /\ Obj!Asked \subseteq Accesses
  BY <1>1, SetupFacts DEF Obj!Asked, ObjectsTyped
<1>3. \A d \in Obj!Asked : Placed(d)'
  <2> SUFFICES ASSUME NEW d \in Obj!Asked \ {c} PROVE Placed(d)'
    BY <1>1
  <2>1. Placed(d) /\ access'[d] = access[d]
    BY <1>1, <1>2 DEF ObjectsTyped
  <2> QED BY <1>1, <2>1 DEF Placed, Obj!IsPut, Obj!Kind, Obj!Under, Obj!IsConditional
<1>4. \A d \in Accesses \ Obj!Asked : access'[d].pc = "ended" /\ ~access'[d].adrift
  BY <1>1 DEF ObjectsTyped
<1> QED BY <1>1, <1>2, <1>3, <1>4 DEF ObjectsTyped

(* What a step finds when it is taken, and what it leaves alone. *)
LEMMA Frame ==
  ASSUME ObjectsWellFormed, ObjectsTyped, NEW c \in Obj!Asked, ObjectStep(c)
  PROVE  /\ depot' = depot /\ Obj!Asked' = Obj!Asked /\ Obj!Asked \subseteq Accesses
         /\ \A d \in Accesses \ {c} : access'[d] = access[d]
         /\ Placed(c) /\ Placed(c)' /\ access[c] \in CallRecords /\ access'[c] \in CallRecords
         /\ objects \in [Obj!KeySet -> StoredObjects \cup {Missing}]
              /\ objects' \in [Obj!KeySet -> StoredObjects \cup {Missing}]
         /\ sidecars \in [Obj!KeySet -> Makers \cup {Missing}] /\ sidecars' \in [Obj!KeySet -> Makers \cup {Missing}]
         /\ \A d \in Obj!Asked : /\ Obj!Kind(d) \in {"create", "overwrite", "delete", "list"}
                                      /\ Obj!Kind(d)' = Obj!Kind(d)
                                 /\ Obj!Key(d)' = Obj!Key(d)
                                 /\ Obj!Kind(d) # "list" => Obj!Key(d) \in Obj!KeySet
                                 /\ Obj!Kind(d) = "list" => Obj!Key(d) \notin Obj!KeySet
         /\ \A s : Obj!Under(s)' = Obj!Under(s)
         /\ depot.store \in StoreNames
  BY PlacedStep, TypedStep, SetupFacts DEF ObjectsTyped, Obj!Under, Obj!Kind, Obj!Key

(* Objects of other keys, and what they are described by, are not touched. *)
LEMMA OtherKeys ==
  ASSUME ObjectsWellFormed, ObjectsTyped, NEW c \in Obj!Asked, ObjectStep(c), NEW k \in Obj!KeySet, k # Obj!Key(c)
  PROVE  objects'[k] = objects[k] /\ sidecars'[k] = sidecars[k]
<1>1. \A object : Holds(c, object) => objects'[k] = objects[k] /\ sidecars'[k] = sidecars[k]
  BY DEF Holds
<1>2. Obj!Untouched => objects'[k] = objects[k] /\ sidecars'[k] = sidecars[k]
  BY DEF Obj!Untouched
<1>3. CASE Described(c) \/ Unlinked(c)
  BY <1>3 DEF Described, Unlinked
<1>4. CASE PutStep(c) /\ ~Described(c)
  BY <1>1, <1>2, <1>4 DEF PutStep, Refused, Begun, Landed, Lost, Arrived, OpenedInPlace, Wrote, Failing, Closed,
                          Settled, Removed, Confirmed
<1>5. CASE Found(c) \/ Deleted(c) \/ Listed(c) \/ ListedNext(c) \/ Died(c)
  BY <1>1, <1>2, <1>5 DEF Found, Deleted, Listed, ListedNext, Died
<1> QED BY <1>3, <1>4, <1>5 DEF ObjectStep

--------------------
(* Traces *)

(* Whether this chunk of what the call puts may be under its key. *)
MayShow(c, i) ==
  /\ Obj!IsPut(c) /\ access[c].pc \notin {"idle", "sending"}
  /\ access[c].pc = "writing" => i <= access[c].wrote
  /\ access[c].pc = "ended" => access[c].answer \notin {"rejected", "exists"}

Traces ==
  \A k \in Obj!KeySet :
    /\ \A i \in 1 .. 2, w \in Accesses :
         objects[k] # Missing /\ objects[k].content[i] = w => w \in Obj!Asked /\ Obj!Key(w) = k /\ MayShow(w, i)
    /\ sidecars[k] # Missing => Obj!Under({"files"})
    /\ \A w \in Accesses : sidecars[k] = w => w \in Obj!Asked /\ Obj!Key(w) = k /\ Obj!IsPut(w)
         /\ access[w].answer = "stored"

(* Whether the object that the call made may be under its key. *)
MayStand(c) ==
  /\ Obj!IsPut(c) /\ access[c].pc \notin {"idle", "sending"}
  /\ access[c].pc = "writing" => Obj!InPlace /\ access[c].file = c
  /\ access[c].pc = "ended" /\ access[c].answer \in {"rejected", "exists"} => Obj!MayLeaveItsEmptyObject(c)

Made ==
  \A k \in Obj!KeySet, w \in Accesses :
    objects[k] # Missing /\ objects[k].file = w => w \in Obj!Asked /\ Obj!Key(w) = k /\ MayStand(w)

LEMMA OwnShow ==
  ASSUME ObjectsWellFormed, ObjectsTyped, NEW c \in Obj!Asked, ObjectStep(c), NEW i \in 1 .. 2, MayShow(c, i)
  PROVE  MayShow(c, i)' \/ (Obj!Key(c) \in Obj!KeySet /\ objects'[Obj!Key(c)] = Missing)
<1>1. /\ Obj!IsPut(c) /\ Obj!IsPut(c)' /\ Placed(c) /\ Obj!Kind(c) \notin {"list", "delete"}
           /\ Obj!Key(c) \in Obj!KeySet
      /\ access[c].wrote \in Nat
  BY Frame DEF MayShow, Obj!IsPut, CallRecords
<1>2. access[c].pc \notin {"idle", "sending"} /\ access[c].pc \notin {"found", "unlinked", "listing"}
  BY <1>1 DEF MayShow, Placed, Obj!IsPut
<1>3. \A answer \in {"stored", "unknown", "died"} : \A adrift : Becomes(c, "ended", answer, adrift) => MayShow(c, i)'
  BY <1>1 DEF Becomes, MayShow
<1>4. \A place \in {"closed", "removing", "confirming"} : Moves(c, place) => MayShow(c, i)'
  BY <1>1 DEF Moves, Becomes, MayShow
<1>5. \A object : Holds(c, object) => objects'[Obj!Key(c)] = object
  BY DEF Holds
<1>6. CASE Refused(c) \/ Begun(c) \/ Landed(c) \/ Lost(c) \/ OpenedInPlace(c) \/ Found(c) \/ Deleted(c) \/ Unlinked(c)
           \/ Listed(c) \/ ListedNext(c)
  BY <1>1, <1>2, <1>6 DEF Refused, Begun, Landed, Lost, OpenedInPlace, Found, Deleted, Unlinked, Listed,
     ListedNext, Obj!MayBegin
<1>7. CASE Arrived(c)
  BY <1>1, <1>7 DEF Arrived, Becomes, MayShow, Placed
<1>8. CASE Wrote(c)
  BY <1>1, <1>8 DEF Wrote, Moves, Becomes, MayShow
<1>9. CASE Failing(c)
  <2>1. CASE Ends(c, "rejected") /\ access[c].wrote = 0
    BY <1>9, <2>1 DEF Failing, MayShow
  <2>2. CASE Goes(c, "removing") \/ Ends(c, "unknown")
    BY <1>3, <1>4, <2>2 DEF Goes, Ends
  <2> QED BY <1>9, <2>1, <2>2 DEF Failing
<1>10. CASE Described(c) \/ Closed(c) \/ Settled(c)
  BY <1>3, <1>4, <1>10 DEF Described, Closed, Settled, Goes, Ends
<1>11. CASE Removed(c)
  BY <1>1, <1>3, <1>4, <1>5, <1>11 DEF Removed, Goes, Ends
<1>12. CASE Confirmed(c)
  BY <1>1, <1>3, <1>12 DEF Confirmed, Ends, Obj!Untouched, Obj!Here
<1>13. CASE Died(c)
  BY <1>3, <1>13 DEF Died
<1> QED BY <1>6, <1>7, <1>8, <1>9, <1>10, <1>11, <1>12, <1>13 DEF ObjectStep, PutStep

(* Each chunk under the key of the call is as it was, gone, or the call's. *)
LEMMA OwnChunks ==
  ASSUME ObjectsWellFormed, ObjectsTyped, NEW c \in Obj!Asked, ObjectStep(c), Obj!Key(c) \in Obj!KeySet,
         objects'[Obj!Key(c)] # Missing, NEW i \in 1 .. 2
  PROVE  \/ objects'[Obj!Key(c)].content[i] = Missing
         \/ objects'[Obj!Key(c)].content[i] = c /\ MayShow(c, i)'
         \/ Obj!Here(c) # Missing /\ objects'[Obj!Key(c)].content[i] = Obj!Here(c).content[i]
<1>1. /\ (Obj!IsPut(c) <=> Obj!IsPut(c)') /\ Placed(c) /\ access[c].wrote \in Nat /\ c \in Makers
  BY Frame DEF Obj!IsPut, CallRecords, Makers
<1>2. Obj!Untouched => Obj!Here(c) # Missing /\ objects'[Obj!Key(c)].content[i] = Obj!Here(c).content[i]
  BY DEF Obj!Untouched, Obj!Here
<1>3. \A object : Holds(c, object) => object # Missing /\ objects'[Obj!Key(c)] = object
  BY DEF Holds
<1>4. Holds(c, Obj!Whole(c)) => objects'[Obj!Key(c)].content[i] = c
  <2>1. Obj!Whole(c).content[i] = c
    BY <1>1, WholeObject
  <2> QED BY <1>3, <2>1
<1>5. CASE Landed(c)
  BY <1>1, <1>4, <1>5 DEF Landed, Ends, Becomes, MayShow, Placed
<1>6. CASE Arrived(c)
  BY <1>1, <1>2, <1>4, <1>6 DEF Arrived, Becomes, MayShow, Placed
<1>7. CASE OpenedInPlace(c)
  BY <1>3, <1>7 DEF OpenedInPlace, Obj!Opened
<1>8. CASE Wrote(c)
  <2>1. CASE Obj!Untouched
    BY <1>2, <2>1
  <2>2. CASE ~Obj!Untouched
    <3>1. PICK object \in StoredObjects : Rewritten(c, object) /\ Holds(c, object) /\ Obj!Here(c) # Missing
      BY <1>8, <2>2 DEF Wrote
    <3>2. objects'[Obj!Key(c)].content[i] = IF i = access[c].wrote + 1 THEN c ELSE Obj!Here(c).content[i]
      BY <1>3, <3>1 DEF Rewritten
    <3>3. i = access[c].wrote + 1 => MayShow(c, i)'
      BY <1>1, <1>8 DEF Wrote, Moves, Becomes, MayShow, Placed
    <3> QED BY <3>1, <3>2, <3>3
  <2> QED BY <2>1, <2>2
<1>9. CASE Described(c) \/ Unlinked(c)
  BY <1>9 DEF Described, Unlinked, Obj!Here
<1>10. CASE Closed(c)
  BY <1>1, <1>2, <1>4, <1>10 DEF Closed, Goes, Ends, Moves, Becomes, MayShow, Placed
<1>11. CASE Refused(c) \/ Begun(c) \/ Lost(c) \/ Failing(c) \/ Settled(c) \/ Confirmed(c) \/ Listed(c)
     \/ ListedNext(c) \/ Died(c)
  BY <1>2, <1>11 DEF Refused, Begun, Lost, Failing, Settled, Confirmed, Listed, ListedNext, Died
<1>12. CASE Removed(c) \/ Found(c) \/ Deleted(c)
  BY <1>2, <1>3, <1>12 DEF Removed, Found, Deleted
<1> QED BY <1>5, <1>6, <1>7, <1>8, <1>9, <1>10, <1>11, <1>12 DEF ObjectStep, PutStep

(* A description is as it was, gone, or of the call that was stored. *)
LEMMA OwnSidecar ==
  ASSUME ObjectsWellFormed, ObjectsTyped, NEW c \in Obj!Asked, ObjectStep(c), Obj!Key(c) \in Obj!KeySet
  PROVE  \/ sidecars'[Obj!Key(c)] = sidecars[Obj!Key(c)]
         \/ sidecars'[Obj!Key(c)] = Missing
         \/ sidecars'[Obj!Key(c)] = c /\ access'[c].answer = "stored" /\ Obj!Under({"files"}) /\ Obj!IsPut(c)
<1>1. CASE Described(c)
  BY <1>1, Frame DEF Described, Ends, Becomes, Placed
<1>2. CASE Unlinked(c)
  BY <1>2 DEF Unlinked
<1>3. CASE PutStep(c) /\ ~Described(c)
  BY <1>3 DEF PutStep, Refused, Begun, Landed, Lost, Arrived, OpenedInPlace, Wrote, Failing, Closed,
              Settled, Removed, Confirmed, Holds, Obj!Untouched
<1>4. CASE Found(c) \/ Deleted(c) \/ Listed(c) \/ ListedNext(c) \/ Died(c)
  BY <1>4 DEF Found, Deleted, Listed, ListedNext, Died, Holds, Obj!Untouched
<1> QED BY <1>1, <1>2, <1>3, <1>4 DEF ObjectStep

LEMMA StoredStays ==
  ASSUME ObjectsWellFormed, ObjectsTyped, NEW c \in Obj!Asked, ObjectStep(c), NEW d \in Obj!Asked,
         access[d].answer # Missing
  PROVE  access'[d].answer = access[d].answer /\ access'[d].pc = "ended" /\ access[d].pc = "ended"
<1>1. CASE d # c
  BY <1>1, Frame DEF ObjectsTyped, Placed
<1>2. CASE d = c
  <2>1. access[c].pc = "ended"
    BY <1>2, Frame DEF Placed
  <2>2. Arrived(c)
    BY <2>1 DEF ObjectStep, PutStep, Refused, Begun, Landed, Lost, OpenedInPlace, Wrote, Failing, Described, Closed,
                Settled, Removed, Confirmed, Found, Deleted, Unlinked, Listed, ListedNext, Died, Obj!MayBegin,
                Obj!UnderWay
  <2> QED BY <1>2, <2>1, <2>2 DEF Arrived, Becomes
<1> QED BY <1>1, <1>2

LEMMA TracesInit ==
  ASSUME ObjectsWellFormed, Obj!Init
  PROVE  Traces
<1>1. "old" \notin Accesses /\ Missing \notin Accesses
  BY DEF ObjectsWellFormed, Makers
<1>2. Obj!Whole("old").content[1] = "old" /\ Obj!Whole("old").content[2] = "old"
  BY WholeObject DEF Makers
<1>3. ASSUME NEW k \in Obj!KeySet, objects[k] # Missing, NEW i \in 1 .. 2 PROVE objects[k].content[i] \notin Accesses
  <2>1. objects[k] = Obj!Whole("old")
    BY <1>3 DEF Obj!Init
  <2> QED BY <1>1, <1>2, <2>1
<1> QED BY <1>1, <1>3 DEF Obj!Init, Traces, Obj!Under

LEMMA TracesStep ==
  ASSUME ObjectsWellFormed, ObjectsTyped, Traces, NEW c \in Obj!Asked, ObjectStep(c)
  PROVE  Traces'
<1>1. /\ Obj!Asked' = Obj!Asked /\ Obj!Asked \subseteq Accesses /\ \A d \in Accesses \ {c} : access'[d] = access[d]
      /\ \A d \in Obj!Asked : Obj!Key(d)' = Obj!Key(d) /\ Obj!Kind(d)' = Obj!Kind(d)
      /\ Obj!Under({"files"})' = Obj!Under({"files"})
  BY Frame
<1>2. \A d \in Obj!Asked \ {c}, i \in 1 .. 2 : MayShow(d, i) => MayShow(d, i)'
  BY <1>1 DEF MayShow, Obj!IsPut
<1>3. Missing \notin Accesses
  BY DEF ObjectsWellFormed, Makers
<1>4. ASSUME NEW k \in Obj!KeySet, NEW i \in 1 .. 2, NEW w \in Accesses, objects'[k] # Missing,
             objects'[k].content[i] = w
      PROVE  w \in Obj!Asked /\ Obj!Key(w) = k /\ MayShow(w, i)'
  <2>1. ASSUME objects[k] # Missing, objects'[k].content[i] = objects[k].content[i]
        PROVE  w \in Obj!Asked /\ Obj!Key(w) = k /\ MayShow(w, i)'
    <3>1. w \in Obj!Asked /\ Obj!Key(w) = k /\ MayShow(w, i)
      BY <1>4, <2>1 DEF Traces
    <3>2. MayShow(w, i)'
      <4>1. CASE w # c
        BY <1>2, <3>1, <4>1
      <4>2. CASE w = c
        <5>1. MayShow(c, i) /\ Obj!Key(c) = k
          BY <3>1, <4>2
        <5>2. MayShow(c, i)'
          BY <1>4, <5>1, OwnShow
        <5> QED BY <4>2, <5>2
      <4> QED BY <4>1, <4>2
    <3> QED BY <3>1, <3>2
  <2>2. CASE k # Obj!Key(c)
    <3>1. objects'[k] = objects[k]
      BY <2>2, OtherKeys
    <3> QED BY <1>4, <2>1, <3>1
  <2>3. CASE k = Obj!Key(c)
    <3>1. objects'[k].content[i] = Missing \/ (w = c /\ MayShow(c, i)')
          \/ (objects[k] # Missing /\ objects'[k].content[i] = objects[k].content[i])
      BY <1>4, <2>3, OwnChunks DEF Obj!Here
    <3> QED BY <1>3, <1>4, <2>1, <2>3, <3>1
  <2> QED BY <2>2, <2>3
<1>5. ASSUME NEW k \in Obj!KeySet
      PROVE  /\ sidecars'[k] # Missing => Obj!Under({"files"})'
             /\ \A w \in Accesses : sidecars'[k] = w => w \in Obj!Asked /\ Obj!Key(w) = k /\ Obj!IsPut(w)
                  /\ access'[w].answer = "stored"
  <2>1. CASE sidecars'[k] = sidecars[k]
    <3>1. \A d \in Obj!Asked : access[d].answer = "stored" => access'[d].answer = "stored"
      BY StoredStays, AnswerNames
    <3> QED BY <1>1, <2>1, <3>1 DEF Traces
  <2>2. CASE sidecars'[k] = Missing
    BY <1>3, <2>2
  <2>3. CASE sidecars'[k] = c /\ access'[c].answer = "stored" /\ Obj!Under({"files"}) /\ Obj!IsPut(c)
       /\ Obj!Key(c) = k
    BY <1>1, <2>3
  <2> QED BY <2>1, <2>2, <2>3, OtherKeys, OwnSidecar
<1>6. \A w \in Obj!Asked : Obj!IsPut(w) => Obj!IsPut(w)'
  BY <1>1 DEF Obj!IsPut
<1> QED BY <1>1, <1>4, <1>5, <1>6 DEF Traces

(* The object of a call stays one that may stand, or is gone. *)
LEMMA OwnStand ==
  ASSUME ObjectsWellFormed, ObjectsTyped, NEW c \in Obj!Asked, ObjectStep(c), MayStand(c)
  PROVE  MayStand(c)' \/ (Obj!Key(c) \in Obj!KeySet /\ objects'[Obj!Key(c)] = Missing)
<1>1. /\ Obj!IsPut(c) /\ Obj!IsPut(c)' /\ Placed(c) /\ Obj!Kind(c) \notin {"list", "delete"}
           /\ Obj!Key(c) \in Obj!KeySet
      /\ Obj!InPlace' = Obj!InPlace
  BY Frame DEF MayStand, Obj!IsPut, Obj!InPlace
<1>2. access[c].pc \notin {"idle", "sending"} /\ access[c].pc \notin {"found", "unlinked", "listing"}
  BY <1>1 DEF MayStand, Placed, Obj!IsPut
<1>3. \A answer \in {"stored", "unknown", "died"} : \A adrift : Becomes(c, "ended", answer, adrift) => MayStand(c)'
  BY <1>1 DEF Becomes, MayStand
<1>4. \A place \in {"closed", "removing", "confirming"} : Moves(c, place) => MayStand(c)'
  BY <1>1 DEF Moves, Becomes, MayStand
<1>5. \A object : Holds(c, object) => objects'[Obj!Key(c)] = object
  BY DEF Holds
<1>6. CASE Refused(c) \/ Begun(c) \/ Landed(c) \/ Lost(c) \/ OpenedInPlace(c) \/ Found(c) \/ Deleted(c) \/ Unlinked(c)
           \/ Listed(c) \/ ListedNext(c)
  BY <1>1, <1>2, <1>6 DEF Refused, Begun, Landed, Lost, OpenedInPlace, Found, Deleted, Unlinked, Listed,
     ListedNext, Obj!MayBegin
<1>7. CASE Arrived(c)
  BY <1>1, <1>7 DEF Arrived, Becomes, MayStand, Placed
<1>8. CASE Wrote(c)
  BY <1>1, <1>8 DEF Wrote, Moves, Becomes, MayStand
<1>9. CASE Failing(c)
  <2>1. CASE Ends(c, "rejected") /\ access[c].wrote = 0 /\ Obj!Under({"early", "late"}) /\ Obj!IsConditional(c)
    <3>1. Obj!Under({"early"}) /\ access[c].file = c
      BY <1>9, <2>1 DEF Failing, MayStand, Obj!InPlace, Obj!Under
    <3>2. access'[c].file = c /\ access'[c].wrote = 0 /\ access'[c].pc = "ended"
      BY <2>1, <3>1 DEF Ends, Becomes, Same
    <3>3. Obj!Under({"early"})' /\ Obj!IsConditional(c)'
      BY <2>1, <3>1, Frame DEF Obj!IsConditional
    <3>4. Obj!MayLeaveItsEmptyObject(c)'
      BY <3>2, <3>3 DEF Obj!MayLeaveItsEmptyObject
    <3> QED BY <1>1, <3>2, <3>4 DEF MayStand
  <2>2. CASE Goes(c, "removing") \/ Ends(c, "unknown")
    BY <1>3, <1>4, <2>2 DEF Goes, Ends
  <2> QED BY <1>9, <2>1, <2>2 DEF Failing
<1>10. CASE Described(c) \/ Closed(c) \/ Settled(c)
  BY <1>3, <1>4, <1>10 DEF Described, Closed, Settled, Goes, Ends
<1>11. CASE Removed(c)
  BY <1>1, <1>3, <1>4, <1>5, <1>11 DEF Removed, Goes, Ends
<1>12. CASE Confirmed(c)
  BY <1>1, <1>3, <1>12 DEF Confirmed, Ends, Obj!Untouched, Obj!Here
<1>13. CASE Died(c)
  BY <1>3, <1>13 DEF Died
<1> QED BY <1>6, <1>7, <1>8, <1>9, <1>10, <1>11, <1>12, <1>13 DEF ObjectStep, PutStep

(* What is under the key of the call is of whom it was, gone, or its own. *)
LEMMA OwnObject ==
  ASSUME ObjectsWellFormed, ObjectsTyped, NEW c \in Obj!Asked, ObjectStep(c), Obj!Key(c) \in Obj!KeySet,
         objects'[Obj!Key(c)] # Missing
  PROVE  \/ objects'[Obj!Key(c)].file = c /\ MayStand(c)'
         \/ Obj!Here(c) # Missing /\ objects'[Obj!Key(c)].file = Obj!Here(c).file
<1>1. /\ (Obj!IsPut(c) <=> Obj!IsPut(c)') /\ Placed(c) /\ c \in Makers /\ Obj!InPlace' = Obj!InPlace
  BY Frame DEF Obj!IsPut, Makers, Obj!InPlace
<1>2. Obj!Untouched => Obj!Here(c) # Missing /\ objects'[Obj!Key(c)].file = Obj!Here(c).file
  BY DEF Obj!Untouched, Obj!Here
<1>3. \A object : Holds(c, object) => object # Missing /\ objects'[Obj!Key(c)] = object
  BY DEF Holds
<1>4. Holds(c, Obj!Whole(c)) => objects'[Obj!Key(c)].file = c
  <2>1. Obj!Whole(c).file = c
    BY <1>1, WholeObject
  <2> QED BY <1>3, <2>1
<1>5. CASE Landed(c)
  BY <1>1, <1>4, <1>5 DEF Landed, Ends, Becomes, MayStand, Placed
<1>6. CASE Arrived(c)
  BY <1>1, <1>2, <1>4, <1>6 DEF Arrived, Becomes, MayStand, Placed
<1>7. CASE OpenedInPlace(c)
  <2>1. objects'[Obj!Key(c)] = Obj!Opened(c) /\ access'[c].file = Obj!Opened(c).file /\ access'[c].pc = "writing"
        /\ Obj!IsPut(c)' /\ Obj!InPlace'
    BY <1>1, <1>3, <1>7 DEF OpenedInPlace, Moves, Becomes
  <2>2. Obj!Opened(c).file = IF Obj!Here(c) = Missing THEN c ELSE Obj!Here(c).file
    BY DEF Obj!Opened
  <2> QED BY <2>1, <2>2 DEF MayStand
<1>8. CASE Wrote(c)
  BY <1>2, <1>3, <1>8 DEF Wrote, Rewritten
<1>9. CASE Described(c) \/ Unlinked(c)
  BY <1>9 DEF Described, Unlinked, Obj!Here
<1>10. CASE Closed(c)
  BY <1>1, <1>2, <1>4, <1>10 DEF Closed, Goes, Ends, Moves, Becomes, MayStand, Placed
<1>11. CASE Refused(c) \/ Begun(c) \/ Lost(c) \/ Failing(c) \/ Settled(c) \/ Confirmed(c) \/ Listed(c)
     \/ ListedNext(c) \/ Died(c)
  BY <1>2, <1>11 DEF Refused, Begun, Lost, Failing, Settled, Confirmed, Listed, ListedNext, Died
<1>12. CASE Removed(c) \/ Found(c) \/ Deleted(c)
  BY <1>2, <1>3, <1>12 DEF Removed, Found, Deleted
<1> QED BY <1>5, <1>6, <1>7, <1>8, <1>9, <1>10, <1>11, <1>12 DEF ObjectStep, PutStep

LEMMA MadeInit ==
  ASSUME ObjectsWellFormed, Obj!Init
  PROVE  Made
<1>1. "old" \notin Accesses
  BY DEF ObjectsWellFormed
<1>2. Obj!Whole("old").file = "old"
  BY WholeObject DEF Makers
<1>3. \A k \in Obj!KeySet : objects[k] = Missing \/ objects[k] = Obj!Whole("old")
  BY DEF Obj!Init
<1> QED BY <1>1, <1>2, <1>3 DEF Made

LEMMA MadeStep ==
  ASSUME ObjectsWellFormed, ObjectsTyped, Made, NEW c \in Obj!Asked, ObjectStep(c)
  PROVE  Made'
<1>1. /\ Obj!Asked' = Obj!Asked /\ Obj!Asked \subseteq Accesses /\ \A d \in Accesses \ {c} : access'[d] = access[d]
      /\ \A d \in Obj!Asked : Obj!Key(d)' = Obj!Key(d) /\ Obj!Kind(d)' = Obj!Kind(d)
      /\ \A s : Obj!Under(s)' = Obj!Under(s)
  BY Frame
<1>2. \A d \in Obj!Asked \ {c} : MayStand(d) => MayStand(d)'
  BY <1>1 DEF MayStand, Obj!IsPut, Obj!InPlace, Obj!MayLeaveItsEmptyObject, Obj!IsConditional
<1>3. ASSUME NEW k \in Obj!KeySet, NEW w \in Accesses, objects'[k] # Missing, objects'[k].file = w
      PROVE  w \in Obj!Asked /\ Obj!Key(w) = k /\ MayStand(w)'
  <2>1. ASSUME objects[k] # Missing, objects'[k].file = objects[k].file
        PROVE  w \in Obj!Asked /\ Obj!Key(w) = k /\ MayStand(w)'
    <3>1. w \in Obj!Asked /\ Obj!Key(w) = k /\ MayStand(w)
      BY <1>3, <2>1 DEF Made
    <3>2. CASE w # c
      BY <1>2, <3>1, <3>2
    <3>3. CASE w = c
      <4>1. MayStand(c) /\ Obj!Key(c) = k
        BY <3>1, <3>3
      <4>2. MayStand(c)'
        BY <1>3, <4>1, OwnStand
      <4> QED BY <3>1, <3>3, <4>2
    <3> QED BY <3>2, <3>3
  <2>2. CASE k # Obj!Key(c)
    <3>1. objects'[k] = objects[k]
      BY <2>2, OtherKeys
    <3> QED BY <1>3, <2>1, <3>1
  <2>3. CASE k = Obj!Key(c)
    <3>1. (w = c /\ MayStand(c)') \/ (objects[k] # Missing /\ objects'[k].file = objects[k].file)
      BY <1>3, <2>3, OwnObject DEF Obj!Here
    <3> QED BY <2>1, <2>3, <3>1
  <2> QED BY <2>2, <2>3
<1> QED BY <1>1, <1>3 DEF Made

LEMMA TracesAreRight ==
  ASSUME ObjectsWellFormed, ObjectsTyped, Traces, Made
  PROVE  Obj!TypeOK /\ Obj!RefusedPutsLeaveNothing
<1>1. Obj!TypeOK
  <2> SUFFICES ASSUME NEW k \in Obj!KeySet, objects[k] # Missing, NEW i \in 1 .. 2
               PROVE  objects[k].content[i] \in
                        {"old", Missing} \cup {c \in Obj!Asked : Obj!IsPut(c) /\ Obj!Key(c) = k
                             /\ access[c].pc # "idle"}
    BY DEF Obj!TypeOK, Traces
  <2>1. objects[k].content[i] \in Makers \cup {Missing}
    BY DEF ObjectsTyped, StoredObjects
  <2> QED BY <2>1 DEF Traces, MayShow, Makers
<1>2. Obj!RefusedPutsLeaveNothing
  <2> SUFFICES ASSUME NEW c \in Obj!Asked, Obj!IsPut(c), Obj!Answers(c) \in {"rejected", "exists"}
               PROVE  /\ objects[Obj!Key(c)] # Missing =>
                           /\ \A i \in 1 .. 2 : objects[Obj!Key(c)].content[i] # c
                           /\ objects[Obj!Key(c)].file = c => Obj!MayLeaveItsEmptyObject(c)
                      /\ sidecars[Obj!Key(c)] # c
                      /\ ~access[c].adrift
    BY DEF Obj!RefusedPutsLeaveNothing
  <2>1. c \in Accesses /\ Obj!Key(c) \in Obj!KeySet /\ Placed(c)
    BY SetupFacts DEF ObjectsTyped, Obj!IsPut
  <2>2. access[c].pc = "ended"
    BY <2>1, AnswerNames DEF Placed, Obj!Answers
  <2>3. \A i \in 1 .. 2 : ~MayShow(c, i)
    BY <2>2 DEF MayShow, Obj!Answers
  <2>4. MayStand(c) => Obj!MayLeaveItsEmptyObject(c)
    BY <2>2 DEF MayStand, Obj!Answers
  <2>5. objects[Obj!Key(c)] # Missing /\ objects[Obj!Key(c)].file = c => Obj!MayLeaveItsEmptyObject(c)
    BY <2>1, <2>4 DEF Made
  <2> QED BY <2>1, <2>3, <2>5 DEF Traces, Obj!Answers, Placed
<1> QED BY <1>1, <1>2

--------------------
(* What stands *)

(* What is at the key is the file this call opened, with what it wrote. *)
Mine(k, c) ==
  /\ objects[k] # Missing /\ objects[k].file = c /\ access[c].file = c
  /\ \A i \in 1 .. 2 : i <= access[c].wrote => objects[k].content[i] = c

(* Nobody has begun to delete or to overwrite the key. *)
Calm(k) == \A c \in Obj!Asked : Obj!Key(c) = k /\ access[c].pc # "idle" => Obj!Kind(c) \in {"create", "list"}

Stands(k, w) == objects[k] = Obj!Whole(w) /\ (Obj!Under({"files"}) => sidecars[k] = w)

IsDone(c) == Obj!IsPut(c) /\ (access[c].answer = "stored" \/ access[c].pc = "closed")

IsAtWork(c) == Obj!IsPut(c) /\ access[c].pc \in {"writing", "removing"}

Undisturbed(k) ==
  /\ k \in depot.before => Stands(k, "old")
  /\ \A w \in Obj!Asked : Obj!Key(w) = k /\ IsDone(w) => Stands(k, w)
  /\ \A w \in Obj!Asked : Obj!Key(w) = k /\ IsAtWork(w) => Mine(k, w)

LEMMA NeverIdleAgain ==
  ASSUME ObjectsWellFormed, ObjectsTyped, NEW c \in Obj!Asked, ObjectStep(c)
  PROVE  /\ access'[c].pc # "idle"
         /\ \A d \in Obj!Asked : access[d].pc # "idle" => access'[d].pc # "idle"
<1> DEFINE Begins == access'[c].pc # "idle"
<1>1. \A place, answer, adrift : Becomes(c, place, answer, adrift) /\ place # "idle" => Begins
  BY DEF Becomes
<1>2. \A place : (Moves(c, place) \/ Goes(c, place)) /\ place # "idle" => Begins
  BY DEF Moves, Goes, Becomes
<1>3. \A answer : Ends(c, answer) => Begins
  BY DEF Ends, Becomes
<1> SUFFICES Begins
  BY Frame
<1> HIDE DEF Begins
<1>4. CASE Arrived(c)
  BY <1>1, <1>4, Frame DEF Arrived, Placed
<1>5. CASE PutStep(c) /\ ~Arrived(c)
  BY <1>1, <1>2, <1>3, <1>5 DEF PutStep, Refused, Begun, Landed, Lost, OpenedInPlace, Wrote, Failing, Described,
     Closed,
              Settled, Removed, Confirmed
<1>6. CASE Found(c) \/ Deleted(c) \/ Unlinked(c) \/ Listed(c) \/ ListedNext(c) \/ Died(c)
  BY <1>1, <1>2, <1>3, <1>6 DEF Found, Deleted, Unlinked, Listed, ListedNext, Died
<1> QED BY <1>4, <1>5, <1>6 DEF ObjectStep

LEMMA CalmBefore ==
  ASSUME ObjectsWellFormed, ObjectsTyped, NEW c \in Obj!Asked, ObjectStep(c), NEW k \in Obj!KeySet, Calm(k)'
  PROVE  Calm(k) /\ (Obj!Key(c) = k => Obj!Kind(c) = "create")
<1>1. /\ Obj!Asked' = Obj!Asked /\ \A d \in Obj!Asked : Obj!Key(d)' = Obj!Key(d) /\ Obj!Kind(d)' = Obj!Kind(d)
      /\ \A d \in Obj!Asked : Obj!Kind(d) = "list" => Obj!Key(d) # k
  BY Frame
<1>2. \A d \in Obj!Asked : Obj!Key(d) = k /\ access'[d].pc # "idle" => Obj!Kind(d) \in {"create", "list"}
  BY <1>1 DEF Calm
<1> QED BY <1>1, <1>2, NeverIdleAgain DEF Calm

(* One object at a key is one call's. *)
LEMMA OneMaker ==
  ASSUME ObjectsWellFormed, ObjectsTyped, NEW k \in Obj!KeySet, Undisturbed(k), NEW c \in Obj!Asked,
         objects[k] = Missing \/ Mine(k, c)
  PROVE  /\ k \notin depot.before
         /\ \A w \in Obj!Asked : Obj!Key(w) = k => ~IsDone(w) \/ (w = c /\ objects[k] # Missing)
         /\ \A w \in Obj!Asked : Obj!Key(w) = k => ~IsAtWork(w) \/ (w = c /\ objects[k] # Missing)
<1>1. /\ Obj!Asked \subseteq Accesses /\ "old" \notin Accesses
      /\ \A w \in Makers : Obj!Whole(w).file = w /\ Obj!Whole(w) # Missing
  BY SetupFacts, WholeObject DEF ObjectsTyped, ObjectsWellFormed
<1> QED BY <1>1 DEF Undisturbed, Stands, Mine, Makers

LEMMA WholeWhenWritten ==
  ASSUME ObjectsTyped, NEW k \in Obj!KeySet, NEW c, Mine(k, c), access[c].wrote = 2
  PROVE  objects[k] = Obj!Whole(c)
<1>1. objects[k] \in StoredObjects /\ objects[k].file = c /\ objects[k].content[1] = c /\ objects[k].content[2] = c
  BY DEF ObjectsTyped, Mine
<1>2. objects[k].content = <<c, c>>
  BY <1>1 DEF StoredObjects
<1> QED BY <1>1, <1>2 DEF StoredObjects, Obj!Whole

LEMMA UndisturbedElsewhere ==
  ASSUME ObjectsWellFormed, ObjectsTyped, NEW c \in Obj!Asked, ObjectStep(c), NEW k \in Obj!KeySet, k # Obj!Key(c),
         Undisturbed(k)
  PROVE  Undisturbed(k)'
<1>1. objects'[k] = objects[k] /\ sidecars'[k] = sidecars[k] /\ depot' = depot
  BY OtherKeys, Frame
<1>2. /\ Obj!Asked' = Obj!Asked /\ \A d \in Obj!Asked \ {c} : access'[d] = access[d]
      /\ \A d \in Obj!Asked : Obj!Key(d)' = Obj!Key(d) /\ Obj!Kind(d)' = Obj!Kind(d)
      /\ Obj!Under({"files"})' = Obj!Under({"files"})
  BY Frame
<1>3. \A w \in {"old"} \cup Obj!Asked : Stands(k, w) => Stands(k, w)'
  BY <1>1, <1>2 DEF Stands, Obj!Whole
<1>4. \A w \in Obj!Asked : Obj!Key(w)' = k => w # c /\ Obj!Key(w) = k
  BY <1>2
<1>5. \A w \in Obj!Asked \ {c} : /\ IsDone(w)' => IsDone(w)
                                 /\ IsAtWork(w)' => IsAtWork(w)
                                 /\ Mine(k, w) => Mine(k, w)'
  BY <1>1, <1>2 DEF IsDone, IsAtWork, Mine, Obj!IsPut
<1> QED BY <1>1, <1>2, <1>3, <1>4, <1>5 DEF Undisturbed

LEMMA UndisturbedHere ==
  ASSUME ObjectsWellFormed, ObjectsTyped, NEW c \in Obj!Asked, ObjectStep(c), ~Obj!Under({"late"}),
         NEW k \in Obj!KeySet, k = Obj!Key(c), Obj!Kind(c) = "create", Undisturbed(k)
  PROVE  Undisturbed(k)'
<1>1. /\ k \in Obj!KeySet /\ Obj!IsPut(c) /\ Obj!IsConditional(c) /\ c \in Makers /\ Placed(c)
           /\ access[c].wrote \in Nat
      /\ depot' = depot /\ Obj!Asked' = Obj!Asked /\ \A d \in Obj!Asked \ {c} : access'[d] = access[d]
      /\ \A d \in Obj!Asked : Obj!Key(d)' = Obj!Key(d) /\ Obj!Kind(d)' = Obj!Kind(d)
      /\ Obj!Under({"files"})' = Obj!Under({"files"})
  BY Frame DEF Obj!IsPut, Obj!IsConditional, CallRecords, Makers
<1>2. ASSUME objects'[k] = objects[k], sidecars'[k] = sidecars[k],
             IsDone(c)' => Stands(k, c)', IsAtWork(c)' => Mine(k, c)'
      PROVE  Undisturbed(k)'
  <2>1. \A w \in {"old"} \cup Obj!Asked : Stands(k, w) => Stands(k, w)'
    BY <1>1, <1>2 DEF Stands, Obj!Whole
  <2>2. \A w \in Obj!Asked \ {c} : /\ IsDone(w)' => IsDone(w)
                                   /\ IsAtWork(w)' => IsAtWork(w)
                                   /\ Mine(k, w) => Mine(k, w)'
    BY <1>1, <1>2 DEF IsDone, IsAtWork, Mine, Obj!IsPut
  <2> QED BY <1>1, <1>2, <2>1, <2>2 DEF Undisturbed
<1>3. ASSUME objects[k] = Missing \/ Mine(k, c),
             IsDone(c)' => Stands(k, c)', IsAtWork(c)' => Mine(k, c)'
      PROVE  Undisturbed(k)'
  <2>1. /\ k \notin depot.before
        /\ \A w \in Obj!Asked \ {c} : Obj!Key(w) = k => ~IsDone(w) /\ ~IsAtWork(w)
    BY <1>1, <1>3, OneMaker
  <2>2. \A w \in Obj!Asked \ {c} : (IsDone(w)' => IsDone(w)) /\ (IsAtWork(w)' => IsAtWork(w))
    BY <1>1 DEF IsDone, IsAtWork, Obj!IsPut
  <2> QED BY <1>1, <1>3, <2>1, <2>2 DEF Undisturbed
<1>4. (Obj!Untouched => objects'[k] = objects[k] /\ sidecars'[k] = sidecars[k])
      /\ \A object : Holds(c, object) => objects'[k] = object /\ sidecars'[k] = sidecars[k]
  BY DEF Obj!Untouched, Holds
<1>5. /\ \A answer, adrift : answer # "stored" /\ Becomes(c, "ended", answer, adrift) => ~IsDone(c)' /\ ~IsAtWork(c)'
      /\ \A answer : answer # "stored" /\ Ends(c, answer) => ~IsDone(c)' /\ ~IsAtWork(c)'
  BY DEF Ends, Becomes, IsDone, IsAtWork
<1>6. \A place \in CallPlaces \ {"ended"} : Moves(c, place) => access'[c].pc = place /\ access'[c].answer # "stored"
  BY Frame, AnswerNames DEF Moves, Becomes, Placed
<1>10. CASE Refused(c) \/ Lost(c) \/ Confirmed(c) \/ Died(c)
  BY <1>2, <1>4, <1>5, <1>10 DEF Refused, Lost, Confirmed, Died
<1>11. CASE Begun(c)
  BY <1>2, <1>4, <1>6, <1>11 DEF Begun, Goes, IsDone, IsAtWork, CallPlaces
<1>12. CASE Landed(c)
  <2>1. objects[k] = Missing /\ objects'[k] = Obj!Whole(c) /\ Obj!Under({"memory", "blob"}) /\ access'[c].pc = "ended"
    BY <1>1, <1>4, <1>12 DEF Landed, Obj!Here, Placed, Ends, Becomes
  <2>2. Stands(k, c)'
    BY <1>1, <2>1 DEF Stands, Obj!Whole, Obj!Under
  <2>3. ~IsAtWork(c)'
    BY <2>1 DEF IsAtWork
  <2> QED BY <1>3, <2>1, <2>2, <2>3
<1>13. CASE Arrived(c)
  <2>1. ~IsDone(c)' /\ ~IsAtWork(c)'
    BY <1>1, <1>13 DEF Arrived, Becomes, IsDone, IsAtWork, Placed
  <2> QED BY <1>1, <1>2, <1>3, <1>4, <1>13, <2>1 DEF Arrived, Obj!Here
<1>14. CASE OpenedInPlace(c)
  <2>1. objects[k] = Missing /\ objects'[k] = Obj!Opened(c) /\ Obj!Opened(c).file = c /\ access'[c].file = c
    BY <1>1, <1>4, <1>14 DEF OpenedInPlace, Obj!Here, Obj!Opened
  <2>2. access'[c].wrote = 0 /\ access'[c].pc = "writing" /\ access'[c].answer # "stored"
    BY <1>1, <1>6, <1>14 DEF OpenedInPlace, Obj!MayBegin, Placed, CallPlaces
  <2>3. Obj!Opened(c) # Missing
    BY <1>14 DEF OpenedInPlace, ObjectsWellFormed
  <2>4. Mine(k, c)'
    BY <2>1, <2>2, <2>3 DEF Mine
  <2>5. ~IsDone(c)'
    BY <2>2 DEF IsDone
  <2> QED BY <1>3, <2>1, <2>4, <2>5
<1>15. CASE Wrote(c)
  <2>1. Mine(k, c) /\ Obj!InPlace
    BY <1>1, <1>15 DEF Wrote, Undisturbed, IsAtWork, Obj!InPlace, Placed, Obj!Under
  <2>2. PICK object \in StoredObjects : Rewritten(c, object) /\ Holds(c, object)
    BY <1>15, <2>1 DEF Wrote, Mine, Obj!Here
  <2>3. access'[c].wrote = access[c].wrote + 1 /\ access'[c].file = c /\ access'[c].pc = "writing"
       /\ access'[c].answer # "stored"
    BY <1>6, <1>15, <2>1 DEF Wrote, Mine, CallPlaces
  <2>4. object # Missing /\ object.file = c
    BY <2>1, <2>2 DEF Rewritten, Mine, Obj!Here, ObjectsWellFormed
  <2>5. \A i \in 1 .. 2 : i <= access[c].wrote + 1 => object.content[i] = c
    BY <1>1, <2>1, <2>2 DEF Rewritten, Mine, Obj!Here
  <2>6. objects'[k] = object
    BY <1>4, <2>2
  <2>7. Mine(k, c)'
    BY <2>3, <2>4, <2>5, <2>6 DEF Mine
  <2>8. ~IsDone(c)'
    BY <2>3 DEF IsDone
  <2> QED BY <1>3, <2>1, <2>7, <2>8
<1>16. CASE Failing(c)
  <2>1. Mine(k, c) /\ objects'[k] = objects[k] /\ sidecars'[k] = sidecars[k]
    BY <1>1, <1>4, <1>16 DEF Failing, Undisturbed, IsAtWork
  <2>2. CASE Goes(c, "removing")
    <3>1. access'[c].wrote = access[c].wrote /\ access'[c].file = access[c].file /\ access'[c].pc = "removing"
         /\ access'[c].answer # "stored"
      BY <1>6, <2>2 DEF Goes, Same, CallPlaces
    <3>2. Mine(k, c)' /\ ~IsDone(c)'
      BY <2>1, <3>1 DEF Mine, IsDone
    <3> QED BY <1>2, <2>1, <3>2
  <2>3. CASE Ends(c, "unknown") \/ Ends(c, "rejected")
    BY <1>2, <1>5, <2>1, <2>3
  <2> QED BY <1>16, <2>2, <2>3 DEF Failing
<1>17. CASE Described(c)
  <2>1. Mine(k, c) /\ access[c].wrote = 2 /\ objects'[k] = objects[k] /\ sidecars'[k] = c /\ access'[c].pc = "ended"
    BY <1>1, <1>17 DEF Described, Undisturbed, IsAtWork, Ends, Becomes
  <2>2. objects[k] = Obj!Whole(c)
    BY <2>1, WholeWhenWritten
  <2>3. Stands(k, c)' /\ ~IsAtWork(c)'
    BY <2>1, <2>2 DEF Stands, Obj!Whole, IsAtWork
  <2> QED BY <1>3, <2>1, <2>3
<1>18. CASE Closed(c)
  <2>1. /\ Mine(k, c) /\ access[c].wrote = 2 /\ Obj!Under({"early"}) /\ Goes(c, "closed")
        /\ objects'[k] = objects[k] /\ sidecars'[k] = sidecars[k]
    BY <1>1, <1>4, <1>18 DEF Closed, Undisturbed, IsAtWork
  <2>2. objects[k] = Obj!Whole(c)
    BY <1>1, <2>1, WholeWhenWritten
  <2>3. Stands(k, c)'
    BY <1>1, <2>1, <2>2 DEF Stands, Obj!Whole, Obj!Under
  <2>4. ~IsAtWork(c)'
    BY <1>6, <2>1 DEF Goes, IsAtWork, CallPlaces
  <2> QED BY <1>2, <2>1, <2>3, <2>4
<1>19. CASE Settled(c)
  <2>1. Stands(k, c) /\ objects'[k] = objects[k] /\ sidecars'[k] = sidecars[k] /\ access'[c].pc = "ended"
    BY <1>1, <1>4, <1>19 DEF Settled, Undisturbed, IsDone, Ends, Becomes
  <2>2. Stands(k, c)' /\ ~IsAtWork(c)'
    BY <1>1, <2>1 DEF Stands, Obj!Whole, IsAtWork
  <2> QED BY <1>2, <2>1, <2>2
<1>20. CASE Removed(c)
  <2>1. Mine(k, c)
    BY <1>1, <1>20 DEF Removed, Undisturbed, IsAtWork
  <2>2. ~IsDone(c)' /\ ~IsAtWork(c)'
    BY <1>5, <1>6, <1>20 DEF Removed, Goes, IsDone, IsAtWork, CallPlaces
  <2> QED BY <1>3, <2>1, <2>2
<1>21. CASE Found(c) \/ Deleted(c) \/ Unlinked(c) \/ Listed(c) \/ ListedNext(c)
  BY <1>1, <1>21 DEF Found, Deleted, Unlinked, Listed, ListedNext, Placed
<1> QED BY <1>10, <1>11, <1>12, <1>13, <1>14, <1>15, <1>16, <1>17, <1>18, <1>19, <1>20, <1>21 DEF ObjectStep, PutStep

Standing == ~Obj!Under({"late"}) => \A k \in Obj!KeySet : Calm(k) => Undisturbed(k)

LEMMA StandingInit ==
  ASSUME ObjectsWellFormed, Obj!Init
  PROVE  Standing
<1>1. \A c \in Obj!Asked : access[c].pc = "idle" /\ access[c].answer = Missing
  BY SetupFacts DEF Obj!Init, Obj!Asked
<1>2. \A c \in Obj!Asked : ~IsDone(c) /\ ~IsAtWork(c)
  BY <1>1, AnswerNames DEF IsDone, IsAtWork
<1>3. \A k \in Obj!KeySet : k \in depot.before => Stands(k, "old")
  BY DEF Obj!Init, Stands, Obj!Under
<1> QED BY <1>2, <1>3 DEF Standing, Undisturbed

LEMMA StandingStep ==
  ASSUME ObjectsWellFormed, ObjectsTyped, Standing, NEW c \in Obj!Asked, ObjectStep(c)
  PROVE  Standing'
<1> SUFFICES ASSUME ~Obj!Under({"late"})', NEW k \in Obj!KeySet, Calm(k)' PROVE Undisturbed(k)'
  BY DEF Standing
<1>1. ~Obj!Under({"late"})
  BY Frame
<1>2. Undisturbed(k) /\ (Obj!Key(c) = k => Obj!Kind(c) = "create")
  BY <1>1, CalmBefore DEF Standing
<1>3. CASE k = Obj!Key(c)
  BY <1>1, <1>2, <1>3, UndisturbedHere
<1>4. CASE k # Obj!Key(c)
  BY <1>2, <1>4, UndisturbedElsewhere
<1> QED BY <1>3, <1>4

LEMMA StandingIsRight ==
  ASSUME ObjectsWellFormed, ObjectsTyped, Standing
  PROVE  depot.store # "late" => Obj!StoredObjectsStand
<1> SUFFICES ASSUME depot.store # "late", NEW k \in Obj!KeySet,
                    \A c \in Obj!Asked : Obj!Key(c) = k /\ access[c].pc # "idle"
                         => Obj!Kind(c) \in {"create", "list"},
                    NEW w \in {"old"} \cup Obj!Asked,
                    IF w = "old" THEN k \in depot.before ELSE Obj!Key(w) = k /\ Obj!Answers(w) = "stored"
             PROVE  objects[k] = Obj!Whole(w) /\ (Obj!Under({"files"}) => sidecars[k] = w)
  BY DEF Obj!StoredObjectsStand
<1>1. Undisturbed(k)
  BY DEF Standing, Calm, Obj!Under
<1>2. CASE w = "old"
  BY <1>1, <1>2 DEF Undisturbed, Stands
<1>3. CASE w # "old"
  <2>1. w \in Obj!Asked /\ Obj!Key(w) = k /\ access[w].answer = "stored"
    BY <1>3 DEF Obj!Answers
  <2>2. IsDone(w)
    BY <2>1 DEF IsDone, ObjectsTyped, Placed
  <2> QED BY <1>1, <2>1, <2>2 DEF Undisturbed, Stands
<1> QED BY <1>2, <1>3

--------------------
(* Under leases *)

(* While a deletion is under way, nothing but lists is. *)
Exclusive ==
  depot.leased => \A c, d \in Obj!Asked :
    c # d /\ Obj!UnderWay(c) /\ Obj!UnderWay(d) /\ Obj!Kind(c) = "delete" => Obj!Kind(d) = "list"

(* Nobody overwrites the key, and no deletion of it died or failed. *)
Settles(k) ==
  Obj!NeverOverwritten(k) /\ \A c \in Obj!Asked : Obj!Kind(c) = "delete" /\ Obj!Key(c) = k
       => Obj!Answers(c) \notin {"died", "unknown"}

(* A sidecar is of the bytes beside it, until a deletion has taken them;
   a call that writes found none. *)
Paired(k) ==
  /\ sidecars[k] # Missing /\ (\A d \in Obj!Asked : Obj!Key(d) = k => access[d].pc # "unlinked")
       => objects[k] = Obj!Whole(sidecars[k])
  /\ \A w \in Obj!Asked : Obj!Key(w) = k /\ IsAtWork(w) => Mine(k, w) /\ sidecars[k] = Missing

Leased == depot.leased /\ Obj!Under({"files"}) => \A k \in Obj!KeySet : Settles(k) => Paired(k)

LEMMA BeginsAlone ==
  ASSUME ObjectsWellFormed, ObjectsTyped, NEW c \in Obj!Asked, ObjectStep(c), Obj!UnderWay(c)'
  PROVE  Obj!UnderWay(c) \/ Obj!MayBegin(c) \/ Obj!Kind(c) = "list"
<1> SUFFICES ASSUME access[c].pc \in {"idle", "ended"}, ~Obj!MayBegin(c), Obj!Kind(c) # "list" PROVE FALSE
  BY DEF Obj!UnderWay
<1>1. access'[c].pc # "ended"
  BY DEF Obj!UnderWay
<1>2. \A answer : ~Ends(c, answer)
  BY <1>1 DEF Ends, Becomes
<1>3. ~Refused(c) /\ ~Arrived(c)
  BY <1>1, <1>2, Frame DEF Refused, Arrived, Becomes, Placed
<1> QED BY <1>3 DEF ObjectStep, PutStep, Begun, Landed, Lost, OpenedInPlace, Wrote, Failing, Described, Closed,
                Settled, Removed, Confirmed, Found, Deleted, Unlinked, Listed, ListedNext, Died, Obj!UnderWay

LEMMA ExclusiveStep ==
  ASSUME ObjectsWellFormed, ObjectsTyped, Exclusive, NEW c \in Obj!Asked, ObjectStep(c)
  PROVE  Exclusive'
<1>1. /\ depot' = depot /\ Obj!Asked' = Obj!Asked /\ \A d \in Obj!Asked \ {c} : access'[d] = access[d]
      /\ \A d \in Obj!Asked : Obj!Kind(d)' = Obj!Kind(d)
  BY Frame
<1>2. \A d \in Obj!Asked \ {c} : Obj!UnderWay(d)' => Obj!UnderWay(d)
  BY <1>1 DEF Obj!UnderWay
<1> SUFFICES ASSUME depot.leased, NEW d \in Obj!Asked, NEW e \in Obj!Asked, d # e, Obj!UnderWay(d)',
                    Obj!UnderWay(e)', Obj!Kind(d) = "delete"
             PROVE  Obj!Kind(e) = "list"
  BY <1>1 DEF Exclusive
<1>3. CASE d # c /\ e # c
  BY <1>2, <1>3 DEF Exclusive
<1>4. CASE d = c
  <2>1. Obj!UnderWay(c) \/ Obj!MayBegin(c)
    BY <1>4, BeginsAlone
  <2> QED BY <1>2, <1>4, <2>1 DEF Exclusive, Obj!MayBegin
<1>5. CASE e = c
  <2>1. Obj!UnderWay(c) \/ Obj!MayBegin(c) \/ Obj!Kind(c) = "list"
    BY <1>5, BeginsAlone
  <2> QED BY <1>2, <1>5, <2>1 DEF Exclusive, Obj!MayBegin
<1> QED BY <1>3, <1>4, <1>5

LEMMA SettlesBefore ==
  ASSUME ObjectsWellFormed, ObjectsTyped, NEW c \in Obj!Asked, ObjectStep(c), NEW k \in Obj!KeySet, Settles(k)'
  PROVE  /\ Settles(k)
         /\ Obj!Key(c) = k => Obj!Kind(c) \in {"create", "delete"}
         /\ Obj!Key(c) = k /\ Obj!Kind(c) = "delete" => access'[c].answer \notin {"died", "unknown"}
<1>1. /\ Obj!Asked' = Obj!Asked /\ \A d \in Obj!Asked : Obj!Key(d)' = Obj!Key(d) /\ Obj!Kind(d)' = Obj!Kind(d)
      /\ \A d \in Obj!Asked : Obj!Kind(d) \in {"create", "overwrite", "delete", "list"}
           /\ (Obj!Kind(d) = "list" => Obj!Key(d) # k)
  BY Frame
<1>2. \A d \in Obj!Asked : /\ Obj!Kind(d) = "overwrite" => Obj!Key(d) # k
                           /\ Obj!Kind(d) = "delete" /\ Obj!Key(d) = k => access'[d].answer \notin {"died", "unknown"}
  BY <1>1 DEF Settles, Obj!NeverOverwritten, Obj!Answers
<1>3. \A d \in Obj!Asked : access[d].answer \in {"died", "unknown"} => access'[d].answer = access[d].answer
  BY StoredStays, AnswerNames
<1> QED BY <1>1, <1>2, <1>3 DEF Settles, Obj!NeverOverwritten, Obj!Answers

LEMMA PairedElsewhere ==
  ASSUME ObjectsWellFormed, ObjectsTyped, NEW c \in Obj!Asked, ObjectStep(c), NEW k \in Obj!KeySet, k # Obj!Key(c),
         Paired(k)
  PROVE  Paired(k)'
<1>1. objects'[k] = objects[k] /\ sidecars'[k] = sidecars[k]
  BY OtherKeys
<1>2. /\ Obj!Asked' = Obj!Asked /\ \A d \in Obj!Asked \ {c} : access'[d] = access[d]
      /\ \A d \in Obj!Asked : Obj!Key(d)' = Obj!Key(d) /\ Obj!Kind(d)' = Obj!Kind(d)
  BY Frame
<1>3. \A w \in Obj!Asked \ {c} : /\ IsAtWork(w)' => IsAtWork(w)
                                 /\ Mine(k, w) => Mine(k, w)'
  BY <1>1, <1>2 DEF IsAtWork, Mine, Obj!IsPut
<1>4. (\A d \in Obj!Asked : Obj!Key(d) = k => access[d].pc # "unlinked")
     \/ \E d \in Obj!Asked \ {c} : Obj!Key(d) = k /\ access[d].pc = "unlinked"
  OBVIOUS
<1>5. Obj!Whole(sidecars[k])' = Obj!Whole(sidecars'[k])
  BY DEF Obj!Whole
<1> QED BY <1>1, <1>2, <1>3, <1>4, <1>5 DEF Paired

LEMMA PairedHere ==
  ASSUME ObjectsWellFormed, ObjectsTyped, NEW c \in Obj!Asked, ObjectStep(c), Obj!Under({"files"}), depot.leased,
         Exclusive,
         NEW k \in Obj!KeySet, k = Obj!Key(c), Paired(k),
         Obj!Kind(c) \in {"create", "delete"}, Obj!Kind(c) = "delete" => access'[c].answer \notin {"died", "unknown"}
  PROVE  Paired(k)'
<1>1. /\ c \in Makers /\ Placed(c) /\ access[c].wrote \in Nat
      /\ depot' = depot /\ Obj!Asked' = Obj!Asked /\ \A d \in Obj!Asked \ {c} : access'[d] = access[d]
      /\ \A d \in Obj!Asked : Obj!Key(d)' = Obj!Key(d) /\ Obj!Kind(d)' = Obj!Kind(d)
      /\ (Obj!IsPut(c) <=> Obj!Kind(c) = "create") /\ (Obj!IsConditional(c) <=> Obj!Kind(c) = "create")
      /\ ~Obj!Under({"memory", "blob"}) /\ ~Obj!Under({"late"}) /\ ~Obj!Under({"early"})
           /\ ~Obj!Under({"early", "late"}) /\ ~Obj!Under({"blob"})
      /\ ~Obj!Under({"memory"})
  BY Frame DEF Obj!IsPut, Obj!IsConditional, CallRecords, Makers, Obj!Under
<1>2. \A w \in Obj!Asked \ {c} : /\ IsAtWork(w)' => IsAtWork(w)
                                 /\ objects'[k] = objects[k] /\ Mine(k, w) => Mine(k, w)'
                                 /\ access'[w].pc = access[w].pc
  BY <1>1 DEF IsAtWork, Mine, Obj!IsPut
<1>3. ASSUME objects'[k] = objects[k], sidecars'[k] = sidecars[k], access[c].pc # "unlinked",
             IsAtWork(c)' => Mine(k, c)' /\ sidecars[k] = Missing
      PROVE  Paired(k)'
  BY <1>1, <1>2, <1>3 DEF Paired, Obj!Whole
<1>4. ASSUME Mine(k, c) \/ objects[k] = Missing,
             sidecars'[k] # Missing => objects'[k] = Obj!Whole(sidecars'[k]),
             IsAtWork(c)' => Mine(k, c)' /\ sidecars'[k] = Missing
      PROVE  Paired(k)'
  <2>1. \A w \in Obj!Asked \ {c} : Obj!Key(w) = k => ~IsAtWork(w)
    BY <1>4 DEF Paired, Mine
  <2> QED BY <1>1, <1>2, <1>4, <2>1 DEF Paired, Obj!Whole
<1>5. (Obj!Untouched => objects'[k] = objects[k] /\ sidecars'[k] = sidecars[k])
      /\ \A object : Holds(c, object) => objects'[k] = object /\ sidecars'[k] = sidecars[k]
  BY DEF Obj!Untouched, Holds
<1>6. /\ \A answer, adrift : Becomes(c, "ended", answer, adrift) => ~IsAtWork(c)' /\ access'[c].answer = answer
      /\ \A answer : Ends(c, answer) => ~IsAtWork(c)' /\ access'[c].answer = answer
  BY DEF Ends, Becomes, IsAtWork
<1>7. \A place : Moves(c, place) => access'[c].pc = place
  BY DEF Moves, Becomes
<1>8. CASE Obj!Kind(c) = "create"
  <2>1. Obj!IsPut(c) /\ Obj!IsPut(c)' /\ access[c].pc # "unlinked"
    BY <1>1, <1>8 DEF Obj!IsPut, Placed
  <2>2. IsAtWork(c) => Mine(k, c) /\ sidecars[k] = Missing
    BY DEF Paired
  <2>3. CASE Refused(c) \/ Died(c)
    BY <1>3, <1>5, <1>6, <2>1, <2>3 DEF Refused, Died
  <2>4. CASE OpenedInPlace(c)
    <3>1. objects[k] = Missing /\ objects'[k] = Obj!Opened(c) /\ sidecars'[k] = sidecars[k]
          /\ Obj!Opened(c).file = c /\ access'[c].file = c /\ Obj!Opened(c) # Missing
      BY <1>1, <1>5, <1>8, <2>4 DEF OpenedInPlace, Obj!Here, Obj!Opened, ObjectsWellFormed
    <3>2. access'[c].wrote = 0
      BY <1>1, <2>4 DEF OpenedInPlace, Obj!MayBegin, Placed
    <3>3. \A d \in Obj!Asked : access[d].pc # "unlinked"
      <4> SUFFICES ASSUME NEW d \in Obj!Asked, access[d].pc = "unlinked" PROVE FALSE
        OBVIOUS
      <4>1. Obj!Kind(d) = "delete" /\ Obj!UnderWay(d)
        BY DEF ObjectsTyped, Placed, Obj!UnderWay
      <4> QED BY <1>8, <2>4, <4>1 DEF OpenedInPlace, Obj!MayBegin
    <3>4. sidecars[k] = Missing
      <4>1. sidecars[k] \in Makers \cup {Missing}
        BY Frame
      <4> QED BY <3>1, <3>3, <4>1, WholeObject DEF Paired, ObjectsWellFormed
    <3>5. Mine(k, c)'
      BY <3>1, <3>2 DEF Mine
    <3> QED BY <1>4, <3>1, <3>4, <3>5
  <2>5. CASE Wrote(c)
    <3>1. Mine(k, c) /\ sidecars[k] = Missing
      BY <2>1, <2>2, <2>5 DEF Wrote, IsAtWork
    <3>2. Obj!InPlace /\ Obj!Here(c) # Missing /\ Obj!Here(c).file = access[c].file
      BY <3>1 DEF Obj!InPlace, Obj!Under, Mine, Obj!Here
    <3>3. PICK object \in StoredObjects : Rewritten(c, object) /\ Holds(c, object)
      BY <2>5, <3>2 DEF Wrote
    <3>4. access'[c].wrote = access[c].wrote + 1 /\ access'[c].file = c
      BY <2>5, <3>1 DEF Wrote, Mine
    <3>5. object # Missing /\ object.file = c
      BY <3>1, <3>3 DEF Rewritten, Mine, Obj!Here, ObjectsWellFormed
    <3>6. \A i \in 1 .. 2 : i <= access[c].wrote + 1 => object.content[i] = c
      BY <1>1, <3>1, <3>3 DEF Rewritten, Mine, Obj!Here
    <3>7. objects'[k] = object /\ sidecars'[k] = sidecars[k]
      BY <1>5, <3>3
    <3>8. Mine(k, c)'
      BY <3>4, <3>5, <3>6, <3>7 DEF Mine
    <3> QED BY <1>4, <3>1, <3>7, <3>8
  <2>6. CASE Failing(c)
    <3>1. Mine(k, c) /\ sidecars[k] = Missing /\ objects'[k] = objects[k] /\ sidecars'[k] = sidecars[k]
      BY <1>5, <2>1, <2>2, <2>6 DEF Failing, IsAtWork
    <3>2. CASE Goes(c, "removing")
      <4>1. Mine(k, c)'
        BY <3>1, <3>2 DEF Goes, Same, Mine
      <4> QED BY <1>3, <2>1, <3>1, <4>1
    <3>3. CASE Ends(c, "unknown") \/ Ends(c, "rejected")
      BY <1>3, <1>6, <2>1, <3>1, <3>3
    <3> QED BY <2>6, <3>2, <3>3 DEF Failing
  <2>7. CASE Described(c)
    <3>1. Mine(k, c) /\ access[c].wrote = 2 /\ objects'[k] = objects[k] /\ sidecars'[k] = c /\ ~IsAtWork(c)'
      BY <1>6, <2>1, <2>2, <2>7 DEF Described, IsAtWork
    <3>2. objects[k] = Obj!Whole(c)
      BY <3>1, WholeWhenWritten
    <3> QED BY <1>4, <3>1, <3>2
  <2>8. CASE Removed(c)
    <3>1. Mine(k, c) /\ sidecars[k] = Missing
      BY <2>1, <2>2, <2>8 DEF Removed, IsAtWork
    <3>2. sidecars'[k] = sidecars[k] /\ ~IsAtWork(c)'
      BY <1>5, <1>6, <2>8 DEF Removed
    <3> QED BY <1>4, <3>1, <3>2
  <2>9. CASE Begun(c) \/ Landed(c) \/ Lost(c) \/ Arrived(c) \/ Closed(c) \/ Settled(c) \/ Confirmed(c)
             \/ Found(c) \/ Deleted(c) \/ Unlinked(c) \/ Listed(c) \/ ListedNext(c)
    BY <1>1, <1>8, <2>9 DEF Begun, Landed, Lost, Arrived, Closed, Settled, Confirmed, Found, Deleted, Unlinked,
       Listed,
                       ListedNext, Placed
  <2> QED BY <2>3, <2>4, <2>5, <2>6, <2>7, <2>8, <2>9 DEF ObjectStep, PutStep
<1>9. CASE Obj!Kind(c) = "delete"
  <2>1. ~Obj!IsPut(c) /\ ~IsAtWork(c)'
    BY <1>1, <1>9 DEF Obj!IsPut, IsAtWork
  <2>2. CASE Found(c)
    BY <1>1, <1>3, <1>5, <2>1, <2>2 DEF Found, Obj!MayBegin
  <2>3. CASE Deleted(c)
    <3>1. CASE Obj!Untouched
      BY <1>3, <1>5, <2>1, <2>3, <3>1 DEF Deleted
    <3>2. CASE Holds(c, Missing) /\ Goes(c, "unlinked")
      <4>1. access'[c].pc = "unlinked"
        BY <1>7, <3>2 DEF Goes
      <4>2. Obj!UnderWay(c)
        BY <2>3 DEF Deleted, Obj!UnderWay
      <4>3. \A w \in Obj!Asked : ~IsAtWork(w)
        BY <1>9, <2>1, <4>2 DEF Exclusive, IsAtWork, Obj!UnderWay, Obj!IsPut
      <4>4. \A w \in Obj!Asked : ~IsAtWork(w)'
        BY <1>2, <2>1, <4>3
      <4> QED BY <1>1, <4>1, <4>4 DEF Paired
    <3>3. ~Ends(c, "unknown")
      BY <1>6, <1>9
    <3> QED BY <2>3, <3>1, <3>2, <3>3 DEF Deleted
  <2>4. CASE Unlinked(c)
    <3>1. ~Ends(c, "unknown")
      BY <1>6, <1>9
    <3>2. objects'[k] = objects[k] /\ sidecars'[k] = Missing
      BY <2>4, <3>1 DEF Unlinked
    <3> QED BY <1>1, <1>2, <2>1, <3>2 DEF Paired
  <2>5. ~Died(c)
    BY <1>6, <1>9 DEF Died
  <2>6. CASE PutStep(c) \/ Listed(c) \/ ListedNext(c)
    BY <1>1, <1>9, <2>1, <2>6 DEF PutStep, Refused, Begun, Landed, Lost, Arrived, OpenedInPlace, Wrote, Failing,
         Described, Closed, Settled, Removed, Confirmed, Listed, ListedNext, Placed
  <2> QED BY <2>2, <2>3, <2>4, <2>5, <2>6 DEF ObjectStep
<1> QED BY <1>8, <1>9

LEMMA LeasedInit ==
  ASSUME ObjectsWellFormed, Obj!Init
  PROVE  Leased /\ Exclusive
<1>1. \A c \in Obj!Asked : access[c].pc = "idle"
  BY SetupFacts DEF Obj!Init, Obj!Asked
<1>2. \A k \in Obj!KeySet : sidecars[k] # Missing => objects[k] = Obj!Whole(sidecars[k])
  BY DEF Obj!Init
<1> QED BY <1>1, <1>2 DEF Leased, Paired, Exclusive, Obj!UnderWay, IsAtWork

LEMMA LeasedStep ==
  ASSUME ObjectsWellFormed, ObjectsTyped, Leased, Exclusive, NEW c \in Obj!Asked, ObjectStep(c)
  PROVE  Leased'
<1> SUFFICES ASSUME depot'.leased, Obj!Under({"files"})', NEW k \in Obj!KeySet, Settles(k)' PROVE Paired(k)'
  BY DEF Leased
<1>1. depot.leased /\ Obj!Under({"files"})
  BY Frame
<1>2. /\ Settles(k) /\ (Obj!Key(c) = k => Obj!Kind(c) \in {"create", "delete"})
      /\ Obj!Key(c) = k /\ Obj!Kind(c) = "delete" => access'[c].answer \notin {"died", "unknown"}
  BY SettlesBefore
<1>3. Paired(k)
  BY <1>1, <1>2 DEF Leased
<1>4. CASE k = Obj!Key(c)
  BY <1>1, <1>2, <1>3, <1>4, PairedHere
<1>5. CASE k # Obj!Key(c)
  BY <1>3, <1>5, PairedElsewhere
<1> QED BY <1>4, <1>5

LEMMA LeasedIsRight ==
  ASSUME ObjectsWellFormed, ObjectsTyped, Traces, Leased
  PROVE  Obj!SidecarsAreTrue /\ Obj!NoSidecarAlone
<1>1. ASSUME depot.leased, NEW k \in Obj!KeySet, Obj!Quiet(k), Settles(k), sidecars[k] # Missing
      PROVE  objects[k] = Obj!Whole(sidecars[k]) /\ objects[k] # Missing
  <2>1. Paired(k)
    BY <1>1 DEF Traces, Leased
  <2>2. \A d \in Obj!Asked : Obj!Key(d) = k => access[d].pc # "unlinked"
    BY <1>1 DEF Obj!Quiet, Obj!UnderWay, ObjectsTyped, Placed
  <2>3. sidecars[k] \in Makers
    BY <1>1 DEF ObjectsTyped
  <2> QED BY <1>1, <2>1, <2>2, <2>3, WholeObject DEF Paired, ObjectsWellFormed
<1> QED BY <1>1 DEF Obj!SidecarsAreTrue, Obj!NoSidecarAlone, Settles

--------------------
(* Claims *)

Claims(k) == {c \in Obj!Asked : Obj!Kind(c) = "delete" /\ Obj!Key(c) = k /\ access[c].answer = "deleted"}

(* The puts whose bytes will not come to the key any more, but may have. *)
Spent(k) ==
  {c \in Obj!Asked : /\ Obj!IsPut(c) /\ Obj!Key(c) = k /\ access[c].pc = "ended" /\ ~access[c].adrift
                     /\ access[c].answer \notin {"rejected", "exists"}}

Taken(k) == Claims(k) \cup (Obj!Present(objects) \cap {k})

Given(k) == (depot.before \cap {k}) \cup Spent(k)

Counted == Obj!Under({"memory", "blob"}) => \A k \in Obj!KeySet : Cardinality(Taken(k)) <= Cardinality(Given(k))

LEMMA CountedSets ==
  ASSUME ObjectsWellFormed, NEW k \in Obj!KeySet, NEW S, S \subseteq Accesses \cup {k}
  PROVE  IsFiniteSet(S) /\ Cardinality(S) \in Nat /\ k \notin Accesses
<1>1. IsFiniteSet(Accesses \cup {k})
  BY FS_AddElement DEF ObjectsWellFormed
<1> QED BY <1>1, FS_Subset, FS_CardinalityType DEF ObjectsWellFormed

LEMMA OneMore ==
  ASSUME NEW S, NEW T, NEW x, IsFiniteSet(S), T \subseteq S \cup {x}
  PROVE  IsFiniteSet(T) /\ Cardinality(T) <= Cardinality(S) + 1
<1>1. IsFiniteSet(S \cup {x}) /\ Cardinality(S \cup {x}) <= Cardinality(S) + 1
  <2>1. Cardinality(S) \in Nat
    BY FS_CardinalityType
  <2>2. IsFiniteSet(S \cup {x}) /\ (Cardinality(S \cup {x}) = Cardinality(S)
       \/ Cardinality(S \cup {x}) = Cardinality(S) + 1)
    BY FS_AddElement
  <2> QED BY <2>1, <2>2
<1>2. IsFiniteSet(T) /\ Cardinality(T) <= Cardinality(S \cup {x})
  BY <1>1, FS_Subset
<1> QED BY <1>1, <1>2, FS_CardinalityType

LEMMA Exchanged ==
  ASSUME NEW S, NEW T, NEW x \in S, NEW y, IsFiniteSet(S), T \subseteq (S \ {x}) \cup {y}
  PROVE  IsFiniteSet(T) /\ Cardinality(T) <= Cardinality(S)
<1>1. IsFiniteSet(S \ {x}) /\ Cardinality(S \ {x}) = Cardinality(S) - 1
  BY FS_RemoveElement
<1>2. IsFiniteSet(T) /\ Cardinality(T) <= Cardinality(S \ {x}) + 1
  BY <1>1, OneMore
<1>3. Cardinality(S) \in Nat
  BY FS_CardinalityType
<1> QED BY <1>1, <1>2, <1>3

(* A step at a key takes no more than it gives. *)
LEMMA Balance ==
  ASSUME ObjectsWellFormed, ObjectsTyped, NEW c \in Obj!Asked, ObjectStep(c), Obj!Under({"memory", "blob"}),
         NEW k \in Obj!KeySet
  PROVE  /\ Given(k) \subseteq Given(k)'
         /\ \/ Taken(k)' \subseteq Taken(k)
            \/ Taken(k)' \subseteq Taken(k) \cup {k} /\ c \in Given(k)' \ Given(k)
            \/ k \in Taken(k) /\ Taken(k)' \subseteq (Taken(k) \ {k}) \cup {c}
<1>1. /\ depot' = depot /\ Obj!Asked' = Obj!Asked /\ Obj!Asked \subseteq Accesses
           /\ \A d \in Obj!Asked \ {c} : access'[d] = access[d]
      /\ \A d \in Obj!Asked : Obj!Key(d)' = Obj!Key(d) /\ Obj!Kind(d)' = Obj!Kind(d)
           /\ (Obj!IsPut(d)' <=> Obj!IsPut(d))
      /\ Placed(c) /\ Placed(c)' /\ c \notin Obj!KeySet
      /\ ~Obj!Under({"files"}) /\ ~Obj!Under({"late"}) /\ ~Obj!Under({"early"}) /\ ~Obj!Under({"early", "late"})
      /\ ~Obj!Under({"files", "early", "late"}) /\ ~Obj!InPlace
  BY Frame DEF Obj!IsPut, Obj!Under, Obj!InPlace, ObjectsWellFormed
<1>2. access[c].pc = "ended" => access[c].adrift
  BY <1>1 DEF ObjectStep, PutStep, Refused, Begun, Landed, Lost, Arrived, OpenedInPlace, Wrote, Failing, Described,
     Closed,
         Settled, Removed, Confirmed, Found, Deleted, Unlinked, Listed, ListedNext, Died, Obj!UnderWay, Obj!MayBegin
<1>3. Given(k) \subseteq Given(k)'
  BY <1>1, <1>2 DEF Given, Spent
<1>4. \A d \in Claims(k) : d \in Claims(k)'
  BY <1>1, StoredStays, AnswerNames DEF Claims
<1>5. \A d \in Claims(k)' : d \in Claims(k)
     \/ (d = c /\ Obj!Kind(c) = "delete" /\ Obj!Key(c) = k /\ access'[c].answer = "deleted")
  BY <1>1 DEF Claims
<1>6. CASE Obj!Key(c) # k
  <2>1. objects'[k] = objects[k]
    BY <1>6, OtherKeys
  <2> QED BY <1>3, <1>5, <1>6, <2>1 DEF Taken, Obj!Present
<1>7. CASE Obj!Key(c) = k
  <2>1. /\ Obj!Untouched => objects'[k] = objects[k]
        /\ \A object : Holds(c, object) => objects'[k] = object
    BY <1>7 DEF Obj!Untouched, Holds
  <2>2. ASSUME objects'[k] # Missing => objects[k] # Missing, access'[c].answer # "deleted"
        PROVE  Taken(k)' \subseteq Taken(k)
    BY <1>5, <2>2 DEF Taken, Obj!Present
  <2>3. CASE Landed(c) \/ (Arrived(c) /\ ~Obj!Untouched)
    <3>1. /\ Obj!IsPut(c) /\ access'[c].pc = "ended" /\ ~access'[c].adrift
          /\ access'[c].answer \in {"stored", "unknown", "died"} /\ ~(access[c].pc = "ended" /\ ~access[c].adrift)
      BY <1>1, <2>3 DEF Landed, Arrived, Ends, Becomes, Placed
    <3>2. Taken(k)' \subseteq Taken(k) \cup {k}
      BY <1>5, <3>1 DEF Taken, Obj!Present
    <3>3. c \in Spent(k)' /\ c \notin Spent(k)
      BY <1>1, <1>7, <3>1 DEF Spent
    <3>4. c \notin depot.before \cap {k}
      BY <1>1
    <3> QED BY <1>3, <3>2, <3>3, <3>4 DEF Given
  <2>4. CASE Arrived(c) /\ Obj!Untouched
    <3>1. access'[c].answer # "deleted"
      BY <1>1, <2>4 DEF Arrived, Becomes, Placed
    <3> QED BY <1>3, <2>1, <2>2, <2>4, <3>1
  <2>5. CASE Refused(c) \/ Begun(c) \/ Lost(c) \/ Died(c)
    <3>1. access'[c].answer # "deleted"
      <4>1. CASE Begun(c)
        <5>1. access'[c].answer = Missing \/ access[c].pc = "ended"
          BY <1>1, <4>1 DEF Begun, Obj!MayBegin, Goes, Moves, Becomes, Placed
        <5> QED BY <4>1, <5>1, AnswerNames DEF Begun, Obj!MayBegin
      <4>2. CASE Refused(c) \/ Lost(c) \/ Died(c)
        BY <4>2 DEF Refused, Lost, Died, Ends, Becomes
      <4> QED BY <2>5, <4>1, <4>2
    <3> QED BY <1>3, <2>1, <2>2, <2>5, <3>1 DEF Refused, Begun, Lost, Died
  <2>6. CASE OpenedInPlace(c) \/ Wrote(c) \/ Failing(c) \/ Described(c) \/ Closed(c) \/ Settled(c) \/ Removed(c)
             \/ Confirmed(c) \/ Unlinked(c)
    BY <1>1, <2>6 DEF OpenedInPlace, Wrote, Failing, Described, Closed, Settled, Removed, Confirmed, Unlinked, Placed
  <2>7. CASE Found(c) \/ Deleted(c)
    <3>1. CASE Obj!Untouched /\ (Ends(c, "gone") \/ Moves(c, "found") \/ Ends(c, "unknown"))
      <4>1. access'[c].answer # "deleted"
        BY <1>1, AnswerNames, <3>1 DEF Ends, Moves, Becomes, Placed
      <4> QED BY <1>3, <2>1, <2>2, <3>1, <4>1
    <3>2. CASE Holds(c, Missing) /\ (Ends(c, "gone") \/ Ends(c, "unknown"))
      <4>1. access'[c].answer # "deleted"
        BY <3>2 DEF Ends, Becomes
      <4> QED BY <1>3, <2>1, <2>2, <3>2, <4>1
    <3>3. CASE Holds(c, Missing) /\ Obj!Here(c) # Missing
      <4>1. k \in Taken(k)
        BY <1>7, <3>3 DEF Taken, Obj!Present, Obj!Here
      <4>2. Taken(k)' \subseteq (Taken(k) \ {k}) \cup {c}
        BY <1>1, <1>5, <2>1, <3>3, CountedSets DEF Taken, Obj!Present, Claims, ObjectsWellFormed
      <4> QED BY <1>3, <4>1, <4>2
    <3>4. Obj!Under({"memory"}) \/ Obj!Under({"blob"})
      BY DEF Obj!Under
    <3>5. Deleted(c) => Obj!Under({"blob"})
      BY <1>1 DEF Deleted, Placed, Obj!Under
    <3>6. Obj!Matches(c) /\ Obj!Under({"blob"}) => Obj!Here(c) # Missing
      BY DEF Obj!Matches
    <3> QED BY <1>1, <2>7, <3>1, <3>2, <3>3, <3>5, <3>6 DEF Found, Deleted
  <2>8. CASE Listed(c) \/ ListedNext(c)
    BY <1>7, <2>8, Frame DEF Listed, ListedNext, Placed
  <2> QED BY <2>3, <2>4, <2>5, <2>6, <2>7, <2>8 DEF ObjectStep, PutStep
<1> QED BY <1>6, <1>7

LEMMA CountedInit ==
  ASSUME ObjectsWellFormed, Obj!Init
  PROVE  Counted
<1> SUFFICES ASSUME NEW k \in Obj!KeySet PROVE Cardinality(Taken(k)) <= Cardinality(Given(k))
  BY DEF Counted
<1>1. \A c \in Obj!Asked : access[c].answer = Missing /\ access[c].pc = "idle"
  BY SetupFacts DEF Obj!Init, Obj!Asked
<1>2. Obj!Whole("old") # Missing
  BY WholeObject DEF Makers, ObjectsWellFormed
<1>3. Taken(k) = Given(k)
  BY <1>1, AnswerNames, <1>2 DEF Taken, Given, Claims, Spent, Obj!Present, Obj!Init
<1>4. Taken(k) \subseteq {k}
  BY <1>1, AnswerNames DEF Taken, Claims
<1>5. Cardinality(Taken(k)) \in Nat
  BY <1>4, CountedSets
<1> QED BY <1>3, <1>5

LEMMA CountedStep ==
  ASSUME ObjectsWellFormed, ObjectsTyped, Counted, NEW c \in Obj!Asked, ObjectStep(c)
  PROVE  Counted'
<1> SUFFICES ASSUME Obj!Under({"memory", "blob"})', NEW k \in Obj!KeySet
             PROVE  Cardinality(Taken(k)') <= Cardinality(Given(k)')
  BY DEF Counted
<1> DEFINE A == Taken(k)'
           B == Given(k)'
<1>1. Obj!Under({"memory", "blob"}) /\ Obj!Asked' = Obj!Asked /\ Obj!Asked \subseteq Accesses /\ depot' = depot
  BY Frame
<1>2. Cardinality(Taken(k)) <= Cardinality(Given(k))
  BY <1>1 DEF Counted
<1>3. /\ Taken(k) \subseteq Accesses \cup {k} /\ Given(k) \subseteq Accesses \cup {k}
      /\ A \subseteq Accesses \cup {k} /\ B \subseteq Accesses \cup {k}
  BY <1>1 DEF Taken, Given, Claims, Spent
<1>4. /\ Given(k) \subseteq B
      /\ \/ A \subseteq Taken(k)
         \/ A \subseteq Taken(k) \cup {k} /\ c \in B \ Given(k)
         \/ k \in Taken(k) /\ A \subseteq (Taken(k) \ {k}) \cup {c}
  BY <1>1, Balance
<1> HIDE DEF A, B
<1>5. /\ IsFiniteSet(Taken(k)) /\ IsFiniteSet(Given(k)) /\ IsFiniteSet(A) /\ IsFiniteSet(B)
      /\ Cardinality(Taken(k)) \in Nat /\ Cardinality(Given(k)) \in Nat /\ Cardinality(A) \in Nat
           /\ Cardinality(B) \in Nat
  BY <1>3, CountedSets
<1>6. Cardinality(Given(k)) <= Cardinality(B)
  BY <1>4, <1>5, FS_Subset
<1>7. CASE A \subseteq Taken(k)
  <2>1. Cardinality(A) <= Cardinality(Taken(k))
    BY <1>5, <1>7, FS_Subset
  <2> QED BY <1>2, <1>5, <1>6, <2>1 DEF A, B
<1>8. CASE A \subseteq Taken(k) \cup {k} /\ c \in B \ Given(k)
  <2>1. Cardinality(A) <= Cardinality(Taken(k)) + 1
    BY <1>5, <1>8, OneMore
  <2>2. Given(k) \subseteq B \ {c} /\ IsFiniteSet(B \ {c}) /\ Cardinality(B \ {c}) = Cardinality(B) - 1
    BY <1>4, <1>5, <1>8, FS_RemoveElement
  <2>3. Cardinality(Given(k)) <= Cardinality(B \ {c})
    BY <2>2, FS_Subset
  <2> QED BY <1>2, <1>5, <2>1, <2>2, <2>3 DEF A, B
<1>9. CASE k \in Taken(k) /\ A \subseteq (Taken(k) \ {k}) \cup {c}
  <2>1. Cardinality(A) <= Cardinality(Taken(k))
    BY <1>5, <1>9, Exchanged
  <2> QED BY <1>2, <1>5, <1>6, <2>1 DEF A, B
<1> QED BY <1>4, <1>7, <1>8, <1>9

LEMMA CountedIsRight ==
  ASSUME ObjectsWellFormed, ObjectsTyped, Counted
  PROVE  Obj!DeletionsAreClaimedOnce
<1> SUFFICES ASSUME Obj!Under({"memory", "blob"}), NEW k \in Obj!KeySet
             PROVE  Cardinality({c \in Obj!Asked : Obj!Kind(c) = "delete" /\ Obj!Key(c) = k
                  /\ Obj!Answers(c) = "deleted"}) <=
                      Cardinality((depot.before \cap {k})
                        \cup {c \in Obj!Asked : Obj!IsPut(c) /\ Obj!Key(c) = k
                             /\ Obj!Answers(c) \notin {"rejected", "exists"}})
  BY SameSize DEF Obj!DeletionsAreClaimedOnce
<1> DEFINE Claimed == {c \in Obj!Asked : Obj!Kind(c) = "delete" /\ Obj!Key(c) = k /\ Obj!Answers(c) = "deleted"}
           Puts == (depot.before \cap {k})
                     \cup {c \in Obj!Asked : Obj!IsPut(c) /\ Obj!Key(c) = k
                          /\ Obj!Answers(c) \notin {"rejected", "exists"}}
<1>1. Obj!Asked \subseteq Accesses
  BY SetupFacts DEF ObjectsTyped
<1>2. Claimed \subseteq Taken(k) /\ Given(k) \subseteq Puts
  BY DEF Taken, Given, Claims, Spent, Obj!Answers
<1>3. Taken(k) \subseteq Accesses \cup {k} /\ Given(k) \subseteq Accesses \cup {k} /\ Puts \subseteq Accesses \cup {k}
      /\ Claimed \subseteq Accesses \cup {k}
  BY <1>1 DEF Taken, Given, Claims, Spent
<1> HIDE DEF Claimed, Puts
<1>4. Cardinality(Claimed) <= Cardinality(Taken(k)) /\ Cardinality(Given(k)) <= Cardinality(Puts)
  BY <1>2, <1>3, CountedSets, FS_Subset
<1>5. Cardinality(Taken(k)) <= Cardinality(Given(k))
  BY DEF Counted
<1>6. Cardinality(Claimed) \in Nat /\ Cardinality(Taken(k)) \in Nat /\ Cardinality(Given(k)) \in Nat
     /\ Cardinality(Puts) \in Nat
  BY <1>3, CountedSets
<1> QED BY <1>4, <1>5, <1>6 DEF Claimed, Puts

--------------------
(* Lists *)

Seen == [always : SUBSET Obj!KeySet, once : SUBSET Obj!KeySet]

(* The keys a list has named are some of those it saw, and all it saw on
   the pages it has had, unless they went in the meantime. *)
Fair(c) ==
  /\ Obj!Kind(c) = "list" /\ access[c].pc = "listing" =>
       /\ access[c].wrote < Len(ObjectKeys) /\ access[c].found \subseteq witness[c].once
       /\ Obj!Under({"files"}) => witness[c].always \subseteq access[c].found
       /\ \A i \in 1 .. Len(ObjectKeys) : i <= access[c].wrote /\ ObjectKeys[i] \in witness[c].always
            => ObjectKeys[i] \in access[c].found
  /\ access[c].answer = "listed" => witness[c].always \subseteq access[c].found
       /\ access[c].found \subseteq witness[c].once

FairLists == witness \in [Accesses -> Seen] /\ \A c \in Obj!Asked : Fair(c)

LEMMA WatchFacts ==
  ASSUME ObjectsWellFormed, ObjectsTyped, witness \in [Accesses -> Seen], Obj!Watch, NEW c \in Obj!Asked
  PROVE  /\ witness' \in [Accesses -> Seen]
         /\ access[c].pc = "ended" => witness'[c] = witness[c]
         /\ access[c].pc \notin {"idle", "ended"} /\ access'[c].pc # "idle" =>
              /\ witness'[c].always = witness[c].always \cap Obj!Present(objects)
              /\ witness'[c].once = witness[c].once \cup Obj!Present(objects)
         /\ access[c].pc = "idle" /\ access'[c].pc # "idle" =>
              witness'[c].always = Obj!Present(objects) /\ witness'[c].once = Obj!Present(objects)
<1>1. c \in Accesses /\ Obj!Present(objects) \subseteq Obj!KeySet
  BY SetupFacts DEF ObjectsTyped, Obj!Present
<1>2. \A d \in Accesses : witness'[d] \in Seen
  BY <1>1 DEF Obj!Watch, Seen
<1>3. witness' \in [Accesses -> Seen]
  BY <1>2 DEF Obj!Watch
<1>4. access[c].pc = "ended" => witness'[c] = witness[c]
  BY <1>1 DEF Obj!Watch
<1>5. access[c].pc \notin {"idle", "ended"} /\ access'[c].pc # "idle" =>
        /\ witness'[c].always = witness[c].always \cap Obj!Present(objects)
        /\ witness'[c].once = witness[c].once \cup Obj!Present(objects)
  BY <1>1 DEF Obj!Watch
<1>6. access[c].pc = "idle" /\ access'[c].pc # "idle" =>
        witness'[c].always = Obj!Present(objects) /\ witness'[c].once = Obj!Present(objects)
  BY <1>1 DEF Obj!Watch
<1> QED BY <1>3, <1>4, <1>5, <1>6

LEMMA FairStep ==
  ASSUME ObjectsWellFormed, ObjectsTyped, FairLists, Obj!Watch, NEW c \in Obj!Asked, ObjectStep(c)
  PROVE  FairLists'
<1>1. /\ depot' = depot /\ Obj!Asked' = Obj!Asked /\ Obj!Asked \subseteq Accesses
           /\ \A d \in Obj!Asked \ {c} : access'[d] = access[d]
      /\ \A d \in Obj!Asked : Obj!Key(d)' = Obj!Key(d) /\ Obj!Kind(d)' = Obj!Kind(d) /\ access[d] \in CallRecords
      /\ Obj!Under({"files"})' = Obj!Under({"files"})
      /\ Placed(c) /\ Placed(c)' /\ access'[c].pc # "idle"
  BY Frame, NeverIdleAgain DEF ObjectsTyped
<1>2. witness \in [Accesses -> Seen] /\ witness' \in [Accesses -> Seen]
  BY WatchFacts DEF FairLists
<1>3. \A d \in Obj!Asked : Fair(d)
  BY DEF FairLists
<1>4. ASSUME NEW d \in Obj!Asked \ {c} PROVE Fair(d)'
  <2>1. access'[d] = access[d] /\ Placed(d) /\ Obj!Kind(d)' = Obj!Kind(d)
    BY <1>1 DEF ObjectsTyped
  <2>2. CASE access[d].pc = "listing"
    <3>1. /\ witness'[d].always = witness[d].always \cap Obj!Present(objects)
          /\ witness'[d].once = witness[d].once \cup Obj!Present(objects)
      BY <1>2, <2>1, <2>2, WatchFacts
    <3>2. access[d].answer = Missing
      BY <2>1, <2>2 DEF Placed
    <3> QED BY <1>1, <1>3, AnswerNames, <2>1, <2>2, <3>1, <3>2 DEF Fair
  <2>3. CASE access[d].answer = "listed"
    <3>1. witness'[d] = witness[d] /\ access[d].pc = "ended"
      BY <1>2, <2>1, <2>3, AnswerNames, WatchFacts DEF Placed
    <3> QED BY <1>1, <1>3, <2>1, <2>3, <3>1 DEF Fair
  <2> QED BY <2>1, <2>2, <2>3 DEF Fair
<1>5. Fair(c)'
  <2>1. CASE Obj!Kind(c) # "list"
    BY <1>1, <2>1 DEF Fair, Placed
  <2>2. CASE Listed(c)
    <3>1. witness'[c].always = Obj!Present(objects) /\ witness'[c].once = Obj!Present(objects)
      BY <1>1, <1>2, <2>2, WatchFacts DEF Listed
    <3>2. CASE access'[c].found = Obj!Present(objects) /\ access'[c].pc = "ended"
      BY <3>1, <3>2 DEF Fair
    <3>3. CASE Moves(c, "listing") /\ access'[c].wrote = access[c].wrote /\ Obj!Under({"files", "blob"})
               /\ access'[c].found = IF Obj!Under({"files"}) THEN Obj!Present(objects) ELSE {}
      <4>1. access'[c].pc = "listing" /\ access'[c].answer = Missing /\ access'[c].wrote = 0
        BY <1>1, <2>2, <3>3 DEF Moves, Becomes, Placed, Listed
      <4>2. Len(ObjectKeys) \in Nat /\ Len(ObjectKeys) > 0
        BY DEF ObjectsWellFormed
      <4> QED BY <1>1, <3>1, <3>3, <4>1, <4>2, AnswerNames DEF Fair
    <3> QED BY <2>2, <3>2, <3>3 DEF Listed, Becomes
  <2>3. CASE ListedNext(c)
    <3>1. /\ witness'[c].always = witness[c].always \cap Obj!Present(objects)
          /\ witness'[c].once = witness[c].once \cup Obj!Present(objects)
      BY <1>1, <1>2, <2>3, WatchFacts DEF ListedNext
    <3>2. /\ Obj!Kind(c) = "list" /\ access[c].wrote \in Nat /\ access[c].wrote < Len(ObjectKeys)
               /\ Len(ObjectKeys) \in Nat
          /\ access[c].found \subseteq witness[c].once
          /\ Obj!Under({"files"}) => witness[c].always \subseteq access[c].found
          /\ \A i \in 1 .. Len(ObjectKeys) : i <= access[c].wrote /\ ObjectKeys[i] \in witness[c].always
               => ObjectKeys[i] \in access[c].found
      BY <1>1, <1>3, <2>3 DEF ListedNext, Placed, Fair, ObjectsWellFormed, CallRecords
    <3>3. PICK n \in 1 .. Len(ObjectKeys) : n = access[c].wrote + 1
      BY <3>2
    <3>4. access'[c].wrote = n /\ access'[c].found = PageOf(c)
      BY <2>3, <3>3 DEF ListedNext
    <3>5. PageOf(c) \subseteq witness'[c].once
      BY <3>1, <3>2 DEF PageOf
    <3>6. Obj!Under({"files"}) => witness'[c].always \subseteq PageOf(c)
      BY <3>1, <3>2 DEF PageOf, Obj!HasHead, Obj!Present
    <3>7. \A i \in 1 .. Len(ObjectKeys) : i <= n /\ ObjectKeys[i] \in witness'[c].always
         => ObjectKeys[i] \in PageOf(c)
      <4> SUFFICES ASSUME NEW i \in 1 .. Len(ObjectKeys), i <= n,
                          ObjectKeys[i] \in witness'[c].always PROVE ObjectKeys[i] \in PageOf(c)
        OBVIOUS
      <4>1. CASE Obj!Under({"files"})
        BY <3>6, <4>1
      <4>2. CASE ~Obj!Under({"files"})
        <5>1. ObjectKeys[i] \in witness[c].always /\ ObjectKeys[i] \in Obj!Present(objects)
          BY <3>1
        <5>2. i <= access[c].wrote \/ i = n
          BY <3>2, <3>3
        <5> QED BY <3>2, <3>3, <4>2, <5>1, <5>2 DEF PageOf
      <4> QED BY <4>1, <4>2
    <3>8. CASE n = Len(ObjectKeys) /\ Becomes(c, "ended", "listed", access[c].adrift)
      <4>1. witness'[c].always \subseteq Obj!KeySet
        BY <1>1, <1>2 DEF Seen
      <4>2. \A k \in Obj!KeySet : \E i \in 1 .. Len(ObjectKeys) : k = ObjectKeys[i]
        BY DEF Obj!KeySet
      <4>3. witness'[c].always \subseteq PageOf(c)
        BY <3>7, <3>8, <4>1, <4>2
      <4>4. access'[c].pc = "ended"
        BY <3>8 DEF Becomes
      <4> QED BY <3>4, <3>5, <4>3, <4>4 DEF Fair
    <3>9. CASE n # Len(ObjectKeys) /\ Moves(c, "listing")
      <4>1. access'[c].answer = Missing /\ n < Len(ObjectKeys)
        BY <1>1, <2>3, <3>3, <3>9 DEF Moves, Becomes, ListedNext, Placed
      <4> QED BY <1>1, AnswerNames, <3>4, <3>5, <3>6, <3>7, <4>1 DEF Fair
    <3> QED BY <2>3, <3>3, <3>8, <3>9 DEF ListedNext
  <2>4. CASE Died(c)
    BY <2>4 DEF Died, Becomes, Fair
  <2>5. CASE Obj!Kind(c) = "list" /\ ~Listed(c) /\ ~ListedNext(c) /\ ~Died(c)
    BY <1>1, <2>5 DEF ObjectStep, PutStep, Refused, Begun, Landed, Lost, Arrived, OpenedInPlace, Wrote, Failing,
         Described, Closed, Settled, Removed, Confirmed, Found, Deleted, Unlinked, Placed, Obj!IsPut
  <2> QED BY <2>1, <2>2, <2>3, <2>4, <2>5
<1> QED BY <1>1, <1>2, <1>4, <1>5 DEF FairLists

LEMMA FairInit ==
  ASSUME ObjectsWellFormed, Obj!Init
  PROVE  FairLists
<1>1. \A c \in Obj!Asked : access[c].pc = "idle" /\ access[c].answer = Missing
  BY SetupFacts DEF Obj!Init, Obj!Asked
<1>2. witness \in [Accesses -> Seen]
  BY DEF Obj!Init, Seen
<1> QED BY <1>1, <1>2, AnswerNames DEF FairLists, Fair

--------------------
(* The theorems *)

ObjectsInv == ObjectsTyped /\ Traces /\ Made /\ Standing /\ Exclusive /\ Leased /\ Counted /\ FairLists

LEMMA ObjectsInvHolds == ObjectsWellFormed => (Obj!Spec => []ObjectsInv)
<1> SUFFICES ASSUME ObjectsWellFormed PROVE Obj!Spec => []ObjectsInv
  OBVIOUS
<1>1. Obj!Init => ObjectsInv
  BY TypedInit, TracesInit, MadeInit, StandingInit, LeasedInit, CountedInit, FairInit DEF ObjectsInv
<1>2. ObjectsInv /\ [Obj!Next]_Obj!objectVars => ObjectsInv'
  <2> SUFFICES ASSUME ObjectsInv, [Obj!Next]_Obj!objectVars PROVE ObjectsInv'
    OBVIOUS
  <2>1. CASE Obj!Next
    <3>1. Obj!Watch /\ \E c \in Obj!Asked : ObjectStep(c)
      BY <2>1, StepsAreCalls DEF ObjectsInv
    <3>2. PICK c \in Obj!Asked : ObjectStep(c)
      BY <3>1
    <3> QED BY <3>1, <3>2, TypedStep, TracesStep, MadeStep, StandingStep, ExclusiveStep, LeasedStep, CountedStep,
               FairStep DEF ObjectsInv
  <2>2. CASE UNCHANGED Obj!objectVars
    <3>1. depot' = depot /\ objects' = objects /\ sidecars' = sidecars /\ access' = access /\ witness' = witness
      BY <2>2 DEF Obj!objectVars
    <3>2. ObjectsTyped'
      BY <3>1 DEF ObjectsInv, ObjectsTyped, Obj!Asked, Placed, Obj!IsPut, Obj!Kind, Obj!IsConditional, Obj!Under
    <3>3. Traces'
      BY <3>1 DEF ObjectsInv, Traces, Obj!Asked, MayShow, Obj!IsPut, Obj!Kind, Obj!Key, Obj!Under
    <3>8. Made'
      BY <3>1 DEF ObjectsInv, Made, Obj!Asked, MayStand, Obj!IsPut, Obj!Kind, Obj!Key, Obj!Under, Obj!InPlace,
         Obj!MayLeaveItsEmptyObject, Obj!IsConditional
    <3>4. Standing'
      BY <3>1 DEF ObjectsInv, Standing, Obj!Asked, Calm, Undisturbed, Stands, IsDone, IsAtWork, Mine, Obj!Whole,
         Obj!IsPut, Obj!Kind, Obj!Key, Obj!Under
    <3>5. Exclusive' /\ Leased'
      BY <3>1 DEF ObjectsInv, Exclusive, Leased, Settles, Obj!NeverOverwritten, Obj!Answers, Paired, Obj!Asked,
         IsAtWork, Mine, Obj!Whole,
                  Obj!IsPut, Obj!Kind, Obj!Key, Obj!Under, Obj!UnderWay
    <3>6. Counted'
      BY <3>1 DEF ObjectsInv, Counted, Taken, Given, Claims, Spent, Obj!Present, Obj!Asked, Obj!IsPut, Obj!Kind,
         Obj!Key, Obj!Under
    <3>7. FairLists'
      BY <3>1 DEF ObjectsInv, FairLists, Fair, Obj!Asked, Obj!Kind, Obj!Under
    <3> QED BY <3>2, <3>3, <3>4, <3>5, <3>6, <3>7, <3>8 DEF ObjectsInv
  <2> QED BY <2>1, <2>2
<1> QED BY <1>1, <1>2, PTL DEF Obj!Spec

LEMMA FairIsRight ==
  ASSUME FairLists
  PROVE  Obj!ListsAreFair
BY DEF FairLists, Fair, Obj!ListsAreFair, Obj!Answers

(* Whatever is under a key is by calls that put it, and only files are
   described (memory.ts, fs.ts, artifact-opendal, artifact-vercel-blob). *)
THEOREM ObjectStoresTypes == ObjectsWellFormed => (Obj!Spec => []Obj!TypeOK)
<1> SUFFICES ASSUME ObjectsWellFormed PROVE Obj!Spec => []Obj!TypeOK
  OBVIOUS
<1>1. ObjectsInv => Obj!TypeOK
  BY TracesAreRight DEF ObjectsInv
<1> QED BY <1>1, ObjectsInvHolds, PTL

(* A put that was refused, or told that the key exists, left no object, no
   bytes and no sidecar, now or later, so whoever asked for it need not
   delete the key; but for the empty object of a conditional put whose
   source failed at once, on services that make it when the writer opens
   (artifact-opendal/src/index.ts:178). *)
THEOREM RefusedPutsLeaveNothingHolds == ObjectsWellFormed => (Obj!Spec => []Obj!RefusedPutsLeaveNothing)
<1> SUFFICES ASSUME ObjectsWellFormed PROVE Obj!Spec => []Obj!RefusedPutsLeaveNothing
  OBVIOUS
<1>1. ObjectsInv => Obj!RefusedPutsLeaveNothing
  BY TracesAreRight DEF ObjectsInv
<1> QED BY <1>1, ObjectsInvHolds, PTL

(* Except on services that look when the writer closes, what was stored on
   the condition that nothing stood stands whole, whatever other such puts
   do, fail at, or leave when they die. *)
THEOREM StoredObjectsStandHolds == ObjectsWellFormed
     => (Obj!Spec => [](depot.store # "late" => Obj!StoredObjectsStand))
<1> SUFFICES ASSUME ObjectsWellFormed PROVE Obj!Spec => [](depot.store # "late" => Obj!StoredObjectsStand)
  OBVIOUS
<1>1. ObjectsInv => (depot.store # "late" => Obj!StoredObjectsStand)
  BY StandingIsRight DEF ObjectsInv
<1> QED BY <1>1, ObjectsInvHolds, PTL

(* Under the coordinator's leases a sidecar in files is of the bytes beside
   it, whoever died when, unless a deletion did, or bytes were overwritten;
   and none is left of an object that was deleted, or whose put was
   rejected. *)
THEOREM SidecarsAreTrueHolds == ObjectsWellFormed => (Obj!Spec => [](Obj!SidecarsAreTrue /\ Obj!NoSidecarAlone))
<1> SUFFICES ASSUME ObjectsWellFormed PROVE Obj!Spec => [](Obj!SidecarsAreTrue /\ Obj!NoSidecarAlone)
  OBVIOUS
<1>1. ObjectsInv => Obj!SidecarsAreTrue /\ Obj!NoSidecarAlone
  BY LeasedIsRight DEF ObjectsInv
<1> QED BY <1>1, ObjectsInvHolds, PTL

(* In memory and on Vercel Blob, no more deletions claim an object of a
   key than objects were put there. *)
THEOREM DeletionsAreClaimedOnceHolds == ObjectsWellFormed => (Obj!Spec => []Obj!DeletionsAreClaimedOnce)
<1> SUFFICES ASSUME ObjectsWellFormed PROVE Obj!Spec => []Obj!DeletionsAreClaimedOnce
  OBVIOUS
<1>1. ObjectsInv => Obj!DeletionsAreClaimedOnce
  BY CountedIsRight DEF ObjectsInv
<1> QED BY <1>1, ObjectsInvHolds, PTL

(* A list names each key that held an object all the time, and none that
   never did, whatever is put and deleted between its pages. *)
THEOREM ListsAreFairHolds == ObjectsWellFormed => (Obj!Spec => []Obj!ListsAreFair)
<1> SUFFICES ASSUME ObjectsWellFormed PROVE Obj!Spec => []Obj!ListsAreFair
  OBVIOUS
<1>1. ObjectsInv => Obj!ListsAreFair
  BY FairIsRight DEF ObjectsInv
<1> QED BY <1>1, ObjectsInvHolds, PTL
===============================================================================
