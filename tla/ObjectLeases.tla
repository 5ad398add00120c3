----------------------------- MODULE ObjectLeases -----------------------------
(***************************************************************************)
(* What the leases on one object promise: the decisions of                 *)
(* InMemoryArtifactRepository (packages/artifact/src/memory.ts), each in   *)
(* one step. It is the reference implementation: the rules of the leases   *)
(* are the same in the repository over a store (Artifacts). A holder is    *)
(* a call that asks for a lease, and its name serves as the leaseId.       *)
(***************************************************************************)
EXTENDS Naturals

CONSTANTS
  Holders,
  LeaseTtlMs

VARIABLES
  generation,  \* of the object
  leases,      \* [holder, mode, generation, expires]
  commits,     \* holders that created a record under their lease
  clock

vars == <<generation, leases, commits, clock>>

Modes == {"shared-writer", "exclusive-delete"}

Leases == [holder : Holders, mode : Modes, generation : Nat, expires : Nat]

Init == generation = 0 /\ leases = {} /\ commits = {} /\ clock = 0

Live(now) == {l \in leases : l.expires > now}

Compatible(mode, now) ==
  \A l \in Live(now) : mode = "shared-writer" /\ l.mode = "shared-writer"

(* Reclaiming an expired lease advances the generation. *)
Reclaimed(now) == IF Live(now) = leases THEN generation ELSE generation + 1

(* A caller passes the time it read before it called. *)
Acquire(h, mode, now) ==
  /\ Compatible(mode, now)
  /\ generation' = Reclaimed(now)
  /\ leases' = Live(now) \cup {[holder |-> h, mode |-> mode, generation |-> generation',
                                expires |-> now + LeaseTtlMs]}
  /\ UNCHANGED <<commits, clock>>

Renew(l, now) ==
  /\ l.expires > now
  /\ leases' = (leases \ {l}) \cup {[l EXCEPT !.expires = now + LeaseTtlMs]}
  /\ UNCHANGED <<generation, commits, clock>>

Release(l) ==
  /\ leases' = leases \ {l}
  /\ UNCHANGED <<generation, commits, clock>>

(* createWithLease, createIdempotentWithLease *)
Commit(l, now) ==
  /\ l.mode = "shared-writer"
  /\ l.expires > now
  /\ commits' = commits \cup {l.holder}
  /\ UNCHANGED <<generation, leases, clock>>

Tick == clock' = clock + 1 /\ UNCHANGED <<generation, leases, commits>>

Next == \/ \E now \in 0..clock :
             \/ \E h \in Holders, mode \in Modes : Acquire(h, mode, now)
             \/ \E l \in leases : Renew(l, now) \/ Commit(l, now)
        \/ \E l \in leases : Release(l)
        \/ Tick

Spec == Init /\ [][Next]_vars

--------------------
(* Properties. *)

TypeOK ==
  /\ generation \in Nat /\ clock \in Nat
  /\ leases \subseteq Leases /\ \A l \in leases : l.generation <= generation
  /\ commits \subseteq Holders

(* A deleter's lease is the only one there is, expired ones included, and
   of the object's last generation, whatever times the callers read: so
   who holds it has every commit of an earlier lease behind it. *)
ExclusiveIsAlone ==
  \A l \in leases : l.mode = "exclusive-delete" => leases = {l} /\ l.generation = generation

(* No record of the object is created while a deleter's lease is there:
   a writer that stalled past its lease does not commit behind a deletion. *)
CommitsExcludeDeleters ==
  [][commits' # commits => \A l \in leases : l.mode = "shared-writer"]_vars
===============================================================================
