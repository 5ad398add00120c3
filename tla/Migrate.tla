------------------------------- MODULE Migrate -------------------------------
(***************************************************************************)
(* Copying between stores with checkpoints (packages/migrate/src/index.ts):*)
(* migrateStore and the manifest helpers, called by jobs that are          *)
(* interrupted and resumed from the checkpoints that were saved, their own *)
(* or another job's. The call of a job is migrateStore and the copies of   *)
(* its manifests, one after the other with the same options. A call that   *)
(* is made again after it returned is another job.                         *)
(*                                                                         *)
(* A lane is a collection or a manifest. Its entries are numbered in the   *)
(* order in which they are read (by id, or as the manifest yields them),   *)
(* which is how the code counts them; new ones come at the end, as the     *)
(* package asks of its callers. The callback saves checkpoints in a file   *)
(* of the job, each under its lane.                                        *)
(***************************************************************************)
EXTENDS Naturals, Sequences

CONSTANTS
  Jobs,
  Lanes,
  Manifests,     \* lanes that are manifests; the others are collections
  LanesOf,       \* per job: the lanes it copies, in order
  Destinations,
  To,            \* per job: its destination
  PlanOf,        \* per job: its plan identity, or None
  None,
  BatchSize,
  Entries,       \* per lane: how many entries its source has at first
  MaxEntries,    \* bound: the entries of a lane
  MaxStops       \* bound: interruptions, of all jobs together

Plan == [planDigest : STRING, destinationIdentity : Destinations]

(* The caller names in its plan the destination it copies to. *)
ASSUME MigrateAssumption ==
  /\ Manifests \subseteq Lanes
  /\ LanesOf \in [Jobs -> Seq(Lanes)] /\ \A j \in Jobs : LanesOf[j] # <<>>
  /\ To \in [Jobs -> Destinations]
  /\ PlanOf \in [Jobs -> Plan \cup {None}]
  /\ \A j \in Jobs : PlanOf[j] # None => PlanOf[j].destinationIdentity = To[j]
  /\ Entries \in [Lanes -> 0..MaxEntries]
  /\ BatchSize \in Nat \ {0} /\ MaxEntries \in Nat /\ MaxStops \in Nat

VARIABLES
  source,     \* per lane: how many entries it has
  copied,     \* per destination and lane: the entries it holds
  saved,      \* per job and lane: processed of its last checkpoint, 0 if none
  run,        \* per job: its call, [pc, at, processed, page, put, last, resume]
  results,    \* per job and lane: what its call returns
  known,      \* per job: the source when its call was made
  stops       \* interruptions so far

vars == <<source, copied, saved, run, results, known, stops>>

Nothing == [l \in Lanes |-> 0]

(* No call is under way. *)
Away(place) == [pc |-> place, at |-> 1, processed |-> 0, page |-> 0, put |-> 0, last |-> FALSE,
                resume |-> Nothing]

Init ==
  /\ source = Entries
  /\ copied = [d \in Destinations |-> [l \in Lanes |-> {}]]
  /\ saved = [j \in Jobs |-> Nothing]
  /\ run = [j \in Jobs |-> Away("idle")]
  /\ results = [j \in Jobs |-> Nothing]
  /\ known = [j \in Jobs |-> Nothing]
  /\ stops = 0

Lane(j) == LanesOf[j][run[j].at]

Running == {"page", "put", "entry", "checkpoint"}

--------------------
(* A call: prepareMigration and normalizeResume. *)

(* Definitions marked "Bug:" are not part of the specification: each is
   the definition that follows it with a plausible mistake, for checking
   that the properties below notice it. *)

(* Bug: the identities of the stores are not compared. *)
DigestMatches(j, k) == PlanOf[j].planDigest = PlanOf[k].planDigest

(* Bug: the plans are compared as objects, and a saved one is another. *)
IsTheSameObject(j, k) == FALSE

PlanMatches(j, k) == PlanOf[j] = PlanOf[k]

(* Job j is given what job k saved. Checkpoints of a job with a plan carry
   it (v2), the others do not (v1), and the caller may upgrade those. *)
Accepted(j, k, upgraded) ==
  \/ saved[k] = Nothing
  \/ PlanOf[j] = None /\ PlanOf[k] = None
  \/ PlanOf[j] # None /\ PlanOf[k] # None /\ PlanMatches(j, k)
  \/ PlanOf[j] # None /\ PlanOf[k] = None /\ upgraded

(* A v1 checkpoint says nothing of its copy: the caller has to know it. *)
CallersDuty(j, k) == PlanOf[k] = None => To[j] = To[k]

StartOf(l) == IF l \in Manifests THEN "entry" ELSE "page"

(* The call of lane number n begins where its checkpoint says (resumeAt). *)
Begin(j, n, resume) ==
  [pc |-> StartOf(LanesOf[j][n]), at |-> n, processed |-> resume[LanesOf[j][n]], page |-> 0,
   put |-> 0, last |-> FALSE, resume |-> resume]

Start(j, k, upgraded) ==
  /\ run[j].pc \in {"idle", "refused", "stopped"}
  /\ CallersDuty(j, k)
  /\ IF Accepted(j, k, upgraded)
     THEN /\ run' = [run EXCEPT ![j] = Begin(j, 1, saved[k])]
          /\ results' = [results EXCEPT ![j] = Nothing]
          /\ known' = [known EXCEPT ![j] = source]
     ELSE run' = [run EXCEPT ![j] = Away("refused")] /\ UNCHANGED <<results, known>>
  /\ UNCHANGED <<source, copied, saved, stops>>

(* The lane is done, and the next begins. *)
EndLane(j) ==
  /\ results' = [results EXCEPT ![j][Lane(j)] = run[j].processed]
  /\ run' = [run EXCEPT ![j] = IF @.at = Len(LanesOf[j])
                               THEN Away("finished")
                               ELSE Begin(j, @.at + 1, @.resume)]

--------------------
(* copyCollectionPrepared *)

SmallerOf(a, b) == IF a < b THEN a ELSE b

(* list, from offset processed, at most a batch. *)
Found(j) ==
  LET l == Lane(j) IN
  IF run[j].processed < source[l] THEN SmallerOf(BatchSize, source[l] - run[j].processed) ELSE 0

Page(j) ==
  /\ run[j].pc = "page"
  /\ IF Found(j) = 0
     THEN EndLane(j)
     ELSE run' = [run EXCEPT ![j].pc = "put", ![j].page = Found(j)] /\ UNCHANGED results
  /\ UNCHANGED <<source, copied, saved, known, stops>>

(* Entry number n of the lane is upserted at the destination. *)
Write(j, n) == copied' = [copied EXCEPT ![To[j]][Lane(j)] = @ \cup {n}]

(* Bug: a full page is taken for the last one. *)
IsLastFull(j) == run[j].page =< BatchSize

IsLast(j) == run[j].page < BatchSize

(* The entries of the page are put one after the other. *)
Put(j) ==
  /\ run[j].pc = "put"
  /\ Write(j, run[j].processed + run[j].put + 1)
  /\ run' = IF run[j].put + 1 < run[j].page
            THEN [run EXCEPT ![j].put = @ + 1]
            ELSE [run EXCEPT ![j].pc = "checkpoint", ![j].processed = @ + run[j].page,
                             ![j].put = 0, ![j].last = IsLast(j)]
  /\ UNCHANGED <<source, saved, results, known, stops>>

--------------------
(* copyManifest, after the entries it skips. *)

Entry(j) ==
  /\ run[j].pc = "entry"
  /\ run[j].processed < source[Lane(j)]
  /\ Write(j, run[j].processed + 1)
  /\ run' = [run EXCEPT ![j].processed = @ + 1, ![j].put = @ + 1,
                         ![j].pc = IF run[j].put + 1 = BatchSize THEN "checkpoint" ELSE "entry"]
  /\ UNCHANGED <<source, saved, results, known, stops>>

(* The manifest has ended: what is not checkpointed yet is. *)
Exhausted(j) ==
  /\ run[j].pc = "entry"
  /\ run[j].processed >= source[Lane(j)]
  /\ IF run[j].put > 0
     THEN run' = [run EXCEPT ![j].pc = "checkpoint", ![j].last = TRUE] /\ UNCHANGED results
     ELSE EndLane(j)
  /\ UNCHANGED <<source, copied, saved, known, stops>>

--------------------
(* Bug: the entries since the last checkpoint are not counted anew. *)
CountedOn(j) == run[j].put

CountedAnew(j) == 0

(* onCheckpoint saves it. *)
Checkpoint(j) ==
  /\ run[j].pc = "checkpoint"
  /\ saved' = [saved EXCEPT ![j][Lane(j)] = run[j].processed]
  /\ IF run[j].last
     THEN EndLane(j)
     ELSE /\ run' = [run EXCEPT ![j].pc = StartOf(Lane(j)), ![j].put = CountedAnew(j), ![j].page = 0]
          /\ UNCHANGED results
  /\ UNCHANGED <<source, copied, known, stops>>

(* A read, a write or onCheckpoint throws, or the process dies, before or
   after the request took effect. *)
Stop(j) ==
  /\ run[j].pc \in Running
  /\ stops < MaxStops
  /\ stops' = stops + 1
  /\ run' = [run EXCEPT ![j] = Away("stopped")]
  /\ UNCHANGED <<source, copied, saved, results, known>>

Grow(l) ==
  /\ source[l] < MaxEntries
  /\ source' = [source EXCEPT ![l] = @ + 1]
  /\ UNCHANGED <<copied, saved, run, results, known, stops>>

--------------------
Step(j) == Page(j) \/ Put(j) \/ Entry(j) \/ Exhausted(j) \/ Checkpoint(j)

AllFinished == (\A j \in Jobs : run[j].pc = "finished") /\ UNCHANGED vars

Next ==
  \/ \E j, k \in Jobs, upgraded \in BOOLEAN : Start(j, k, upgraded)
  \/ \E j \in Jobs : Step(j) \/ Stop(j)
  \/ \E l \in Lanes : Grow(l)
  \/ AllFinished

Spec == Init /\ [][Next]_vars

(* A call under way goes on, and one that was stopped is made again with
   what it saved. *)
Resume(j) == Start(j, j, FALSE)

FairSpec == Spec /\ \A j \in Jobs : WF_vars(Step(j)) /\ WF_vars(Resume(j))

--------------------
(* Properties. *)

Calls == [pc : Running \cup {"idle", "refused", "stopped", "finished"}, at : Nat \ {0},
          processed : Nat, page : 0..BatchSize, put : 0..BatchSize, last : BOOLEAN,
          resume : [Lanes -> Nat]]

TypeOK ==
  /\ source \in [Lanes -> 0..MaxEntries]
  /\ copied \in [Destinations -> [Lanes -> SUBSET Nat]]
  /\ saved \in [Jobs -> [Lanes -> Nat]]
  /\ run \in [Jobs -> Calls]
  /\ \A j \in Jobs : run[j].at =< Len(LanesOf[j])
  /\ results \in [Jobs -> [Lanes -> Nat]]
  /\ known \in [Jobs -> [Lanes -> Nat]]
  /\ stops \in 0..MaxStops

Holds(j, l, n) == 1..n \subseteq copied[To[j]][l]

(* What a saved checkpoint counts is at the destination of its job,
   whichever job's checkpoints it was resumed from, wherever calls were
   interrupted, and whoever else copies to the destination: a resumption
   skips nothing that was not copied (normalizeResume, planMatches, the
   order of writes and checkpoints). *)
CheckpointsAreCopied == \A j \in Jobs, l \in Lanes : Holds(j, l, saved[j][l])

(* A call that returns has copied every entry that was there when it was
   made, in every lane, and as many as it says. *)
FinishedIsComplete ==
  \A j \in Jobs : run[j].pc = "finished" =>
    \A i \in 1..Len(LanesOf[j]) :
      LET l == LanesOf[j][i] IN
      /\ known[j][l] =< results[j][l]
      /\ Holds(j, l, results[j][l])

(* A job that is resumed whenever it is interrupted finishes. *)
JobsFinish == \A j \in Jobs : <>(run[j].pc = "finished")
===============================================================================
