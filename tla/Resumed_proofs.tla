---------------------------- MODULE Resumed_proofs ----------------------------
(***************************************************************************)
(* Theorems of what goes on where it was left, for every number of jobs,   *)
(* lanes, streams, units and processes.                                    *)
(*                                                                         *)
(* Migrate: the invariant says of a call under way that what it resumed    *)
(* from and what it counts are at its destination, entry by entry within a *)
(* page, that the lanes behind it are complete, and that a page or         *)
(* manifest taken for the last one reached what the source had when the    *)
(* call was made.                                                          *)
(*                                                                         *)
(* Logs: every set of rows there is, the committed ones, what a            *)
(* transaction sees and what a savepoint would bring back, numbers each    *)
(* stream 1, 2, 3, ...; the holder of the write lock sees all that is      *)
(* committed, and so does what its savepoint would bring back. A process   *)
(* has one unit at most in a transaction or waiting for that lock, and     *)
(* what a transaction sees is what is committed and what it has told of.   *)
(***************************************************************************)
EXTENDS Migrate, FiniteSetTheorems, SequenceTheorems, TLAPS

CONSTANTS Setups, Units, Names, MaxCalls, Missing    \* the constants of Logs

VARIABLES setup, rows, writer, line, owner, unit     \* its variables

Log == INSTANCE Logs

--------------------
(* Migrations *)

Known(j) == \A l \in Lanes : known[j][l] =< source[l]

Saved(j) == \A l \in Lanes : Holds(j, l, saved[j][l])

LaneDone(j, l) == known[j][l] =< results[j][l] /\ Holds(j, l, results[j][l])

DoneUpTo(j, n) == \A i \in 1..n : LaneDone(j, LanesOf[j][i])

(* The entries of the page that were put, and how far the page reaches. *)
PageOK(j) ==
  run[j].pc = "put" =>
    /\ run[j].put < run[j].page
    /\ \A n \in 1..run[j].put : run[j].processed + n \in copied[To[j]][Lane(j)]
    /\ run[j].page = BatchSize \/ known[j][Lane(j)] =< run[j].processed + run[j].page

LastOK(j) ==
  /\ run[j].pc = "page" => run[j].put = 0
  /\ run[j].pc = "entry" => run[j].put < BatchSize
  /\ run[j].last => run[j].pc = "checkpoint" /\ known[j][Lane(j)] =< run[j].processed

Progress(j) ==
  run[j].pc \in Running =>
    /\ \A l \in Lanes : Holds(j, l, run[j].resume[l])
    /\ Holds(j, Lane(j), run[j].processed)
    /\ DoneUpTo(j, run[j].at - 1)
    /\ PageOK(j)
    /\ LastOK(j)

Finished(j) == run[j].pc = "finished" => DoneUpTo(j, Len(LanesOf[j]))

JobOK(j) == Known(j) /\ Saved(j) /\ Progress(j) /\ Finished(j)

IInv == TypeOK /\ \A j \in Jobs : JobOK(j)

--------------------
(* A lane of a job's call is a lane. *)
LEMMA LaneIsALane ==
  ASSUME TypeOK, NEW j \in Jobs
  PROVE  Lane(j) \in Lanes
<1>1. LanesOf[j] \in Seq(Lanes) /\ run[j].at \in 1..Len(LanesOf[j])
  BY MigrateAssumption DEF TypeOK, Calls
<1> QED
  BY <1>1 DEF Lane

(* Nothing is taken from a destination or a source. *)
Grown ==
  /\ \A d \in Destinations, l \in Lanes : copied[d][l] \subseteq copied'[d][l]
  /\ \A l \in Lanes : source[l] =< source'[l]

LEMMA HoldsStays ==
  ASSUME TypeOK, Grown, NEW j \in Jobs
  PROVE  \A l \in Lanes, n \in Nat : Holds(j, l, n) => Holds(j, l, n)'
<1>1. To[j] \in Destinations
  BY MigrateAssumption
<1> QED
  BY <1>1 DEF Holds, Grown

LEMMA KnownStays ==
  ASSUME TypeOK, TypeOK', Grown, NEW j \in Jobs, Known(j), known'[j] = known[j]
  PROVE  Known(j)'
<1>1. \A l \in Lanes : known[j][l] \in Nat /\ source[l] \in Nat /\ source'[l] \in Nat
  BY DEF TypeOK
<1> QED
  BY <1>1 DEF Known, Grown

(* Lanes done stay done, unless what the call returned for them changes. *)
LEMMA DoneStays ==
  ASSUME TypeOK, Grown, NEW j \in Jobs, known'[j] = known[j], NEW l \in Lanes,
         results'[j][l] = results[j][l], LaneDone(j, l)
  PROVE  LaneDone(j, l)'
<1>1. results[j][l] \in Nat
  BY DEF TypeOK
<1> QED
  BY <1>1, HoldsStays DEF LaneDone

LEMMA AllDoneStay ==
  ASSUME TypeOK, Grown, NEW j \in Jobs, known'[j] = known[j], results'[j] = results[j],
         NEW n \in Nat, n =< Len(LanesOf[j]), DoneUpTo(j, n)
  PROVE  DoneUpTo(j, n)'
<1>1. \A i \in 1..n : LanesOf[j][i] \in Lanes
  BY MigrateAssumption
<1> QED
  BY <1>1, DoneStays DEF DoneUpTo

(* What other jobs do leaves a job as it is. *)
LEMMA OthersKeepAJob ==
  ASSUME IInv, TypeOK', NEW j \in Jobs, Grown,
         run'[j] = run[j], saved'[j] = saved[j], results'[j] = results[j], known'[j] = known[j]
  PROVE  JobOK(j)'
<1>1. JobOK(j) /\ TypeOK /\ To[j] \in Destinations /\ LanesOf[j] \in Seq(Lanes)
  BY MigrateAssumption DEF IInv
<1>2. \A l \in Lanes, n \in Nat : Holds(j, l, n) => Holds(j, l, n)'
  BY <1>1, HoldsStays
<1>3. Lane(j)' = Lane(j) /\ Lane(j) \in Lanes
  BY <1>1, LaneIsALane DEF Lane
<1>4. Known(j)'
  BY <1>1, KnownStays DEF JobOK
<1>5. Saved(j)'
  BY <1>1, <1>2 DEF JobOK, Saved, TypeOK
<1>6. \A n \in Nat : n =< Len(LanesOf[j]) /\ DoneUpTo(j, n) => DoneUpTo(j, n)'
  BY <1>1, AllDoneStay
<1>7. Progress(j)'
  <2> SUFFICES ASSUME run[j].pc \in Running
               PROVE  Progress(j)'
    BY DEF Progress
  <2>1. run[j] \in Calls /\ run[j].at =< Len(LanesOf[j])
    BY <1>1 DEF TypeOK
  <2>2. \A l \in Lanes : Holds(j, l, run[j].resume[l])'
    BY <1>1, <1>2, <2>1 DEF JobOK, Progress, Calls
  <2>3. Holds(j, Lane(j), run[j].processed)'
    BY <1>1, <1>2, <1>3, <2>1 DEF JobOK, Progress, Calls
  <2>4. DoneUpTo(j, run[j].at - 1)'
    BY <1>1, <1>6, <2>1 DEF JobOK, Progress, Calls
  <2>5. PageOK(j)'
    BY <1>1, <1>3 DEF JobOK, Progress, PageOK, Grown
  <2>6. LastOK(j)'
    BY <1>1, <1>3 DEF JobOK, Progress, LastOK
  <2> QED
    BY <1>3, <2>2, <2>3, <2>4, <2>5, <2>6 DEF Progress
<1>8. Finished(j)'
  BY <1>1, <1>6 DEF JobOK, Finished
<1> QED
  BY <1>4, <1>5, <1>7, <1>8 DEF JobOK

--------------------
(* Types. *)

LEMMA AwayIsACall ==
  ASSUME NEW place \in Running \cup {"idle", "refused", "stopped", "finished"}
  PROVE  Away(place) \in Calls
BY MigrateAssumption DEF Away, Calls, Nothing, Running

LEMMA BeginIsACall ==
  ASSUME NEW j \in Jobs, NEW n \in 1..Len(LanesOf[j]), NEW resume \in [Lanes -> Nat]
  PROVE  Begin(j, n, resume) \in Calls
<1>1. LanesOf[j][n] \in Lanes
  BY MigrateAssumption
<1>2. StartOf(LanesOf[j][n]) \in Running
  BY DEF StartOf, Running
<1> QED
  BY MigrateAssumption, <1>1, <1>2 DEF Begin, Calls

(* The first lane is there. *)
LEMMA LanesAreThere ==
  ASSUME NEW j \in Jobs
  PROVE  Len(LanesOf[j]) \in Nat \ {0} /\ LanesOf[j] \in Seq(Lanes)
BY MigrateAssumption

LEMMA EndLaneTypes ==
  ASSUME TypeOK, NEW j \in Jobs, EndLane(j)
  PROVE  /\ run' \in [Jobs -> Calls]
         /\ \A i \in Jobs : run'[i].at =< Len(LanesOf[i])
         /\ results' \in [Jobs -> [Lanes -> Nat]]
<1>1. run[j] \in Calls /\ Lane(j) \in Lanes /\ run[j].at \in 1..Len(LanesOf[j])
  BY LaneIsALane DEF TypeOK, Calls
<1>2. results' \in [Jobs -> [Lanes -> Nat]]
  BY <1>1 DEF EndLane, TypeOK, Calls
<1>3. CASE run[j].at = Len(LanesOf[j])
  <2>1. run' = [run EXCEPT ![j] = Away("finished")]
    BY <1>3 DEF EndLane, TypeOK
  <2>2. Away("finished").at =< Len(LanesOf[j])
    BY LanesAreThere DEF Away
  <2> QED
    BY <1>2, <2>1, <2>2, AwayIsACall DEF TypeOK
<1>4. CASE run[j].at # Len(LanesOf[j])
  <2> DEFINE next == Begin(j, run[j].at + 1, run[j].resume)
  <2>1. run[j].at + 1 \in 1..Len(LanesOf[j]) /\ run[j].resume \in [Lanes -> Nat]
    <3>1. run[j].resume \in [Lanes -> Nat]
      BY <1>1 DEF Calls
    <3>2. run[j].at \in 1..Len(LanesOf[j]) /\ Len(LanesOf[j]) \in Nat
      BY <1>1, LanesAreThere
    <3>3. run[j].at + 1 \in 1..Len(LanesOf[j])
      BY <1>4, <3>2
    <3> QED
      BY <3>1, <3>3
  <2>2. run' = [run EXCEPT ![j] = next]
    BY <1>4 DEF EndLane, TypeOK
  <2>3. next \in Calls
    BY <2>1, BeginIsACall
  <2>4. next.at =< Len(LanesOf[j])
    BY <2>1 DEF Begin
  <2> HIDE DEF next
  <2> QED
    BY <1>2, <2>2, <2>3, <2>4 DEF TypeOK
<1> QED
  BY <1>3, <1>4

(* A call replaced by one that is of the type leaves the calls so. *)
LEMMA CallTypes ==
  ASSUME TypeOK, NEW j \in Jobs, NEW call \in Calls, call.at =< Len(LanesOf[j]),
         run' = [run EXCEPT ![j] = call]
  PROVE  /\ run' \in [Jobs -> Calls]
         /\ \A i \in Jobs : run'[i].at =< Len(LanesOf[i])
BY DEF TypeOK

LEMMA FoundWithinABatch ==
  ASSUME TypeOK, NEW j \in Jobs
  PROVE  /\ Found(j) \in 0..BatchSize
         /\ Found(j) = BatchSize \/ source[Lane(j)] =< run[j].processed + Found(j)
<1>1. run[j].processed \in Nat /\ source[Lane(j)] \in Nat
  BY LaneIsALane DEF TypeOK, Calls
<1> QED
  BY <1>1, MigrateAssumption DEF Found, SmallerOf

LEMMA WriteTypes ==
  ASSUME TypeOK, NEW j \in Jobs, NEW n \in Nat, Write(j, n)
  PROVE  copied' \in [Destinations -> [Lanes -> SUBSET Nat]]
BY LaneIsALane, MigrateAssumption DEF Write, TypeOK

LEMMA NextTypes ==
  ASSUME IInv, [Next]_vars
  PROVE  TypeOK'
<1> USE DEF IInv
<1>1. ASSUME NEW j \in Jobs, NEW k \in Jobs, NEW upgraded \in BOOLEAN, Start(j, k, upgraded)
      PROVE  TypeOK'
  <2>1. 1 \in 1..Len(LanesOf[j]) /\ saved[k] \in [Lanes -> Nat]
    BY LanesAreThere DEF TypeOK
  <2>2. Begin(j, 1, saved[k]) \in Calls /\ Begin(j, 1, saved[k]).at =< Len(LanesOf[j])
    BY <2>1, BeginIsACall DEF Begin
  <2>3. Away("refused") \in Calls /\ Away("refused").at =< Len(LanesOf[j])
    BY <2>1, AwayIsACall DEF Away
  <2>4. Nothing \in [Lanes -> Nat] /\ source \in [Lanes -> Nat]
    BY MigrateAssumption DEF Nothing, TypeOK
  <2> QED
    BY <1>1, <2>2, <2>3, <2>4 DEF Start, TypeOK
<1>2. ASSUME NEW j \in Jobs, Page(j)
      PROVE  TypeOK'
  <2>1. CASE Found(j) = 0
    BY <1>2, <2>1, EndLaneTypes DEF Page, TypeOK
  <2>2. CASE Found(j) # 0
    <3>1. run' = [run EXCEPT ![j] = [@ EXCEPT !.pc = "put", !.page = Found(j)]]
      BY <1>2, <2>2 DEF Page, TypeOK, Calls
    <3> DEFINE call == [run[j] EXCEPT !.pc = "put", !.page = Found(j)]
    <3>2. run[j] \in Calls /\ run[j].at =< Len(LanesOf[j])
      BY DEF TypeOK
    <3>3. call \in Calls /\ call.at =< Len(LanesOf[j])
      BY <3>2, FoundWithinABatch DEF Calls, Running
    <3>4. run' = [run EXCEPT ![j] = call]
      BY <3>1
    <3> HIDE DEF call
    <3> QED
      BY <1>2, <2>2, <3>3, <3>4, CallTypes DEF Page, TypeOK
  <2> QED
    BY <2>1, <2>2
<1>3. ASSUME NEW j \in Jobs, Put(j)
      PROVE  TypeOK'
  <2>1. run[j] \in Calls /\ run[j].put < run[j].page
    BY <1>3 DEF Put, TypeOK, JobOK, Progress, PageOK, Running
  <2>2. copied' \in [Destinations -> [Lanes -> SUBSET Nat]]
    BY <1>3, <2>1, WriteTypes DEF Put, Calls
  <2> DEFINE call ==
        IF run[j].put + 1 < run[j].page
        THEN [run[j] EXCEPT !.put = run[j].put + 1]
        ELSE [run[j] EXCEPT !.pc = "checkpoint", !.processed = run[j].processed + run[j].page, !.put = 0,
                            !.last = IsLast(j)]
  <2>3. run[j].at =< Len(LanesOf[j]) /\ run' = [run EXCEPT ![j] = call]
    BY <1>3, <2>1 DEF Put, TypeOK, Calls
  <2>4. call \in Calls /\ call.at =< Len(LanesOf[j])
    <3>1. /\ run[j].put \in 0..BatchSize /\ run[j].page \in 0..BatchSize
          /\ run[j].processed \in Nat /\ IsLast(j) \in BOOLEAN /\ BatchSize \in Nat
      BY <2>1, MigrateAssumption DEF Calls, IsLast
    <3>2. /\ 0 \in 0..BatchSize /\ run[j].processed + run[j].page \in Nat
          /\ run[j].put + 1 < run[j].page => run[j].put + 1 \in 0..BatchSize
      BY <3>1
    <3>3. CASE run[j].put + 1 < run[j].page
      BY <2>1, <2>3, <3>2, <3>3 DEF Calls
    <3>4. CASE ~(run[j].put + 1 < run[j].page)
      BY <2>1, <2>3, <3>1, <3>2, <3>4 DEF Calls, Running
    <3> QED
      BY <3>3, <3>4
  <2> HIDE DEF call
  <2> QED
    BY <1>3, <2>2, <2>3, <2>4, CallTypes DEF Put, TypeOK
<1>4. ASSUME NEW j \in Jobs, Entry(j)
      PROVE  TypeOK'
  <2>1. run[j] \in Calls /\ run[j].put < BatchSize
    BY <1>4 DEF Entry, TypeOK, JobOK, Progress, LastOK, Running
  <2>2. copied' \in [Destinations -> [Lanes -> SUBSET Nat]]
    BY <1>4, <2>1, WriteTypes DEF Entry, Calls
  <2> DEFINE call ==
        [run[j] EXCEPT !.processed = run[j].processed + 1, !.put = run[j].put + 1,
                       !.pc = IF run[j].put + 1 = BatchSize THEN "checkpoint" ELSE "entry"]
  <2>3. run[j].at =< Len(LanesOf[j]) /\ run' = [run EXCEPT ![j] = call]
    BY <1>4, <2>1 DEF Entry, TypeOK, Calls
  <2>4. call \in Calls /\ call.at =< Len(LanesOf[j])
    <3>1. run[j].put + 1 \in 0..BatchSize /\ run[j].processed + 1 \in Nat
      <4>1. run[j].put \in 0..BatchSize /\ run[j].put < BatchSize /\ run[j].processed \in Nat
        BY <2>1 DEF Calls
      <4>2. BatchSize \in Nat
        BY MigrateAssumption
      <4> QED
        BY <4>1, <4>2
    <3> QED
      BY <2>1, <2>3, <3>1 DEF Calls, Running
  <2> HIDE DEF call
  <2> QED
    BY <1>4, <2>2, <2>3, <2>4, CallTypes DEF Entry, TypeOK
<1>5. ASSUME NEW j \in Jobs, Exhausted(j)
      PROVE  TypeOK'
  <2>1. CASE run[j].put > 0
    <3>1. run' = [run EXCEPT ![j] = [@ EXCEPT !.pc = "checkpoint", !.last = TRUE]]
      BY <1>5, <2>1 DEF Exhausted, TypeOK, Calls
    <3> DEFINE call == [run[j] EXCEPT !.pc = "checkpoint", !.last = TRUE]
    <3>2. run[j] \in Calls /\ run[j].at =< Len(LanesOf[j])
      BY DEF TypeOK
    <3>3. call \in Calls /\ call.at =< Len(LanesOf[j])
      BY <3>2 DEF Calls, Running
    <3>4. run' = [run EXCEPT ![j] = call]
      BY <3>1
    <3> HIDE DEF call
    <3> QED
      BY <1>5, <2>1, <3>3, <3>4, CallTypes DEF Exhausted, TypeOK
  <2>2. CASE ~(run[j].put > 0)
    BY <1>5, <2>2, EndLaneTypes DEF Exhausted, TypeOK
  <2> QED
    BY <2>1, <2>2
<1>6. ASSUME NEW j \in Jobs, Checkpoint(j)
      PROVE  TypeOK'
  <2>1. saved' \in [Jobs -> [Lanes -> Nat]]
    BY <1>6, LaneIsALane DEF Checkpoint, TypeOK, Calls
  <2>2. CASE run[j].last
    BY <1>6, <2>1, <2>2, EndLaneTypes DEF Checkpoint, TypeOK
  <2>3. CASE ~run[j].last
    <3>1. run' = [run EXCEPT ![j] = [@ EXCEPT !.pc = StartOf(Lane(j)), !.put = CountedAnew(j), !.page = 0]]
      BY <1>6, <2>3 DEF Checkpoint, TypeOK, Calls
    <3>2. StartOf(Lane(j)) \in Running /\ CountedAnew(j) \in 0..BatchSize
      BY MigrateAssumption DEF StartOf, Running, CountedAnew
    <3> DEFINE call == [run[j] EXCEPT !.pc = StartOf(Lane(j)), !.put = CountedAnew(j), !.page = 0]
    <3>3. run[j] \in Calls /\ run[j].at =< Len(LanesOf[j])
      BY DEF TypeOK
    <3>4. call \in Calls /\ call.at =< Len(LanesOf[j])
      <4>1. 0 \in 0..BatchSize
        BY MigrateAssumption
      <4>2. StartOf(Lane(j)) \in Running \cup {"idle", "refused", "stopped", "finished"}
        BY <3>2
      <4> QED
        BY <3>2, <3>3, <4>1, <4>2 DEF Calls
    <3>5. run' = [run EXCEPT ![j] = call]
      BY <3>1
    <3> HIDE DEF call
    <3> QED
      BY <1>6, <2>1, <2>3, <3>4, <3>5, CallTypes DEF Checkpoint, TypeOK
  <2> QED
    BY <2>2, <2>3
<1>7. ASSUME NEW j \in Jobs, Stop(j)
      PROVE  TypeOK'
  <2>1. Away("stopped") \in Calls /\ Away("stopped").at =< Len(LanesOf[j])
    BY AwayIsACall, LanesAreThere DEF Away
  <2>2. run' = [run EXCEPT ![j] = Away("stopped")]
    BY <1>7 DEF Stop
  <2>3. run' \in [Jobs -> Calls] /\ \A i \in Jobs : run'[i].at =< Len(LanesOf[i])
    BY <2>1, <2>2, CallTypes
  <2>4. stops' \in 0..MaxStops
    BY <1>7, MigrateAssumption DEF Stop, TypeOK
  <2> QED
    BY <1>7, <2>3, <2>4 DEF Stop, TypeOK
<1>8. ASSUME NEW l \in Lanes, Grow(l)
      PROVE  TypeOK'
  BY <1>8, MigrateAssumption DEF Grow, TypeOK
<1>9. CASE UNCHANGED vars
  BY <1>9 DEF vars, TypeOK
<1> QED
  BY <1>1, <1>2, <1>3, <1>4, <1>5, <1>6, <1>7, <1>8, <1>9 DEF Next, Step, AllFinished

--------------------
(* The invariant. *)

LEMMA InitIInv == Init => IInv
<1> SUFFICES ASSUME Init PROVE IInv
  OBVIOUS
<1>1. Nothing \in [Lanes -> Nat]
  BY DEF Nothing
<1>2. Away("idle") \in Calls /\ Away("idle").at = 1 /\ Away("idle").pc = "idle"
  BY AwayIsACall DEF Away
<1>3. \A j \in Jobs : Away("idle").at =< Len(LanesOf[j])
  <2> SUFFICES ASSUME NEW j \in Jobs PROVE 1 =< Len(LanesOf[j])
    BY DEF Away
  <2> QED
    BY LanesAreThere
<1>4. TypeOK
  BY <1>1, <1>2, <1>3, MigrateAssumption DEF Init, TypeOK
<1>5. ASSUME NEW j \in Jobs
      PROVE  JobOK(j)
  <2>1. Known(j)
    BY MigrateAssumption DEF Init, Known, Nothing
  <2>2. Saved(j)
    BY DEF Init, Saved, Nothing, Holds
  <2>3. Progress(j) /\ Finished(j)
    BY <1>2 DEF Init, Progress, Finished, Running
  <2> QED
    BY <2>1, <2>2, <2>3 DEF JobOK
<1> QED
  BY <1>4, <1>5 DEF IInv

LEMMA WriteGrows ==
  ASSUME TypeOK, NEW j \in Jobs, NEW n \in Nat, Write(j, n), UNCHANGED source
  PROVE  /\ Grown
         /\ n \in copied'[To[j]][Lane(j)]
<1>1. To[j] \in Destinations /\ Lane(j) \in Lanes
  BY LaneIsALane, MigrateAssumption
<1>2. \A l \in Lanes : source[l] =< source'[l]
  BY MigrateAssumption DEF TypeOK
<1> QED
  BY <1>1, <1>2 DEF Write, Grown, TypeOK

LEMMA UnchangedIsGrown ==
  ASSUME TypeOK, UNCHANGED <<source, copied>>
  PROVE  Grown
BY MigrateAssumption DEF Grown, TypeOK

(* The end of a lane that is complete. *)
LEMMA EndLaneKeepsProgress ==
  ASSUME TypeOK, TypeOK', Grown, NEW j \in Jobs, EndLane(j), UNCHANGED known,
         DoneUpTo(j, run[j].at - 1),
         \A l \in Lanes : Holds(j, l, run[j].resume[l]),
         known[j][Lane(j)] =< run[j].processed,
         Holds(j, Lane(j), run[j].processed)
  PROVE  Progress(j)' /\ Finished(j)'
<1>1. PICK at, lane, processed, resume :
        at = run[j].at /\ lane = Lane(j) /\ processed = run[j].processed /\ resume = run[j].resume
  OBVIOUS
<1>2. /\ run[j] \in Calls /\ lane \in Lanes /\ at \in 1..Len(LanesOf[j]) /\ lane = LanesOf[j][at]
      /\ LanesOf[j] \in Seq(Lanes) /\ processed \in Nat /\ resume \in [Lanes -> Nat]
  <2>1. run[j] \in Calls /\ at =< Len(LanesOf[j]) /\ lane \in Lanes /\ lane = LanesOf[j][at]
    BY <1>1, LaneIsALane DEF TypeOK, Lane
  <2>2. at \in Nat \ {0} /\ processed \in Nat /\ resume \in [Lanes -> Nat]
    BY <1>1, <2>1 DEF Calls
  <2> QED
    BY <2>1, <2>2, LanesAreThere
<1>3. results'[j] = [results[j] EXCEPT ![lane] = processed]
  <2>1. results \in [Jobs -> [Lanes -> Nat]]
    BY DEF TypeOK
  <2>2. results' = [results EXCEPT ![j][lane] = processed]
    BY <1>1 DEF EndLane
  <2> QED
    BY <2>1, <2>2
<1>4. \A l \in Lanes, n \in Nat : Holds(j, l, n) => Holds(j, l, n)'
  BY HoldsStays
<1>5. LaneDone(j, lane)'
  <2>1. results'[j][lane] = processed /\ known'[j][lane] =< processed
    BY <1>1, <1>2, <1>3 DEF TypeOK
  <2>2. Holds(j, lane, processed)'
    BY <1>1, <1>2, <1>4
  <2> QED
    BY <2>1, <2>2 DEF LaneDone
<1>6. DoneUpTo(j, at)'
  <2> SUFFICES ASSUME NEW i \in 1..at PROVE LaneDone(j, LanesOf[j][i])'
    BY DEF DoneUpTo
  <2>1. LanesOf[j][i] \in Lanes
    BY <1>2
  <2>2. CASE LanesOf[j][i] = lane
    BY <1>5, <2>2
  <2>3. CASE LanesOf[j][i] # lane
    <3>1. i \in 1..(at - 1)
      BY <1>2, <2>3
    <3>2. LaneDone(j, LanesOf[j][i])
      BY <1>1, <3>1 DEF DoneUpTo
    <3>3. results'[j][LanesOf[j][i]] = results[j][LanesOf[j][i]]
      BY <1>3, <2>1, <2>3 DEF TypeOK
    <3> QED
      BY <2>1, <3>2, <3>3, DoneStays
  <2> QED
    BY <2>2, <2>3
<1>7. CASE at = Len(LanesOf[j])
  <2>1. run'[j].pc = "finished"
    BY <1>1, <1>7 DEF EndLane, TypeOK, Away
  <2> QED
    BY <1>6, <1>7, <2>1 DEF Progress, Finished, Running
<1>8. CASE at # Len(LanesOf[j])
  <2>1. PICK next : next = LanesOf[j][at + 1]
    OBVIOUS
  <2>2. run'[j] = Begin(j, at + 1, resume)
    BY <1>1, <1>8 DEF EndLane, TypeOK
  <2>3. /\ run'[j].pc = StartOf(next) /\ run'[j].at = at + 1 /\ run'[j].put = 0
        /\ run'[j].last = FALSE /\ run'[j].resume = resume /\ run'[j].processed = resume[next]
    BY <2>1, <2>2 DEF Begin
  <2>4. next \in Lanes /\ Lane(j)' = next
    BY <1>2, <1>8, <2>1, <2>3 DEF Lane
  <2>5. \A l \in Lanes : Holds(j, l, resume[l])'
    BY <1>1, <1>2, <1>4
  <2>6. run'[j].pc \in {"page", "entry"} /\ run'[j].at - 1 = at
    BY <1>2, <2>3 DEF StartOf
  <2>7. DoneUpTo(j, run[j].at - 1)'
    BY <1>6, <2>6
  <2>8. Holds(j, Lane(j), run[j].processed)' /\ (\A l \in Lanes : Holds(j, l, run[j].resume[l]))'
    BY <2>3, <2>4, <2>5
  <2>9. PageOK(j)' /\ LastOK(j)'
    BY <2>3, <2>6, MigrateAssumption DEF PageOK, LastOK
  <2> QED
    BY <2>6, <2>7, <2>8, <2>9 DEF Progress, Finished
<1> QED
  BY <1>7, <1>8

(* What the invariant says of a call under way. *)
LEMMA OfACall ==
  ASSUME IInv, NEW j \in Jobs, run[j].pc \in Running
  PROVE  /\ run[j] \in Calls /\ Lane(j) \in Lanes /\ To[j] \in Destinations
         /\ \A l \in Lanes : Holds(j, l, run[j].resume[l])
         /\ Holds(j, Lane(j), run[j].processed)
         /\ run[j].at - 1 \in Nat /\ run[j].at - 1 =< Len(LanesOf[j])
         /\ DoneUpTo(j, run[j].at - 1)
         /\ PageOK(j) /\ LastOK(j) /\ Known(j)
         /\ known[j][Lane(j)] \in Nat /\ source[Lane(j)] \in Nat
<1>1. TypeOK /\ JobOK(j) /\ run[j] \in Calls /\ Lane(j) \in Lanes /\ To[j] \in Destinations
  BY LaneIsALane, MigrateAssumption DEF IInv, TypeOK
<1>2. run[j].at - 1 \in Nat /\ run[j].at - 1 =< Len(LanesOf[j])
  <2>1. run[j].at \in Nat \ {0}
    BY <1>1 DEF Calls
  <2>2. run[j].at =< Len(LanesOf[j])
    BY <1>1 DEF TypeOK
  <2> QED
    BY <2>1, <2>2, LanesAreThere
<1>3. known[j][Lane(j)] \in Nat /\ source[Lane(j)] \in Nat
  BY <1>1 DEF TypeOK
<1> QED
  BY <1>1, <1>2, <1>3 DEF JobOK, Progress

(* A step within a lane keeps what is said of the lanes and the resumption. *)
LEMMA WithinALane ==
  ASSUME IInv, TypeOK', Grown, NEW j \in Jobs, run[j].pc \in Running,
         UNCHANGED <<results, known>>,
         run'[j].at = run[j].at, run'[j].resume = run[j].resume, run'[j].pc \in Running,
         Holds(j, Lane(j), run[j].processed)', PageOK(j)', LastOK(j)'
  PROVE  Progress(j)' /\ Finished(j)'
<1>1. PICK at, resume : at = run[j].at - 1 /\ resume = run[j].resume
  OBVIOUS
<1>2. /\ resume \in [Lanes -> Nat] /\ (\A l \in Lanes : Holds(j, l, resume[l]))
      /\ at \in Nat /\ at =< Len(LanesOf[j]) /\ DoneUpTo(j, at)
  BY <1>1, OfACall DEF Calls
<1>3. \A l \in Lanes : Holds(j, l, resume[l])'
  BY <1>2, HoldsStays DEF IInv
<1>4. DoneUpTo(j, at)'
  BY <1>2, AllDoneStay DEF IInv
<1>5. /\ \A l \in Lanes : Holds(j, l, run[j].resume[l])'
      /\ DoneUpTo(j, run[j].at - 1)'
  BY <1>1, <1>3, <1>4
<1> QED
  BY <1>5 DEF Progress, Finished, Running

(* Steps that save no checkpoint. *)
LEMMA NothingSaved ==
  ASSUME IInv, TypeOK', Grown, NEW j \in Jobs, saved' = saved, known' = known
  PROVE  Known(j)' /\ Saved(j)'
<1>1. TypeOK /\ JobOK(j)
  BY DEF IInv
<1>2. Known(j)'
  BY <1>1, KnownStays DEF JobOK
<1>3. \A l \in Lanes : saved[j][l] \in Nat
  BY <1>1 DEF TypeOK
<1>4. Saved(j)'
  BY <1>1, <1>3, HoldsStays DEF JobOK, Saved
<1> QED
  BY <1>2, <1>4

--------------------
(* The job that acts. *)

LEMMA StartKeepsTheJob ==
  ASSUME IInv, TypeOK', NEW j \in Jobs, NEW k \in Jobs, NEW upgraded \in BOOLEAN,
         Start(j, k, upgraded)
  PROVE  Grown /\ JobOK(j)'
<1>1. TypeOK /\ JobOK(j) /\ JobOK(k) /\ saved[k] \in [Lanes -> Nat]
  BY DEF IInv, TypeOK
<1>2. Grown
  BY <1>1, UnchangedIsGrown DEF Start
<1>3. CASE Accepted(j, k, upgraded)
  <2>1. PICK resume : resume = saved[k]
    OBVIOUS
  <2>2. run'[j] = Begin(j, 1, resume) /\ known'[j] = source
    BY <1>1, <1>3, <2>1 DEF Start, TypeOK
  <2>3. To[j] = To[k] \/ resume = Nothing
    BY <1>3, <2>1, MigrateAssumption DEF Start, Accepted, CallersDuty, PlanMatches
  <2>4. resume \in [Lanes -> Nat] /\ \A l \in Lanes : Holds(k, l, resume[l])
    BY <1>1, <2>1 DEF JobOK, Saved
  <2>5. \A l \in Lanes : Holds(j, l, resume[l])
    BY <2>3, <2>4 DEF Holds, Nothing
  <2>6. \A l \in Lanes : Holds(j, l, resume[l])'
    BY <1>1, <1>2, <2>4, <2>5, HoldsStays
  <2>7. Known(j)'
    BY <1>1, <2>2, MigrateAssumption DEF Start, Known, TypeOK
  <2>8. Saved(j)'
    BY <1>1 DEF Start, JobOK, Saved, Holds
  <2>9. PICK first : first = LanesOf[j][1]
    OBVIOUS
  <2>10. /\ run'[j].pc = StartOf(first) /\ run'[j].at = 1 /\ run'[j].put = 0
         /\ run'[j].last = FALSE /\ run'[j].resume = resume /\ run'[j].processed = resume[first]
    BY <2>2, <2>9 DEF Begin
  <2>11. first \in Lanes /\ Lane(j)' = first
    BY <2>9, <2>10, LanesAreThere DEF Lane
  <2>12. run'[j].pc \in {"page", "entry"}
    BY <2>10 DEF StartOf
  <2>13. PageOK(j)' /\ LastOK(j)'
    BY <2>10, <2>12, MigrateAssumption DEF PageOK, LastOK
  <2>14. DoneUpTo(j, run[j].at - 1)'
    BY <2>10 DEF DoneUpTo
  <2>15. Holds(j, Lane(j), run[j].processed)' /\ (\A l \in Lanes : Holds(j, l, run[j].resume[l]))'
    BY <2>6, <2>10, <2>11
  <2> QED
    BY <1>2, <2>7, <2>8, <2>12, <2>13, <2>14, <2>15 DEF JobOK, Progress, Finished
<1>4. CASE ~Accepted(j, k, upgraded)
  <2>1. run'[j].pc = "refused" /\ saved' = saved /\ known' = known
    BY <1>1, <1>4 DEF Start, TypeOK, Away
  <2> QED
    BY <1>2, <2>1, NothingSaved DEF JobOK, Progress, Finished, Running
<1> QED
  BY <1>3, <1>4

LEMMA PageKeepsTheJob ==
  ASSUME IInv, TypeOK', NEW j \in Jobs, Page(j)
  PROVE  Grown /\ JobOK(j)'
<1>1. TypeOK /\ Grown /\ run[j].pc = "page" /\ run[j].pc \in Running
  BY UnchangedIsGrown DEF IInv, Page, Running
<1>2. Known(j)' /\ Saved(j)'
  BY <1>1, NothingSaved DEF Page
<1>3. CASE Found(j) = 0
  <2>1. known[j][Lane(j)] =< run[j].processed
    <3>1. run[j].processed \in Nat /\ known[j][Lane(j)] =< source[Lane(j)]
      BY <1>1, OfACall DEF Known, Calls
    <3>2. known[j][Lane(j)] \in Nat /\ source[Lane(j)] \in Nat
      BY <1>1, OfACall
    <3>3. source[Lane(j)] =< run[j].processed + 0
      BY <1>1, <1>3, FoundWithinABatch, MigrateAssumption
    <3> QED
      BY <3>1, <3>2, <3>3
  <2> QED
    BY <1>1, <1>2, <1>3, <2>1, OfACall, EndLaneKeepsProgress DEF Page, JobOK
<1>4. CASE Found(j) # 0
  <2>1. PICK found, lane, processed :
          found = Found(j) /\ lane = Lane(j) /\ processed = run[j].processed
    OBVIOUS
  <2>2. run[j] \in Calls /\ run[j].put = 0 /\ run[j].last = FALSE /\ processed \in Nat
    BY <1>1, <2>1, OfACall DEF LastOK, Calls
  <2>3. /\ run'[j].pc = "put" /\ run'[j].page = found /\ run'[j].put = 0 /\ run'[j].last = FALSE
        /\ run'[j].at = run[j].at /\ run'[j].resume = run[j].resume /\ run'[j].processed = processed
    BY <1>1, <1>4, <2>1, <2>2 DEF Page, TypeOK, Calls
  <2>4. Lane(j)' = lane /\ lane \in Lanes
    BY <1>1, <2>1, <2>3, OfACall DEF Lane
  <2>5. found \in 1..BatchSize /\ (found = BatchSize \/ known[j][lane] =< processed + found)
    <3>1. known[j][lane] \in Nat /\ source[lane] \in Nat /\ known[j][lane] =< source[lane]
      BY <1>1, <2>1, OfACall DEF Known
    <3>2. found \in 0..BatchSize /\ (found = BatchSize \/ source[lane] =< processed + found)
      BY <1>1, <2>1, FoundWithinABatch
    <3> QED
      BY <1>4, <2>1, <2>2, <3>1, <3>2, MigrateAssumption
  <2>6. PageOK(j)'
    BY <2>3, <2>4, <2>5 DEF PageOK, Page
  <2>7. LastOK(j)'
    BY <2>3 DEF LastOK
  <2>8. Holds(j, Lane(j), run[j].processed)'
    <3>1. Holds(j, lane, processed)
      BY <1>1, <2>1, OfACall
    <3> QED
      BY <1>1, <2>2, <2>3, <2>4, <3>1, HoldsStays
  <2>9. run'[j].pc \in Running /\ UNCHANGED <<results, known>>
    BY <1>4, <2>3 DEF Running, Page
  <2> QED
    BY <1>1, <1>2, <2>3, <2>6, <2>7, <2>8, <2>9, WithinALane DEF JobOK
<1> QED
  BY <1>3, <1>4

LEMMA PutKeepsTheJob ==
  ASSUME IInv, TypeOK', NEW j \in Jobs, Put(j)
  PROVE  Grown /\ JobOK(j)'
<1>1. TypeOK /\ run[j].pc = "put" /\ run[j].pc \in Running
  BY DEF IInv, Put, Running
<1>2. PICK lane, processed, put, page :
        /\ lane = Lane(j) /\ processed = run[j].processed
        /\ put = run[j].put /\ page = run[j].page
  OBVIOUS
<1>3. /\ run[j] \in Calls /\ processed \in Nat /\ put \in Nat /\ page \in 0..BatchSize
      /\ run[j].last = FALSE /\ lane \in Lanes /\ known[j][lane] \in Nat
  BY <1>1, <1>2, OfACall DEF LastOK, Calls
<1>4. /\ put < page /\ (\A n \in 1..put : processed + n \in copied[To[j]][lane])
      /\ page = BatchSize \/ known[j][lane] =< processed + page
  BY <1>1, <1>2, OfACall DEF PageOK
<1>5. Grown /\ processed + put + 1 \in copied'[To[j]][lane]
  BY <1>1, <1>2, <1>3, WriteGrows DEF Put
<1>6. Known(j)' /\ Saved(j)'
  BY <1>5, NothingSaved DEF Put
<1>7. Holds(j, lane, processed)'
  BY <1>1, <1>2, <1>3, <1>5, OfACall, HoldsStays
<1>8. \A n \in 1..(put + 1) : processed + n \in copied'[To[j]][lane]
  <2> SUFFICES ASSUME NEW n \in 1..(put + 1) PROVE processed + n \in copied'[To[j]][lane]
    OBVIOUS
  <2>1. CASE n = put + 1
    BY <1>3, <1>5, <2>1
  <2>2. CASE n # put + 1
    <3>1. n \in 1..put
      BY <1>3, <2>2
    <3>2. processed + n \in copied[To[j]][lane] /\ To[j] \in Destinations
      BY <1>4, <3>1, MigrateAssumption
    <3> QED
      BY <1>3, <1>5, <3>2 DEF Grown
  <2> QED
    BY <2>1, <2>2
<1>9. run'[j].at = run[j].at /\ run'[j].resume = run[j].resume
  BY <1>1 DEF Put, TypeOK, Calls
<1>10. Lane(j)' = lane
  BY <1>2, <1>9 DEF Lane
<1>11. CASE put + 1 < page
  <2>1. /\ run'[j].pc = "put" /\ run'[j].page = page /\ run'[j].put = put + 1
        /\ run'[j].processed = processed /\ run'[j].last = FALSE
    BY <1>1, <1>2, <1>3, <1>11 DEF Put, TypeOK, Calls
  <2>2. PageOK(j)'
    BY <1>4, <1>8, <1>10, <1>11, <2>1 DEF PageOK, Put
  <2>3. LastOK(j)'
    BY <2>1 DEF LastOK
  <2>4. Holds(j, Lane(j), run[j].processed)' /\ run'[j].pc \in Running
    BY <1>7, <1>10, <2>1 DEF Running
  <2> QED
    BY <1>1, <1>5, <1>6, <1>9, <2>2, <2>3, <2>4, WithinALane DEF Put, JobOK
<1>12. CASE ~(put + 1 < page)
  <2>1. /\ run'[j].pc = "checkpoint" /\ run'[j].processed = processed + page
        /\ run'[j].last = (page < BatchSize)
    BY <1>1, <1>2, <1>3, <1>12 DEF Put, TypeOK, Calls, IsLast
  <2>2. PageOK(j)'
    BY <2>1 DEF PageOK
  <2>3. LastOK(j)'
    <3>1. known' = known
      BY DEF Put
    <3>2. page < BatchSize => known[j][lane] =< processed + page
      BY <1>3, <1>4, MigrateAssumption
    <3>3. run'[j].last => known'[j][lane] =< run'[j].processed
      BY <2>1, <3>1, <3>2
    <3> QED
      BY <1>10, <2>1, <3>3 DEF LastOK
  <2>4. Holds(j, lane, processed + page)'
    <3> SUFFICES ASSUME NEW n \in 1..(processed + page) PROVE n \in copied'[To[j]][lane]
      BY DEF Holds
    <3>1. CASE n =< processed
      BY <1>3, <1>7, <3>1 DEF Holds
    <3>2. CASE n > processed
      <4>1. n - processed \in 1..(put + 1) /\ processed + (n - processed) = n
        BY <1>3, <1>12, <3>2
      <4> QED
        BY <1>8, <4>1
    <3> QED
      BY <1>3, <3>1, <3>2
  <2>5. Holds(j, Lane(j), run[j].processed)' /\ run'[j].pc \in Running
    BY <1>10, <2>1, <2>4 DEF Running
  <2> QED
    BY <1>1, <1>5, <1>6, <1>9, <2>2, <2>3, <2>5, WithinALane DEF Put, JobOK
<1> QED
  BY <1>11, <1>12

LEMMA EntryKeepsTheJob ==
  ASSUME IInv, TypeOK', NEW j \in Jobs, Entry(j)
  PROVE  Grown /\ JobOK(j)'
<1>1. TypeOK /\ run[j].pc = "entry" /\ run[j].pc \in Running
  BY DEF IInv, Entry, Running
<1>2. PICK lane, processed, put : lane = Lane(j) /\ processed = run[j].processed /\ put = run[j].put
  OBVIOUS
<1>3. /\ run[j] \in Calls /\ processed \in Nat /\ put \in Nat /\ put < BatchSize
      /\ run[j].last = FALSE /\ lane \in Lanes
  BY <1>1, <1>2, OfACall DEF LastOK, Calls
<1>4. Grown /\ processed + 1 \in copied'[To[j]][lane]
  BY <1>1, <1>2, <1>3, WriteGrows DEF Entry
<1>5. Known(j)' /\ Saved(j)'
  BY <1>4, NothingSaved DEF Entry
<1>6. Holds(j, lane, processed)'
  BY <1>1, <1>2, <1>3, <1>4, OfACall, HoldsStays
<1>7. /\ run'[j].at = run[j].at /\ run'[j].resume = run[j].resume /\ run'[j].last = FALSE
      /\ run'[j].processed = processed + 1 /\ run'[j].put = put + 1
      /\ run'[j].pc = IF put + 1 = BatchSize THEN "checkpoint" ELSE "entry"
  BY <1>1, <1>2, <1>3 DEF Entry, TypeOK, Calls
<1>8. Lane(j)' = lane
  BY <1>2, <1>7 DEF Lane
<1>9. Holds(j, lane, processed + 1)'
  BY <1>3, <1>4, <1>6 DEF Holds
<1>10. Holds(j, Lane(j), run[j].processed)' /\ run'[j].pc \in Running
  BY <1>7, <1>8, <1>9 DEF Running
<1>11. PageOK(j)' /\ LastOK(j)'
  BY <1>3, <1>7, MigrateAssumption DEF PageOK, LastOK
<1> QED
  BY <1>1, <1>4, <1>5, <1>7, <1>10, <1>11, WithinALane DEF Entry, JobOK

LEMMA ExhaustedKeepsTheJob ==
  ASSUME IInv, TypeOK', NEW j \in Jobs, Exhausted(j)
  PROVE  Grown /\ JobOK(j)'
<1>1. TypeOK /\ Grown /\ run[j].pc = "entry" /\ run[j].pc \in Running
  BY UnchangedIsGrown DEF IInv, Exhausted, Running
<1>2. PICK lane, processed : lane = Lane(j) /\ processed = run[j].processed
  OBVIOUS
<1>3. /\ run[j] \in Calls /\ processed \in Nat /\ lane \in Lanes
      /\ Holds(j, lane, processed) /\ known[j][lane] =< processed
  <2>1. run[j] \in Calls /\ lane \in Lanes /\ Holds(j, lane, processed) /\ known[j][lane] =< source[lane]
    BY <1>1, <1>2, OfACall DEF Known
  <2>2. known[j][lane] \in Nat /\ source[lane] \in Nat /\ source[lane] =< processed
    BY <1>1, <1>2, OfACall DEF Exhausted
  <2>3. processed \in Nat
    BY <1>2, <2>1 DEF Calls
  <2> QED
    BY <2>1, <2>2, <2>3
<1>4. Known(j)' /\ Saved(j)'
  BY <1>1, NothingSaved DEF Exhausted
<1>5. CASE run[j].put > 0
  <2>1. /\ run'[j].at = run[j].at /\ run'[j].resume = run[j].resume /\ run'[j].last = TRUE
        /\ run'[j].processed = processed /\ run'[j].pc = "checkpoint"
    BY <1>1, <1>2, <1>3, <1>5 DEF Exhausted, TypeOK, Calls
  <2>2. Lane(j)' = lane
    BY <1>2, <2>1 DEF Lane
  <2>3. Holds(j, lane, processed)'
    BY <1>1, <1>3, HoldsStays
  <2>4. PageOK(j)' /\ LastOK(j)'
    BY <1>3, <2>1, <2>2 DEF PageOK, LastOK, Exhausted
  <2>5. Holds(j, Lane(j), run[j].processed)' /\ run'[j].pc \in Running
    BY <2>1, <2>2, <2>3 DEF Running
  <2> QED
    BY <1>1, <1>4, <1>5, <2>1, <2>4, <2>5, WithinALane DEF Exhausted, JobOK
<1>6. CASE ~(run[j].put > 0)
  BY <1>1, <1>2, <1>3, <1>4, <1>6, OfACall, EndLaneKeepsProgress DEF Exhausted, JobOK
<1> QED
  BY <1>5, <1>6

LEMMA CheckpointKeepsTheJob ==
  ASSUME IInv, TypeOK', NEW j \in Jobs, Checkpoint(j)
  PROVE  Grown /\ JobOK(j)'
<1>1. TypeOK /\ JobOK(j) /\ Grown /\ run[j].pc = "checkpoint" /\ run[j].pc \in Running
  BY UnchangedIsGrown DEF IInv, Checkpoint, Running
<1>2. PICK lane, processed : lane = Lane(j) /\ processed = run[j].processed
  OBVIOUS
<1>3. run[j] \in Calls /\ processed \in Nat /\ lane \in Lanes /\ Holds(j, lane, processed)
  BY <1>1, <1>2, OfACall DEF Calls
<1>4. Known(j)'
  BY <1>1, KnownStays DEF Checkpoint, JobOK
<1>5. Holds(j, lane, processed)'
  BY <1>1, <1>3, HoldsStays
<1>6. Saved(j)'
  <2> SUFFICES ASSUME NEW l \in Lanes PROVE Holds(j, l, saved[j][l])'
    BY DEF Saved
  <2>1. CASE l = lane
    <3>1. saved'[j][l] = processed
      BY <1>1, <1>2, <1>3, <2>1 DEF Checkpoint, TypeOK
    <3> QED
      BY <1>5, <2>1, <3>1
  <2>2. CASE l # lane
    <3>1. saved'[j][l] = saved[j][l] /\ saved[j][l] \in Nat
      BY <1>1, <1>2, <1>3, <2>2 DEF Checkpoint, TypeOK
    <3>2. PICK n \in Nat : n = saved[j][l]
      BY <3>1
    <3>3. Holds(j, l, n)
      BY <1>1, <3>2 DEF JobOK, Saved
    <3> QED
      BY <1>1, <3>1, <3>2, <3>3, HoldsStays
  <2> QED
    BY <2>1, <2>2
<1>7. CASE run[j].last
  <2>1. known[j][Lane(j)] =< run[j].processed
    BY <1>1, <1>7, OfACall DEF LastOK
  <2> QED
    BY <1>1, <1>4, <1>6, <1>7, <2>1, OfACall, EndLaneKeepsProgress DEF Checkpoint, JobOK
<1>8. CASE ~run[j].last
  <2>1. /\ run'[j].at = run[j].at /\ run'[j].resume = run[j].resume /\ run'[j].last = FALSE
        /\ run'[j].processed = processed /\ run'[j].put = 0 /\ run'[j].pc = StartOf(lane)
    BY <1>1, <1>2, <1>3, <1>8 DEF Checkpoint, TypeOK, Calls, CountedAnew
  <2>2. Lane(j)' = lane /\ run'[j].pc \in {"page", "entry"}
    BY <1>2, <2>1 DEF Lane, StartOf
  <2>3. PageOK(j)' /\ LastOK(j)'
    BY <2>1, <2>2, MigrateAssumption DEF PageOK, LastOK
  <2>4. Holds(j, Lane(j), run[j].processed)' /\ run'[j].pc \in Running
    BY <1>5, <2>1, <2>2 DEF Running
  <2> QED
    BY <1>1, <1>4, <1>6, <1>8, <2>1, <2>3, <2>4, WithinALane DEF Checkpoint, JobOK
<1> QED
  BY <1>7, <1>8

LEMMA StopKeepsTheJob ==
  ASSUME IInv, TypeOK', NEW j \in Jobs, Stop(j)
  PROVE  Grown /\ JobOK(j)'
<1>1. TypeOK /\ Grown
  BY UnchangedIsGrown DEF IInv, Stop
<1>2. run'[j].pc = "stopped"
  BY <1>1 DEF Stop, TypeOK, Away
<1> QED
  BY <1>1, <1>2, NothingSaved DEF Stop, JobOK, Progress, Finished, Running

--------------------
LEMMA NextKeepsIInv ==
  ASSUME IInv, [Next]_vars
  PROVE  IInv'
<1>1. TypeOK /\ TypeOK'
  BY NextTypes DEF IInv
<1>2. ASSUME NEW j \in Jobs, NEW k \in Jobs, NEW upgraded \in BOOLEAN, Start(j, k, upgraded),
             NEW i \in Jobs
      PROVE  JobOK(i)'
  <2>1. Grown /\ JobOK(j)'
    BY <1>1, <1>2, StartKeepsTheJob
  <2>2. i # j => /\ run'[i] = run[i] /\ saved'[i] = saved[i]
                 /\ results'[i] = results[i] /\ known'[i] = known[i]
    BY <1>1, <1>2 DEF Start, TypeOK
  <2> QED
    BY <1>1, <2>1, <2>2, OthersKeepAJob
<1>3. ASSUME NEW j \in Jobs, Step(j) \/ Stop(j), NEW i \in Jobs
      PROVE  JobOK(i)'
  <2>1. Grown /\ JobOK(j)'
    BY <1>1, <1>3, PageKeepsTheJob, PutKeepsTheJob, EntryKeepsTheJob, ExhaustedKeepsTheJob,
       CheckpointKeepsTheJob, StopKeepsTheJob DEF Step
  <2>2. i # j => /\ run'[i] = run[i] /\ saved'[i] = saved[i]
                 /\ results'[i] = results[i] /\ known'[i] = known[i]
    BY <1>1, <1>3 DEF Step, Page, Put, Entry, Exhausted, Checkpoint, Stop, EndLane, TypeOK
  <2> QED
    BY <1>1, <2>1, <2>2, OthersKeepAJob
<1>4. ASSUME NEW l \in Lanes, Grow(l), NEW i \in Jobs
      PROVE  JobOK(i)'
  <2>1. Grown
    <3>1. \A k \in Lanes : source[k] \in Nat
      BY <1>1, MigrateAssumption DEF TypeOK
    <3>2. \A k \in Lanes : source'[k] = IF k = l THEN source[k] + 1 ELSE source[k]
      BY <1>1, <1>4 DEF Grow, TypeOK
    <3>3. copied' = copied
      BY <1>4 DEF Grow
    <3> QED
      BY <3>1, <3>2, <3>3 DEF Grown
  <2> QED
    BY <1>1, <1>4, <2>1, OthersKeepAJob DEF Grow
<1>5. ASSUME UNCHANGED vars, NEW i \in Jobs
      PROVE  JobOK(i)'
  BY <1>1, <1>5, UnchangedIsGrown, OthersKeepAJob DEF vars
<1> QED
  BY <1>1, <1>2, <1>3, <1>4, <1>5 DEF Next, AllFinished, IInv

(* IInv holds in every state. *)
THEOREM MigrateInvariant == Spec => []IInv
BY InitIInv, NextKeepsIInv, PTL DEF Spec

(* The state of a migration keeps its types: a call is never at a lane or
   within a page that is not there (copyCollectionPrepared, copyManifest,
   migrateStore). *)
THEOREM MigrateTypes == Spec => []TypeOK
<1>1. IInv => TypeOK
  BY DEF IInv
<1> QED
  BY <1>1, MigrateInvariant, PTL

(* What a saved checkpoint counts is at the destination of its job,
   whichever checkpoints the job was resumed from (normalizeResume,
   planMatches, the order of writes and checkpoints). *)
THEOREM CheckpointsAreSound == Spec => []CheckpointsAreCopied
<1>1. IInv => CheckpointsAreCopied
  BY DEF IInv, JobOK, Saved, CheckpointsAreCopied
<1> QED
  BY <1>1, MigrateInvariant, PTL

(* A call that returns has copied every entry that was there when it was
   made, in every lane (the last page, the end of the manifest). *)
THEOREM FinishedMigrationsAreComplete == Spec => []FinishedIsComplete
<1>1. IInv => FinishedIsComplete
  BY DEF IInv, JobOK, Finished, DoneUpTo, LaneDone, FinishedIsComplete
<1> QED
  BY <1>1, MigrateInvariant, PTL

--------------------
(* Logs *)

(* What the theorems ask of the constants. *)
LogsWellFormed ==
  /\ {"d", "sent"} \subseteq Names
  /\ Missing \notin Units /\ Missing \notin [Names -> Nat]
  /\ Missing \notin SUBSET [stream : Names, sequence : Nat, by : Units, of : Nat]
  /\ MaxCalls \in Nat
  /\ \A s \in Setups : DOMAIN s.units \subseteq Units

--------------------
(* Sets of rows *)

LEMMA LastIs ==
  ASSUME NEW S, NEW s, NEW n \in Nat, Log!Positions(S, s) = 1 .. n
  PROVE  Log!Last(S, s) = n
<1>1. CASE n = 0
  BY <1>1 DEF Log!Last
<1>2. CASE n # 0
  <2>1. n \in Log!Positions(S, s) /\ \A m \in Log!Positions(S, s) : m <= n
    BY <1>2
  <2>2. \A k \in Log!Positions(S, s) : (\A m \in Log!Positions(S, s) : m <= k) => k = n
    BY <2>1
  <2> QED BY <2>1, <2>2 DEF Log!Last
<1> QED BY <1>1, <1>2

LEMMA CountIsLast ==
  ASSUME NEW S, NEW s \in Names, Log!Full(S)
  PROVE  Log!Cardinality(Log!Positions(S, s)) = Log!Last(S, s)
<1>1. Log!Last(S, s) \in Nat /\ Log!Positions(S, s) = 1 .. Log!Last(S, s)
  BY DEF Log!Full
<1>2. Cardinality(1 .. Log!Last(S, s)) = Log!Last(S, s)
  BY <1>1, FS_Interval
<1>3. Log!Cardinality(1 .. Log!Last(S, s)) = Cardinality(1 .. Log!Last(S, s))
  BY DEF Log!Cardinality, Cardinality
<1> QED BY <1>1, <1>2, <1>3

(* The next sequence is the one after the last, in memory and in SQLite. *)
LEMMA NextIs ==
  ASSUME NEW S, NEW s \in Names, Log!Full(S)
  PROVE  Log!NextSequence(S, s) = Log!Last(S, s) + 1
BY CountIsLast DEF Log!NextSequence

LEMMA IntervalGrows == \A n \in Nat : (1 .. n) \cup {n + 1} = 1 .. (n + 1)
OBVIOUS

LEMMA IntervalCut == \A n \in Nat : \A m \in Nat : m <= n => {k \in 1 .. n : k <= m} = 1 .. m
OBVIOUS

(* A row with the next sequence of its stream leaves no gap, and changes
   the last sequence of no other stream. *)
LEMMA AddFull ==
  ASSUME NEW S, NEW row, row.stream \in Names, Log!Full(S), row.sequence = Log!Last(S, row.stream) + 1
  PROVE  /\ Log!Full(S \cup {row})
         /\ \A s \in Names : Log!Last(S \cup {row}, s) = IF s = row.stream THEN Log!Last(S, s) + 1 ELSE Log!Last(S, s)
<1> DEFINE T == S \cup {row}
           L(s) == IF s = row.stream THEN Log!Last(S, s) + 1 ELSE Log!Last(S, s)
<1>1. ASSUME NEW s \in Names
      PROVE  L(s) \in Nat /\ Log!Positions(T, s) = 1 .. L(s)
  <2>1. Log!Last(S, s) \in Nat /\ Log!Positions(S, s) = 1 .. Log!Last(S, s)
    BY DEF Log!Full
  <2>2. CASE s = row.stream
    <3>1. Log!Positions(T, s) = Log!Positions(S, s) \cup {row.sequence}
      BY <2>2 DEF Log!Positions
    <3>2. row.sequence = Log!Last(S, s) + 1 /\ L(s) = Log!Last(S, s) + 1
      BY <2>2
    <3> HIDE DEF T, L
    <3> QED BY <2>1, <3>1, <3>2, IntervalGrows
  <2>3. CASE s # row.stream
    <3>1. Log!Positions(T, s) = Log!Positions(S, s)
      BY <2>3 DEF Log!Positions
    <3> QED BY <2>1, <2>3, <3>1
  <2> QED BY <2>2, <2>3
<1>2. ASSUME NEW s \in Names PROVE Log!Last(T, s) = L(s)
  <2> HIDE DEF T, L
  <2> QED BY <1>1, LastIs
<1>3. ASSUME NEW s \in Names, NEW r \in T, NEW q \in T, r.stream = s, q.stream = s, r.sequence = q.sequence
      PROVE  r = q
  <2>0. Log!Last(S, row.stream) \in Nat /\ Log!Positions(S, row.stream) = 1 .. Log!Last(S, row.stream)
    BY DEF Log!Full
  <2>1. \A x \in S : x.stream = row.stream => x.sequence # row.sequence
    <3> SUFFICES ASSUME NEW x \in S, x.stream = row.stream, x.sequence = row.sequence PROVE FALSE
      OBVIOUS
    <3>1. x.sequence \in Log!Positions(S, row.stream)
      BY DEF Log!Positions
    <3> QED BY <2>0, <3>1
  <2> QED BY <1>3, <2>1 DEF Log!Full
<1> QED BY <1>1, <1>2, <1>3 DEF Log!Full

(* Cutting each stream at a length it has reached leaves no gap. *)
LEMMA CutFull ==
  ASSUME NEW S, NEW mark \in [Names -> Nat], Log!Full(S),
         \A s \in Names : mark[s] <= Log!Last(S, s)
  PROVE  Log!Full({r \in S : r.sequence <= mark[r.stream]})
<1> DEFINE T == {r \in S : r.sequence <= mark[r.stream]}
<1>1. ASSUME NEW s \in Names PROVE Log!Positions(T, s) = 1 .. mark[s]
  <2>1. Log!Last(S, s) \in Nat /\ Log!Positions(S, s) = 1 .. Log!Last(S, s) /\ mark[s] <= Log!Last(S, s) /\ mark[s] \in Nat
    BY DEF Log!Full
  <2>2. Log!Positions(T, s) = {n \in Log!Positions(S, s) : n <= mark[s]}
    BY DEF Log!Positions
  <2> QED BY <2>1, <2>2, IntervalCut
<1>2. ASSUME NEW s \in Names PROVE Log!Last(T, s) = mark[s]
  <2>1. mark[s] \in Nat
    OBVIOUS
  <2> HIDE DEF T
  <2> QED BY <1>1, <2>1, LastIs
<1> QED BY <1>1, <1>2 DEF Log!Full

--------------------
(* The inductive invariant. A unit's part names only its own record, so
   that a step of another leaves it alone. *)

RowsOf(s) == [stream : Names, sequence : Nat, by : DOMAIN s.units, of : Nat]

Records(s) ==
  [pc : Log!Pcs, then : Log!Pcs, view : {Missing} \cup SUBSET RowsOf(s),
   save : {Missing} \cup (IF s.memory THEN [Names -> Nat] ELSE SUBSET RowsOf(s)),
   told : SUBSET RowsOf(s), batch : SUBSET RowsOf(s), made : Nat, seen : SUBSET RowsOf(s)]

(* What a mailer sent is the deliveries in order: its nth notes the nth. *)
InOrder(S) == \A r \in S : r.stream = "sent" => r.of = r.sequence

Good(s, S) == S \subseteq RowsOf(s) /\ Log!Full(S) /\ InOrder(S)

Back(s, S, mark) == IF s.memory THEN {r \in S : r.sequence <= mark[r.stream]} ELSE mark

IsOpen(w) == w.pc = "open" \/ (w.pc = "blocked" /\ w.then = "open")

(* A savepoint is of the view's past. *)
Kept(s, w) ==
  IF s.memory THEN w.save \in [Names -> Nat] /\ \A t \in Names : w.save[t] <= Log!Last(w.view, t)
  ELSE Good(s, w.save)

Bodies == {"transaction", "deferred", "immediate"}

(* What holds of one unit, whatever the others do. A batch is what the
   view has still to send. *)
Sound(s, u, w) ==
  /\ w \in Records(s)
  /\ w.pc = "open" \/ w.then = "open" => s.units[u].kind \in Bodies
  /\ w.view # Missing => Good(s, w.view)
  /\ w.save # Missing => \/ w.pc = "died"
                         \/ IsOpen(w) /\ w.view # Missing /\ ~ s.units[u].mails /\ Kept(s, w)
  /\ w.batch # {} => /\ s.units[u].kind \in Bodies /\ s.units[u].mails
                     /\ \/ w.pc \in {"done", "ended", "died"}
                        \/ IsOpen(w) /\ w.view # Missing /\ w.batch = Log!Unsent(w.view)

(* Before a transaction writes, rolling back its savepoint changes nothing. *)
Fresh(s, w) == w.save # Missing /\ w.view # Missing => Back(s, w.view, w.save) = w.view

(* The holder of the lock sees what is committed, also once it rolled back
   its savepoint. *)
SeesAll(s, S, w) ==
  /\ w.pc = "open" /\ w.view # Missing /\ S \subseteq w.view
  /\ w.save # Missing => S \subseteq Back(s, w.view, w.save)

LogsIInv ==
  /\ setup \in Setups /\ unit = [u \in Units |-> unit[u]]
  /\ Good(setup, rows)
  /\ \A u \in Units : Sound(setup, u, unit[u]) /\ (writer # u => Fresh(setup, unit[u]))
  /\ writer # Missing => writer \in Log!Asked /\ SeesAll(setup, rows, unit[writer])

LEMMA EmptyIsGood == ASSUME NEW s PROVE Good(s, {})
<1>1. ASSUME NEW t \in Names PROVE Log!Positions({}, t) = 1 .. 0
  BY DEF Log!Positions
<1>2. ASSUME NEW t \in Names PROVE Log!Last({}, t) = 0
  BY <1>1, LastIs
<1> QED BY <1>1, <1>2 DEF Good, Log!Full, InOrder

LEMMA InitLogs == LogsWellFormed /\ Log!Init => LogsIInv
<1> SUFFICES ASSUME LogsWellFormed, Log!Init PROVE LogsIInv
  OBVIOUS
<1>1. Log!New \in Records(setup)
  BY DEF Log!New, Records, Log!Pcs
<1>2. \A u \in Units : Sound(setup, u, Log!New) /\ Fresh(setup, Log!New)
  BY <1>1 DEF Log!New, Sound, Fresh
<1> QED BY <1>2, EmptyIsGood DEF Log!Init, LogsIInv

(* A step of one unit: its new record is sound, the rows are, and the lock
   is kept, released or taken by that unit. *)
LEMMA Changed ==
  ASSUME LogsWellFormed, LogsIInv, setup' = setup, NEW u \in Log!Asked, NEW w,
         unit' = [unit EXCEPT ![u] = w], Sound(setup, u, w), Good(setup, rows'),
         writer' # u => Fresh(setup, w),
         \/ rows' = rows /\ writer' = writer /\ (writer = u => SeesAll(setup, rows, w))
         \/ writer \in {u, Missing} /\ writer' = Missing
         \/ writer \in {u, Missing} /\ writer' = u /\ SeesAll(setup, rows', w)
  PROVE  LogsIInv'
<1>1. u \in Units /\ Missing \notin Units
  BY DEF LogsIInv, LogsWellFormed, Log!Asked
<1>2. /\ unit' = [v \in Units |-> unit'[v]]
      /\ unit'[u] = w /\ \A v \in Units \ {u} : unit'[v] = unit[v]
  BY <1>1 DEF LogsIInv
<1>3. \A v \in Units : Sound(setup, v, unit'[v])
  BY <1>2 DEF LogsIInv
<1>4. \A v \in Units : writer' # v => Fresh(setup, unit'[v])
  BY <1>1, <1>2 DEF LogsIInv
<1>5. writer' # Missing => writer' \in Log!Asked /\ SeesAll(setup, rows', unit'[writer'])
  <2> SUFFICES ASSUME writer' # Missing PROVE writer' \in Log!Asked /\ SeesAll(setup, rows', unit'[writer'])
    OBVIOUS
  <2>1. CASE writer' = u
    BY <2>1, <1>1, <1>2
  <2>2. CASE writer' # u
    <3>1. rows' = rows /\ writer' = writer
      BY <2>2
    <3>2. writer \in Units
      BY <3>1 DEF LogsIInv, LogsWellFormed, Log!Asked
    <3> QED BY <2>2, <3>1, <3>2, <1>2 DEF LogsIInv
  <2> QED BY <2>1, <2>2
<1> QED BY <1>2, <1>3, <1>4, <1>5 DEF LogsIInv, Log!Asked

--------------------
(* One action at a time *)

LEMMA UnitIs ==
  ASSUME LogsWellFormed, LogsIInv, NEW u \in Log!Asked
  PROVE  /\ u \in Units /\ u # Missing
         /\ unit[u] \in Records(setup) /\ Sound(setup, u, unit[u])
         /\ writer # u => Fresh(setup, unit[u])
         /\ writer = u => SeesAll(setup, rows, unit[u])
BY DEF LogsIInv, LogsWellFormed, Log!Asked, Sound

(* A unit that is in no transaction keeps nothing of one. *)
LEMMA Resting ==
  ASSUME LogsWellFormed, LogsIInv, NEW u \in Log!Asked, unit[u].pc \in {"idle", "queued", "owning", "done"}
  PROVE  /\ unit[u].save = Missing /\ writer # u
         /\ unit[u].pc # "done" => unit[u].batch = {}
BY UnitIs DEF Sound, IsOpen, SeesAll

LEMMA GoesQuietly ==
  ASSUME LogsWellFormed, LogsIInv, setup' = setup, NEW u \in Log!Asked, NEW pc \in Log!Pcs \ {"open"},
         unit[u].pc \in {"idle", "queued", "owning", "done"},
         pc \notin {"done", "ended", "died"} => unit[u].batch = {},
         Log!Go(u, pc), rows' = rows, writer' = writer
  PROVE  LogsIInv'
<1> DEFINE w == [unit[u] EXCEPT !.pc = pc]
<1>1. unit[u] \in Records(setup) /\ unit[u].save = Missing /\ writer # u
  BY UnitIs, Resting
<1>2. Sound(setup, u, w) /\ Fresh(setup, w)
  BY <1>1, UnitIs DEF Sound, Records, Fresh
<1>3. unit' = [unit EXCEPT ![u] = w] /\ Good(setup, rows')
  BY DEF Log!Go, Log!Set, LogsIInv
<1> HIDE DEF w
<1> QED BY <1>1, <1>2, <1>3, Changed

LEMMA Fails ==
  ASSUME LogsWellFormed, LogsIInv, setup' = setup, NEW u \in Log!Asked, Log!Fail(u), rows' = rows,
         (writer' = writer /\ writer # u) \/ (writer \in {u, Missing} /\ writer' = Missing)
  PROVE  LogsIInv'
<1> DEFINE w == [unit[u] EXCEPT !.pc = Log!Finished(u), !.view = Missing, !.save = Missing, !.told = {}]
<1>1. unit[u] \in Records(setup) /\ Log!Finished(u) \in {"ended", "done"}
  BY UnitIs DEF Log!Finished
<1>2. Sound(setup, u, w) /\ Fresh(setup, w)
  BY <1>1, UnitIs DEF Sound, Records, Fresh, Log!Pcs
<1>3. unit' = [unit EXCEPT ![u] = w] /\ Good(setup, rows')
  BY DEF Log!Fail, Log!Set, LogsIInv
<1> HIDE DEF w
<1> QED BY <1>2, <1>3, Changed

LEMMA Blocks ==
  ASSUME LogsWellFormed, LogsIInv, setup' = setup, NEW u \in Log!Asked, Log!Block(u), rows' = rows, writer' = writer,
         writer # u, unit[u].pc \in {"idle", "owning", "open"}
  PROVE  LogsIInv'
<1> DEFINE w == [unit[u] EXCEPT !.pc = "blocked", !.then = unit[u].pc]
<1>1. unit[u] \in Records(setup)
  BY UnitIs
<1>2. Sound(setup, u, w)
  BY <1>1, UnitIs DEF Sound, Records, Kept, IsOpen, Log!Pcs
<1>3. Fresh(setup, w)
  BY <1>1, UnitIs DEF Records, Fresh
<1>4. unit' = [unit EXCEPT ![u] = w] /\ Good(setup, rows')
  BY DEF Log!Block, Log!Set, LogsIInv
<1> HIDE DEF w
<1> QED BY <1>2, <1>3, <1>4, Changed

(* A row goes on where its stream ended, and changes no other stream. *)
Continues(S, s, row) ==
  /\ row \in RowsOf(setup)
  /\ Good(setup, S \cup {row})
  /\ Log!Last(S \cup {row}, s) = Log!Last(S, s) + 1
  /\ \A t \in Names \ {s} : Log!Last(S \cup {row}, t) = Log!Last(S, t)

(* Whoever appends, to what is committed or to what it sees, appends well:
   for what is sent, if it notes the delivery whose turn it is. *)
LEMMA RowIsGood ==
  ASSUME LogsWellFormed, LogsIInv, NEW u \in Log!Asked, NEW S, Good(setup, S), NEW s \in {"d", "sent"}, NEW of \in Nat,
         s = "sent" => of = Log!Last(S, s) + 1
  PROVE  Continues(S, s, Log!Row(S, s, u, of))
<1> DEFINE row == Log!Row(S, s, u, of)
<1>1. s \in Names /\ Log!Full(S) /\ Log!Last(S, s) \in Nat
  BY DEF LogsWellFormed, Good, Log!Full
<1>2. row = [stream |-> s, sequence |-> Log!Last(S, s) + 1, by |-> u, of |-> of]
  BY <1>1, NextIs DEF Log!Row
<1>3. row \in RowsOf(setup) /\ row.stream = s /\ row.sequence = Log!Last(S, s) + 1 /\ row.of = of
  BY <1>1, <1>2 DEF RowsOf, Log!Asked
<1> HIDE DEF row
<1>4. /\ Log!Full(S \cup {row})
      /\ Log!Last(S \cup {row}, s) = Log!Last(S, s) + 1
      /\ \A t \in Names \ {s} : Log!Last(S \cup {row}, t) = Log!Last(S, t)
  BY <1>1, <1>3, AddFull
<1>5. InOrder(S \cup {row})
  BY <1>3 DEF InOrder, Good
<1> QED BY <1>3, <1>4, <1>5 DEF Good, row, Continues

LEMMA QueueSteps ==
  ASSUME LogsWellFormed, LogsIInv, setup' = setup, NEW u \in Log!Asked, Log!Call(u) \/ Log!Turn(u) \/ Log!Release(u)
  PROVE  LogsIInv' /\ Log!OnlyAppends
<1>1. CASE Log!Call(u)
  BY <1>1, Resting, GoesQuietly DEF Log!Call, Log!At, Log!Pcs, Log!OnlyAppends
<1>2. CASE Log!Turn(u)
  BY <1>2, Resting, GoesQuietly DEF Log!Turn, Log!At, Log!Pcs, Log!OnlyAppends
<1>3. CASE Log!Release(u)
  <2> DEFINE pc == IF Log!Reads(u) /\ unit[u].made < MaxCalls THEN "idle" ELSE "ended"
  <2>1. unit[u].pc = "done" /\ Log!Go(u, pc) /\ rows' = rows /\ writer' = writer
    BY <1>3 DEF Log!Release, Log!At
  <2>2. unit[u].batch # {} => ~ Log!Reads(u)
    BY UnitIs DEF Sound, Bodies, Log!Reads, Log!Kind
  <2>3. pc \in Log!Pcs \ {"open"} /\ (pc \notin {"done", "ended", "died"} => unit[u].batch = {})
    BY <2>2 DEF Log!Pcs
  <2> HIDE DEF pc
  <2> QED BY <2>1, <2>3, GoesQuietly DEF Log!OnlyAppends
<1> QED BY <1>1, <1>2, <1>3

LEMMA AppendAloneStep ==
  ASSUME LogsWellFormed, LogsIInv, setup' = setup, NEW u \in Log!Asked, Log!AppendAlone(u)
  PROVE  LogsIInv' /\ Log!OnlyAppends
<1>1. unit[u].pc \in {"idle", "owning"} /\ writer' = writer
  BY DEF Log!AppendAlone, Log!MayCall, Log!At
<1>2. CASE writer # Missing
  BY <1>1, <1>2, Resting, Blocks DEF Log!AppendAlone, Log!OnlyAppends
<1>3. CASE writer = Missing
  <2> DEFINE row == Log!Row(rows, "d", u, 1)
             w == [unit[u] EXCEPT !.pc = Log!Finished(u), !.told = {row}]
  <2>1. rows' = rows \cup {row} /\ unit' = [unit EXCEPT ![u] = w]
    BY <1>3 DEF Log!AppendAlone, Log!Set
  <2>2. Good(setup, rows) /\ 1 \in Nat /\ "d" \in {"d", "sent"}
    BY DEF LogsIInv
  <2>3. row \in RowsOf(setup) /\ Good(setup, rows \cup {row})
    BY <2>2, RowIsGood DEF Continues
  <2> HIDE DEF row
  <2>4. unit[u] \in Records(setup) /\ unit[u].save = Missing /\ Log!Finished(u) \in {"ended", "done"}
    BY <1>1, UnitIs, Resting DEF Log!Finished
  <2>5. w \in Records(setup)
    BY <2>3, <2>4 DEF Records, Log!Pcs
  <2>6. Sound(setup, u, w) /\ Fresh(setup, w)
    BY <1>1, <2>3, <2>4, <2>5, UnitIs DEF Sound, Fresh, Records, Log!Pcs
  <2> HIDE DEF w
  <2> QED BY <1>1, <1>3, <2>1, <2>3, <2>6, Changed DEF Log!OnlyAppends
<1> QED BY <1>2, <1>3

(* What anybody sees is committed, or in the view of one transaction. *)
LEMMA VisibleIsGood == ASSUME LogsWellFormed, LogsIInv, NEW u \in Log!Asked PROVE Good(setup, Log!Visible(u))
<1>1. CASE \E v \in Log!OpenBeside(u) : unit[v].view # Missing
  <2>1. \E view \in {unit[v].view : v \in Log!OpenBeside(u)} : view # Missing
    BY <1>1
  <2>2. PICK v \in Log!OpenBeside(u) : Log!Visible(u) = unit[v].view /\ unit[v].view # Missing
    BY <1>1, <2>1 DEF Log!Visible
  <2> QED BY <2>2, UnitIs DEF Log!OpenBeside, Sound
<1>2. CASE ~ \E v \in Log!OpenBeside(u) : unit[v].view # Missing
  BY <1>2 DEF Log!Visible, LogsIInv
<1> QED BY <1>1, <1>2

LEMMA ListNextStep ==
  ASSUME LogsWellFormed, LogsIInv, setup' = setup, NEW u \in Log!Asked, NEW limit \in {1, Missing}, Log!ListNext(u, limit)
  PROVE  LogsIInv' /\ Log!OnlyAppends
<1> DEFINE listed == Log!List(Log!Visible(u), "d", Log!Last(unit[u].seen, "d"), limit)
           pc == IF Log!IsSync(u) THEN "idle" ELSE "done"
           w == [unit[u] EXCEPT !.pc = pc, !.made = @ + 1, !.seen = @ \cup listed]
<1>1. unit[u].pc \in {"idle", "owning"} /\ unit' = [unit EXCEPT ![u] = w] /\ rows' = rows /\ writer' = writer
  BY DEF Log!ListNext, Log!MayCall, Log!At, Log!Set
<1>2. listed \subseteq RowsOf(setup)
  <2>1. \A S, t, after : Log!List(S, t, after, limit) \subseteq S
    BY Zenon DEF Log!List
  <2>2. Log!Visible(u) \subseteq RowsOf(setup)
    BY VisibleIsGood DEF Good
  <2> QED BY <2>1, <2>2
<1> HIDE DEF listed
<1>3. unit[u] \in Records(setup) /\ unit[u].save = Missing /\ unit[u].batch = {} /\ writer # u
  BY <1>1, UnitIs, Resting
<1>4. Sound(setup, u, w) /\ Fresh(setup, w)
  <2>1. pc \in {"idle", "done"}
    OBVIOUS
  <2> HIDE DEF pc
  <2>0. unit[u].seen \cup listed \in SUBSET RowsOf(setup) /\ unit[u].made + 1 \in Nat
    BY <1>2, <1>3 DEF Records
  <2>2. w \in Records(setup)
    BY <1>3, <2>0, <2>1 DEF Records, Log!Pcs
  <2>3. /\ w.pc = pc /\ w.then = unit[u].then /\ w.view = unit[u].view
        /\ w.save = Missing /\ w.batch = {}
    BY <1>3 DEF Records
  <2> HIDE DEF w
  <2> QED BY <2>1, <2>2, <2>3, UnitIs DEF Sound, Fresh
<1>5. Good(setup, rows')
  BY <1>1 DEF LogsIInv
<1> HIDE DEF w
<1> QED BY <1>1, <1>3, <1>4, <1>5, Changed DEF Log!OnlyAppends

LEMMA RefuseStep ==
  ASSUME LogsWellFormed, LogsIInv, setup' = setup, NEW u \in Log!Asked, Log!Refuse(u) PROVE LogsIInv' /\ Log!OnlyAppends
<1>1. unit[u].pc = "idle" /\ Log!Fail(u) /\ rows' = rows /\ writer' = writer
  BY DEF Log!Refuse, Log!At
<1>2. writer # u
  BY <1>1, Resting
<1>3. LogsIInv'
  BY <1>1, <1>2, Fails
<1> QED BY <1>1, <1>3 DEF Log!OnlyAppends

LEMMA BeginStep ==
  ASSUME LogsWellFormed, LogsIInv, setup' = setup, NEW u \in Log!Asked, Log!Begin(u) PROVE LogsIInv' /\ Log!OnlyAppends
<1>1. unit[u].pc \in {"idle", "owning"} /\ rows' = rows /\ Log!HasBody(u)
  BY DEF Log!Begin, Log!MayCall, Log!At
<1>2. /\ unit[u] \in Records(setup) /\ unit[u].save = Missing /\ unit[u].batch = {} /\ writer # u
      /\ Sound(setup, u, unit[u]) /\ u \in Units /\ u # Missing /\ Good(setup, rows)
  BY <1>1, UnitIs, Resting DEF LogsIInv
<1>3. CASE Log!Kind(u) = "deferred"
  <2> DEFINE w == [unit[u] EXCEPT !.pc = "open", !.view = Missing]
  <2>1. unit' = [unit EXCEPT ![u] = w] /\ writer' = writer
    BY <1>3 DEF Log!Begin, Log!Opened, Log!Set
  <2>2. Sound(setup, u, w) /\ Fresh(setup, w)
    BY <1>1, <1>2 DEF Sound, Records, Fresh, Log!Pcs, Log!HasBody, Log!Kind, Bodies
  <2> HIDE DEF w
  <2> QED BY <1>1, <1>2, <2>1, <2>2, Changed DEF Log!OnlyAppends
<1>4. CASE Log!Kind(u) # "deferred" /\ writer # Missing
  BY <1>1, <1>2, <1>4, Blocks DEF Log!Begin, Log!OnlyAppends
<1>5. CASE Log!Kind(u) # "deferred" /\ writer = Missing
  <2> DEFINE w == [unit[u] EXCEPT !.pc = "open", !.view = rows]
  <2>1. unit' = [unit EXCEPT ![u] = w] /\ writer' = u
    BY <1>5 DEF Log!Begin, Log!Opened, Log!Set
  <2>2. rows # Missing /\ rows \in SUBSET RowsOf(setup)
    BY DEF Good, LogsIInv, RowsOf, LogsWellFormed
  <2>3. w.view = rows /\ w.save = Missing /\ w.pc = "open" /\ w.batch = {}
    BY <1>2 DEF Records
  <2>4. w \in Records(setup)
    BY <1>2, <2>2 DEF Records, Log!Pcs
  <2>5. Sound(setup, u, w) /\ SeesAll(setup, rows, w)
    BY <1>1, <1>2, <2>2, <2>3, <2>4 DEF Sound, SeesAll, Log!HasBody, Log!Kind, Bodies
  <2> HIDE DEF w
  <2> QED BY <1>1, <1>2, <1>5, <2>1, <2>5, Changed DEF Log!OnlyAppends
<1> QED BY <1>3, <1>4, <1>5

(* What a transaction would read now. *)
LEMMA ViewIsGood ==
  ASSUME LogsWellFormed, LogsIInv, NEW u \in Log!Asked
  PROVE  /\ Good(setup, Log!View(u)) /\ Log!View(u) \in SUBSET RowsOf(setup) /\ Log!View(u) # Missing
         /\ unit[u].view # Missing => Log!View(u) = unit[u].view
<1>1. Good(setup, Log!View(u))
  BY UnitIs DEF Log!View, LogsIInv, Sound
<1>2. RowsOf(setup) \subseteq [stream : Names, sequence : Nat, by : Units, of : Nat]
  BY DEF LogsIInv, LogsWellFormed, RowsOf
<1>3. Log!View(u) \in SUBSET RowsOf(setup)
  BY <1>1 DEF Good
<1>4. Log!View(u) # Missing
  BY <1>2, <1>3 DEF LogsWellFormed
<1> QED BY <1>1, <1>3, <1>4 DEF Log!View

(* A savepoint taken of a view brings that view back. *)
LEMMA MarkIsKept ==
  ASSUME LogsWellFormed, setup \in Setups, NEW S, Good(setup, S)
  PROVE  /\ Log!Mark(S) # Missing /\ Log!Mark(S) \in (IF setup.memory THEN [Names -> Nat] ELSE SUBSET RowsOf(setup))
         /\ IF setup.memory THEN \A t \in Names : Log!Mark(S)[t] = Log!Last(S, t) ELSE Log!Mark(S) = S
         /\ Back(setup, S, Log!Mark(S)) = S
<1>1. \A t \in Names : Log!Last(S, t) \in Nat /\ Log!Cardinality(Log!Positions(S, t)) = Log!Last(S, t)
  BY CountIsLast DEF Good, Log!Full
<1>2. CASE setup.memory
  <2>1. Log!Mark(S) = [t \in Names |-> Log!Last(S, t)]
    BY <1>1, <1>2 DEF Log!Mark
  <2>2. Log!Mark(S) \in [Names -> Nat] /\ \A t \in Names : Log!Mark(S)[t] = Log!Last(S, t)
    BY <1>1, <2>1
  <2>3. ASSUME NEW r \in S PROVE r.stream \in Names /\ r.sequence <= Log!Last(S, r.stream)
    <3>1. r.stream \in Names /\ r.sequence \in Log!Positions(S, r.stream)
      BY DEF Good, RowsOf, Log!Positions
    <3>2. Log!Positions(S, r.stream) = 1 .. Log!Last(S, r.stream)
      BY <3>1 DEF Good, Log!Full
    <3> QED BY <3>1, <3>2, <1>1
  <2>4. Back(setup, S, Log!Mark(S)) = S
    BY <1>2, <2>2, <2>3 DEF Back
  <2> QED BY <1>2, <2>2, <2>4 DEF LogsWellFormed
<1>3. CASE ~ setup.memory
  <2>1. Log!Mark(S) = S /\ S \in SUBSET RowsOf(setup) /\ Back(setup, S, Log!Mark(S)) = S
    BY <1>3 DEF Log!Mark, Good, Back
  <2>2. RowsOf(setup) \subseteq [stream : Names, sequence : Nat, by : Units, of : Nat]
    BY DEF LogsWellFormed, RowsOf
  <2> QED BY <1>3, <2>1, <2>2 DEF LogsWellFormed
<1> QED BY <1>2, <1>3

(* What a savepoint brings back is numbered without gaps. *)
LEMMA BackIsGood ==
  ASSUME NEW s, NEW w, Good(s, w.view), Kept(s, w)
  PROVE  Good(s, Back(s, w.view, w.save))
<1>1. CASE s.memory
  <2>1. w.save \in [Names -> Nat] /\ Log!Full(w.view) /\ \A t \in Names : w.save[t] <= Log!Last(w.view, t)
    BY <1>1 DEF Kept, Good
  <2> DEFINE T == {r \in w.view : r.sequence <= w.save[r.stream]}
  <2>2. Log!Full(T)
    BY <2>1, CutFull
  <2>3. T \subseteq w.view
    OBVIOUS
  <2>4. Back(s, w.view, w.save) = T
    BY <1>1 DEF Back
  <2> HIDE DEF T
  <2> QED BY <2>2, <2>3, <2>4 DEF Good, InOrder
<1>2. CASE ~ s.memory
  BY <1>2 DEF Kept, Back
<1> QED BY <1>1, <1>2

LEMMA InTransaction ==
  ASSUME LogsWellFormed, LogsIInv, NEW u \in Log!Asked, Log!InBody(u)
  PROVE  /\ unit[u].pc = "open" /\ IsOpen(unit[u]) /\ Log!Kind(u) \in Bodies
         /\ unit[u].save # Missing => unit[u].view # Missing /\ ~ Log!Mails(u) /\ Kept(setup, unit[u])
         /\ unit[u].batch # {} => Log!Mails(u) /\ unit[u].view # Missing /\ unit[u].batch = Log!Unsent(unit[u].view)
BY UnitIs DEF Log!InBody, Log!At, Sound, IsOpen, Log!Kind, Log!Mails

LEMMA ReadStep ==
  ASSUME LogsWellFormed, LogsIInv, setup' = setup, NEW u \in Log!Asked, Log!Read(u) PROVE LogsIInv' /\ Log!OnlyAppends
<1> DEFINE w == [unit[u] EXCEPT !.view = Log!View(u), !.batch = Log!Unsent(Log!View(u)), !.made = 1]
<1>1. /\ Log!InBody(u) /\ Log!Mails(u) /\ unit' = [unit EXCEPT ![u] = w]
      /\ rows' = rows /\ writer' = writer /\ Good(setup, rows')
  BY DEF Log!Read, Log!Set, LogsIInv
<1>2. /\ unit[u].pc = "open" /\ IsOpen(unit[u]) /\ Log!Kind(u) \in Bodies /\ unit[u].save = Missing
      /\ unit[u] \in Records(setup) /\ Sound(setup, u, unit[u])
  BY <1>1, InTransaction, UnitIs
<1>3. Log!View(u) \in SUBSET RowsOf(setup) /\ Log!View(u) # Missing /\ Good(setup, Log!View(u))
  BY ViewIsGood
<1>4. Log!Unsent(Log!View(u)) \in SUBSET RowsOf(setup)
  BY <1>3 DEF Log!Unsent, Log!List
<1>5. w \in Records(setup)
  BY <1>2, <1>3, <1>4 DEF Records
<1>6. w.pc = "open" /\ w.then = unit[u].then /\ w.view = Log!View(u) /\ w.save = Missing /\ w.batch = Log!Unsent(Log!View(u))
  BY <1>2 DEF Records
<1>7. writer = u => SeesAll(setup, rows, w)
  BY <1>3, <1>6, UnitIs DEF SeesAll, Log!View
<1> HIDE DEF w
<1>8. Sound(setup, u, w) /\ Fresh(setup, w)
  BY <1>1, <1>2, <1>3, <1>5, <1>6 DEF Sound, Fresh, IsOpen, Log!Kind, Log!Mails
<1> QED BY <1>1, <1>7, <1>8, Changed DEF Log!OnlyAppends

LEMMA BackGrows ==
  ASSUME NEW s, NEW S, NEW T, S \subseteq T, NEW mark PROVE Back(s, S, mark) \subseteq Back(s, T, mark)
BY DEF Back

(* An append of a transaction, whose record is otherwise "then": it waits,
   fails, or takes the lock and adds the next row to what it sees. *)
LEMMA AppendsIn ==
  ASSUME LogsWellFormed, LogsIInv, setup' = setup, NEW u \in Log!Asked, Log!InBody(u), NEW s \in {"d", "sent"}, NEW of \in Nat,
         NEW then \in Records(setup), Log!AppendIn(u, s, of, then), rows' = rows,
         then.pc = "open", then.then = unit[u].then, then.view = unit[u].view, then.save = unit[u].save,
         s = "sent" => of = Log!Last(Log!View(u), s) + 1,
         then.batch # {} => Log!Mails(u) /\ then.batch = Log!Unsent(Log!View(u) \cup {Log!Row(Log!View(u), s, u, of)})
  PROVE  LogsIInv'
<1> DEFINE row == Log!Row(Log!View(u), s, u, of)
           w == [then EXCEPT !.view = Log!View(u) \cup {row}, !.told = @ \cup {row}]
<1>1. /\ unit[u].pc = "open" /\ Log!Kind(u) \in Bodies /\ Good(setup, rows') /\ u # Missing
      /\ unit[u].save # Missing => unit[u].view # Missing /\ ~ Log!Mails(u) /\ Kept(setup, unit[u])
  BY InTransaction, UnitIs DEF LogsIInv
<1>2. CASE writer \notin {u, Missing}
  <2>1. Log!Block(u) /\ writer' = writer
    BY <1>2 DEF Log!AppendIn
  <2> QED BY <1>1, <1>2, <2>1, Blocks
<1>3. CASE writer \in {u, Missing} /\ Log!Stale(u)
  <2>1. Log!Fail(u) /\ writer' = writer /\ writer # u
    BY <1>3 DEF Log!AppendIn, Log!Stale
  <2> QED BY <2>1, Fails
<1>4. CASE writer \in {u, Missing} /\ ~ Log!Stale(u)
  <2>1. writer' = u /\ unit' = [unit EXCEPT ![u] = w]
    BY <1>4 DEF Log!AppendIn, Log!Set
  <2>2. /\ Good(setup, Log!View(u)) /\ Log!View(u) \in SUBSET RowsOf(setup)
        /\ unit[u].view # Missing => Log!View(u) = unit[u].view
    BY ViewIsGood
  <2>3. /\ row \in RowsOf(setup) /\ Good(setup, Log!View(u) \cup {row})
        /\ Log!Last(Log!View(u) \cup {row}, s) = Log!Last(Log!View(u), s) + 1
        /\ \A t \in Names \ {s} : Log!Last(Log!View(u) \cup {row}, t) = Log!Last(Log!View(u), t)
    <3> DEFINE S == Log!View(u)
    <3>1. Good(setup, S) /\ (s = "sent" => of = Log!Last(S, s) + 1)
      BY <2>2
    <3>0. s \in {"d", "sent"} /\ of \in Nat /\ u \in Log!Asked
      OBVIOUS
    <3> HIDE DEF S, row, w
    <3>2. Continues(S, s, Log!Row(S, s, u, of))
      BY ONLY LogsWellFormed, LogsIInv, <3>0, <3>1, RowIsGood
    <3> QED BY <3>2 DEF S, row, Continues
  <2> HIDE DEF row
  <2>4. Log!View(u) \cup {row} \in SUBSET RowsOf(setup) /\ then.told \cup {row} \in SUBSET RowsOf(setup)
    BY <2>2, <2>3 DEF Records
  <2>5. Log!View(u) \cup {row} # Missing
    <3>1. RowsOf(setup) \subseteq [stream : Names, sequence : Nat, by : Units, of : Nat]
      BY DEF LogsIInv, LogsWellFormed, RowsOf
    <3>2. Log!View(u) \cup {row} \in SUBSET [stream : Names, sequence : Nat, by : Units, of : Nat]
      BY <2>4, <3>1
    <3> QED BY <3>2 DEF LogsWellFormed
  <2>6. w \in Records(setup)
    BY <2>4 DEF Records
  <2>7. /\ w.pc = "open" /\ w.then = unit[u].then /\ w.view = Log!View(u) \cup {row}
        /\ w.save = unit[u].save /\ w.batch = then.batch
    BY DEF Records
  <2> HIDE DEF w
  <2>8. unit[u].save # Missing => Kept(setup, w)
    <3> SUFFICES ASSUME unit[u].save # Missing PROVE Kept(setup, w)
      OBVIOUS
    <3>1. Kept(setup, unit[u]) /\ Log!View(u) = unit[u].view
      BY <1>1, <2>2
    <3>2. \A t \in Names : Log!Last(Log!View(u), t) \in Nat
      BY <2>2 DEF Good, Log!Full
    <3>3. CASE setup.memory
      <4>1. w.save \in [Names -> Nat] /\ \A t \in Names : w.save[t] <= Log!Last(Log!View(u), t)
        BY <2>7, <3>1, <3>3 DEF Kept
      <4>2. ASSUME NEW t \in Names PROVE w.save[t] <= Log!Last(w.view, t)
        <5>1. w.save[t] \in Nat /\ Log!Last(Log!View(u), t) \in Nat /\ w.save[t] <= Log!Last(Log!View(u), t)
          BY <3>2, <4>1
        <5>2. Log!Last(w.view, t) = Log!Last(Log!View(u), t) + 1 \/ Log!Last(w.view, t) = Log!Last(Log!View(u), t)
          BY <2>3, <2>7
        <5> QED BY <5>1, <5>2
      <4> QED BY <3>3, <4>1, <4>2 DEF Kept
    <3>4. CASE ~ setup.memory
      BY <2>7, <3>1, <3>4 DEF Kept
    <3> QED BY <3>3, <3>4
  <2>9. Sound(setup, u, w)
    <3>1. IsOpen(w) /\ w.view # Missing /\ Good(setup, w.view) /\ setup.units[u].kind \in Bodies
      BY <1>1, <2>3, <2>5, <2>7 DEF IsOpen, Log!Kind
    <3>2. w.save # Missing => ~ setup.units[u].mails /\ Kept(setup, w)
      BY <1>1, <2>7, <2>8 DEF Log!Mails
    <3>3. w.batch # {} => setup.units[u].mails /\ w.batch = Log!Unsent(w.view)
      BY <2>7 DEF Log!Mails, row
    <3> QED BY <2>6, <3>1, <3>2, <3>3 DEF Sound
  <2>10. rows \subseteq Log!View(u) /\ (unit[u].save # Missing => rows \subseteq Back(setup, Log!View(u), unit[u].save))
    <3>1. CASE writer = u
      BY <3>1, <2>2, UnitIs DEF SeesAll
    <3>2. CASE writer = Missing
      <4>1. Log!View(u) = rows /\ Fresh(setup, unit[u])
        BY <1>1, <1>4, <3>2, UnitIs DEF Log!Stale, Log!View
      <4> QED BY <1>1, <2>2, <4>1 DEF Fresh
    <3> QED BY <1>4, <3>1, <3>2
  <2>11. SeesAll(setup, rows', w)
    <3>1. Back(setup, Log!View(u), unit[u].save) \subseteq Back(setup, w.view, w.save)
      BY <2>7, BackGrows
    <3> QED BY <2>5, <2>7, <2>10, <3>1 DEF SeesAll
  <2> QED BY <1>1, <1>4, <2>1, <2>9, <2>11, Changed
<1> QED BY <1>2, <1>3, <1>4

LEMMA WriteStep ==
  ASSUME LogsWellFormed, LogsIInv, setup' = setup, NEW u \in Log!Asked, Log!Write(u) PROVE LogsIInv' /\ Log!OnlyAppends
<1> DEFINE then == [unit[u] EXCEPT !.made = @ + 1]
           of == unit[u].made + 1
<1>1. /\ Log!InBody(u) /\ ~ Log!Mails(u) /\ rows' = rows /\ Log!AppendIn(u, "d", of, then)
      /\ unit[u] \in Records(setup)
  BY UnitIs DEF Log!Write
<1>2. unit[u].pc = "open" /\ unit[u].batch = {}
  BY <1>1, InTransaction
<1>3. of \in Nat /\ then \in Records(setup)
  BY <1>1 DEF Records
<1>4. /\ then.pc = "open" /\ then.then = unit[u].then /\ then.view = unit[u].view
      /\ then.save = unit[u].save /\ then.batch = {}
  BY <1>1, <1>2 DEF Records
<1> HIDE DEF then, of
<1>5. LogsIInv'
  BY <1>1, <1>3, <1>4, AppendsIn
<1> QED BY <1>1, <1>5 DEF Log!OnlyAppends

LEMMA UnsentIs ==
  ASSUME LogsWellFormed, NEW S PROVE Log!Unsent(S) = {r \in S : r.stream = "d" /\ r.sequence > Log!Last(S, "sent")}
BY DEF Log!Unsent, Log!List

(* The first unsent delivery is the one after the last that was sent, and
   once that is noted, the others are left. *)
LEMMA FirstUnsent ==
  ASSUME LogsWellFormed, NEW s, NEW S, Good(s, S), NEW r \in Log!Unsent(S), \A q \in Log!Unsent(S) : r.sequence <= q.sequence
  PROVE  /\ r.sequence \in Nat /\ r.sequence = Log!Last(S, "sent") + 1
         /\ \A row : row.stream = "sent" /\ Log!Last(S \cup {row}, "sent") = Log!Last(S, "sent") + 1
              => Log!Unsent(S \cup {row}) = Log!Unsent(S) \ {r}
<1> DEFINE n == Log!Last(S, "sent")
<1>1. n \in Nat /\ Log!Last(S, "d") \in Nat /\ Log!Positions(S, "d") = 1 .. Log!Last(S, "d")
  BY DEF Good, Log!Full, LogsWellFormed
<1>2. r \in S /\ r.stream = "d" /\ r.sequence > n
  BY UnsentIs
<1>3. \A q \in S : q.stream = "d" => q.sequence \in 1 .. Log!Last(S, "d")
  BY <1>1 DEF Log!Positions
<1>4. r.sequence \in 1 .. Log!Last(S, "d")
  BY <1>2, <1>3
<1> HIDE DEF n
<1>5. n + 1 \in Log!Positions(S, "d")
  BY <1>1, <1>2, <1>4
<1>6. PICK q \in S : q.stream = "d" /\ q.sequence = n + 1
  BY <1>5 DEF Log!Positions
<1>7. q \in Log!Unsent(S)
  BY <1>1, <1>6, UnsentIs DEF n
<1>8. r.sequence = n + 1
  BY <1>1, <1>2, <1>4, <1>6, <1>7
<1>9. ASSUME NEW row, row.stream = "sent", Log!Last(S \cup {row}, "sent") = n + 1
      PROVE  Log!Unsent(S \cup {row}) = Log!Unsent(S) \ {r}
  <2>1. Log!Unsent(S \cup {row}) = {x \in S : x.stream = "d" /\ x.sequence > n + 1}
    BY <1>9, UnsentIs
  <2>2. Log!Unsent(S) = {x \in S : x.stream = "d" /\ x.sequence > n}
    BY UnsentIs DEF n
  <2>3. \A x \in S : x.stream = "d" => (x.sequence > n + 1 <=> x.sequence > n /\ x.sequence # r.sequence)
    BY <1>1, <1>3, <1>8
  <2>4. \A x \in S : x.stream = "d" /\ x.sequence = r.sequence => x = r
    BY <1>2 DEF Good, Log!Full, LogsWellFormed
  <2> QED BY <2>1, <2>2, <2>3, <2>4
<1> QED BY <1>4, <1>8, <1>9 DEF n

LEMMA MailStep ==
  ASSUME LogsWellFormed, LogsIInv, setup' = setup, NEW u \in Log!Asked, Log!Mail(u) PROVE LogsIInv' /\ Log!OnlyAppends
<1>1. Log!InBody(u) /\ rows' = rows /\ unit[u].batch # {} /\ unit[u] \in Records(setup)
  BY UnitIs DEF Log!Mail
<1>2. /\ unit[u].pc = "open" /\ Log!Mails(u)
      /\ Log!View(u) = unit[u].view /\ unit[u].batch = Log!Unsent(Log!View(u)) /\ Good(setup, Log!View(u))
  BY <1>1, InTransaction, ViewIsGood
<1>3. PICK r \in unit[u].batch :
        /\ \A q \in unit[u].batch : r.sequence <= q.sequence
        /\ Log!AppendIn(u, "sent", r.sequence, [unit[u] EXCEPT !.batch = @ \ {r}])
  BY DEF Log!Mail
<1> DEFINE then == [unit[u] EXCEPT !.batch = @ \ {r}]
           row == Log!Row(Log!View(u), "sent", u, r.sequence)
<1>4. /\ r.sequence \in Nat /\ r.sequence = Log!Last(Log!View(u), "sent") + 1
      /\ \A x : x.stream = "sent" /\ Log!Last(Log!View(u) \cup {x}, "sent") = Log!Last(Log!View(u), "sent") + 1
            => Log!Unsent(Log!View(u) \cup {x}) = Log!Unsent(Log!View(u)) \ {r}
  BY <1>2, <1>3, FirstUnsent
<1>5. row.stream = "sent" /\ Log!Last(Log!View(u) \cup {row}, "sent") = Log!Last(Log!View(u), "sent") + 1
  <2> DEFINE S == Log!View(u)
             of == r.sequence
  <2>1. Good(setup, S) /\ of \in Nat /\ of = Log!Last(S, "sent") + 1
    BY <1>2, <1>4
  <2> HIDE DEF S, of
  <2>2. Log!Last(S \cup {Log!Row(S, "sent", u, of)}, "sent") = Log!Last(S, "sent") + 1
    BY <2>1, RowIsGood DEF Continues
  <2>3. Log!Row(S, "sent", u, of).stream = "sent"
    BY DEF Log!Row
  <2> QED BY <2>2, <2>3 DEF S, of
<1>6. then \in Records(setup)
  BY <1>1 DEF Records
<1>7. /\ then.pc = "open" /\ then.then = unit[u].then /\ then.view = unit[u].view
      /\ then.save = unit[u].save /\ then.batch = Log!Unsent(Log!View(u) \cup {row})
  BY <1>1, <1>2, <1>4, <1>5 DEF Records
<1>8. Log!AppendIn(u, "sent", r.sequence, then)
  BY <1>3
<1> HIDE DEF then
<1>9. LogsIInv'
  BY <1>1, <1>2, <1>4, <1>6, <1>7, <1>8, AppendsIn
<1> QED BY <1>1, <1>9 DEF Log!OnlyAppends

LEMMA NestStep ==
  ASSUME LogsWellFormed, LogsIInv, setup' = setup, NEW u \in Log!Asked, Log!Nest(u) PROVE LogsIInv' /\ Log!OnlyAppends
<1> DEFINE w == [unit[u] EXCEPT !.view = Log!View(u), !.save = Log!Mark(Log!View(u)), !.made = @ + 1]
<1>1. /\ Log!InBody(u) /\ ~ Log!Mails(u) /\ unit[u].save = Missing /\ unit' = [unit EXCEPT ![u] = w]
      /\ rows' = rows /\ writer' = writer /\ setup \in Setups /\ Good(setup, rows')
  BY DEF Log!Nest, Log!Set, LogsIInv
<1>2. /\ unit[u].pc = "open" /\ unit[u].batch = {} /\ Log!Kind(u) \in Bodies /\ unit[u] \in Records(setup)
      /\ writer = u => SeesAll(setup, rows, unit[u])
  BY <1>1, InTransaction, UnitIs
<1>3. /\ Log!View(u) \in SUBSET RowsOf(setup) /\ Log!View(u) # Missing /\ Good(setup, Log!View(u))
      /\ unit[u].view # Missing => Log!View(u) = unit[u].view
  BY ViewIsGood
<1>4. /\ Log!Mark(Log!View(u)) # Missing /\ Log!Mark(Log!View(u)) \in (IF setup.memory THEN [Names -> Nat] ELSE SUBSET RowsOf(setup))
      /\ IF setup.memory THEN \A t \in Names : Log!Mark(Log!View(u))[t] = Log!Last(Log!View(u), t) ELSE Log!Mark(Log!View(u)) = Log!View(u)
      /\ Back(setup, Log!View(u), Log!Mark(Log!View(u))) = Log!View(u)
  <2> DEFINE S == Log!View(u)
  <2>1. Good(setup, S)
    BY <1>3
  <2> HIDE DEF S
  <2>2. /\ Log!Mark(S) # Missing /\ Log!Mark(S) \in (IF setup.memory THEN [Names -> Nat] ELSE SUBSET RowsOf(setup))
        /\ IF setup.memory THEN \A t \in Names : Log!Mark(S)[t] = Log!Last(S, t) ELSE Log!Mark(S) = S
        /\ Back(setup, S, Log!Mark(S)) = S
    BY <1>1, <2>1, MarkIsKept
  <2> QED BY <2>2 DEF S
<1>5. w \in Records(setup)
  <2>1. unit[u].made + 1 \in Nat
    BY <1>2 DEF Records
  <2> QED BY <1>2, <1>3, <1>4, <2>1 DEF Records
<1>6. /\ w.pc = "open" /\ w.then = unit[u].then /\ w.view = Log!View(u)
      /\ w.save = Log!Mark(Log!View(u)) /\ w.batch = {}
  BY <1>2 DEF Records
<1> HIDE DEF w
<1>7. Kept(setup, w)
  <2>1. CASE setup.memory
    <3>1. w.save \in [Names -> Nat]
      BY <1>4, <1>6, <2>1
    <3>2. ASSUME NEW t \in Names PROVE w.save[t] <= Log!Last(w.view, t)
      <4>1. Log!Last(Log!View(u), t) \in Nat /\ w.save[t] = Log!Last(Log!View(u), t)
        BY <1>3, <1>4, <1>6, <2>1 DEF Good, Log!Full
      <4> QED BY <1>6, <4>1
    <3> QED BY <2>1, <3>1, <3>2 DEF Kept
  <2>2. CASE ~ setup.memory
    BY <1>3, <1>4, <1>6, <2>2 DEF Kept
  <2> QED BY <2>1, <2>2
<1>8. Sound(setup, u, w) /\ Fresh(setup, w)
  BY <1>1, <1>2, <1>3, <1>4, <1>5, <1>6, <1>7 DEF Sound, Fresh, IsOpen, Log!Kind, Log!Mails
<1>9. writer = u => SeesAll(setup, rows, w)
  BY <1>2, <1>3, <1>4, <1>6 DEF SeesAll
<1> QED BY <1>1, <1>8, <1>9, Changed DEF Log!OnlyAppends

LEMMA UnnestStep ==
  ASSUME LogsWellFormed, LogsIInv, setup' = setup, NEW u \in Log!Asked, Log!Unnest(u) PROVE LogsIInv' /\ Log!OnlyAppends
<1>1. /\ Log!InBody(u) /\ unit[u].save # Missing /\ rows' = rows /\ writer' = writer /\ Good(setup, rows')
  BY DEF Log!Unnest, LogsIInv
<1>2. /\ unit[u].pc = "open" /\ unit[u].view # Missing /\ ~ Log!Mails(u) /\ unit[u].batch = {}
      /\ Kept(setup, unit[u]) /\ unit[u] \in Records(setup) /\ Sound(setup, u, unit[u])
      /\ writer = u => SeesAll(setup, rows, unit[u])
      /\ Log!Kind(u) \in Bodies
  BY <1>1, InTransaction, UnitIs
<1>3. CASE Log!Set(u, [unit[u] EXCEPT !.save = Missing])
  <2> DEFINE w == [unit[u] EXCEPT !.save = Missing]
  <2>1. unit' = [unit EXCEPT ![u] = w]
    BY <1>3 DEF Log!Set
  <2>2. Sound(setup, u, w) /\ Fresh(setup, w) /\ (writer = u => SeesAll(setup, rows, w))
    BY <1>2 DEF Sound, Records, Fresh, SeesAll
  <2> HIDE DEF w
  <2> QED BY <1>1, <2>1, <2>2, Changed DEF Log!OnlyAppends
<1>4. CASE LET view == Log!Restored(unit[u].view, unit[u].save)
           IN  Log!Set(u, [unit[u] EXCEPT !.save = Missing, !.view = view, !.told = @ \cap view])
  <2> DEFINE view == Back(setup, unit[u].view, unit[u].save)
             w == [unit[u] EXCEPT !.save = Missing, !.view = view, !.told = @ \cap view]
  <2>1. unit' = [unit EXCEPT ![u] = w]
    BY <1>4 DEF Log!Set, Log!Restored, Back
  <2>2. Good(setup, unit[u].view)
    BY <1>2 DEF Sound
  <2>3. Good(setup, view)
    BY <1>2, <2>2, BackIsGood
  <2>4. writer = u => rows \subseteq view
    BY <1>1, <1>2 DEF SeesAll
  <2> HIDE DEF view
  <2>5. view \in SUBSET RowsOf(setup) /\ unit[u].told \cap view \in SUBSET RowsOf(setup) /\ view # Missing
    <3>1. RowsOf(setup) \subseteq [stream : Names, sequence : Nat, by : Units, of : Nat]
      BY DEF LogsIInv, LogsWellFormed, RowsOf
    <3>2. view \in SUBSET RowsOf(setup)
      BY <2>3 DEF Good
    <3> QED BY <3>1, <3>2 DEF LogsWellFormed
  <2>6. w \in Records(setup)
    BY <1>2, <2>5 DEF Records
  <2>7. w.pc = "open" /\ w.then = unit[u].then /\ w.view = view /\ w.save = Missing /\ w.batch = {}
    BY <1>2 DEF Records
  <2> HIDE DEF w
  <2>8. Sound(setup, u, w) /\ Fresh(setup, w) /\ (writer = u => SeesAll(setup, rows, w))
    BY <1>2, <2>3, <2>4, <2>5, <2>6, <2>7 DEF Sound, Fresh, SeesAll, Log!Kind
  <2> QED BY <1>1, <2>1, <2>8, Changed DEF Log!OnlyAppends
<1> QED BY <1>3, <1>4 DEF Log!Unnest

LEMMA ReturnStep ==
  ASSUME LogsWellFormed, LogsIInv, setup' = setup, NEW u \in Log!Asked, Log!Return(u) PROVE LogsIInv' /\ Log!OnlyAppends
<1> DEFINE w == [unit[u] EXCEPT !.pc = Log!Finished(u), !.view = Missing]
<1>1. /\ Log!InBody(u) /\ unit[u].save = Missing /\ unit[u].batch = {} /\ unit' = [unit EXCEPT ![u] = w]
      /\ rows' = (IF writer = u THEN unit[u].view ELSE rows)
      /\ writer' = (IF writer = u THEN Missing ELSE writer)
  BY DEF Log!Return, Log!LetGo, Log!Set
<1>2. /\ unit[u] \in Records(setup) /\ Sound(setup, u, unit[u]) /\ Log!Finished(u) \in {"ended", "done"}
      /\ writer = u => SeesAll(setup, rows, unit[u])
  BY UnitIs DEF Log!Finished
<1>3. Sound(setup, u, w) /\ Fresh(setup, w)
  BY <1>1, <1>2 DEF Sound, Records, Fresh, Log!Pcs
<1>4. Good(setup, rows') /\ rows \subseteq rows'
  BY <1>1, <1>2 DEF LogsIInv, SeesAll, Sound
<1> HIDE DEF w
<1>5. LogsIInv'
  BY <1>1, <1>3, <1>4, Changed
<1> QED BY <1>4, <1>5 DEF Log!OnlyAppends

LEMMA ThrowStep ==
  ASSUME LogsWellFormed, LogsIInv, setup' = setup, NEW u \in Log!Asked, Log!Throw(u) PROVE LogsIInv' /\ Log!OnlyAppends
<1>1. Log!Fail(u) /\ rows' = rows /\ writer' = (IF writer = u THEN Missing ELSE writer)
  BY DEF Log!Throw, Log!LetGo
<1>2. LogsIInv'
  BY <1>1, Fails
<1> QED BY <1>1, <1>2 DEF Log!OnlyAppends

LEMMA LockSteps ==
  ASSUME LogsWellFormed, LogsIInv, setup' = setup, NEW u \in Log!Asked, Log!Unblock(u) \/ Log!TimeOut(u)
  PROVE  LogsIInv' /\ Log!OnlyAppends
<1>1. /\ unit[u].pc = "blocked" /\ rows' = rows /\ writer' = writer /\ writer # u /\ Good(setup, rows')
      /\ unit[u] \in Records(setup) /\ Sound(setup, u, unit[u]) /\ Fresh(setup, unit[u])
  BY UnitIs DEF Log!Unblock, Log!TimeOut, Log!At, SeesAll, LogsIInv
<1>2. CASE Log!Unblock(u)
  <2> DEFINE w == [unit[u] EXCEPT !.pc = unit[u].then]
  <2>1. unit' = [unit EXCEPT ![u] = w]
    BY <1>2 DEF Log!Unblock, Log!Go, Log!Set
  <2>2. Sound(setup, u, w) /\ Fresh(setup, w)
    BY <1>1 DEF Sound, Records, Fresh, Kept, IsOpen, Log!Pcs
  <2> HIDE DEF w
  <2> QED BY <1>1, <2>1, <2>2, Changed DEF Log!OnlyAppends
<1>3. CASE Log!TimeOut(u)
  <2>1. Log!Fail(u)
    BY <1>3 DEF Log!TimeOut
  <2>2. LogsIInv'
    BY <1>1, <2>1, Fails
  <2> QED BY <1>1, <2>2 DEF Log!OnlyAppends
<1> QED BY <1>2, <1>3

(* What a dead process held is let go; nothing of it is committed. *)
LEMMA DieStep ==
  ASSUME LogsWellFormed, LogsIInv, setup' = setup, NEW p \in Log!Processes, Log!Die(p) PROVE LogsIInv' /\ Log!OnlyAppends
<1> DEFINE dies(u) == u \in Log!Asked /\ Log!Process(u) = p /\ unit[u].pc # "ended"
           dead(u) == [unit[u] EXCEPT !.pc = "died", !.view = Missing]
<1>1. /\ rows' = rows /\ unit' = [u \in Units |-> IF dies(u) THEN dead(u) ELSE unit[u]]
      /\ writer' = IF writer # Missing /\ Log!Process(writer) = p THEN Missing ELSE writer
  BY DEF Log!Die
<1>2. ASSUME NEW u \in Units PROVE Sound(setup, u, unit[u]) /\ unit[u] \in Records(setup)
  BY DEF LogsIInv, Sound
<1>3. ASSUME NEW u \in Units PROVE Sound(setup, u, dead(u)) /\ Fresh(setup, dead(u))
  BY <1>2 DEF Sound, Records, Fresh, Log!Pcs
<1> HIDE DEF dead
<1>4. unit' = [u \in Units |-> unit'[u]] /\ Good(setup, rows')
  BY <1>1 DEF LogsIInv
<1>5. ASSUME NEW u \in Units PROVE Sound(setup, u, unit'[u]) /\ (writer' # u => Fresh(setup, unit'[u]))
  <2>1. CASE dies(u)
    BY <1>1, <1>3, <2>1
  <2>2. CASE ~ dies(u)
    <3>1. unit'[u] = unit[u]
      BY <1>1, <2>2
    <3>2. writer = u /\ writer' # u => dies(u)
      BY <1>1 DEF LogsIInv, SeesAll, LogsWellFormed, Log!Asked
    <3> QED BY <1>2, <2>2, <3>1, <3>2 DEF LogsIInv
  <2> QED BY <2>1, <2>2
<1>6. writer' # Missing => writer' \in Log!Asked /\ SeesAll(setup, rows', unit'[writer'])
  <2> SUFFICES ASSUME writer' # Missing PROVE writer' \in Log!Asked /\ SeesAll(setup, rows', unit'[writer'])
    OBVIOUS
  <2>1. writer' = writer /\ Log!Process(writer) # p /\ writer \in Log!Asked /\ SeesAll(setup, rows, unit[writer])
    BY <1>1 DEF LogsIInv
  <2>2. writer \in Units
    BY <2>1 DEF LogsIInv, LogsWellFormed, Log!Asked
  <2> QED BY <1>1, <2>1, <2>2
<1> HIDE DEF dies
<1>7. LogsIInv'
  BY <1>4, <1>5, <1>6 DEF LogsIInv, Log!Asked
<1> QED BY <1>1, <1>7 DEF Log!OnlyAppends

--------------------
(* Theorems on streams *)

LEMMA StepLogs == LogsWellFormed /\ LogsIInv /\ [Log!Next]_Log!logVars => LogsIInv' /\ [Log!OnlyAppends]_rows
<1> SUFFICES ASSUME LogsWellFormed, LogsIInv, [Log!Next]_Log!logVars PROVE LogsIInv' /\ [Log!OnlyAppends]_rows
  OBVIOUS
<1>1. CASE UNCHANGED Log!logVars
  BY <1>1 DEF Log!logVars, LogsIInv, Log!Asked
<1>2. ASSUME NEW u \in Log!Asked, Log!Step(u), setup' = setup PROVE LogsIInv' /\ Log!OnlyAppends
  BY <1>2, QueueSteps, AppendAloneStep, ListNextStep, RefuseStep, BeginStep, ReadStep, WriteStep, MailStep,
     NestStep, UnnestStep, ReturnStep, ThrowStep, LockSteps DEF Log!Step
<1>3. ASSUME NEW p \in Log!Processes, Log!Die(p), setup' = setup PROVE LogsIInv' /\ Log!OnlyAppends
  BY <1>3, DieStep
<1> QED BY <1>1, <1>2, <1>3 DEF Log!Next

(* Under every interleaving, failure and crash, every stream's committed
   sequences are 1, 2, 3, ... without a gap or a repetition. *)
THEOREM StreamsAreGapless == LogsWellFormed => (Log!Spec => []Log!Gapless)
<1> SUFFICES ASSUME LogsWellFormed PROVE Log!Spec => []Log!Gapless
  OBVIOUS
<1>1. Log!Init => LogsIInv
  BY InitLogs
<1>2. LogsIInv /\ [Log!Next]_Log!logVars => LogsIInv'
  BY StepLogs
<1>3. LogsIInv => Log!Gapless
  BY DEF LogsIInv, Good, Log!Gapless
<1> QED BY <1>1, <1>2, <1>3, PTL DEF Log!Spec

(* Mailers that note what they sent in the transaction that read it have
   sent the first deliveries, each once, whichever of them took turns. *)
THEOREM DeliveriesAreSentOnce == LogsWellFormed => (Log!Spec => []Log!SentOnce)
<1> SUFFICES ASSUME LogsWellFormed PROVE Log!Spec => []Log!SentOnce
  OBVIOUS
<1>1. Log!Init => LogsIInv
  BY InitLogs
<1>2. LogsIInv /\ [Log!Next]_Log!logVars => LogsIInv'
  BY StepLogs
<1>3. LogsIInv => Log!SentOnce
  BY DEF LogsIInv, Good, InOrder, Log!SentOnce
<1> QED BY <1>1, <1>2, <1>3, PTL DEF Log!Spec

(* No step changes or removes a committed record: a commit replaces the
   rows by a view that holds them all. *)
THEOREM EntriesStay == LogsWellFormed => (Log!Spec => [][Log!OnlyAppends]_rows)
<1> SUFFICES ASSUME LogsWellFormed PROVE Log!Spec => [][Log!OnlyAppends]_rows
  OBVIOUS
<1>1. Log!Init => LogsIInv
  BY InitLogs
<1>2. LogsIInv /\ [Log!Next]_Log!logVars => LogsIInv' /\ [Log!OnlyAppends]_rows
  BY StepLogs
<1> QED BY <1>1, <1>2, PTL DEF Log!Spec

--------------------
(* What the theorems on turns ask of the constants. *)
AdaptersAreOfOneProcess ==
  \A s \in Setups : \A u \in DOMAIN s.units :
    /\ s.units[u].process \in Log!Processes /\ s.units[u].adapter # Missing
    /\ \A v \in DOMAIN s.units :
         s.units[v].adapter = s.units[u].adapter => s.units[v].process = s.units[u].process

--------------------
(* Lines of units *)

InIt(l) == {l[i] : i \in DOMAIN l}

Distinct(l) == \A i, j \in DOMAIN l : l[i] = l[j] => i = j

LEMMA Joined ==
  ASSUME NEW S, NEW l \in Seq(S), NEW u \in S
  PROVE  /\ Append(l, u) \in Seq(S) /\ InIt(Append(l, u)) = InIt(l) \cup {u}
         /\ Distinct(l) /\ u \notin InIt(l) => Distinct(Append(l, u))
         /\ InIt(l) # {} => Head(Append(l, u)) = Head(l)
<1>1. /\ Append(l, u) \in Seq(S) /\ Len(l) \in Nat /\ DOMAIN l = 1 .. Len(l)
      /\ DOMAIN Append(l, u) = 1 .. (Len(l) + 1)
      /\ \A i \in 1 .. Len(l) : Append(l, u)[i] = l[i]
      /\ Append(l, u)[Len(l) + 1] = u
  BY AppendProperties, LenProperties
<1> DEFINE k == Append(l, u)
<1> HIDE DEF k
<1>2. InIt(k) = InIt(l) \cup {u}
  <2>1. \A x \in InIt(k) : x \in InIt(l) \cup {u}
    BY <1>1 DEF InIt, k
  <2>2. \A x \in InIt(l) : x \in InIt(k)
    BY <1>1 DEF InIt, k
  <2>3. u \in InIt(k)
    BY <1>1 DEF InIt, k
  <2> QED BY <2>1, <2>2, <2>3
<1>3. ASSUME Distinct(l), u \notin InIt(l) PROVE Distinct(k)
  BY <1>1, <1>3 DEF Distinct, InIt, k
<1>4. ASSUME InIt(l) # {} PROVE Head(k) = Head(l)
  <2>1. 1 \in DOMAIN l
    BY <1>1, <1>4 DEF InIt
  <2>2. l # <<>> /\ k # <<>> /\ k[1] = l[1]
    BY <1>1, <2>1 DEF k
  <2>3. Head(l) = l[1] /\ Head(k) = k[1]
    BY <1>1, <2>2, HeadTailProperties DEF k
  <2> QED BY <2>2, <2>3
<1> QED BY <1>1, <1>2, <1>3, <1>4 DEF k

LEMMA Left ==
  ASSUME NEW S, NEW l \in Seq(S), Distinct(l), InIt(l) # {}
  PROVE  /\ Tail(l) \in Seq(S) /\ InIt(Tail(l)) = InIt(l) \ {Head(l)} /\ Distinct(Tail(l))
         /\ Head(l) \in InIt(l)
<1>1. Len(l) \in Nat /\ DOMAIN l = 1 .. Len(l)
  BY LenProperties
<1>2. 1 \in DOMAIN l /\ l # <<>>
  BY <1>1 DEF InIt
<1>3. /\ Tail(l) \in Seq(S) /\ Len(Tail(l)) = Len(l) - 1 /\ Head(l) = l[1]
      /\ \A i \in 1 .. (Len(l) - 1) : Tail(l)[i] = l[i + 1]
  BY <1>2, HeadTailProperties
<1>4. DOMAIN Tail(l) = 1 .. (Len(l) - 1)
  BY <1>3, LenProperties
<1> DEFINE k == Tail(l)
<1> HIDE DEF k
<1>5. \A x \in InIt(k) : x \in InIt(l) \ {l[1]}
  <2> SUFFICES ASSUME NEW i \in 1 .. (Len(l) - 1) PROVE l[i + 1] \in InIt(l) \ {l[1]}
    BY <1>3, <1>4 DEF InIt, k
  <2>1. i + 1 \in DOMAIN l /\ i + 1 # 1
    BY <1>1
  <2> QED BY <1>2, <2>1 DEF InIt, Distinct
<1>6. \A x \in InIt(l) : x # l[1] => x \in InIt(k)
  <2> SUFFICES ASSUME NEW i \in 1 .. Len(l), l[i] # l[1] PROVE l[i] \in InIt(k)
    BY <1>1 DEF InIt
  <2>1. i - 1 \in 1 .. (Len(l) - 1) /\ (i - 1) + 1 = i
    BY <1>1
  <2> QED BY <1>3, <1>4, <2>1 DEF InIt, k
<1>7. Distinct(k)
  <2> SUFFICES ASSUME NEW i \in 1 .. (Len(l) - 1), NEW j \in 1 .. (Len(l) - 1), l[i + 1] = l[j + 1] PROVE i = j
    BY <1>3, <1>4 DEF Distinct, k
  <2>1. i + 1 \in DOMAIN l /\ j + 1 \in DOMAIN l
    BY <1>1
  <2>2. i + 1 = j + 1
    BY <2>1 DEF Distinct
  <2> QED BY <2>2
<1> QED BY <1>2, <1>3, <1>5, <1>6, <1>7 DEF InIt, k

--------------------
(* Turns. The line of a process holds its awaitable units under way, and
   whoever is past waiting is the first and owns the file; one unit of a
   process at most is in a transaction or waits for SQLite's lock. *)

Ahead == {"owning", "open", "blocked", "done"}

Lined == {"queued"} \cup Ahead

Busy == {"open", "blocked"}

Alone == {"idle", "open", "blocked", "ended", "died"}

Standing(p) == {u \in Log!Asked : Log!Process(u) = p /\ ~ Log!IsSync(u) /\ unit[u].pc \in Lined}

Resumes(u) == IF Log!IsSync(u) THEN {"idle", "open"} ELSE {"owning", "open"}

Placed(u) ==
  /\ Log!IsSync(u) => unit[u].pc \in Alone
  /\ ~ Log!IsSync(u) /\ unit[u].pc \in Ahead =>
       Head(line[Log!Process(u)]) = u /\ owner[Log!Process(u)] = Log!Adapter(u)
  /\ unit[u].pc = "blocked" => unit[u].then \in Resumes(u)

Clear(u) == \A v \in Log!Asked \ {u} : Log!Process(v) = Log!Process(u) => unit[v].pc \notin Busy

LinesIInv ==
  /\ line \in [Log!Processes -> Seq(Log!Asked)]
  /\ owner \in [Log!Processes -> {Missing} \cup {Log!Adapter(u) : u \in Log!Asked}]
  /\ \A p \in Log!Processes : InIt(line[p]) = Standing(p) /\ Distinct(line[p])
  /\ \A u \in Log!Asked : Placed(u) /\ (unit[u].pc \in Busy => Clear(u))

LEMMA InitLines == LogsWellFormed /\ Log!Init => LinesIInv
<1> SUFFICES ASSUME LogsWellFormed, Log!Init PROVE LinesIInv
  OBVIOUS
<1>1. \A u \in Log!Asked : unit[u].pc = "idle"
  BY DEF Log!Init, Log!New, LogsWellFormed, Log!Asked
<1>2. \A p \in Log!Processes : line[p] = <<>> /\ owner[p] = Missing
  BY DEF Log!Init
<1>3. \A p \in Log!Processes : InIt(line[p]) = {} /\ Distinct(line[p])
  BY <1>2 DEF InIt, Distinct
<1>4. \A p \in Log!Processes : Standing(p) = {}
  BY <1>1 DEF Standing, Lined, Ahead
<1>5. \A u \in Log!Asked : Placed(u) /\ unit[u].pc \notin Busy
  BY <1>1 DEF Placed, Ahead, Alone, Busy
<1>6. /\ line \in [Log!Processes -> Seq(Log!Asked)]
      /\ owner \in [Log!Processes -> {Missing} \cup {Log!Adapter(u) : u \in Log!Asked}]
  BY DEF Log!Init
<1> QED BY <1>3, <1>4, <1>5, <1>6 DEF LinesIInv

(* Whoever may call is alone in its process. *)
LEMMA CallsAlone ==
  ASSUME AdaptersAreOfOneProcess, LogsIInv, LinesIInv, NEW u \in Log!Asked, Log!MayCall(u)
  PROVE  Clear(u) /\ unit[u].pc = (IF Log!IsSync(u) THEN "idle" ELSE "owning")
<1>1. unit[u].pc = (IF Log!IsSync(u) THEN "idle" ELSE "owning") /\ Log!IsFree(u)
  BY DEF Log!MayCall, Log!At
<1>2. SUFFICES ASSUME NEW v \in Log!Asked \ {u}, Log!Process(v) = Log!Process(u), unit[v].pc \in Busy PROVE FALSE
  BY <1>1 DEF Clear
<1>3. ~ Log!IsSync(v)
  BY <1>1, <1>2 DEF Log!IsFree, Busy
<1>4. Head(line[Log!Process(u)]) = v /\ owner[Log!Process(u)] = Log!Adapter(v)
  BY <1>2, <1>3 DEF LinesIInv, Placed, Busy, Ahead
<1>5. Log!IsSync(u)
  BY <1>1, <1>2, <1>4 DEF LinesIInv, Placed, Ahead
<1>6. Log!Adapter(v) # Missing
  BY DEF AdaptersAreOfOneProcess, LogsIInv, Log!Asked, Log!Adapter
<1>7. Log!Adapter(v) = Log!Adapter(u) /\ Log!InCall(Log!Adapter(u))
  BY <1>4, <1>5, <1>6 DEF Log!MayCall, Log!MayAccess
<1>8. PICK x \in Log!Asked : Log!Adapter(x) = Log!Adapter(u) /\ unit[x].pc = "done"
  BY <1>7 DEF Log!InCall
<1>9. Log!Process(x) = Log!Process(u)
  BY <1>8 DEF AdaptersAreOfOneProcess, LogsIInv, Log!Asked, Log!Adapter, Log!Process
<1>10. x = v
  BY <1>4, <1>8, <1>9 DEF LinesIInv, Placed, Ahead, Alone
<1> QED BY <1>2, <1>8, <1>10 DEF Busy

--------------------
(* Steps of a unit that leave the lines as they are *)

Only(u) == \A v \in Log!Asked \ {u} : unit'[v] = unit[v]

LEMMA SetIs ==
  ASSUME LogsWellFormed, LogsIInv, NEW u \in Log!Asked, NEW w, Log!Set(u, w)
  PROVE  unit'[u] = w /\ Only(u)
BY UnitIs DEF LogsIInv, Log!Set, Only

Moves(u) ==
  /\ Only(u) /\ line' = line /\ owner' = owner
  /\ IF Log!IsSync(u) THEN unit'[u].pc \in Alone ELSE unit[u].pc \in Ahead /\ unit'[u].pc \in Ahead
  /\ unit'[u].pc \in Busy => unit[u].pc \in Busy \/ Clear(u)
  /\ unit'[u].pc = "blocked" => unit'[u].then \in Resumes(u)

LEMMA Same == setup' = setup =>
  /\ Log!Asked' = Log!Asked
  /\ \A u : Log!IsSync(u)' = Log!IsSync(u) /\ Log!Process(u)' = Log!Process(u) /\ Log!Adapter(u)' = Log!Adapter(u)
BY DEF Log!Asked, Log!IsSync, Log!Process, Log!Adapter, Log!Kind

LEMMA Moved == ASSUME LinesIInv, setup' = setup, NEW u \in Log!Asked, Moves(u) PROVE LinesIInv'
<1>1. \A p \in Log!Processes : Standing(p)' = Standing(p)
  BY Same DEF Standing, Moves, Only, Lined, LinesIInv, Placed, Alone, Ahead
<1>2. \A v \in Log!Asked : Placed(v)'
  BY Same DEF Placed, Moves, Only, LinesIInv, Resumes
<1>3. \A v \in Log!Asked : (unit[v].pc \in Busy)' => Clear(v)'
  BY Same DEF Clear, Moves, Only, LinesIInv
<1>4. line' = line /\ owner' = owner
  BY DEF Moves
<1> QED BY <1>1, <1>2, <1>3, <1>4, Same DEF LinesIInv, InIt, Distinct, Log!Processes

(* What each step makes of its unit's record *)

Fields(u, pc, view, save, told, seen) ==
  /\ Only(u)
  /\ unit'[u].pc = pc /\ unit'[u].view = view /\ unit'[u].save = save
  /\ unit'[u].told = told /\ unit'[u].seen = seen

LEMMA FailIs ==
  ASSUME LogsWellFormed, LogsIInv, NEW u \in Log!Asked, Log!Fail(u)
  PROVE  Fields(u, Log!Finished(u), Missing, Missing, {}, unit[u].seen)
<1>1. unit[u] \in Records(setup)
  BY UnitIs
<1> DEFINE w == [unit[u] EXCEPT !.pc = Log!Finished(u), !.view = Missing, !.save = Missing, !.told = {}]
<1>2. w.pc = Log!Finished(u) /\ w.view = Missing /\ w.save = Missing /\ w.told = {} /\ w.seen = unit[u].seen
  BY <1>1 DEF Records
<1>3. Log!Set(u, w)
  BY DEF Log!Fail
<1> HIDE DEF w
<1> QED BY <1>2, <1>3, SetIs DEF Fields

LEMMA BlockIs ==
  ASSUME LogsWellFormed, LogsIInv, NEW u \in Log!Asked, Log!Block(u)
  PROVE  /\ Fields(u, "blocked", unit[u].view, unit[u].save, unit[u].told, unit[u].seen)
         /\ unit'[u].then = unit[u].pc
<1>1. unit[u] \in Records(setup)
  BY UnitIs
<1> DEFINE w == [unit[u] EXCEPT !.pc = "blocked", !.then = unit[u].pc]
<1>2. /\ w.pc = "blocked" /\ w.then = unit[u].pc /\ w.view = unit[u].view /\ w.save = unit[u].save
      /\ w.told = unit[u].told /\ w.seen = unit[u].seen
  BY <1>1 DEF Records
<1>3. Log!Set(u, w)
  BY DEF Log!Block
<1> HIDE DEF w
<1> QED BY <1>2, <1>3, SetIs DEF Fields

LEMMA GoIs ==
  ASSUME LogsWellFormed, LogsIInv, NEW u \in Log!Asked, NEW pc, Log!Go(u, pc)
  PROVE  Fields(u, pc, unit[u].view, unit[u].save, unit[u].told, unit[u].seen)
<1>1. unit[u] \in Records(setup)
  BY UnitIs
<1> DEFINE w == [unit[u] EXCEPT !.pc = pc]
<1>2. /\ w.pc = pc /\ w.view = unit[u].view /\ w.save = unit[u].save /\ w.told = unit[u].told /\ w.seen = unit[u].seen
  BY <1>1 DEF Records
<1>3. Log!Set(u, w)
  BY DEF Log!Go
<1> HIDE DEF w
<1> QED BY <1>2, <1>3, SetIs DEF Fields

LEMMA OpenedIs ==
  ASSUME LogsWellFormed, LogsIInv, NEW u \in Log!Asked, NEW view, Log!Opened(u, view)
  PROVE  Fields(u, "open", view, unit[u].save, unit[u].told, unit[u].seen)
<1>1. unit[u] \in Records(setup)
  BY UnitIs
<1> DEFINE w == [unit[u] EXCEPT !.pc = "open", !.view = view]
<1>2. /\ w.pc = "open" /\ w.view = view /\ w.save = unit[u].save /\ w.told = unit[u].told /\ w.seen = unit[u].seen
  BY <1>1 DEF Records
<1>3. Log!Set(u, w)
  BY DEF Log!Opened
<1> HIDE DEF w
<1> QED BY <1>2, <1>3, SetIs DEF Fields

LEMMA FinishedIs ==
  ASSUME NEW u
  PROVE  /\ Log!IsSync(u) => Log!Finished(u) = "ended"
         /\ ~ Log!IsSync(u) => Log!Finished(u) = "done"
BY DEF Log!Finished

LEMMA AppendAloneIs ==
  ASSUME LogsWellFormed, LogsIInv, NEW u \in Log!Asked, Log!AppendAlone(u)
  PROVE  \/ Log!Block(u) /\ writer # Missing /\ rows' = rows
         \/ LET row == Log!Row(rows, "d", u, 1)
            IN  /\ rows' = rows \cup {row}
                /\ Fields(u, Log!Finished(u), unit[u].view, unit[u].save, {row}, unit[u].seen)
<1> DEFINE row == Log!Row(rows, "d", u, 1)
<1>1. CASE writer = Missing
  <2>1. unit[u] \in Records(setup)
    BY UnitIs
  <2> DEFINE w == [unit[u] EXCEPT !.pc = Log!Finished(u), !.told = {row}]
  <2>2. /\ w.pc = Log!Finished(u) /\ w.view = unit[u].view /\ w.save = unit[u].save /\ w.told = {row}
        /\ w.seen = unit[u].seen
    BY <2>1 DEF Records
  <2>3. Log!Set(u, w) /\ rows' = rows \cup {row}
    BY <1>1 DEF Log!AppendAlone
  <2> HIDE DEF w, row
  <2>4. Fields(u, Log!Finished(u), unit[u].view, unit[u].save, {row}, unit[u].seen)
    BY <2>2, <2>3, SetIs DEF Fields
  <2> QED BY <2>3, <2>4 DEF row
<1>2. CASE writer # Missing
  BY <1>2 DEF Log!AppendAlone
<1> QED BY <1>1, <1>2

LEMMA ListNextIs ==
  ASSUME LogsWellFormed, LogsIInv, NEW u \in Log!Asked, NEW limit, Log!ListNext(u, limit)
  PROVE  Fields(u, IF Log!IsSync(u) THEN "idle" ELSE "done", unit[u].view, unit[u].save, unit[u].told,
                unit[u].seen \cup Log!List(Log!Visible(u), "d", Log!Last(unit[u].seen, "d"), limit))
<1> DEFINE pc == IF Log!IsSync(u) THEN "idle" ELSE "done"
           listed == Log!List(Log!Visible(u), "d", Log!Last(unit[u].seen, "d"), limit)
           w == [unit[u] EXCEPT !.pc = pc, !.made = @ + 1, !.seen = @ \cup listed]
<1>1. unit[u] \in Records(setup)
  BY UnitIs
<1>2. Log!Set(u, w)
  BY DEF Log!ListNext
<1> HIDE DEF pc, listed
<1>3. /\ w.pc = pc /\ w.view = unit[u].view /\ w.save = unit[u].save /\ w.told = unit[u].told
      /\ w.seen = unit[u].seen \cup listed
  BY <1>1 DEF Records
<1> HIDE DEF w
<1>4. Fields(u, pc, unit[u].view, unit[u].save, unit[u].told, unit[u].seen \cup listed)
  BY <1>2, <1>3, SetIs DEF Fields
<1> QED BY <1>4 DEF pc, listed

LEMMA ReadIs ==
  ASSUME LogsWellFormed, LogsIInv, NEW u \in Log!Asked, Log!Read(u)
  PROVE  unit[u].pc = "open" /\ Fields(u, "open", Log!View(u), unit[u].save, unit[u].told, unit[u].seen)
<1> DEFINE w == [unit[u] EXCEPT !.view = Log!View(u), !.batch = Log!Unsent(Log!View(u)), !.made = 1]
<1>1. unit[u] \in Records(setup)
  BY UnitIs
<1>2. Log!Set(u, w) /\ unit[u].pc = "open"
  BY DEF Log!Read, Log!InBody, Log!At
<1>3. /\ w.pc = unit[u].pc /\ w.view = Log!View(u) /\ w.save = unit[u].save /\ w.told = unit[u].told
      /\ w.seen = unit[u].seen
  BY <1>1 DEF Records
<1> HIDE DEF w
<1> QED BY <1>2, <1>3, SetIs DEF Fields

LEMMA NestIs ==
  ASSUME LogsWellFormed, LogsIInv, NEW u \in Log!Asked, Log!Nest(u)
  PROVE  unit[u].pc = "open" /\ Fields(u, "open", Log!View(u), Log!Mark(Log!View(u)), unit[u].told, unit[u].seen)
<1> DEFINE w == [unit[u] EXCEPT !.view = Log!View(u), !.save = Log!Mark(Log!View(u)), !.made = @ + 1]
<1>1. unit[u] \in Records(setup)
  BY UnitIs
<1>2. Log!Set(u, w) /\ unit[u].pc = "open"
  BY DEF Log!Nest, Log!InBody, Log!At
<1>3. /\ w.pc = unit[u].pc /\ w.view = Log!View(u) /\ w.save = Log!Mark(Log!View(u)) /\ w.told = unit[u].told
      /\ w.seen = unit[u].seen
  BY <1>1 DEF Records
<1> HIDE DEF w
<1> QED BY <1>2, <1>3, SetIs DEF Fields

LEMMA UnnestIs ==
  ASSUME LogsWellFormed, LogsIInv, NEW u \in Log!Asked, Log!Unnest(u)
  PROVE  /\ unit[u].pc = "open"
         /\ \/ Fields(u, "open", unit[u].view, Missing, unit[u].told, unit[u].seen)
            \/ LET view == Back(setup, unit[u].view, unit[u].save)
               IN  Fields(u, "open", view, Missing, unit[u].told \cap view, unit[u].seen)
<1>1. unit[u] \in Records(setup)
  BY UnitIs
<1>2. unit[u].pc = "open"
  BY DEF Log!Unnest, Log!InBody, Log!At
<1>3. CASE Log!Set(u, [unit[u] EXCEPT !.save = Missing])
  <2> DEFINE w == [unit[u] EXCEPT !.save = Missing]
  <2>1. /\ w.pc = unit[u].pc /\ w.view = unit[u].view /\ w.save = Missing /\ w.told = unit[u].told
        /\ w.seen = unit[u].seen
    BY <1>1 DEF Records
  <2>2. Log!Set(u, w)
    BY <1>3
  <2> HIDE DEF w
  <2> QED BY <1>2, <2>1, <2>2, SetIs DEF Fields
<1>4. CASE LET view == Log!Restored(unit[u].view, unit[u].save)
           IN  Log!Set(u, [unit[u] EXCEPT !.save = Missing, !.view = view, !.told = @ \cap view])
  <2> DEFINE view == Back(setup, unit[u].view, unit[u].save)
             w == [unit[u] EXCEPT !.save = Missing, !.view = view, !.told = @ \cap view]
  <2>1. view = Log!Restored(unit[u].view, unit[u].save)
    BY DEF Back, Log!Restored
  <2>2. Log!Set(u, w)
    BY <1>4, <2>1
  <2> HIDE DEF view
  <2>3. /\ w.pc = unit[u].pc /\ w.view = view /\ w.save = Missing /\ w.told = unit[u].told \cap view
        /\ w.seen = unit[u].seen
    BY <1>1 DEF Records
  <2> HIDE DEF w
  <2>4. Fields(u, "open", view, Missing, unit[u].told \cap view, unit[u].seen)
    BY <1>2, <2>2, <2>3, SetIs DEF Fields
  <2> QED BY <1>2, <2>4 DEF view
<1> QED BY <1>2, <1>3, <1>4 DEF Log!Unnest

LEMMA ReturnIs ==
  ASSUME LogsWellFormed, LogsIInv, NEW u \in Log!Asked, Log!Return(u)
  PROVE  unit[u].pc = "open" /\ Fields(u, Log!Finished(u), Missing, unit[u].save, unit[u].told, unit[u].seen)
<1> DEFINE w == [unit[u] EXCEPT !.pc = Log!Finished(u), !.view = Missing]
<1>1. unit[u] \in Records(setup)
  BY UnitIs
<1>2. Log!Set(u, w) /\ unit[u].pc = "open"
  BY DEF Log!Return, Log!InBody, Log!At
<1>3. /\ w.pc = Log!Finished(u) /\ w.view = Missing /\ w.save = unit[u].save /\ w.told = unit[u].told
      /\ w.seen = unit[u].seen
  BY <1>1 DEF Records
<1> HIDE DEF w
<1> QED BY <1>2, <1>3, SetIs DEF Fields

(* An append of a transaction waits, fails, or adds its row. *)
Adds(u, row) ==
  /\ writer \in {u, Missing} /\ (unit[u].view = Missing \/ unit[u].view = rows \/ writer = u) /\ writer' = u
  /\ Fields(u, "open", Log!View(u) \cup {row}, unit[u].save, unit[u].told \cup {row}, unit[u].seen)

LEMMA AppendInIs ==
  ASSUME LogsWellFormed, LogsIInv, NEW u \in Log!Asked, NEW s, NEW of, NEW then \in Records(setup),
         Log!AppendIn(u, s, of, then), then.pc = "open", then.view = unit[u].view, then.save = unit[u].save,
         then.told = unit[u].told, then.seen = unit[u].seen
  PROVE  \/ (Log!Block(u) \/ (Log!Fail(u) /\ writer # u)) /\ writer' = writer
         \/ Adds(u, Log!Row(Log!View(u), s, u, of))
<1>1. CASE writer \in {u, Missing} /\ ~ Log!Stale(u)
  <2> DEFINE row == Log!Row(Log!View(u), s, u, of)
             view == Log!View(u) \cup {row}
             w == [then EXCEPT !.view = view, !.told = @ \cup {row}]
  <2>1. Log!Set(u, w) /\ writer' = u
    BY <1>1 DEF Log!AppendIn
  <2> HIDE DEF row, view
  <2>2. /\ w.pc = "open" /\ w.view = view /\ w.save = unit[u].save /\ w.told = unit[u].told \cup {row}
        /\ w.seen = unit[u].seen
    BY DEF Records
  <2> HIDE DEF w
  <2>3. Fields(u, "open", view, unit[u].save, unit[u].told \cup {row}, unit[u].seen)
    BY <2>1, <2>2, SetIs DEF Fields
  <2>4. Adds(u, row)
    BY <1>1, <2>1, <2>3 DEF Adds, view, Log!Stale
  <2> QED BY <2>4 DEF row
<1>2. CASE ~ (writer \in {u, Missing} /\ ~ Log!Stale(u))
  BY <1>2 DEF Log!AppendIn, Log!Stale
<1> QED BY <1>1, <1>2

LEMMA WriteIs ==
  ASSUME LogsWellFormed, LogsIInv, NEW u \in Log!Asked, Log!Write(u) \/ Log!Mail(u)
  PROVE  /\ unit[u].pc = "open" /\ rows' = rows
         /\ \/ (Log!Block(u) \/ (Log!Fail(u) /\ writer # u)) /\ writer' = writer
            \/ \E row : row.by = u /\ Adds(u, row)
<1>1. unit[u] \in Records(setup) /\ unit[u].pc = "open" /\ rows' = rows
  BY UnitIs DEF Log!Write, Log!Mail, Log!InBody, Log!At
<1>2. PICK s, of, then :
        /\ Log!AppendIn(u, s, of, then) /\ then \in Records(setup) /\ then.pc = unit[u].pc
        /\ then.view = unit[u].view /\ then.save = unit[u].save /\ then.told = unit[u].told /\ then.seen = unit[u].seen
  <2>1. CASE Log!Write(u)
    <3> DEFINE then == [unit[u] EXCEPT !.made = @ + 1]
    <3>1. Log!AppendIn(u, "d", unit[u].made + 1, then)
      BY <2>1 DEF Log!Write
    <3>2. /\ then \in Records(setup) /\ then.pc = unit[u].pc
          /\ then.view = unit[u].view /\ then.save = unit[u].save /\ then.told = unit[u].told /\ then.seen = unit[u].seen
      BY <1>1 DEF Records
    <3> HIDE DEF then
    <3> QED BY <3>1, <3>2
  <2>2. CASE Log!Mail(u)
    <3>1. PICK r \in unit[u].batch : Log!AppendIn(u, "sent", r.sequence, [unit[u] EXCEPT !.batch = @ \ {r}])
      BY <2>2 DEF Log!Mail
    <3> DEFINE then == [unit[u] EXCEPT !.batch = @ \ {r}]
    <3>2. Log!AppendIn(u, "sent", r.sequence, then)
      BY <3>1
    <3>3. /\ then \in Records(setup) /\ then.pc = unit[u].pc
          /\ then.view = unit[u].view /\ then.save = unit[u].save /\ then.told = unit[u].told /\ then.seen = unit[u].seen
      BY <1>1 DEF Records
    <3> HIDE DEF then
    <3> QED BY <3>2, <3>3
  <2> QED BY <2>1, <2>2
<1>3. \/ (Log!Block(u) \/ (Log!Fail(u) /\ writer # u)) /\ writer' = writer
      \/ Adds(u, Log!Row(Log!View(u), s, u, of))
  BY <1>1, <1>2, AppendInIs
<1>4. Log!Row(Log!View(u), s, u, of).by = u
  BY DEF Log!Row
<1> QED BY <1>1, <1>3, <1>4

--------------------
(* The steps of a unit keep the lines *)

LEMMA CallMoves ==
  ASSUME LogsWellFormed, AdaptersAreOfOneProcess, LogsIInv, LinesIInv, NEW u \in Log!Asked,
         \/ Log!AppendAlone(u) \/ Log!Refuse(u) \/ Log!Begin(u)
         \/ \E limit \in {1, Missing} : Log!ListNext(u, limit)
  PROVE  Moves(u)
<1>1. line' = line /\ owner' = owner
  BY DEF Log!AppendAlone, Log!Refuse, Log!Begin, Log!ListNext
<1>2. CASE Log!Refuse(u)
  BY <1>1, <1>2, FailIs, FinishedIs DEF Log!Refuse, Moves, Alone, Busy, Fields
<1>3. CASE ~ Log!Refuse(u)
  <2>1. Log!MayCall(u)
    BY <1>3 DEF Log!AppendAlone, Log!Begin, Log!ListNext
  <2>2. Clear(u) /\ unit[u].pc = (IF Log!IsSync(u) THEN "idle" ELSE "owning")
    BY <2>1, CallsAlone
  <2>3. CASE Log!Block(u)
    BY <1>1, <2>2, <2>3, BlockIs DEF Moves, Alone, Ahead, Resumes, Fields
  <2>4. CASE \E view : Log!Opened(u, view)
    BY <1>1, <2>2, <2>4, OpenedIs DEF Moves, Alone, Ahead, Fields
  <2>5. CASE Log!AppendAlone(u) /\ ~ Log!Block(u)
    BY <1>1, <2>2, <2>5, AppendAloneIs, FinishedIs DEF Moves, Alone, Ahead, Busy, Fields
  <2>6. CASE \E limit \in {1, Missing} : Log!ListNext(u, limit)
    <3>1. Only(u) /\ unit'[u].pc = IF Log!IsSync(u) THEN "idle" ELSE "done"
      BY <2>6, ListNextIs DEF Fields
    <3> QED BY <1>1, <2>2, <3>1 DEF Moves, Alone, Ahead, Busy
  <2>7. Log!Begin(u) => Log!Block(u) \/ \E view : Log!Opened(u, view)
    BY DEF Log!Begin
  <2> QED BY <1>3, <2>3, <2>4, <2>5, <2>6, <2>7
<1> QED BY <1>2, <1>3

LEMMA BodyMoves ==
  ASSUME LogsWellFormed, LogsIInv, LinesIInv, NEW u \in Log!Asked,
         \/ Log!Read(u) \/ Log!Write(u) \/ Log!Mail(u) \/ Log!Nest(u) \/ Log!Unnest(u)
         \/ Log!Return(u) \/ Log!Throw(u) \/ Log!Unblock(u) \/ Log!TimeOut(u)
  PROVE  Moves(u)
<1>1. line' = line /\ owner' = owner /\ unit[u].pc \in Busy /\ (~ Log!Unblock(u) /\ ~ Log!TimeOut(u) => unit[u].pc = "open")
  BY DEF Log!Read, Log!Write, Log!Mail, Log!Nest, Log!Unnest, Log!Return, Log!Throw, Log!Unblock, Log!TimeOut,
         Log!InBody, Log!At, Busy
<1>2. CASE Log!Fail(u) \/ (Only(u) /\ unit'[u].pc = Log!Finished(u))
  BY <1>1, <1>2, FailIs, FinishedIs DEF Moves, Alone, Ahead, Busy, Fields
<1>3. CASE Log!Block(u) /\ unit[u].pc = "open"
  BY <1>1, <1>3, BlockIs DEF Moves, Alone, Ahead, Busy, Resumes, Fields
<1>4. CASE Only(u) /\ unit'[u].pc = "open"
  BY <1>1, <1>4 DEF Moves, Alone, Ahead, Busy
<1>5. CASE Log!Unblock(u)
  <2>1. Only(u) /\ unit'[u].pc = unit[u].then /\ unit[u].pc = "blocked"
    BY <1>5, GoIs DEF Log!Unblock, Log!At, Fields
  <2>2. unit[u].then \in Resumes(u)
    BY <2>1 DEF LinesIInv, Placed
  <2> QED BY <1>1, <2>1, <2>2 DEF Moves, Alone, Ahead, Resumes, Busy
<1>6. CASE Log!Throw(u) \/ Log!TimeOut(u)
  BY <1>2, <1>6 DEF Log!Throw, Log!TimeOut
<1>7. CASE Log!Read(u) \/ Log!Nest(u) \/ Log!Unnest(u)
  BY <1>4, <1>7, ReadIs, NestIs, UnnestIs DEF Fields
<1>8. CASE Log!Return(u)
  BY <1>2, <1>8, ReturnIs DEF Fields
<1>9. CASE Log!Write(u) \/ Log!Mail(u)
  BY <1>2, <1>3, <1>4, <1>9, WriteIs DEF Fields, Adds
<1> QED BY <1>5, <1>6, <1>7, <1>8, <1>9

(* A unit joins the line of its process. *)
LEMMA CallKeepsLines ==
  ASSUME LogsWellFormed, AdaptersAreOfOneProcess, LogsIInv, LinesIInv, setup' = setup, NEW u \in Log!Asked, Log!Call(u)
  PROVE  LinesIInv'
<1> DEFINE q == Log!Process(u)
<1>1. /\ unit[u].pc = "idle" /\ ~ Log!IsSync(u) /\ Only(u) /\ unit'[u].pc = "queued"
      /\ line' = [line EXCEPT ![q] = Append(@, u)] /\ owner' = owner
  BY GoIs DEF Log!Call, Log!At, Fields
<1>2. q \in Log!Processes
  BY DEF AdaptersAreOfOneProcess, LogsIInv, Log!Asked, Log!Process
<1> HIDE DEF q
<1>3. line[q] \in Seq(Log!Asked) /\ InIt(line[q]) = Standing(q) /\ Distinct(line[q])
  BY <1>2 DEF LinesIInv
<1>4. u \notin Standing(q)
  BY <1>1 DEF Standing, Lined, Ahead
<1>5. /\ Append(line[q], u) \in Seq(Log!Asked) /\ InIt(Append(line[q], u)) = Standing(q) \cup {u}
      /\ Distinct(Append(line[q], u)) /\ (Standing(q) # {} => Head(Append(line[q], u)) = Head(line[q]))
  BY <1>3, <1>4, Joined
<1>6. /\ line' \in [Log!Processes -> Seq(Log!Asked)] /\ line'[q] = Append(line[q], u)
      /\ \A p \in Log!Processes \ {q} : line'[p] = line[p]
  BY <1>1, <1>2, <1>5 DEF LinesIInv
<1>7. ASSUME NEW p \in Log!Processes PROVE InIt(line'[p]) = Standing(p)' /\ Distinct(line'[p])
  <2>1. Standing(p)' = IF p = q THEN Standing(p) \cup {u} ELSE Standing(p)
    BY <1>1, Same DEF Standing, Only, Lined, q
  <2> QED BY <1>3, <1>5, <1>6, <2>1 DEF LinesIInv
<1>8. ASSUME NEW v \in Log!Asked PROVE Placed(v)'
  <2>1. CASE v = u
    BY <1>1, <2>1, Same DEF Placed, Ahead
  <2>2. CASE v # u
    <3>1. unit'[v] = unit[v] /\ Placed(v)
      BY <1>1, <2>2 DEF Only, LinesIInv
    <3>2. ~ Log!IsSync(v) /\ unit[v].pc \in Ahead => Head(line'[Log!Process(v)]) = Head(line[Log!Process(v)])
      <4> SUFFICES ASSUME ~ Log!IsSync(v), unit[v].pc \in Ahead
                   PROVE  Head(line'[Log!Process(v)]) = Head(line[Log!Process(v)])
        OBVIOUS
      <4>1. Log!Process(v) \in Log!Processes
        BY DEF AdaptersAreOfOneProcess, LogsIInv, Log!Asked, Log!Process
      <4>2. v \in Standing(Log!Process(v))
        BY DEF Standing, Lined
      <4> QED BY <1>5, <1>6, <4>1, <4>2
    <3> QED BY <1>1, <3>1, <3>2, Same DEF Placed, Resumes
  <2> QED BY <2>1, <2>2
<1>9. \A v \in Log!Asked : (unit[v].pc \in Busy)' => Clear(v)'
  BY <1>1, Same DEF Clear, Only, LinesIInv, Busy
<1> QED BY <1>1, <1>6, <1>7, <1>8, <1>9, Same DEF LinesIInv, Log!Processes

(* The first in the line comes to own the file. *)
LEMMA TurnKeepsLines ==
  ASSUME LogsWellFormed, AdaptersAreOfOneProcess, LogsIInv, LinesIInv, setup' = setup, NEW u \in Log!Asked, Log!Turn(u)
  PROVE  LinesIInv'
<1> DEFINE q == Log!Process(u)
<1>1. /\ unit[u].pc = "queued" /\ Only(u) /\ unit'[u].pc = "owning" /\ Head(line[q]) = u
      /\ owner' = [owner EXCEPT ![q] = Log!Adapter(u)] /\ line' = line
  BY GoIs DEF Log!Turn, Log!At, Fields
<1>2. q \in Log!Processes
  BY DEF AdaptersAreOfOneProcess, LogsIInv, Log!Asked, Log!Process
<1>3. ~ Log!IsSync(u)
  BY <1>1 DEF LinesIInv, Placed, Alone
<1>4. /\ owner' \in [Log!Processes -> {Missing} \cup {Log!Adapter(v) : v \in Log!Asked}]
      /\ owner'[q] = Log!Adapter(u) /\ \A p \in Log!Processes \ {q} : owner'[p] = owner[p]
  BY <1>1, <1>2 DEF LinesIInv
<1>5. \A p \in Log!Processes : Standing(p)' = Standing(p)
  BY <1>1, Same DEF Standing, Only, Lined, Ahead
<1>6. ASSUME NEW v \in Log!Asked PROVE Placed(v)'
  <2>1. CASE v = u
    BY <1>1, <1>3, <1>4, <2>1, Same DEF Placed
  <2>2. CASE v # u
    <3>1. unit'[v] = unit[v] /\ Placed(v)
      BY <1>1, <2>2 DEF Only, LinesIInv
    <3>2. ~ Log!IsSync(v) /\ unit[v].pc \in Ahead => Log!Process(v) # q
      BY <1>1, <2>2, <3>1 DEF Placed
    <3>3. Log!Process(v) \in Log!Processes
      BY DEF AdaptersAreOfOneProcess, LogsIInv, Log!Asked, Log!Process
    <3> QED BY <1>1, <1>4, <3>1, <3>2, <3>3, Same DEF Placed, Resumes
  <2> QED BY <2>1, <2>2
<1>7. \A v \in Log!Asked : (unit[v].pc \in Busy)' => Clear(v)'
  BY <1>1, Same DEF Clear, Only, LinesIInv, Busy
<1> QED BY <1>1, <1>4, <1>5, <1>6, <1>7, Same DEF LinesIInv, InIt, Distinct, Log!Processes

(* The owner leaves the file to the next. *)
LEMMA ReleaseKeepsLines ==
  ASSUME LogsWellFormed, AdaptersAreOfOneProcess, LogsIInv, LinesIInv, setup' = setup, NEW u \in Log!Asked, Log!Release(u)
  PROVE  LinesIInv'
<1> DEFINE q == Log!Process(u)
<1>1. /\ unit[u].pc = "done" /\ Only(u) /\ unit'[u].pc \in {"idle", "ended"}
      /\ owner' = [owner EXCEPT ![q] = Missing] /\ line' = [line EXCEPT ![q] = Tail(@)]
  BY GoIs DEF Log!Release, Log!At, Fields
<1>2. q \in Log!Processes
  BY DEF AdaptersAreOfOneProcess, LogsIInv, Log!Asked, Log!Process
<1>3. ~ Log!IsSync(u) /\ Head(line[q]) = u /\ u \in Standing(q)
  BY <1>1 DEF LinesIInv, Placed, Alone, Ahead, Standing, Lined
<1> HIDE DEF q
<1>4. line[q] \in Seq(Log!Asked) /\ InIt(line[q]) = Standing(q) /\ Distinct(line[q])
  BY <1>2 DEF LinesIInv
<1>5. Tail(line[q]) \in Seq(Log!Asked) /\ InIt(Tail(line[q])) = Standing(q) \ {u} /\ Distinct(Tail(line[q]))
  BY <1>3, <1>4, Left
<1>6. /\ line' \in [Log!Processes -> Seq(Log!Asked)] /\ line'[q] = Tail(line[q])
      /\ owner' \in [Log!Processes -> {Missing} \cup {Log!Adapter(v) : v \in Log!Asked}]
      /\ \A p \in Log!Processes \ {q} : line'[p] = line[p] /\ owner'[p] = owner[p]
  BY <1>1, <1>2, <1>5 DEF LinesIInv
<1>7. ASSUME NEW p \in Log!Processes PROVE InIt(line'[p]) = Standing(p)' /\ Distinct(line'[p])
  <2>1. Standing(p)' = IF p = q THEN Standing(p) \ {u} ELSE Standing(p)
    BY <1>1, Same DEF Standing, Only, Lined, Ahead, q
  <2> QED BY <1>4, <1>5, <1>6, <2>1 DEF LinesIInv
<1>8. ASSUME NEW v \in Log!Asked PROVE Placed(v)'
  <2>1. CASE v = u
    BY <1>1, <1>3, <2>1, Same DEF Placed, Ahead
  <2>2. CASE v # u
    <3>1. unit'[v] = unit[v] /\ Placed(v)
      BY <1>1, <2>2 DEF Only, LinesIInv
    <3>2. ~ Log!IsSync(v) /\ unit[v].pc \in Ahead => Log!Process(v) # q
      BY <1>3, <2>2, <3>1 DEF Placed
    <3>3. Log!Process(v) \in Log!Processes
      BY DEF AdaptersAreOfOneProcess, LogsIInv, Log!Asked, Log!Process
    <3> QED BY <1>6, <3>1, <3>2, <3>3, Same DEF Placed, Resumes
  <2> QED BY <2>1, <2>2
<1>9. \A v \in Log!Asked : (unit[v].pc \in Busy)' => Clear(v)'
  BY <1>1, Same DEF Clear, Only, LinesIInv, Busy
<1> QED BY <1>6, <1>7, <1>8, <1>9, Same DEF LinesIInv, Log!Processes

(* What a process that dies becomes. *)
Dies(u, p) == Log!Process(u) = p /\ unit[u].pc # "ended"

LEMMA DieIs ==
  ASSUME LogsWellFormed, LogsIInv, NEW p \in Log!Processes, Log!Die(p), NEW u \in Log!Asked
  PROVE  /\ Dies(u, p) => /\ unit'[u].pc = "died" /\ unit'[u].told = unit[u].told /\ unit'[u].seen = unit[u].seen
         /\ ~ Dies(u, p) => unit'[u] = unit[u]
<1>1. u \in Units /\ unit[u] \in Records(setup)
  BY UnitIs
<1> DEFINE w == [unit[u] EXCEPT !.pc = "died", !.view = Missing]
<1>2. unit'[u] = IF Dies(u, p) THEN w ELSE unit[u]
  BY <1>1 DEF Log!Die, Dies
<1>3. w.pc = "died" /\ w.told = unit[u].told /\ w.seen = unit[u].seen
  BY <1>1 DEF Records
<1> HIDE DEF w
<1> QED BY <1>2, <1>3

LEMMA DieKeepsLines ==
  ASSUME LogsWellFormed, AdaptersAreOfOneProcess, LogsIInv, LinesIInv, setup' = setup, NEW p \in Log!Processes, Log!Die(p)
  PROVE  LinesIInv'
<1>1. \A u \in Log!Asked : IF Log!Process(u) = p THEN unit'[u].pc \in {"ended", "died"} ELSE unit'[u] = unit[u]
  BY DieIs DEF Dies
<1>2. line' = [line EXCEPT ![p] = <<>>] /\ owner' = [owner EXCEPT ![p] = Missing]
  BY DEF Log!Die
<1>3. /\ line' \in [Log!Processes -> Seq(Log!Asked)] /\ line'[p] = <<>>
      /\ owner' \in [Log!Processes -> {Missing} \cup {Log!Adapter(v) : v \in Log!Asked}]
      /\ \A q \in Log!Processes \ {p} : line'[q] = line[q] /\ owner'[q] = owner[q]
  BY <1>2 DEF LinesIInv
<1>4. ASSUME NEW q \in Log!Processes PROVE InIt(line'[q]) = Standing(q)' /\ Distinct(line'[q])
  <2>1. CASE q = p
    <3>1. Standing(q)' = {}
      BY <1>1, <2>1, Same DEF Standing, Lined, Ahead
    <3>2. InIt(line'[q]) = {} /\ Distinct(line'[q])
      BY <1>3, <2>1 DEF InIt, Distinct
    <3> QED BY <3>1, <3>2
  <2>2. CASE q # p
    <3>1. Standing(q)' = Standing(q)
      BY <1>1, <2>2, Same DEF Standing
    <3> QED BY <1>3, <2>2, <3>1 DEF LinesIInv
  <2> QED BY <2>1, <2>2
<1>5. ASSUME NEW v \in Log!Asked PROVE Placed(v)'
  <2>1. CASE Log!Process(v) = p
    BY <1>1, <2>1, Same DEF Placed, Ahead, Alone
  <2>2. CASE Log!Process(v) # p
    <3>1. Log!Process(v) \in Log!Processes
      BY DEF AdaptersAreOfOneProcess, LogsIInv, Log!Asked, Log!Process
    <3> QED BY <1>1, <1>3, <2>2, <3>1, Same DEF Placed, LinesIInv, Resumes
  <2> QED BY <2>1, <2>2
<1>6. \A v \in Log!Asked : (unit[v].pc \in Busy)' => Clear(v)'
  BY <1>1, Same DEF Clear, LinesIInv, Busy
<1> QED BY <1>3, <1>4, <1>5, <1>6, Same DEF LinesIInv, Log!Processes

LEMMA StepLines ==
  ASSUME LogsWellFormed, AdaptersAreOfOneProcess, LogsIInv, LinesIInv, [Log!Next]_Log!logVars
  PROVE  LinesIInv'
<1>1. CASE UNCHANGED Log!logVars
  <2>1. setup' = setup /\ line' = line /\ owner' = owner /\ unit' = unit
    BY <1>1 DEF Log!logVars
  <2> QED BY <2>1, Same DEF LinesIInv, InIt, Distinct, Standing, Placed, Clear, Resumes, Log!Processes
<1>2. ASSUME NEW u \in Log!Asked, Log!Step(u), setup' = setup PROVE LinesIInv'
  <2>1. CASE Log!Call(u) \/ Log!Turn(u) \/ Log!Release(u)
    BY <1>2, <2>1, CallKeepsLines, TurnKeepsLines, ReleaseKeepsLines
  <2>2. CASE ~ (Log!Call(u) \/ Log!Turn(u) \/ Log!Release(u))
    BY <1>2, <2>2, CallMoves, BodyMoves, Moved DEF Log!Step
  <2> QED BY <2>1, <2>2
<1>3. ASSUME NEW p \in Log!Processes, Log!Die(p), setup' = setup PROVE LinesIInv'
  BY <1>3, DieKeepsLines
<1> QED BY <1>1, <1>2, <1>3 DEF Log!Next

--------------------
(* Consumers. What one handled is the first of what is committed. *)

Handled(S, seen) == seen \subseteq S /\ \E n \in Nat : Log!Positions(seen, "d") = 1 .. n

SeenIInv == \A u \in Log!Asked : Handled(rows, unit[u].seen)

LEMMA InitSeen == LogsWellFormed /\ Log!Init => SeenIInv
<1> SUFFICES ASSUME LogsWellFormed, Log!Init PROVE SeenIInv
  OBVIOUS
<1>1. \A u \in Log!Asked : unit[u].seen = {}
  BY DEF Log!Init, Log!New, LogsWellFormed, Log!Asked
<1>2. Log!Positions({}, "d") = 1 .. 0
  BY DEF Log!Positions
<1> QED BY <1>1, <1>2 DEF SeenIInv, Handled

(* No transaction is open on the connection of whoever may call. *)
LEMMA VisibleIsRows ==
  ASSUME AdaptersAreOfOneProcess, LogsIInv, LinesIInv, NEW u \in Log!Asked, Log!MayCall(u)
  PROVE  Log!Visible(u) = rows
<1>1. Clear(u)
  BY CallsAlone
<1>2. ASSUME NEW v \in Log!OpenBeside(u) PROVE FALSE
  <2>1. v \in Log!Asked \ {u} /\ Log!Adapter(v) = Log!Adapter(u) /\ unit[v].pc = "open"
    BY <1>2 DEF Log!OpenBeside
  <2>2. Log!Process(v) = Log!Process(u)
    BY <2>1 DEF AdaptersAreOfOneProcess, LogsIInv, Log!Asked, Log!Adapter, Log!Process
  <2> QED BY <1>1, <2>1, <2>2 DEF Clear, Busy
<1> QED BY <1>2 DEF Log!Visible

LEMMA IntervalWithin == \A n \in Nat : \A m \in Nat : 1 .. n \subseteq 1 .. m => n <= m
<1> SUFFICES ASSUME NEW n \in Nat, NEW m \in Nat, 1 .. n \subseteq 1 .. m PROVE n <= m
  OBVIOUS
<1>1. n # 0 => n \in 1 .. n
  OBVIOUS
<1> QED BY <1>1

LEMMA IntervalsJoin ==
  \A n \in Nat : \A m \in Nat : n <= m =>
    /\ (1 .. n) \cup {k \in 1 .. m : k > n} = 1 .. m
    /\ (1 .. n) \cup {k \in 1 .. m : k > n /\ k <= n + 1} = 1 .. (IF n < m THEN n + 1 ELSE n)
OBVIOUS

LEMMA ListGoesOn ==
  ASSUME NEW S, NEW seen, Log!Full(S), "d" \in Names, Handled(S, seen), NEW limit \in {1, Missing}
  PROVE  Handled(S, seen \cup Log!List(S, "d", Log!Last(seen, "d"), limit))
<1>1. PICK n \in Nat : Log!Positions(seen, "d") = 1 .. n
  BY DEF Handled
<1>2. Log!Last(seen, "d") = n
  BY <1>1, LastIs
<1>3. PICK N \in Nat : Log!Positions(S, "d") = 1 .. N
  BY DEF Log!Full
<1> DEFINE T == seen \cup Log!List(S, "d", n, limit)
<1>4. T \subseteq S
  BY DEF Log!List, Handled
<1>5. Log!Positions(T, "d") = (1 .. n) \cup {k \in 1 .. N : k > n /\ (limit = Missing \/ k <= n + limit)}
  <2>1. Log!Positions(T, "d") = Log!Positions(seen, "d") \cup Log!Positions(Log!List(S, "d", n, limit), "d")
    BY DEF Log!Positions
  <2>2. Log!Positions(Log!List(S, "d", n, limit), "d")
          = {k \in Log!Positions(S, "d") : k > n /\ (limit = Missing \/ k <= n + limit)}
    BY DEF Log!Positions, Log!List
  <2> QED BY <1>1, <1>3, <2>1, <2>2
<1> HIDE DEF T
<1>6. n <= N
  <2>1. Log!Positions(seen, "d") \subseteq Log!Positions(S, "d")
    BY DEF Handled, Log!Positions
  <2> QED BY <1>1, <1>3, <2>1, IntervalWithin
<1>7. \E m \in Nat : Log!Positions(T, "d") = 1 .. m
  <2>1. CASE limit = Missing
    <3>1. Log!Positions(T, "d") = (1 .. n) \cup {k \in 1 .. N : k > n}
      BY <1>5, <2>1
    <3>2. Log!Positions(T, "d") = 1 .. N
      BY <1>6, <3>1, IntervalsJoin
    <3> QED BY <3>2
  <2>2. CASE limit # Missing
    <3>0. \A k \in 1 .. N : (limit = Missing \/ k <= n + limit) <=> k <= n + 1
      BY <2>2
    <3>1. Log!Positions(T, "d") = (1 .. n) \cup {k \in 1 .. N : k > n /\ k <= n + 1}
      BY <1>5, <3>0
    <3>2. Log!Positions(T, "d") = 1 .. (IF n < N THEN n + 1 ELSE n)
      BY <1>6, <3>1, IntervalsJoin
    <3> QED BY <3>2
  <2> QED BY <2>1, <2>2
<1> QED BY <1>2, <1>4, <1>7 DEF Handled, T

LEMMA SeenStays ==
  ASSUME LogsWellFormed, LogsIInv, NEW u \in Log!Asked, Log!Step(u), \A limit \in {1, Missing} : ~ Log!ListNext(u, limit)
  PROVE  Only(u) /\ unit'[u].seen = unit[u].seen
<1>1. CASE Log!Call(u) \/ Log!Turn(u) \/ Log!Release(u) \/ Log!Unblock(u)
  BY <1>1, GoIs DEF Log!Call, Log!Turn, Log!Release, Log!Unblock, Fields
<1>2. CASE Log!AppendAlone(u) \/ Log!Begin(u)
  BY <1>2, AppendAloneIs, BlockIs, OpenedIs DEF Log!Begin, Fields
<1>3. CASE Log!Refuse(u) \/ Log!Throw(u) \/ Log!TimeOut(u)
  BY <1>3, FailIs DEF Log!Refuse, Log!Throw, Log!TimeOut, Fields
<1>4. CASE Log!Read(u) \/ Log!Nest(u) \/ Log!Unnest(u) \/ Log!Return(u)
  BY <1>4, ReadIs, NestIs, UnnestIs, ReturnIs DEF Fields
<1>5. CASE Log!Write(u) \/ Log!Mail(u)
  BY <1>5, WriteIs, BlockIs, FailIs DEF Fields, Adds
<1> QED BY <1>1, <1>2, <1>3, <1>4, <1>5 DEF Log!Step

LEMMA StepSeen ==
  ASSUME LogsWellFormed, AdaptersAreOfOneProcess, LogsIInv, LinesIInv, SeenIInv, [Log!Next]_Log!logVars
  PROVE  SeenIInv'
<1>1. rows \subseteq rows'
  BY StepLogs DEF Log!OnlyAppends
<1>2. ASSUME NEW seen, Handled(rows, seen) PROVE Handled(rows', seen)
  BY <1>1, <1>2 DEF Handled
<1>3. CASE UNCHANGED Log!logVars
  BY <1>3 DEF Log!logVars, SeenIInv, Log!Asked
<1>4. ASSUME NEW u \in Log!Asked, Log!Step(u), setup' = setup PROVE SeenIInv'
  <2>1. Log!Asked' = Log!Asked /\ \A v \in Log!Asked : Handled(rows, unit[v].seen)
    BY <1>4, Same DEF SeenIInv
  <2>2. CASE \A limit \in {1, Missing} : ~ Log!ListNext(u, limit)
    <3>1. Only(u) /\ unit'[u].seen = unit[u].seen
      BY <1>4, <2>2, SeenStays
    <3>2. \A v \in Log!Asked : unit'[v].seen = unit[v].seen
      BY <3>1 DEF Only
    <3>3. \A v \in Log!Asked : Handled(rows', unit'[v].seen)
      BY <1>2, <2>1, <3>2
    <3> QED BY <2>1, <3>3 DEF SeenIInv
  <2>3. ASSUME NEW limit \in {1, Missing}, Log!ListNext(u, limit) PROVE SeenIInv'
    <3> DEFINE listed == Log!List(Log!Visible(u), "d", Log!Last(unit[u].seen, "d"), limit)
    <3>1. Only(u) /\ unit'[u].seen = unit[u].seen \cup listed /\ Log!MayCall(u)
      BY <2>3, ListNextIs DEF Fields, Log!ListNext
    <3>2. Log!Visible(u) = rows
      BY <3>1, VisibleIsRows
    <3>3. Log!Full(rows) /\ "d" \in Names
      BY DEF LogsIInv, Good, LogsWellFormed
    <3> DEFINE seen == unit[u].seen
    <3>4. Handled(rows, seen)
      BY <2>1
    <3> HIDE DEF seen
    <3>5. Handled(rows, seen \cup Log!List(rows, "d", Log!Last(seen, "d"), limit))
      BY <2>3, <3>3, <3>4, ListGoesOn
    <3>6. Handled(rows, unit'[u].seen)
      BY <3>1, <3>2, <3>5 DEF seen
    <3>7. \A v \in Log!Asked \ {u} : unit'[v].seen = unit[v].seen
      BY <3>1 DEF Only
    <3>8. \A v \in Log!Asked : Handled(rows', unit'[v].seen)
      BY <1>2, <2>1, <3>6, <3>7
    <3> QED BY <2>1, <3>8 DEF SeenIInv
  <2> QED BY <2>2, <2>3
<1>5. ASSUME NEW p \in Log!Processes, Log!Die(p), setup' = setup PROVE SeenIInv'
  <2>1. \A v \in Log!Asked : unit'[v].seen = unit[v].seen
    BY <1>5, DieIs
  <2>2. \A v \in Log!Asked : Handled(rows', unit'[v].seen)
    BY <1>2, <2>1 DEF SeenIInv
  <2> QED BY <1>5, <2>2, Same DEF SeenIInv
<1> QED BY <1>3, <1>4, <1>5 DEF Log!Next

--------------------
(* Appends. A unit's rows are committed when it ends, and then all it was
   told; until then they are in its view only, and nobody else's are that
   are not committed. Who has told of a row holds the lock. *)

OfIts(u, S) == {r \in S : r.by = u}

Over == {"done", "ended", "died"}

Whole(s, u, S, holder, w) ==
  /\ w.pc \in {"done", "ended"} => OfIts(u, S) = w.told
  /\ w.pc = "died" => OfIts(u, S) \in {{}, w.told}
  /\ w.pc \notin Over => OfIts(u, S) = {} /\ (holder # u => w.told = {})
  /\ s.units[u].kind \in {"tail", "peek"} => w.told = {}
  /\ IsOpen(w) /\ w.view # Missing => OfIts(u, w.view) = w.told /\ w.view \subseteq S \cup OfIts(u, w.view)
  /\ IsOpen(w) /\ w.save # Missing /\ ~ s.memory => w.save \subseteq w.view

WholeIInv == \A u \in Log!Asked : Whole(setup, u, rows, writer, unit[u])

LEMMA InitWhole == LogsWellFormed /\ Log!Init => WholeIInv
<1> SUFFICES ASSUME LogsWellFormed, Log!Init PROVE WholeIInv
  OBVIOUS
<1>1. rows = {} /\ \A u \in Log!Asked : unit[u] = Log!New
  BY DEF Log!Init, LogsWellFormed, Log!Asked
<1>2. Log!New.pc = "idle" /\ Log!New.told = {}
  BY DEF Log!New
<1> QED BY <1>1, <1>2 DEF WholeIInv, Whole, OfIts, Over, IsOpen

(* What a unit does leaves the others' appends as they are. *)
LEMMA OthersWhole ==
  ASSUME LogsWellFormed, LogsIInv, WholeIInv, setup' = setup, NEW u \in Log!Asked, Only(u),
         rows \subseteq rows', \A r \in rows' : r \in rows \/ r.by = u,
         writer' = writer \/ writer \in {u, Missing},
         Whole(setup, u, rows', writer', unit'[u])
  PROVE  WholeIInv'
<1>1. ASSUME NEW v \in Log!Asked, v # u PROVE Whole(setup, v, rows', writer', unit'[v])
  <2>1. unit'[v] = unit[v] /\ v # Missing
    BY <1>1, UnitIs DEF Only
  <2>2. OfIts(v, rows') = OfIts(v, rows)
    BY <1>1 DEF OfIts
  <2>3. writer' # v => writer # v
    BY <1>1, <2>1
  <2>4. Whole(setup, v, rows, writer, unit[v])
    BY DEF WholeIInv
  <2> QED BY <2>1, <2>2, <2>3, <2>4 DEF Whole
<1> QED BY <1>1, Same DEF WholeIInv

LEMMA WholeIs ==
  ASSUME LogsWellFormed, LogsIInv, WholeIInv, NEW u \in Log!Asked
  PROVE  /\ Whole(setup, u, rows, writer, unit[u])
         /\ unit[u].pc # "open" => writer # u
         /\ unit[u].view = Missing => writer # u
         /\ unit[u].pc \notin Over /\ writer # u => unit[u].told = {}
BY UnitIs DEF WholeIInv, Whole, SeesAll

(* Steps that neither commit nor take the lock *)
LEMMA QuietWhole ==
  ASSUME LogsWellFormed, LogsIInv, WholeIInv, setup' = setup, NEW u \in Log!Asked, rows' = rows, writer' = writer,
         NEW pc, Fields(u, pc, unit[u].view, unit[u].save, unit[u].told, unit'[u].seen),
         unit[u].pc # "died", pc # "died",
         pc \in Over => unit[u].pc \in Over \/ writer # u,
         unit[u].pc \in Over => pc \in Over \/ Log!Reads(u),
         IsOpen(unit'[u]) => IsOpen(unit[u])
  PROVE  WholeIInv'
<1>1. /\ Whole(setup, u, rows, writer, unit[u])
      /\ unit[u].pc \notin Over /\ writer # u => unit[u].told = {}
      /\ unit[u].pc # "open" => writer # u
  BY WholeIs
<1>2. Whole(setup, u, rows', writer', unit'[u])
  BY <1>1 DEF Whole, Fields, Over, Log!Reads, Log!Kind
<1> QED BY <1>2, OthersWhole DEF Fields

LEMMA FailWhole ==
  ASSUME LogsWellFormed, LogsIInv, WholeIInv, setup' = setup, NEW u \in Log!Asked, Log!Fail(u), rows' = rows,
         writer' = writer \/ writer \in {u, Missing}, unit[u].pc \notin Over
  PROVE  WholeIInv'
<1>1. Whole(setup, u, rows, writer, unit[u])
  BY WholeIs
<1>2. Fields(u, Log!Finished(u), Missing, Missing, {}, unit[u].seen) /\ Log!Finished(u) \in {"done", "ended"}
  BY FailIs, FinishedIs
<1>3. Whole(setup, u, rows', writer', unit'[u])
  BY <1>1, <1>2 DEF Whole, Fields, Over, IsOpen
<1> QED BY <1>2, <1>3, OthersWhole DEF Fields

LEMMA BlockWhole ==
  ASSUME LogsWellFormed, LogsIInv, WholeIInv, setup' = setup, NEW u \in Log!Asked, Log!Block(u),
         rows' = rows, writer' = writer,
         unit[u].pc \in {"idle", "owning", "open"}
  PROVE  WholeIInv'
<1>1. Fields(u, "blocked", unit[u].view, unit[u].save, unit[u].told, unit'[u].seen) /\ unit'[u].then = unit[u].pc
  BY BlockIs DEF Fields
<1>2. IsOpen(unit'[u]) => IsOpen(unit[u])
  BY <1>1 DEF IsOpen, Fields
<1> QED BY <1>1, <1>2, QuietWhole DEF Over

LEMMA AppendAloneWhole ==
  ASSUME LogsWellFormed, LogsIInv, WholeIInv, setup' = setup, NEW u \in Log!Asked, Log!AppendAlone(u)
  PROVE  WholeIInv'
<1>1. writer' = writer /\ unit[u].pc \in {"idle", "owning"} /\ Log!Kind(u) \in {"append", "direct"}
  BY DEF Log!AppendAlone, Log!MayCall, Log!At
<1>2. CASE Log!Block(u) /\ rows' = rows
  BY <1>1, <1>2, BlockWhole
<1>3. CASE ~ (Log!Block(u) /\ rows' = rows)
  <2> DEFINE row == Log!Row(rows, "d", u, 1)
  <2>1. rows' = rows \cup {row} /\ Fields(u, Log!Finished(u), unit[u].view, unit[u].save, {row}, unit[u].seen)
    BY <1>3, AppendAloneIs
  <2>2. row.by = u
    BY DEF Log!Row
  <2> HIDE DEF row
  <2>3. OfIts(u, rows) = {}
    BY <1>1, WholeIs DEF Whole, Over
  <2>4. OfIts(u, rows') = {row}
    BY <2>1, <2>2, <2>3 DEF OfIts
  <2>5. Whole(setup, u, rows', writer', unit'[u])
    BY <1>1, <2>1, <2>4, FinishedIs DEF Whole, Fields, Over, IsOpen, Log!Kind
  <2> QED BY <1>1, <2>1, <2>2, <2>5, OthersWhole DEF Fields
<1> QED BY <1>2, <1>3

LEMMA QueueWhole ==
  ASSUME LogsWellFormed, LogsIInv, LinesIInv, WholeIInv, setup' = setup, NEW u \in Log!Asked,
         Log!Call(u) \/ Log!Turn(u) \/ Log!Release(u) \/ Log!Unblock(u)
  PROVE  WholeIInv'
<1>1. rows' = rows /\ writer' = writer
  BY DEF Log!Call, Log!Turn, Log!Release, Log!Unblock
<1>2. CASE Log!Call(u) \/ Log!Turn(u)
  <2>1. PICK pc \in {"queued", "owning"} : Log!Go(u, pc) /\ unit[u].pc \in {"idle", "queued"}
    BY <1>2 DEF Log!Call, Log!Turn, Log!At
  <2>2. Fields(u, pc, unit[u].view, unit[u].save, unit[u].told, unit'[u].seen)
    BY <2>1, GoIs DEF Fields
  <2>3. ~ IsOpen(unit'[u])
    BY <2>1, <2>2 DEF IsOpen, Fields
  <2> QED BY <1>1, <2>1, <2>2, <2>3, QuietWhole DEF Over
<1>3. CASE Log!Release(u)
  <2>1. PICK pc : Log!Go(u, pc) /\ unit[u].pc = "done" /\ ((pc = "idle" /\ Log!Reads(u)) \/ pc = "ended")
    BY <1>3 DEF Log!Release, Log!At
  <2>2. Fields(u, pc, unit[u].view, unit[u].save, unit[u].told, unit'[u].seen)
    BY <2>1, GoIs DEF Fields
  <2>3. ~ IsOpen(unit'[u])
    BY <2>1, <2>2 DEF IsOpen, Fields
  <2> QED BY <1>1, <2>1, <2>2, <2>3, QuietWhole DEF Over
<1>4. CASE Log!Unblock(u)
  <2>1. Log!Go(u, unit[u].then) /\ unit[u].pc = "blocked" /\ unit[u].then \in {"idle", "owning", "open"}
    BY <1>4 DEF Log!Unblock, Log!At, LinesIInv, Placed, Resumes
  <2>2. Fields(u, unit[u].then, unit[u].view, unit[u].save, unit[u].told, unit'[u].seen)
    BY <2>1, GoIs DEF Fields
  <2>3. IsOpen(unit'[u]) => IsOpen(unit[u])
    BY <2>1, <2>2 DEF IsOpen, Fields
  <2> QED BY <1>1, <2>1, <2>2, <2>3, QuietWhole DEF Over
<1> QED BY <1>2, <1>3, <1>4

LEMMA ListNextWhole ==
  ASSUME LogsWellFormed, LogsIInv, WholeIInv, setup' = setup, NEW u \in Log!Asked, NEW limit, Log!ListNext(u, limit)
  PROVE  WholeIInv'
<1> DEFINE pc == IF Log!IsSync(u) THEN "idle" ELSE "done"
<1>1. rows' = rows /\ writer' = writer /\ unit[u].pc \in {"idle", "owning"}
  BY DEF Log!ListNext, Log!MayCall, Log!At
<1>2. Fields(u, pc, unit[u].view, unit[u].save, unit[u].told, unit'[u].seen)
  BY ListNextIs DEF Fields
<1>3. pc \in {"idle", "done"}
  OBVIOUS
<1> HIDE DEF pc
<1>4. ~ IsOpen(unit'[u])
  BY <1>2, <1>3 DEF IsOpen, Fields
<1>5. writer # u
  BY <1>1, WholeIs
<1> QED BY <1>1, <1>2, <1>3, <1>4, <1>5, QuietWhole DEF Over

LEMMA BeginWhole ==
  ASSUME LogsWellFormed, LogsIInv, WholeIInv, setup' = setup, NEW u \in Log!Asked, Log!Begin(u)
  PROVE  WholeIInv'
<1>1. rows' = rows /\ unit[u].pc \in {"idle", "owning"} /\ (writer' = writer \/ writer = Missing)
  BY DEF Log!Begin, Log!MayCall, Log!At
<1>2. CASE Log!Block(u) /\ writer' = writer
  BY <1>1, <1>2, BlockWhole
<1>3. CASE ~ (Log!Block(u) /\ writer' = writer)
  <2>1. PICK view \in {Missing, rows} : Log!Opened(u, view)
    BY <1>3 DEF Log!Begin
  <2>2. Fields(u, "open", view, unit[u].save, unit[u].told, unit[u].seen) /\ unit[u].save = Missing
    BY <1>1, <2>1, OpenedIs, Resting
  <2>3. OfIts(u, rows) = {} /\ unit[u].told = {} /\ (Log!Reads(u) => unit[u].told = {})
    BY <1>1, WholeIs DEF Whole, Over
  <2>4. Whole(setup, u, rows', writer', unit'[u])
    BY <1>1, <2>1, <2>2, <2>3 DEF Whole, Fields, Over
  <2> QED BY <1>1, <2>2, <2>4, OthersWhole DEF Fields
<1> QED BY <1>2, <1>3

(* What an open transaction sees is what is committed and what it told. *)
LEMMA ViewIsWhole ==
  ASSUME LogsWellFormed, LogsIInv, WholeIInv, NEW u \in Log!Asked, unit[u].pc = "open"
  PROVE  /\ OfIts(u, rows) = {}
         /\ OfIts(u, Log!View(u)) = unit[u].told /\ Log!View(u) \subseteq rows \cup OfIts(u, Log!View(u))
         /\ unit[u].save # Missing /\ ~ setup.memory => unit[u].save \subseteq Log!View(u)
<1>1. IsOpen(unit[u]) /\ Whole(setup, u, rows, writer, unit[u]) /\ OfIts(u, rows) = {}
  BY WholeIs DEF IsOpen, Whole, Over
<1>2. CASE unit[u].view = Missing
  <2>1. unit[u].save = Missing
    BY <1>2, UnitIs DEF Sound
  <2>2. unit[u].told = {}
    BY <1>2, WholeIs DEF Over
  <2> QED BY <1>1, <1>2, <2>1, <2>2 DEF Log!View
<1>3. CASE unit[u].view # Missing
  BY <1>1, <1>3 DEF Log!View, Whole
<1> QED BY <1>2, <1>3

LEMMA ReadWhole ==
  ASSUME LogsWellFormed, LogsIInv, WholeIInv, setup' = setup, NEW u \in Log!Asked, Log!Read(u) \/ Log!Nest(u)
  PROVE  WholeIInv'
<1>1. rows' = rows /\ writer' = writer
  BY DEF Log!Read, Log!Nest
<1> DEFINE S == Log!View(u)
<1>2. PICK save \in {unit[u].save, Log!Mark(S)} :
         unit[u].pc = "open" /\ Fields(u, "open", S, save, unit[u].told, unit[u].seen)
  BY ReadIs, NestIs
<1>3. /\ OfIts(u, rows) = {} /\ OfIts(u, S) = unit[u].told /\ S \subseteq rows \cup OfIts(u, S)
      /\ unit[u].save # Missing /\ ~ setup.memory => unit[u].save \subseteq S
  BY <1>2, ViewIsWhole
<1>4. ~ setup.memory => Log!Mark(S) = S
  BY DEF Log!Mark
<1> HIDE DEF S
<1>5. Whole(setup, u, rows', writer', unit'[u])
  BY <1>1, <1>2, <1>3, <1>4, WholeIs DEF Whole, Fields, Over
<1> QED BY <1>1, <1>2, <1>5, OthersWhole DEF Fields

LEMMA UnnestWhole ==
  ASSUME LogsWellFormed, LogsIInv, WholeIInv, setup' = setup, NEW u \in Log!Asked, Log!Unnest(u)
  PROVE  WholeIInv'
<1>1. rows' = rows /\ writer' = writer /\ unit[u].pc = "open" /\ unit[u].view # Missing /\ unit[u].save # Missing
  BY InTransaction DEF Log!Unnest, Log!InBody, Log!At
<1>2. Log!View(u) = unit[u].view
  BY <1>1 DEF Log!View
<1>3. /\ OfIts(u, rows) = {} /\ OfIts(u, unit[u].view) = unit[u].told
      /\ unit[u].view \subseteq rows \cup OfIts(u, unit[u].view)
      /\ ~ setup.memory => unit[u].save \subseteq unit[u].view
  BY <1>1, <1>2, ViewIsWhole
<1> DEFINE back == Back(setup, unit[u].view, unit[u].save)
<1>4. back \subseteq unit[u].view
  BY <1>3 DEF Back
<1>5. PICK view \in {unit[u].view, back} :
         \E told \in {unit[u].told, unit[u].told \cap view} :
           /\ Fields(u, "open", view, Missing, told, unit[u].seen)
           /\ (told = unit[u].told /\ view = unit[u].view) \/ told = unit[u].told \cap view
  BY UnnestIs
<1> HIDE DEF back
<1>6. Fields(u, "open", view, Missing, unit[u].told \cap view, unit[u].seen)
  <2>1. unit[u].told \subseteq unit[u].view
    BY <1>3 DEF OfIts
  <2>2. unit[u].told \cap unit[u].view = unit[u].told
    BY <2>1
  <2> QED BY <1>5, <2>2
<1>7. view \subseteq unit[u].view
  BY <1>4, <1>5
<1>8. OfIts(u, view) = unit[u].told \cap view /\ view \subseteq rows \cup OfIts(u, view)
  BY <1>3, <1>7 DEF OfIts
<1>9. Whole(setup, u, rows', writer', unit'[u])
  BY <1>1, <1>3, <1>6, <1>8, WholeIs DEF Whole, Fields, Over
<1> QED BY <1>1, <1>6, <1>9, OthersWhole DEF Fields

LEMMA WriteWhole ==
  ASSUME LogsWellFormed, LogsIInv, WholeIInv, setup' = setup, NEW u \in Log!Asked, Log!Write(u) \/ Log!Mail(u)
  PROVE  WholeIInv'
<1>1. unit[u].pc = "open" /\ rows' = rows /\ Log!Kind(u) \in Bodies
  BY WriteIs, InTransaction DEF Log!Write, Log!Mail
<1>2. CASE (Log!Block(u) \/ (Log!Fail(u) /\ writer # u)) /\ writer' = writer
  BY <1>1, <1>2, BlockWhole, FailWhole DEF Over
<1>3. ASSUME NEW row, row.by = u, Adds(u, row) PROVE WholeIInv'
  <2> DEFINE S == Log!View(u)
  <2>1. /\ OfIts(u, rows) = {} /\ OfIts(u, S) = unit[u].told /\ S \subseteq rows \cup OfIts(u, S)
        /\ unit[u].save # Missing /\ ~ setup.memory => unit[u].save \subseteq S
    BY <1>1, ViewIsWhole
  <2>2. /\ writer \in {u, Missing} /\ writer' = u
        /\ Fields(u, "open", S \cup {row}, unit[u].save, unit[u].told \cup {row}, unit[u].seen)
    BY <1>3 DEF Adds
  <2> HIDE DEF S
  <2>3. OfIts(u, S \cup {row}) = unit[u].told \cup {row} /\ S \cup {row} \subseteq rows \cup OfIts(u, S \cup {row})
    BY <1>3, <2>1 DEF OfIts
  <2>4. Whole(setup, u, rows', writer', unit'[u])
    BY <1>1, <2>1, <2>2, <2>3 DEF Whole, Fields, Over, Bodies, Log!Kind
  <2> QED BY <1>1, <2>2, <2>4, OthersWhole DEF Fields
<1> QED BY <1>2, <1>3, WriteIs

LEMMA ReturnWhole ==
  ASSUME LogsWellFormed, LogsIInv, WholeIInv, setup' = setup, NEW u \in Log!Asked, Log!Return(u)
  PROVE  WholeIInv'
<1>1. /\ rows' = (IF writer = u THEN unit[u].view ELSE rows)
      /\ writer' = (IF writer = u THEN Missing ELSE writer)
  BY DEF Log!Return, Log!LetGo
<1>2. /\ unit[u].pc = "open" /\ Fields(u, Log!Finished(u), Missing, unit[u].save, unit[u].told, unit[u].seen)
      /\ Log!Finished(u) \in {"done", "ended"}
  BY ReturnIs, FinishedIs
<1>3. /\ OfIts(u, rows) = {} /\ OfIts(u, Log!View(u)) = unit[u].told /\ Log!View(u) \subseteq rows \cup OfIts(u, Log!View(u))
      /\ writer # u => unit[u].told = {}
  BY <1>2, ViewIsWhole, WholeIs DEF Over
<1>4. writer = u => Log!View(u) = unit[u].view /\ rows \subseteq unit[u].view
  BY UnitIs DEF SeesAll, Log!View
<1>5. OfIts(u, rows') = unit[u].told /\ rows \subseteq rows' /\ \A r \in rows' : r \in rows \/ r.by = u
  BY <1>1, <1>3, <1>4 DEF OfIts
<1>6. Whole(setup, u, rows', writer', unit'[u])
  BY <1>2, <1>5, WholeIs DEF Whole, Fields, Over, IsOpen
<1> QED BY <1>1, <1>2, <1>5, <1>6, OthersWhole DEF Fields

LEMMA DieWhole ==
  ASSUME LogsWellFormed, LogsIInv, WholeIInv, setup' = setup, NEW p \in Log!Processes, Log!Die(p)
  PROVE  WholeIInv'
<1>1. rows' = rows /\ writer' = IF writer # Missing /\ Log!Process(writer) = p THEN Missing ELSE writer
  BY DEF Log!Die
<1>2. ASSUME NEW u \in Log!Asked PROVE Whole(setup, u, rows', writer', unit'[u])
  <2>1. Whole(setup, u, rows, writer, unit[u]) /\ unit[u].pc \in Log!Pcs
    BY WholeIs, UnitIs DEF Records
  <2>2. CASE Dies(u, p)
    <3>1. unit'[u].pc = "died" /\ unit'[u].told = unit[u].told
      BY <2>2, DieIs
    <3>2. ~ IsOpen(unit'[u])
      BY <3>1 DEF IsOpen
    <3>3. OfIts(u, rows) \in {{}, unit[u].told}
      BY <2>1 DEF Whole, Over
    <3> QED BY <1>1, <2>1, <3>1, <3>2, <3>3 DEF Whole, Over
  <2>3. CASE ~ Dies(u, p)
    <3>1. unit'[u] = unit[u]
      BY <2>3, DieIs
    <3>2. unit[u].pc \notin Over /\ writer' # u => writer # u
      BY <1>1, <2>3 DEF Dies, Over
    <3> QED BY <1>1, <2>1, <3>1, <3>2 DEF Whole
  <2> QED BY <2>2, <2>3
<1> QED BY <1>2, Same DEF WholeIInv

LEMMA StepWhole ==
  ASSUME LogsWellFormed, LogsIInv, LinesIInv, WholeIInv, [Log!Next]_Log!logVars
  PROVE  WholeIInv'
<1>1. CASE UNCHANGED Log!logVars
  <2>1. setup' = setup /\ rows' = rows /\ writer' = writer /\ unit' = unit
    BY <1>1 DEF Log!logVars
  <2> QED BY <2>1, Same DEF WholeIInv
<1>2. ASSUME NEW u \in Log!Asked, Log!Step(u), setup' = setup PROVE WholeIInv'
  <2>1. CASE Log!Refuse(u) \/ Log!Throw(u) \/ Log!TimeOut(u)
    <3>1. Log!Fail(u) /\ rows' = rows /\ (writer' = writer \/ writer \in {u, Missing}) /\ unit[u].pc \notin Over
      BY <2>1 DEF Log!Refuse, Log!Throw, Log!TimeOut, Log!InBody, Log!At, Log!LetGo, Over
    <3> QED BY <1>2, <3>1, FailWhole
  <2>2. CASE ~ (Log!Refuse(u) \/ Log!Throw(u) \/ Log!TimeOut(u))
    BY <1>2, <2>2, QueueWhole, AppendAloneWhole, ListNextWhole, BeginWhole, ReadWhole, UnnestWhole, WriteWhole,
       ReturnWhole DEF Log!Step
  <2> QED BY <2>1, <2>2
<1>3. ASSUME NEW p \in Log!Processes, Log!Die(p), setup' = setup PROVE WholeIInv'
  BY <1>3, DieWhole
<1> QED BY <1>1, <1>2, <1>3 DEF Log!Next

--------------------
(* Theorems on turns, consumers and appends *)

TurnsIInv == LogsIInv /\ LinesIInv /\ SeenIInv /\ WholeIInv

LEMMA LogsInvariant == LogsWellFormed /\ AdaptersAreOfOneProcess => (Log!Spec => []TurnsIInv)
<1> SUFFICES ASSUME LogsWellFormed, AdaptersAreOfOneProcess PROVE Log!Spec => []TurnsIInv
  OBVIOUS
<1>1. Log!Init => TurnsIInv
  BY InitLogs, InitLines, InitSeen, InitWhole DEF TurnsIInv
<1>2. TurnsIInv /\ [Log!Next]_Log!logVars => TurnsIInv'
  BY StepLogs, StepLines, StepSeen, StepWhole DEF TurnsIInv
<1> QED BY <1>1, <1>2, PTL DEF Log!Spec

(* The variables keep their types: whoever holds the lock is in an open
   transaction, and the lines are of units there are. *)
THEOREM LogsTypes == LogsWellFormed /\ AdaptersAreOfOneProcess => (Log!Spec => []Log!TypeOK)
<1> SUFFICES ASSUME LogsWellFormed, AdaptersAreOfOneProcess PROVE Log!Spec => []Log!TypeOK
  OBVIOUS
<1>1. TurnsIInv => Log!TypeOK
  <2> SUFFICES ASSUME TurnsIInv PROVE Log!TypeOK
    OBVIOUS
  <2>1. LogsIInv /\ LinesIInv
    BY DEF TurnsIInv
  <2>2. RowsOf(setup) = Log!Rows
    BY DEF RowsOf, Log!Rows, Log!Asked
  <2>3. Records(setup) = [pc : Log!Pcs, then : Log!Pcs, view : {Missing} \cup SUBSET Log!Rows,
                          save : {Missing} \cup Log!Marks, told : SUBSET Log!Rows, batch : SUBSET Log!Rows,
                          made : Nat, seen : SUBSET Log!Rows]
    BY <2>2 DEF Records, Log!Marks
  <2>4. unit \in [Units -> Records(setup)]
    BY <2>1 DEF LogsIInv, Sound
  <2>5. rows \subseteq Log!Rows
    BY <2>1, <2>2 DEF LogsIInv, Good
  <2>6. writer # Missing => writer \in Log!Asked /\ unit[writer].pc = "open" /\ unit[writer].view # Missing
    BY <2>1 DEF LogsIInv, SeesAll
  <2> QED BY <2>1, <2>3, <2>4, <2>5, <2>6 DEF LinesIInv, Log!TypeOK
<1> QED BY <1>1, LogsInvariant, PTL

(* SQLite never has a process wait for a lock that process holds: the
   holder would be another unit of it in a transaction. *)
THEOREM ProcessesNeverWaitForThemselves ==
  LogsWellFormed /\ AdaptersAreOfOneProcess => (Log!Spec => []Log!NeverWaitsForItself)
<1> SUFFICES ASSUME LogsWellFormed, AdaptersAreOfOneProcess PROVE Log!Spec => []Log!NeverWaitsForItself
  OBVIOUS
<1>1. TurnsIInv => Log!NeverWaitsForItself
  BY DEF TurnsIInv, LogsIInv, SeesAll, LinesIInv, Clear, Busy, Log!NeverWaitsForItself
<1> QED BY <1>1, LogsInvariant, PTL

(* A consumer that goes on after the last record it handled has handled
   the first of what is committed, each once, also where work that may
   still roll back is open in its process. *)
THEOREM ConsumersMissNone ==
  LogsWellFormed /\ AdaptersAreOfOneProcess => (Log!Spec => []Log!ConsumersMissNothing)
<1> SUFFICES ASSUME LogsWellFormed, AdaptersAreOfOneProcess PROVE Log!Spec => []Log!ConsumersMissNothing
  OBVIOUS
<1>1. TurnsIInv => Log!ConsumersMissNothing
  <2> SUFFICES ASSUME TurnsIInv, NEW u \in Log!Asked
               PROVE  unit[u].seen \subseteq rows /\ Log!Positions(unit[u].seen, "d") = 1 .. Log!Last(unit[u].seen, "d")
    BY DEF Log!ConsumersMissNothing
  <2> DEFINE seen == unit[u].seen
  <2>1. seen \subseteq rows /\ \E n \in Nat : Log!Positions(seen, "d") = 1 .. n
    BY DEF TurnsIInv, SeenIInv, Handled
  <2> HIDE DEF seen
  <2>2. Log!Positions(seen, "d") = 1 .. Log!Last(seen, "d")
    BY <2>1, LastIs
  <2> QED BY <2>1, <2>2 DEF seen
<1> QED BY <1>1, LogsInvariant, PTL

(* The rows of a call or transaction that ended are those it told of, all
   of them; one that failed left none; one that died, all or none. *)
THEOREM AppendsAreWholeHolds ==
  LogsWellFormed /\ AdaptersAreOfOneProcess => (Log!Spec => []Log!AppendsAreWhole)
<1> SUFFICES ASSUME LogsWellFormed, AdaptersAreOfOneProcess PROVE Log!Spec => []Log!AppendsAreWhole
  OBVIOUS
<1>1. TurnsIInv => Log!AppendsAreWhole
  BY DEF TurnsIInv, WholeIInv, Whole, OfIts, Log!By, Log!AppendsAreWhole
<1> QED BY <1>1, LogsInvariant, PTL
===============================================================================
