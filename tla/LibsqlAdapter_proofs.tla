------------------------- MODULE LibsqlAdapter_proofs -------------------------
(***************************************************************************)
(* Theorems of LibsqlAdapter, for any clients, adapters, targets, keys and *)
(* requests, for files and servers, and whatever the faults. All rests on  *)
(* five facts: the draft of the transaction that holds the lock counts on  *)
(* from what its client has seen issued (Locked); the entry of a file      *)
(* counts the adapters that are open on it, and they have its mutex        *)
(* (Files); a client under way has its place, once, in the lines of the    *)
(* mutexes it came to, and is the first in those it passed (Lines); what a *)
(* receipt names was handed out (Named); and where no transaction ends but *)
(* by its client, or writers take turns, every number that was handed out  *)
(* is one that the database has counted, or that the floor or the writer   *)
(* under way remembers (Counted).                                          *)
(*                                                                         *)
(* And of SurrealObjects (as Str, at the end of this module), for any      *)
(* processes, calls, sizes and leases. All rests on who is to drop what:   *)
(* what the key points at is whole, its put is past the point, and no call *)
(* has it to drop (Kept, Sound); and while no process died, what is there  *)
(* is pointed at, uploading, or some call is to drop it (Claimed).         *)
(***************************************************************************)
EXTENDS LibsqlAdapter, FiniteSetTheorems, SequenceTheorems, TLAPS

CONSTANT Requests   \* what the clients may ask for

CONSTANTS StreamSetups, StreamCalls, UploadLease, RenewEvery, Size, MaxClock   \* of SurrealObjects

VARIABLES stream, clock, pointer, uploads, generations, chunks, keyLock, reads, pending, call   \* of SurrealObjects

TxRecords ==
  [pc : {"idle", "waiting", "open", "committing", "committed", "ended"}, attempt : Nat, step : Nat \ {0},
   at : Nat \ {0}, minted : Nat,
   result : {"none", "adapter-closed", "busy", "done", "failed", "commit-indeterminate"}]

AdapterRecords == [status : {"new", "open", "closed"}, writers : Mutexes \cup {Missing}, floor : Nat]

Entries == [mutex : Mutexes, adapters : Nat]

(* What is asked of the setups: marks are no values, and operations write
   targets that there are. *)
LibsqlWellFormed ==
  /\ IsFiniteSet(Adapters)
  /\ Missing \notin Clients \cup Entries \cup Mutexes
  /\ \A o \in Requests : o.writes \in Seq(Targets)
  /\ \A s \in Setups : s.of \in [Clients -> Adapters] /\ s.work \in [Clients -> Seq(Requests)]

(* A database is made of its rows, receipts and sequence. *)
IsDatabase(d) ==
  /\ d = [rows |-> d.rows, receipts |-> d.receipts, sequence |-> d.sequence]
  /\ d.receipts = [k \in Keys |-> d.receipts[k]]
  /\ d.sequence \in Nat

Typed ==
  /\ setup \in Setups
  /\ IsDatabase(db) /\ IsDatabase(draft)
  /\ lock \in Clients \cup {Missing}
  /\ line \in [Mutexes -> Seq(Clients)]
  /\ entry \in Entries \cup {Missing}
  /\ adapter \in [Adapters -> AdapterRecords]
  /\ tx \in [Clients -> TxRecords]

(* The transaction that holds the lock counts on from what its client has
   seen issued; what a commit was answered for is in the sequence. *)
Locked ==
  /\ lock = Missing => draft = db
  /\ lock # Missing => /\ tx[lock].pc \in {"open", "committing"}
                       /\ draft.sequence = MaxOf(db.sequence, tx[lock].minted)
  /\ \A c \in Clients : tx[c].pc = "committed" => tx[c].minted <= db.sequence

(* The adapters of one file share the mutex of their entry, which counts
   those that are open; a client is under way with an adapter only. *)
Opened == {a \in Adapters : Usable(a)}

Files ==
  /\ \A a \in Adapters : adapter[a].status # "new" => \E b \in Adapters : adapter[a].writers = <<b, "writers">>
  /\ entry # Missing => \E b \in Adapters : entry.mutex = <<b, "writers">>
  /\ \A c \in Clients : Underway(c) => adapter[Of(c)].status # "new"
  /\ setup.local => IF entry = Missing THEN Opened = {}
                    ELSE /\ entry.adapters = Cardinality(Opened)
                         /\ \A a \in Opened : adapter[a].writers = entry.mutex

--------------------
LEMMA MaxIs ==
  ASSUME NEW m \in Nat, NEW n \in Nat
  PROVE  MaxOf(m, n) = IF m >= n THEN m ELSE n
<1> DEFINE k == IF m >= n THEN m ELSE n
<1>1. k \in {m, n} /\ \A y \in {m, n} : k >= y
  OBVIOUS
<1>2. Max({m, n}) \in {m, n} /\ \A y \in {m, n} : Max({m, n}) >= y
  BY <1>1 DEF Max
<1> QED BY <1>2 DEF MaxOf

LEMMA MaxOfTwo ==
  ASSUME NEW m \in Nat, NEW n \in Nat
  PROVE  MaxOf(m, n) \in Nat /\ MaxOf(m, n) >= m /\ MaxOf(m, n) >= n
BY MaxIs

LEMMA CountingOn ==
  ASSUME NEW d \in Nat, NEW m \in Nat, NEW s \in Nat, NEW k \in Nat, s = MaxOf(d, m)
  PROVE  /\ s >= d /\ s >= m
         /\ MaxOf(m, s + k) = s + k /\ MaxOf(s, s + k) = s + k /\ MaxOf(d, s + k) = s + k
         /\ MaxOf(d, MaxOf(m, s + k)) = s + k
<1>1. s >= d /\ s >= m
  BY MaxOfTwo
<1>2. PICK e \in Nat : e = s + k
  OBVIOUS
<1>3. e >= s /\ e >= d /\ e >= m
  BY <1>1, <1>2
<1>4. MaxOf(m, e) = e /\ MaxOf(s, e) = e /\ MaxOf(d, e) = e
  BY <1>3, MaxIs
<1>5. MaxOf(m, s + k) = s + k /\ MaxOf(s, s + k) = s + k /\ MaxOf(d, s + k) = s + k
  BY <1>2, <1>4
<1> QED BY <1>1, <1>5

LEMMA OperationFits ==
  ASSUME LibsqlWellFormed, Typed, NEW c \in Clients, Working(c)
  PROVE  Operation(c).writes \in Seq(Targets) /\ setup.work[c] # <<>>
<1> DEFINE w == setup.work[c]
<1>1. w \in Seq(Requests)
  BY DEF LibsqlWellFormed, Typed
<1>2. tx[c].at \in 1 .. Len(w) /\ Len(w) \in Nat
  BY <1>1, LenProperties DEF Working, Typed, TxRecords
<1>3. w[tx[c].at] \in Requests /\ w # <<>>
  BY <1>1, <1>2, LenProperties, ElementOfSeq
<1> QED BY <1>3 DEF LibsqlWellFormed, Operation

LEMMA ReleasedType ==
  ASSUME Typed, NEW c \in Clients
  PROVE  Released(c) \in [Mutexes -> Seq(Clients)]
<1> SUFFICES ASSUME NEW m \in Mutexes
             PROVE  (IF line[m] # <<>> /\ Head(line[m]) = c THEN Tail(line[m]) ELSE line[m]) \in Seq(Clients)
  BY DEF Released
<1>1. line[m] \in Seq(Clients)
  BY DEF Typed
<1>2. line[m] # <<>> => Tail(line[m]) \in Seq(Clients)
  BY <1>1, HeadTailProperties
<1> QED BY <1>1, <1>2

LEMMA NeedsType ==
  ASSUME LibsqlWellFormed, Typed, NEW c \in Clients
  PROVE  /\ Of(c) \in Adapters
         /\ Len(Needs(c)) \in 0 .. 2 /\ DOMAIN Needs(c) = 1 .. Len(Needs(c))
         /\ adapter[Of(c)].writers \in Mutexes => \A i \in 1 .. Len(Needs(c)) : Needs(c)[i] \in Mutexes
<1>1. Of(c) \in Adapters
  BY DEF Of, Typed, LibsqlWellFormed
<1>2. <<Of(c), "connection">> \in Mutexes
  BY <1>1 DEF Mutexes
<1>3. Needs(c) \in {<<>>, <<(<<Of(c), "connection">>)>>, <<adapter[Of(c)].writers, (<<Of(c), "connection">>)>>}
  BY DEF Needs
<1>4. CASE Needs(c) = <<>>
  BY <1>1, <1>4
<1>5. CASE Needs(c) = <<(<<Of(c), "connection">>)>>
  BY <1>1, <1>2, <1>5
<1>6. CASE Needs(c) = <<adapter[Of(c)].writers, (<<Of(c), "connection">>)>>
  BY <1>1, <1>2, <1>6
<1> QED BY <1>3, <1>4, <1>5, <1>6

--------------------
(* Types, and the transaction that holds the lock. *)

LEMMA LibsqlInit ==
  ASSUME LibsqlWellFormed, Init
  PROVE  Typed /\ Locked
<1>1. IsDatabase(db) /\ draft = db
  BY DEF Init, IsDatabase
<1>2. line \in [Mutexes -> Seq(Clients)]
  BY DEF Init
<1>3. tx \in [Clients -> TxRecords] /\ adapter \in [Adapters -> AdapterRecords]
  BY DEF Init, TxRecords, AdapterRecords
<1> QED BY <1>1, <1>2, <1>3 DEF Init, Typed, Locked

LEMMA OpenTyped ==
  ASSUME LibsqlWellFormed, Typed, NEW a \in Adapters, Open(a)
  PROVE  Typed'
<1> DEFINE mutex == IF ~setup.local \/ entry = Missing THEN <<a, "writers">> ELSE entry.mutex
<1>1. mutex \in Mutexes
  BY DEF Mutexes, Typed, Entries
<1>2. adapter' = [adapter EXCEPT ![a].status = "open", ![a].writers = mutex]
  BY DEF Open
<1>3. adapter' \in [Adapters -> AdapterRecords]
  BY <1>1, <1>2 DEF Typed, AdapterRecords
<1>4. entry' \in Entries \cup {Missing}
  BY <1>1 DEF Open, Typed, Entries
<1> QED BY <1>3, <1>4 DEF Open, Typed, IsDatabase

(* What the steps of a client make of its record. *)
LEMMA TxStays ==
  ASSUME Typed, NEW c \in Clients, NEW r \in TxRecords, tx' = [tx EXCEPT ![c] = r]
  PROVE  tx' \in [Clients -> TxRecords] /\ tx'[c] = r /\ \A d \in Clients \ {c} : tx'[d] = tx[d]
BY DEF Typed

LEMMA TxEnds ==
  ASSUME Typed, NEW c \in Clients,
         NEW q \in {"adapter-closed", "busy", "done", "failed", "commit-indeterminate"},
         tx' = [tx EXCEPT ![c].pc = "ended", ![c].result = q]
  PROVE  tx' \in [Clients -> TxRecords] /\ tx'[c].pc = "ended" /\ tx'[c].minted = tx[c].minted
         /\ \A d \in Clients \ {c} : tx'[d] = tx[d]
<1>0. tx[c] \in TxRecords
  BY DEF Typed
<1> DEFINE r == [tx[c] EXCEPT !.pc = "ended", !.result = q]
<1>1. r \in TxRecords /\ r.pc = "ended" /\ r.minted = tx[c].minted
  BY <1>0 DEF TxRecords
<1>2. tx' = [tx EXCEPT ![c] = r]
  BY DEF Typed
<1> HIDE DEF r
<1> QED BY <1>1, <1>2, TxStays

LEMMA TxBegins ==
  ASSUME Typed, NEW c \in Clients, NEW n \in Nat,
         tx' = [tx EXCEPT ![c].pc = "waiting", ![c].step = 1, ![c].at = 1, ![c].minted = n]
  PROVE  tx' \in [Clients -> TxRecords]
         /\ tx'[c].pc = "waiting" /\ tx'[c].step = 1 /\ tx'[c].minted = n
         /\ \A d \in Clients \ {c} : tx'[d] = tx[d]
<1>0. tx[c] \in TxRecords
  BY DEF Typed
<1>3. PICK p \in {"waiting"}, i \in Nat \ {0} : p = "waiting" /\ i = 1
  OBVIOUS
<1> DEFINE r == [tx[c] EXCEPT !.pc = p, !.step = i, !.at = i, !.minted = n]
<1>1. r \in TxRecords /\ r.pc = p /\ r.step = i /\ r.minted = n
  BY <1>0 DEF TxRecords
<1>4. tx' = [tx EXCEPT ![c].pc = p, ![c].step = i, ![c].at = i, ![c].minted = n]
  BY <1>3
<1>2. tx' = [tx EXCEPT ![c] = r]
  BY <1>4 DEF Typed
<1> HIDE DEF r
<1> QED BY <1>1, <1>2, <1>3, TxStays

LEMMA TxCounts ==
  ASSUME Typed, NEW c \in Clients, NEW n \in Nat,
         tx' = [tx EXCEPT ![c].at = @ + 1, ![c].minted = n]
  PROVE  tx' \in [Clients -> TxRecords]
         /\ tx'[c].pc = tx[c].pc /\ tx'[c].step = tx[c].step /\ tx'[c].minted = n
         /\ \A d \in Clients \ {c} : tx'[d] = tx[d]
<1>0. tx[c] \in TxRecords
  BY DEF Typed
<1>1. PICK m \in Nat \ {0} : m = tx[c].at + 1
  BY <1>0 DEF TxRecords
<1> DEFINE r == [tx[c] EXCEPT !.at = m, !.minted = n]
<1>2. r \in TxRecords /\ r.pc = tx[c].pc /\ r.step = tx[c].step /\ r.minted = n
  BY <1>0 DEF TxRecords
<1>3. tx' = [tx EXCEPT ![c].at = m, ![c].minted = n]
  BY <1>1
<1>4. tx' = [tx EXCEPT ![c] = r]
  BY <1>3 DEF Typed
<1> HIDE DEF r
<1> QED BY <1>2, <1>4, TxStays

LEMMA TxPasses ==
  ASSUME Typed, NEW c \in Clients, tx' = [tx EXCEPT ![c].at = @ + 1]
  PROVE  tx' \in [Clients -> TxRecords]
         /\ tx'[c].pc = tx[c].pc /\ tx'[c].step = tx[c].step /\ tx'[c].minted = tx[c].minted
         /\ \A d \in Clients \ {c} : tx'[d] = tx[d]
<1>0. tx[c] \in TxRecords
  BY DEF Typed
<1>1. PICK m \in Nat \ {0} : m = tx[c].at + 1
  BY <1>0 DEF TxRecords
<1> DEFINE r == [tx[c] EXCEPT !.at = m]
<1>2. r \in TxRecords /\ r.pc = tx[c].pc /\ r.step = tx[c].step /\ r.minted = tx[c].minted
  BY <1>0 DEF TxRecords
<1>3. tx' = [tx EXCEPT ![c].at = m]
  BY <1>1
<1>4. tx' = [tx EXCEPT ![c] = r]
  BY <1>3 DEF Typed
<1> HIDE DEF r
<1> QED BY <1>2, <1>4, TxStays

LEMMA TxSteps ==
  ASSUME Typed, NEW c \in Clients, tx' = [tx EXCEPT ![c].step = @ + 1]
  PROVE  tx' \in [Clients -> TxRecords]
         /\ tx'[c].pc = tx[c].pc /\ tx'[c].step = tx[c].step + 1 /\ tx'[c].minted = tx[c].minted
         /\ \A d \in Clients \ {c} : tx'[d] = tx[d]
<1>0. tx[c] \in TxRecords
  BY DEF Typed
<1>1. PICK m \in Nat \ {0} : m = tx[c].step + 1
  BY <1>0 DEF TxRecords
<1> DEFINE r == [tx[c] EXCEPT !.step = m]
<1>2. r \in TxRecords /\ r.pc = tx[c].pc /\ r.step = m /\ r.minted = tx[c].minted
  BY <1>0 DEF TxRecords
<1>3. tx' = [tx EXCEPT ![c].step = m]
  BY <1>1
<1>4. tx' = [tx EXCEPT ![c] = r]
  BY <1>3 DEF Typed
<1> HIDE DEF r
<1> QED BY <1>1, <1>2, <1>4, TxStays

LEMMA EndType ==
  ASSUME LibsqlWellFormed, Typed, NEW c \in Clients, NEW f \in Nat,
         NEW r \in {"done", "failed", "commit-indeterminate"}, End(c, r, f)
  PROVE  /\ tx' \in [Clients -> TxRecords] /\ line' \in [Mutexes -> Seq(Clients)]
         /\ adapter' \in [Adapters -> AdapterRecords]
<1>1. PICK g \in Nat, q \in {"done", "failed", "commit-indeterminate"} : g = f /\ q = r
  OBVIOUS
<1>2. tx' = [tx EXCEPT ![c].pc = "ended", ![c].result = q] /\ adapter' = [adapter EXCEPT ![Of(c)].floor = g]
  BY <1>1 DEF End
<1>3. tx' \in [Clients -> TxRecords]
  BY <1>2, TxEnds
<1>4. adapter' \in [Adapters -> AdapterRecords]
  BY <1>2 DEF Typed, AdapterRecords
<1> QED BY <1>3, <1>4, ReleasedType DEF End

LEMMA AppliedIsDatabase ==
  ASSUME Typed, NEW o, o.writes \in Seq(Targets)
  PROVE  IsDatabase(Applied(o)) /\ Applied(o).sequence = draft.sequence + Len(o.writes)
<1>1. Len(o.writes) \in Nat
  BY LenProperties
<1>2. Applied(o).receipts = [k \in Keys |-> Applied(o).receipts[k]]
  BY DEF Applied, Typed, IsDatabase
<1> QED BY <1>1, <1>2 DEF Applied, Typed, IsDatabase

LEMMA Counts ==
  ASSUME LibsqlWellFormed, Typed, Locked, NEW c \in Clients
  PROVE  /\ FloorPassed(c) \in Nat /\ FloorRaised(c) \in Nat
         /\ SequenceKept(c) \in Nat /\ SequenceKept(c) >= db.sequence
         /\ tx[c].minted \in Nat /\ adapter[Of(c)].floor \in Nat /\ Of(c) \in Adapters
<1>1. Of(c) \in Adapters
  BY NeedsType
<1>2. tx[c].minted \in Nat /\ adapter[Of(c)].floor \in Nat /\ db.sequence \in Nat
  BY <1>1 DEF Typed, TxRecords, AdapterRecords, IsDatabase
<1>3. /\ MaxOf(adapter[Of(c)].floor, tx[c].minted) \in Nat /\ MaxOf(db.sequence, tx[c].minted) \in Nat
      /\ MaxOf(db.sequence, tx[c].minted) >= db.sequence
  BY <1>2, MaxOfTwo
<1> QED BY <1>1, <1>2, <1>3 DEF FloorPassed, FloorRaised, SequenceKept

LEMMA StepTyped ==
  ASSUME LibsqlWellFormed, Typed, Locked, NEW c \in Clients,
         Step(c) \/ Undone(c) \/ Rollback(c) \/ Retry(c)
  PROVE  Typed'
<1> USE DEF Typed
<1>1. CASE Begin(c)
  <2>1. tx' \in [Clients -> TxRecords]
    <3>1. PICK n \in Nat : n = adapter[Of(c)].floor
      BY Counts
    <3>2. tx' = [tx EXCEPT ![c].pc = "ended", ![c].result = "adapter-closed"]
          \/ tx' = [tx EXCEPT ![c].pc = "waiting", ![c].step = 1, ![c].at = 1, ![c].minted = n]
      BY <1>1, <3>1 DEF Begin
    <3> QED BY <3>2, TxEnds, TxBegins
  <2>2. line' \in [Mutexes -> Seq(Clients)]
    <3>1. CASE line' = line
      BY <3>1
    <3>2. CASE line' = [line EXCEPT ![Needs(c)[1]] = Append(@, c)]
      <4>1. \A m \in Mutexes : line[m] \in Seq(Clients) /\ Append(line[m], c) \in Seq(Clients)
        BY AppendProperties
      <4> QED BY <3>2, <4>1
    <3> QED BY <1>1, <3>1, <3>2 DEF Begin
  <2> QED BY <1>1, <2>1, <2>2 DEF Begin, IsDatabase
<1>2. CASE TakeNext(c)
  <2>1. \A m \in Mutexes : line[m] \in Seq(Clients) /\ Append(line[m], c) \in Seq(Clients)
    BY AppendProperties
  <2>2. line' \in [Mutexes -> Seq(Clients)]
    BY <1>2, <2>1 DEF TakeNext
  <2>3. tx' \in [Clients -> TxRecords]
    BY <1>2, TxSteps DEF TakeNext
  <2> QED BY <1>2, <2>2, <2>3 DEF TakeNext, IsDatabase
<1>3. CASE Acquire(c)
  <2>1. MaxOf(db.sequence, tx[c].minted) \in Nat
    BY MaxOfTwo, Counts DEF IsDatabase
  <2>2. IsDatabase(draft')
    BY <1>3, <2>1 DEF Acquire, IsDatabase
  <2>3. tx' \in [Clients -> TxRecords]
    BY <1>3 DEF Acquire, TxRecords
  <2> QED BY <1>3, <2>2, <2>3 DEF Acquire, IsDatabase
<1>4. CASE GiveUp(c) \/ ReadAlone(c)
  <2>1. tx' \in [Clients -> TxRecords]
    BY <1>4, TxEnds DEF GiveUp, ReadAlone
  <2> QED BY <1>4, <2>1, ReleasedType DEF GiveUp, ReadAlone, IsDatabase
<1>5. CASE MutateAtomically(c)
  <2>0. IsDatabase(Applied(Operation(c)))
    BY <1>5, OperationFits, AppliedIsDatabase DEF MutateAtomically
  <2>1. IsDatabase(draft)' /\ draft'.sequence \in Nat
    BY <1>5, <2>0 DEF MutateAtomically, IsDatabase
  <2>2. PICK n \in Nat : n = MaxOf(tx[c].minted, draft'.sequence)
    BY <2>1, MaxOfTwo, Counts
  <2>3. tx' = [tx EXCEPT ![c].at = @ + 1] \/ tx' = [tx EXCEPT ![c].at = @ + 1, ![c].minted = n]
    BY <1>5, <2>2 DEF MutateAtomically
  <2>4. tx' \in [Clients -> TxRecords]
    BY <2>3, TxPasses, TxCounts
  <2> QED BY <1>5, <2>1, <2>4 DEF MutateAtomically, IsDatabase
<1>6. CASE Undone(c)
  <2>1. Len(Operation(c).writes) \in Nat
    BY <1>6, OperationFits, LenProperties DEF Undone
  <2>2. SequenceAfterUndo(c, Operation(c)) \in Nat
    <3>1. draft.sequence \in Nat /\ draft.sequence + Len(Operation(c).writes) \in Nat
      BY <2>1 DEF IsDatabase
    <3> QED BY <3>1, MaxOfTwo DEF SequenceAfterUndo
  <2>3. IsDatabase(draft')
    BY <1>6, <2>2 DEF Undone, IsDatabase
  <2>4. PICK n \in Nat : n = MaxOf(tx[c].minted, draft.sequence + Len(Operation(c).writes))
    <3>1. draft.sequence + Len(Operation(c).writes) \in Nat
      BY <2>1 DEF IsDatabase
    <3> QED BY <3>1, MaxOfTwo, Counts
  <2>5. tx' = [tx EXCEPT ![c].at = @ + 1, ![c].minted = n]
    BY <1>6, <2>4 DEF Undone
  <2>6. tx' \in [Clients -> TxRecords]
    BY <2>5, TxCounts
  <2> QED BY <1>6, <2>3, <2>6 DEF Undone, IsDatabase
<1>7. CASE Commit(c)
  <2>1. tx' \in [Clients -> TxRecords]
    BY <1>7 DEF Commit, TxRecords
  <2> QED BY <1>7, <2>1 DEF Commit, IsDatabase
<1>8. CASE Committed(c)
  <2>1. tx' \in [Clients -> TxRecords]
    BY <1>8 DEF Committed, TxRecords
  <2> QED BY <1>8, <2>1 DEF Committed, Leave, IsDatabase
<1>9. CASE Answered(c)
  <2>1. End(c, "done", FloorPassed(c))
    BY <1>9 DEF Answered
  <2>2. tx' \in [Clients -> TxRecords] /\ line' \in [Mutexes -> Seq(Clients)] /\ adapter' \in [Adapters -> AdapterRecords]
    BY <2>1, EndType, Counts
  <2> QED BY <1>9, <2>1, <2>2 DEF Answered, End, IsDatabase
<1>10. CASE Rollback(c)
  <2>1. PICK f \in Nat : End(c, "failed", f)
    BY <1>10, Counts DEF Rollback
  <2>2. tx' \in [Clients -> TxRecords] /\ line' \in [Mutexes -> Seq(Clients)] /\ adapter' \in [Adapters -> AdapterRecords]
    BY <2>1, EndType
  <2>3. IsDatabase(db') /\ draft' = db' /\ lock' = Missing
    BY <1>10, Counts DEF Rollback, Leave, IsDatabase
  <2> QED BY <2>1, <2>2, <2>3 DEF End, IsDatabase
<1>11. CASE Lost(c)
  <2>1. PICK r \in {"done", "failed", "commit-indeterminate"} : End(c, r, FloorRaised(c))
    BY <1>11 DEF Lost
  <2>2. tx' \in [Clients -> TxRecords] /\ line' \in [Mutexes -> Seq(Clients)] /\ adapter' \in [Adapters -> AdapterRecords]
    BY <2>1, EndType, Counts
  <2> QED BY <1>11, <2>1, <2>2 DEF Lost, End, IsDatabase
<1>12. CASE Retry(c)
  <2>1. tx' \in [Clients -> TxRecords]
    BY <1>12 DEF Retry, TxRecords
  <2> QED BY <1>12, <2>1 DEF Retry, IsDatabase
<1> QED BY <1>1, <1>2, <1>3, <1>4, <1>5, <1>6, <1>7, <1>8, <1>9, <1>10, <1>11, <1>12 DEF Step

LEMMA OthersTyped ==
  ASSUME LibsqlWellFormed, Typed, Files, NEW a \in Adapters, Close(a) \/ ServerEndsTransaction
  PROVE  Typed'
<1>1. CASE ServerEndsTransaction
  BY <1>1 DEF ServerEndsTransaction, Leave, Typed, IsDatabase
<1>2. CASE Close(a)
  <2>1. adapter' = [adapter EXCEPT ![a].status = "closed"]
    BY <1>2 DEF Close
  <2>2. adapter' \in [Adapters -> AdapterRecords]
    BY <2>1 DEF Typed, AdapterRecords
  <2>3. entry' \in Entries \cup {Missing}
    <3>1. CASE setup.local
      <4>1. entry # Missing
        BY <1>2, <3>1 DEF Files, Opened, Close, Usable
      <4>2. entry \in Entries /\ entry.adapters = Cardinality(Opened) /\ a \in Opened
        BY <1>2, <3>1, <4>1 DEF Files, Opened, Close, Usable, Typed
      <4>3. IsFiniteSet(Opened) /\ Cardinality(Opened) \in Nat \ {0}
        BY <4>2, FS_EmptySet, FS_Subset, FS_CardinalityType DEF Opened, LibsqlWellFormed
      <4>4. PICK n \in Nat : n = entry.adapters - 1
        BY <4>2, <4>3
      <4>5. [entry EXCEPT !.adapters = n] \in Entries
        BY <4>2 DEF Entries
      <4> QED BY <1>2, <3>1, <4>4, <4>5 DEF Close, Detached
    <3>2. CASE ~setup.local
      BY <1>2, <3>2 DEF Close, Typed
    <3> QED BY <3>1, <3>2
  <2> QED BY <1>2, <2>2, <2>3 DEF Close, Typed, IsDatabase
<1> QED BY <1>1, <1>2

(* The lock. *)
LEMMA StepLocked ==
  ASSUME LibsqlWellFormed, Typed, Locked, NEW c \in Clients,
         Step(c) \/ Undone(c) \/ Rollback(c) \/ Retry(c)
  PROVE  Locked' /\ db'.sequence >= db.sequence
<1>0. db.sequence \in Nat /\ draft.sequence \in Nat /\ \A d \in Clients : tx[d].minted \in Nat
  BY DEF Typed, IsDatabase, TxRecords
<1>1. CASE Begin(c)
  <2>1. tx'[c].pc \in {"waiting", "ended"} /\ \A d \in Clients \ {c} : tx'[d] = tx[d]
    <3>1. PICK n \in Nat : n = adapter[Of(c)].floor
      BY Counts
    <3>2. tx' = [tx EXCEPT ![c].pc = "ended", ![c].result = "adapter-closed"]
          \/ tx' = [tx EXCEPT ![c].pc = "waiting", ![c].step = 1, ![c].at = 1, ![c].minted = n]
      BY <1>1, <3>1 DEF Begin
    <3> QED BY <3>2, TxEnds, TxBegins
  <2>2. tx[c].pc = "idle"
    BY <1>1 DEF Begin
  <2>3. lock # c /\ UNCHANGED <<db, lock, draft>>
    BY <1>1, <2>2 DEF Begin, Locked, LibsqlWellFormed
  <2>4. lock = Missing \/ lock \in Clients \ {c}
    BY <2>3 DEF Typed
  <2>5. tx'[c].pc # "committed" /\ tx'[c].pc # "open" /\ tx'[c].pc # "committing"
    BY <2>1
  <2>6. \A d \in Clients : tx'[d].pc = "committed" => tx'[d] = tx[d]
    BY <2>1, <2>5
  <2>7. lock # Missing => tx'[lock] = tx[lock]
    BY <2>1, <2>4
  <2> QED BY <1>0, <2>3, <2>6, <2>7 DEF Locked
<1>2. CASE TakeNext(c)
  <2>1. tx'[c].pc = tx[c].pc /\ tx'[c].minted = tx[c].minted /\ \A d \in Clients \ {c} : tx'[d] = tx[d]
    BY <1>2 DEF TakeNext, Typed, TxRecords
  <2> QED BY <1>0, <1>2, <2>1 DEF TakeNext, Locked, Typed
<1>3. CASE Acquire(c)
  <2>1. tx'[c].pc = "open" /\ tx'[c].minted = tx[c].minted /\ \A d \in Clients \ {c} : tx'[d] = tx[d]
    BY <1>3 DEF Acquire, Typed, TxRecords
  <2>2. draft'.sequence = MaxOf(db.sequence, tx[c].minted)
    BY <1>3 DEF Acquire, Typed, IsDatabase
  <2> QED BY <1>0, <1>3, <2>1, <2>2 DEF Acquire, Locked, LibsqlWellFormed
<1>4. CASE GiveUp(c) \/ ReadAlone(c)
  <2>1. tx'[c].pc = "ended" /\ tx[c].pc = "waiting" /\ \A d \in Clients \ {c} : tx'[d] = tx[d]
    BY <1>4, TxEnds DEF GiveUp, ReadAlone, Ready
  <2>2. lock # c /\ UNCHANGED <<db, lock, draft>>
    BY <1>4, <2>1 DEF GiveUp, ReadAlone, Locked, LibsqlWellFormed
  <2> QED BY <1>0, <2>1, <2>2 DEF Locked, Typed
<1>5. CASE MutateAtomically(c) \/ Undone(c)
  <2>1. lock = c /\ tx[c].pc = "open" /\ lock' = lock /\ db' = db /\ \A d \in Clients \ {c} : tx'[d] = tx[d]
    BY <1>5 DEF MutateAtomically, Undone, Working, Typed, TxRecords
  <2>2. PICK k \in Nat : k = Len(Operation(c).writes)
    BY <1>5, OperationFits, LenProperties DEF MutateAtomically, Undone
  <2>3. draft.sequence = MaxOf(db.sequence, tx[c].minted)
    BY <2>1 DEF Locked, LibsqlWellFormed
  <2>4. PICK n \in Nat : n = draft.sequence + k
    BY <1>0
  <2>5. n >= draft.sequence /\ MaxOf(tx[c].minted, n) = n /\ MaxOf(draft.sequence, n) = n /\ MaxOf(db.sequence, n) = n
    BY <1>0, <2>3, <2>4, CountingOn
  <2>6. tx'[c].pc = "open" /\ ((draft' = draft /\ tx'[c].minted = tx[c].minted)
                              \/ (draft'.sequence = n /\ tx'[c].minted = n))
    <3>1. CASE MutateAtomically(c) /\ ~Refused(Operation(c))
      <4>1. draft'.sequence = n
        BY <2>2, <2>4, <3>1, OperationFits, AppliedIsDatabase DEF MutateAtomically
      <4>2. tx' = [tx EXCEPT ![c].at = @ + 1, ![c].minted = n]
        BY <2>5, <3>1, <4>1 DEF MutateAtomically
      <4> QED BY <2>1, <4>1, <4>2, TxCounts
    <3>2. CASE MutateAtomically(c) /\ Refused(Operation(c))
      <4>1. tx' = [tx EXCEPT ![c].at = @ + 1] /\ draft' = draft
        BY <3>2 DEF MutateAtomically
      <4>2. tx'[c].pc = tx[c].pc /\ tx'[c].minted = tx[c].minted
        BY <4>1, TxPasses
      <4> QED BY <2>1, <4>1, <4>2
    <3>3. CASE Undone(c)
      <4>1. SequenceAfterUndo(c, Operation(c)) = n
        BY <2>2, <2>4, <2>5 DEF SequenceAfterUndo
      <4>2. draft'.sequence = n
        BY <3>3, <4>1 DEF Undone, Typed, IsDatabase
      <4>3. tx' = [tx EXCEPT ![c].at = @ + 1, ![c].minted = n]
        BY <2>2, <2>4, <2>5, <3>3 DEF Undone
      <4> QED BY <2>1, <4>2, <4>3, TxCounts
    <3> QED BY <1>5, <3>1, <3>2, <3>3
  <2>7. draft'.sequence = MaxOf(db.sequence, tx'[c].minted)
    BY <2>3, <2>5, <2>6
  <2>8. \A d \in Clients : tx'[d].pc = "committed" => tx'[d].minted <= db'.sequence
    BY <2>1, <2>6 DEF Locked
  <2>9. c # Missing
    BY DEF LibsqlWellFormed
  <2> QED BY <1>0, <2>1, <2>6, <2>7, <2>8, <2>9 DEF Locked
<1>6. CASE Commit(c)
  <2>1. tx'[c].pc = "committing" /\ tx'[c].minted = tx[c].minted /\ \A d \in Clients \ {c} : tx'[d] = tx[d]
    BY <1>6 DEF Commit, Typed, TxRecords
  <2> QED BY <1>0, <1>6, <2>1 DEF Commit, Locked, Typed
<1>7. CASE Committed(c)
  <2>1. tx'[c].pc = "committed" /\ tx'[c].minted = tx[c].minted /\ \A d \in Clients \ {c} : tx'[d] = tx[d]
    BY <1>7 DEF Committed, Typed, TxRecords
  <2>2. db' = draft /\ draft' = draft /\ lock' = Missing /\ lock = c
    BY <1>7 DEF Committed, Leave
  <2>3. db'.sequence >= db.sequence /\ tx[c].minted <= db'.sequence
    BY <1>0, <2>2, MaxOfTwo DEF Locked, LibsqlWellFormed
  <2>4. \A d \in Clients : tx[d].pc = "committed" => tx[d].minted <= db'.sequence
    BY <1>0, <2>2, <2>3 DEF Locked
  <2> QED BY <2>1, <2>2, <2>3, <2>4 DEF Locked
<1>8. CASE Answered(c) \/ Lost(c)
  <2>1. tx'[c].pc = "ended" /\ \A d \in Clients \ {c} : tx'[d] = tx[d]
    <3>1. PICK q \in {"done", "failed", "commit-indeterminate"} : tx' = [tx EXCEPT ![c].pc = "ended", ![c].result = q]
      BY <1>8 DEF Answered, Lost, End
    <3> QED BY <3>1, TxEnds
  <2>2. lock # c /\ db' = db /\ draft' = draft /\ lock' = lock
    BY <1>8 DEF Answered, Lost, Locked, LibsqlWellFormed
  <2> QED BY <1>0, <2>1, <2>2 DEF Locked, Typed
<1>9. CASE Rollback(c)
  <2>1. tx'[c].pc = "ended" /\ \A d \in Clients \ {c} : tx'[d] = tx[d]
    <3>1. tx' = [tx EXCEPT ![c].pc = "ended", ![c].result = "failed"]
      BY <1>9 DEF Rollback, End
    <3> QED BY <3>1, TxEnds
  <2>2. db'.sequence = SequenceKept(c) /\ draft' = db' /\ lock' = Missing
    BY <1>9 DEF Rollback, Leave, Typed, IsDatabase
  <2>3. db'.sequence \in Nat /\ db'.sequence >= db.sequence
    BY <2>2, Counts
  <2> QED BY <1>0, <2>1, <2>2, <2>3 DEF Locked
<1>10. CASE Retry(c)
  <2>1. tx'[c].pc = "idle" /\ tx[c].pc = "ended" /\ \A d \in Clients \ {c} : tx'[d] = tx[d]
    BY <1>10 DEF Retry, Typed, TxRecords
  <2> QED BY <1>0, <1>10, <2>1 DEF Retry, Locked, Typed
<1> QED BY <1>1, <1>2, <1>3, <1>4, <1>5, <1>6, <1>7, <1>8, <1>9, <1>10 DEF Step

LEMMA OthersLocked ==
  ASSUME LibsqlWellFormed, Typed, Locked, NEW a \in Adapters, Open(a) \/ Close(a) \/ ServerEndsTransaction
  PROVE  Locked' /\ db'.sequence >= db.sequence
BY DEF Open, Close, ServerEndsTransaction, Leave, Locked, Typed, IsDatabase

--------------------
(* Files and their mutexes. *)

LEMMA FilesInit ==
  ASSUME LibsqlWellFormed, Init
  PROVE  Files
<1>1. \A a \in Adapters : adapter[a].status = "new"
  BY DEF Init
<1>2. \A c \in Clients : ~Underway(c)
  BY DEF Init, Underway
<1>3. Opened = {}
  BY <1>1 DEF Opened, Usable
<1> QED BY <1>1, <1>2, <1>3 DEF Init, Files

(* Steps of the clients leave the files alone; who begins has an adapter. *)
LEMMA StepFiles ==
  ASSUME LibsqlWellFormed, Typed, Files, NEW c \in Clients,
         Step(c) \/ Undone(c) \/ Rollback(c) \/ Retry(c)
  PROVE  Files'
<1>1. setup' = setup /\ entry' = entry /\ \A d \in Clients : Of(d) \in Adapters /\ Of(d)' = Of(d)
  BY NeedsType DEF Step, Begin, TakeNext, Acquire, GiveUp, ReadAlone, MutateAtomically, Undone, Commit,
        Committed, Answered, Rollback, Lost, Retry, End, Of
<1>2. \A a \in Adapters : adapter'[a].status = adapter[a].status /\ adapter'[a].writers = adapter[a].writers
  <2>1. adapter' = adapter \/ \E f : adapter' = [adapter EXCEPT ![Of(c)].floor = f]
    BY DEF Step, Begin, TakeNext, Acquire, GiveUp, ReadAlone, MutateAtomically, Undone, Commit,
        Committed, Answered, Rollback, Lost, Retry, End
  <2> QED BY <1>1, <2>1 DEF Typed, AdapterRecords
<1>3. Opened' = Opened
  BY <1>2 DEF Opened, Usable
<1>4. ASSUME NEW d \in Clients, Underway(d)' PROVE adapter[Of(d)].status # "new"
  <2>1. CASE d # c
    <3>1. tx'[d] = tx[d]
      BY <2>1 DEF Step, Begin, TakeNext, Acquire, GiveUp, ReadAlone, MutateAtomically, Undone, Commit,
        Committed, Answered, Rollback, Lost, Retry, End, Typed
    <3> QED BY <1>4, <3>1 DEF Files, Underway
  <2>2. CASE d = c
    <3>1. Begin(c) \/ Underway(c)
      BY <1>4, <2>2 DEF Step, TakeNext, Acquire, GiveUp, ReadAlone, MutateAtomically, Undone, Commit,
        Committed, Answered, Rollback, Lost, Retry, Ready, Working, Underway, Typed, TxRecords
    <3> QED BY <2>2, <3>1 DEF Begin, Files
  <2> QED BY <2>1, <2>2
<1>5. \A d \in Clients : Underway(d)' => adapter'[Of(d)'].status # "new"
  BY <1>1, <1>2, <1>4
<1>6. \A d \in Adapters : adapter'[d].status # "new" => \E e \in Adapters : adapter'[d].writers = <<e, "writers">>
  BY <1>2 DEF Files
<1>7. \A d \in Opened' : d \in Opened /\ adapter'[d].writers = adapter[d].writers
  BY <1>2, <1>3 DEF Opened
<1> QED BY <1>1, <1>3, <1>5, <1>6, <1>7 DEF Files

LEMMA OpenFiles ==
  ASSUME LibsqlWellFormed, Typed, Files, NEW a \in Adapters, Open(a)
  PROVE  Files' /\ \A d \in Clients : Underway(d) => adapter'[Of(d)] = adapter[Of(d)]
<1> DEFINE mutex == IF ~setup.local \/ entry = Missing THEN <<a, "writers">> ELSE entry.mutex
<1>1. PICK b \in Adapters : mutex = <<b, "writers">>
  BY DEF Files
<1>2. mutex \in Mutexes
  BY <1>1 DEF Mutexes
<1>3. /\ adapter[a].status = "new" /\ adapter'[a].status = "open" /\ adapter'[a].writers = mutex
      /\ \A d \in Adapters \ {a} : adapter'[d] = adapter[d]
  <2>1. PICK m \in Mutexes : m = mutex
    BY <1>2
  <2>2. adapter' = [adapter EXCEPT ![a].status = "open", ![a].writers = m]
    BY <2>1 DEF Open
  <2> HIDE DEF mutex
  <2> QED BY <2>1, <2>2 DEF Open, Typed, AdapterRecords
<1>4. Opened' = Opened \cup {a} /\ a \notin Opened /\ IsFiniteSet(Opened)
  BY <1>3, FS_Subset DEF Opened, Usable, LibsqlWellFormed
<1>5. Cardinality(Opened') = Cardinality(Opened) + 1 /\ Cardinality(Opened) \in Nat
  BY <1>4, FS_AddElement, FS_CardinalityType
<1>6. UNCHANGED <<setup, tx>> /\ \A d \in Clients : Of(d) \in Adapters /\ Of(d)' = Of(d) /\ Underway(d)' = Underway(d)
  BY NeedsType DEF Open, Of, Underway
<1>7. \A d \in Clients : Underway(d) => Of(d) # a /\ adapter'[Of(d)] = adapter[Of(d)]
  BY <1>3, <1>6 DEF Files
<1>8. entry' = IF ~setup.local THEN entry
               ELSE [mutex |-> mutex, adapters |-> IF entry = Missing THEN 1 ELSE entry.adapters + 1]
  BY DEF Open
<1>9. setup.local => entry' # Missing /\ entry'.mutex = mutex
                     /\ entry'.adapters = IF entry = Missing THEN 1 ELSE entry.adapters + 1
  <2>1. setup.local => entry' \in Entries
    BY <1>2, <1>8 DEF Entries, Typed
  <2> QED BY <1>8, <2>1 DEF LibsqlWellFormed
<1>10. setup.local => /\ entry'.adapters = Cardinality(Opened')
                      /\ \A d \in Opened' : adapter'[d].writers = entry'.mutex
  <2>1. CASE entry = Missing
    BY <1>3, <1>4, <1>5, <1>9, <2>1, FS_EmptySet DEF Files
  <2>2. CASE entry # Missing
    BY <1>3, <1>4, <1>5, <1>9, <2>2 DEF Files, Opened
  <2> QED BY <2>1, <2>2
<1>11. \A d \in Adapters : adapter'[d].status # "new" => \E e \in Adapters : adapter'[d].writers = <<e, "writers">>
  BY <1>1, <1>3 DEF Files
<1>12. entry' # Missing => \E e \in Adapters : entry'.mutex = <<e, "writers">>
  BY <1>1, <1>8, <1>9 DEF Files
<1>13. \A d \in Clients : Underway(d)' => adapter'[Of(d)'].status # "new"
  BY <1>6, <1>7 DEF Files
<1>14. setup'.local => IF entry' = Missing THEN Opened' = {}
                       ELSE /\ entry'.adapters = Cardinality(Opened')
                            /\ \A d \in Opened' : adapter'[d].writers = entry'.mutex
  BY <1>6, <1>9, <1>10
<1> QED BY <1>7, <1>11, <1>12, <1>13, <1>14 DEF Files

LEMMA CloseFiles ==
  ASSUME LibsqlWellFormed, Typed, Files, NEW a \in Adapters, Close(a)
  PROVE  Files'
<1>1. /\ adapter[a].status = "open" /\ adapter'[a].status = "closed" /\ adapter'[a].writers = adapter[a].writers
      /\ \A d \in Adapters \ {a} : adapter'[d] = adapter[d]
  BY DEF Close, Typed, AdapterRecords
<1>2. Opened' = Opened \ {a} /\ a \in Opened /\ IsFiniteSet(Opened)
  BY <1>1, FS_Subset DEF Opened, Usable, LibsqlWellFormed
<1>3. Cardinality(Opened') = Cardinality(Opened) - 1 /\ Cardinality(Opened) \in Nat /\ IsFiniteSet(Opened')
  BY <1>2, FS_RemoveElement, FS_CardinalityType
<1>4. UNCHANGED <<setup, tx>> /\ \A d \in Clients : Of(d) \in Adapters /\ Of(d)' = Of(d) /\ Underway(d)' = Underway(d)
  BY NeedsType DEF Close, Of, Underway
<1>5. \A d \in Adapters : adapter'[d].status # "new" => \E e \in Adapters : adapter'[d].writers = <<e, "writers">>
  BY <1>1 DEF Files
<1>6. \A d \in Clients : Underway(d)' => adapter'[Of(d)'].status # "new"
  BY <1>1, <1>4 DEF Files
<1>7. CASE ~setup.local
  BY <1>4, <1>5, <1>6, <1>7 DEF Close, Files
<1>8. CASE setup.local
  <2>1. entry # Missing /\ entry.adapters = Cardinality(Opened) /\ \A d \in Opened : adapter[d].writers = entry.mutex
    BY <1>2, <1>8 DEF Files
  <2>2. CASE entry.adapters = 1
    <3>1. entry' = Missing
      BY <1>8, <2>2 DEF Close, Detached
    <3>2. Opened' = {}
      BY <1>3, <2>1, <2>2, FS_EmptySet
    <3> QED BY <1>4, <1>5, <1>6, <3>1, <3>2 DEF Files
  <2>3. CASE entry.adapters # 1
    <3>1. entry' = [entry EXCEPT !.adapters = entry.adapters - 1]
      BY <1>8, <2>3 DEF Close, Detached
    <3>2. entry \in Entries
      BY <2>1 DEF Typed
    <3>3. PICK n \in Nat : n = entry.adapters - 1
      BY <1>2, <1>3, <2>1, FS_EmptySet
    <3>4. entry' = [entry EXCEPT !.adapters = n]
      BY <3>1, <3>3
    <3>5. entry' \in Entries /\ entry'.mutex = entry.mutex /\ entry'.adapters = n
      BY <3>2, <3>4 DEF Entries
    <3>6. entry' # Missing
      BY <3>5 DEF LibsqlWellFormed
    <3>7. \A d \in Opened' : adapter'[d].writers = entry'.mutex
      BY <1>1, <1>2, <2>1, <3>5 DEF Opened
    <3>8. \E e \in Adapters : entry'.mutex = <<e, "writers">>
      BY <2>1, <3>5 DEF Files
    <3> QED BY <1>3, <1>4, <1>5, <1>6, <2>1, <3>3, <3>5, <3>6, <3>7, <3>8 DEF Files
  <2> QED BY <2>2, <2>3
<1> QED BY <1>7, <1>8

LEMMA ServerFiles ==
  ASSUME Files, ServerEndsTransaction
  PROVE  Files'
BY DEF ServerEndsTransaction, Files, Opened, Usable, Underway, Of

--------------------
(* Who waits for a mutex is under way and has come to it; a place is a
   client's once; and who has gone past a mutex is the first there. *)
Waiting ==
  \A m \in Mutexes : \A i \in DOMAIN line[m] :
    /\ Underway(line[m][i])
    /\ \E k \in 1 .. Len(Needs(line[m][i])) : k <= tx[line[m][i]].step /\ Needs(line[m][i])[k] = m

Once == \A m \in Mutexes : \A i, j \in DOMAIN line[m] : line[m][i] = line[m][j] => i = j

Arrived(c, k) == \E i \in DOMAIN line[Needs(c)[k]] : line[Needs(c)[k]][i] = c

First(c, k) == line[Needs(c)[k]] # <<>> /\ Head(line[Needs(c)[k]]) = c

Turns ==
  \A c \in Clients : Underway(c) =>
    /\ \A k \in 1 .. Len(Needs(c)) : k <= tx[c].step => Arrived(c, k)
    /\ \A k \in 1 .. Len(Needs(c)) : k < tx[c].step => First(c, k)
    /\ tx[c].pc # "waiting" => tx[c].step >= Len(Needs(c)) /\ \A k \in 1 .. Len(Needs(c)) : First(c, k)

Lines == Waiting /\ Once /\ Turns

LEMMA NeedsApart ==
  ASSUME LibsqlWellFormed, Typed, Files, NEW c \in Clients, adapter[Of(c)].status # "new"
  PROVE  /\ Len(Needs(c)) \in 0 .. 2
         /\ \A k \in 1 .. Len(Needs(c)) : Needs(c)[k] \in Mutexes
         /\ \A k, l \in 1 .. Len(Needs(c)) : Needs(c)[k] = Needs(c)[l] => k = l
<1>1. Of(c) \in Adapters
  BY NeedsType
<1>2. PICK b \in Adapters : adapter[Of(c)].writers = <<b, "writers">>
  BY <1>1 DEF Files
<1>3. <<Of(c), "connection">> \in Mutexes /\ <<b, "writers">> \in Mutexes
      /\ <<b, "writers">> # <<Of(c), "connection">>
  BY <1>1 DEF Mutexes
<1>4. Needs(c) \in {<<>>, <<(<<Of(c), "connection">>)>>, <<(<<b, "writers">>), (<<Of(c), "connection">>)>>}
  BY <1>2 DEF Needs
<1> DEFINE m == <<b, "writers">>
           n == <<Of(c), "connection">>
<1>5. m \in Mutexes /\ n \in Mutexes /\ m # n /\ Needs(c) \in {<<>>, <<n>>, <<m, n>>}
  BY <1>3, <1>4
<1> HIDE DEF m, n
<1>6. CASE Needs(c) = <<>>
  BY <1>6
<1>7. CASE Needs(c) = <<n>>
  BY <1>5, <1>7
<1>8. CASE Needs(c) = <<m, n>>
  BY <1>5, <1>8
<1> QED BY <1>5, <1>6, <1>7, <1>8

(* Clients go on where they are; who stops waiting has its turn. *)
LEMMA LinesStay ==
  ASSUME LibsqlWellFormed, Typed, Files, Lines, UNCHANGED line,
         \A d \in Clients : Underway(d)' = Underway(d),
         \A d \in Clients : Underway(d) => Needs(d)' = Needs(d) /\ tx'[d].step = tx[d].step,
         \A d \in Clients : Underway(d) /\ tx'[d].pc # "waiting" => tx[d].pc # "waiting" \/ Ready(d)
  PROVE  Lines'
<1>1. Once'
  BY DEF Lines, Once
<1>2. Waiting'
  <2> SUFFICES ASSUME NEW m \in Mutexes, NEW i \in DOMAIN line[m]
               PROVE  /\ Underway(line[m][i])'
                      /\ \E k \in 1 .. Len(Needs(line[m][i])') : k <= tx'[line[m][i]].step /\ Needs(line[m][i])'[k] = m
    BY DEF Waiting
  <2>1. line[m][i] \in Clients
    BY ElementOfSeq DEF Typed
  <2>2. Underway(line[m][i]) /\ \E k \in 1 .. Len(Needs(line[m][i])) : k <= tx[line[m][i]].step /\ Needs(line[m][i])[k] = m
    BY DEF Lines, Waiting
  <2> QED BY <2>1, <2>2
<1>3. Turns'
  <2> SUFFICES ASSUME NEW d \in Clients, Underway(d)'
               PROVE  /\ \A k \in 1 .. Len(Needs(d)') : k <= tx'[d].step => Arrived(d, k)'
                      /\ \A k \in 1 .. Len(Needs(d)') : k < tx'[d].step => First(d, k)'
                      /\ tx'[d].pc # "waiting" => tx'[d].step >= Len(Needs(d)') /\ \A k \in 1 .. Len(Needs(d)') : First(d, k)'
    BY DEF Turns
  <2>1. Underway(d) /\ Needs(d)' = Needs(d) /\ tx'[d].step = tx[d].step
    OBVIOUS
  <2>2. \A k : (Arrived(d, k)' <=> Arrived(d, k)) /\ (First(d, k)' <=> First(d, k))
    BY <2>1 DEF Arrived, First
  <2>3. /\ \A k \in 1 .. Len(Needs(d)) : k <= tx[d].step => Arrived(d, k)
        /\ \A k \in 1 .. Len(Needs(d)) : k < tx[d].step => First(d, k)
        /\ tx[d].pc # "waiting" => tx[d].step >= Len(Needs(d)) /\ \A k \in 1 .. Len(Needs(d)) : First(d, k)
    BY <2>1 DEF Lines, Turns
  <2>4. CASE tx'[d].pc # "waiting" /\ tx[d].pc = "waiting"
    <3>1. Ready(d)
      BY <2>1, <2>4
    <3>2. Len(Needs(d)) \in Nat /\ tx[d].step \in Nat /\ tx[d].step >= Len(Needs(d))
      BY <3>1, NeedsType DEF Ready, Typed, TxRecords
    <3>3. ASSUME NEW k \in 1 .. Len(Needs(d)) PROVE First(d, k)
      <4>1. CASE k < tx[d].step
        BY <2>3, <4>1
      <4>2. CASE k = tx[d].step
        <5>1. Arrived(d, k) /\ Head(line[Needs(d)[k]]) = d
          BY <2>3, <3>1, <4>2 DEF Ready, HasTurn
        <5>2. line[Needs(d)[k]] # <<>>
          BY <5>1 DEF Arrived
        <5> QED BY <5>1, <5>2 DEF First
      <4> QED BY <3>2, <4>1, <4>2
    <3> QED BY <2>1, <2>2, <2>3, <3>2, <3>3
  <2>5. CASE tx'[d].pc = "waiting" \/ tx[d].pc # "waiting"
    BY <2>1, <2>2, <2>3, <2>5
  <2> QED BY <2>4, <2>5
<1> QED BY <1>1, <1>2, <1>3 DEF Lines

LEMMA WaitingLater ==
  ASSUME \A m \in Mutexes : \A i \in DOMAIN line'[m] : \A e : e = line'[m][i] =>
           Underway(e)' /\ \E k \in 1 .. Len(Needs(e)') : k <= tx'[e].step /\ Needs(e)'[k] = m
  PROVE  Waiting'
BY DEF Waiting, Underway, Needs, Of, Reads

(* A client joins the line of the next mutex it needs. *)
LEMMA LinesJoined ==
  ASSUME LibsqlWellFormed, Typed, Files, Files', Lines, NEW c \in Clients, NEW s \in Nat \ {0},
         \A d \in Clients \ {c} : tx'[d] = tx[d],
         \A d \in Clients : Underway(d)' => Needs(d)' = Needs(d) /\ adapter[Of(d)].status # "new",
         tx'[c].pc = "waiting", tx'[c].step = s,
         \/ s = 1 /\ ~Underway(c)
         \/ s > 1 /\ Underway(c) /\ tx[c].step = s - 1 /\ First(c, s - 1),
         IF s <= Len(Needs(c)) THEN line' = [line EXCEPT ![Needs(c)[s]] = Append(@, c)]
         ELSE line' = line /\ s = 1
  PROVE  Lines'
<1>0. /\ Underway(c)' /\ \A d \in Clients \ {c} : Underway(d)' = Underway(d) /\ tx'[d] = tx[d]
      /\ \A d \in Clients : Underway(d) => Needs(d)' = Needs(d)
      /\ adapter[Of(c)].status # "new" /\ Needs(c)' = Needs(c)
  BY DEF Underway
<1>1. /\ Len(Needs(c)) \in 0 .. 2
      /\ \A k \in 1 .. Len(Needs(c)) : Needs(c)[k] \in Mutexes
      /\ \A k, l \in 1 .. Len(Needs(c)) : Needs(c)[k] = Needs(c)[l] => k = l
  BY <1>0, NeedsApart
<1>2. \A m \in Mutexes : line[m] \in Seq(Clients) /\ Len(line[m]) \in Nat /\ DOMAIN line[m] = 1 .. Len(line[m])
  BY LenProperties DEF Typed
<1>3. \A d \in Clients : Underway(d) => /\ Len(Needs(d)) \in Nat
                                       /\ \A k \in 1 .. Len(Needs(d)) : Needs(d)[k] \in Mutexes
  BY NeedsApart DEF Files
<1>4. ASSUME s > 1, Underway(c), tx[c].step = s - 1, First(c, s - 1), NEW k \in 1 .. Len(Needs(c)), k < s
      PROVE  Arrived(c, k) /\ First(c, k)
  <2>1. k <= tx[c].step /\ (k < tx[c].step \/ k = s - 1)
    BY <1>1, <1>4
  <2> QED BY <1>4, <2>1 DEF Lines, Turns
<1>5. CASE s > Len(Needs(c))
  <2>1. s = 1 /\ line' = line /\ Len(Needs(c)) = 0 /\ ~Underway(c)
    BY <1>1, <1>5
  <2>2. Waiting'
    <3> SUFFICES ASSUME NEW m \in Mutexes, NEW i \in DOMAIN line[m], NEW e, e = line[m][i]
                 PROVE  Underway(e)' /\ \E k \in 1 .. Len(Needs(e)') : k <= tx'[e].step /\ Needs(e)'[k] = m
      BY <2>1 DEF Waiting, Underway, Needs, Of, Reads
    <3>1. e \in Clients
      BY <1>2, ElementOfSeq
    <3>2. Underway(e) /\ \E k \in 1 .. Len(Needs(e)) : k <= tx[e].step /\ Needs(e)[k] = m
      BY DEF Lines, Waiting
    <3>3. e # c
      BY <2>1, <3>2
    <3> QED BY <1>0, <3>1, <3>2, <3>3
  <2>3. Once'
    BY <2>1 DEF Lines, Once
  <2>4. \A d \in Clients : Underway(d) => \A k : (Arrived(d, k)' <=> Arrived(d, k)) /\ (First(d, k)' <=> First(d, k))
    BY <1>0, <2>1 DEF Arrived, First
  <2>5. Turns'
    <3> SUFFICES ASSUME NEW d \in Clients, Underway(d)'
                 PROVE  /\ \A k \in 1 .. Len(Needs(d)') : k <= tx'[d].step => Arrived(d, k)'
                        /\ \A k \in 1 .. Len(Needs(d)') : k < tx'[d].step => First(d, k)'
                        /\ tx'[d].pc # "waiting" => tx'[d].step >= Len(Needs(d)') /\ \A k \in 1 .. Len(Needs(d)') : First(d, k)'
      BY DEF Turns
    <3>1. CASE d = c
      BY <1>0, <2>1, <3>1
    <3>2. CASE d # c
      <4>1. Underway(d) /\ tx'[d] = tx[d] /\ Needs(d)' = Needs(d)
        BY <1>0, <3>2
      <4> QED BY <2>4, <4>1 DEF Lines, Turns
    <3> QED BY <3>1, <3>2
  <2> QED BY <2>2, <2>3, <2>5 DEF Lines
<1>6. CASE s <= Len(Needs(c))
  <2> DEFINE n == Needs(c)[s]
             l == line[n]
  <2>1. s \in 1 .. Len(Needs(c)) /\ n \in Mutexes
    BY <1>1, <1>6
  <2>2. line' = [line EXCEPT ![n] = Append(@, c)]
    BY <1>6
  <2> HIDE DEF n
  <2>3. l \in Seq(Clients) /\ Len(l) \in Nat /\ DOMAIN l = 1 .. Len(l)
    BY <1>2, <2>1
  <2>4. /\ \A m \in Mutexes \ {n} : line'[m] = line[m]
        /\ line'[n] = Append(l, c)
    BY <2>1, <2>2 DEF Typed
  <2>5. /\ line'[n] \in Seq(Clients) /\ Len(line'[n]) = Len(l) + 1 /\ DOMAIN line'[n] = 1 .. (Len(l) + 1)
        /\ \A i \in 1 .. Len(l) : line'[n][i] = l[i]
        /\ line'[n][Len(l) + 1] = c
    BY <2>3, <2>4, AppendProperties, LenProperties
  <2>6. \A i \in 1 .. Len(l) : l[i] # c
    <3> SUFFICES ASSUME NEW i \in 1 .. Len(l), l[i] = c PROVE FALSE
      OBVIOUS
    <3>1. Underway(c) /\ \E k \in 1 .. Len(Needs(c)) : k <= tx[c].step /\ Needs(c)[k] = n
      BY <2>1, <2>3 DEF Lines, Waiting
    <3>2. PICK k \in 1 .. Len(Needs(c)) : k <= tx[c].step /\ Needs(c)[k] = n
      BY <3>1
    <3>3. k = s
      BY <1>1, <2>1, <3>2 DEF n
    <3>4. tx[c].step = s - 1
      BY <3>1
    <3> QED BY <3>2, <3>3, <3>4
  <2>7. \A m \in Mutexes : \A i \in DOMAIN line'[m] :
          (i \in DOMAIN line[m] /\ line'[m][i] = line[m][i]) \/ (m = n /\ i = Len(l) + 1 /\ line'[m][i] = c)
    <3> SUFFICES ASSUME NEW m \in Mutexes, NEW i \in DOMAIN line'[m]
                 PROVE  (i \in DOMAIN line[m] /\ line'[m][i] = line[m][i]) \/ (m = n /\ i = Len(l) + 1 /\ line'[m][i] = c)
      OBVIOUS
    <3>1. CASE m # n
      BY <2>4, <3>1
    <3>2. CASE m = n
      <4>1. i \in 1 .. Len(l) \/ i = Len(l) + 1
        BY <2>3, <2>5, <3>2
      <4> QED BY <2>3, <2>5, <3>2, <4>1
    <3> QED BY <3>1, <3>2
  <2>8. Waiting'
    <3> SUFFICES ASSUME NEW m \in Mutexes, NEW i \in DOMAIN line'[m], NEW e, e = line'[m][i]
                 PROVE  Underway(e)' /\ \E k \in 1 .. Len(Needs(e)') : k <= tx'[e].step /\ Needs(e)'[k] = m
      BY WaitingLater
    <3>1. CASE m = n /\ e = c
      <4>1. Needs(c)[s] = m
        BY <3>1 DEF n
      <4>2. Underway(c)' /\ s \in 1 .. Len(Needs(c)') /\ s <= tx'[c].step /\ Needs(c)'[s] = m
        BY <1>0, <2>1, <4>1
      <4> QED BY <3>1, <4>2
    <3>2. CASE i \in DOMAIN line[m] /\ e = line[m][i]
      <4>1. e \in Clients
        BY <1>2, <3>2, ElementOfSeq
      <4>2. Underway(e) /\ \E k \in 1 .. Len(Needs(e)) : k <= tx[e].step /\ Needs(e)[k] = m
        BY <3>2 DEF Lines, Waiting
      <4>3. tx'[e].step >= tx[e].step /\ tx'[e].step \in Nat /\ tx[e].step \in Nat
        <5>1. CASE e = c
          BY <4>2, <5>1 DEF Typed, TxRecords
        <5>2. CASE e # c
          <6>1. tx'[e] = tx[e]
            BY <1>0, <4>1, <5>2
          <6>2. tx[e].step \in Nat
            BY <4>1 DEF Typed, TxRecords
          <6> QED BY <6>1, <6>2
        <5> QED BY <5>1, <5>2
      <4>4. Needs(e)' = Needs(e) /\ Underway(e)' /\ Len(Needs(e)) \in Nat
        BY <1>0, <1>3, <4>1, <4>2
      <4>5. PICK k \in 1 .. Len(Needs(e)) : k <= tx[e].step /\ Needs(e)[k] = m
        BY <4>2
      <4>6. k <= tx'[e].step
        BY <4>3, <4>4, <4>5
      <4> QED BY <4>4, <4>5, <4>6
    <3> QED BY <2>7, <3>1, <3>2
  <2>9. Once'
    <3> SUFFICES ASSUME NEW m \in Mutexes, NEW i \in DOMAIN line'[m], NEW j \in DOMAIN line'[m], line'[m][i] = line'[m][j]
                 PROVE  i = j
      BY DEF Once
    <3>1. CASE m # n
      BY <2>4, <3>1 DEF Lines, Once
    <3>2. CASE m = n
      <4>1. i \in 1 .. (Len(l) + 1) /\ j \in 1 .. (Len(l) + 1)
        BY <2>5, <3>2
      <4>2. CASE i \in 1 .. Len(l) /\ j \in 1 .. Len(l)
        BY <2>1, <2>3, <2>5, <3>2, <4>2 DEF Lines, Once
      <4>3. CASE i = Len(l) + 1 \/ j = Len(l) + 1
        <5>1. i \in 1 .. Len(l) => line'[m][i] # c
          BY <2>5, <2>6, <3>2
        <5>2. j \in 1 .. Len(l) => line'[m][j] # c
          BY <2>5, <2>6, <3>2
        <5>3. line'[m][Len(l) + 1] = c
          BY <2>5, <3>2
        <5>4. (i \in 1 .. Len(l) \/ i = Len(l) + 1) /\ (j \in 1 .. Len(l) \/ j = Len(l) + 1)
          BY <2>3, <4>1
        <5> QED BY <4>3, <5>1, <5>2, <5>3, <5>4
      <4> QED BY <2>3, <4>1, <4>2, <4>3
    <3> QED BY <3>1, <3>2
  <2>10. ASSUME NEW d \in Clients, Underway(d), NEW k \in 1 .. Len(Needs(d))
         PROVE  (Arrived(d, k) => Arrived(d, k)') /\ (First(d, k) => First(d, k)')
    <3> DEFINE m == Needs(d)[k]
    <3>1. m \in Mutexes /\ Needs(d)' = Needs(d)
      BY <1>0, <1>3, <2>10
    <3>2. Arrived(d, k)' <=> \E i \in DOMAIN line'[m] : line'[m][i] = d
      BY <3>1 DEF Arrived
    <3>3. First(d, k)' <=> line'[m] # <<>> /\ Head(line'[m]) = d
      BY <3>1 DEF First
    <3>4. Arrived(d, k) <=> \E i \in DOMAIN line[m] : line[m][i] = d
      BY DEF Arrived
    <3>5. First(d, k) <=> line[m] # <<>> /\ Head(line[m]) = d
      BY DEF First
    <3> HIDE DEF m
    <3>6. CASE m # n
      BY <2>4, <3>1, <3>2, <3>3, <3>4, <3>5, <3>6
    <3>7. CASE m = n
      <4>1. Arrived(d, k) => Arrived(d, k)'
        <5> SUFFICES ASSUME NEW i \in DOMAIN l, l[i] = d PROVE Arrived(d, k)'
          BY <3>4, <3>7
        <5>1. i \in DOMAIN line'[n] /\ line'[n][i] = d
          BY <2>3, <2>5
        <5> QED BY <3>2, <3>7, <5>1
      <4>2. l # <<>> => line'[n] # <<>> /\ Head(line'[n]) = Head(l)
        <5> SUFFICES ASSUME l # <<>> PROVE line'[n] # <<>> /\ Head(line'[n]) = Head(l)
          OBVIOUS
        <5>1. 1 \in 1 .. Len(l)
          BY <2>3, EmptySeq, LenProperties
        <5>2. line'[n] # <<>> /\ Head(line'[n]) = line'[n][1] /\ Head(l) = l[1]
          BY <2>3, <2>5, <5>1, EmptySeq, LenProperties, HeadTailProperties
        <5> QED BY <2>5, <5>1, <5>2
      <4> QED BY <3>3, <3>5, <3>7, <4>1, <4>2
    <3> QED BY <3>6, <3>7
  <2>11. Turns'
    <3> SUFFICES ASSUME NEW d \in Clients, Underway(d)'
                 PROVE  /\ \A k \in 1 .. Len(Needs(d)') : k <= tx'[d].step => Arrived(d, k)'
                        /\ \A k \in 1 .. Len(Needs(d)') : k < tx'[d].step => First(d, k)'
                        /\ tx'[d].pc # "waiting" => tx'[d].step >= Len(Needs(d)') /\ \A k \in 1 .. Len(Needs(d)') : First(d, k)'
      BY DEF Turns
    <3>1. CASE d # c
      <4>1. Underway(d) /\ tx'[d] = tx[d] /\ Needs(d)' = Needs(d)
        BY <1>0, <3>1
      <4> QED BY <2>10, <4>1 DEF Lines, Turns
    <3>2. CASE d = c
      <4>1. \A k \in 1 .. Len(Needs(c)) : k < s => Arrived(c, k)' /\ First(c, k)'
        <5> SUFFICES ASSUME NEW k \in 1 .. Len(Needs(c)), k < s PROVE Arrived(c, k)' /\ First(c, k)'
          OBVIOUS
        <5>1. s > 1
          BY <1>1
        <5>2. Underway(c) /\ tx[c].step = s - 1 /\ First(c, s - 1)
          BY <5>1
        <5>3. Arrived(c, k) /\ First(c, k)
          BY <1>4, <5>1, <5>2
        <5> QED BY <2>10, <5>2, <5>3
      <4>2. Arrived(c, s)'
        BY <1>0, <2>3, <2>5 DEF Arrived, n
      <4>3. \A k \in 1 .. Len(Needs(c)) : k <= s => k < s \/ k = s
        BY <1>1
      <4> QED BY <1>0, <3>2, <4>1, <4>2, <4>3
    <3> QED BY <3>1, <3>2
  <2> QED BY <2>8, <2>9, <2>11 DEF Lines
<1> QED BY <1>1, <1>5, <1>6

(* A client gives back all that it holds. *)
LEMMA LinesLeft ==
  ASSUME LibsqlWellFormed, Typed, Files, Lines, NEW c \in Clients,
         \A d \in Clients \ {c} : tx'[d] = tx[d],
         \A d \in Clients : Underway(d) => Needs(d)' = Needs(d),
         ~Underway(c)', Underway(c), tx[c].pc # "waiting" \/ Ready(c),
         line' = Released(c)
  PROVE  Lines'
<1>0. /\ \A d \in Clients \ {c} : Underway(d)' = Underway(d) /\ tx'[d] = tx[d]
      /\ \A d \in Clients : Underway(d) => /\ Len(Needs(d)) \in Nat
                                          /\ \A k \in 1 .. Len(Needs(d)) : Needs(d)[k] \in Mutexes
  BY NeedsApart DEF Underway, Files
<1>1. \A m \in Mutexes : line[m] \in Seq(Clients) /\ Len(line[m]) \in Nat /\ DOMAIN line[m] = 1 .. Len(line[m])
  BY LenProperties DEF Typed
<1>2. \A k \in 1 .. Len(Needs(c)) : First(c, k)
  <2>1. CASE tx[c].pc # "waiting"
    BY <2>1 DEF Lines, Turns
  <2>2. CASE Ready(c)
    <3> SUFFICES ASSUME NEW k \in 1 .. Len(Needs(c)) PROVE First(c, k)
      OBVIOUS
    <3>1. Len(Needs(c)) \in Nat /\ tx[c].step \in Nat /\ tx[c].step >= Len(Needs(c))
      BY <1>0, <2>2 DEF Ready, Typed, TxRecords
    <3>2. CASE k < tx[c].step
      BY <3>2 DEF Lines, Turns
    <3>3. CASE k = tx[c].step
      <4>1. Arrived(c, k) /\ Head(line[Needs(c)[k]]) = c
        BY <2>2, <3>1, <3>3 DEF Ready, HasTurn, Lines, Turns
      <4>2. line[Needs(c)[k]] # <<>>
        BY <4>1 DEF Arrived
      <4> QED BY <4>1, <4>2 DEF First
    <3> QED BY <3>1, <3>2, <3>3
  <2> QED BY <2>1, <2>2
<1> DEFINE Gone(m) == line[m] # <<>> /\ Head(line[m]) = c
<1>3. \A m \in Mutexes : line'[m] = IF Gone(m) THEN Tail(line[m]) ELSE line[m]
  BY DEF Released
<1>4. \A m \in Mutexes : Gone(m) =>
        /\ line[m][1] = c /\ Len(line[m]) > 0
        /\ DOMAIN line'[m] = 1 .. (Len(line[m]) - 1)
        /\ \A i \in 1 .. (Len(line[m]) - 1) : line'[m][i] = line[m][i + 1]
  <2> SUFFICES ASSUME NEW m \in Mutexes, Gone(m)
               PROVE  /\ line[m][1] = c /\ Len(line[m]) > 0
                      /\ DOMAIN line'[m] = 1 .. (Len(line[m]) - 1)
                      /\ \A i \in 1 .. (Len(line[m]) - 1) : line'[m][i] = line[m][i + 1]
    OBVIOUS
  <2> DEFINE l == line[m]
  <2>1. l \in Seq(Clients) /\ l # <<>> /\ Head(l) = c /\ line'[m] = Tail(l)
    BY <1>1, <1>3
  <2> HIDE DEF l
  <2>2. l[1] = c /\ Len(l) > 0 /\ DOMAIN Tail(l) = 1 .. (Len(l) - 1)
        /\ \A i \in 1 .. (Len(l) - 1) : Tail(l)[i] = l[i + 1]
    BY <2>1, HeadTailProperties, EmptySeq, LenProperties
  <2> QED BY <2>1, <2>2 DEF l
<1>5. \A m \in Mutexes : \A i \in DOMAIN line'[m] :
        /\ line'[m][i] # c
        /\ \E j \in DOMAIN line[m] : line'[m][i] = line[m][j] /\ j = IF Gone(m) THEN i + 1 ELSE i
  <2> SUFFICES ASSUME NEW m \in Mutexes, NEW i \in DOMAIN line'[m]
               PROVE  /\ line'[m][i] # c
                      /\ \E j \in DOMAIN line[m] : line'[m][i] = line[m][j] /\ j = IF Gone(m) THEN i + 1 ELSE i
    OBVIOUS
  <2>1. CASE Gone(m)
    <3>1. i \in 1 .. (Len(line[m]) - 1) /\ line'[m][i] = line[m][i + 1] /\ line[m][1] = c /\ Len(line[m]) > 0
      BY <1>4, <2>1
    <3>2. i + 1 \in DOMAIN line[m] /\ 1 \in DOMAIN line[m] /\ i + 1 # 1
      BY <1>1, <3>1
    <3>3. line[m][i + 1] # c
      BY <3>1, <3>2 DEF Lines, Once
    <3> QED BY <2>1, <3>1, <3>2, <3>3
  <2>2. CASE ~Gone(m)
    <3>1. line'[m] = line[m]
      BY <1>3, <2>2
    <3>2. line[m][i] # c
      <4> SUFFICES ASSUME line[m][i] = c PROVE FALSE
        OBVIOUS
      <4>1. PICK k \in 1 .. Len(Needs(c)) : Needs(c)[k] = m
        BY <3>1 DEF Lines, Waiting
      <4> QED BY <1>2, <2>2, <4>1 DEF First
    <3> QED BY <2>2, <3>1, <3>2
  <2> QED BY <2>1, <2>2
<1>6. Waiting'
  <2> SUFFICES ASSUME NEW m \in Mutexes, NEW i \in DOMAIN line'[m], NEW e, e = line'[m][i]
               PROVE  Underway(e)' /\ \E k \in 1 .. Len(Needs(e)') : k <= tx'[e].step /\ Needs(e)'[k] = m
    BY WaitingLater
  <2>1. PICK j \in DOMAIN line[m] : e = line[m][j] /\ e # c
    BY <1>5
  <2>2. e \in Clients
    BY <1>1, <2>1, ElementOfSeq
  <2>3. Underway(e) /\ \E k \in 1 .. Len(Needs(e)) : k <= tx[e].step /\ Needs(e)[k] = m
    BY <2>1 DEF Lines, Waiting
  <2> QED BY <1>0, <2>1, <2>2, <2>3
<1>7. Once'
  <2> SUFFICES ASSUME NEW m \in Mutexes, NEW i \in DOMAIN line'[m], NEW j \in DOMAIN line'[m], line'[m][i] = line'[m][j]
               PROVE  i = j
    BY DEF Once
  <2>1. PICK p \in DOMAIN line[m] : line'[m][i] = line[m][p] /\ p = IF Gone(m) THEN i + 1 ELSE i
    BY <1>5
  <2>2. PICK q \in DOMAIN line[m] : line'[m][j] = line[m][q] /\ q = IF Gone(m) THEN j + 1 ELSE j
    BY <1>5
  <2>3. p = q
    BY <2>1, <2>2 DEF Lines, Once
  <2>4. i \in Nat /\ j \in Nat
    <3>1. DOMAIN line'[m] \subseteq Nat
      BY <1>1, <1>3, <1>4
    <3> QED BY <3>1
  <2> HIDE DEF Gone
  <2> QED BY <2>1, <2>2, <2>3, <2>4
<1>8. ASSUME NEW d \in Clients \ {c}, Underway(d), NEW k \in 1 .. Len(Needs(d))
      PROVE  (Arrived(d, k) => Arrived(d, k)') /\ (First(d, k) => First(d, k)')
  <2> DEFINE m == Needs(d)[k]
  <2>1. m \in Mutexes /\ Needs(d)' = Needs(d)
    BY <1>0, <1>8
  <2>2. Arrived(d, k)' <=> \E i \in DOMAIN line'[m] : line'[m][i] = d
    BY <2>1 DEF Arrived
  <2>3. First(d, k)' <=> line'[m] # <<>> /\ Head(line'[m]) = d
    BY <2>1 DEF First
  <2>4. Arrived(d, k) <=> \E i \in DOMAIN line[m] : line[m][i] = d
    BY DEF Arrived
  <2>5. First(d, k) <=> line[m] # <<>> /\ Head(line[m]) = d
    BY DEF First
  <2> HIDE DEF m
  <2>6. CASE ~Gone(m)
    <3>1. line'[m] = line[m]
      BY <1>3, <2>1, <2>6
    <3> QED BY <2>2, <2>3, <2>4, <2>5, <3>1
  <2>7. CASE Gone(m)
    <3>1. ~First(d, k)
      BY <2>5, <2>7
    <3>2. ASSUME NEW i \in DOMAIN line[m], line[m][i] = d PROVE Arrived(d, k)'
      <4>1. line[m][1] = c /\ DOMAIN line'[m] = 1 .. (Len(line[m]) - 1)
            /\ \A j \in 1 .. (Len(line[m]) - 1) : line'[m][j] = line[m][j + 1]
        BY <1>4, <2>1, <2>7
      <4>2. i \in 1 .. Len(line[m]) /\ i # 1 /\ Len(line[m]) \in Nat
        BY <1>1, <2>1, <3>2, <4>1
      <4>3. PICK j \in 1 .. (Len(line[m]) - 1) : j + 1 = i
        <5>1. i - 1 \in 1 .. (Len(line[m]) - 1) /\ (i - 1) + 1 = i
          BY <4>2
        <5> QED BY <5>1
      <4> QED BY <2>2, <3>2, <4>1, <4>3
    <3> QED BY <2>4, <3>1, <3>2
  <2> QED BY <2>6, <2>7
<1>9. Turns'
  <2> SUFFICES ASSUME NEW d \in Clients, Underway(d)'
               PROVE  /\ \A k \in 1 .. Len(Needs(d)') : k <= tx'[d].step => Arrived(d, k)'
                      /\ \A k \in 1 .. Len(Needs(d)') : k < tx'[d].step => First(d, k)'
                      /\ tx'[d].pc # "waiting" => tx'[d].step >= Len(Needs(d)') /\ \A k \in 1 .. Len(Needs(d)') : First(d, k)'
    BY DEF Turns
  <2>1. d # c /\ Underway(d) /\ tx'[d] = tx[d] /\ Needs(d)' = Needs(d)
    BY <1>0
  <2> QED BY <1>8, <2>1 DEF Lines, Turns
<1> QED BY <1>6, <1>7, <1>9 DEF Lines

(* What a step of a client leaves alone. *)
LEMMA StepKeeps ==
  ASSUME LibsqlWellFormed, Typed, NEW c \in Clients,
         Step(c) \/ Undone(c) \/ Rollback(c) \/ Retry(c)
  PROVE  /\ setup' = setup
         /\ \A d \in Clients : Of(d) \in Adapters /\ Of(d)' = Of(d) /\ Needs(d)' = Needs(d) /\ Reads(d)' = Reads(d)
         /\ \A d \in Clients \ {c} : tx'[d] = tx[d]
         /\ \A a \in Adapters : adapter'[a].status = adapter[a].status /\ adapter'[a].writers = adapter[a].writers
<1>1. setup' = setup /\ \A d \in Clients : Of(d) \in Adapters /\ Of(d)' = Of(d)
  BY NeedsType DEF Step, Begin, TakeNext, Acquire, GiveUp, ReadAlone, MutateAtomically, Undone, Commit,
        Committed, Answered, Rollback, Lost, Retry, End, Of
<1>2. \A a \in Adapters : adapter'[a].status = adapter[a].status /\ adapter'[a].writers = adapter[a].writers
  <2>1. adapter' = adapter \/ \E f : adapter' = [adapter EXCEPT ![Of(c)].floor = f]
    BY DEF Step, Begin, TakeNext, Acquire, GiveUp, ReadAlone, MutateAtomically, Undone, Commit,
        Committed, Answered, Rollback, Lost, Retry, End
  <2>2. CASE adapter' = adapter
    BY <2>2
  <2>3. ASSUME NEW f, adapter' = [adapter EXCEPT ![Of(c)].floor = f]
        PROVE  \A a \in Adapters : adapter'[a].status = adapter[a].status /\ adapter'[a].writers = adapter[a].writers
    BY <1>1, <2>3 DEF Typed, AdapterRecords
  <2> QED BY <2>1, <2>2, <2>3
<1>3. \A d \in Clients \ {c} : tx'[d] = tx[d]
  BY DEF Step, Begin, TakeNext, Acquire, GiveUp, ReadAlone, MutateAtomically, Undone, Commit,
        Committed, Answered, Rollback, Lost, Retry, End, Typed
<1>4. \A d \in Clients : Needs(d)' = Needs(d) /\ Reads(d)' = Reads(d)
  BY <1>1, <1>2 DEF Needs, Reads, Of
<1> QED BY <1>1, <1>2, <1>3, <1>4

(* How a client's own record changes, action by action. *)
LEMMA StepMoves ==
  ASSUME LibsqlWellFormed, Typed, Locked, NEW c \in Clients
  PROVE  /\ Begin(c) => /\ tx[c].pc = "idle"
                        /\ \/ tx'[c].pc = "ended" /\ line' = line
                           \/ /\ tx'[c].pc = "waiting" /\ tx'[c].step = 1
                              /\ tx'[c].minted = adapter[Of(c)].floor
                              /\ line' = IF Needs(c) = <<>> THEN line
                                         ELSE [line EXCEPT ![Needs(c)[1]] = Append(@, c)]
         /\ TakeNext(c) => /\ tx[c].pc = "waiting" /\ tx'[c].pc = "waiting"
                           /\ tx'[c].step = tx[c].step + 1 /\ tx'[c].minted = tx[c].minted
         /\ Acquire(c) => /\ tx[c].pc = "waiting" /\ tx'[c].pc = "open"
                          /\ tx'[c].step = tx[c].step /\ tx'[c].minted = tx[c].minted
         /\ GiveUp(c) \/ ReadAlone(c) => tx[c].pc = "waiting" /\ tx'[c].pc = "ended"
         /\ MutateAtomically(c) \/ Undone(c) => /\ tx[c].pc = "open" /\ tx'[c].pc = "open"
                                               /\ tx'[c].step = tx[c].step
         /\ Commit(c) => /\ tx[c].pc = "open" /\ tx'[c].pc = "committing"
                         /\ tx'[c].step = tx[c].step /\ tx'[c].minted = tx[c].minted
         /\ Committed(c) => /\ tx[c].pc = "committing" /\ tx'[c].pc = "committed"
                            /\ tx'[c].step = tx[c].step /\ tx'[c].minted = tx[c].minted
         /\ Answered(c) \/ Rollback(c) \/ Lost(c) => /\ tx[c].pc \in {"open", "committing", "committed"}
                                                    /\ tx'[c].pc = "ended"
         /\ Retry(c) => tx[c].pc = "ended" /\ tx'[c].pc = "idle"
<1>1. ASSUME Begin(c)
      PROVE  /\ tx[c].pc = "idle"
             /\ \/ tx'[c].pc = "ended" /\ line' = line
                \/ /\ tx'[c].pc = "waiting" /\ tx'[c].step = 1 /\ tx'[c].minted = adapter[Of(c)].floor
                   /\ line' = IF Needs(c) = <<>> THEN line
                              ELSE [line EXCEPT ![Needs(c)[1]] = Append(@, c)]
  <2>1. PICK n \in Nat : n = adapter[Of(c)].floor
    BY Counts
  <2>2. tx[c].pc = "idle"
    BY <1>1 DEF Begin
  <2>3. CASE adapter[Of(c)].status = "closed"
    <3>1. tx' = [tx EXCEPT ![c].pc = "ended", ![c].result = "adapter-closed"] /\ line' = line
      BY <1>1, <2>3 DEF Begin
    <3>2. tx'[c].pc = "ended"
      BY <3>1, TxEnds
    <3> QED BY <2>2, <3>1, <3>2
  <2>4. CASE adapter[Of(c)].status # "closed"
    <3>1. tx' = [tx EXCEPT ![c].pc = "waiting", ![c].step = 1, ![c].at = 1, ![c].minted = n]
      BY <1>1, <2>1, <2>4 DEF Begin
    <3>2. tx'[c].pc = "waiting" /\ tx'[c].step = 1 /\ tx'[c].minted = n
      BY <3>1, TxBegins
    <3>3. line' = IF Needs(c) = <<>> THEN line ELSE [line EXCEPT ![Needs(c)[1]] = Append(@, c)]
      BY <1>1, <2>4 DEF Begin
    <3> QED BY <2>1, <2>2, <3>2, <3>3
  <2> QED BY <2>3, <2>4
<1>2. TakeNext(c) => /\ tx[c].pc = "waiting" /\ tx'[c].pc = "waiting"
                     /\ tx'[c].step = tx[c].step + 1 /\ tx'[c].minted = tx[c].minted
  BY TxSteps DEF TakeNext
<1>3. Acquire(c) => /\ tx[c].pc = "waiting" /\ tx'[c].pc = "open"
                    /\ tx'[c].step = tx[c].step /\ tx'[c].minted = tx[c].minted
  BY DEF Acquire, Ready, Typed, TxRecords
<1>4. GiveUp(c) \/ ReadAlone(c) => tx[c].pc = "waiting" /\ tx'[c].pc = "ended"
  BY TxEnds DEF GiveUp, ReadAlone, Ready
<1>5. ASSUME MutateAtomically(c) \/ Undone(c)
      PROVE  tx[c].pc = "open" /\ tx'[c].pc = "open" /\ tx'[c].step = tx[c].step
  <2>1. PICK k \in Nat : k = Len(Operation(c).writes)
    BY <1>5, OperationFits, LenProperties DEF MutateAtomically, Undone
  <2>2. draft.sequence \in Nat /\ tx[c].minted \in Nat /\ tx[c].pc = "open"
    BY <1>5 DEF Typed, IsDatabase, TxRecords, MutateAtomically, Undone, Working
  <2>3. PICK n \in Nat : n = draft.sequence + k
    BY <2>2
  <2>4. PICK m \in Nat : m = MaxOf(tx[c].minted, n)
    BY <2>2, MaxOfTwo
  <2>5. \/ tx' = [tx EXCEPT ![c].at = @ + 1]
        \/ tx' = [tx EXCEPT ![c].at = @ + 1, ![c].minted = m]
    <3>1. CASE MutateAtomically(c) /\ ~Refused(Operation(c))
      <4>1. draft'.sequence = n
        BY <2>1, <2>3, <3>1, OperationFits, AppliedIsDatabase DEF MutateAtomically
      <4> QED BY <2>4, <3>1, <4>1 DEF MutateAtomically
    <3>2. CASE MutateAtomically(c) /\ Refused(Operation(c))
      BY <3>2 DEF MutateAtomically
    <3>3. CASE Undone(c)
      BY <2>1, <2>3, <2>4, <3>3 DEF Undone
    <3> QED BY <1>5, <3>1, <3>2, <3>3
  <2> QED BY <2>2, <2>5, TxPasses, TxCounts
<1>6. Commit(c) => /\ tx[c].pc = "open" /\ tx'[c].pc = "committing"
                   /\ tx'[c].step = tx[c].step /\ tx'[c].minted = tx[c].minted
  BY DEF Commit, Typed, TxRecords
<1>7. Committed(c) => /\ tx[c].pc = "committing" /\ tx'[c].pc = "committed"
                      /\ tx'[c].step = tx[c].step /\ tx'[c].minted = tx[c].minted
  BY DEF Committed, Typed, TxRecords
<1>8. ASSUME Answered(c) \/ Rollback(c) \/ Lost(c)
      PROVE  tx[c].pc \in {"open", "committing", "committed"} /\ tx'[c].pc = "ended"
  <2>1. PICK q \in {"done", "failed", "commit-indeterminate"} : tx' = [tx EXCEPT ![c].pc = "ended", ![c].result = q]
    BY <1>8 DEF Answered, Rollback, Lost, End
  <2> QED BY <1>8, <2>1, TxEnds DEF Answered, Rollback, Lost
<1>9. Retry(c) => tx[c].pc = "ended" /\ tx'[c].pc = "idle"
  BY DEF Retry, Typed, TxRecords
<1> QED BY <1>1, <1>2, <1>3, <1>4, <1>5, <1>6, <1>7, <1>8, <1>9

LEMMA LinesInit == LibsqlWellFormed /\ Init => Lines
<1> SUFFICES ASSUME Init PROVE Lines
  OBVIOUS
<1>1. \A m \in Mutexes : line[m] = <<>> /\ DOMAIN line[m] = {}
  BY DEF Init
<1>2. \A c \in Clients : ~Underway(c)
  BY DEF Init, Underway
<1> QED BY <1>1, <1>2 DEF Lines, Waiting, Once, Turns

LEMMA StepLines ==
  ASSUME LibsqlWellFormed, Typed, Locked, Files, Files', Lines, NEW c \in Clients,
         Step(c) \/ Undone(c) \/ Rollback(c) \/ Retry(c)
  PROVE  Lines'
<1>1. /\ \A d \in Clients : Needs(d)' = Needs(d)
      /\ \A d \in Clients \ {c} : tx'[d] = tx[d] /\ Underway(d)' = Underway(d)
      /\ \A d \in Clients : Underway(d)' => adapter'[Of(d)].status # "new" /\ adapter[Of(d)].status # "new"
  BY StepKeeps DEF Underway, Files
<1>2. tx[c].step \in Nat \ {0}
  BY DEF Typed, TxRecords
<1>3. CASE Begin(c)
  <2>1. tx[c].pc = "idle" /\ ~Underway(c)
    BY <1>3, StepMoves DEF Underway
  <2>2. CASE tx'[c].pc = "ended" /\ line' = line
    <3>1. ~Underway(c)'
      BY <2>2 DEF Underway
    <3>2. \A d \in Clients : Underway(d)' = Underway(d)
      <4>1. Underway(c)' = Underway(c)
        BY <2>1, <3>1 DEF Underway
      <4> QED BY <1>1, <4>1
    <3>3. \A d \in Clients : Underway(d) => d # c
      BY <2>1
    <3> QED BY <1>1, <2>2, <3>2, <3>3, LinesStay
  <2>3. CASE /\ tx'[c].pc = "waiting" /\ tx'[c].step = 1
             /\ line' = IF Needs(c) = <<>> THEN line ELSE [line EXCEPT ![Needs(c)[1]] = Append(@, c)]
    <3>1. PICK s \in Nat \ {0} : s = 1
      OBVIOUS
    <3>2. IF s <= Len(Needs(c)) THEN line' = [line EXCEPT ![Needs(c)[s]] = Append(@, c)] ELSE line' = line /\ s = 1
      <4>1. Needs(c) = <<>> => Len(Needs(c)) = 0
        OBVIOUS
      <4>2. Needs(c) # <<>> => Len(Needs(c)) >= 1
        BY DEF Needs
      <4> QED BY <2>3, <3>1, <4>1, <4>2
    <3> QED BY <1>1, <2>1, <2>3, <3>1, <3>2, LinesJoined
  <2> QED BY <1>3, <2>2, <2>3, StepMoves
<1>4. CASE TakeNext(c)
  <2> DEFINE s == tx[c].step + 1
  <2>1. /\ tx'[c].pc = "waiting" /\ tx'[c].step = s /\ Underway(c) /\ tx[c].step < Len(Needs(c)) /\ HasTurn(c)
        /\ line' = [line EXCEPT ![Needs(c)[s]] = Append(@, c)]
    BY <1>4, StepMoves DEF TakeNext, Next1, Underway
  <2>2. Len(Needs(c)) \in Nat /\ s \in Nat \ {0} /\ s > 1 /\ s <= Len(Needs(c)) /\ tx[c].step = s - 1
    BY <1>2, <2>1, NeedsType
  <2>3. First(c, s - 1)
    <3>1. s - 1 \in 1 .. Len(Needs(c)) /\ s - 1 <= tx[c].step /\ tx[c].step <= Len(Needs(c))
      BY <1>2, <2>2
    <3>2. Arrived(c, s - 1) /\ Head(line[Needs(c)[s - 1]]) = c
      BY <2>1, <2>2, <3>1 DEF HasTurn, Lines, Turns
    <3> QED BY <3>2 DEF First, Arrived
  <2> HIDE DEF s
  <2> QED BY <1>1, <2>1, <2>2, <2>3, LinesJoined
<1>5. CASE Acquire(c) \/ MutateAtomically(c) \/ Undone(c) \/ Commit(c) \/ Committed(c) \/ Retry(c)
  <2>1. /\ line' = line /\ Underway(c)' = Underway(c) /\ (Underway(c) => tx'[c].step = tx[c].step)
        /\ Underway(c) /\ tx'[c].pc # "waiting" => tx[c].pc # "waiting" \/ Ready(c)
    <3>1. line' = line
      BY <1>5 DEF Acquire, MutateAtomically, Undone, Commit, Committed, Leave, Retry
    <3>2. CASE Acquire(c)
      BY <3>1, <3>2, StepMoves DEF Acquire, Underway
    <3>3. CASE MutateAtomically(c) \/ Undone(c)
      BY <3>1, <3>3, StepMoves DEF Underway
    <3>4. CASE Commit(c) \/ Committed(c) \/ Retry(c)
      BY <3>1, <3>4, StepMoves DEF Underway
    <3> QED BY <1>5, <3>2, <3>3, <3>4
  <2> QED BY <1>1, <2>1, LinesStay
<1>6. CASE GiveUp(c) \/ ReadAlone(c) \/ Answered(c) \/ Rollback(c) \/ Lost(c)
  <2>1. line' = Released(c)
    BY <1>6 DEF GiveUp, ReadAlone, Answered, Rollback, Lost, End
  <2>2. Underway(c) /\ ~Underway(c)' /\ (tx[c].pc # "waiting" \/ Ready(c))
    <3>1. CASE GiveUp(c) \/ ReadAlone(c)
      BY <3>1, StepMoves DEF GiveUp, ReadAlone, Underway
    <3>2. CASE Answered(c) \/ Rollback(c) \/ Lost(c)
      BY <3>2, StepMoves DEF Underway
    <3> QED BY <1>6, <3>1, <3>2
  <2> QED BY <1>1, <2>1, <2>2, LinesLeft
<1> QED BY <1>3, <1>4, <1>5, <1>6 DEF Step

LEMMA OthersLines ==
  ASSUME LibsqlWellFormed, Typed, Files, Lines, NEW a \in Adapters,
         Open(a) \/ Close(a) \/ ServerEndsTransaction
  PROVE  Lines'
<1>1. UNCHANGED <<setup, line, tx>> /\ \A d \in Clients : Of(d) \in Adapters /\ Of(d)' = Of(d) /\ Underway(d)' = Underway(d)
  BY NeedsType DEF Open, Close, ServerEndsTransaction, Of, Underway
<1>2. \A d \in Clients : Underway(d) => adapter'[Of(d)].writers = adapter[Of(d)].writers
  <2>1. CASE Open(a)
    BY <2>1, OpenFiles
  <2>2. CASE Close(a)
    BY <1>1, <2>2 DEF Close, Typed, AdapterRecords
  <2>3. CASE ServerEndsTransaction
    BY <2>3 DEF ServerEndsTransaction
  <2> QED BY <2>1, <2>2, <2>3
<1>3. \A d \in Clients : Underway(d) => Needs(d)' = Needs(d)
  BY <1>1, <1>2 DEF Needs, Reads, Of
<1> QED BY <1>1, <1>3, LinesStay

--------------------
(* Version numbers. *)

Writing(c) == setup.work[c] # <<>>

(* No transaction ends but by its client. *)
Quiet(s) == "server" \notin s.faults /\ "abrupt" \notin s.faults

(* The clients that write share an adapter, and one has ended before the
   next begins. *)
WrittenBy(s, a) ==
  /\ \A c \in Clients : s.work[c] # <<>> => s.of[c] = a
  /\ s.alone \/ \A c, d \in Clients : s.work[c] # <<>> /\ s.work[d] # <<>> => c = d

(* What TokensStandForOneValue asks of every setup. *)
InTurn == \A s \in Setups : Quiet(s) \/ \E a \in Adapters : WrittenBy(s, a)

(* Every number is one of the database's, or will be by the adapter's
   floor or by what the one writer under way has seen. *)
OneByOne(a) ==
  /\ \A c, d \in Clients : Writing(c) /\ Writing(d) /\ Underway(c) /\ Underway(d) => c = d
  /\ \A c \in Clients : Writing(c) /\ Underway(c) =>
       \A p \in handed : p[1] <= db.sequence \/ p[1] <= tx[c].minted
  /\ \A c \in Clients : Writing(c) /\ tx[c].pc = "waiting" => tx[c].minted = adapter[a].floor
  /\ (\A c \in Clients : Writing(c) => ~Underway(c)) =>
       \A p \in handed : p[1] <= db.sequence \/ p[1] <= adapter[a].floor

Unbroken ==
  /\ \A p \in handed : p[1] <= draft.sequence
  /\ \A c \in Clients : tx[c].pc \in {"open", "committing"} => lock = c
  /\ \A c \in Clients : Underway(c) => Usable(Of(c))

Counted ==
  /\ \A p \in handed : p[1] \in Nat
  /\ TokensStandForOneValue
  /\ Quiet(setup) => Unbroken
  /\ \A a \in Adapters : WrittenBy(setup, a) => OneByOne(a)

Writers == \A c \in Clients : tx[c].pc \in {"open", "committing", "committed"} => Writing(c)

(* The numbers that an operation hands out follow those of the sequence,
   which the client has then seen. *)
LEMMA Minting ==
  ASSUME LibsqlWellFormed, Typed, Locked, NEW c \in Clients, MutateAtomically(c) \/ Undone(c)
  PROVE  /\ UNCHANGED <<setup, db, lock, line, entry, adapter>> /\ lock = c /\ Writing(c)
         /\ \/ draft' = draft /\ handed' = handed /\ tx'[c].minted = tx[c].minted
            \/ \E k \in Nat : \E v :
                 /\ handed' = handed \cup {<<draft.sequence + i, v>> : i \in 1 .. k}
                 /\ draft'.sequence = draft.sequence + k /\ tx'[c].minted = draft.sequence + k
<1>1. UNCHANGED <<setup, db, lock, line, entry, adapter>> /\ lock = c /\ Writing(c) /\ tx[c].pc = "open"
  BY OperationFits DEF MutateAtomically, Undone, Working, Writing
<1>2. PICK k \in Nat : k = Len(Operation(c).writes) /\ DOMAIN Operation(c).writes = 1 .. k
  BY OperationFits, LenProperties DEF MutateAtomically, Undone
<1>3. db.sequence \in Nat /\ draft.sequence \in Nat /\ tx[c].minted \in Nat
      /\ draft.sequence = MaxOf(db.sequence, tx[c].minted)
  BY <1>1 DEF Typed, IsDatabase, TxRecords, Locked, LibsqlWellFormed
<1>4. PICK n \in Nat : n = draft.sequence + k
  BY <1>3
<1>5. n >= draft.sequence /\ MaxOf(tx[c].minted, n) = n /\ MaxOf(draft.sequence, n) = n
  BY <1>3, <1>4, CountingOn
<1>6. CASE MutateAtomically(c) /\ Refused(Operation(c))
  <2>1. tx' = [tx EXCEPT ![c].at = @ + 1] /\ draft' = draft /\ handed' = handed
    BY <1>6 DEF MutateAtomically
  <2>2. tx'[c].minted = tx[c].minted
    BY <2>1, TxPasses
  <2> QED BY <1>1, <2>1, <2>2
<1>7. ASSUME (MutateAtomically(c) /\ ~Refused(Operation(c))) \/ Undone(c)
      PROVE  /\ handed' = handed \cup {<<draft.sequence + i, Operation(c).digest>> : i \in 1 .. k}
             /\ draft'.sequence = n /\ tx'[c].minted = n
  <2>1. handed' = handed \cup {<<draft.sequence + i, Operation(c).digest>> : i \in DOMAIN Operation(c).writes}
    BY <1>7 DEF MutateAtomically, Undone, Issued
  <2>2. draft'.sequence = n
    <3>1. CASE MutateAtomically(c) /\ ~Refused(Operation(c))
      BY <1>2, <1>4, <3>1, OperationFits, AppliedIsDatabase DEF MutateAtomically
    <3>2. CASE Undone(c)
      <4>1. SequenceAfterUndo(c, Operation(c)) = n
        BY <1>2, <1>4, <1>5 DEF SequenceAfterUndo
      <4> QED BY <3>2, <4>1 DEF Undone, Typed, IsDatabase
    <3> QED BY <1>7, <3>1, <3>2
  <2>3. tx' = [tx EXCEPT ![c].at = @ + 1, ![c].minted = n]
    <3>1. CASE MutateAtomically(c) /\ ~Refused(Operation(c))
      BY <1>5, <2>2, <3>1 DEF MutateAtomically
    <3>2. CASE Undone(c)
      BY <1>2, <1>4, <1>5, <3>2 DEF Undone
    <3> QED BY <1>7, <3>1, <3>2
  <2> QED BY <1>2, <2>1, <2>2, <2>3, TxCounts
<1>8. CASE (MutateAtomically(c) /\ ~Refused(Operation(c))) \/ Undone(c)
  BY <1>1, <1>4, <1>7, <1>8
<1> QED BY <1>6, <1>8

LEMMA StepWriters ==
  ASSUME LibsqlWellFormed, Typed, Locked, Writers, NEW c \in Clients,
         Step(c) \/ Undone(c) \/ Rollback(c) \/ Retry(c)
  PROVE  Writers' /\ \A d \in Clients : Writing(d)' = Writing(d)
<1>1. \A d \in Clients : Writing(d)' = Writing(d)
  BY StepKeeps DEF Writing
<1>2. \A d \in Clients \ {c} : tx'[d] = tx[d]
  BY StepKeeps
<1>3. tx'[c].pc \in {"open", "committing", "committed"} => Writing(c)
  <2>1. CASE Acquire(c)
    BY <2>1 DEF Acquire, Reads, Writing
  <2>2. CASE MutateAtomically(c) \/ Undone(c)
    BY <2>2, StepMoves DEF Writers
  <2>3. CASE Commit(c) \/ Committed(c)
    BY <2>3, StepMoves DEF Writers
  <2>4. CASE Begin(c) \/ TakeNext(c) \/ GiveUp(c) \/ ReadAlone(c) \/ Retry(c) \/ Answered(c) \/ Rollback(c) \/ Lost(c)
    BY <2>4, StepMoves
  <2> QED BY <2>1, <2>2, <2>3, <2>4 DEF Step
<1> QED BY <1>1, <1>2, <1>3 DEF Writers

(* The one writer is where it was, or there is still none. *)
LEMMA WritersStay ==
  ASSUME NEW a \in Adapters, OneByOne(a), handed' = handed, \A p \in handed : p[1] \in Nat,
         db.sequence \in Nat, db'.sequence \in Nat, db'.sequence >= db.sequence,
         \A d \in Clients : Writing(d)' = Writing(d),
         adapter'[a].floor = adapter[a].floor,
         \A d \in Clients : Writing(d) =>
           /\ Underway(d)' = Underway(d)
           /\ Underway(d) => tx'[d].minted = tx[d].minted /\ (tx'[d].pc = "waiting" => tx[d].pc = "waiting")
  PROVE  OneByOne(a)'
<1>1. \A c, d \in Clients : Writing(c)' /\ Writing(d)' /\ Underway(c)' /\ Underway(d)' => c = d
  BY DEF OneByOne
<1>2. \A n \in Nat : \A p \in handed : p[1] <= db.sequence \/ p[1] <= n => p[1] <= db'.sequence \/ p[1] <= n
  OBVIOUS
<1>3. ASSUME NEW c \in Clients, Writing(c), Underway(c)'
      PROVE  \A p \in handed : p[1] <= db'.sequence \/ p[1] <= tx'[c].minted
  <2>1. Underway(c) /\ tx'[c].minted = tx[c].minted
    BY <1>3
  <2>2. \A p \in handed : p[1] <= db.sequence \/ p[1] <= tx[c].minted
    BY <1>3, <2>1 DEF OneByOne
  <2> QED BY <2>1, <2>2
<1>4. ASSUME NEW c \in Clients, Writing(c), tx'[c].pc = "waiting"
      PROVE  tx'[c].minted = adapter'[a].floor
  <2>1. Underway(c)'
    BY <1>4 DEF Underway
  <2>2. Underway(c) /\ tx'[c].minted = tx[c].minted /\ tx[c].pc = "waiting"
    BY <1>4, <2>1
  <2> QED BY <1>4, <2>2 DEF OneByOne
<1>5. ASSUME \A c \in Clients : Writing(c) => ~Underway(c)'
      PROVE  \A p \in handed : p[1] <= db'.sequence \/ p[1] <= adapter'[a].floor
  <2>1. \A c \in Clients : Writing(c) => ~Underway(c)
    BY <1>5
  <2>2. \A p \in handed : p[1] <= db.sequence \/ p[1] <= adapter[a].floor
    BY <2>1 DEF OneByOne
  <2> QED BY <2>2
<1> QED BY <1>1, <1>3, <1>4, <1>5 DEF OneByOne

(* The one writer ends, and the database or the floor has what it saw. *)
LEMMA WriterEnds ==
  ASSUME NEW a \in Adapters, OneByOne(a), handed' = handed, NEW c \in Clients, Writing(c), Underway(c),
         ~Underway(c)', \A d \in Clients \ {c} : tx'[d] = tx[d],
         \A d \in Clients : Writing(d)' = Writing(d),
         \A p \in handed : p[1] <= db'.sequence \/ p[1] <= adapter'[a].floor
  PROVE  OneByOne(a)'
<1>1. \A d \in Clients : Writing(d) => ~Underway(d)'
  BY DEF OneByOne, Underway
<1>2. \A d \in Clients : Writing(d) => tx'[d].pc # "waiting"
  BY <1>1 DEF Underway
<1> QED BY <1>1, <1>2 DEF OneByOne

(* The writer's adapter is the one of the setup. *)
LEMMA WritersAdapter ==
  ASSUME NEW a \in Adapters, WrittenBy(setup, a), NEW c \in Clients, Writing(c)
  PROVE  Of(c) = a
BY DEF WrittenBy, Writing, Of

LEMMA SeenByDraft ==
  ASSUME LibsqlWellFormed, InTurn, Typed, Locked, Counted, NEW c \in Clients, lock = c, Writing(c)
  PROVE  \A p \in handed : p[1] <= draft.sequence
<1>1. Quiet(setup) \/ \E a \in Adapters : WrittenBy(setup, a)
  BY DEF InTurn, Typed
<1>2. CASE Quiet(setup)
  BY <1>2 DEF Counted, Unbroken
<1>3. ASSUME NEW a \in Adapters, WrittenBy(setup, a) PROVE \A p \in handed : p[1] <= draft.sequence
  <2>1. Underway(c)
    BY DEF Locked, Underway, LibsqlWellFormed
  <2>2. \A p \in handed : p[1] <= db.sequence \/ p[1] <= tx[c].minted
    BY <1>3, <2>1 DEF Counted, OneByOne
  <2>3. draft.sequence = MaxOf(db.sequence, tx[c].minted) /\ db.sequence \in Nat /\ tx[c].minted \in Nat
    BY DEF Locked, Typed, IsDatabase, TxRecords, LibsqlWellFormed
  <2>4. draft.sequence \in Nat /\ draft.sequence >= db.sequence /\ draft.sequence >= tx[c].minted
    BY <2>3, MaxOfTwo
  <2>5. \A p \in handed : p[1] \in Nat
    BY DEF Counted
  <2> QED BY <2>2, <2>3, <2>4, <2>5
<1> QED BY <1>1, <1>2, <1>3

LEMMA MintCounted ==
  ASSUME LibsqlWellFormed, InTurn, Typed, Locked, Writers, Counted, NEW c \in Clients,
         MutateAtomically(c) \/ Undone(c)
  PROVE  Counted'
<1>0. /\ UNCHANGED <<setup, db, lock, adapter>> /\ lock = c /\ Writing(c)
      /\ tx[c].pc = "open" /\ tx'[c].pc = "open" /\ \A d \in Clients \ {c} : tx'[d] = tx[d]
  <2>1. Step(c) \/ Undone(c)
    BY DEF Step
  <2> QED BY <2>1, Minting, StepMoves, StepKeeps
<1>1. PICK s \in Nat : s = draft.sequence
  BY DEF Typed, IsDatabase
<1>2. \A p \in handed : p[1] <= s /\ p[1] \in Nat
  BY <1>0, <1>1, SeenByDraft DEF Counted
<1>3. /\ \A d \in Clients : Of(d)' = Of(d) /\ Writing(d)' = Writing(d) /\ Underway(d)' = Underway(d)
      /\ \A d \in Clients : Usable(Of(d)) => Usable(Of(d))'
  BY <1>0 DEF Of, Writing, Underway, Usable
<1>4. CASE draft' = draft /\ handed' = handed /\ tx'[c].minted = tx[c].minted
  <2>1. \A p \in handed' : p[1] \in Nat
    BY <1>4 DEF Counted
  <2>2. TokensStandForOneValue'
    BY <1>4 DEF Counted, TokensStandForOneValue
  <2>3. Quiet(setup') => Unbroken'
    BY <1>0, <1>3, <1>4 DEF Counted, Unbroken
  <2>4. ASSUME NEW a \in Adapters, WrittenBy(setup', a) PROVE OneByOne(a)'
    <3>1. db.sequence \in Nat /\ db' = db
      BY <1>0 DEF Typed, IsDatabase
    <3>2. \A d \in Clients : Underway(d) => tx'[d].minted = tx[d].minted /\ (tx'[d].pc = "waiting" => tx[d].pc = "waiting")
      BY <1>0, <1>4
    <3>3. OneByOne(a)
      BY <1>0, <2>4 DEF Counted
    <3> QED BY <1>0, <1>2, <1>3, <1>4, <3>1, <3>2, <3>3, WritersStay
  <2> QED BY <2>1, <2>2, <2>3, <2>4 DEF Counted
<1>5. ASSUME NEW k \in Nat, NEW v,
             handed' = handed \cup {<<s + i, v>> : i \in 1 .. k}, draft'.sequence = s + k, tx'[c].minted = s + k
      PROVE  Counted'
  <2>1. \A p \in handed' : p \in handed \/ \E i \in 1 .. k : p = <<s + i, v>>
    BY <1>5
  <2>2. \A p \in handed' : p[1] \in Nat /\ p[1] <= s + k /\ (p[1] > s => p[2] = v) /\ (p[1] <= s => p \in handed)
    <3> SUFFICES ASSUME NEW p \in handed'
                 PROVE  p[1] \in Nat /\ p[1] <= s + k /\ (p[1] > s => p[2] = v) /\ (p[1] <= s => p \in handed)
      OBVIOUS
    <3>1. CASE p \in handed
      BY <1>2, <3>1
    <3>2. CASE \E i \in 1 .. k : p = <<s + i, v>>
      <4>1. PICK i \in 1 .. k : p = <<s + i, v>>
        BY <3>2
      <4>2. p[1] = s + i /\ p[2] = v
        BY <4>1
      <4> QED BY <4>2
    <3> QED BY <2>1, <3>1, <3>2
  <2>3. TokensStandForOneValue'
    <3> SUFFICES ASSUME NEW p \in handed', NEW q \in handed', p[1] = q[1] PROVE p[2] = q[2]
      BY DEF TokensStandForOneValue
    <3>1. p[1] \in Nat
      BY <2>2
    <3>2. CASE p[1] > s
      BY <2>2, <3>2
    <3>3. CASE p[1] <= s
      <4>1. p \in handed /\ q \in handed
        BY <2>2, <3>3
      <4> QED BY <4>1 DEF Counted, TokensStandForOneValue
    <3> QED BY <3>1, <3>2, <3>3
  <2>4. Quiet(setup') => Unbroken'
    <3> SUFFICES ASSUME Quiet(setup') PROVE Unbroken'
      OBVIOUS
    <3>1. Unbroken
      BY <1>0 DEF Counted
    <3>2. \A d \in Clients : tx'[d].pc \in {"open", "committing"} => lock' = d
      BY <1>0, <3>1 DEF Unbroken
    <3>3. \A p \in handed' : p[1] <= draft'.sequence
      BY <1>5, <2>2
    <3> QED BY <1>3, <3>1, <3>2, <3>3 DEF Unbroken
  <2>5. ASSUME NEW a \in Adapters, WrittenBy(setup', a) PROVE OneByOne(a)'
    <3>1. OneByOne(a)
      BY <1>0, <2>5 DEF Counted
    <3>2. Underway(c)
      BY <1>0 DEF Underway
    <3>3. \A d \in Clients : Writing(d) /\ Underway(d) => d = c
      BY <1>0, <3>1, <3>2 DEF OneByOne
    <3>4. \A p \in handed' : p[1] <= tx'[c].minted
      BY <1>5, <2>2
    <3>5. \A d \in Clients : Writing(d) => tx'[d].pc # "waiting"
      <4> SUFFICES ASSUME NEW d \in Clients, Writing(d), tx'[d].pc = "waiting" PROVE FALSE
        OBVIOUS
      <4>1. d # c
        BY <1>0
      <4>2. Underway(d)
        BY <1>0, <4>1 DEF Underway
      <4> QED BY <3>3, <4>1, <4>2
    <3> QED BY <1>0, <1>3, <3>2, <3>3, <3>4, <3>5 DEF OneByOne
  <2> QED BY <2>2, <2>3, <2>4, <2>5 DEF Counted
<1>6. CASE \E k \in Nat : \E v :
             /\ handed' = handed \cup {<<draft.sequence + i, v>> : i \in 1 .. k}
             /\ draft'.sequence = draft.sequence + k /\ tx'[c].minted = draft.sequence + k
  <2>0. PICK k \in Nat : \E v :
             /\ handed' = handed \cup {<<draft.sequence + i, v>> : i \in 1 .. k}
             /\ draft'.sequence = draft.sequence + k /\ tx'[c].minted = draft.sequence + k
    BY <1>6
  <2>1. PICK v : /\ handed' = handed \cup {<<draft.sequence + i, v>> : i \in 1 .. k}
                 /\ draft'.sequence = draft.sequence + k /\ tx'[c].minted = draft.sequence + k
    BY <2>0
  <2>2. handed' = handed \cup {<<s + i, v>> : i \in 1 .. k} /\ draft'.sequence = s + k /\ tx'[c].minted = s + k
    BY <1>1, <2>1
  <2> QED BY <1>5, <2>2
<1> QED BY <1>4, <1>6, Minting

(* The other steps hand out nothing. *)
LEMMA StepUnbroken ==
  ASSUME LibsqlWellFormed, Typed, Locked, Files, Counted, Quiet(setup), NEW c \in Clients,
         Step(c) \/ Undone(c) \/ Rollback(c) \/ Retry(c), ~MutateAtomically(c), ~Undone(c)
  PROVE  Unbroken' /\ handed' = handed
<1>0. /\ Unbroken /\ \A p \in handed : p[1] \in Nat
      /\ db.sequence \in Nat /\ draft.sequence \in Nat /\ tx[c].minted \in Nat /\ draft'.sequence \in Nat
  BY StepTyped DEF Counted, Typed, IsDatabase, TxRecords
<1>1. /\ setup' = setup /\ \A d \in Clients \ {c} : tx'[d] = tx[d]
      /\ \A d \in Clients : Of(d) \in Adapters /\ (Usable(Of(d))' <=> Usable(Of(d)))
  BY StepKeeps DEF Usable
<1>2. handed' = handed
  BY DEF Step, Begin, TakeNext, Acquire, GiveUp, ReadAlone, Commit, Committed, Answered, Rollback, Lost, Retry, End
<1>3. ~Lost(c)
  BY <1>0 DEF Lost, Unbroken, Quiet
<1>4. draft'.sequence >= draft.sequence
  <2>1. CASE Acquire(c)
    <3>1. draft'.sequence = MaxOf(db.sequence, tx[c].minted) /\ draft = db
      BY <2>1 DEF Acquire, Locked, Typed, IsDatabase
    <3> QED BY <1>0, <3>1, MaxOfTwo
  <2>2. CASE Rollback(c)
    <3>1. draft'.sequence = SequenceKept(c) /\ draft.sequence = MaxOf(db.sequence, tx[c].minted)
      BY <2>2 DEF Rollback, Leave, Locked, Typed, IsDatabase, LibsqlWellFormed
    <3>2. tx[c].minted = 0 => MaxOf(db.sequence, tx[c].minted) = db.sequence
      BY <1>0, MaxIs
    <3>3. SequenceKept(c) = draft.sequence
      BY <3>1, <3>2 DEF SequenceKept
    <3> QED BY <1>0, <3>1, <3>3
  <2>3. CASE ~Acquire(c) /\ ~Rollback(c)
    <3>1. draft' = draft
      BY <1>3, <2>3 DEF Step, Begin, TakeNext, GiveUp, ReadAlone, Commit, Committed, Leave, Answered, Retry
    <3> QED BY <1>0, <3>1
  <2> QED BY <2>1, <2>2, <2>3
<1>5. \A p \in handed' : p[1] <= draft'.sequence
  BY <1>0, <1>2, <1>4 DEF Unbroken
<1>6. ASSUME NEW d \in Clients, tx'[d].pc \in {"open", "committing"} PROVE lock' = d
  <2>1. CASE d = c
    <3>1. Acquire(c) \/ Commit(c)
      BY <1>3, <1>6, <2>1, StepMoves DEF Step
    <3>2. CASE Acquire(c)
      BY <2>1, <3>2 DEF Acquire
    <3>3. CASE Commit(c)
      BY <2>1, <3>3 DEF Commit
    <3> QED BY <3>1, <3>2, <3>3
  <2>2. CASE d # c
    <3>1. lock = d
      BY <1>0, <1>1, <1>6, <2>2 DEF Unbroken
    <3>2. lock' = lock
      BY <1>3, <2>2, <3>1 DEF Step, Begin, TakeNext, Acquire, GiveUp, ReadAlone, Commit, Committed, Answered,
            Rollback, Retry, LibsqlWellFormed
    <3> QED BY <3>1, <3>2
  <2> QED BY <2>1, <2>2
<1>7. ASSUME NEW d \in Clients, Underway(d)' PROVE Usable(Of(d))'
  <2>1. CASE Underway(d)
    BY <1>0, <1>1, <2>1 DEF Unbroken
  <2>2. CASE ~Underway(d)
    <3>1. d = c
      BY <1>1, <1>7, <2>2 DEF Underway
    <3>2. Begin(c)
      BY <1>7, <2>2, <3>1, StepMoves DEF Step, Underway
    <3>3. adapter[Of(c)].status # "closed"
      <4> SUFFICES ASSUME adapter[Of(c)].status = "closed" PROVE FALSE
        OBVIOUS
      <4>1. tx' = [tx EXCEPT ![c].pc = "ended", ![c].result = "adapter-closed"]
        BY <3>2 DEF Begin
      <4> QED BY <1>7, <3>1, <4>1, TxEnds DEF Underway
    <3>4. adapter[Of(c)].status = "open"
      BY <1>1, <3>2, <3>3 DEF Begin, Typed, AdapterRecords
    <3> QED BY <1>1, <3>1, <3>4 DEF Usable
  <2> QED BY <2>1, <2>2
<1> QED BY <1>2, <1>5, <1>6, <1>7 DEF Unbroken

LEMMA StepOneByOne ==
  ASSUME LibsqlWellFormed, Typed, Locked, Writers, Counted, NEW c \in Clients,
         Step(c) \/ Undone(c) \/ Rollback(c) \/ Retry(c), ~MutateAtomically(c), ~Undone(c),
         NEW a \in Adapters, WrittenBy(setup, a)
  PROVE  OneByOne(a)'
<1>0. /\ OneByOne(a) /\ \A p \in handed : p[1] \in Nat
      /\ \A d \in Clients : tx[d].minted \in Nat
      /\ \A b \in Adapters : adapter[b].floor \in Nat
      /\ db.sequence \in Nat /\ db'.sequence \in Nat /\ db'.sequence >= db.sequence
  BY StepTyped, StepLocked DEF Counted, Typed, IsDatabase, TxRecords, AdapterRecords
<1>1. /\ setup' = setup /\ \A d \in Clients \ {c} : tx'[d] = tx[d] /\ Underway(d)' = Underway(d)
      /\ \A d \in Clients : Of(d) \in Adapters
  BY StepKeeps DEF Underway
<1>2. handed' = handed
  BY DEF Step, Begin, TakeNext, Acquire, GiveUp, ReadAlone, Commit, Committed, Answered, Rollback, Lost, Retry, End
<1>3. \A d \in Clients : Writing(d)' = Writing(d)
  BY StepWriters
<1>4. CASE Begin(c) /\ Writing(c) /\ tx'[c].pc # "ended"
  <2>1. /\ tx[c].pc = "idle" /\ tx'[c].pc = "waiting" /\ tx'[c].minted = adapter[Of(c)].floor
        /\ ~Underway(c) /\ adapter' = adapter /\ db' = db
    BY <1>4, StepMoves DEF Begin, Underway
  <2>2. Of(c) = a
    BY <1>4, WritersAdapter
  <2>3. \A d \in Clients : Writing(d) => ~Underway(d)
    <3> SUFFICES ASSUME NEW d \in Clients, Writing(d), Underway(d) PROVE FALSE
      OBVIOUS
    <3>1. Of(d) = a /\ d # c
      BY <2>1, WritersAdapter
    <3>2. CASE setup.alone
      BY <1>4, <2>2, <3>1, <3>2 DEF Begin
    <3>3. CASE ~setup.alone
      BY <1>4, <3>1, <3>3 DEF WrittenBy, Writing
    <3> QED BY <3>2, <3>3
  <2>4. \A p \in handed : p[1] <= db.sequence \/ p[1] <= adapter[a].floor
    BY <1>0, <2>3 DEF OneByOne
  <2>5. \A d \in Clients \ {c} : Writing(d) => ~Underway(d)' /\ tx'[d].pc # "waiting"
    BY <1>1, <2>3 DEF Underway
  <2>6. Underway(c)'
    BY <2>1 DEF Underway
  <2> QED BY <1>2, <1>3, <1>4, <2>1, <2>2, <2>4, <2>5, <2>6 DEF OneByOne
<1>5. CASE Writing(c) /\ (GiveUp(c) \/ Answered(c) \/ Rollback(c) \/ Lost(c))
  <2>1. Underway(c) /\ ~Underway(c)'
    <3>1. CASE GiveUp(c)
      BY <3>1, StepMoves DEF Underway
    <3>2. CASE Answered(c) \/ Rollback(c) \/ Lost(c)
      BY <3>2, StepMoves DEF Underway
    <3> QED BY <1>5, <3>1, <3>2
  <2>2. \A p \in handed : p[1] <= db.sequence \/ p[1] <= tx[c].minted
    BY <1>0, <1>5, <2>1 DEF OneByOne
  <2>3. Of(c) = a
    BY <1>5, WritersAdapter
  <2>4. \A p \in handed : p[1] <= db'.sequence \/ p[1] <= adapter'[a].floor
    <3>1. CASE GiveUp(c)
      <4>1. tx[c].minted = adapter[a].floor /\ adapter' = adapter /\ db' = db
        BY <1>0, <1>5, <3>1, StepMoves DEF GiveUp, OneByOne
      <4> QED BY <2>2, <4>1
    <3>2. CASE Answered(c)
      <4>1. tx[c].minted <= db.sequence /\ db' = db
        BY <3>2 DEF Answered, Locked
      <4> QED BY <1>0, <2>2, <4>1
    <3>3. CASE Rollback(c)
      <4>1. db'.sequence = SequenceKept(c)
        BY <3>3 DEF Rollback, Leave, Typed, IsDatabase
      <4>2. SequenceKept(c) >= db.sequence /\ SequenceKept(c) >= tx[c].minted
        <5>1. CASE tx[c].minted = 0
          BY <1>0, <5>1 DEF SequenceKept
        <5>2. CASE tx[c].minted # 0
          BY <1>0, <5>2, MaxOfTwo DEF SequenceKept
        <5> QED BY <5>1, <5>2
      <4> QED BY <1>0, <2>2, <4>1, <4>2
    <3>4. CASE Lost(c)
      <4>1. PICK n \in Nat : n = MaxOf(adapter[a].floor, tx[c].minted) /\ n >= tx[c].minted
        BY <1>0, MaxOfTwo
      <4>2. adapter' = [adapter EXCEPT ![a].floor = n] /\ db' = db
        BY <2>3, <3>4, <4>1 DEF Lost, End, FloorRaised
      <4>3. adapter'[a].floor = n
        BY <4>2 DEF Typed, AdapterRecords
      <4> QED BY <1>0, <2>2, <4>1, <4>2, <4>3
    <3> QED BY <1>5, <3>1, <3>2, <3>3, <3>4
  <2> QED BY <1>0, <1>1, <1>2, <1>3, <1>5, <2>1, <2>4, WriterEnds
<1>6. CASE \/ Begin(c) /\ (~Writing(c) \/ tx'[c].pc = "ended")
           \/ TakeNext(c) \/ Acquire(c) \/ ReadAlone(c) \/ Commit(c) \/ Committed(c) \/ Retry(c)
           \/ GiveUp(c) /\ ~Writing(c)
  <2>1. adapter' = adapter
    BY <1>6 DEF Begin, TakeNext, Acquire, ReadAlone, Commit, Committed, Retry, GiveUp
  <2>2. Writing(c) => /\ Underway(c)' = Underway(c)
                      /\ Underway(c) => tx'[c].minted = tx[c].minted /\ (tx'[c].pc = "waiting" => tx[c].pc = "waiting")
    <3>1. CASE Begin(c) /\ (~Writing(c) \/ tx'[c].pc = "ended")
      BY <3>1, StepMoves DEF Underway
    <3>2. CASE TakeNext(c) \/ Acquire(c) \/ Commit(c) \/ Committed(c) \/ Retry(c)
      BY <3>2, StepMoves DEF Underway
    <3>3. CASE ReadAlone(c)
      BY <3>3 DEF ReadAlone, Reads, Writing
    <3>4. CASE GiveUp(c) /\ ~Writing(c)
      BY <3>4
    <3> QED BY <1>6, <3>1, <3>2, <3>3, <3>4
  <2>3. \A d \in Clients : Writing(d) =>
          /\ Underway(d)' = Underway(d)
          /\ Underway(d) => tx'[d].minted = tx[d].minted /\ (tx'[d].pc = "waiting" => tx[d].pc = "waiting")
    BY <1>1, <2>2
  <2> QED BY <1>0, <1>2, <1>3, <2>1, <2>3, WritersStay
<1>7. Answered(c) \/ Rollback(c) \/ Lost(c) => Writing(c)
  BY StepMoves DEF Writers
<1>8. Begin(c) => tx'[c].pc = "ended" \/ tx'[c].pc = "waiting"
  BY StepMoves
<1> QED BY <1>4, <1>5, <1>6, <1>7, <1>8 DEF Step
LEMMA StepCounted ==
  ASSUME LibsqlWellFormed, InTurn, Typed, Locked, Files, Writers, Counted, NEW c \in Clients,
         Step(c) \/ Undone(c) \/ Rollback(c) \/ Retry(c)
  PROVE  Counted'
<1>1. CASE MutateAtomically(c) \/ Undone(c)
  BY <1>1, MintCounted
<1>2. CASE ~MutateAtomically(c) /\ ~Undone(c)
  <2>1. handed' = handed
    BY <1>2 DEF Step, Begin, TakeNext, Acquire, GiveUp, ReadAlone, Commit, Committed, Answered, Rollback, Lost,
          Retry, End
  <2>2. setup' = setup
    BY StepKeeps
  <2>3. Quiet(setup') => Unbroken'
    BY <1>2, <2>2, StepUnbroken
  <2>4. \A a \in Adapters : WrittenBy(setup', a) => OneByOne(a)'
    BY <1>2, <2>2, StepOneByOne
  <2>5. (\A p \in handed' : p[1] \in Nat) /\ TokensStandForOneValue'
    BY <2>1 DEF Counted, TokensStandForOneValue
  <2> QED BY <2>3, <2>4, <2>5 DEF Counted
<1> QED BY <1>1, <1>2

LEMMA OthersCounted ==
  ASSUME LibsqlWellFormed, Typed, Locked, Files, Counted, NEW b \in Adapters,
         Open(b) \/ Close(b) \/ ServerEndsTransaction
  PROVE  Counted'
<1>1. UNCHANGED <<setup, handed, tx>> /\ db' = db
  BY DEF Open, Close, ServerEndsTransaction, Leave
<1>2. /\ \A d \in Clients : Of(d) \in Adapters /\ Of(d)' = Of(d)
      /\ \A d \in Clients : Writing(d)' = Writing(d) /\ Underway(d)' = Underway(d)
  BY <1>1, NeedsType DEF Of, Writing, Underway
<1>3. \A a \in Adapters : adapter'[a].floor = adapter[a].floor
  <2>1. CASE Open(b)
    BY <2>1 DEF Open, Typed, AdapterRecords
  <2>2. CASE Close(b)
    BY <2>2 DEF Close, Typed, AdapterRecords
  <2>3. CASE ServerEndsTransaction
    BY <2>3 DEF ServerEndsTransaction
  <2> QED BY <2>1, <2>2, <2>3
<1>4. ASSUME Quiet(setup) PROVE Unbroken'
  <2>1. Unbroken
    BY <1>4 DEF Counted
  <2>2. ~ServerEndsTransaction
    <3>1. lock # Missing => lock \in Clients /\ Underway(lock)
      BY DEF Locked, Typed, Underway
    <3> QED BY <1>4, <2>1, <3>1 DEF ServerEndsTransaction, Unbroken, Quiet
  <2>3. draft' = draft /\ lock' = lock
    BY <2>2 DEF Open, Close
  <2>4. ASSUME NEW d \in Clients, Underway(d) PROVE Usable(Of(d))'
    <3>1. Usable(Of(d)) /\ Of(d) \in Adapters
      BY <1>2, <2>1, <2>4 DEF Unbroken
    <3>2. Of(d) # b
      BY <1>4, <2>2, <2>4, <3>1 DEF Open, Close, Quiet, Usable
    <3>3. adapter'[Of(d)] = adapter[Of(d)]
      BY <2>2, <3>1, <3>2 DEF Open, Close, Typed
    <3> QED BY <1>2, <3>1, <3>3 DEF Usable
  <2> QED BY <1>1, <1>2, <2>1, <2>3, <2>4 DEF Unbroken
<1>5. ASSUME NEW a \in Adapters, WrittenBy(setup, a) PROVE OneByOne(a)'
  <2>1. OneByOne(a) /\ (\A p \in handed : p[1] \in Nat) /\ db.sequence \in Nat
    BY <1>5 DEF Counted, Typed, IsDatabase
  <2> QED BY <1>1, <1>2, <1>3, <2>1, WritersStay
<1> QED BY <1>1, <1>4, <1>5 DEF Counted, TokensStandForOneValue

LEMMA CountedInit == LibsqlWellFormed /\ Init => Counted /\ Writers
<1> SUFFICES ASSUME Init, LibsqlWellFormed PROVE Counted /\ Writers
  OBVIOUS
<1>1. /\ handed = {} /\ \A c \in Clients : tx[c].pc = "idle" /\ ~Underway(c)
  BY DEF Init, Underway
<1> QED BY <1>1 DEF Counted, Writers, OneByOne, Unbroken, TokensStandForOneValue

--------------------
(* Receipts: those of d name numbers that h has and that d's sequence is
   past. *)
NamedIn(d, h) ==
  \A k \in Keys : d.receipts[k] # Missing =>
    \A i \in DOMAIN d.receipts[k].versions :
      /\ d.receipts[k].versions[i] \in Nat
      /\ <<d.receipts[k].versions[i], d.receipts[k].digest>> \in h
      /\ d.receipts[k].versions[i] <= d.sequence

Named == NamedIn(db, handed) /\ NamedIn(draft, handed)

LEMMA NamedStays ==
  ASSUME NEW d, NEW e, NEW h, NEW g, NamedIn(d, h), h \subseteq g, e.receipts = d.receipts,
         d.sequence \in Nat, e.sequence \in Nat, e.sequence >= d.sequence
  PROVE  NamedIn(e, g)
BY DEF NamedIn

LEMMA AppliedNamed ==
  ASSUME Typed, Named, NEW o, o.writes \in Seq(Targets), NEW g,
         g = handed \cup {<<Issued(o, i), o.digest>> : i \in DOMAIN o.writes}
  PROVE  NamedIn(Applied(o), g)
<1>1. PICK s \in Nat : s = draft.sequence
  BY DEF Typed, IsDatabase
<1>2. PICK n \in Nat : n = Len(o.writes) /\ DOMAIN o.writes = 1 .. n
  BY LenProperties
<1>3. Applied(o).sequence = s + n
  BY <1>1, <1>2 DEF Applied
<1>4. SUFFICES ASSUME NEW k \in Keys, Applied(o).receipts[k] # Missing,
                      NEW i \in DOMAIN Applied(o).receipts[k].versions
               PROVE  /\ Applied(o).receipts[k].versions[i] \in Nat
                      /\ <<Applied(o).receipts[k].versions[i], Applied(o).receipts[k].digest>> \in g
                      /\ Applied(o).receipts[k].versions[i] <= s + n
  BY <1>3 DEF NamedIn
<1>5. draft.receipts = [j \in Keys |-> draft.receipts[j]]
  BY DEF Typed, IsDatabase
<1>6. CASE o.key # NoKey /\ o.key = k
  <2>1. Applied(o).receipts[k] = [digest |-> o.digest, versions |-> Expected(o)]
    BY <1>5, <1>6 DEF Applied
  <2>2. Applied(o).receipts[k].digest = o.digest /\ Applied(o).receipts[k].versions = [j \in 1 .. n |-> s + j]
    BY <1>1, <1>2, <2>1 DEF Expected, Versions, Issued
  <2>3. i \in 1 .. n /\ Applied(o).receipts[k].versions[i] = s + i
    BY <2>2
  <2>4. <<s + i, o.digest>> \in g
    BY <1>1, <1>2, <2>3 DEF Issued
  <2> QED BY <2>2, <2>3, <2>4
<1>7. CASE o.key = NoKey \/ o.key # k
  <2>1. Applied(o).receipts[k] = draft.receipts[k]
    BY <1>5, <1>7 DEF Applied
  <2>2. /\ draft.receipts[k].versions[i] \in Nat
        /\ <<draft.receipts[k].versions[i], draft.receipts[k].digest>> \in handed
        /\ draft.receipts[k].versions[i] <= s
    BY <1>1, <1>4, <2>1 DEF Named, NamedIn
  <2>3. draft.receipts[k].versions[i] <= s + n
    BY <2>2
  <2> QED BY <2>1, <2>2, <2>3
<1> QED BY <1>6, <1>7

LEMMA StepNamed ==
  ASSUME LibsqlWellFormed, Typed, Typed', Locked, Named, NEW c \in Clients,
         Step(c) \/ Undone(c) \/ Rollback(c) \/ Retry(c)
  PROVE  Named'
<1>0. /\ db.sequence \in Nat /\ draft.sequence \in Nat /\ draft'.sequence \in Nat /\ db'.sequence \in Nat
      /\ NamedIn(db, handed) /\ NamedIn(draft, handed) /\ tx[c].minted \in Nat
  BY DEF Typed, IsDatabase, Named, TxRecords
<1>1. CASE Acquire(c)
  <2>1. /\ draft' = [db EXCEPT !.sequence = MaxOf(db.sequence, tx[c].minted)]
        /\ db' = db /\ handed' = handed
    BY <1>1 DEF Acquire
  <2>2. draft'.receipts = db.receipts /\ draft'.sequence = MaxOf(db.sequence, tx[c].minted)
    BY <2>1 DEF Typed, IsDatabase
  <2>3. draft'.sequence >= db.sequence
    BY <1>0, <2>2, MaxOfTwo
  <2>4. NamedIn(draft', handed')
    BY <1>0, <2>1, <2>2, <2>3, NamedStays
  <2> QED BY <1>0, <2>1, <2>4 DEF Named
<1>2. CASE MutateAtomically(c)
  <2>1. CASE Refused(Operation(c))
    BY <1>0, <1>2, <2>1 DEF MutateAtomically, Named
  <2>2. CASE ~Refused(Operation(c))
    <3>1. PICK o : o = Operation(c) /\ o.writes \in Seq(Targets)
      BY <1>2, OperationFits DEF MutateAtomically
    <3>2. /\ draft' = Applied(o) /\ db' = db
          /\ handed' = handed \cup {<<Issued(o, i), o.digest>> : i \in DOMAIN o.writes}
      BY <1>2, <2>2, <3>1 DEF MutateAtomically
    <3>3. NamedIn(draft', handed')
      BY <3>1, <3>2, AppliedNamed
    <3>4. NamedIn(db', handed')
      BY <1>0, <3>2, NamedStays
    <3> QED BY <3>3, <3>4 DEF Named
  <2> QED BY <2>1, <2>2
<1>3. CASE Undone(c)
  <2>1. /\ draft' = [draft EXCEPT !.sequence = SequenceAfterUndo(c, Operation(c))]
        /\ db' = db /\ handed \subseteq handed'
    BY <1>3 DEF Undone
  <2>2. draft'.receipts = draft.receipts /\ draft'.sequence = SequenceAfterUndo(c, Operation(c))
    BY <2>1 DEF Typed, IsDatabase
  <2>3. PICK n \in Nat : n = draft.sequence + Len(Operation(c).writes)
    BY <1>0, <1>3, OperationFits, LenProperties DEF Undone
  <2>4. draft'.sequence >= draft.sequence
    BY <1>0, <2>2, <2>3, MaxOfTwo DEF SequenceAfterUndo
  <2>5. NamedIn(draft', handed')
    BY <1>0, <2>1, <2>2, <2>4, NamedStays
  <2>6. NamedIn(db', handed')
    BY <1>0, <2>1, NamedStays
  <2> QED BY <2>5, <2>6 DEF Named
<1>4. CASE Committed(c)
  BY <1>0, <1>4 DEF Committed, Leave, Named
<1>5. CASE Rollback(c)
  <2>1. db' = [db EXCEPT !.sequence = SequenceKept(c)] /\ draft' = db' /\ handed' = handed
    BY <1>5 DEF Rollback, Leave, End
  <2>2. db'.receipts = db.receipts /\ db'.sequence = SequenceKept(c)
    BY <2>1 DEF Typed, IsDatabase
  <2>3. db'.sequence >= db.sequence
    BY <2>2, Counts
  <2>4. NamedIn(db', handed')
    BY <1>0, <2>1, <2>2, <2>3, NamedStays
  <2> QED BY <2>1, <2>4 DEF Named
<1>6. CASE Begin(c) \/ TakeNext(c) \/ GiveUp(c) \/ ReadAlone(c) \/ Commit(c) \/ Answered(c) \/ Lost(c) \/ Retry(c)
  <2>1. UNCHANGED <<db, draft, handed>>
    BY <1>6 DEF Begin, TakeNext, GiveUp, ReadAlone, Commit, Answered, Lost, Retry, End
  <2> QED BY <1>0, <2>1 DEF Named
<1> QED BY <1>1, <1>2, <1>3, <1>4, <1>5, <1>6 DEF Step

LEMMA OthersNamed ==
  ASSUME Named, NEW a \in Adapters, Open(a) \/ Close(a) \/ ServerEndsTransaction
  PROVE  Named'
BY DEF Open, Close, ServerEndsTransaction, Leave, Named

--------------------
(* The invariants. *)
Inductive == Typed /\ Locked /\ Files /\ Lines /\ Writers /\ Named

LEMMA InductiveInit == LibsqlWellFormed /\ Init => Inductive
<1> SUFFICES ASSUME LibsqlWellFormed, Init PROVE Inductive
  OBVIOUS
<1>1. Named
  <2>1. \A k \in Keys : db.receipts[k] = Missing
    BY DEF Init
  <2>2. draft = db
    BY DEF Init
  <2> QED BY <2>1, <2>2 DEF Named, NamedIn
<1> QED BY <1>1, LibsqlInit, FilesInit, LinesInit, CountedInit DEF Inductive

LEMMA InductiveNext ==
  ASSUME LibsqlWellFormed, Inductive, [Next]_libsqlVars
  PROVE  Inductive'
<1> USE DEF Inductive
<1>1. ASSUME NEW c \in Clients, Step(c) \/ Undone(c) \/ Rollback(c) \/ Retry(c)
      PROVE  Inductive'
  BY <1>1, StepTyped, StepLocked, StepFiles, StepLines, StepWriters, StepNamed
<1>2. ASSUME NEW a \in Adapters, Open(a) \/ Close(a) \/ ServerEndsTransaction
      PROVE  Inductive'
  <2>1. Typed'
    BY <1>2, OpenTyped, OthersTyped
  <2>2. Files'
    BY <1>2, OpenFiles, CloseFiles, ServerFiles
  <2>3. Writers'
    BY <1>2 DEF Open, Close, ServerEndsTransaction, Writers, Writing
  <2> QED BY <1>2, <2>1, <2>2, <2>3, OthersLocked, OthersLines, OthersNamed
<1>3. CASE UNCHANGED libsqlVars
  <2>1. UNCHANGED <<setup, db, lock, draft, line, entry, adapter, tx, handed>>
    BY <1>3 DEF libsqlVars
  <2>2. Typed' /\ Locked' /\ Writers' /\ Named'
    BY <2>1 DEF Typed, IsDatabase, Locked, Writers, Writing, Named
  <2>3. Files'
    BY <2>1 DEF Files, Opened, Usable, Underway, Of
  <2>4. \A d \in Clients : Underway(d)' = Underway(d) /\ Needs(d)' = Needs(d)
    BY <2>1 DEF Underway, Needs, Reads, Of
  <2>5. Lines'
    BY <2>1, <2>4, LinesStay
  <2> QED BY <2>2, <2>3, <2>5
<1>4. Adapters # {} \/ ~ServerEndsTransaction
  <2>1. lock # Missing => lock \in Clients /\ Of(lock) \in Adapters
    BY NeedsType DEF Typed
  <2> QED BY <2>1 DEF ServerEndsTransaction
<1> QED BY <1>1, <1>2, <1>3, <1>4 DEF Next

LEMMA CountedNext ==
  ASSUME LibsqlWellFormed, InTurn, Inductive, Counted, [Next]_libsqlVars
  PROVE  Counted'
<1> USE DEF Inductive
<1>1. ASSUME NEW c \in Clients, Step(c) \/ Undone(c) \/ Rollback(c) \/ Retry(c)
      PROVE  Counted'
  BY <1>1, StepCounted
<1>2. ASSUME NEW a \in Adapters, Open(a) \/ Close(a) \/ ServerEndsTransaction
      PROVE  Counted'
  BY <1>2, OthersCounted
<1>3. CASE UNCHANGED libsqlVars
  BY <1>3 DEF libsqlVars, Counted, OneByOne, Unbroken, TokensStandForOneValue, Usable, Underway, Of, Writing
<1>4. Adapters # {} \/ ~ServerEndsTransaction
  <2>1. lock # Missing => lock \in Clients /\ Of(lock) \in Adapters
    BY NeedsType DEF Typed
  <2> QED BY <2>1 DEF ServerEndsTransaction
<1> QED BY <1>1, <1>2, <1>3, <1>4 DEF Next

(* Transactions of adapters that share a file or a server, whatever the
   faults: the draft of the one that holds the lock only adds to the
   database's sequence, and nobody but clients under way hold or await the
   process's mutexes. *)
THEOREM LibsqlTypes ==
  ASSUME LibsqlWellFormed
  PROVE  Spec => []TypeOK
<1>1. Inductive => TypeOK
  <2> SUFFICES ASSUME Inductive PROVE TypeOK
    OBVIOUS
  <2>1. db.sequence \in Nat /\ draft.sequence \in Nat /\ \A a \in Adapters : adapter[a].floor \in Nat
    BY DEF Inductive, Typed, IsDatabase, AdapterRecords
  <2>2. draft.sequence >= db.sequence /\ (lock = Missing => draft = db)
    <3>1. CASE lock = Missing
      BY <2>1, <3>1 DEF Inductive, Locked
    <3>2. CASE lock # Missing
      <4>1. draft.sequence = MaxOf(db.sequence, tx[lock].minted) /\ tx[lock].minted \in Nat
        BY <3>2 DEF Inductive, Locked, Typed, TxRecords
      <4> QED BY <2>1, <3>2, <4>1, MaxOfTwo
    <3> QED BY <3>1, <3>2
  <2>3. \A m \in Mutexes : \A i \in DOMAIN line[m] : Underway(line[m][i])
    BY DEF Inductive, Lines, Waiting
  <2> QED BY <2>1, <2>2, <2>3 DEF TypeOK
<1>2. Init => Inductive
  BY InductiveInit
<1>3. Inductive /\ [Next]_libsqlVars => Inductive'
  BY InductiveNext
<1> QED BY <1>1, <1>2, <1>3, PTL DEF Spec

(* However adapters of one process open and close, those that are open on
   one file take turns by the same lock. *)
THEOREM OneLockPerFileHolds ==
  ASSUME LibsqlWellFormed
  PROVE  Spec => []OneLockPerFile
<1>1. Inductive => OneLockPerFile
  BY DEF Inductive, Files, Opened, OneLockPerFile
<1>2. Init => Inductive
  BY InductiveInit
<1>3. Inductive /\ [Next]_libsqlVars => Inductive'
  BY InductiveNext
<1> QED BY <1>1, <1>2, <1>3, PTL DEF Spec

(* A receipt that is in the database names the numbers that its own
   request was given, and the sequence never issues them again. *)
THEOREM ReceiptsNameTheirTokensHolds ==
  ASSUME LibsqlWellFormed
  PROVE  Spec => []ReceiptsNameTheirTokens
<1>1. Inductive => ReceiptsNameTheirTokens
  BY DEF Inductive, Named, NamedIn, ReceiptsNameTheirTokens
<1>2. Init => Inductive
  BY InductiveInit
<1>3. Inductive /\ [Next]_libsqlVars => Inductive'
  BY InductiveNext
<1> QED BY <1>1, <1>2, <1>3, PTL DEF Spec

(* A number that was handed out stands for one value for ever, where no
   transaction ends but by its client, or where those that write share an
   adapter and one has ended before the next begins. *)
THEOREM NumbersStandForOneValue ==
  ASSUME LibsqlWellFormed, InTurn
  PROVE  Spec => []TokensStandForOneValue
<1>1. Counted => TokensStandForOneValue
  BY DEF Counted
<1>2. Init => Inductive /\ Counted
  BY InductiveInit, CountedInit
<1>3. Inductive /\ Counted /\ [Next]_libsqlVars => Inductive' /\ Counted'
  BY InductiveNext, CountedNext
<1> QED BY <1>1, <1>2, <1>3, PTL DEF Spec

--------------------
(* Objects in SurrealDB *)

Str == INSTANCE SurrealObjects
         WITH Setups <- StreamSetups, Calls <- StreamCalls, Lease <- UploadLease, setup <- stream, lock <- keyLock

StreamKinds == {"create", "overwrite", "read", "delete", "scavenge"}

StreamPlaces ==
  {"idle", "create", "writing", "renew", "insert", "check", "count", "compare", "generation", "point", "settle",
   "undo", "undoChunks", "gc", "current", "drop", "dropUpload", "dropChunks", "unpoint", "retain", "stream", "release",
   "ended", "died"}

StreamAnswers == {"failed", "exists", "stored", "absent", "deleted", "whole", "torn"}

StreamRecords ==
  [pc : StreamPlaces, todo : SUBSET StreamCalls, then : StreamPlaces, n : Nat, renewAt : Nat,
   found : StreamCalls \cup {Missing}, clash : BOOLEAN, late : BOOLEAN, answer : StreamAnswers \cup {Missing}]

(* What is asked of the setups: that calls are requests of the processes
   there are, and the mark for nothing is no time, call or answer. *)
StreamsWellFormed ==
  /\ Missing \notin Nat \cup StreamCalls \cup StreamAnswers
  /\ UploadLease \in Nat /\ RenewEvery \in Nat /\ Size \in Nat
  /\ \A s \in StreamSetups :
       /\ s.punctual \in BOOLEAN
       /\ DOMAIN s.requests \subseteq StreamCalls
       /\ \A c \in DOMAIN s.requests : s.requests[c] \in StreamKinds /\ s.process[c] \in Str!Processes

StreamsTyped ==
  /\ stream \in StreamSetups /\ clock \in Nat /\ pointer \in StreamCalls \cup {Missing}
  /\ uploads \in [StreamCalls -> Nat \cup {Missing}] /\ generations \subseteq StreamCalls
  /\ chunks \in [StreamCalls -> SUBSET Nat]
  /\ keyLock \in [Str!Processes -> StreamCalls \cup {Missing}]
  /\ reads \in [Str!Processes -> SUBSET StreamCalls] /\ pending \in [Str!Processes -> SUBSET StreamCalls]
  /\ call \in [StreamCalls -> StreamRecords]

--------------------
(* The invariant *)

(* Who has the lock of the key in its process is at one of these places. *)
LockedPlaces == {"check", "count", "compare", "generation", "point", "settle", "unpoint"}

PutPlaces ==
  {"create", "writing", "renew", "insert", "check", "count", "compare", "generation", "point", "settle", "undo",
   "undoChunks"}

Held ==
  /\ \A p \in Str!Processes : keyLock[p] # Missing =>
       keyLock[p] \in Str!Asked /\ Str!Of(keyLock[p]) = p /\ call[keyLock[p]].pc \in LockedPlaces
  /\ \A c \in Str!Asked : call[c].pc \in LockedPlaces => keyLock[Str!Of(c)] = c

Drops(d) == call[d].pc \in {"drop", "dropUpload", "dropChunks"}

(* What a call has at each place. *)
Shape(c) ==
  /\ c \notin Str!Asked => call[c].pc = "idle"
  /\ call[c].pc \in PutPlaces => Str!IsPut(c)
  /\ call[c].pc \in {"gc", "current"} => call[c].found # Missing
  /\ call[c].pc = "retain" => ~Str!IsPut(c) /\ call[c].found # Missing
  /\ call[c].pc \in {"stream", "release"} => ~Str!IsPut(c) /\ call[c].found # Missing /\ c \in reads[Str!Of(c)]
  /\ Drops(c) => call[c].then \in {"create", "ended"} /\ (call[c].then = "create" => Str!IsPut(c))
  /\ call[c].pc \in {"dropUpload", "dropChunks"} => call[c].found \in call[c].todo

(* A put that has not made its upload yet. *)
Fresh(g) == call[g].pc \in {"idle", "create"} \/ (Drops(g) /\ call[g].then = "create")

Shaped ==
  /\ \A c \in StreamCalls : Shape(c)
  /\ \A g \in StreamCalls : chunks[g] # {} \/ uploads[g] # Missing => g \in Str!Asked /\ Str!IsPut(g) /\ ~Fresh(g)
  /\ \A p \in Str!Processes : \A r \in reads[p] :
       r \in Str!Asked /\ Str!Of(r) = p /\ call[r].pc \in {"stream", "release"}

(* Uploads under way have not expired, if puts keep their leases. *)
InLease ==
  stream.punctual => \A c \in Str!Asked : Str!UnderWay(c) /\ uploads[c] # Missing => uploads[c] >= clock

(* In one process, whoever is about to point the key, or just did, knows
   what it pointed at. *)
Unraced ==
  /\ \A c \in Str!Asked : ~call[c].clash
  /\ \A c \in Str!Asked :
       /\ call[c].pc \in {"generation", "point"} => call[c].found = pointer
       /\ call[c].pc = "settle" => pointer = c

(* A put that pointed the key, or ended, and will not point it again. *)
Over(g) == call[g].pc \in {"gc", "current", "ended", "died"} \/ (Drops(g) /\ call[g].then = "ended")

Past(g) == call[g].pc = "settle" \/ Over(g)

Undropped(g) == \A d \in StreamCalls : Drops(d) => g \notin call[d].todo

(* A generation that is whole, and that nobody drops or will scavenge. *)
Sound(g) ==
  /\ Past(g) /\ chunks[g] = 1 .. Size
  /\ call[g].pc = "settle" \/ uploads[g] = Missing
  /\ Undropped(g)

Orderly == stream.punctual /\ ~Str!Fails("query") /\ ~Str!Unsettled

FoundPlaces == {"generation", "point", "settle", "gc", "current", "retain", "stream", "release"}

Kept ==
  /\ pointer # Missing => Sound(pointer)
  /\ \A d \in StreamCalls : Drops(d) => \A g \in call[d].todo : Past(g)
  /\ \A d \in StreamCalls :
       call[d].pc \in FoundPlaces /\ call[d].found # Missing => Past(call[d].found)
  /\ \A c \in StreamCalls : call[c].pc \in {"compare", "generation", "point"} => chunks[c] = 1 .. Size
  /\ \A g \in generations : Past(g) \/ call[g].pc = "point"

Uncollected(g) == \A d \in StreamCalls : call[d].pc = "current" => call[d].found # g

(* What a get found is sound until somebody drops it; a stream that kept
   it before that is whole, and nobody comes to drop what it reads. *)
Streamed ==
  \A c \in StreamCalls :
    /\ call[c].pc = "retain" => Sound(call[c].found) \/ Str!IsDropped(call[c].found)
    /\ call[c].pc = "stream" /\ ~call[c].late => Sound(call[c].found) /\ Uncollected(call[c].found)
    /\ call[c].answer = "torn" => call[c].late
    /\ call[c].pc \in {"idle", "retain"} => call[c].answer # "torn"

(* In one process, and while nobody died: whose chunks or rows there are
   is pointed at, uploading, or somebody is to drop it. *)
Claimed(g) ==
  \/ g = pointer \/ uploads[g] # Missing \/ call[g].pc = "undoChunks"
  \/ \E d \in StreamCalls : call[d].pc \in {"settle", "gc", "current"} /\ call[d].found = g
  \/ \E d \in StreamCalls : Drops(d) /\ g \in call[d].todo
  \/ \E p \in Str!Processes : g \in pending[p] /\ Str!StreamsOf(p, g) # {}

Remembered ==
  /\ \A c \in StreamCalls : call[c].pc \in Str!Guarded \cup {"undo"} => uploads[c] # Missing
  /\ \A d \in StreamCalls : call[d].pc \in {"dropUpload", "dropChunks"} => call[d].found \notin generations
  /\ (\A c \in StreamCalls : call[c].pc # "died") =>
       \A g \in StreamCalls : chunks[g] # {} \/ g \in generations => Claimed(g)

StreamsInv ==
  /\ StreamsTyped /\ Held /\ Shaped /\ InLease
  /\ Str!OneProcess => Unraced
  /\ Orderly => Kept
  /\ Orderly /\ Str!OneProcess => Streamed /\ Remembered

--------------------
(* What steps do *)

StillTables == pointer' = pointer /\ uploads' = uploads /\ generations' = generations /\ chunks' = chunks

StillMemory == keyLock' = keyLock /\ reads' = reads /\ pending' = pending

Moved(c, to, todo, then, found, answer, clash) ==
  /\ \A d \in StreamCalls \ {c} : call'[d] = call[d]
  /\ call'[c].pc = to /\ call'[c].todo = todo /\ call'[c].then = then /\ call'[c].found = found
  /\ call'[c].answer = answer /\ call'[c].clash = clash /\ call'[c].late = call[c].late

Ends(c, to, answer) == Moved(c, to, call[c].todo, call[c].then, call[c].found, answer, call[c].clash)

Goes(c, to) == Ends(c, to, call[c].answer)

Frees(c) ==
  /\ \A p \in Str!Processes : keyLock'[p] = IF p = Str!Of(c) /\ keyLock[p] = c THEN Missing ELSE keyLock[p]
  /\ reads' = reads /\ pending' = pending

Locks(c) ==
  /\ keyLock[Str!Of(c)] = Missing /\ keyLock'[Str!Of(c)] = c
  /\ \A p \in Str!Processes \ {Str!Of(c)} : keyLock'[p] = keyLock[p]
  /\ reads' = reads /\ pending' = pending

(* Only g's upload, chunks or row are touched. *)
UploadsOf(g) == pointer' = pointer /\ generations' = generations /\ chunks' = chunks
                /\ \A h \in StreamCalls \ {g} : uploads'[h] = uploads[h]

ChunksOf(g) == pointer' = pointer /\ generations' = generations /\ uploads' = uploads
               /\ \A h \in StreamCalls \ {g} : chunks'[h] = chunks[h]

Onto(c) == IF Str!IsPut(c) THEN "create" ELSE "ended"

Began(c) ==
  /\ call[c].pc = "idle" /\ (Str!IsPut(c) \/ Str!Kind(c) = "scavenge") /\ StillTables /\ StillMemory
  /\ \/ Goes(c, Onto(c))
     \/ \E stale \in SUBSET StreamCalls :
          /\ \A g \in stale : Str!Expired(g)
          /\ Moved(c, "drop", stale, Onto(c), call[c].found, call[c].answer, call[c].clash)

Leased(c) ==
  /\ call[c].pc = "create" /\ Goes(c, "writing") /\ UploadsOf(c) /\ StillMemory
  /\ uploads'[c] \in Nat /\ uploads'[c] >= clock

Looked(c) ==
  /\ call[c].pc = "writing" /\ StillTables /\ StillMemory
  /\ Goes(c, "undo") \/ Goes(c, "renew") \/ Goes(c, "insert")

Renewed(c) ==
  /\ call[c].pc = "renew" /\ Goes(c, "writing") /\ UploadsOf(c) /\ StillMemory
  /\ IF uploads[c] = Missing THEN uploads'[c] = Missing ELSE uploads'[c] \in Nat /\ uploads'[c] >= clock

Inserted(c) == call[c].pc = "insert" /\ Goes(c, "writing") /\ ChunksOf(c) /\ StillMemory

Finalized(c) == call[c].pc = "writing" /\ Goes(c, "check") /\ StillTables /\ Locks(c)

Clashed(c) ==
  /\ call[c].pc \in {"check", "count", "compare"} /\ StillTables /\ Frees(c)
  /\ \E answer \in {"failed", "exists"} : Ends(c, "undo", answer)

Checked(c) ==
  /\ StillTables /\ StillMemory
  /\ \/ call[c].pc = "check" /\ Goes(c, "count")
     \/ call[c].pc = "count" /\ Goes(c, "compare") /\ chunks[c] = 1 .. Size
     \/ call[c].pc = "compare"
        /\ Moved(c, "generation", call[c].todo, call[c].then, pointer, call[c].answer, call[c].clash)

Generated(c) ==
  /\ call[c].pc = "generation" /\ Goes(c, "point") /\ StillMemory
  /\ pointer' = pointer /\ uploads' = uploads /\ chunks' = chunks /\ generations' = generations \cup {c}

Pointed(c) ==
  /\ call[c].pc = "point" /\ StillMemory
  /\ Moved(c, "settle", call[c].todo, call[c].then, call[c].found, call[c].answer, pointer # call[c].found)
  /\ pointer' = c /\ uploads' = uploads /\ chunks' = chunks /\ generations' = generations

Settled(c) ==
  /\ call[c].pc = "settle" /\ Frees(c) /\ UploadsOf(c) /\ uploads'[c] = Missing
  /\ IF call[c].found = Missing THEN Ends(c, "ended", "stored") ELSE Ends(c, "gc", "stored")

Erased(c) ==
  /\ call[c].pc = "undo" /\ StillMemory /\ UploadsOf(c) /\ uploads'[c] = Missing
  /\ IF uploads[c] = Missing THEN Goes(c, "ended") ELSE Goes(c, "undoChunks")

UndoneChunks(c) ==
  call[c].pc = "undoChunks" /\ Goes(c, "ended") /\ StillMemory /\ ChunksOf(c) /\ chunks'[c] = {}

Left(c) ==
  /\ StillTables /\ keyLock' = keyLock /\ reads' = reads
  /\ \/ call[c].pc = "current" /\ pointer = call[c].found /\ pending' = pending /\ Goes(c, "ended")
     \/ /\ call[c].pc = "gc" /\ Str!StreamsOf(Str!Of(c), call[c].found) = {}
        /\ pending' = pending /\ Goes(c, "current")
     \/ /\ call[c].pc = "gc" /\ Str!StreamsOf(Str!Of(c), call[c].found) # {} /\ Goes(c, "ended")
        /\ pending'[Str!Of(c)] = pending[Str!Of(c)] \cup {call[c].found}
        /\ \A p \in Str!Processes \ {Str!Of(c)} : pending'[p] = pending[p]

Collected(c) ==
  /\ call[c].pc = "current" /\ StillTables /\ StillMemory /\ pointer # call[c].found
  /\ Moved(c, "drop", {call[c].found}, "ended", call[c].found, call[c].answer, call[c].clash)

(* The row of the generation, and then that of its upload. *)
DroppedRows(c) ==
  /\ StillMemory /\ pointer' = pointer /\ chunks' = chunks
  /\ \/ /\ call[c].pc = "drop" /\ uploads' = uploads
        /\ \E g \in call[c].todo :
             /\ generations' = generations \ {g}
             /\ Moved(c, "dropUpload", call[c].todo, call[c].then, g, call[c].answer, call[c].clash)
     \/ /\ call[c].pc = "dropUpload" /\ generations' = generations /\ uploads'[call[c].found] = Missing
        /\ \A h \in StreamCalls \ {call[c].found} : uploads'[h] = uploads[h]
        /\ Goes(c, "dropChunks")

DroppedChunks(c) ==
  /\ call[c].pc = "dropChunks" /\ StillMemory /\ ChunksOf(call[c].found) /\ chunks'[call[c].found] = {}
  /\ \E to \in {call[c].then, "drop"} :
       /\ to = "drop" \/ call[c].todo \ {call[c].found} = {}
       /\ Moved(c, to, call[c].todo \ {call[c].found}, call[c].then, Missing, call[c].answer, call[c].clash)

LockedToDelete(c) ==
  call[c].pc = "idle" /\ Str!Kind(c) = "delete" /\ Goes(c, "unpoint") /\ StillTables /\ Locks(c)

Unpointed(c) ==
  /\ call[c].pc = "unpoint" /\ Frees(c)
  /\ pointer' = Missing /\ uploads' = uploads /\ chunks' = chunks /\ generations' = generations
  /\ IF pointer = Missing THEN Ends(c, "ended", "absent")
     ELSE Moved(c, "gc", call[c].todo, call[c].then, pointer, "deleted", call[c].clash)

(* A get reads the pointer, and then keeps what it names. *)
Got(c) ==
  /\ StillTables /\ keyLock' = keyLock /\ pending' = pending
  /\ \/ /\ call[c].pc = "idle" /\ Str!Kind(c) = "read" /\ reads' = reads
        /\ IF pointer = Missing THEN Ends(c, "ended", "absent")
           ELSE Moved(c, "retain", call[c].todo, call[c].then, pointer, call[c].answer, call[c].clash)
     \/ /\ call[c].pc = "retain" /\ (call'[c].late <=> Str!IsDropped(call[c].found))
        /\ \A d \in StreamCalls \ {c} : call'[d] = call[d]
        /\ call'[c].pc = "stream" /\ call'[c].todo = call[c].todo /\ call'[c].then = call[c].then
        /\ call'[c].found = call[c].found /\ call'[c].answer = call[c].answer /\ call'[c].clash = call[c].clash
        /\ reads'[Str!Of(c)] = reads[Str!Of(c)] \cup {c}
        /\ \A p \in Str!Processes \ {Str!Of(c)} : reads'[p] = reads[p]

Listed(c) ==
  /\ call[c].pc = "stream" /\ StillTables /\ StillMemory
  /\ IF chunks[call[c].found] = 1 .. Size THEN Ends(c, "release", "whole") ELSE Ends(c, "release", "torn")

LetGo(c) ==
  /\ call[c].pc = "release" /\ StillTables /\ keyLock' = keyLock
  /\ reads'[Str!Of(c)] = reads[Str!Of(c)] \ {c}
  /\ \A p \in Str!Processes \ {Str!Of(c)} : reads'[p] = reads[p] /\ pending'[p] = pending[p]
  /\ \/ /\ ~(Str!StreamsOf(Str!Of(c), call[c].found) \subseteq {c})
        /\ pending'[Str!Of(c)] = pending[Str!Of(c)] /\ Goes(c, "ended")
     \/ /\ Str!StreamsOf(Str!Of(c), call[c].found) \subseteq {c}
        /\ pending'[Str!Of(c)] = pending[Str!Of(c)] \ {call[c].found}
        /\ IF call[c].found \in pending[Str!Of(c)] THEN Goes(c, "current") ELSE Goes(c, "ended")

Failed(c) ==
  /\ Str!Fails("query") /\ StillTables /\ Frees(c)
  /\ call[c].pc \notin {"idle", "gc", "retain", "release", "ended", "died"}
  /\ \E to \in {"undo", "release", "ended"} :
       /\ Ends(c, to, "failed")
       /\ to = "undo" => Str!IsPut(c)
       /\ to = "release" <=> call[c].pc = "stream"

StreamStep(c) ==
  \/ Began(c) \/ Leased(c) \/ Looked(c) \/ Renewed(c) \/ Inserted(c) \/ Finalized(c) \/ Clashed(c) \/ Checked(c)
  \/ Generated(c) \/ Pointed(c) \/ Settled(c) \/ Erased(c) \/ UndoneChunks(c) \/ Left(c) \/ Collected(c)
  \/ DroppedRows(c) \/ DroppedChunks(c) \/ LockedToDelete(c) \/ Unpointed(c) \/ Got(c) \/ Listed(c)
  \/ LetGo(c) \/ Failed(c)

Dies(p) ==
  /\ \E c \in StreamCalls : Str!UnderWay(c) /\ Str!Of(c) = p
  /\ \A c \in StreamCalls :
       IF Str!UnderWay(c) /\ Str!Of(c) = p
         THEN call'[c].pc = "died" /\ call'[c].then = call[c].pc /\ call'[c].found = call[c].found
              /\ call'[c].answer = call[c].answer /\ call'[c].clash = call[c].clash /\ call'[c].late = call[c].late
         ELSE call'[c] = call[c]
  /\ keyLock'[p] = Missing /\ reads'[p] = {} /\ pending'[p] = {}
  /\ \A q \in Str!Processes \ {p} : keyLock'[q] = keyLock[q] /\ reads'[q] = reads[q] /\ pending'[q] = pending[q]
  /\ StillTables
--------------------
LEMMA RequestFacts ==
  ASSUME StreamsWellFormed, stream \in StreamSetups
  PROVE  /\ Str!Asked \subseteq StreamCalls /\ stream.punctual \in BOOLEAN
         /\ \A c \in Str!Asked : Str!Kind(c) \in StreamKinds /\ Str!Of(c) \in Str!Processes
         /\ Missing \notin Nat /\ Missing \notin StreamCalls /\ Missing \notin StreamAnswers
         /\ UploadLease \in Nat /\ RenewEvery \in Nat /\ Size \in Nat
BY DEF StreamsWellFormed, Str!Asked, Str!Kind, Str!Of

LEMMA BecomeRecord ==
  ASSUME StreamsTyped, NEW c \in StreamCalls, NEW place \in StreamPlaces
  PROVE  /\ Str!Become(c, place) \in StreamRecords /\ Str!Become(c, place).pc = place
         /\ Str!Become(c, place).todo = call[c].todo /\ Str!Become(c, place).then = call[c].then
         /\ Str!Become(c, place).found = call[c].found /\ Str!Become(c, place).answer = call[c].answer
         /\ Str!Become(c, place).clash = call[c].clash /\ Str!Become(c, place).late = call[c].late
BY DEF StreamsTyped, StreamRecords, Str!Become

LEMMA SetRecord ==
  ASSUME StreamsTyped, NEW c \in StreamCalls, NEW r \in StreamRecords, r.late = call[c].late, Str!Set(c, r)
  PROVE  /\ call' \in [StreamCalls -> StreamRecords]
         /\ Moved(c, r.pc, r.todo, r.then, r.found, r.answer, r.clash)
BY DEF StreamsTyped, Str!Set, Moved

LEMMA GoesOn ==
  ASSUME StreamsTyped, NEW c \in StreamCalls, NEW place \in StreamPlaces, Str!Go(c, place)
  PROVE  call' \in [StreamCalls -> StreamRecords] /\ Goes(c, place)
BY BecomeRecord, SetRecord DEF Str!Go, Goes, Ends

LEMMA EndsWith ==
  ASSUME StreamsTyped, NEW c \in StreamCalls, NEW place \in StreamPlaces, NEW answer \in StreamAnswers \cup {Missing},
         Str!Set(c, [Str!Become(c, place) EXCEPT !.answer = answer])
  PROVE  call' \in [StreamCalls -> StreamRecords] /\ Ends(c, place, answer)
<1> DEFINE r == Str!Become(c, place)
           s == [r EXCEPT !.answer = answer]
<1>1. r \in StreamRecords
  BY BecomeRecord
<1>2. s \in StreamRecords /\ s.pc = r.pc /\ s.todo = r.todo /\ s.then = r.then /\ s.found = r.found
      /\ s.answer = answer /\ s.clash = r.clash /\ s.late = r.late
  <2> HIDE DEF r
  <2> QED BY <1>1 DEF StreamRecords
<1>3. Str!Set(c, s)
  OBVIOUS
<1> HIDE DEF s
<1> QED BY <1>2, <1>3, BecomeRecord, SetRecord DEF Ends, Moved

LEMMA FindsWith ==
  ASSUME StreamsTyped, NEW c \in StreamCalls, NEW place \in StreamPlaces, NEW found \in StreamCalls \cup {Missing},
         Str!Set(c, [Str!Become(c, place) EXCEPT !.found = found])
  PROVE  /\ call' \in [StreamCalls -> StreamRecords]
         /\ Moved(c, place, call[c].todo, call[c].then, found, call[c].answer, call[c].clash)
<1> DEFINE r == Str!Become(c, place)
           s == [r EXCEPT !.found = found]
<1>1. r \in StreamRecords
  BY BecomeRecord
<1>2. s \in StreamRecords /\ s.pc = r.pc /\ s.todo = r.todo /\ s.then = r.then /\ s.found = found
      /\ s.answer = r.answer /\ s.clash = r.clash /\ s.late = r.late
  <2> HIDE DEF r
  <2> QED BY <1>1 DEF StreamRecords
<1>3. Str!Set(c, s)
  OBVIOUS
<1> HIDE DEF s
<1> QED BY <1>2, <1>3, BecomeRecord, SetRecord DEF Moved

LEMMA RenewsWith ==
  ASSUME StreamsTyped, NEW c \in StreamCalls, NEW place \in StreamPlaces, NEW at \in Nat,
         Str!Set(c, [Str!Become(c, place) EXCEPT !.renewAt = at])
  PROVE  call' \in [StreamCalls -> StreamRecords] /\ Goes(c, place)
<1> DEFINE r == Str!Become(c, place)
           s == [r EXCEPT !.renewAt = at]
<1>1. r \in StreamRecords
  BY BecomeRecord
<1>2. s \in StreamRecords /\ s.pc = r.pc /\ s.todo = r.todo /\ s.then = r.then /\ s.found = r.found
      /\ s.answer = r.answer /\ s.clash = r.clash /\ s.late = r.late
  <2> HIDE DEF r
  <2> QED BY <1>1 DEF StreamRecords
<1>3. Str!Set(c, s)
  OBVIOUS
<1> HIDE DEF s
<1> QED BY <1>2, <1>3, BecomeRecord, SetRecord DEF Goes, Ends, Moved

LEMMA DropsWith ==
  ASSUME StreamsTyped, NEW c \in StreamCalls, NEW todo \in SUBSET StreamCalls, NEW next \in StreamPlaces,
         Str!Set(c, [Str!Become(c, "drop") EXCEPT !.todo = todo, !.then = next])
  PROVE  /\ call' \in [StreamCalls -> StreamRecords]
         /\ Moved(c, "drop", todo, next, call[c].found, call[c].answer, call[c].clash)
<1> DEFINE r == Str!Become(c, "drop")
           s == [r EXCEPT !.todo = todo, !.then = next]
<1>1. r \in StreamRecords
  BY BecomeRecord DEF StreamPlaces
<1>2. s \in StreamRecords /\ s.pc = r.pc /\ s.todo = todo /\ s.then = next /\ s.found = r.found
      /\ s.answer = r.answer /\ s.clash = r.clash /\ s.late = r.late
  <2> HIDE DEF r
  <2> QED BY <1>1 DEF StreamRecords
<1>3. Str!Set(c, s)
  OBVIOUS
<1> HIDE DEF s
<1> QED BY <1>2, <1>3, BecomeRecord, SetRecord DEF Moved, StreamPlaces

LEMMA UnlockFrees ==
  ASSUME StreamsWellFormed, StreamsTyped, NEW c \in Str!Asked, Str!Unlock(c)
  PROVE  Frees(c) /\ keyLock' \in [Str!Processes -> StreamCalls \cup {Missing}]
BY RequestFacts DEF Str!Unlock, Str!Unlocked, Frees, StreamsTyped

LEMMA TakingLocks ==
  ASSUME StreamsWellFormed, StreamsTyped, NEW c \in Str!Asked, reads' = reads, pending' = pending,
         keyLock[Str!Of(c)] = Missing, keyLock' = [keyLock EXCEPT ![Str!Of(c)] = c]
  PROVE  Locks(c) /\ keyLock' \in [Str!Processes -> StreamCalls \cup {Missing}]
BY RequestFacts DEF Locks, StreamsTyped
StreamAction(c) ==
  \/ Str!Begin(c) \/ Str!CreateUpload(c) \/ Str!FindUpload(c) \/ Str!Renew(c) \/ Str!InsertChunk(c)
  \/ Str!SourceFails(c) \/ Str!Finalize(c) \/ Str!CheckUpload(c) \/ Str!CountChunks(c) \/ Str!ReadPrevious(c)
  \/ Str!WriteGeneration(c) \/ Str!WritePointer(c) \/ Str!Settle(c) \/ Str!Undo(c) \/ Str!UndoChunks(c) \/ Str!Gc(c)
  \/ Str!FindCurrent(c) \/ Str!DropGeneration(c) \/ Str!DropUpload(c) \/ Str!DropChunks(c) \/ Str!LockToDelete(c)
  \/ Str!DeletePointer(c) \/ Str!Get(c) \/ Str!Retain(c) \/ Str!ListChunks(c) \/ Str!Release(c) \/ Str!QueryFails(c)

LEMMA UploadActions ==
  ASSUME StreamsWellFormed, StreamsTyped, Shaped, stream' = stream, clock' = clock, NEW c \in StreamCalls,
         \/ Str!Begin(c) \/ Str!CreateUpload(c) \/ Str!FindUpload(c) \/ Str!Renew(c) \/ Str!InsertChunk(c)
         \/ Str!SourceFails(c) \/ Str!Finalize(c)
  PROVE  c \in Str!Asked /\ StreamStep(c) /\ StreamsTyped'
<1> USE RequestFacts
<1>1. c \in Str!Asked
  BY DEF Str!Begin, Str!CreateUpload, Str!FindUpload, Str!Renew, Str!InsertChunk, Str!SourceFails, Str!Finalize,
     Str!At
<1>2. stream \in StreamSetups /\ clock \in Nat
  BY DEF StreamsTyped
<1>3. CASE Str!Begin(c)
  <2> DEFINE stale == {g \in StreamCalls : Str!Expired(g)}
             next == IF Str!IsPut(c) THEN "create" ELSE "ended"
  <2>1. /\ call[c].pc = "idle" /\ (Str!IsPut(c) \/ Str!Kind(c) = "scavenge") /\ StillTables /\ StillMemory
        /\ Str!Set(c, IF stale = {} THEN Str!Become(c, next)
                      ELSE [Str!Become(c, "drop") EXCEPT !.todo = stale, !.then = next])
    BY <1>3 DEF Str!Begin, Str!At, StillTables, StillMemory, Str!tables, Str!memory
  <2>2. stale \in SUBSET StreamCalls /\ next \in StreamPlaces /\ next = Onto(c) /\ \A g \in stale : Str!Expired(g)
    BY DEF StreamPlaces, Onto
  <2> HIDE DEF stale, next
  <2>3. CASE stale = {}
    <3>1. Str!Go(c, next)
      BY <2>1, <2>3 DEF Str!Go
    <3>2. call' \in [StreamCalls -> StreamRecords] /\ Goes(c, next)
      BY <2>2, <3>1, GoesOn
    <3> QED BY <1>1, <2>1, <2>2, <3>2 DEF StreamStep, Began, StreamsTyped, StillTables, StillMemory
  <2>4. CASE stale # {}
    <3>1. /\ call' \in [StreamCalls -> StreamRecords]
          /\ Moved(c, "drop", stale, next, call[c].found, call[c].answer, call[c].clash)
      <4>1. Str!Set(c, [Str!Become(c, "drop") EXCEPT !.todo = stale, !.then = next])
        BY <2>1, <2>4
      <4> QED BY <2>2, <4>1, DropsWith, Zenon
    <3> QED BY <1>1, <2>1, <2>2, <3>1 DEF StreamStep, Began, StreamsTyped, StillTables, StillMemory
  <2> QED BY <2>3, <2>4
<1>4. CASE Str!CreateUpload(c)
  <2>1. /\ call[c].pc = "create" /\ StillMemory /\ uploads' = [uploads EXCEPT ![c] = clock + UploadLease]
        /\ pointer' = pointer /\ generations' = generations /\ chunks' = chunks
        /\ Str!Set(c, [Str!Become(c, "writing") EXCEPT !.renewAt = clock + RenewEvery])
    BY <1>4 DEF Str!CreateUpload, Str!At, Str!memory, StillMemory
  <2>2. call' \in [StreamCalls -> StreamRecords] /\ Goes(c, "writing")
    <3>1. clock + RenewEvery \in Nat /\ "writing" \in StreamPlaces
      BY <1>2 DEF StreamPlaces
    <3> QED BY <2>1, <3>1, RenewsWith
  <2>3. /\ uploads' \in [StreamCalls -> Nat \cup {Missing}] /\ uploads'[c] \in Nat /\ uploads'[c] >= clock
        /\ \A h \in StreamCalls \ {c} : uploads'[h] = uploads[h]
    BY <1>2, <2>1 DEF StreamsTyped
  <2> QED BY <1>1, <2>1, <2>2, <2>3 DEF StreamStep, Leased, UploadsOf, StreamsTyped, StillMemory
<1>5. CASE Str!FindUpload(c) \/ Str!SourceFails(c)
  <2>1. /\ call[c].pc = "writing" /\ StillTables /\ StillMemory
        /\ Str!Go(c, "undo") \/ Str!Go(c, "renew") \/ Str!Go(c, "insert")
    BY <1>5 DEF Str!FindUpload, Str!SourceFails, Str!At, Str!tables, Str!memory, StillTables, StillMemory
  <2>2. call' \in [StreamCalls -> StreamRecords] /\ (Goes(c, "undo") \/ Goes(c, "renew") \/ Goes(c, "insert"))
    BY <2>1, GoesOn DEF StreamPlaces
  <2> QED BY <1>1, <2>1, <2>2 DEF StreamStep, Looked, StreamsTyped, StillTables, StillMemory
<1>6. CASE Str!Renew(c)
  <2>1. /\ call[c].pc = "renew" /\ StillMemory
        /\ uploads' = [uploads EXCEPT ![c] = IF @ = Missing THEN Missing ELSE clock + UploadLease]
        /\ pointer' = pointer /\ generations' = generations /\ chunks' = chunks
        /\ Str!Set(c, [Str!Become(c, "writing") EXCEPT !.renewAt = clock + RenewEvery])
    BY <1>6 DEF Str!Renew, Str!At, Str!memory, StillMemory
  <2>2. call' \in [StreamCalls -> StreamRecords] /\ Goes(c, "writing")
    <3>1. clock + RenewEvery \in Nat /\ "writing" \in StreamPlaces
      BY <1>2 DEF StreamPlaces
    <3> QED BY <2>1, <3>1, RenewsWith
  <2>3. /\ uploads' \in [StreamCalls -> Nat \cup {Missing}]
        /\ IF uploads[c] = Missing THEN uploads'[c] = Missing ELSE uploads'[c] \in Nat /\ uploads'[c] >= clock
        /\ \A h \in StreamCalls \ {c} : uploads'[h] = uploads[h]
    BY <1>2, <2>1 DEF StreamsTyped
  <2> QED BY <1>1, <2>1, <2>2, <2>3 DEF StreamStep, Renewed, UploadsOf, StreamsTyped, StillMemory
<1>7. CASE Str!InsertChunk(c)
  <2>1. /\ call[c].pc = "insert" /\ StillMemory
        /\ chunks' = [chunks EXCEPT ![c] = @ \cup {call[c].n + 1}]
        /\ pointer' = pointer /\ generations' = generations /\ uploads' = uploads
        /\ Str!Set(c, [Str!Become(c, "writing") EXCEPT !.n = @ + 1])
    BY <1>7 DEF Str!InsertChunk, Str!At, Str!memory, StillMemory
  <2> DEFINE r == Str!Become(c, "writing")
             s == [r EXCEPT !.n = @ + 1]
  <2>2. r \in StreamRecords
    BY BecomeRecord DEF StreamPlaces
  <2>3. s \in StreamRecords /\ s.pc = r.pc /\ s.todo = r.todo /\ s.then = r.then /\ s.found = r.found
        /\ s.answer = r.answer /\ s.clash = r.clash /\ s.late = r.late
    <3> HIDE DEF r
    <3> QED BY <2>2 DEF StreamRecords
  <2>4. Str!Set(c, s)
    BY <2>1
  <2>5. call' \in [StreamCalls -> StreamRecords] /\ Goes(c, "writing")
    <3> HIDE DEF s
    <3> QED BY <2>3, <2>4, BecomeRecord, SetRecord DEF Goes, Ends, Moved, StreamPlaces
  <2>6. call[c].n + 1 \in Nat
    BY DEF StreamsTyped, StreamRecords
  <2>7. chunks' \in [StreamCalls -> SUBSET Nat] /\ \A h \in StreamCalls \ {c} : chunks'[h] = chunks[h]
    BY <2>1, <2>6 DEF StreamsTyped
  <2> QED BY <1>1, <2>1, <2>5, <2>7 DEF StreamStep, Inserted, ChunksOf, StreamsTyped, StillMemory
<1>8. CASE Str!Finalize(c)
  <2>1. /\ call[c].pc = "writing" /\ StillTables /\ reads' = reads /\ pending' = pending
        /\ keyLock[Str!Of(c)] = Missing /\ keyLock' = [keyLock EXCEPT ![Str!Of(c)] = c] /\ Str!Go(c, "check")
    BY <1>8 DEF Str!Finalize, Str!TakeLock, Str!At, Str!tables, StillTables
  <2>2. call' \in [StreamCalls -> StreamRecords] /\ Goes(c, "check")
    BY <2>1, GoesOn DEF StreamPlaces
  <2>3. Locks(c) /\ keyLock' \in [Str!Processes -> StreamCalls \cup {Missing}]
    BY <1>1, <2>1, TakingLocks
  <2> QED BY <1>1, <2>1, <2>2, <2>3 DEF StreamStep, Finalized, StreamsTyped, StillTables
<1> QED BY <1>3, <1>4, <1>5, <1>6, <1>7, <1>8

LEMMA FinalActions ==
  ASSUME StreamsWellFormed, StreamsTyped, Shaped, stream' = stream, clock' = clock, NEW c \in StreamCalls,
         \/ Str!CheckUpload(c) \/ Str!CountChunks(c) \/ Str!ReadPrevious(c) \/ Str!WriteGeneration(c)
         \/ Str!WritePointer(c) \/ Str!Settle(c) \/ Str!Undo(c) \/ Str!UndoChunks(c)
  PROVE  c \in Str!Asked /\ StreamStep(c) /\ StreamsTyped'
<1> USE RequestFacts
<1>1. c \in Str!Asked
  BY DEF Str!CheckUpload, Str!CountChunks, Str!ReadPrevious, Str!WriteGeneration, Str!WritePointer, Str!Settle,
     Str!Undo, Str!UndoChunks, Str!At
<1>2. \A answer \in {"failed", "exists"} : Str!Refuse(c, answer) /\ call[c].pc \in {"check", "count", "compare"} =>
        StreamStep(c) /\ StreamsTyped'
  <2> SUFFICES ASSUME NEW answer \in {"failed", "exists"}, Str!Refuse(c, answer),
                      call[c].pc \in {"check", "count", "compare"}
               PROVE  StreamStep(c) /\ StreamsTyped'
    OBVIOUS
  <2>1. Str!Set(c, [Str!Become(c, "undo") EXCEPT !.answer = answer]) /\ Str!Unlock(c) /\ StillTables
    BY DEF Str!Refuse, Str!tables, StillTables
  <2>2. call' \in [StreamCalls -> StreamRecords] /\ Ends(c, "undo", answer)
    <3>1. "undo" \in StreamPlaces /\ answer \in StreamAnswers \cup {Missing}
      BY DEF StreamPlaces, StreamAnswers
    <3> QED BY <2>1, <3>1, EndsWith, Zenon
  <2>3. Frees(c) /\ keyLock' \in [Str!Processes -> StreamCalls \cup {Missing}]
    BY <1>1, <2>1, UnlockFrees
  <2> QED BY <2>1, <2>2, <2>3 DEF StreamStep, Clashed, StreamsTyped, StillTables, Frees
<1>3. CASE Str!CheckUpload(c)
  <2>1. call[c].pc = "check" /\ (Str!Refuse(c, "failed") \/ (Str!Go(c, "count") /\ StillTables /\ StillMemory))
    BY <1>3 DEF Str!CheckUpload, Str!At, Str!tables, Str!memory, StillTables, StillMemory
  <2>2. CASE Str!Go(c, "count") /\ StillTables /\ StillMemory
    <3>1. call' \in [StreamCalls -> StreamRecords] /\ Goes(c, "count")
      BY <2>2, GoesOn DEF StreamPlaces
    <3> QED BY <1>1, <2>1, <2>2, <3>1 DEF StreamStep, Checked, StreamsTyped, StillTables, StillMemory
  <2> QED BY <1>1, <1>2, <2>1, <2>2
<1>4. CASE Str!CountChunks(c)
  <2>1. /\ call[c].pc = "count"
        /\ Str!Refuse(c, "failed") \/ (chunks[c] = 1 .. Size /\ Str!Go(c, "compare") /\ StillTables /\ StillMemory)
    BY <1>4 DEF Str!CountChunks, Str!At, Str!tables, Str!memory, StillTables, StillMemory
  <2>2. CASE chunks[c] = 1 .. Size /\ Str!Go(c, "compare") /\ StillTables /\ StillMemory
    <3>1. call' \in [StreamCalls -> StreamRecords] /\ Goes(c, "compare")
      BY <2>2, GoesOn DEF StreamPlaces
    <3> QED BY <1>1, <2>1, <2>2, <3>1 DEF StreamStep, Checked, StreamsTyped, StillTables, StillMemory
  <2> QED BY <1>1, <1>2, <2>1, <2>2
<1>5. CASE Str!ReadPrevious(c)
  <2>1. /\ call[c].pc = "compare"
        /\ \/ Str!Refuse(c, "exists")
           \/ /\ Str!Set(c, [Str!Become(c, "generation") EXCEPT !.found = pointer])
              /\ StillTables /\ StillMemory
    BY <1>5 DEF Str!ReadPrevious, Str!At, Str!tables, Str!memory, StillTables, StillMemory
  <2>2. CASE /\ Str!Set(c, [Str!Become(c, "generation") EXCEPT !.found = pointer])
             /\ StillTables /\ StillMemory
    <3>1. pointer \in StreamCalls \cup {Missing} /\ "generation" \in StreamPlaces
      BY DEF StreamsTyped, StreamPlaces
    <3>2. /\ call' \in [StreamCalls -> StreamRecords]
          /\ Moved(c, "generation", call[c].todo, call[c].then, pointer, call[c].answer, call[c].clash)
      BY <2>2, <3>1, FindsWith
    <3> QED BY <1>1, <2>1, <2>2, <3>2 DEF StreamStep, Checked, StreamsTyped, StillTables, StillMemory
  <2> QED BY <1>1, <1>2, <2>1, <2>2
<1>6. CASE Str!WriteGeneration(c)
  <2>1. /\ call[c].pc = "generation" /\ generations' = generations \cup {c} /\ StillMemory /\ Str!Go(c, "point")
        /\ pointer' = pointer /\ uploads' = uploads /\ chunks' = chunks
    BY <1>6 DEF Str!WriteGeneration, Str!At, Str!memory, StillMemory
  <2>2. call' \in [StreamCalls -> StreamRecords] /\ Goes(c, "point")
    BY <2>1, GoesOn DEF StreamPlaces
  <2> QED BY <1>1, <2>1, <2>2 DEF StreamStep, Generated, StreamsTyped, StillMemory
<1>7. CASE Str!WritePointer(c)
  <2>1. /\ call[c].pc = "point" /\ pointer' = c /\ StillMemory
        /\ Str!Set(c, [Str!Become(c, "settle") EXCEPT !.clash = pointer # call[c].found])
        /\ generations' = generations /\ uploads' = uploads /\ chunks' = chunks
    BY <1>7 DEF Str!WritePointer, Str!At, Str!memory, StillMemory
  <2> DEFINE clash == pointer # call[c].found
             r == Str!Become(c, "settle")
             s == [r EXCEPT !.clash = clash]
  <2>2. r \in StreamRecords /\ clash \in BOOLEAN
    BY BecomeRecord DEF StreamPlaces
  <2>3. s \in StreamRecords /\ s.pc = r.pc /\ s.todo = r.todo /\ s.then = r.then /\ s.found = r.found
        /\ s.answer = r.answer /\ s.clash = clash /\ s.late = r.late
    <3> HIDE DEF r, clash
    <3> QED BY <2>2 DEF StreamRecords
  <2>4. Str!Set(c, s)
    BY <2>1
  <2>5. /\ call' \in [StreamCalls -> StreamRecords]
        /\ Moved(c, "settle", call[c].todo, call[c].then, call[c].found, call[c].answer, clash)
    <3> HIDE DEF s, clash
    <3> QED BY <2>3, <2>4, BecomeRecord, SetRecord DEF Moved, StreamPlaces
  <2> QED BY <1>1, <2>1, <2>5 DEF StreamStep, Pointed, StreamsTyped, StillMemory
<1>8. CASE Str!Settle(c)
  <2>1. /\ call[c].pc = "settle" /\ uploads' = [uploads EXCEPT ![c] = Missing] /\ Str!Unlock(c)
        /\ Str!Set(c, IF call[c].found = Missing THEN [Str!Become(c, "ended") EXCEPT !.answer = "stored"]
                      ELSE [Str!Become(c, "gc") EXCEPT !.answer = "stored"])
        /\ pointer' = pointer /\ generations' = generations /\ chunks' = chunks
    BY <1>8 DEF Str!Settle, Str!Ended, Str!At
  <2>2. Frees(c) /\ keyLock' \in [Str!Processes -> StreamCalls \cup {Missing}]
    BY <1>1, <2>1, UnlockFrees
  <2>3. /\ call' \in [StreamCalls -> StreamRecords]
        /\ IF call[c].found = Missing THEN Ends(c, "ended", "stored") ELSE Ends(c, "gc", "stored")
    <3>1. "ended" \in StreamPlaces /\ "gc" \in StreamPlaces /\ "stored" \in StreamAnswers \cup {Missing}
      BY DEF StreamPlaces, StreamAnswers
    <3>2. CASE call[c].found = Missing
      <4>1. Str!Set(c, [Str!Become(c, "ended") EXCEPT !.answer = "stored"])
        BY <2>1, <3>2
      <4> QED BY <3>1, <3>2, <4>1, EndsWith, Zenon
    <3>3. CASE call[c].found # Missing
      <4>1. Str!Set(c, [Str!Become(c, "gc") EXCEPT !.answer = "stored"])
        BY <2>1, <3>3
      <4> QED BY <3>1, <3>3, <4>1, EndsWith, Zenon
    <3> QED BY <3>2, <3>3
  <2>4. /\ uploads' \in [StreamCalls -> Nat \cup {Missing}] /\ uploads'[c] = Missing
        /\ \A h \in StreamCalls \ {c} : uploads'[h] = uploads[h]
    BY <2>1 DEF StreamsTyped
  <2> QED BY <1>1, <2>1, <2>2, <2>3, <2>4 DEF StreamStep, Settled, UploadsOf, StreamsTyped, Frees
<1>9. CASE Str!Undo(c)
  <2>1. /\ call[c].pc = "undo" /\ uploads' = [uploads EXCEPT ![c] = Missing] /\ StillMemory
        /\ Str!Go(c, IF uploads[c] = Missing THEN "ended" ELSE "undoChunks")
        /\ pointer' = pointer /\ generations' = generations /\ chunks' = chunks
    BY <1>9 DEF Str!Undo, Str!At, Str!memory, StillMemory
  <2>2. /\ call' \in [StreamCalls -> StreamRecords]
        /\ IF uploads[c] = Missing THEN Goes(c, "ended") ELSE Goes(c, "undoChunks")
    BY <2>1, GoesOn DEF StreamPlaces
  <2>3. /\ uploads' \in [StreamCalls -> Nat \cup {Missing}] /\ uploads'[c] = Missing
        /\ \A h \in StreamCalls \ {c} : uploads'[h] = uploads[h]
    BY <2>1 DEF StreamsTyped
  <2> QED BY <1>1, <2>1, <2>2, <2>3 DEF StreamStep, Erased, UploadsOf, StreamsTyped, StillMemory
<1>10. CASE Str!UndoChunks(c)
  <2>1. /\ call[c].pc = "undoChunks" /\ chunks' = [chunks EXCEPT ![c] = {}] /\ StillMemory /\ Str!Go(c, "ended")
        /\ pointer' = pointer /\ generations' = generations /\ uploads' = uploads
    BY <1>10 DEF Str!UndoChunks, Str!At, Str!memory, StillMemory
  <2>2. call' \in [StreamCalls -> StreamRecords] /\ Goes(c, "ended")
    BY <2>1, GoesOn DEF StreamPlaces
  <2>3. /\ chunks' \in [StreamCalls -> SUBSET Nat] /\ chunks'[c] = {}
        /\ \A h \in StreamCalls \ {c} : chunks'[h] = chunks[h]
    BY <2>1 DEF StreamsTyped
  <2> QED BY <1>1, <2>1, <2>2, <2>3 DEF StreamStep, UndoneChunks, ChunksOf, StreamsTyped, StillMemory
<1> QED BY <1>3, <1>4, <1>5, <1>6, <1>7, <1>8, <1>9, <1>10
LEMMA DroppingActions ==
  ASSUME StreamsWellFormed, StreamsTyped, Shaped, stream' = stream, clock' = clock, NEW c \in StreamCalls,
         \/ Str!Gc(c) \/ Str!FindCurrent(c) \/ Str!DropGeneration(c) \/ Str!DropUpload(c) \/ Str!DropChunks(c)
         \/ Str!LockToDelete(c) \/ Str!DeletePointer(c)
  PROVE  c \in Str!Asked /\ StreamStep(c) /\ StreamsTyped'
<1> USE RequestFacts
<1>1. c \in Str!Asked
  BY DEF Str!Gc, Str!FindCurrent, Str!DropGeneration, Str!DropUpload, Str!DropChunks, Str!LockToDelete,
     Str!DeletePointer, Str!At
<1>2. Shape(c)
  BY DEF Shaped
<1>3. CASE Str!Gc(c)
  <2>1. call[c].pc = "gc" /\ call[c].found \in StreamCalls
    BY <1>2, <1>3 DEF Str!Gc, Str!At, Shape, StreamsTyped, StreamRecords
  <2>2. Str!Of(c) \in Str!Processes /\ StillTables /\ keyLock' = keyLock /\ reads' = reads
    BY <1>1, <1>3 DEF Str!Gc, Str!tables, StillTables, StreamsTyped
  <2>3. CASE Str!StreamsOf(Str!Of(c), call[c].found) # {}
    <3>1. pending' = [pending EXCEPT ![Str!Of(c)] = @ \cup {call[c].found}] /\ Str!Go(c, "ended")
      BY <1>3, <2>3 DEF Str!Gc
    <3>2. call' \in [StreamCalls -> StreamRecords] /\ Goes(c, "ended")
      BY <3>1, GoesOn DEF StreamPlaces
    <3>3. /\ pending' \in [Str!Processes -> SUBSET StreamCalls]
          /\ pending'[Str!Of(c)] = pending[Str!Of(c)] \cup {call[c].found}
          /\ \A p \in Str!Processes \ {Str!Of(c)} : pending'[p] = pending[p]
      BY <2>1, <2>2, <3>1 DEF StreamsTyped
    <3> QED BY <1>1, <2>1, <2>2, <2>3, <3>2, <3>3 DEF StreamStep, Left, StreamsTyped, StillTables
  <2>4. CASE Str!StreamsOf(Str!Of(c), call[c].found) = {}
    <3>1. pending' = pending /\ Str!Go(c, "current")
      BY <1>3, <2>4 DEF Str!Gc
    <3>2. call' \in [StreamCalls -> StreamRecords] /\ Goes(c, "current")
      BY <3>1, GoesOn DEF StreamPlaces
    <3> QED BY <1>1, <2>1, <2>2, <2>4, <3>1, <3>2 DEF StreamStep, Left, StreamsTyped, StillTables
  <2> QED BY <2>3, <2>4
<1>11. CASE Str!FindCurrent(c)
  <2>1. call[c].pc = "current" /\ call[c].found \in StreamCalls /\ StillTables /\ StillMemory
    BY <1>2, <1>11 DEF Str!FindCurrent, Str!At, Str!tables, Str!memory, StillTables, StillMemory, Shape, StreamsTyped,
       StreamRecords
  <2>2. CASE pointer = call[c].found
    <3>1. Str!Go(c, "ended")
      BY <1>11, <2>2 DEF Str!FindCurrent, Str!Go
    <3>2. call' \in [StreamCalls -> StreamRecords] /\ Goes(c, "ended")
      BY <3>1, GoesOn DEF StreamPlaces
    <3> QED BY <1>1, <2>1, <2>2, <3>2 DEF StreamStep, Left, StreamsTyped, StillTables, StillMemory
  <2>3. CASE pointer # call[c].found
    <3>1. Str!Set(c, [Str!Become(c, "drop") EXCEPT !.todo = {call[c].found}, !.then = "ended"])
      BY <1>11, <2>3 DEF Str!FindCurrent
    <3>2. /\ call' \in [StreamCalls -> StreamRecords]
          /\ Moved(c, "drop", {call[c].found}, "ended", call[c].found, call[c].answer, call[c].clash)
      <4>1. {call[c].found} \in SUBSET StreamCalls /\ "ended" \in StreamPlaces
        BY <2>1 DEF StreamPlaces
      <4> QED BY <3>1, <4>1, DropsWith, Zenon
    <3> QED BY <1>1, <2>1, <2>3, <3>2 DEF StreamStep, Collected, StreamsTyped, StillTables, StillMemory
  <2> QED BY <2>2, <2>3
<1>4. CASE Str!DropGeneration(c)
  <2>1. call[c].pc = "drop" /\ StillMemory /\ pointer' = pointer /\ uploads' = uploads /\ chunks' = chunks
    BY <1>4 DEF Str!DropGeneration, Str!At, Str!memory, StillMemory
  <2>2. PICK g \in call[c].todo :
          generations' = generations \ {g} /\ Str!Set(c, [Str!Become(c, "dropUpload") EXCEPT !.found = g])
    BY <1>4 DEF Str!DropGeneration
  <2>3. g \in StreamCalls \cup {Missing} /\ "dropUpload" \in StreamPlaces
    BY DEF StreamsTyped, StreamRecords, StreamPlaces
  <2>4. /\ call' \in [StreamCalls -> StreamRecords]
        /\ Moved(c, "dropUpload", call[c].todo, call[c].then, g, call[c].answer, call[c].clash)
    BY <2>2, <2>3, FindsWith
  <2>5. DroppedRows(c)
    BY <2>1, <2>2, <2>4 DEF DroppedRows
  <2> QED BY <1>1, <2>1, <2>2, <2>4, <2>5 DEF StreamStep, StreamsTyped, StillMemory
<1>12. CASE Str!DropUpload(c)
  <2>1. /\ call[c].pc = "dropUpload" /\ StillMemory /\ pointer' = pointer /\ generations' = generations
        /\ chunks' = chunks /\ uploads' = [uploads EXCEPT ![call[c].found] = Missing] /\ Str!Go(c, "dropChunks")
    BY <1>12 DEF Str!DropUpload, Str!At, Str!memory, StillMemory
  <2>2. call' \in [StreamCalls -> StreamRecords] /\ Goes(c, "dropChunks")
    BY <2>1, GoesOn DEF StreamPlaces
  <2>3. call[c].found \in StreamCalls
    BY <1>2, <2>1 DEF Shape, StreamsTyped, StreamRecords
  <2>4. /\ uploads' \in [StreamCalls -> Nat \cup {Missing}] /\ uploads'[call[c].found] = Missing
        /\ \A h \in StreamCalls \ {call[c].found} : uploads'[h] = uploads[h]
    BY <2>1, <2>3 DEF StreamsTyped
  <2>5. DroppedRows(c)
    BY <2>1, <2>2, <2>4 DEF DroppedRows
  <2> QED BY <1>1, <2>1, <2>2, <2>4, <2>5 DEF StreamStep, StreamsTyped, StillMemory
<1>5. CASE Str!DropChunks(c)
  <2> DEFINE rest == call[c].todo \ {call[c].found}
             to == IF rest = {} THEN call[c].then ELSE "drop"
  <2>1. /\ call[c].pc = "dropChunks" /\ chunks' = [chunks EXCEPT ![call[c].found] = {}] /\ StillMemory
        /\ pointer' = pointer /\ generations' = generations /\ uploads' = uploads
        /\ Str!Set(c, [call[c] EXCEPT !.pc = to, !.todo = rest, !.found = Missing])
    BY <1>5 DEF Str!DropChunks, Str!At, Str!memory, StillMemory
  <2>2. call[c].found \in StreamCalls /\ call[c] \in StreamRecords
    BY <1>2, <2>1 DEF Shape, StreamsTyped, StreamRecords
  <2>3. rest \in SUBSET StreamCalls /\ to \in StreamPlaces
    BY <2>2 DEF StreamRecords, StreamPlaces
  <2>4. to \in {call[c].then, "drop"} /\ (to = "drop" \/ rest = {})
    OBVIOUS
  <2> DEFINE s == [call[c] EXCEPT !.pc = to, !.todo = rest, !.found = Missing]
  <2>5. s \in StreamRecords /\ s.pc = to /\ s.todo = rest /\ s.then = call[c].then /\ s.found = Missing
        /\ s.answer = call[c].answer /\ s.clash = call[c].clash /\ s.late = call[c].late
    <3> HIDE DEF to, rest
    <3> QED BY <2>2, <2>3 DEF StreamRecords
  <2>6. Str!Set(c, s)
    BY <2>1
  <2>7. /\ call' \in [StreamCalls -> StreamRecords]
        /\ Moved(c, to, rest, call[c].then, Missing, call[c].answer, call[c].clash)
    <3> HIDE DEF s, to, rest
    <3> QED BY <2>5, <2>6, SetRecord DEF Moved
  <2>8. /\ chunks' \in [StreamCalls -> SUBSET Nat] /\ chunks'[call[c].found] = {}
        /\ \A h \in StreamCalls \ {call[c].found} : chunks'[h] = chunks[h]
    BY <2>1, <2>2 DEF StreamsTyped
  <2>9. DroppedChunks(c)
    <3> HIDE DEF to
    <3> QED BY <2>1, <2>4, <2>7, <2>8 DEF DroppedChunks, ChunksOf
  <2> QED BY <1>1, <2>1, <2>7, <2>8, <2>9 DEF StreamStep, StreamsTyped, StillMemory
<1>6. CASE Str!LockToDelete(c)
  <2>1. /\ call[c].pc = "idle" /\ Str!Kind(c) = "delete" /\ StillTables /\ reads' = reads /\ pending' = pending
        /\ keyLock[Str!Of(c)] = Missing /\ keyLock' = [keyLock EXCEPT ![Str!Of(c)] = c] /\ Str!Go(c, "unpoint")
    BY <1>6 DEF Str!LockToDelete, Str!At, Str!tables, StillTables
  <2>2. call' \in [StreamCalls -> StreamRecords] /\ Goes(c, "unpoint")
    BY <2>1, GoesOn DEF StreamPlaces
  <2>3. Locks(c) /\ keyLock' \in [Str!Processes -> StreamCalls \cup {Missing}]
    BY <1>1, <2>1, TakingLocks
  <2> QED BY <1>1, <2>1, <2>2, <2>3 DEF StreamStep, LockedToDelete, StreamsTyped, StillTables
<1>7. CASE Str!DeletePointer(c)
  <2>1. /\ call[c].pc = "unpoint" /\ pointer' = Missing /\ Str!Unlock(c)
        /\ uploads' = uploads /\ generations' = generations /\ chunks' = chunks
        /\ Str!Set(c, IF pointer = Missing THEN [Str!Become(c, "ended") EXCEPT !.answer = "absent"]
                      ELSE [Str!Become(c, "gc") EXCEPT !.found = pointer, !.answer = "deleted"])
    BY <1>7 DEF Str!DeletePointer, Str!Ended, Str!At
  <2>2. Frees(c) /\ keyLock' \in [Str!Processes -> StreamCalls \cup {Missing}]
    BY <1>1, <2>1, UnlockFrees
  <2>3. /\ call' \in [StreamCalls -> StreamRecords]
        /\ IF pointer = Missing THEN Ends(c, "ended", "absent")
           ELSE Moved(c, "gc", call[c].todo, call[c].then, pointer, "deleted", call[c].clash)
    <3>1. CASE pointer = Missing
      <4>1. "ended" \in StreamPlaces /\ "absent" \in StreamAnswers \cup {Missing}
        BY DEF StreamPlaces, StreamAnswers
      <4>2. Str!Set(c, [Str!Become(c, "ended") EXCEPT !.answer = "absent"])
        BY <2>1, <3>1
      <4>3. call' \in [StreamCalls -> StreamRecords] /\ Ends(c, "ended", "absent")
        BY <4>1, <4>2, EndsWith, Zenon
      <4> QED BY <3>1, <4>3
    <3>2. CASE pointer # Missing
      <4> DEFINE r == Str!Become(c, "gc")
                 s == [r EXCEPT !.found = pointer, !.answer = "deleted"]
      <4>1. r \in StreamRecords /\ pointer \in StreamCalls
        BY <3>2, BecomeRecord DEF StreamPlaces, StreamsTyped
      <4>2. s \in StreamRecords /\ s.pc = r.pc /\ s.todo = r.todo /\ s.then = r.then /\ s.found = pointer
            /\ s.answer = "deleted" /\ s.clash = r.clash /\ s.late = r.late
        <5> HIDE DEF r
        <5> QED BY <4>1 DEF StreamRecords, StreamAnswers
      <4>3. Str!Set(c, s)
        BY <2>1, <3>2
      <4> HIDE DEF s
      <4> QED BY <3>2, <4>2, <4>3, BecomeRecord, SetRecord DEF Moved, StreamPlaces
    <3> QED BY <3>1, <3>2
  <2> QED BY <1>1, <2>1, <2>2, <2>3 DEF StreamStep, Unpointed, StreamsTyped, Frees
<1> QED BY <1>3, <1>4, <1>5, <1>6, <1>7, <1>11, <1>12

LEMMA ReadingActions ==
  ASSUME StreamsWellFormed, StreamsTyped, Shaped, stream' = stream, clock' = clock, NEW c \in StreamCalls,
         Str!Get(c) \/ Str!Retain(c) \/ Str!ListChunks(c) \/ Str!Release(c) \/ Str!QueryFails(c)
  PROVE  c \in Str!Asked /\ StreamStep(c) /\ StreamsTyped'
<1> USE RequestFacts
<1>1. c \in Str!Asked
  BY DEF Str!Get, Str!Retain, Str!ListChunks, Str!Release, Str!QueryFails, Str!UnderWay, Str!At
<1>2. Shape(c) /\ Str!Of(c) \in Str!Processes
  BY <1>1 DEF Shaped, StreamsTyped
<1>3. CASE Str!Get(c)
  <2>1. call[c].pc = "idle" /\ Str!Kind(c) = "read" /\ StillTables /\ StillMemory
    BY <1>3 DEF Str!Get, Str!At, Str!tables, Str!memory, StillTables, StillMemory
  <2>2. CASE pointer = Missing
    <3>1. Str!Set(c, [Str!Become(c, "ended") EXCEPT !.answer = "absent"])
      BY <1>3, <2>2 DEF Str!Get, Str!Ended
    <3>2. call' \in [StreamCalls -> StreamRecords] /\ Ends(c, "ended", "absent")
      <4>1. "ended" \in StreamPlaces /\ "absent" \in StreamAnswers \cup {Missing}
        BY DEF StreamPlaces, StreamAnswers
      <4> QED BY <3>1, <4>1, EndsWith, Zenon
    <3> QED BY <1>1, <2>1, <2>2, <3>2 DEF StreamStep, Got, StreamsTyped, StillTables, StillMemory
  <2>3. CASE pointer # Missing
    <3>1. Str!Set(c, [Str!Become(c, "retain") EXCEPT !.found = pointer])
      BY <1>3, <2>3 DEF Str!Get
    <3>2. /\ call' \in [StreamCalls -> StreamRecords]
          /\ Moved(c, "retain", call[c].todo, call[c].then, pointer, call[c].answer, call[c].clash)
      <4>1. pointer \in StreamCalls \cup {Missing} /\ "retain" \in StreamPlaces
        BY DEF StreamsTyped, StreamPlaces
      <4> QED BY <3>1, <4>1, FindsWith
    <3> QED BY <1>1, <2>1, <2>3, <3>2 DEF StreamStep, Got, StreamsTyped, StillTables, StillMemory
  <2> QED BY <2>2, <2>3
<1>7. CASE Str!Retain(c)
  <2> DEFINE late == Str!IsDropped(call[c].found)
             r == Str!Become(c, "stream")
             s == [r EXCEPT !.late = late]
  <2>1. /\ call[c].pc = "retain" /\ StillTables /\ keyLock' = keyLock /\ pending' = pending /\ Str!Set(c, s)
        /\ reads' = [reads EXCEPT ![Str!Of(c)] = @ \cup {c}]
    BY <1>7 DEF Str!Retain, Str!At, Str!tables, StillTables
  <2>2. r \in StreamRecords /\ late \in BOOLEAN
    BY BecomeRecord DEF StreamPlaces, Str!IsDropped
  <2>3. s \in StreamRecords /\ s.pc = r.pc /\ s.todo = r.todo /\ s.then = r.then /\ s.found = r.found
        /\ s.answer = r.answer /\ s.clash = r.clash /\ s.late = late
    <3> HIDE DEF r, late
    <3> QED BY <2>2 DEF StreamRecords
  <2>4. /\ call' \in [StreamCalls -> StreamRecords] /\ call'[c] = s
        /\ \A d \in StreamCalls \ {c} : call'[d] = call[d]
    <3> HIDE DEF s
    <3> QED BY <2>1, <2>3 DEF Str!Set, StreamsTyped
  <2>5. /\ s.pc = "stream" /\ s.todo = call[c].todo /\ s.then = call[c].then /\ s.found = call[c].found
        /\ s.answer = call[c].answer /\ s.clash = call[c].clash
    <3> HIDE DEF s
    <3> QED BY <2>3, BecomeRecord DEF StreamPlaces
  <2>6. /\ reads' \in [Str!Processes -> SUBSET StreamCalls]
        /\ reads'[Str!Of(c)] = reads[Str!Of(c)] \cup {c}
        /\ \A p \in Str!Processes \ {Str!Of(c)} : reads'[p] = reads[p]
    BY <1>2, <2>1 DEF StreamsTyped
  <2>7. call'[c].late <=> late
    <3> HIDE DEF s, late
    <3> QED BY <2>3, <2>4
  <2> HIDE DEF s, r
  <2>8. Got(c)
    BY <2>1, <2>4, <2>5, <2>6, <2>7 DEF Got
  <2> QED BY <1>1, <2>1, <2>4, <2>6, <2>8 DEF StreamStep, StreamsTyped, StillTables
<1>4. CASE Str!ListChunks(c)
  <2> DEFINE answer == IF chunks[call[c].found] = 1 .. Size THEN "whole" ELSE "torn"
  <2>1. /\ call[c].pc = "stream" /\ StillTables /\ StillMemory
        /\ Str!Set(c, [Str!Become(c, "release") EXCEPT !.answer = answer])
    BY <1>4 DEF Str!ListChunks, Str!At, Str!tables, Str!memory, StillTables, StillMemory
  <2>2. call' \in [StreamCalls -> StreamRecords] /\ Ends(c, "release", answer)
    <3>1. answer \in StreamAnswers \cup {Missing} /\ "release" \in StreamPlaces
      BY DEF StreamAnswers, StreamPlaces
    <3> HIDE DEF answer
    <3> QED BY <2>1, <3>1, EndsWith
  <2> QED BY <1>1, <2>1, <2>2 DEF StreamStep, Listed, StreamsTyped, StillTables, StillMemory
<1>5. CASE Str!Release(c)
  <2> DEFINE p == Str!Of(c)
             g == call[c].found
             last == Str!StreamsOf(p, g) \subseteq {c}
  <2>1. /\ call[c].pc = "release" /\ StillTables /\ keyLock' = keyLock
        /\ reads' = [reads EXCEPT ![p] = @ \ {c}]
        /\ pending' = [pending EXCEPT ![p] = IF last THEN @ \ {g} ELSE @]
        /\ Str!Go(c, IF last /\ g \in pending[p] THEN "current" ELSE "ended")
    BY <1>5 DEF Str!Release, Str!At, Str!tables, StillTables
  <2>2. /\ reads' \in [Str!Processes -> SUBSET StreamCalls] /\ reads'[p] = reads[p] \ {c}
        /\ pending' \in [Str!Processes -> SUBSET StreamCalls]
        /\ pending'[p] = IF last THEN pending[p] \ {g} ELSE pending[p]
        /\ \A q \in Str!Processes \ {p} : reads'[q] = reads[q] /\ pending'[q] = pending[q]
    <3> HIDE DEF last, g
    <3> QED BY <1>2, <2>1 DEF StreamsTyped
  <2>3. /\ call' \in [StreamCalls -> StreamRecords]
        /\ IF last /\ g \in pending[p] THEN Goes(c, "current") ELSE Goes(c, "ended")
    <3> HIDE DEF last, g, p
    <3> QED BY <2>1, GoesOn DEF StreamPlaces
  <2>4. StreamsTyped'
    BY <2>1, <2>2, <2>3 DEF StreamsTyped, StillTables
  <2>5. CASE last
    BY <1>1, <2>1, <2>2, <2>3, <2>4, <2>5 DEF StreamStep, LetGo
  <2>6. CASE ~last
    BY <1>1, <2>1, <2>2, <2>3, <2>4, <2>6 DEF StreamStep, LetGo
  <2> QED BY <2>5, <2>6
<1>6. CASE Str!QueryFails(c)
  <2> DEFINE undone == call[c].pc \in Str!Guarded \/ (Str!IsPut(c) /\ call[c].answer = "stored")
             to == IF undone THEN "undo" ELSE IF call[c].pc = "stream" THEN "release" ELSE "ended"
  <2>1. /\ Str!Fails("query") /\ StillTables /\ Str!Unlock(c)
        /\ call[c].pc \notin {"idle", "gc", "retain", "release", "ended", "died"}
        /\ Str!Set(c, [call[c] EXCEPT !.pc = to, !.answer = "failed"])
    BY <1>1, <1>6 DEF Str!QueryFails, Str!UnderWay, Str!At, Str!tables, StillTables
  <2>2. to \in {"undo", "release", "ended"} /\ (to = "undo" => undone) /\ (to = "release" => call[c].pc = "stream")
        /\ (call[c].pc = "stream" /\ ~undone => to = "release") /\ to \in StreamPlaces
    BY DEF StreamPlaces
  <2>3. /\ undone => Str!IsPut(c)
        /\ call[c].pc = "stream" => ~undone
    BY <1>2 DEF Shape, Str!Guarded, PutPlaces
  <2> HIDE DEF to, undone
  <2> DEFINE s == [call[c] EXCEPT !.pc = to, !.answer = "failed"]
  <2>4. s \in StreamRecords /\ s.pc = to /\ s.todo = call[c].todo /\ s.then = call[c].then
        /\ s.found = call[c].found /\ s.answer = "failed" /\ s.clash = call[c].clash /\ s.late = call[c].late
    <3> DEFINE r == call[c]
    <3>1. r \in StreamRecords /\ "failed" \in StreamAnswers
      BY DEF StreamsTyped, StreamAnswers
    <3> HIDE DEF r
    <3>2. /\ [r EXCEPT !.pc = to, !.answer = "failed"] \in StreamRecords
          /\ \A f \in {"todo", "then", "found", "clash", "late"} : [r EXCEPT !.pc = to, !.answer = "failed"][f] = r[f]
          /\ [r EXCEPT !.pc = to, !.answer = "failed"].pc = to
          /\ [r EXCEPT !.pc = to, !.answer = "failed"].answer = "failed"
      BY <2>2, <3>1 DEF StreamRecords
    <3> QED BY <3>2 DEF r
  <2>5. Str!Set(c, s)
    BY <2>1
  <2>6. call' \in [StreamCalls -> StreamRecords] /\ Ends(c, to, "failed")
    <3> HIDE DEF s
    <3> QED BY <2>4, <2>5, SetRecord DEF Ends, Moved
  <2>7. Frees(c) /\ keyLock' \in [Str!Processes -> StreamCalls \cup {Missing}]
    BY <1>1, <2>1, UnlockFrees
  <2>8. Failed(c)
    BY <2>1, <2>2, <2>3, <2>6, <2>7 DEF Failed
  <2> QED BY <1>1, <2>1, <2>6, <2>7, <2>8 DEF StreamStep, StreamsTyped, StillTables, Frees
<1> QED BY <1>3, <1>4, <1>5, <1>6, <1>7

LEMMA ActionsAreSteps ==
  ASSUME StreamsWellFormed, StreamsTyped, Shaped, stream' = stream, clock' = clock, NEW c \in StreamCalls,
         StreamAction(c)
  PROVE  c \in Str!Asked /\ StreamStep(c) /\ StreamsTyped'
BY UploadActions, FinalActions, DroppingActions, ReadingActions DEF StreamAction

LEMMA DeathsAreSteps ==
  ASSUME StreamsWellFormed, StreamsTyped, stream' = stream, clock' = clock, NEW p \in Str!Processes, Str!Die(p)
  PROVE  Dies(p) /\ StreamsTyped'
<1>1. call' = [c \in StreamCalls |-> IF Str!UnderWay(c) /\ Str!Of(c) = p
                                       THEN [Str!Become(c, "died") EXCEPT !.then = call[c].pc] ELSE call[c]]
  BY DEF Str!Die
<1>2. \A c \in StreamCalls : LET r == [Str!Become(c, "died") EXCEPT !.then = call[c].pc] IN
        /\ r \in StreamRecords /\ r.pc = "died" /\ r.then = call[c].pc /\ r.found = call[c].found
        /\ r.answer = call[c].answer /\ r.clash = call[c].clash /\ r.late = call[c].late
  <2> SUFFICES ASSUME NEW c \in StreamCalls
               PROVE  LET r == [Str!Become(c, "died") EXCEPT !.then = call[c].pc] IN
                      /\ r \in StreamRecords /\ r.pc = "died" /\ r.then = call[c].pc /\ r.found = call[c].found
                      /\ r.answer = call[c].answer /\ r.clash = call[c].clash /\ r.late = call[c].late
    OBVIOUS
  <2> DEFINE b == Str!Become(c, "died")
  <2>1. /\ b \in StreamRecords /\ b.pc = "died" /\ b.found = call[c].found
        /\ b.answer = call[c].answer /\ b.clash = call[c].clash /\ b.late = call[c].late
    BY BecomeRecord DEF StreamPlaces
  <2>2. call[c].pc \in StreamPlaces
    BY DEF StreamsTyped, StreamRecords
  <2> HIDE DEF b
  <2>3. LET r == [b EXCEPT !.then = call[c].pc] IN
        /\ r \in StreamRecords /\ r.pc = "died" /\ r.then = call[c].pc /\ r.found = call[c].found
        /\ r.answer = call[c].answer /\ r.clash = call[c].clash /\ r.late = call[c].late
    BY <2>1, <2>2 DEF StreamRecords
  <2> QED BY <2>3 DEF b
<1>3. call' \in [StreamCalls -> StreamRecords]
  <2>1. \A c \in StreamCalls : call[c] \in StreamRecords
    BY DEF StreamsTyped
  <2> QED BY <1>1, <1>2, <2>1
<1>4. \A c \in StreamCalls :
        IF Str!UnderWay(c) /\ Str!Of(c) = p
          THEN call'[c].pc = "died" /\ call'[c].then = call[c].pc /\ call'[c].found = call[c].found
               /\ call'[c].answer = call[c].answer /\ call'[c].clash = call[c].clash /\ call'[c].late = call[c].late
          ELSE call'[c] = call[c]
  BY <1>1, <1>2
<1>5. /\ keyLock' = [keyLock EXCEPT ![p] = Missing] /\ reads' = [reads EXCEPT ![p] = {}]
      /\ pending' = [pending EXCEPT ![p] = {}] /\ StillTables
  BY DEF Str!Die, Str!tables, StillTables
<1>6. /\ keyLock' \in [Str!Processes -> StreamCalls \cup {Missing}]
      /\ reads' \in [Str!Processes -> SUBSET StreamCalls] /\ pending' \in [Str!Processes -> SUBSET StreamCalls]
      /\ keyLock'[p] = Missing /\ reads'[p] = {} /\ pending'[p] = {}
      /\ \A q \in Str!Processes \ {p} : keyLock'[q] = keyLock[q] /\ reads'[q] = reads[q] /\ pending'[q] = pending[q]
  BY <1>5 DEF StreamsTyped
<1>7. \E c \in StreamCalls : Str!UnderWay(c) /\ Str!Of(c) = p
  BY RequestFacts DEF Str!Die, StreamsTyped
<1> QED BY <1>3, <1>4, <1>5, <1>6, <1>7 DEF Dies, StreamsTyped, StillTables
--------------------
(* The lock and the places *)

LEMMA OthersStay ==
  ASSUME StreamsWellFormed, StreamsTyped, NEW c \in Str!Asked, StreamStep(c)
  PROVE  /\ \A d \in StreamCalls \ {c} : call'[d] = call[d]
         /\ \A p \in Str!Processes : \A d \in StreamCalls \ {c} : d \in reads'[p] <=> d \in reads[p]
<1>1. Str!Of(c) \in Str!Processes
  BY RequestFacts DEF StreamsTyped
<1>2. CASE Got(c) \/ LetGo(c)
  BY <1>1, <1>2 DEF Got, LetGo, Goes, Ends, Moved
<1>3. CASE Left(c) \/ Collected(c) \/ DroppedRows(c) \/ DroppedChunks(c)
  BY <1>3 DEF Left, Collected, DroppedRows, DroppedChunks, Goes, Ends, Moved, StillMemory
<1>4. CASE ~(Got(c) \/ LetGo(c) \/ Left(c) \/ Collected(c) \/ DroppedRows(c) \/ DroppedChunks(c))
  BY <1>1, <1>4 DEF StreamStep, Began, Leased, Looked, Renewed, Inserted, Finalized, Clashed, Checked, Generated,
     Pointed, Settled, Erased, UndoneChunks, LockedToDelete, Unpointed, Listed, Failed, Goes, Ends, Moved, Locks,
     Frees, StillMemory
<1> QED BY <1>2, <1>3, <1>4

LEMMA LockMoves ==
  ASSUME StreamsWellFormed, StreamsTyped, Shaped, NEW c \in Str!Asked, StreamStep(c)
  PROVE  \/ keyLock' = keyLock /\ (call[c].pc \in LockedPlaces <=> call'[c].pc \in LockedPlaces)
         \/ Locks(c) /\ call'[c].pc \in LockedPlaces
         \/ Frees(c) /\ call'[c].pc \notin LockedPlaces
<1>1. Shape(c)
  BY RequestFacts DEF Shaped, StreamsTyped
<1>2. CASE Began(c) \/ Leased(c) \/ Looked(c) \/ Renewed(c) \/ Inserted(c) \/ Checked(c) \/ Generated(c) \/ Pointed(c)
           \/ Erased(c) \/ UndoneChunks(c)
  BY <1>2 DEF Began, Leased, Looked, Renewed, Inserted, Checked, Generated, Pointed, Erased, UndoneChunks,
     Onto, Goes, Ends, Moved, StillMemory, LockedPlaces
<1>3. CASE Left(c) \/ Collected(c) \/ DroppedRows(c) \/ DroppedChunks(c) \/ Got(c) \/ Listed(c) \/ LetGo(c)
  BY <1>1, <1>3 DEF Left, Collected, DroppedRows, DroppedChunks, Got, Listed, LetGo, Shape, Drops,
     Goes, Ends, Moved, StillMemory, LockedPlaces
<1>4. CASE Finalized(c) \/ LockedToDelete(c)
  BY <1>4 DEF Finalized, LockedToDelete, Goes, Ends, Moved, LockedPlaces
<1>5. CASE Clashed(c) \/ Settled(c) \/ Unpointed(c) \/ Failed(c)
  BY <1>5 DEF Clashed, Settled, Unpointed, Failed, Ends, Moved, LockedPlaces
<1> QED BY <1>2, <1>3, <1>4, <1>5 DEF StreamStep

LEMMA HeldStep ==
  ASSUME StreamsWellFormed, StreamsTyped, Shaped, Held, stream' = stream, NEW c \in Str!Asked, StreamStep(c)
  PROVE  Held'
<1>1. /\ Str!Asked' = Str!Asked /\ Str!Processes' = Str!Processes /\ \A d : Str!Of(d)' = Str!Of(d)
      /\ Str!Asked \subseteq StreamCalls /\ \A d \in Str!Asked : Str!Of(d) \in Str!Processes
      /\ Missing \notin StreamCalls
  BY RequestFacts DEF Str!Asked, Str!Of, Str!Processes, StreamsTyped
<1>2. \A d \in Str!Asked \ {c} : call'[d].pc = call[d].pc
  BY <1>1, OthersStay
<1>3. CASE keyLock' = keyLock /\ (call[c].pc \in LockedPlaces <=> call'[c].pc \in LockedPlaces)
  BY <1>1, <1>2, <1>3 DEF Held
<1>4. CASE Locks(c) /\ call'[c].pc \in LockedPlaces
  BY <1>1, <1>2, <1>4 DEF Held, Locks
<1>5. CASE Frees(c) /\ call'[c].pc \notin LockedPlaces
  BY <1>1, <1>2, <1>5 DEF Held, Frees
<1> QED BY <1>3, <1>4, <1>5, LockMoves

LEMMA OwnShape ==
  ASSUME StreamsWellFormed, StreamsTyped, Shaped, stream' = stream, NEW c \in Str!Asked, StreamStep(c)
  PROVE  /\ Shape(c)' /\ (Fresh(c)' => Fresh(c))
         /\ \A p \in Str!Processes : c \in reads'[p] => p = Str!Of(c) /\ call'[c].pc \in {"stream", "release"}
<1>1. /\ Str!Asked' = Str!Asked /\ \A d : Str!Of(d)' = Str!Of(d) /\ (Str!IsPut(d)' <=> Str!IsPut(d))
      /\ Str!Of(c) \in Str!Processes /\ Missing \notin StreamCalls /\ c \in StreamCalls
  BY RequestFacts DEF Str!Asked, Str!Of, Str!IsPut, Str!Kind, StreamsTyped
<1>2. Shape(c) /\ pointer \in StreamCalls \cup {Missing}
      /\ \A p \in Str!Processes : c \in reads[p] => p = Str!Of(c) /\ call[c].pc \in {"stream", "release"}
  BY <1>1 DEF Shaped, StreamsTyped
<1>3. CASE Began(c) \/ Leased(c) \/ Looked(c) \/ Renewed(c) \/ Inserted(c) \/ Finalized(c)
  BY <1>1, <1>2, <1>3 DEF Began, Leased, Looked, Renewed, Inserted, Finalized, Onto, Shape, Fresh, Drops, PutPlaces,
     Goes, Ends, Moved, StillMemory, Locks
<1>4. CASE Clashed(c) \/ Checked(c) \/ Generated(c) \/ Pointed(c) \/ Settled(c) \/ Erased(c) \/ UndoneChunks(c)
  BY <1>1, <1>2, <1>4 DEF Clashed, Checked, Generated, Pointed, Settled, Erased, UndoneChunks, Shape, Fresh, Drops,
     PutPlaces, Goes, Ends, Moved, StillMemory, Frees
<1>5. CASE Left(c) \/ Collected(c) \/ DroppedRows(c) \/ DroppedChunks(c)
  BY <1>1, <1>2, <1>5 DEF Left, Collected, DroppedRows, DroppedChunks, Shape, Fresh, Drops,
     PutPlaces, Goes, Ends, Moved, StillMemory
<1>6. CASE LockedToDelete(c) \/ Unpointed(c) \/ Got(c)
  BY <1>1, <1>2, <1>6 DEF LockedToDelete, Unpointed, Got, Shape, Fresh, Drops, Str!IsPut,
     PutPlaces, Goes, Ends, Moved, Locks, Frees, StillMemory
<1>7. CASE Listed(c) \/ LetGo(c) \/ Failed(c)
  BY <1>1, <1>2, <1>7 DEF Listed, LetGo, Failed, Shape, Fresh, Drops,
     PutPlaces, Goes, Ends, Moved, Frees, StillMemory
<1> QED BY <1>3, <1>4, <1>5, <1>6, <1>7 DEF StreamStep

(* Whose upload or chunks a step makes. *)
LEMMA MadeBy ==
  ASSUME StreamsWellFormed, StreamsTyped, Shaped, NEW c \in Str!Asked, StreamStep(c)
  PROVE  \A g \in StreamCalls :
           /\ uploads'[g] # Missing
              => uploads[g] # Missing \/ (g = c /\ call[c].pc = "create" /\ call'[c].pc = "writing")
           /\ chunks'[g] # {} => chunks[g] # {} \/ (g = c /\ call[c].pc = "insert" /\ call'[c].pc = "writing")
<1>1. Shape(c) /\ c \in StreamCalls
  BY RequestFacts DEF Shaped, StreamsTyped
<1>2. CASE Leased(c) \/ Renewed(c) \/ Inserted(c) \/ Settled(c) \/ Erased(c) \/ UndoneChunks(c)
  BY <1>1, <1>2 DEF Leased, Renewed, Inserted, Settled, Erased, UndoneChunks, Goes, Ends, Moved, UploadsOf, ChunksOf
<1>3. CASE DroppedRows(c) \/ DroppedChunks(c)
  BY <1>3 DEF DroppedRows, DroppedChunks, ChunksOf
<1>4. CASE ~(Leased(c) \/ Renewed(c) \/ Inserted(c) \/ Settled(c) \/ Erased(c) \/ UndoneChunks(c)
             \/ DroppedRows(c) \/ DroppedChunks(c))
  BY <1>4 DEF StreamStep, Began, Looked, Finalized, Clashed, Checked, Generated, Pointed, Left, Collected,
     LockedToDelete, Unpointed, Got, Listed, LetGo, Failed, StillTables
<1> QED BY <1>2, <1>3, <1>4

LEMMA ShapedStep ==
  ASSUME StreamsWellFormed, StreamsTyped, Shaped, stream' = stream, NEW c \in Str!Asked, StreamStep(c)
  PROVE  Shaped'
<1>1. /\ Str!Asked' = Str!Asked /\ Str!Processes' = Str!Processes
      /\ \A d : Str!Of(d)' = Str!Of(d) /\ (Str!IsPut(d)' <=> Str!IsPut(d))
      /\ c \in StreamCalls /\ Str!Asked \subseteq StreamCalls
      /\ \A d \in Str!Asked : Str!Of(d) \in Str!Processes
  BY RequestFacts DEF Str!Asked, Str!Of, Str!IsPut, Str!Kind, Str!Processes, StreamsTyped
<1>2. \A d \in StreamCalls \ {c} : call'[d] = call[d]
      /\ \A p \in Str!Processes : d \in reads'[p] <=> d \in reads[p]
  BY OthersStay
<1>3. \A d \in StreamCalls : Shape(d)'
  <2> SUFFICES ASSUME NEW d \in StreamCalls \ {c} PROVE Shape(d)'
    BY OwnShape
  <2>1. Shape(d) /\ call'[d] = call[d] /\ \A p \in Str!Processes : d \in reads'[p] <=> d \in reads[p]
    BY <1>2 DEF Shaped
  <2> QED BY <1>1, <2>1 DEF Shape, Drops
<1>4. \A g \in StreamCalls : chunks'[g] # {} \/ uploads'[g] # Missing => g \in Str!Asked /\ Str!IsPut(g) /\ ~Fresh(g)'
  <2> SUFFICES ASSUME NEW g \in StreamCalls, chunks'[g] # {} \/ uploads'[g] # Missing
               PROVE  g \in Str!Asked /\ Str!IsPut(g) /\ ~Fresh(g)'
    OBVIOUS
  <2>1. CASE chunks[g] # {} \/ uploads[g] # Missing
    <3>1. g \in Str!Asked /\ Str!IsPut(g) /\ ~Fresh(g)
      BY <2>1 DEF Shaped
    <3>2. g # c => ~Fresh(g)'
      BY <1>2, <3>1 DEF Fresh, Drops
    <3> QED BY <3>1, <3>2, OwnShape
  <2>2. CASE ~(chunks[g] # {} \/ uploads[g] # Missing)
    <3>1. g = c /\ call[c].pc \in {"create", "insert"} /\ call'[c].pc = "writing"
      BY <2>2, MadeBy
    <3>2. Str!IsPut(c)
      BY <1>1, <3>1 DEF Shaped, Shape, PutPlaces
    <3> QED BY <3>1, <3>2 DEF Fresh, Drops
  <2> QED BY <2>1, <2>2
<1>5. \A p \in Str!Processes : \A r \in reads'[p] :
        r \in Str!Asked /\ Str!Of(r) = p /\ call'[r].pc \in {"stream", "release"}
  <2> SUFFICES ASSUME NEW p \in Str!Processes, NEW r \in reads'[p], r # c
               PROVE  r \in Str!Asked /\ Str!Of(r) = p /\ call'[r].pc \in {"stream", "release"}
    BY <1>1, OwnShape
  <2>1. r \in StreamCalls
    <3>1. CASE r \in reads[p]
      BY <3>1 DEF StreamsTyped
    <3>2. CASE r \notin reads[p]
      <4>1. Str!Of(c) \in Str!Processes
        BY <1>1
      <4> QED BY <3>2, <4>1 DEF StreamStep, Began, Leased, Looked, Renewed, Inserted, Finalized, Clashed, Checked,
        Generated, Pointed, Settled, Erased, UndoneChunks, Left, Collected, DroppedRows, DroppedChunks,
        LockedToDelete, Unpointed, Got, Listed, LetGo, Failed, Locks, Frees, StillMemory
    <3> QED BY <3>1, <3>2
  <2>2. r \in reads[p] /\ call'[r] = call[r]
    BY <1>2, <2>1
  <2> QED BY <2>2 DEF Shaped
<1> QED BY <1>1, <1>3, <1>4, <1>5 DEF Shaped
--------------------
(* How the key, the generations and what calls know of them change *)

LEMMA Settings ==
  ASSUME stream' = stream
  PROVE  /\ Str!Asked' = Str!Asked /\ Str!Processes' = Str!Processes
         /\ \A d : Str!Of(d)' = Str!Of(d) /\ (Str!IsPut(d)' <=> Str!IsPut(d))
         /\ (Str!OneProcess' <=> Str!OneProcess) /\ (Str!Fails("query")' <=> Str!Fails("query"))
         /\ stream.punctual' = stream.punctual
BY DEF Str!Asked, Str!Of, Str!IsPut, Str!Kind, Str!Processes, Str!OneProcess, Str!Fails

LEMMA PointerMoves ==
  ASSUME StreamsWellFormed, StreamsTyped, NEW c \in Str!Asked, StreamStep(c)
  PROVE  /\ call[c].pc \notin {"ended", "died"}
         /\ \/ pointer' = pointer
            \/ call[c].pc = "point" /\ pointer' = c
            \/ call[c].pc = "unpoint" /\ pointer' = Missing
BY DEF StreamStep, Began, Leased, Looked, Renewed, Inserted, Finalized, Clashed, Checked, Generated, Pointed,
  Settled, Erased, UndoneChunks, Left, Collected, DroppedRows, DroppedChunks, LockedToDelete, Unpointed, Got, Listed,
  LetGo, Failed, StillTables, UploadsOf, ChunksOf

LEMMA Arrivals ==
  ASSUME StreamsWellFormed, StreamsTyped, Shaped, NEW c \in Str!Asked, StreamStep(c)
  PROVE  /\ call'[c].pc = "compare" => call[c].pc = "count" /\ chunks[c] = 1 .. Size
         /\ call'[c].pc = "generation" => call[c].pc = "compare" /\ call'[c].found = pointer /\ pointer' = pointer
         /\ call'[c].pc = "point" => call[c].pc = "generation" /\ call'[c].found = call[c].found /\ pointer' = pointer
         /\ call'[c].pc = "settle" => /\ call[c].pc = "point" /\ call'[c].found = call[c].found /\ pointer' = c
                                      /\ uploads' = uploads /\ chunks' = chunks
                                      /\ (call'[c].clash <=> pointer # call[c].found)
         /\ call[c].pc = "point" /\ ~Str!Fails("query") => call'[c].pc = "settle"
         /\ call[c].pc = "settle" /\ ~Str!Fails("query") => uploads'[c] = Missing
         /\ call'[c].pc # "settle" => call'[c].clash = call[c].clash
         /\ call'[c].pc # "died" /\ call'[c].pc # "idle"
<1>1. Shape(c)
  BY RequestFacts DEF Shaped, StreamsTyped
<1>2. CASE Began(c) \/ Leased(c) \/ Looked(c) \/ Renewed(c) \/ Inserted(c) \/ Finalized(c)
  BY <1>2 DEF Began, Leased, Looked, Renewed, Inserted, Finalized, Onto, Goes, Ends, Moved
<1>3. CASE Clashed(c) \/ Checked(c) \/ Generated(c) \/ Pointed(c) \/ Settled(c) \/ Erased(c) \/ UndoneChunks(c)
  BY <1>3 DEF Clashed, Checked, Generated, Pointed, Settled, Erased, UndoneChunks, Goes, Ends, Moved, StillTables
<1>4. CASE Left(c) \/ Collected(c) \/ DroppedRows(c) \/ DroppedChunks(c)
  BY <1>1, <1>4 DEF Left, Collected, DroppedRows, DroppedChunks, Shape, Drops, Goes, Ends, Moved
<1>5. CASE LockedToDelete(c) \/ Unpointed(c) \/ Got(c) \/ Listed(c) \/ LetGo(c)
  BY <1>5 DEF LockedToDelete, Unpointed, Got, Listed, LetGo, Goes, Ends, Moved
<1>6. CASE Failed(c)
  BY <1>6 DEF Failed, Ends, Moved
<1> QED BY <1>2, <1>3, <1>4, <1>5, <1>6 DEF StreamStep

LEMMA ChunkMoves ==
  ASSUME StreamsWellFormed, StreamsTyped, Shaped, NEW c \in Str!Asked, StreamStep(c), NEW g \in StreamCalls
  PROVE  \/ chunks'[g] = chunks[g]
         \/ g = c /\ call[c].pc \in {"insert", "undoChunks"}
         \/ call[c].pc = "dropChunks" /\ g = call[c].found /\ g \in call[c].todo
<1>1. Shape(c)
  BY RequestFacts DEF Shaped, StreamsTyped
<1> QED BY <1>1 DEF StreamStep, Began, Leased, Looked, Renewed, Inserted, Finalized, Clashed, Checked, Generated,
  Pointed, Settled, Erased, UndoneChunks, Left, Collected, DroppedRows, DroppedChunks, LockedToDelete, Unpointed, Got,
  Listed, LetGo, Failed, StillTables, UploadsOf, ChunksOf, Shape

LEMMA UploadMoves ==
  ASSUME StreamsWellFormed, StreamsTyped, Shaped, NEW c \in Str!Asked, StreamStep(c), NEW g \in StreamCalls
  PROVE  \/ uploads'[g] = uploads[g]
         \/ g = c /\ call[c].pc \in {"create", "renew"} /\ uploads'[g] \in Nat /\ uploads'[g] >= clock
         \/ uploads'[g] = Missing /\ g = c /\ call[c].pc \in {"settle", "undo"}
         \/ uploads'[g] = Missing /\ call[c].pc = "dropUpload" /\ g = call[c].found /\ g \in call[c].todo
<1>1. Shape(c)
  BY RequestFacts DEF Shaped, StreamsTyped
<1>2. CASE DroppedRows(c)
  BY <1>1, <1>2 DEF DroppedRows, Shape
<1>3. CASE ~DroppedRows(c)
  BY <1>3 DEF StreamStep, Began, Leased, Looked, Renewed, Inserted, Finalized, Clashed, Checked, Generated, Pointed,
     Settled, Erased, UndoneChunks, Left, Collected, DroppedChunks, LockedToDelete, Unpointed, Got, Listed, LetGo,
     Failed, StillTables, UploadsOf, ChunksOf
<1> QED BY <1>2, <1>3

LEMMA GenerationMoves ==
  ASSUME StreamsWellFormed, StreamsTyped, NEW c \in Str!Asked, StreamStep(c), NEW g \in generations'
  PROVE  g \in generations \/ (g = c /\ call[c].pc = "generation" /\ call'[c].pc = "point")
<1>1. CASE Generated(c)
  BY <1>1 DEF Generated, Goes, Ends, Moved
<1>2. CASE DroppedRows(c)
  BY <1>2 DEF DroppedRows
<1>3. CASE ~Generated(c) /\ ~DroppedRows(c)
  BY <1>3 DEF StreamStep, Began, Leased, Looked, Renewed, Inserted, Finalized, Clashed, Checked, Pointed,
     Settled, Erased, UndoneChunks, Left, Collected, DroppedChunks, LockedToDelete, Unpointed, Got, Listed,
     LetGo, Failed, StillTables, UploadsOf, ChunksOf
<1> QED BY <1>1, <1>2, <1>3

(* What a call comes to drop: what it was dropping, uploads that ran out,
   or a generation that is replaced and that no stream reads. *)
LEMMA TodoMoves ==
  ASSUME StreamsWellFormed, StreamsTyped, Shaped, NEW c \in Str!Asked, StreamStep(c), Drops(c)',
         NEW g \in call'[c].todo
  PROVE  \/ Drops(c) /\ g \in call[c].todo
         \/ call[c].pc = "idle" /\ Str!Expired(g) /\ g \in StreamCalls
         \/ Collected(c) /\ call[c].pc = "current" /\ g = call[c].found
<1>1. Shape(c)
  BY RequestFacts DEF Shaped, StreamsTyped
<1>2. CASE Began(c)
  BY <1>2 DEF Began, Onto, Goes, Ends, Moved, Drops
<1>3. CASE Leased(c) \/ Looked(c) \/ Renewed(c) \/ Inserted(c) \/ Finalized(c) \/ Clashed(c) \/ Checked(c)
           \/ Generated(c) \/ Pointed(c) \/ Settled(c) \/ Erased(c) \/ UndoneChunks(c)
  BY <1>3 DEF Leased, Looked, Renewed, Inserted, Finalized, Clashed, Checked, Generated, Pointed, Settled, Erased,
     UndoneChunks, Goes, Ends, Moved, Drops
<1>4. CASE Left(c) \/ Collected(c) \/ DroppedRows(c) \/ DroppedChunks(c)
  BY <1>1, <1>4 DEF Left, Collected, DroppedRows, DroppedChunks, Shape, Drops, Goes, Ends, Moved
<1>5. CASE LockedToDelete(c) \/ Unpointed(c) \/ Got(c) \/ Listed(c) \/ LetGo(c) \/ Failed(c)
  BY <1>5 DEF LockedToDelete, Unpointed, Got, Listed, LetGo, Failed, Goes, Ends, Moved, Drops
<1> QED BY <1>2, <1>3, <1>4, <1>5 DEF StreamStep

LEMMA FoundMoves ==
  ASSUME StreamsWellFormed, StreamsTyped, Shaped, NEW c \in Str!Asked, StreamStep(c), ~Str!Fails("query"),
         call'[c].pc \in FoundPlaces
  PROVE  \/ call'[c].found = call[c].found /\ call[c].pc \in FoundPlaces
         \/ call'[c].found = pointer /\ call[c].pc \in {"compare", "unpoint", "idle"}
<1>1. Shape(c)
  BY RequestFacts DEF Shaped, StreamsTyped
<1>2. CASE Began(c) \/ Leased(c) \/ Looked(c) \/ Renewed(c) \/ Inserted(c) \/ Finalized(c)
  BY <1>2 DEF Began, Leased, Looked, Renewed, Inserted, Finalized, Onto, Goes, Ends, Moved, FoundPlaces
<1>3. CASE Clashed(c) \/ Checked(c) \/ Generated(c) \/ Pointed(c) \/ Settled(c) \/ Erased(c) \/ UndoneChunks(c)
  BY <1>3 DEF Clashed, Checked, Generated, Pointed, Settled, Erased, UndoneChunks, Goes, Ends, Moved, FoundPlaces
<1>4. CASE Left(c) \/ Collected(c) \/ DroppedRows(c) \/ DroppedChunks(c)
  BY <1>1, <1>4 DEF Left, Collected, DroppedRows, DroppedChunks, Shape, Drops, Goes, Ends, Moved, FoundPlaces
<1>5. CASE LockedToDelete(c) \/ Unpointed(c) \/ Got(c) \/ Listed(c) \/ LetGo(c)
  BY <1>5 DEF LockedToDelete, Unpointed, Got, Listed, LetGo, Goes, Ends, Moved, FoundPlaces
<1> QED BY <1>2, <1>3, <1>4, <1>5 DEF StreamStep, Failed

LEMMA PastStep ==
  ASSUME StreamsWellFormed, StreamsTyped, Shaped, NEW c \in Str!Asked, StreamStep(c), ~Str!Fails("query"),
         NEW g \in StreamCalls, Past(g)
  PROVE  Past(g)'
<1>1. Shape(c)
  BY RequestFacts DEF Shaped, StreamsTyped
<1>2. CASE g # c
  BY <1>2, OthersStay DEF Past, Over, Drops
<1>3. CASE g = c
  <2>1. Settled(c) \/ Left(c) \/ Collected(c) \/ DroppedRows(c) \/ DroppedChunks(c)
    BY <1>3 DEF Past, Over, Drops, StreamStep, Began, Leased, Looked, Renewed, Inserted, Finalized, Clashed,
       Checked, Generated, Pointed, Erased, UndoneChunks, LockedToDelete, Unpointed, Got, Listed, LetGo, Failed
  <2> QED BY <1>1, <1>3, <2>1 DEF Past, Over, Drops, Settled, Left, Collected, DroppedRows, DroppedChunks, Goes, Ends,
    Moved
<1> QED BY <1>2, <1>3
--------------------
(* The steps of calls *)

LEMMA InLeaseStep ==
  ASSUME StreamsWellFormed, StreamsTyped, Shaped, InLease, stream' = stream, clock' = clock, NEW c \in Str!Asked,
         StreamStep(c)
  PROVE  InLease'
<1> SUFFICES ASSUME stream.punctual, NEW g \in Str!Asked, Str!UnderWay(g)', uploads'[g] # Missing
             PROVE  uploads'[g] >= clock
  BY Settings DEF InLease
<1>1. g \in StreamCalls
  BY RequestFacts DEF StreamsTyped
<1>2. CASE uploads'[g] = uploads[g]
  <2>1. ~Fresh(g)
    BY <1>1, <1>2 DEF Shaped
  <2>2. Str!UnderWay(g)
    <3>1. CASE g = c
      BY <2>1, <3>1, PointerMoves DEF Str!UnderWay, Fresh
    <3>2. CASE g # c
      BY <1>1, <3>2, OthersStay, Settings DEF Str!UnderWay
    <3> QED BY <3>1, <3>2
  <2> QED BY <1>2, <2>2 DEF InLease
<1> QED BY <1>1, <1>2, UploadMoves

LEMMA OneLock ==
  ASSUME StreamsWellFormed, StreamsTyped, Held, Str!OneProcess, NEW c \in Str!Asked, NEW d \in Str!Asked,
         call[c].pc \in LockedPlaces, call[d].pc \in LockedPlaces
  PROVE  c = d
BY DEF Held, Str!OneProcess

LEMMA UnracedStep ==
  ASSUME StreamsWellFormed, StreamsTyped, Held, Shaped, Str!OneProcess, Unraced, stream' = stream,
         NEW c \in Str!Asked, StreamStep(c)
  PROVE  Unraced'
<1>1. Str!Asked' = Str!Asked /\ Str!Asked \subseteq StreamCalls
  BY RequestFacts, Settings DEF StreamsTyped
<1>2. \A d \in Str!Asked : ~call'[d].clash
  BY <1>1, OthersStay, Arrivals DEF Unraced
<1>3. \A d \in Str!Asked \ {c} : call'[d].pc \in {"generation", "point", "settle"} => pointer' = pointer
  BY <1>1, OthersStay, OneLock, PointerMoves DEF LockedPlaces
<1>4. \A d \in Str!Asked \ {c} : /\ call'[d].pc \in {"generation", "point"} => call'[d].found = pointer'
                                 /\ call'[d].pc = "settle" => pointer' = d
  BY <1>1, <1>3, OthersStay DEF Unraced
<1>5. /\ call'[c].pc \in {"generation", "point"} => call'[c].found = pointer'
      /\ call'[c].pc = "settle" => pointer' = c
  BY Arrivals DEF Unraced
<1> QED BY <1>1, <1>2, <1>4, <1>5 DEF Unraced

(* A sound generation stays so, unless somebody collects it. *)
LEMMA SoundStep ==
  ASSUME StreamsWellFormed, StreamsTyped, Shaped, InLease, Orderly, stream' = stream, clock' = clock,
         NEW c \in Str!Asked, StreamStep(c), NEW g \in StreamCalls, Sound(g), Collected(c) => call[c].found # g
  PROVE  Sound(g)'
<1>1. Past(g)'
  BY PastStep DEF Sound, Orderly
<1>2. Shape(c) /\ c \in StreamCalls
  BY RequestFacts DEF Shaped, StreamsTyped
<1>3. call[g].pc \notin {"insert", "undoChunks", "create", "renew", "idle"}
  BY DEF Sound, Past, Over, Drops
<1>4. chunks'[g] = 1 .. Size
  BY <1>2, <1>3, ChunkMoves DEF Sound, Undropped, Drops
<1>5. call'[g].pc = "settle" \/ uploads'[g] = Missing
  <2>1. CASE uploads[g] = Missing
    BY <1>3, <2>1, UploadMoves
  <2>2. CASE call[g].pc = "settle"
    <3>1. CASE g = c
      BY <2>2, <3>1, Arrivals DEF Orderly
    <3>2. CASE g # c
      BY <2>2, <3>2, OthersStay
    <3> QED BY <3>1, <3>2
  <2> QED BY <2>1, <2>2 DEF Sound
<1>6. ~Str!Expired(g)
  <2> SUFFICES ASSUME uploads[g] # Missing, uploads[g] < clock PROVE FALSE
    BY DEF Str!Expired
  <2>1. call[g].pc = "settle" /\ g \in Str!Asked
    BY DEF Sound, Shaped
  <2>2. uploads[g] >= clock
    BY <2>1 DEF Orderly, InLease, Str!UnderWay
  <2> QED BY <2>2, RequestFacts DEF StreamsTyped
<1>7. Undropped(g)'
  <2> SUFFICES ASSUME NEW d \in StreamCalls, Drops(d)', g \in call'[d].todo PROVE FALSE
    BY DEF Undropped
  <2>1. CASE d = c
    BY <1>2, <1>6, <2>1, TodoMoves DEF Sound, Undropped
  <2>2. CASE d # c
    BY <2>2, OthersStay DEF Sound, Undropped, Drops
  <2> QED BY <2>1, <2>2
<1> QED BY <1>1, <1>4, <1>5, <1>7 DEF Sound

LEMMA KeptStep ==
  ASSUME StreamsWellFormed, StreamsTyped, StreamsTyped', Shaped, InLease, Orderly, Kept, stream' = stream,
         clock' = clock, NEW c \in Str!Asked, StreamStep(c)
  PROVE  Kept'
<1>1. c \in StreamCalls /\ Str!Asked \subseteq StreamCalls /\ ~Str!Fails("query") /\ Shape(c)
      /\ Missing \notin StreamCalls
  BY RequestFacts DEF Shaped, StreamsTyped, Orderly
<1>2. pointer' # Missing => Sound(pointer)'
  <2> SUFFICES ASSUME pointer' # Missing PROVE Sound(pointer)'
    OBVIOUS
  <2>1. CASE pointer' = pointer
    <3>1. pointer \in StreamCalls /\ Sound(pointer)
      BY <2>1 DEF Kept, StreamsTyped
    <3>2. Collected(c) => call[c].found # pointer
      BY DEF Collected
    <3> DEFINE g == pointer
    <3>3. g \in StreamCalls /\ Sound(g) /\ (Collected(c) => call[c].found # g)
      BY <3>1, <3>2
    <3>4. \A h \in StreamCalls : Sound(h) /\ (Collected(c) => call[c].found # h) => Sound(h)'
      BY SoundStep
    <3>5. PICK h \in StreamCalls : h = pointer /\ Sound(h)'
      BY <3>3, <3>4
    <3> QED BY <2>1, <3>5 DEF Sound, Past, Over, Drops, Undropped
  <2>2. CASE call[c].pc = "point" /\ pointer' = c
    <3>1. call'[c].pc = "settle" /\ chunks' = chunks
      BY <1>1, <2>2, Arrivals
    <3>2. chunks'[c] = 1 .. Size /\ ~Past(c)
      BY <1>1, <2>2, <3>1 DEF Kept, Past, Over, Drops
    <3>3. Undropped(c)'
      <4> SUFFICES ASSUME NEW d \in StreamCalls, Drops(d)', c \in call'[d].todo PROVE FALSE
        BY DEF Undropped
      <4>1. d # c
        BY <3>1 DEF Drops
      <4> QED BY <3>2, <4>1, OthersStay DEF Kept, Drops
    <3>4. Sound(c)'
      BY <3>1, <3>2, <3>3 DEF Sound, Past
    <3> QED BY <2>2, <3>4 DEF Sound, Past, Over, Drops, Undropped
  <2> QED BY <2>1, <2>2, PointerMoves
<1>3. \A d \in StreamCalls : Drops(d)' => \A g \in call'[d].todo : Past(g)'
  <2> SUFFICES ASSUME NEW d \in StreamCalls, Drops(d)', NEW g \in call'[d].todo PROVE Past(g)'
    OBVIOUS
  <2>1. g \in StreamCalls
    BY DEF StreamsTyped, StreamRecords
  <2> SUFFICES Past(g)
    BY <1>1, <2>1, PastStep
  <2>2. CASE d # c
    BY <2>2, OthersStay DEF Kept, Drops
  <2>3. CASE d = c
    <3>1. CASE Drops(c) /\ g \in call[c].todo
      BY <1>1, <3>1 DEF Kept
    <3>2. CASE Str!Expired(g)
      <4>1. uploads[g] # Missing /\ uploads[g] < clock /\ uploads[g] \in Nat /\ clock \in Nat
        BY <2>1, <3>2, RequestFacts DEF Str!Expired, StreamsTyped
      <4>2. g \in Str!Asked /\ ~Fresh(g)
        BY <2>1, <4>1 DEF Shaped
      <4>3. ~Str!UnderWay(g)
        BY <4>1, <4>2 DEF InLease, Orderly
      <4> QED BY <4>2, <4>3 DEF Str!UnderWay, Fresh, Past, Over
    <3>3. CASE call[c].pc = "current" /\ g = call[c].found
      BY <1>1, <2>1, <3>3 DEF Kept, FoundPlaces
    <3> QED BY <2>3, <3>1, <3>2, <3>3, TodoMoves
  <2> QED BY <2>2, <2>3
<1>4. \A d, g \in StreamCalls : call'[d].pc \in FoundPlaces /\ call'[d].found = g => Past(g)'
  <2> SUFFICES ASSUME NEW d \in StreamCalls, NEW g \in StreamCalls, call'[d].pc \in FoundPlaces, g = call'[d].found
               PROVE  Past(g)'
    OBVIOUS
  <2> SUFFICES Past(g)
    BY <1>1, PastStep
  <2>1. CASE d # c
    <3>1. call[d].pc \in FoundPlaces /\ call[d].found = g /\ g # Missing
      BY <1>1, <2>1, OthersStay
    <3> QED BY <3>1 DEF Kept
  <2>2. CASE d = c /\ g = call[c].found /\ call[c].pc \in FoundPlaces
    BY <1>1, <2>2 DEF Kept, FoundPlaces
  <2>3. CASE d = c /\ g = pointer
    BY <1>1, <2>3 DEF Kept, Sound
  <2> QED BY <1>1, <2>1, <2>2, <2>3, FoundMoves
<1>5. \A d \in StreamCalls : call'[d].pc \in {"compare", "generation", "point"} => chunks'[d] = 1 .. Size
  <2> SUFFICES ASSUME NEW d \in StreamCalls, call'[d].pc \in {"compare", "generation", "point"}
               PROVE  chunks'[d] = 1 .. Size
    OBVIOUS
  <2>1. chunks[d] = 1 .. Size /\ call[d].pc \in {"count", "compare", "generation", "point"}
    BY <1>1, OthersStay, Arrivals DEF Kept
  <2>2. ~Past(d)
    BY <2>1 DEF Past, Over, Drops
  <2>3. ~(call[c].pc = "dropChunks" /\ d \in call[c].todo)
    BY <1>1, <2>2 DEF Kept, Drops
  <2> QED BY <2>1, <2>3, ChunkMoves
<1>6. \A g \in generations' : Past(g)' \/ call'[g].pc = "point"
  <2> SUFFICES ASSUME NEW g \in generations' PROVE Past(g)' \/ call'[g].pc = "point"
    OBVIOUS
  <2>1. g \in StreamCalls
    BY DEF StreamsTyped
  <2>2. CASE g \notin generations
    BY <2>2, GenerationMoves
  <2>3. CASE g \in generations /\ Past(g)
    BY <1>1, <2>1, <2>3, PastStep
  <2>4. CASE call[g].pc = "point"
    <3>1. CASE g = c
      BY <1>1, <2>4, <3>1, Arrivals DEF Past
    <3>2. CASE g # c
      BY <2>1, <2>4, <3>2, OthersStay
    <3> QED BY <3>1, <3>2
  <2> QED BY <2>2, <2>3, <2>4 DEF Kept
<1>7. \A d \in StreamCalls : call'[d].pc \in FoundPlaces /\ call'[d].found # Missing => Past(call[d].found)'
  <2>1. \A d \in StreamCalls : call'[d].found \in StreamCalls \cup {Missing}
    BY DEF StreamsTyped, StreamRecords
  <2> QED BY <1>4, <2>1 DEF Past, Over, Drops
<1> QED BY <1>2, <1>3, <1>5, <1>6, <1>7 DEF Kept
LEMMA AnswerMoves ==
  ASSUME StreamsWellFormed, StreamsTyped, Shaped, NEW c \in Str!Asked, StreamStep(c), ~Str!Fails("query")
  PROVE  /\ call'[c].answer = "torn" => \/ call[c].answer = "torn"
                                        \/ call[c].pc = "stream" /\ chunks[call[c].found] # 1 .. Size
         /\ call'[c].pc = "retain" => /\ call[c].pc = "idle" /\ call'[c].answer = call[c].answer
                                      /\ call'[c].found = pointer /\ pointer # Missing
         /\ call'[c].pc = "stream" => /\ call[c].pc = "retain" /\ call'[c].answer = call[c].answer
                                      /\ call'[c].found = call[c].found
                                      /\ (call'[c].late <=> Str!IsDropped(call[c].found))
         /\ call'[c].pc # "stream" => call'[c].late = call[c].late
         /\ call'[c].pc = "current" => /\ call[c].pc \in {"gc", "release"} /\ call'[c].found = call[c].found
                                       /\ Str!StreamsOf(Str!Of(c), call[c].found) \subseteq {c}
<1>1. Shape(c)
  BY RequestFacts DEF Shaped, StreamsTyped
<1>2. CASE Began(c) \/ Leased(c) \/ Looked(c) \/ Renewed(c) \/ Inserted(c) \/ Finalized(c)
  BY <1>2 DEF Began, Leased, Looked, Renewed, Inserted, Finalized, Onto, Goes, Ends, Moved
<1>3. CASE Clashed(c) \/ Checked(c) \/ Generated(c) \/ Pointed(c) \/ Settled(c) \/ Erased(c) \/ UndoneChunks(c)
  BY <1>3 DEF Clashed, Checked, Generated, Pointed, Settled, Erased, UndoneChunks, Goes, Ends, Moved
<1>4. CASE Left(c) \/ Collected(c) \/ DroppedRows(c) \/ DroppedChunks(c)
  BY <1>1, <1>4 DEF Left, Collected, DroppedRows, DroppedChunks, Shape, Drops, Goes, Ends, Moved
<1>5. CASE LockedToDelete(c) \/ Unpointed(c) \/ Listed(c) \/ LetGo(c)
  BY <1>5 DEF LockedToDelete, Unpointed, Listed, LetGo, Goes, Ends, Moved
<1>6. CASE Got(c)
  BY <1>6 DEF Got, Ends, Moved
<1> QED BY <1>2, <1>3, <1>4, <1>5, <1>6 DEF StreamStep, Failed

(* What somebody drops, or comes to drop, stays so until it is dropped, or
   the key turns out to point at it. *)
LEMMA DroppedStep ==
  ASSUME StreamsWellFormed, StreamsTyped, Shaped, InLease, Orderly, Kept, Remembered, stream' = stream,
         clock' = clock, NEW c \in Str!Asked, StreamStep(c), NEW g \in StreamCalls, Past(g), Str!IsDropped(g)
  PROVE  Str!IsDropped(g)' \/ Sound(g)'
<1>1. c \in StreamCalls /\ Str!Asked \subseteq StreamCalls /\ Str!Asked' = Str!Asked /\ ~Str!Fails("query")
      /\ Shape(c)
  BY RequestFacts, Settings DEF StreamsTyped, Orderly, Shaped
<1>2. CASE g \notin generations
  <2>1. call[g].pc # "generation"
    BY DEF Past, Over, Drops
  <2> QED BY <1>2, <2>1, GenerationMoves DEF Str!IsDropped
<1>3. ASSUME NEW d \in Str!Asked \ {c},
             (call[d].pc = "current" /\ call[d].found = g) \/ (Drops(d) /\ g \in call[d].todo)
      PROVE  Str!IsDropped(g)'
  <2>1. call'[d] = call[d]
    BY <1>1, OthersStay
  <2> QED BY <1>1, <1>3, <2>1 DEF Drops, Str!IsDropped
<1>4. CASE call[c].pc = "current" /\ call[c].found = g
  <2>1. Left(c) \/ Collected(c)
    BY <1>1, <1>4 DEF StreamStep, Began, Leased, Looked, Renewed, Inserted, Finalized, Clashed, Checked, Generated,
       Pointed, Settled, Erased, UndoneChunks, DroppedRows, DroppedChunks, LockedToDelete, Unpointed, Got, Listed,
       LetGo, Failed
  <2>2. CASE Left(c)
    <3>1. pointer = g /\ ~Collected(c) /\ g # Missing
      BY <1>4, <2>2, RequestFacts DEF Left, Collected, StreamsTyped
    <3>2. Sound(g)
      BY <3>1 DEF Kept
    <3> QED BY <3>1, <3>2, SoundStep
  <2>3. CASE Collected(c)
    BY <1>1, <1>4, <2>3 DEF Collected, Moved, Str!IsDropped
  <2> QED BY <2>1, <2>2, <2>3
<1>5. CASE Drops(c) /\ g \in call[c].todo
  <2>1. DroppedRows(c) \/ DroppedChunks(c)
    BY <1>1, <1>5 DEF Drops, StreamStep, Began, Leased, Looked, Renewed, Inserted, Finalized, Clashed, Checked,
       Generated, Pointed, Settled, Erased, UndoneChunks, Left, Collected, LockedToDelete, Unpointed, Got, Listed,
       LetGo, Failed
  <2>2. CASE DroppedRows(c)
    BY <1>1, <1>5, <2>2 DEF DroppedRows, Goes, Ends, Moved, Str!IsDropped
  <2>3. CASE DroppedChunks(c) /\ g # call[c].found
    BY <1>1, <1>5, <2>3 DEF DroppedChunks, Moved, Str!IsDropped
  <2>4. CASE DroppedChunks(c) /\ g = call[c].found
    <3>1. g \notin generations
      BY <1>1, <2>4 DEF DroppedChunks, Remembered
    <3> QED BY <1>2, <3>1
  <2> QED BY <2>1, <2>2, <2>3, <2>4
<1>6. CASE g \in generations
  <2>1. PICK d \in Str!Asked : (call[d].pc = "current" /\ call[d].found = g) \/ (Drops(d) /\ g \in call[d].todo)
    BY <1>6 DEF Str!IsDropped, Drops
  <2>2. CASE d = c
    BY <1>4, <1>5, <2>1, <2>2
  <2>3. CASE d # c
    BY <1>3, <2>1, <2>3
  <2> QED BY <2>2, <2>3
<1> QED BY <1>2, <1>6

LEMMA StreamedStep ==
  ASSUME StreamsWellFormed, StreamsTyped, StreamsTyped', Shaped, InLease, Orderly, Kept, Str!OneProcess, Streamed,
         Remembered, stream' = stream, clock' = clock, NEW c \in Str!Asked, StreamStep(c)
  PROVE  Streamed'
<1>1. c \in StreamCalls /\ Str!Asked \subseteq StreamCalls /\ Str!Asked' = Str!Asked /\ ~Str!Fails("query")
      /\ Missing \notin StreamCalls /\ Str!Of(c) \in Str!Processes
  BY RequestFacts, Settings DEF StreamsTyped, Orderly
<1>2. \A d \in StreamCalls : /\ call'[d].answer = "torn" => call'[d].late
                             /\ call'[d].pc \in {"idle", "retain"} => call'[d].answer # "torn"
  <2>1. call[c].pc = "stream" /\ chunks[call[c].found] # 1 .. Size => call[c].late
    BY <1>1 DEF Streamed, Sound
  <2>2. call'[c].answer = "torn" => call'[c].late
    BY <1>1, <2>1, AnswerMoves DEF Streamed
  <2>3. call'[c].pc \in {"idle", "retain"} => call'[c].answer # "torn"
    BY <1>1, AnswerMoves, Arrivals DEF Streamed
  <2> QED BY <2>2, <2>3, OthersStay DEF Streamed
<1>3. \A d, g \in StreamCalls : call'[d].pc = "retain" /\ call'[d].found = g => Sound(g)' \/ Str!IsDropped(g)'
  <2> SUFFICES ASSUME NEW d \in StreamCalls, NEW g \in StreamCalls, call'[d].pc = "retain", call'[d].found = g
               PROVE  Sound(g)' \/ Str!IsDropped(g)'
    OBVIOUS
  <2>1. CASE d = c
    <3>1. call[c].pc = "idle" /\ g = pointer /\ pointer # Missing
      BY <1>1, <2>1, AnswerMoves
    <3>2. Sound(g) /\ ~Collected(c)
      BY <3>1 DEF Kept, Collected
    <3> QED BY <3>2, SoundStep
  <2>2. CASE d # c
    <3>1. call[d].pc = "retain" /\ call[d].found = g /\ (Sound(g) \/ Str!IsDropped(g))
      BY <2>2, OthersStay DEF Streamed
    <3>2. Past(g)
      BY <1>1, <3>1 DEF Kept, FoundPlaces
    <3>3. CASE Str!IsDropped(g)
      BY <3>2, <3>3, DroppedStep
    <3>4. CASE Sound(g) /\ ~(Collected(c) /\ call[c].found = g)
      BY <3>4, SoundStep
    <3>5. CASE Collected(c) /\ call[c].found = g
      BY <1>1, <3>5 DEF Collected, Moved, Str!IsDropped
    <3> QED BY <3>1, <3>3, <3>4, <3>5
  <2> QED BY <2>1, <2>2
<1>4. \A d, g \in StreamCalls :
        call'[d].pc = "stream" /\ ~call'[d].late /\ call'[d].found = g => Sound(g)' /\ Uncollected(g)'
  <2> SUFFICES ASSUME NEW d \in StreamCalls, NEW g \in StreamCalls, call'[d].pc = "stream", ~call'[d].late,
                      call'[d].found = g
               PROVE  Sound(g)' /\ Uncollected(g)'
    OBVIOUS
  <2>1. Sound(g) /\ Uncollected(g)
    <3>1. CASE d = c
      <4>1. call[c].pc = "retain" /\ call[c].found = g /\ ~Str!IsDropped(g)
        BY <1>1, <3>1, AnswerMoves
      <4>2. Sound(g)
        BY <1>1, <4>1 DEF Streamed
      <4>3. \A e \in StreamCalls : call[e].pc = "current" => e \in Str!Asked
        BY DEF Shaped, Shape
      <4> QED BY <4>1, <4>2, <4>3 DEF Str!IsDropped, Uncollected
    <3>2. CASE d # c
      BY <3>2, OthersStay DEF Streamed
    <3> QED BY <3>1, <3>2
  <2>2. Sound(g)'
    BY <1>1, <2>1, SoundStep DEF Collected, Uncollected
  <2>3. ASSUME NEW e \in StreamCalls, call'[e].pc = "current", call'[e].found = g PROVE FALSE
    <3>1. CASE e # c
      BY <2>1, <2>3, <3>1, OthersStay DEF Uncollected
    <3>2. CASE e = c
      <4>1. call[c].found = g /\ Str!StreamsOf(Str!Of(c), g) \subseteq {c}
        BY <1>1, <2>3, <3>2, AnswerMoves
      <4>2. d # c /\ call[d].pc = "stream" /\ call[d].found = g /\ Shape(d)
        BY <2>3, <3>2, OthersStay DEF Shaped
      <4>3. d \in Str!Asked /\ d \in reads[Str!Of(d)]
        BY <4>2 DEF Shape
      <4>4. Str!Of(d) = Str!Of(c)
        BY <4>3 DEF Str!OneProcess
      <4> QED BY <4>1, <4>2, <4>3, <4>4 DEF Str!StreamsOf
    <3> QED BY <3>1, <3>2
  <2> QED BY <2>2, <2>3 DEF Uncollected
<1>5. \A d \in StreamCalls : call'[d].pc \in {"retain", "stream"} => call'[d].found \in StreamCalls
  <2> SUFFICES ASSUME NEW d \in StreamCalls, call'[d].pc \in {"retain", "stream"}
               PROVE  call'[d].found \in StreamCalls
    OBVIOUS
  <2>1. Shape(d)'
    BY ShapedStep DEF Shaped
  <2> QED BY <2>1 DEF Shape, StreamsTyped, StreamRecords
<1>6. ASSUME NEW d \in StreamCalls, call'[d].pc = "retain"
      PROVE  Sound(call[d].found)' \/ Str!IsDropped(call[d].found)'
  <2>1. PICK g \in StreamCalls : g = call'[d].found
    BY <1>5, <1>6
  <2>2. Sound(g)' \/ Str!IsDropped(g)'
    BY <1>3, <1>6, <2>1
  <2> QED BY <2>1, <2>2 DEF Sound, Past, Over, Drops, Undropped, Str!IsDropped
<1>7. ASSUME NEW d \in StreamCalls, call'[d].pc = "stream", ~call'[d].late
      PROVE  Sound(call[d].found)' /\ Uncollected(call[d].found)'
  <2>1. PICK g \in StreamCalls : g = call'[d].found
    BY <1>5, <1>7
  <2>2. Sound(g)' /\ Uncollected(g)'
    BY <1>4, <1>7, <2>1
  <2> QED BY <2>1, <2>2 DEF Sound, Past, Over, Drops, Undropped, Uncollected
<1> QED BY <1>2, <1>6, <1>7 DEF Streamed

--------------------
(* Who will drop what nobody needs *)

GuardedPlaces == {"writing", "renew", "insert", "check", "count", "compare", "generation", "point", "settle", "undo"}

LEMMA UploadStays ==
  ASSUME StreamsWellFormed, StreamsTyped, Shaped, NEW c \in Str!Asked, StreamStep(c), ~Str!Fails("query"),
         call'[c].pc \in GuardedPlaces
  PROVE  \/ uploads'[c] \in Nat
         \/ call[c].pc \in GuardedPlaces /\ uploads'[c] = uploads[c]
<1>1. Shape(c) /\ c \in StreamCalls
  BY RequestFacts DEF Shaped, StreamsTyped
<1>2. CASE Began(c) \/ Leased(c) \/ Looked(c) \/ Renewed(c) \/ Inserted(c) \/ Finalized(c)
  BY <1>2 DEF Began, Leased, Looked, Renewed, Inserted, Finalized, Onto, Goes, Ends, Moved, GuardedPlaces,
     StillTables, ChunksOf
<1>3. CASE Clashed(c) \/ Checked(c) \/ Generated(c) \/ Pointed(c) \/ Settled(c) \/ Erased(c) \/ UndoneChunks(c)
  BY <1>3 DEF Clashed, Checked, Generated, Pointed, Settled, Erased, UndoneChunks, Goes, Ends, Moved, GuardedPlaces,
     StillTables
<1>4. CASE Left(c) \/ Collected(c) \/ DroppedRows(c) \/ DroppedChunks(c)
  BY <1>1, <1>4 DEF Left, Collected, DroppedRows, DroppedChunks, Shape, Drops, Goes, Ends, Moved, GuardedPlaces
<1>5. CASE LockedToDelete(c) \/ Unpointed(c) \/ Got(c) \/ Listed(c) \/ LetGo(c)
  BY <1>5 DEF LockedToDelete, Unpointed, Got, Listed, LetGo, Goes, Ends, Moved, GuardedPlaces
<1> QED BY <1>2, <1>3, <1>4, <1>5 DEF StreamStep, Failed

Claims(d, g) ==
  \/ call[d].pc \in {"settle", "gc", "current"} /\ call[d].found = g
  \/ Drops(d) /\ g \in call[d].todo

Waits(g) == \E p \in Str!Processes : g \in pending[p] /\ Str!StreamsOf(p, g) # {}

LEMMA ClaimedBy ==
  ASSUME NEW g \in StreamCalls
  PROVE  Claimed(g) <=> \/ g = pointer \/ uploads[g] # Missing \/ call[g].pc = "undoChunks"
                        \/ (\E d \in StreamCalls : Claims(d, g)) \/ Waits(g)
BY DEF Claimed, Claims, Waits

Nothing(g) == chunks'[g] = {} /\ g \notin generations'

LEMMA PointerClaimed ==
  ASSUME StreamsWellFormed, StreamsTyped, Shaped, Unraced, NEW c \in Str!Asked, StreamStep(c), ~Str!Fails("query"),
         NEW g \in StreamCalls, g = pointer
  PROVE  g = pointer' \/ Claims(c, g)'
<1>1. CASE call[c].pc = "point"
  BY <1>1, Arrivals DEF Claims, Unraced
<1>2. CASE call[c].pc = "unpoint"
  <2>1. Unpointed(c)
    BY <1>2 DEF StreamStep, Began, Leased, Looked, Renewed, Inserted, Finalized, Clashed, Checked, Generated, Pointed,
       Settled, Erased, UndoneChunks, Left, Collected, DroppedRows, DroppedChunks, LockedToDelete, Got, Listed,
       LetGo, Failed
  <2>2. pointer # Missing
    BY RequestFacts DEF StreamsTyped
  <2> QED BY <2>1, <2>2 DEF Unpointed, Moved, Claims
<1> QED BY <1>1, <1>2, PointerMoves

LEMMA ClaimKept ==
  ASSUME StreamsWellFormed, StreamsTyped, Shaped, stream' = stream, NEW c \in Str!Asked, StreamStep(c),
         ~Str!Fails("query"), NEW g \in StreamCalls, Claims(c, g), Str!StreamsOf(Str!Of(c),
         g)' = Str!StreamsOf(Str!Of(c), g),
         call[c].pc = "dropChunks" => call[c].found \notin generations
  PROVE  g = pointer' \/ Claims(c, g)' \/ Waits(g)' \/ Nothing(g)
<1>1. Str!Of(c) \in Str!Processes /\ g # Missing
  BY RequestFacts DEF StreamsTyped
<1>2. Settled(c) \/ Left(c) \/ Collected(c) \/ DroppedRows(c) \/ DroppedChunks(c)
  BY DEF Claims, Drops, StreamStep, Began, Leased, Looked, Renewed, Inserted, Finalized, Clashed, Checked,
     Generated, Pointed, Erased, UndoneChunks, LockedToDelete, Unpointed, Got, Listed, LetGo, Failed
<1>3. CASE Settled(c)
  BY <1>1, <1>3 DEF Settled, Claims, Drops, Ends, Moved
<1>4. CASE Left(c)
  <2>1. call[c].found = g
    BY <1>4 DEF Left, Claims, Drops
  <2>2. CASE call[c].pc = "current"
    BY <1>4, <2>1, <2>2 DEF Left, StillTables
  <2>3. CASE call[c].pc = "gc" /\ Str!StreamsOf(Str!Of(c), g) = {}
    BY <1>4, <2>1, <2>3 DEF Left, Goes, Ends, Moved, Claims
  <2>4. CASE call[c].pc = "gc" /\ Str!StreamsOf(Str!Of(c), g) # {}
    <3>1. Str!StreamsOf(Str!Of(c), g)' # {} /\ g \in pending'[Str!Of(c)] /\ Str!Processes' = Str!Processes
      BY <1>4, <2>1, <2>4 DEF Left, Str!Processes
    <3>2. PICK p \in Str!Processes : p = Str!Of(c) /\ g \in pending'[p] /\ Str!StreamsOf(p, g)' # {}
      <4>1. Str!Of(c)' = Str!Of(c)
        BY Settings
      <4> QED BY <1>1, <3>1, <4>1 DEF Str!StreamsOf
    <3> QED BY <3>1, <3>2 DEF Waits
  <2> QED BY <1>4, <2>2, <2>3, <2>4 DEF Left
<1>5. CASE Collected(c)
  BY <1>5 DEF Collected, Claims, Drops, Moved
<1>6. CASE DroppedRows(c)
  BY <1>6 DEF DroppedRows, Claims, Drops, Goes, Ends, Moved
<1>7. CASE DroppedChunks(c)
  <2>1. g \in call[c].todo /\ generations' = generations
    BY <1>7 DEF DroppedChunks, Claims, Drops, ChunksOf
  <2>2. CASE g = call[c].found
    BY <1>7, <2>1, <2>2 DEF DroppedChunks, Nothing
  <2>3. CASE g # call[c].found
    BY <1>7, <2>1, <2>3 DEF DroppedChunks, Moved, Claims, Drops
  <2> QED BY <2>2, <2>3
<1> QED BY <1>2, <1>3, <1>4, <1>5, <1>6, <1>7

(* A wait ends with the last stream, which collects. *)
LEMMA WaitKept ==
  ASSUME StreamsWellFormed, StreamsTyped, Shaped, stream' = stream, NEW c \in Str!Asked, StreamStep(c),
         ~Str!Fails("query"), NEW g \in StreamCalls, Waits(g)
  PROVE  Waits(g)' \/ Claims(c, g)'
<1>1. Str!Of(c) \in Str!Processes /\ Str!Processes' = Str!Processes
      /\ \A p \in Str!Processes : \A d : d \in reads[p] => d \in StreamCalls
  BY RequestFacts, Settings DEF StreamsTyped
<1>0. PICK p \in Str!Processes : g \in pending[p] /\ Str!StreamsOf(p, g) # {}
  BY DEF Waits
<1>2. PICK r : g \in pending[p] /\ r \in reads[p] /\ call[r].found = g
  BY <1>0 DEF Str!StreamsOf
<1>3. r \in Str!Asked /\ Str!Of(r) = p /\ call[r].pc \in {"stream", "release"} /\ r \in StreamCalls
  BY <1>1, <1>2 DEF Shaped
<1>4. \A d : d \in reads'[p] /\ g \in pending'[p] /\ call'[d].found = g => Waits(g)'
  BY <1>1 DEF Waits, Str!StreamsOf
<1>5. CASE ~LetGo(c)
  <2>1. g \in pending'[p] /\ r \in reads'[p]
    BY <1>1, <1>2, <1>5 DEF StreamStep, Began, Leased, Looked, Renewed, Inserted, Finalized, Clashed, Checked,
       Generated, Pointed, Settled, Erased, UndoneChunks, Left, Collected, DroppedRows, DroppedChunks, LockedToDelete,
       Unpointed, Got, Listed, Failed, Locks, Frees, StillMemory
  <2>2. call'[r].found = g
    <3>1. CASE r # c
      BY <1>2, <1>3, <3>1, OthersStay
    <3>2. CASE r = c
      <4>1. Listed(c)
        BY <1>3, <1>5, <3>2 DEF StreamStep, Began, Leased, Looked, Renewed, Inserted, Finalized, Clashed, Checked,
           Generated, Pointed, Settled, Erased, UndoneChunks, Left, Collected, DroppedRows, DroppedChunks,
           LockedToDelete, Unpointed, Got, Failed
      <4> QED BY <1>2, <3>2, <4>1 DEF Listed, Ends, Moved
    <3> QED BY <3>1, <3>2
  <2> QED BY <1>4, <2>1, <2>2
<1>6. CASE LetGo(c)
  <2>1. CASE p # Str!Of(c)
    <3>1. g \in pending'[p] /\ r \in reads'[p] /\ r # c
      BY <1>2, <1>3, <1>6, <2>1 DEF LetGo
    <3> QED BY <1>2, <1>3, <1>4, <3>1, OthersStay
  <2>2. CASE p = Str!Of(c) /\ call[c].found # g
    <3>1. r # c /\ r \in reads'[p] /\ g \in pending'[p]
      BY <1>2, <1>6, <2>2 DEF LetGo
    <3> QED BY <1>2, <1>3, <1>4, <3>1, OthersStay
  <2>3. CASE p = Str!Of(c) /\ call[c].found = g /\ Str!StreamsOf(p, g) \subseteq {c}
    <3>1. Goes(c, "current")
      BY <1>2, <1>6, <2>3 DEF LetGo
    <3> QED BY <2>3, <3>1 DEF Goes, Ends, Moved, Claims
  <2>4. CASE p = Str!Of(c) /\ call[c].found = g /\ ~(Str!StreamsOf(p, g) \subseteq {c})
    <3>1. PICK q \in Str!StreamsOf(p, g) : q # c
      BY <2>4
    <3>2. q \in reads[p] /\ call[q].found = g /\ q \in StreamCalls
      BY <1>1 DEF Str!StreamsOf
    <3>3. q \in reads'[p] /\ g \in pending'[p]
      BY <1>2, <1>6, <2>4, <3>1, <3>2 DEF LetGo
    <3> QED BY <1>4, <3>1, <3>2, <3>3, OthersStay
  <2> QED BY <2>1, <2>2, <2>3, <2>4
<1> QED BY <1>5, <1>6

LEMMA RememberedStep ==
  ASSUME StreamsWellFormed, StreamsTyped, StreamsTyped', Held, Shaped, InLease, Orderly, Kept, Str!OneProcess,
         Unraced, Remembered, stream' = stream, clock' = clock, NEW c \in Str!Asked, StreamStep(c)
  PROVE  Remembered'
<1>1. c \in StreamCalls /\ Str!Asked \subseteq StreamCalls /\ ~Str!Fails("query") /\ Missing \notin StreamCalls
      /\ Missing \notin Nat /\ Str!Of(c) \in Str!Processes /\ Shape(c) /\ Str!Processes' = Str!Processes
  BY RequestFacts, Settings DEF StreamsTyped, Orderly, Shaped
<1>2. \A d \in StreamCalls : call'[d].pc \in GuardedPlaces => uploads'[d] # Missing
  <2> SUFFICES ASSUME NEW d \in StreamCalls, call'[d].pc \in GuardedPlaces PROVE uploads'[d] # Missing
    OBVIOUS
  <2>1. \A e \in StreamCalls : call[e].pc \in GuardedPlaces => uploads[e] # Missing
    BY DEF Remembered, GuardedPlaces, Str!Guarded
  <2>2. CASE d = c
    BY <1>1, <2>1, <2>2, UploadStays DEF GuardedPlaces
  <2>3. CASE d # c
    <3>1. call[d].pc \in GuardedPlaces /\ uploads[d] # Missing
      BY <2>1, <2>3, OthersStay
    <3>2. ~(call[c].pc = "dropUpload" /\ d \in call[c].todo)
      <4> SUFFICES ASSUME call[c].pc = "dropUpload", d \in call[c].todo PROVE FALSE
        OBVIOUS
      <4>1. Past(d)
        BY <1>1 DEF Kept, Drops
      <4>2. call[d].pc = "settle" /\ d \in Str!Asked
        BY <3>1, <4>1 DEF Past, Over, Drops, GuardedPlaces, Shaped, Shape
      <4>3. pointer = d
        BY <4>2 DEF Unraced
      <4>4. Sound(d)
        BY <1>1, <4>3 DEF Kept
      <4> QED BY <1>1, <4>4 DEF Sound, Undropped, Drops
    <3> QED BY <1>1, <2>3, <3>1, <3>2, UploadMoves
  <2> QED BY <2>2, <2>3
<1>3. \A d, g \in StreamCalls :
        call'[d].pc \in {"dropUpload", "dropChunks"} /\ call'[d].found = g => g \notin generations'
  <2> SUFFICES ASSUME NEW d \in StreamCalls, NEW g \in StreamCalls, call'[d].pc \in {"dropUpload", "dropChunks"},
                      call'[d].found = g
               PROVE  g \notin generations'
    OBVIOUS
  <2>1. CASE d = c
    <3>1. DroppedRows(c)
      <4>1. ~(Left(c) \/ Collected(c) \/ DroppedChunks(c) \/ Got(c) \/ LetGo(c) \/ Failed(c))
        BY <1>1, <2>1 DEF Left, Collected, DroppedChunks, Got, LetGo, Failed, Goes, Ends, Moved, Shape, Drops
      <4>2. ~(Began(c) \/ Leased(c) \/ Looked(c) \/ Renewed(c) \/ Inserted(c) \/ Finalized(c) \/ Clashed(c)
              \/ Checked(c))
        BY <2>1 DEF Began, Leased, Looked, Renewed, Inserted, Finalized, Clashed, Checked, Onto, Goes, Ends, Moved
      <4>3. ~(Generated(c) \/ Pointed(c) \/ Settled(c) \/ Erased(c) \/ UndoneChunks(c) \/ LockedToDelete(c)
              \/ Unpointed(c) \/ Listed(c))
        BY <2>1 DEF Generated, Pointed, Settled, Erased, UndoneChunks, LockedToDelete, Unpointed, Listed, Goes, Ends,
           Moved
      <4> QED BY <4>1, <4>2, <4>3 DEF StreamStep
    <3> QED BY <1>1, <2>1, <3>1 DEF DroppedRows, Goes, Ends, Moved, Remembered
  <2>2. CASE d # c
    <3>1. call[d].pc \in {"dropUpload", "dropChunks"} /\ call[d].found = g /\ g \notin generations /\ Shape(d)
      BY <2>2, OthersStay DEF Remembered, Shaped
    <3>2. Past(g)
      BY <3>1 DEF Shape, Kept, Drops
    <3>3. call[g].pc # "generation"
      BY <3>2 DEF Past, Over, Drops
    <3> QED BY <3>1, <3>3, GenerationMoves
  <2> QED BY <2>1, <2>2
<1>4. ASSUME \A d \in StreamCalls : call'[d].pc # "died", NEW g \in StreamCalls, ~Nothing(g)
      PROVE  Claimed(g)'
  <2>1. \A d \in StreamCalls : call[d].pc # "died"
    BY <1>1, <1>4, OthersStay, PointerMoves
  <2>2. \/ g = pointer' \/ uploads'[g] # Missing \/ call'[g].pc = "undoChunks"
        \/ (\E d \in StreamCalls : Claims(d, g)') \/ Waits(g)'
        => Claimed(g)'
    BY DEF Claimed, Claims, Waits
  <2>3. CASE chunks[g] = {} /\ g \notin generations
    <3>1. g = c /\ call'[c].pc \in GuardedPlaces
      BY <1>4, <2>3, MadeBy, GenerationMoves DEF Nothing, GuardedPlaces
    <3> QED BY <1>2, <2>2, <3>1
  <2>4. CASE g = pointer
    BY <1>1, <2>2, <2>4, PointerClaimed
  <2>5. CASE uploads[g] # Missing
    <3>1. CASE uploads'[g] # Missing
      BY <2>2, <3>1
    <3>2. CASE uploads'[g] = Missing /\ g = c /\ call[c].pc = "settle"
      <4>1. pointer = c
        BY <3>2 DEF Unraced
      <4> QED BY <1>1, <2>2, <3>2, <4>1, PointerClaimed
    <3>3. CASE uploads'[g] = Missing /\ g = c /\ call[c].pc = "undo"
      <4>1. Erased(c)
        BY <1>1, <3>3 DEF StreamStep, Began, Leased, Looked, Renewed, Inserted, Finalized, Clashed, Checked,
           Generated, Pointed, Settled, UndoneChunks, Left, Collected, DroppedRows, DroppedChunks, LockedToDelete,
           Unpointed, Got,
           Listed, LetGo, Failed
      <4>2. call'[g].pc = "undoChunks"
        BY <2>5, <3>3, <4>1 DEF Erased, Goes, Ends, Moved
      <4> QED BY <2>2, <4>2
    <3>4. CASE call[c].pc = "dropUpload" /\ g \in call[c].todo
      <4>1. DroppedRows(c)
        BY <1>1, <3>4 DEF StreamStep, Began, Leased, Looked, Renewed, Inserted, Finalized, Clashed, Checked,
           Generated, Pointed, Settled, Erased, UndoneChunks, Left, Collected, DroppedChunks, LockedToDelete,
           Unpointed, Got,
           Listed, LetGo, Failed
      <4>2. Claims(c, g)'
        BY <3>4, <4>1 DEF DroppedRows, Goes, Ends, Moved, Claims, Drops
      <4> QED BY <1>1, <2>2, <4>2
    <3> QED BY <1>1, <2>5, <3>1, <3>2, <3>3, <3>4, UploadMoves
  <2>6. CASE call[g].pc = "undoChunks"
    <3>1. CASE g # c
      BY <2>2, <2>6, <3>1, OthersStay
    <3>2. CASE g = c
      <4>1. UndoneChunks(c)
        BY <1>1, <2>6, <3>2 DEF StreamStep, Began, Leased, Looked, Renewed, Inserted, Finalized, Clashed, Checked,
           Generated, Pointed, Settled, Erased, Left, Collected, DroppedRows, DroppedChunks, LockedToDelete,
           Unpointed, Got, Listed, LetGo, Failed
      <4>2. g \notin generations
        BY <2>6 DEF Kept, Past, Over, Drops
      <4> QED BY <1>4, <3>2, <4>1, <4>2 DEF UndoneChunks, ChunksOf, Nothing
    <3> QED BY <3>1, <3>2
  <2>7. ASSUME NEW d \in StreamCalls, Claims(d, g) PROVE Claimed(g)'
    <3>1. CASE d # c
      <4>1. call'[d] = call[d]
        BY <3>1, OthersStay
      <4>2. Claims(d, g)'
        BY <2>7, <4>1 DEF Claims, Drops
      <4> QED BY <2>2, <4>2
    <3>2. CASE d = c
      <4>1. reads' = reads
        BY <1>1, <2>7, <3>2 DEF Claims, Drops, StreamStep, Began, Leased, Looked, Renewed, Inserted, Finalized,
           Clashed, Checked, Generated, Pointed, Settled, Erased, UndoneChunks, Left, Collected, DroppedRows,
           DroppedChunks, LockedToDelete, Unpointed, Got, Listed, LetGo, Failed, StillMemory, Frees
      <4>2. Str!StreamsOf(Str!Of(c), g)' = Str!StreamsOf(Str!Of(c), g)
        <5>1. \A r \in reads[Str!Of(c)] : r \in StreamCalls /\ r # c
          BY <1>1, <2>7, <3>2 DEF Shaped, Claims, Drops, StreamsTyped
        <5>2. \A r \in reads[Str!Of(c)] : call'[r] = call[r]
          BY <5>1, OthersStay
        <5>3. Str!Of(c)' = Str!Of(c)
          BY Settings
        <5> QED BY <4>1, <5>2, <5>3 DEF Str!StreamsOf
      <4>3. call[c].pc = "dropChunks" => call[c].found \notin generations
        BY <1>1 DEF Remembered
      <4> QED BY <1>1, <1>4, <2>2, <2>7, <3>2, <4>2, <4>3, ClaimKept
    <3> QED BY <3>1, <3>2
  <2>8. CASE Waits(g)
    BY <1>1, <2>2, <2>8, WaitKept
  <2>9. Claimed(g) \/ (chunks[g] = {} /\ g \notin generations)
    BY <2>1 DEF Remembered
  <2> QED BY <2>3, <2>4, <2>5, <2>6, <2>7, <2>8, <2>9, ClaimedBy
<1>5. \A d \in StreamCalls :
        call'[d].pc \in {"dropUpload", "dropChunks"} => call'[d].found \notin generations'
  <2>1. \A d \in StreamCalls : call'[d].found \in StreamCalls \cup {Missing} /\ generations' \subseteq StreamCalls
    BY DEF StreamsTyped, StreamRecords
  <2> QED BY <1>1, <1>3, <2>1
<1> QED BY <1>2, <1>4, <1>5 DEF Remembered, Nothing, GuardedPlaces, Str!Guarded
--------------------
(* Deaths, time and the whole *)

LEMMA DiesOrNot ==
  ASSUME StreamsWellFormed, StreamsTyped, NEW p \in Str!Processes, Dies(p), NEW d \in StreamCalls
  PROVE  /\ call'[d].pc = "died" \/ call'[d] = call[d]
         /\ call'[d].found = call[d].found /\ call'[d].answer = call[d].answer /\ call'[d].clash = call[d].clash
         /\ call'[d].late = call[d].late
         /\ d \in Str!Asked /\ Str!Of(d) = p /\ call[d].pc \notin {"idle", "ended", "died"} =>
              call'[d].pc = "died" /\ call'[d].then = call[d].pc
         /\ ~(d \in Str!Asked /\ Str!Of(d) = p /\ call[d].pc \notin {"idle", "ended", "died"}) => call'[d] = call[d]
BY DEF Dies, Str!UnderWay

LEMMA HeldDies ==
  ASSUME StreamsWellFormed, StreamsTyped, Shaped, Held, stream' = stream, NEW p \in Str!Processes, Dies(p)
  PROVE  Held'
<1>1. /\ Str!Asked' = Str!Asked /\ Str!Processes' = Str!Processes /\ \A d : Str!Of(d)' = Str!Of(d)
      /\ Str!Asked \subseteq StreamCalls /\ \A d \in Str!Asked : Str!Of(d) \in Str!Processes
      /\ Missing \notin StreamCalls
  BY RequestFacts, Settings DEF StreamsTyped
<1>2. /\ keyLock'[p] = Missing
      /\ \A q \in Str!Processes \ {p} : keyLock'[q] = keyLock[q]
  BY DEF Dies
<1>3. \A d \in Str!Asked : Str!Of(d) # p => call'[d] = call[d]
  BY <1>1, DiesOrNot
<1>4. \A d \in Str!Asked : Str!Of(d) = p => call'[d].pc \notin LockedPlaces
  BY <1>1, DiesOrNot DEF LockedPlaces
<1> QED BY <1>1, <1>2, <1>3, <1>4 DEF Held

LEMMA ShapedDies ==
  ASSUME StreamsWellFormed, StreamsTyped, Shaped, stream' = stream, NEW p \in Str!Processes, Dies(p)
  PROVE  Shaped'
<1>1. /\ Str!Asked' = Str!Asked /\ Str!Processes' = Str!Processes
      /\ \A d : Str!Of(d)' = Str!Of(d) /\ (Str!IsPut(d)' <=> Str!IsPut(d))
      /\ Str!Asked \subseteq StreamCalls /\ \A d \in Str!Asked : Str!Of(d) \in Str!Processes
  BY RequestFacts, Settings DEF StreamsTyped
<1>2. /\ reads'[p] = {} /\ \A q \in Str!Processes \ {p} : reads'[q] = reads[q]
      /\ chunks' = chunks /\ uploads' = uploads
  BY DEF Dies, StillTables
<1>3. \A d \in StreamCalls : Shape(d)'
  <2> SUFFICES ASSUME NEW d \in StreamCalls PROVE Shape(d)'
    OBVIOUS
  <2>1. Shape(d)
    BY DEF Shaped
  <2>2. CASE call'[d] = call[d]
    <3>1. call[d].pc \in {"stream", "release"} => d \in Str!Asked /\ Str!Of(d) # p
      <4>1. call[d].pc \in {"stream", "release"} => d \in Str!Asked
        BY <2>1 DEF Shape
      <4>2. call[d].pc \in {"stream", "release"} /\ Str!Of(d) = p => call'[d].pc = "died"
        BY <4>1, DiesOrNot
      <4> QED BY <2>2, <4>1, <4>2
    <3> QED BY <1>1, <1>2, <2>1, <2>2, <3>1 DEF Shape, Drops
  <2>3. CASE call'[d].pc = "died" /\ call'[d] # call[d]
    <3>1. d \in Str!Asked
      BY <2>3, DiesOrNot
    <3> QED BY <1>1, <2>3, <3>1 DEF Shape, Drops, PutPlaces
  <2> QED BY <2>2, <2>3, DiesOrNot
<1>4. \A g \in StreamCalls : chunks'[g] # {} \/ uploads'[g] # Missing => g \in Str!Asked /\ Str!IsPut(g) /\ ~Fresh(g)'
  BY <1>2, DiesOrNot DEF Shaped, Fresh, Drops
<1>5. \A q \in Str!Processes : \A r \in reads'[q] :
        r \in Str!Asked /\ Str!Of(r) = q /\ call'[r].pc \in {"stream", "release"}
  <2> SUFFICES ASSUME NEW q \in Str!Processes, NEW r \in reads'[q]
               PROVE  r \in Str!Asked /\ Str!Of(r) = q /\ call'[r].pc \in {"stream", "release"}
    OBVIOUS
  <2>1. q # p /\ r \in reads[q] /\ r \in Str!Asked /\ Str!Of(r) = q /\ call[r].pc \in {"stream", "release"}
    BY <1>2 DEF Shaped
  <2> QED BY <1>1, <2>1, DiesOrNot
<1> QED BY <1>1, <1>3, <1>4, <1>5 DEF Shaped

LEMMA OrderlyBefore ==
  ASSUME StreamsWellFormed, StreamsTyped, stream' = stream, NEW p \in Str!Processes, Dies(p), Orderly'
  PROVE  Orderly /\ \A g \in StreamCalls : g \in Str!Asked /\ call[g].pc = "settle" => call'[g] = call[g]
<1>1. /\ Str!Asked' = Str!Asked /\ Str!Asked \subseteq StreamCalls
      /\ (Str!Fails("query")' <=> Str!Fails("query")) /\ stream.punctual' = stream.punctual
  BY RequestFacts, Settings DEF StreamsTyped
<1>2. \A g \in Str!Asked : ~(call'[g].pc = "died" /\ call'[g].then = "settle")
  BY <1>1 DEF Orderly, Str!Unsettled, Str!At
<1>3. ~Str!Unsettled
  <2> SUFFICES ASSUME NEW g \in Str!Asked, call[g].pc = "died", call[g].then = "settle" PROVE FALSE
    BY DEF Str!Unsettled, Str!At
  <2>1. call'[g] = call[g]
    BY <1>1, DiesOrNot
  <2> QED BY <1>2, <2>1
<1>4. \A g \in Str!Asked : call[g].pc = "settle" => call'[g] = call[g]
  BY <1>1, <1>2, DiesOrNot
<1> QED BY <1>1, <1>3, <1>4 DEF Orderly

LEMMA SoundDies ==
  ASSUME StreamsWellFormed, StreamsTyped, Shaped, stream' = stream, NEW p \in Str!Processes, Dies(p), Orderly'
  PROVE  \A g \in StreamCalls : (Past(g) => Past(g)') /\ (Sound(g) => Sound(g)')
<1> SUFFICES ASSUME NEW g \in StreamCalls PROVE (Past(g) => Past(g)') /\ (Sound(g) => Sound(g)')
  OBVIOUS
<1>1. Past(g) => Past(g)'
  BY DiesOrNot DEF Past, Over, Drops
<1>2. ASSUME Sound(g) PROVE Sound(g)'
  <2>1. chunks'[g] = 1 .. Size /\ uploads'[g] = uploads[g]
    BY <1>2 DEF Sound, Dies, StillTables
  <2>2. call[g].pc = "settle" => call'[g] = call[g]
    BY OrderlyBefore DEF Shaped, Shape
  <2>3. call'[g].pc = "settle" \/ uploads'[g] = Missing
    BY <1>2, <2>1, <2>2 DEF Sound
  <2>4. Undropped(g)'
    BY <1>2, DiesOrNot DEF Sound, Undropped, Drops
  <2> QED BY <1>1, <1>2, <2>1, <2>3, <2>4 DEF Sound
<1> QED BY <1>1, <1>2

LEMMA KeptDies ==
  ASSUME StreamsWellFormed, StreamsTyped, Shaped, Kept, stream' = stream, NEW p \in Str!Processes, Dies(p), Orderly'
  PROVE  Kept'
<1>1. pointer' = pointer /\ generations' = generations /\ chunks' = chunks
      /\ pointer \in StreamCalls \cup {Missing} /\ generations \subseteq StreamCalls
      /\ \A d \in StreamCalls : call[d].todo \subseteq StreamCalls /\ call[d].found \in StreamCalls \cup {Missing}
  BY DEF Dies, StillTables, StreamsTyped, StreamRecords
<1>2. pointer # Missing => Sound(pointer)'
  <2> SUFFICES ASSUME pointer # Missing PROVE Sound(pointer)'
    OBVIOUS
  <2>1. PICK g \in StreamCalls : g = pointer
    BY <1>1
  <2>2. Sound(g)'
    BY <2>1, SoundDies DEF Kept
  <2> QED BY <1>1, <2>1, <2>2 DEF Sound, Past, Over, Drops, Undropped
<1>3. \A d \in StreamCalls : Drops(d)' => \A g \in call'[d].todo : Past(g)'
  <2> SUFFICES ASSUME NEW d \in StreamCalls, Drops(d)', NEW g \in call'[d].todo PROVE Past(g)'
    OBVIOUS
  <2>1. call'[d] = call[d] /\ Drops(d) /\ g \in StreamCalls /\ Past(g)
    BY <1>1, DiesOrNot DEF Drops, Kept
  <2> QED BY <2>1, SoundDies
<1>4. \A d, g \in StreamCalls : call'[d].pc \in FoundPlaces /\ call'[d].found = g => Past(g)'
  <2> SUFFICES ASSUME NEW d \in StreamCalls, NEW g \in StreamCalls, call'[d].pc \in FoundPlaces, call'[d].found = g
               PROVE  Past(g)'
    OBVIOUS
  <2>1. call'[d] = call[d] /\ g # Missing
    BY DiesOrNot, RequestFacts DEF FoundPlaces, StreamsTyped
  <2> QED BY <2>1, SoundDies DEF Kept
<1>5. \A d \in StreamCalls : call'[d].pc \in FoundPlaces /\ call'[d].found # Missing => Past(call[d].found)'
  <2>1. \A d \in StreamCalls : call'[d].found \in StreamCalls \cup {Missing}
    BY <1>1, DiesOrNot
  <2> QED BY <1>4, <2>1 DEF Past, Over, Drops
<1>6. \A d \in StreamCalls : call'[d].pc \in {"compare", "generation", "point"} => chunks'[d] = 1 .. Size
  BY <1>1, DiesOrNot DEF Kept
<1>7. \A g \in generations' : Past(g)' \/ call'[g].pc = "point"
  <2> SUFFICES ASSUME NEW g \in generations PROVE Past(g)' \/ call'[g].pc = "point"
    BY <1>1
  <2>1. g \in StreamCalls
    BY <1>1
  <2>2. call[g].pc = "point" => call'[g].pc = "point" \/ Past(g)'
    BY <2>1, DiesOrNot DEF Past, Over
  <2> QED BY <2>1, <2>2, SoundDies DEF Kept
<1> QED BY <1>1, <1>2, <1>3, <1>5, <1>6, <1>7 DEF Kept

LEMMA DeathStep ==
  ASSUME StreamsWellFormed, StreamsInv, StreamsTyped', stream' = stream, clock' = clock, NEW p \in Str!Processes,
         Dies(p)
  PROVE  StreamsInv'
<1> USE DEF StreamsInv
<1>1. /\ Str!Asked' = Str!Asked /\ Str!Asked \subseteq StreamCalls /\ (Str!OneProcess' <=> Str!OneProcess)
      /\ stream.punctual' = stream.punctual
      /\ pointer' = pointer /\ uploads' = uploads /\ generations' = generations
  BY RequestFacts, Settings DEF StreamsTyped, Dies, StillTables
<1>2. Held' /\ Shaped'
  BY HeldDies, ShapedDies
<1>3. InLease'
  <2>1. \A g \in Str!Asked : Str!UnderWay(g)' => Str!UnderWay(g)
    BY <1>1, DiesOrNot DEF Str!UnderWay
  <2> QED BY <1>1, <2>1 DEF InLease
<1>4. ASSUME Str!OneProcess PROVE Unraced'
  <2>1. \A d \in Str!Asked : call'[d].clash = call[d].clash /\ call'[d].found = call[d].found
                             /\ (call'[d].pc = "died" \/ call'[d].pc = call[d].pc)
    BY <1>1, DiesOrNot
  <2> QED BY <1>1, <1>4, <2>1 DEF Unraced
<1>5. ASSUME Orderly' PROVE Kept'
  BY <1>5, OrderlyBefore, KeptDies
<1>6. ASSUME Orderly', Str!OneProcess PROVE Streamed' /\ Remembered'
  <2>1. Streamed /\ Remembered
    BY <1>6, OrderlyBefore
  <2>2. \A d \in Str!Asked : Str!Of(d) = p
    BY <1>6 DEF Dies, Str!UnderWay, Str!OneProcess
  <2>3. \A d \in StreamCalls : call'[d].pc \notin {"retain", "stream"}
    <3> SUFFICES ASSUME NEW d \in StreamCalls, call'[d].pc \in {"retain", "stream"} PROVE FALSE
      OBVIOUS
    <3>1. call'[d] = call[d] /\ Shape(d)
      BY DiesOrNot DEF Shaped
    <3> QED BY <2>2, <3>1, DiesOrNot DEF Shape
  <2>7. Streamed'
    BY <2>1, <2>3, DiesOrNot DEF Streamed
  <2>4. \A d \in StreamCalls : call'[d].pc \in Str!Guarded \cup {"undo"} => uploads'[d] # Missing
    BY <1>1, <2>1, DiesOrNot DEF Remembered, Str!Guarded
  <2>5. \A d \in StreamCalls : call'[d].pc \in {"dropUpload", "dropChunks"} => call'[d].found \notin generations'
    BY <1>1, <2>1, DiesOrNot DEF Remembered
  <2>6. \E d \in StreamCalls : call'[d].pc = "died"
    BY DEF Dies
  <2> QED BY <2>4, <2>5, <2>6, <2>7 DEF Remembered, Str!Guarded
<1> QED BY <1>1, <1>2, <1>3, <1>4, <1>5, <1>6

LEMMA StreamTick ==
  ASSUME StreamsWellFormed, StreamsInv, stream' = stream, Str!Tick
  PROVE  StreamsInv'
<1> USE DEF StreamsInv
<1>1. StillTables /\ StillMemory /\ call' = call /\ clock' = clock + 1
      /\ (stream.punctual => \A c \in Str!Asked : Str!UnderWay(c) /\ uploads[c] # Missing => uploads[c] > clock)
  BY DEF Str!Tick, Str!tables, Str!memory, StillTables, StillMemory
<1>2. StreamsTyped'
  BY <1>1 DEF StreamsTyped, StillTables, StillMemory
<1>3. InLease'
  <2> SUFFICES ASSUME stream.punctual, NEW c \in Str!Asked, Str!UnderWay(c), uploads[c] # Missing
               PROVE  uploads[c] >= clock + 1
    BY <1>1, Settings DEF InLease, Str!UnderWay, StillTables
  <2>1. uploads[c] \in Nat /\ clock \in Nat /\ uploads[c] > clock
    BY <1>1, RequestFacts DEF StreamsTyped
  <2> QED BY <2>1
<1>4. Held' /\ Shaped'
  BY <1>1, Settings DEF Held, Shaped, Shape, Fresh, Drops, StillTables, StillMemory
<1>5. Unraced' <=> Unraced
  BY <1>1, Settings DEF Unraced, StillTables
<1>6. Orderly' <=> Orderly
  BY <1>1, Settings DEF Orderly, Str!Unsettled, Str!At
<1>7. Kept => Kept'
  BY <1>1 DEF Kept, Sound, Past, Over, Drops, Undropped, StillTables
<1>8. Streamed => Streamed'
  BY <1>1, Settings DEF Streamed, Sound, Past, Over, Drops, Undropped, Uncollected, Str!IsDropped, StillTables
<1>9. Remembered => Remembered'
  BY <1>1, Settings DEF Remembered, Claimed, Drops, Str!Guarded, Str!StreamsOf, StillTables, StillMemory
<1> QED BY <1>2, <1>3, <1>4, <1>5, <1>6, <1>7, <1>8, <1>9, Settings

LEMMA CallStep ==
  ASSUME StreamsWellFormed, StreamsInv, StreamsTyped', stream' = stream, clock' = clock, NEW c \in Str!Asked,
         StreamStep(c)
  PROVE  StreamsInv'
<1> USE DEF StreamsInv
<1>1. Held' /\ Shaped' /\ InLease'
  BY HeldStep, ShapedStep, InLeaseStep
<1>2. Str!OneProcess' <=> Str!OneProcess
  BY Settings
<1>3. Str!OneProcess => Unraced'
  BY UnracedStep
<1>4. ASSUME Orderly' PROVE Orderly
  <2>1. ~Str!Unsettled
    <3> SUFFICES ASSUME NEW g \in Str!Asked, call[g].pc = "died", call[g].then = "settle" PROVE FALSE
      BY DEF Str!Unsettled, Str!At
    <3>1. g \in StreamCalls /\ g # c /\ Str!Asked' = Str!Asked
      BY RequestFacts, PointerMoves, Settings DEF StreamsTyped
    <3>2. call'[g] = call[g]
      BY <3>1, OthersStay
    <3> QED BY <1>4, <3>1, <3>2 DEF Orderly, Str!Unsettled, Str!At
  <2> QED BY <1>4, <2>1, Settings DEF Orderly
<1>5. Orderly => Kept'
  BY KeptStep
<1>6. Orderly /\ Str!OneProcess => Streamed' /\ Remembered'
  BY StreamedStep, RememberedStep
<1> QED BY <1>1, <1>2, <1>3, <1>4, <1>5, <1>6

LEMMA StreamsInit ==
  ASSUME StreamsWellFormed, Str!Init
  PROVE  StreamsInv
<1>1. stream \in StreamSetups /\ clock = 0 /\ pointer = Missing /\ generations = {}
      /\ uploads = [g \in StreamCalls |-> Missing] /\ chunks = [g \in StreamCalls |-> {}]
      /\ keyLock = [p \in Str!Processes |-> Missing] /\ reads = [p \in Str!Processes |-> {}]
      /\ pending = [p \in Str!Processes |-> {}]
  BY DEF Str!Init
<1>2. call \in [StreamCalls -> StreamRecords]
      /\ \A c \in StreamCalls : call[c].pc = "idle" /\ ~call[c].clash /\ call[c].answer = Missing
  BY DEF Str!Init, StreamRecords, StreamPlaces
<1>3. StreamsTyped
  BY <1>1, <1>2 DEF StreamsTyped
<1>4. Str!Asked \subseteq StreamCalls /\ Missing \notin StreamAnswers
  BY <1>1, RequestFacts
<1>5. Held /\ InLease
  BY <1>1, <1>2, <1>4 DEF Held, InLease, LockedPlaces, Str!UnderWay
<1>6. Shaped
  BY <1>1, <1>2 DEF Shaped, Shape, Drops, PutPlaces
<1>7. Unraced
  BY <1>2, <1>4 DEF Unraced
<1>8. Kept
  BY <1>1, <1>2 DEF Kept, Drops, FoundPlaces
<1>9. Streamed /\ Remembered
  BY <1>1, <1>2, <1>4 DEF Streamed, Remembered, Str!Guarded, StreamAnswers
<1> QED BY <1>3, <1>5, <1>6, <1>7, <1>8, <1>9 DEF StreamsInv

LEMMA StreamsInvHolds ==
  ASSUME StreamsWellFormed
  PROVE  Str!Spec => []StreamsInv
<1>1. Str!Init => StreamsInv
  BY StreamsInit
<1>2. StreamsInv /\ [Str!Next]_Str!surrealObjectVars => StreamsInv'
  <2> SUFFICES ASSUME StreamsInv, [Str!Next]_Str!surrealObjectVars PROVE StreamsInv'
    OBVIOUS
  <2>1. CASE Str!Next
    <3>1. stream' = stream
      BY <2>1 DEF Str!Next
    <3>2. ASSUME NEW c \in StreamCalls, StreamAction(c), clock' = clock PROVE StreamsInv'
      <4>1. c \in Str!Asked /\ StreamStep(c) /\ StreamsTyped'
        BY <3>1, <3>2, ActionsAreSteps DEF StreamsInv
      <4> QED BY <3>1, <3>2, <4>1, CallStep
    <3>3. ASSUME NEW p \in Str!Processes, Str!Die(p), clock' = clock PROVE StreamsInv'
      <4>1. Dies(p) /\ StreamsTyped'
        BY <3>1, <3>3, DeathsAreSteps DEF StreamsInv
      <4> QED BY <3>1, <3>3, <4>1, DeathStep
    <3>4. CASE Str!Tick
      BY <3>1, <3>4, StreamTick
    <3> QED BY <2>1, <3>2, <3>3, <3>4 DEF Str!Next, StreamAction
  <2>2. CASE UNCHANGED Str!surrealObjectVars
    <3>1. /\ stream' = stream /\ clock' = clock /\ pointer' = pointer /\ uploads' = uploads
          /\ generations' = generations /\ chunks' = chunks /\ keyLock' = keyLock /\ reads' = reads
          /\ pending' = pending /\ call' = call
      BY <2>2 DEF Str!surrealObjectVars
    <3>2. StreamsTyped' /\ Held' /\ Shaped' /\ InLease'
      BY <3>1, Settings DEF StreamsInv, StreamsTyped, Held, Shaped, Shape, Fresh, Drops, InLease, Str!UnderWay
    <3>3. (Unraced => Unraced') /\ (Orderly' => Orderly)
      BY <3>1, Settings DEF Unraced, Orderly, Str!Unsettled, Str!At
    <3>4. Kept => Kept'
      BY <3>1 DEF Kept, Sound, Past, Over, Drops, Undropped
    <3>6. Streamed => Streamed'
      BY <3>1, Settings DEF Streamed, Sound, Past, Over, Drops, Undropped, Uncollected, Str!IsDropped
    <3>5. Remembered => Remembered'
      BY <3>1, Settings DEF Remembered, Claimed, Drops, Str!Guarded, Str!StreamsOf
    <3> QED BY <3>1, <3>2, <3>3, <3>4, <3>5, <3>6, Settings DEF StreamsInv
  <2> QED BY <2>1, <2>2
<1> QED BY <1>1, <1>2, PTL DEF Str!Spec

(* A lock is held by a put or a deletion of its process that is under way,
   and uploads and chunks are of puts (packages/surreal/src/storage.ts). *)
THEOREM SurrealObjectsTypes == StreamsWellFormed => (Str!Spec => []Str!TypeOK)
<1> SUFFICES ASSUME StreamsWellFormed PROVE Str!Spec => []Str!TypeOK
  OBVIOUS
<1>1. StreamsInv => Str!TypeOK
  BY DEF StreamsInv, Held, Shaped, LockedPlaces, Str!TypeOK, Str!Guarded
<1> QED BY <1>1, StreamsInvHolds, PTL

(* Finalizing puts and deletions of one process do not race: a conditional
   put replaces nothing, and what a put drops is what it replaced (the
   lock in memory, storage.ts), whatever fails, dies or runs out. *)
THEOREM CreationsCreateHolds == StreamsWellFormed => (Str!Spec => []Str!CreationsCreate)
<1> SUFFICES ASSUME StreamsWellFormed PROVE Str!Spec => []Str!CreationsCreate
  OBVIOUS
<1>1. StreamsInv => Str!CreationsCreate
  BY DEF StreamsInv, Unraced, Str!CreationsCreate
<1> QED BY <1>1, StreamsInvHolds, PTL

(* If puts keep their leases and finish, what the key points at has all
   its chunks; and in one process each stream reads all of its object,
   although others replace and delete it meanwhile, unless it was late: it
   kept its generation when somebody dropped it, or had looked at the
   streams to drop it, after the get read the pointer (storage.ts:203-206). *)
THEOREM StreamedObjectsAreWhole == StreamsWellFormed => (Str!Spec => [](Str!PointersHaveBytes /\ Str!StreamsAreWhole))
<1> SUFFICES ASSUME StreamsWellFormed PROVE Str!Spec => [](Str!PointersHaveBytes /\ Str!StreamsAreWhole)
  OBVIOUS
<1>1. StreamsInv => Str!PointersHaveBytes
  BY DEF StreamsInv, Orderly, Kept, Sound, Str!PointersHaveBytes
<1>2. StreamsInv => Str!StreamsAreWhole
  BY RequestFacts DEF StreamsInv, StreamsTyped, Orderly, Streamed, Str!StreamsAreWhole
<1> QED BY <1>1, <1>2, StreamsInvHolds, PTL

(* When all calls of one process ended, what the key does not point at is
   gone, or is an upload that scavenging will find: whoever replaced or
   deleted a generation dropped it, or left it to its last stream. *)
THEOREM NoOrphansHolds == StreamsWellFormed => (Str!Spec => []Str!NoOrphans)
<1> SUFFICES ASSUME StreamsWellFormed PROVE Str!Spec => []Str!NoOrphans
  OBVIOUS
<1>1. StreamsInv => Str!NoOrphans
  <2> SUFFICES ASSUME StreamsInv, Str!AllEnded, stream.punctual, Str!OneProcess, ~Str!Fails("query"),
                      NEW g \in StreamCalls, chunks[g] # {} \/ g \in generations
               PROVE  g = pointer \/ uploads[g] # Missing
    BY DEF Str!NoOrphans
  <2>1. \A d \in StreamCalls : call[d].pc \in {"ended", "idle"}
    BY DEF StreamsInv, Shaped, Shape, Str!AllEnded
  <2>2. Orderly
    BY DEF Orderly, Str!Unsettled, Str!AllEnded, Str!At
  <2>3. Claimed(g)
    BY <2>1, <2>2 DEF StreamsInv, Remembered
  <2>4. \A p \in Str!Processes : Str!StreamsOf(p, g) = {}
    <3> SUFFICES ASSUME NEW p \in Str!Processes, NEW r \in reads[p] PROVE FALSE
      BY DEF Str!StreamsOf
    <3>1. r \in StreamCalls /\ call[r].pc \in {"stream", "release"}
      BY DEF StreamsInv, Shaped, StreamsTyped
    <3> QED BY <2>1, <3>1
  <2> QED BY <2>1, <2>3, <2>4 DEF Claimed, Drops
<1> QED BY <1>1, StreamsInvHolds, PTL
===============================================================================
