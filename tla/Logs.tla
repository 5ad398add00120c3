--------------------------------- MODULE Logs ---------------------------------
(***************************************************************************)
(* The append-only log (packages/store/src/log, and SqliteLogFacet in      *)
(* adapters/sqlite-core.ts): numbered records per stream, appended alone   *)
(* or in transactions, by the adapters of several processes that share a   *)
(* SQLite file. Awaitable units of one process take turns (the file        *)
(* queue), and synchronous calls are refused meanwhile: they would read    *)
(* what is not committed, or wait for a lock their own process holds.      *)
(*                                                                         *)
(* A synchronous transaction leaves its process no other step; other       *)
(* processes act between its statements. SQLite has one writer; a          *)
(* transaction reads what was committed when it first read, and cannot     *)
(* write once more was committed since.                                    *)
(***************************************************************************)
EXTENDS Naturals, Sequences, FiniteSets

CONSTANTS
  Setups,     \* [memory, faults, units]; a unit is [process, adapter, kind, mails]
  Units,
  Names,    \* "d", the deliveries, and "sent", where mailers note what they sent
  MaxCalls,   \* bound: a unit's appends and nested transactions, a consumer's reads
  Missing     \* no writer, owner, view or limit

VARIABLES
  setup,
  rows,     \* committed: [stream, sequence, by, of]
  writer,   \* the unit that holds the write lock
  line,     \* per process: the units that wait for the file, or own it
  owner,    \* per process: the adapter that owns the file
  unit      \* per unit: [pc, then, view, save, told, batch, made, seen]

logVars == <<setup, rows, writer, line, owner, unit>>

Asked == DOMAIN setup.units

Process(u) == setup.units[u].process

Adapter(u) == setup.units[u].adapter

Kind(u) == setup.units[u].kind

Mails(u) == setup.units[u].mails

Processes == {"p1", "p2"}

IsSync(u) == Kind(u) \in {"deferred", "immediate", "direct", "peek"}

HasBody(u) == Kind(u) \in {"transaction", "deferred", "immediate"}

Reads(u) == Kind(u) \in {"tail", "peek"}

New == [pc |-> "idle", then |-> "idle", view |-> Missing, save |-> Missing, told |-> {},
        batch |-> {}, made |-> 0, seen |-> {}]

Init ==
  /\ setup \in Setups
  /\ rows = {} /\ writer = Missing
  /\ line = [p \in Processes |-> <<>>] /\ owner = [p \in Processes |-> Missing]
  /\ unit = [u \in Units |-> New]

--------------------
(* The rows of a stream *)

Positions(S, s) == {r.sequence : r \in {q \in S : q.stream = s}}

(* SELECT COALESCE(MAX(sequence), 0) ... WHERE stream = ? *)
Last(S, s) ==
  IF Positions(S, s) = {} THEN 0 ELSE CHOOSE n \in Positions(S, s) : \A m \in Positions(S, s) : m <= n

(* In memory, the length of the stream's array. *)
NextSequence(S, s) == IF setup.memory THEN Cardinality(Positions(S, s)) + 1 ELSE Last(S, s) + 1

Row(S, s, u, of) == [stream |-> s, sequence |-> NextSequence(S, s), by |-> u, of |-> of]

(* What a savepoint keeps: the rows; in memory, how long the streams were. *)
Mark(S) == IF setup.memory THEN [s \in Names |-> Cardinality(Positions(S, s))] ELSE S

Restored(S, mark) == IF setup.memory THEN {r \in S : r.sequence <= mark[r.stream]} ELSE mark

List(S, s, after, limit) ==
  {r \in S : r.stream = s /\ r.sequence > after /\ (limit = Missing \/ r.sequence <= after + limit)}

--------------------
(* Steps *)

Set(u, record) == unit' = [unit EXCEPT ![u] = record]

Go(u, pc) == Set(u, [unit[u] EXCEPT !.pc = pc])

At(u, pc) == u \in Asked /\ unit[u].pc = pc

(* A process in a synchronous transaction, or that SQLite has wait for the
   lock, does nothing else. *)
IsFree(u) ==
  \A v \in Asked \ {u} : Process(v) = Process(u) =>
    unit[v].pc # "blocked" /\ ~ (IsSync(v) /\ unit[v].pc = "open")

InCall(a) == \E v \in Asked : Adapter(v) = a /\ ~ HasBody(v) /\ unit[v].pc = "done"

(* assertSyncAccess: nobody awaits the file, or this adapter's own call. *)
MayAccess(u) ==
  LET own == owner[Process(u)] IN own = Missing \/ (own = Adapter(u) /\ InCall(own))

(* The transaction open on the unit's connection. *)
OpenBeside(u) == {v \in Asked \ {u} : Adapter(v) = Adapter(u) /\ unit[v].pc = "open"}

Visible(u) ==
  IF \E v \in OpenBeside(u) : unit[v].view # Missing
  THEN (CHOOSE view \in {unit[v].view : v \in OpenBeside(u)} : view # Missing) ELSE rows

Block(u) == Set(u, [unit[u] EXCEPT !.pc = "blocked", !.then = unit[u].pc])

Finished(u) == IF IsSync(u) THEN "ended" ELSE "done"

Fail(u) == Set(u, [unit[u] EXCEPT !.pc = Finished(u), !.view = Missing, !.save = Missing, !.told = {}])

--------------------
(* The file queue *)

Call(u) ==
  /\ At(u, "idle") /\ ~ IsSync(u) /\ IsFree(u)
  /\ Go(u, "queued") /\ line' = [line EXCEPT ![Process(u)] = Append(@, u)]
  /\ UNCHANGED <<rows, writer, owner>>

Turn(u) ==
  /\ At(u, "queued") /\ IsFree(u) /\ Head(line[Process(u)]) = u
  /\ Go(u, "owning") /\ owner' = [owner EXCEPT ![Process(u)] = Adapter(u)]
  /\ UNCHANGED <<rows, writer, line>>

Release(u) ==
  /\ At(u, "done") /\ IsFree(u)
  /\ Go(u, IF Reads(u) /\ unit[u].made < MaxCalls THEN "idle" ELSE "ended")
  /\ line' = [line EXCEPT ![Process(u)] = Tail(@)] /\ owner' = [owner EXCEPT ![Process(u)] = Missing]
  /\ UNCHANGED <<rows, writer>>

--------------------
(* Single calls *)

MayCall(u) == IsFree(u) /\ IF IsSync(u) THEN At(u, "idle") /\ MayAccess(u) ELSE At(u, "owning")

AppendAlone(u) ==
  /\ Kind(u) \in {"append", "direct"} /\ MayCall(u)
  /\ IF writer # Missing THEN Block(u) /\ UNCHANGED rows
     ELSE LET row == Row(rows, "d", u, 1)
          IN  /\ rows' = rows \cup {row}
              /\ Set(u, [unit[u] EXCEPT !.pc = Finished(u), !.told = {row}])
  /\ UNCHANGED <<writer, line, owner>>

(* A consumer remembers the last sequence it handled. *)
ListNext(u, limit) ==
  /\ Reads(u) /\ MayCall(u) /\ unit[u].made < MaxCalls
  /\ Set(u, [unit[u] EXCEPT !.pc = IF IsSync(u) THEN "idle" ELSE "done", !.made = @ + 1,
               !.seen = @ \cup List(Visible(u), "d", Last(@, "d"), limit)])
  /\ UNCHANGED <<rows, writer, line, owner>>

Refuse(u) ==
  /\ At(u, "idle") /\ IsSync(u) /\ ~ Reads(u) /\ IsFree(u) /\ ~ MayAccess(u)
  /\ Fail(u) /\ UNCHANGED <<rows, writer, line, owner>>

--------------------
(* Transactions *)

Opened(u, view) == Set(u, [unit[u] EXCEPT !.pc = "open", !.view = view])

Begin(u) ==
  /\ HasBody(u) /\ MayCall(u)
  /\ IF Kind(u) = "deferred" THEN Opened(u, Missing) /\ UNCHANGED writer
     ELSE IF writer # Missing THEN Block(u) /\ UNCHANGED writer
     ELSE Opened(u, rows) /\ writer' = u
  /\ UNCHANGED <<rows, line, owner>>

InBody(u) == At(u, "open") /\ IsFree(u)

View(u) == IF unit[u].view = Missing THEN rows ELSE unit[u].view

(* What a mailer has not sent. *)
Unsent(S) == List(S, "d", Last(S, "sent"), Missing)

Read(u) ==
  /\ InBody(u) /\ Mails(u) /\ unit[u].made = 0 /\ unit[u].batch = {}
  /\ Set(u, [unit[u] EXCEPT !.view = View(u), !.batch = Unsent(View(u)), !.made = 1])
  /\ UNCHANGED <<rows, writer, line, owner>>

Stale(u) == writer # u /\ unit[u].view # Missing /\ unit[u].view # rows

(* The lock is another's past busyTimeoutMs, or the snapshot is old: the
   call throws, and so does the work. *)
AppendIn(u, s, of, then) ==
  IF writer \notin {u, Missing} THEN Block(u) /\ UNCHANGED writer
  ELSE IF Stale(u) THEN Fail(u) /\ UNCHANGED writer
  ELSE LET row == Row(View(u), s, u, of)
       IN  /\ writer' = u
           /\ Set(u, [then EXCEPT !.view = View(u) \cup {row}, !.told = @ \cup {row}])

Write(u) ==
  /\ InBody(u) /\ ~ Mails(u) /\ unit[u].made < MaxCalls
  /\ AppendIn(u, "d", unit[u].made + 1, [unit[u] EXCEPT !.made = @ + 1])
  /\ UNCHANGED <<rows, line, owner>>

Mail(u) ==
  /\ InBody(u) /\ unit[u].batch # {}
  /\ \E r \in unit[u].batch :
       /\ \A q \in unit[u].batch : r.sequence <= q.sequence
       /\ AppendIn(u, "sent", r.sequence, [unit[u] EXCEPT !.batch = @ \ {r}])
  /\ UNCHANGED <<rows, line, owner>>

(* A nested transaction: it begins, and returns or throws. *)
Nest(u) ==
  /\ InBody(u) /\ ~ Mails(u) /\ unit[u].save = Missing /\ unit[u].made < MaxCalls
  /\ Set(u, [unit[u] EXCEPT !.view = View(u), !.save = Mark(View(u)), !.made = @ + 1])
  /\ UNCHANGED <<rows, writer, line, owner>>

Unnest(u) ==
  /\ InBody(u) /\ unit[u].save # Missing
  /\ \/ Set(u, [unit[u] EXCEPT !.save = Missing])
     \/ LET view == Restored(unit[u].view, unit[u].save)
        IN  Set(u, [unit[u] EXCEPT !.save = Missing, !.view = view, !.told = @ \cap view])
  /\ UNCHANGED <<rows, writer, line, owner>>

LetGo(u) == writer' = IF writer = u THEN Missing ELSE writer

Return(u) ==
  /\ InBody(u) /\ unit[u].save = Missing /\ unit[u].batch = {} /\ (Mails(u) => unit[u].made = 1)
  /\ rows' = IF writer = u THEN unit[u].view ELSE rows
  /\ LetGo(u)
  /\ Set(u, [unit[u] EXCEPT !.pc = Finished(u), !.view = Missing])
  /\ UNCHANGED <<line, owner>>

(* The work throws, or returns a promise that a synchronous one may not. *)
Throw(u) ==
  /\ InBody(u) /\ unit[u].save = Missing
  /\ Fail(u) /\ LetGo(u)
  /\ UNCHANGED <<rows, line, owner>>

--------------------
(* SQLite waits for the lock: until it is free, or busyTimeoutMs is over. *)

Unblock(u) ==
  /\ At(u, "blocked") /\ writer = Missing
  /\ Go(u, unit[u].then)
  /\ UNCHANGED <<rows, writer, line, owner>>

TimeOut(u) ==
  /\ At(u, "blocked") /\ writer # Missing
  /\ Fail(u)
  /\ UNCHANGED <<rows, writer, line, owner>>

(* The kernel drops a dead process's locks, SQLite what it had not
   committed. *)
Die(p) ==
  /\ setup.faults /\ \E u \in Asked : Process(u) = p /\ unit[u].pc \notin {"idle", "ended", "died"}
  /\ unit' = [u \in Units |->
                IF u \in Asked /\ Process(u) = p /\ unit[u].pc # "ended"
                THEN [unit[u] EXCEPT !.pc = "died", !.view = Missing] ELSE unit[u]]
  /\ writer' = IF writer # Missing /\ Process(writer) = p THEN Missing ELSE writer
  /\ line' = [line EXCEPT ![p] = <<>>] /\ owner' = [owner EXCEPT ![p] = Missing]
  /\ UNCHANGED rows

Step(u) ==
  \/ Call(u) \/ Turn(u) \/ Release(u)
  \/ AppendAlone(u) \/ Refuse(u) \/ \E limit \in {1, Missing} : ListNext(u, limit)
  \/ Begin(u) \/ Read(u) \/ Write(u) \/ Mail(u) \/ Nest(u) \/ Unnest(u) \/ Return(u) \/ Throw(u)
  \/ Unblock(u) \/ TimeOut(u)

Next == ((\E u \in Asked : Step(u)) \/ (\E p \in Processes : Die(p))) /\ UNCHANGED setup

Spec == Init /\ [][Next]_logVars

--------------------
(* Properties *)

Rows == [stream : Names, sequence : Nat, by : Asked, of : Nat]

Marks == IF setup.memory THEN [Names -> Nat] ELSE SUBSET Rows

Pcs == {"idle", "queued", "owning", "open", "blocked", "done", "ended", "died"}

TypeOK ==
  /\ rows \subseteq Rows
  /\ unit \in [Units -> [pc : Pcs, then : Pcs, view : {Missing} \cup SUBSET Rows, save : {Missing} \cup Marks,
                         told : SUBSET Rows, batch : SUBSET Rows, made : Nat, seen : SUBSET Rows]]
  /\ writer # Missing => writer \in Asked /\ unit[writer].pc = "open" /\ unit[writer].view # Missing
  /\ line \in [Processes -> Seq(Asked)] /\ owner \in [Processes -> {Missing} \cup {Adapter(u) : u \in Asked}]

(* A stream's committed sequences are 1, 2, 3, ... up to the last, each of
   one record (README "no gaps among committed appends"): over rollbacks,
   nested ones, failures, and writers of other processes. *)
Full(S) ==
  \A s \in Names :
    /\ Last(S, s) \in Nat /\ Positions(S, s) = 1 .. Last(S, s)
    /\ \A r, q \in S : r.stream = s /\ q.stream = s /\ r.sequence = q.sequence => r = q

Gapless == Full(rows)

(* A consumer that lists what is after the last record it handled handles
   every committed record once, in order: it reads nothing that may roll
   back, and whose sequence another record would take. *)
ConsumersMissNothing ==
  \A u \in Asked : LET seen == unit[u].seen
                  IN  seen \subseteq rows /\ Positions(seen, "d") = 1 .. Last(seen, "d")

By(u) == {r \in rows : r.by = u}

(* The sequences of a call or transaction that ended well are of its
   records, and all of them; one that failed left none; one that died,
   all or none. *)
AppendsAreWhole ==
  \A u \in Asked :
    /\ unit[u].pc \in {"ended", "done"} => By(u) = unit[u].told
    /\ unit[u].pc = "died" => By(u) \in {{}, unit[u].told}

(* Mailers that note what they sent in the transaction that read it send
   every delivery once, in order (README "Reading, then appending"). *)
SentOnce == \A r \in rows : r.stream = "sent" => r.of = r.sequence

(* SQLite never has a process wait for a lock that process holds: it would
   stop the event loop its own transaction needs (sqlite-core.ts
   assertSyncAccess, acquireAsyncFile). *)
NeverWaitsForItself ==
  \A u \in Asked : unit[u].pc = "blocked" /\ writer # Missing => Process(writer) # Process(u)

(* Nothing changes or removes an entry. *)
OnlyAppends == rows \subseteq rows'

AllEnded == \A u \in Asked : Kind(u) = "peek" \/ unit[u].pc \in {"ended", "died"}

GoesOn == (\E u \in Asked : Step(u)) /\ UNCHANGED setup
===============================================================================
