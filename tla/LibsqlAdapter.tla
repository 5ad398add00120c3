---------------------------- MODULE LibsqlAdapter ----------------------------
(***************************************************************************)
(* The libSQL adapter (packages/store-libsql/src/libsql-core.ts): write    *)
(* transactions of adapters on a server, or of adapters of one process on  *)
(* one file beside other processes. Version numbers come from a sequence   *)
(* that is a row of the database, so a rollback has to commit it, and an   *)
(* adapter remembers (floor) what it could not commit.                     *)
(*                                                                         *)
(* A client runs one transaction whose operations are batches, each in a   *)
(* savepoint, or reads outside any transaction. The statements of a batch  *)
(* are one step: the transaction holds the database's write lock. Receipts *)
(* are kept for ever here, and every target has its table.                 *)
(***************************************************************************)
EXTENDS Naturals, Sequences, FiniteSets, FiniteSetsExt

CONSTANTS
  Clients,
  Adapters,
  Setups,        \* [local, of, work, alone, faults, attempts]: local or remote; the
                 \* adapter and the operations of each client; whether the
                 \* clients of an adapter take turns; what may happen:
                 \* the server drops a transaction, an adapter is closed
                 \* ("abrupt": in the middle of a transaction); how often a client
                 \* begins at most
  Targets,
  Keys, NoKey,   \* idempotency keys
  Missing        \* no row, no receipt, no transaction

VARIABLES
  setup,      \* which of the setups this is
  db,         \* the database: [rows, receipts, sequence]
  lock,       \* the client whose transaction holds the write lock
  draft,      \* the database as that transaction sees it
  line,       \* per mutex: the clients that hold (first) or wait for it
  entry,      \* localWriters, for the file: [mutex, adapters]
  adapter,    \* per adapter: [status, writers, floor]
  tx,         \* per client: [pc, attempt, step, at, minted, result]
  handed      \* version numbers that work was given, with their values

libsqlVars == <<setup, db, lock, draft, line, entry, adapter, tx, handed>>

Mutexes == (Adapters \X {"writers", "connection"})

Row(value, version) == [value |-> value, version |-> version]

Init ==
  /\ setup \in Setups
  /\ db = [rows |-> [t \in Targets |-> Missing], receipts |-> [k \in Keys |-> Missing], sequence |-> 0]
  /\ lock = Missing
  /\ draft = db
  /\ line = [m \in Mutexes |-> <<>>]
  /\ entry = Missing
  /\ adapter = [a \in Adapters |-> [status |-> "new", writers |-> Missing, floor |-> 0]]
  /\ tx = [c \in Clients |-> [pc |-> "idle", attempt |-> 1, step |-> 1, at |-> 1, minted |-> 0,
                              result |-> "none"]]
  /\ handed = {}

Of(c) == setup.of[c]

Underway(c) == tx[c].pc \notin {"idle", "ended"}

MaxOf(m, n) == Max({m, n})

--------------------
(* Adapters: fileWriters, detach and close. *)

(* Definitions marked "Bug:" are not part of the specification: each is
   the definition that follows it with a plausible mistake, for checking
   that the properties below notice it. *)

Open(a) ==
  /\ adapter[a].status = "new" /\ \E c \in Clients : Of(c) = a
  /\ LET mutex == IF ~setup.local \/ entry = Missing THEN <<a, "writers">> ELSE entry.mutex IN
     /\ adapter' = [adapter EXCEPT ![a].status = "open", ![a].writers = mutex]
     /\ entry' = IF ~setup.local THEN entry
                 ELSE [mutex |-> mutex, adapters |-> IF entry = Missing THEN 1 ELSE entry.adapters + 1]
  /\ UNCHANGED <<setup, db, lock, draft, line, tx, handed>>

(* Bug: the lock is forgotten when any of its adapters closes. *)
DetachedByAny == Missing

Detached == IF entry.adapters = 1 THEN Missing ELSE [entry EXCEPT !.adapters = @ - 1]

Close(a) ==
  /\ "close" \in setup.faults /\ adapter[a].status = "open"
  /\ "abrupt" \in setup.faults \/ ~\E c \in Clients : Of(c) = a /\ Underway(c)
  /\ adapter' = [adapter EXCEPT ![a].status = "closed"]
  /\ entry' = IF setup.local THEN Detached ELSE entry
  /\ UNCHANGED <<setup, db, lock, draft, line, tx, handed>>

--------------------
(* begin: the floor, this process's turn on the file and the adapter's
   connection, and BEGIN IMMEDIATE. *)

Reads(c) == setup.work[c] = <<>>

(* The mutexes a client takes, in this order. *)
Needs(c) ==
  IF ~setup.local THEN <<>>
  ELSE IF Reads(c) THEN <<(<<Of(c), "connection">>)>>
  ELSE <<adapter[Of(c)].writers, (<<Of(c), "connection">>)>>

Begin(c) ==
  /\ tx[c].pc = "idle" /\ adapter[Of(c)].status # "new"
  /\ setup.alone => ~\E d \in Clients : Of(d) = Of(c) /\ Underway(d)
  /\ IF adapter[Of(c)].status = "closed"
     THEN tx' = [tx EXCEPT ![c].pc = "ended", ![c].result = "adapter-closed"] /\ UNCHANGED line
     ELSE /\ tx' = [tx EXCEPT ![c].pc = "waiting", ![c].step = 1, ![c].at = 1,
                              ![c].minted = adapter[Of(c)].floor]
          /\ line' = IF Needs(c) = <<>> THEN line ELSE [line EXCEPT ![Needs(c)[1]] = Append(@, c)]
  /\ UNCHANGED <<setup, db, lock, draft, entry, adapter, handed>>

HasTurn(c) == tx[c].step <= Len(Needs(c)) => Head(line[Needs(c)[tx[c].step]]) = c

Next1(c) == tx[c].step + 1

TakeNext(c) ==
  /\ tx[c].pc = "waiting" /\ tx[c].step < Len(Needs(c)) /\ HasTurn(c)
  /\ tx' = [tx EXCEPT ![c].step = @ + 1]
  /\ line' = [line EXCEPT ![Needs(c)[Next1(c)]] = Append(@, c)]
  /\ UNCHANGED <<setup, db, lock, draft, entry, adapter, handed>>

Ready(c) == tx[c].pc = "waiting" /\ tx[c].step >= Len(Needs(c)) /\ HasTurn(c)

(* Bug: a transaction that could not begin keeps its place on the file. *)
KeepsTheFile(c) ==
  [m \in Mutexes |-> IF line[m] # <<>> /\ Head(line[m]) = c /\ m[2] = "connection"
                     THEN Tail(line[m]) ELSE line[m]]

(* The mutexes after c gave its back. *)
Released(c) ==
  [m \in Mutexes |-> IF line[m] # <<>> /\ Head(line[m]) = c THEN Tail(line[m]) ELSE line[m]]

Usable(a) == adapter[a].status = "open"

(* BEGIN IMMEDIATE, the opening savepoint, and the numbers of a rollback
   that could not be confirmed before this began. *)
Acquire(c) ==
  /\ Ready(c) /\ ~Reads(c) /\ Usable(Of(c)) /\ lock = Missing
  /\ lock' = c
  /\ draft' = [db EXCEPT !.sequence = MaxOf(@, tx[c].minted)]
  /\ tx' = [tx EXCEPT ![c].pc = "open"]
  /\ UNCHANGED <<setup, db, line, entry, adapter, handed>>

(* The database stays busy for busyTimeoutMs (its holder is another host,
   or for a file another process), or the adapter has been closed. *)
GiveUp(c) ==
  /\ Ready(c) /\ (~Usable(Of(c)) \/ (~Reads(c) /\ lock # Missing))
  /\ tx' = [tx EXCEPT ![c].pc = "ended", ![c].result = "busy"]
  /\ line' = Released(c)
  /\ UNCHANGED <<setup, db, lock, draft, entry, adapter, handed>>

(* A statement outside transactions. *)
ReadAlone(c) ==
  /\ Ready(c) /\ Reads(c) /\ Usable(Of(c))
  /\ tx' = [tx EXCEPT ![c].pc = "ended", ![c].result = "done"]
  /\ line' = Released(c)
  /\ UNCHANGED <<setup, db, lock, draft, entry, adapter, handed>>

--------------------
(* Operations: decideAtomic, writes and their versions. *)

(* o is [key, digest, condition, writes, removes]: targets in order. *)
Operation(c) == setup.work[c][tx[c].at]

Working(c) == tx[c].pc = "open" /\ lock = c /\ tx[c].at <= Len(setup.work[c])

(* Token j of m is the sequence's new value minus m - j. *)
Issued(o, i) == draft.sequence + i

Versions(o) == [i \in DOMAIN o.writes |-> Issued(o, i)]

(* Bug: the receipt names the numbers before those issued. *)
ExpectedFromTheOld(o) == [i \in DOMAIN o.writes |-> draft.sequence + i - 1]

(* The receipt is written with the numbers that the sequence, read before,
   leads to expect. *)
Expected(o) == Versions(o)

Applied(o) ==
  [rows |-> [t \in Targets |->
               IF \E i \in DOMAIN o.writes : o.writes[i] = t
               THEN Row(o.digest, Issued(o, CHOOSE i \in DOMAIN o.writes : o.writes[i] = t))
               ELSE IF t \in o.removes THEN Missing ELSE draft.rows[t]],
   receipts |-> IF o.key = NoKey THEN draft.receipts
                ELSE [draft.receipts EXCEPT ![o.key] = [digest |-> o.digest, versions |-> Expected(o)]],
   sequence |-> draft.sequence + Len(o.writes)]

Refused(o) ==
  \/ o.key # NoKey /\ draft.receipts[o.key] # Missing
  \/ o.condition # Missing /\ (draft.rows[o.condition.target] = Missing
                               \/ draft.rows[o.condition.target].version # o.condition.version)

MutateAtomically(c) ==
  LET o == Operation(c) IN
  /\ Working(c)
  /\ IF Refused(o) THEN tx' = [tx EXCEPT ![c].at = @ + 1] /\ UNCHANGED <<draft, handed>>
     ELSE /\ draft' = Applied(o)
          /\ handed' = handed \cup {<<Issued(o, i), o.digest>> : i \in DOMAIN o.writes}
          /\ tx' = [tx EXCEPT ![c].at = @ + 1, ![c].minted = MaxOf(@, draft'.sequence)]
  /\ UNCHANGED <<setup, db, lock, line, entry, adapter>>

(* Bug: a savepoint that is rolled back takes the sequence back with it. *)
UndoneWithItsNumbers(c, o) == draft.sequence

(* rollbackToSavepoint keeps what the transaction has issued. *)
SequenceAfterUndo(c, o) == MaxOf(draft.sequence, draft.sequence + Len(o.writes))

(* A nested transaction runs the operation, and throws. *)
Undone(c) ==
  LET o == Operation(c) IN
  /\ Working(c) /\ ~Refused(o)
  /\ draft' = [draft EXCEPT !.sequence = SequenceAfterUndo(c, o)]
  /\ handed' = handed \cup {<<Issued(o, i), o.digest>> : i \in DOMAIN o.writes}
  /\ tx' = [tx EXCEPT ![c].at = @ + 1, ![c].minted = MaxOf(@, draft.sequence + Len(o.writes))]
  /\ UNCHANGED <<setup, db, lock, line, entry, adapter>>

--------------------
(* commit, rollback, end, and the server's part. *)

Leave(d) ==
  /\ db' = d
  /\ lock' = Missing
  /\ draft' = d

Commit(c) ==
  /\ tx[c].pc = "open" /\ lock = c /\ tx[c].at > Len(setup.work[c]) /\ Usable(Of(c))
  /\ tx' = [tx EXCEPT ![c].pc = "committing"]
  /\ UNCHANGED <<setup, db, lock, draft, line, entry, adapter, handed>>

(* The database commits the transaction of the holder. *)
Committed(c) ==
  /\ tx[c].pc = "committing" /\ lock = c
  /\ Leave(draft)
  /\ tx' = [tx EXCEPT ![c].pc = "committed"]
  /\ UNCHANGED <<setup, line, entry, adapter, handed>>

(* The floor is dropped once the sequence is past it. *)
FloorPassed(c) == IF adapter[Of(c)].floor <= tx[c].minted THEN 0 ELSE adapter[Of(c)].floor

End(c, result, floor) ==
  /\ tx' = [tx EXCEPT ![c].pc = "ended", ![c].result = result]
  /\ line' = Released(c)
  /\ adapter' = [adapter EXCEPT ![Of(c)].floor = floor]
  /\ UNCHANGED <<setup, entry, handed>>

Answered(c) ==
  /\ tx[c].pc = "committed"
  /\ End(c, "done", FloorPassed(c))
  /\ UNCHANGED <<db, lock, draft>>

(* Bug: a rollback is a plain ROLLBACK. *)
SequenceRolledBack(c) == db.sequence

(* A rollback commits the numbers that the transaction has issued. *)
SequenceKept(c) == IF tx[c].minted = 0 THEN db.sequence ELSE MaxOf(db.sequence, tx[c].minted)

(* The work throws, and is rolled back; or COMMIT is refused as busy. *)
Rollback(c) ==
  /\ tx[c].pc = "open" /\ lock = c /\ Usable(Of(c))
  /\ Leave([db EXCEPT !.sequence = SequenceKept(c)])
  /\ End(c, "failed", IF tx[c].minted = 0 THEN adapter[Of(c)].floor ELSE FloorPassed(c))

(* The server ends the holder's transaction: its connection broke, or it
   was held too long. On a file: the connection was closed. *)
ServerEndsTransaction ==
  /\ lock # Missing /\ ("server" \in setup.faults \/ ~Usable(Of(lock)))
  /\ Leave(db)
  /\ UNCHANGED <<setup, line, entry, adapter, tx, handed>>

(* Bug: the numbers of a rollback that failed are forgotten. *)
FloorAsItWas(c) == adapter[Of(c)].floor

FloorRaised(c) == MaxOf(adapter[Of(c)].floor, tx[c].minted)

(* The client finds its transaction gone, or loses the answer to COMMIT;
   the rollback fails, and end() is told so. *)
Lost(c) ==
  /\ \/ tx[c].pc \in {"open", "committing"} /\ lock # c
     \/ tx[c].pc = "committed" /\ "server" \in setup.faults
  /\ End(c, IF tx[c].pc = "open" THEN "failed" ELSE "commit-indeterminate", FloorRaised(c))
  /\ UNCHANGED <<db, lock, draft>>

(* The caller makes the request again. *)
Retry(c) ==
  /\ tx[c].pc = "ended" /\ tx[c].attempt < setup.attempts
  /\ tx[c].result \in {"failed", "busy", "commit-indeterminate"}
  /\ tx' = [tx EXCEPT ![c].pc = "idle", ![c].attempt = @ + 1]
  /\ UNCHANGED <<setup, db, lock, draft, line, entry, adapter, handed>>

Step(c) ==
  \/ Begin(c) \/ TakeNext(c) \/ Acquire(c) \/ GiveUp(c) \/ ReadAlone(c) \/ MutateAtomically(c)
  \/ Commit(c) \/ Committed(c) \/ Answered(c) \/ Lost(c)

Next ==
  \/ \E c \in Clients : Step(c) \/ Undone(c) \/ Rollback(c) \/ Retry(c)
  \/ \E a \in Adapters : Open(a) \/ Close(a)
  \/ ServerEndsTransaction

Spec == Init /\ [][Next]_libsqlVars

--------------------
(* Properties *)

(* Mutexes are held and awaited by clients under way only. *)
TypeOK ==
  /\ db.sequence \in Nat /\ draft.sequence >= db.sequence
  /\ lock = Missing => draft = db
  /\ \A m \in Mutexes : \A i \in DOMAIN line[m] : Underway(line[m][i])
  /\ \A a \in Adapters : adapter[a].floor \in Nat

(* A version number that work was given, even work that is rolled back
   later, stands for one value for ever. *)
TokensStandForOneValue == \A p, q \in handed : p[1] = q[1] => p[2] = q[2]

(* The numbers that a receipt names are those its own request issued, and
   the sequence is past them. *)
ReceiptsNameTheirTokens ==
  \A k \in Keys : db.receipts[k] # Missing =>
    \A i \in DOMAIN db.receipts[k].versions :
      /\ <<db.receipts[k].versions[i], db.receipts[k].digest>> \in handed
      /\ db.receipts[k].versions[i] <= db.sequence

(* The open adapters of one process on one file take turns by one lock. *)
OneLockPerFile ==
  setup.local => \A a, b \in Adapters : Usable(a) /\ Usable(b) => adapter[a].writers = adapter[b].writers
===============================================================================
