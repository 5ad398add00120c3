-------------------------- MODULE AsyncTransactions --------------------------
(***************************************************************************)
(* AsyncTransactionCoordinator (packages/store/src/transaction.ts): one    *)
(* outermost transaction over one connection, the transactions nested in   *)
(* it to any depth, the store calls and afterCommit registrations made in  *)
(* each one's async context, awaited or not, and the statements these      *)
(* issue.                                                                  *)
(*                                                                         *)
(* A scope's context outlives it: code its work started without awaiting   *)
(* may call the store, register a callback or nest a transaction at any    *)
(* later moment. The connection runs statements in the order they are      *)
(* issued, and a write is the value a database would hold for it: written  *)
(* in the open transaction, or committed.                                  *)
(***************************************************************************)
EXTENDS Naturals, Sequences

CONSTANTS
  Root,       \* the outermost transaction
  Nested,     \* transactions that may be nested in it or in each other
  Writes,     \* store calls that write
  Callbacks,  \* notifications given to afterCommit
  None,       \* no scope
  Faults      \* statements that may throw: "open", "close", "undo"

Scopes == Nested \cup {Root}

ASSUME ScopesAssumption == Root \notin Nested /\ None \notin Scopes

VARIABLES
  pc,          \* per scope: how far its transaction() is
  parent,      \* per scope: the scope it is nested in
  chain,       \* per scope: itself and the scopes around it
  queue,       \* per scope: the transactions chained on its tail, in order
  active,      \* scopes with scope.active
  childActive, \* scopes with scope.childActive
  rolledBack,  \* scopes with scope.rolledBack
  unsafe,      \* a nested rollback failed (scope.unsafe of the outermost)
  created,     \* scopes whose savepoint was made
  callbacks,   \* the notifications registered: [notify, scope]
  delivered,   \* those of them that were run
  call,        \* per write: "idle", "waiting", "issued" or "refused"
  callScope,   \* per write: the scope it was called in
  awaited,     \* per waiting write: how much of its scope's queue it awaits
  written,     \* writes the open transaction holds
  savepoints,  \* the connection's savepoint stack: [scope, saved]
  committed    \* writes that are durable

scopeVars == <<parent, chain, queue, active, childActive, rolledBack, unsafe, created>>
notices == <<callbacks, delivered>>
calls == <<call, callScope, awaited>>
database == <<written, savepoints, committed>>
vars == <<pc, scopeVars, notices, calls, database>>

Init ==
  /\ pc = [s \in Scopes |-> "idle"]
  /\ parent = [s \in Scopes |-> None]
  /\ chain = [s \in Scopes |-> {s}]
  /\ queue = [s \in Scopes |-> <<>>]
  /\ active = {} /\ childActive = {} /\ rolledBack = {} /\ created = {}
  /\ unsafe = FALSE
  /\ callbacks = {} /\ delivered = {}
  /\ call = [w \in Writes |-> "idle"]
  /\ callScope = [w \in Writes |-> None]
  /\ awaited = [w \in Writes |-> 0]
  /\ written = {} /\ savepoints = <<>> /\ committed = {}

Over == {"resolved", "rejected", "dead"}

(* Definitions marked "Bug:" are not part of the specification: each is
   the definition that follows it with a plausible mistake, for checking
   that the properties below notice it. *)

(* The scope's work has been called, so code may run in its context. *)
HasContext(s) == s \in created /\ pc[Root] # "dead"

(* The first n transactions chained on s have settled. *)
Drained(s, n) == \A i \in 1..n : pc[queue[s][i]] \in Over

(* Bug: the tail is awaited once, whatever is chained on it meanwhile. *)
SettledOnce(s) == Drained(s, IF Len(queue[s]) = 0 THEN 0 ELSE 1)

Settled(s) == Drained(s, Len(queue[s]))

Before(s) == CHOOSE i \in 1..Len(queue[parent[s]]) : queue[parent[s]][i] = s

Goto(s, place) == pc' = [pc EXCEPT ![s] = place]

--------------------
(* The connection. *)

Savepoint(s) == /\ savepoints' = Append(savepoints, [scope |-> s, saved |-> written])
                /\ UNCHANGED <<written, committed>>

Depth(s) == CHOOSE i \in 1..Len(savepoints) : savepoints[i].scope = s

ReleaseSavepoint(s) == /\ savepoints' = SubSeq(savepoints, 1, Depth(s) - 1)
                       /\ UNCHANGED <<written, committed>>

(* ROLLBACK TO keeps the savepoint itself. *)
RollbackTo(s) == /\ written' = savepoints[Depth(s)].saved
                 /\ savepoints' = SubSeq(savepoints, 1, Depth(s))
                 /\ UNCHANGED committed

RollbackToAndRelease(s) == /\ written' = savepoints[Depth(s)].saved
                           /\ savepoints' = SubSeq(savepoints, 1, Depth(s) - 1)
                           /\ UNCHANGED committed

Commit == committed' = written /\ written' = {} /\ savepoints' = <<>>

Rollback == written' = {} /\ savepoints' = <<>> /\ UNCHANGED committed

--------------------
(* Opening a scope. *)

CallOutermost ==
  /\ pc[Root] = "idle"
  /\ Goto(Root, "opening")
  /\ UNCHANGED <<scopeVars, notices, calls, database>>

CallNested(s, p) ==
  /\ pc[s] = "idle"
  /\ HasContext(p)
  /\ Goto(s, "queued")
  /\ parent' = [parent EXCEPT ![s] = p]
  /\ chain' = [chain EXCEPT ![s] = chain[p] \cup {s}]
  /\ queue' = [queue EXCEPT ![p] = Append(@, s)]
  /\ UNCHANGED <<active, childActive, rolledBack, unsafe, created, notices, calls, database>>

(* Its turn among the transactions of its parent has come. *)
StartNested(s) ==
  LET p == parent[s] IN
  /\ pc[s] = "queued"
  /\ Drained(p, Before(s) - 1)
  /\ IF p \in active
     THEN Goto(s, "opening") /\ childActive' = childActive \cup {p}
     ELSE Goto(s, "rejected") /\ UNCHANGED childActive
  /\ UNCHANGED <<parent, chain, queue, active, rolledBack, unsafe, created, notices, calls, database>>

(* begin or SAVEPOINT succeeded: the work is called in the new scope. *)
Open(s) ==
  /\ pc[s] = "opening"
  /\ Goto(s, "working")
  /\ active' = active \cup {s}
  /\ created' = created \cup {s}
  /\ IF s = Root THEN UNCHANGED database ELSE Savepoint(s)
  /\ UNCHANGED <<parent, chain, queue, childActive, rolledBack, unsafe, notices, calls>>

OpenThrows(s) ==
  /\ pc[s] = "opening"
  /\ "open" \in Faults
  /\ Goto(s, IF s = Root THEN "rejected" ELSE "failing")
  /\ UNCHANGED <<scopeVars, notices, calls, database>>

--------------------
(* Store calls (withConnection) and afterCommit. *)

(* Bug: a scope's calls do not wait for the transaction nested in it. *)
TryWriteAtOnce(w, s) ==
  \/ /\ s \notin active
     /\ call' = [call EXCEPT ![w] = "refused"]
     /\ UNCHANGED <<awaited, written>>
  \/ /\ s \in active
     /\ call' = [call EXCEPT ![w] = "issued"]
     /\ written' = written \cup {w}
     /\ UNCHANGED awaited

(* One pass of withConnection's loop. *)
TryWrite(w, s) ==
  \/ /\ s \notin active
     /\ call' = [call EXCEPT ![w] = "refused"]
     /\ UNCHANGED <<awaited, written>>
  \/ /\ s \in active
     /\ s \notin childActive
     /\ call' = [call EXCEPT ![w] = "issued"]
     /\ written' = written \cup {w}
     /\ UNCHANGED awaited
  \/ /\ s \in active
     /\ s \in childActive
     /\ call' = [call EXCEPT ![w] = "waiting"]
     /\ awaited' = [awaited EXCEPT ![w] = Len(queue[s])]
     /\ UNCHANGED written

CallWrite(w, s) ==
  /\ call[w] = "idle"
  /\ HasContext(s)
  /\ callScope' = [callScope EXCEPT ![w] = s]
  /\ TryWrite(w, s)
  /\ UNCHANGED <<pc, scopeVars, notices, savepoints, committed>>

(* Bug: a call whose scope ended while it waited is forgotten. *)
ResumeWriteInScope(w) ==
  /\ call[w] = "waiting"
  /\ callScope[w] \in active
  /\ pc[Root] # "dead"
  /\ Drained(callScope[w], awaited[w])
  /\ TryWrite(w, callScope[w])
  /\ UNCHANGED <<pc, scopeVars, notices, callScope, savepoints, committed>>

ResumeWrite(w) ==
  /\ call[w] = "waiting"
  /\ pc[Root] # "dead"
  /\ Drained(callScope[w], awaited[w])
  /\ TryWrite(w, callScope[w])
  /\ UNCHANGED <<pc, scopeVars, notices, callScope, savepoints, committed>>

(* afterCommit; in a scope that has ended it throws and changes nothing. *)
AfterCommit(k, s) ==
  /\ HasContext(s)
  /\ s \in active
  /\ \A entry \in callbacks : entry.notify # k
  /\ callbacks' = callbacks \cup {[notify |-> k, scope |-> s]}
  /\ UNCHANGED <<pc, scopeVars, delivered, calls, database>>

--------------------
(* Closing a scope. *)

WorkReturns(s) ==
  /\ pc[s] = "working"
  /\ Goto(s, "settling")
  /\ UNCHANGED <<scopeVars, notices, calls, database>>

WorkThrows(s) ==
  /\ pc[s] = "working"
  /\ Goto(s, "failing")
  /\ active' = active \ {s}
  /\ UNCHANGED <<parent, chain, queue, childActive, rolledBack, unsafe, created, notices, calls, database>>

(* Bug: a nested rollback that failed is not held against the commit. *)
CloseRegardless(s) ==
  /\ pc[s] = "settling"
  /\ Settled(s)
  /\ active' = active \ {s}
  /\ Goto(s, "closing")
  /\ UNCHANGED <<parent, chain, queue, childActive, rolledBack, unsafe, created, notices, calls, database>>

(* settle found the tail unchanged: COMMIT or RELEASE is issued at once. *)
Close(s) ==
  /\ pc[s] = "settling"
  /\ Settled(s)
  /\ active' = active \ {s}
  /\ Goto(s, IF s = Root /\ unsafe THEN "failing" ELSE "closing")
  /\ UNCHANGED <<parent, chain, queue, childActive, rolledBack, unsafe, created, notices, calls, database>>

(* The finally block of #nested. *)
FreeParent(s) == childActive' = childActive \ {parent[s]}

CloseDone(s) ==
  /\ pc[s] = "closing"
  /\ IF s = Root
     THEN Goto(s, "ending") /\ Commit /\ UNCHANGED childActive
     ELSE Goto(s, "resolved") /\ ReleaseSavepoint(s) /\ FreeParent(s)
  /\ UNCHANGED <<parent, chain, queue, active, rolledBack, unsafe, created, notices, calls>>

CloseThrows(s) ==
  /\ pc[s] = "closing"
  /\ "close" \in Faults
  /\ Goto(s, "failing")
  /\ UNCHANGED <<scopeVars, notices, calls, database>>

(* Bug: only the scope the callback was registered in is looked at. *)
RolledBackItself(s) == s \in rolledBack

RolledBackChain(s) == chain[s] \cap rolledBack # {}

(* backend.end, then the callbacks, then transaction() resolves. *)
Deliver ==
  /\ pc[Root] = "ending"
  /\ Goto(Root, "resolved")
  /\ delivered' = {entry \in callbacks : ~RolledBackChain(entry.scope)}
  /\ UNCHANGED <<scopeVars, callbacks, calls, database>>

(* Bug: the outermost scope is marked like a nested one. *)
MarkEveryScope(s) == rolledBack \cup {s}

MarkRolledBack(s) == IF s = Root THEN rolledBack ELSE rolledBack \cup {s}

(* Bug: a nested transaction whose SAVEPOINT failed is not answered. *)
UndoOpened(s) ==
  /\ pc[s] = "failing"
  /\ Settled(s)
  /\ s = Root \/ s \in created
  /\ rolledBack' = MarkRolledBack(s)
  /\ Goto(s, "undoing")
  /\ UNCHANGED <<parent, chain, queue, active, childActive, unsafe, created, notices, calls, database>>

(* The transactions the failed work left behind have finished: undo. *)
Undo(s) ==
  /\ pc[s] = "failing"
  /\ Settled(s)
  /\ rolledBack' = MarkRolledBack(s)
  /\ IF s = Root \/ s \in created
     THEN Goto(s, "undoing") /\ UNCHANGED childActive
     ELSE Goto(s, "rejected") /\ FreeParent(s)
  /\ UNCHANGED <<parent, chain, queue, active, unsafe, created, notices, calls, database>>

(* A failed ROLLBACK of the outermost one leaves a connection that end()
   is told to throw away: its transaction is gone all the same. *)
UndoRoot ==
  /\ pc[Root] = "undoing"
  /\ Goto(Root, "rejected")
  /\ Rollback
  /\ UNCHANGED <<scopeVars, notices, calls>>

UndoNested(s) ==
  /\ s # Root
  /\ pc[s] = "undoing"
  /\ Goto(s, "rejected")
  /\ RollbackToAndRelease(s)
  /\ FreeParent(s)
  /\ UNCHANGED <<parent, chain, queue, active, rolledBack, unsafe, created, notices, calls>>

(* ROLLBACK TO throws, or the RELEASE after it. *)
UndoThrows(s) ==
  /\ s # Root
  /\ pc[s] = "undoing"
  /\ "undo" \in Faults
  /\ Goto(s, "rejected")
  /\ unsafe' = TRUE
  /\ UNCHANGED database \/ RollbackTo(s)
  /\ FreeParent(s)
  /\ UNCHANGED <<parent, chain, queue, active, rolledBack, created, notices, calls>>

(* The process dies: what is not committed is gone. *)
Crash ==
  /\ pc[Root] \notin Over \cup {"idle"}
  /\ pc' = [s \in Scopes |-> IF pc[s] \in Over \cup {"idle"} THEN pc[s] ELSE "dead"]
  /\ Rollback
  /\ UNCHANGED <<scopeVars, notices, calls>>

--------------------
Advance(s) == \/ StartNested(s) \/ Open(s) \/ Close(s) \/ CloseDone(s) \/ Undo(s) \/ UndoNested(s)

WorkEnds(s) == WorkReturns(s) \/ WorkThrows(s)

ScopeNext(s) == \/ Advance(s) \/ OpenThrows(s) \/ WorkEnds(s) \/ CloseThrows(s) \/ UndoThrows(s)

(* The outermost transaction() has settled and nothing is left to run. *)
Finished == /\ \A s \in Scopes : pc[s] \in Over \cup {"idle"}
            /\ pc[Root] \in Over
            /\ UNCHANGED vars

Next == \/ CallOutermost \/ Deliver \/ UndoRoot
        \/ \E s \in Scopes : ScopeNext(s)
        \/ \E s \in Nested, p \in Scopes : CallNested(s, p)
        \/ \E w \in Writes, s \in Scopes : CallWrite(w, s)
        \/ \E w \in Writes : ResumeWrite(w)
        \/ \E k \in Callbacks, s \in Scopes : AfterCommit(k, s)
        \/ Crash
        \/ Finished

Spec == Init /\ [][Next]_vars

(* What goes on by itself: statements are answered, promise jobs run and
   the callers' work ends. *)
GoesOn == \/ \E s \in Scopes : Advance(s) \/ WorkEnds(s)
          \/ \E w \in Writes : ResumeWrite(w)
          \/ Deliver \/ UndoRoot

--------------------
(* Properties. *)

Entries == [notify : Callbacks, scope : Scopes]

(* The types of the scopes, the calls and the connection's state. *)
TypeOK ==
  /\ pc \in [Scopes -> {"idle", "queued", "opening", "working", "settling", "closing",
                        "ending", "failing", "undoing"} \cup Over]
  /\ parent \in [Scopes -> Scopes \cup {None}]
  /\ chain \in [Scopes -> SUBSET Scopes]
  /\ queue \in [Scopes -> Seq(Nested)]
  /\ active \subseteq Scopes /\ childActive \subseteq Scopes
  /\ rolledBack \subseteq Nested /\ created \subseteq Scopes
  /\ unsafe \in BOOLEAN
  /\ callbacks \subseteq Entries /\ delivered \subseteq Entries
  /\ call \in [Writes -> {"idle", "waiting", "issued", "refused"}]
  /\ callScope \in [Writes -> Scopes \cup {None}]
  /\ awaited \in [Writes -> Nat]
  /\ written \subseteq Writes /\ committed \subseteq Writes
  /\ savepoints \in Seq([scope : Scopes, saved : SUBSET Writes])

Resolved(s) == pc[s] = "resolved" \/ (s = Root /\ pc[s] = "ending")

Kept(s) == \A t \in chain[s] : Resolved(t)

(* A write is durable exactly if it was issued and every transaction()
   around it resolves: an inner failure loses the inner writes only, an
   outer one loses all, un-awaited calls included, and a nested rollback
   that failed is never committed over (#outermost, #nested). *)
AllOrNothing ==
  pc[Root] # "dead" =>
    \A w \in Writes : w \in committed
                      <=> (call[w] = "issued" /\ Resolved(Root) /\ Kept(callScope[w]))

(* A callback runs exactly if what its scope wrote is durable, and never
   before the outermost transaction() resolves (deliver, rolledBackChain). *)
NotifiedIffDurable ==
  IF pc[Root] = "resolved"
  THEN \A entry \in callbacks : entry \in delivered <=> Kept(entry.scope)
  ELSE delivered = {}

(* A statement lands directly in its own scope's savepoint, never in that
   of a nested transaction that may roll back (withConnection). After a
   failed rollback a savepoint may be left over; nothing is kept then. *)
InOwnSavepoint ==
  [][\A w \in Writes :
       call[w] # "issued" /\ call'[w] = "issued" /\ ~unsafe
       => IF callScope'[w] = Root
          THEN savepoints = <<>>
          ELSE /\ savepoints # <<>>
               /\ savepoints[Len(savepoints)].scope = callScope'[w]]_vars

(* The connection is given up or committed only once no transaction nested
   in it, awaited or not, can still issue a statement (settle). *)
NothingRunsAfterTheEnd ==
  pc[Root] \in {"closing", "undoing", "ending", "resolved", "rejected"}
  => \A s \in Nested : pc[s] \in Over \cup {"idle", "queued"}

(* Every transaction() has settled, whatever was left un-awaited around
   it, and every store call that waited for a nested one was answered: it
   comes to that. *)
AllAnswered ==
  /\ \A s \in Scopes : pc[s] \in Over \cup {"idle"}
  /\ \A w \in Writes : call[w] = "waiting" => pc[Root] = "dead"
===============================================================================
