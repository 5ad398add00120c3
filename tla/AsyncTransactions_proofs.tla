---------------------- MODULE AsyncTransactions_proofs ----------------------
(***************************************************************************)
(* What AsyncTransactions promises for every number of transactions,       *)
(* writes and callbacks, and whichever statements throw.                   *)
(*                                                                         *)
(* While the process lives, the transactions that hold a place on the      *)
(* connection form one line, each inside the one before it (OneLine): a    *)
(* parent opens one nested transaction at a time (Turns) and does not give *)
(* up its own place before the last of them is over (Phases). So the       *)
(* savepoints lie on each other in that order (Stack), each holding what   *)
(* was written outside its scope (Saves), and what the open transaction    *)
(* holds is what was issued and is in no scope that was rejected (Effects).*)
(***************************************************************************)
EXTENDS AsyncTransactions, TLAPS

--------------------
(* The inductive invariant. *)

(* A nested transaction in one of these may have a savepoint. *)
Busy == {"opening", "working", "settling", "closing", "failing", "undoing"}

(* A scope in one of these keeps what is nested in it running. *)
Holding == {"working", "settling", "failing"}

Around(s) == chain[s] \ {s}

Tree ==
  /\ chain[Root] = {Root}
  /\ \A s \in Nested : pc[s] # "idle" =>
       /\ parent[s] \in created /\ parent[s] # s
       /\ chain[s] = chain[parent[s]] \cup {s}
       /\ Root \in chain[s]
       /\ \E i \in 1..Len(queue[parent[s]]) : queue[parent[s]][i] = s
  /\ \A s \in Nested : pc[s] = "idle" => chain[s] = {s}
  /\ \A s \in Scopes : s \in chain[s]

(* Each scope around s has, of those nested in it, one that is in the
   chain of s. *)
Links ==
  /\ \A s \in Scopes : \A t \in Around(s) : t \in created
  /\ \A s \in Scopes : \A t \in Around(s) : \E i \in 1..Len(queue[t]) : queue[t][i] \in chain[s]
  /\ \A s \in Scopes : \A t \in chain[s] : chain[t] \subseteq chain[s]

Turns ==
  \A p \in Scopes :
    /\ \A i \in 1..Len(queue[p]) : parent[queue[p][i]] = p /\ pc[queue[p][i]] # "idle"
    /\ \A i, j \in 1..Len(queue[p]) : i # j => queue[p][i] # queue[p][j]
    /\ \A i, j \in 1..Len(queue[p]) : i < j /\ pc[queue[p][j]] # "queued" => pc[queue[p][i]] \in Over

Phases ==
  /\ pc[Root] # "queued"
  /\ \A s \in Scopes : pc[s] # "dead"
  /\ \A s \in Nested : pc[s] # "ending"
  /\ \A s \in created : pc[s] \notin {"idle", "queued", "opening"}
  /\ \A s \in Nested : pc[s] \in {"working", "settling", "closing", "undoing", "resolved"} => s \in created
  /\ active \subseteq created
  /\ \A s \in Scopes : s \in active <=> pc[s] \in {"working", "settling"}
  /\ \A s \in rolledBack : pc[s] \in {"undoing", "rejected"}
  /\ \A s \in Nested : s \in created /\ pc[s] \in {"undoing", "rejected"} => s \in rolledBack
  /\ unsafe => pc[Root] \notin {"closing", "ending", "resolved"}

Held == \A s \in Nested : pc[s] \in Busy => \A t \in Around(s) : pc[t] \in Holding

ChildActive == \A p \in Scopes : p \in childActive <=> \E s \in Nested : parent[s] = p /\ pc[s] \in Busy

OneLine == \A s, u \in Nested : pc[s] \in Busy /\ pc[u] \in Busy => s \in chain[u] \/ u \in chain[s]

HasPlace(s) == s \in Nested /\ s \in created /\ pc[s] \in Busy

Stack ==
  /\ \A i \in 1..Len(savepoints) : savepoints[i].scope \in Nested \cap created
  /\ \A i, j \in 1..Len(savepoints) : i # j => savepoints[i].scope # savepoints[j].scope
  /\ \A s \in Nested : HasPlace(s) => \E i \in 1..Len(savepoints) : savepoints[i].scope = s
  /\ \A i, j \in 1..Len(savepoints) :
       /\ HasPlace(savepoints[i].scope) /\ HasPlace(savepoints[j].scope)
       /\ savepoints[i].scope \in chain[savepoints[j].scope]
       => i <= j

Saves ==
  ~unsafe =>
    \A i \in 1..Len(savepoints) :
      /\ HasPlace(savepoints[i].scope)
      /\ savepoints[i].saved = {w \in written : savepoints[i].scope \notin chain[callScope[w]]}

InForce == {w \in Writes : call[w] = "issued" /\ \A t \in chain[callScope[w]] : pc[t] # "rejected"}

Origins ==
  /\ \A w \in Writes : call[w] # "idle" => callScope[w] \in created
  /\ \A entry \in callbacks : entry.scope \in created

Effects ==
  /\ ~unsafe /\ pc[Root] \notin {"ending", "resolved", "rejected"} => written = InForce
  /\ pc[Root] \in {"ending", "resolved"} => committed = InForce
  /\ pc[Root] \notin {"ending", "resolved"} => committed = {}

Notified ==
  /\ pc[Root] # "resolved" => delivered = {}
  /\ pc[Root] = "resolved" =>
       \A entry \in callbacks : entry \in delivered <=> \A t \in chain[entry.scope] : pc[t] # "rejected"

Alive == /\ Tree /\ Links /\ Turns /\ Phases /\ Held /\ ChildActive /\ OneLine
         /\ Stack /\ Saves /\ Origins /\ Effects /\ Notified

Ended == /\ \A s \in Scopes : pc[s] \in Over \cup {"idle"}
         /\ delivered = {}

Inv == IF pc[Root] = "dead" THEN Ended ELSE Alive

--------------------
(* What every step but the one that queues a transaction does. *)
Forward ==
  /\ UNCHANGED <<parent, chain, queue>>
  /\ created \subseteq created'
  /\ created' \subseteq Scopes
  /\ \A s \in Nested : pc'[s] = "idle" <=> pc[s] = "idle"
  /\ \A s \in Nested : pc'[s] = "queued" => pc[s] = "queued"
  /\ \A s \in Scopes : pc[s] \in Over => pc'[s] = pc[s]
  /\ \A s \in Nested : pc[s] = "queued" /\ pc'[s] # "queued" => Drained(parent[s], Before(s) - 1)

LEMMA ForwardSteps ==
  ASSUME TypeOK, Phases, pc[Root] # "dead", pc'[Root] # "dead", Next,
         ~ \E s \in Nested, p \in Scopes : CallNested(s, p)
  PROVE  Forward
<1>. USE ScopesAssumption DEF Scopes, TypeOK, Forward, Goto, scopeVars, Over
<1>1. CASE CallOutermost
  BY <1>1 DEF CallOutermost
<1>2. CASE Deliver
  BY <1>2 DEF Deliver
<1>3. CASE UndoRoot
  BY <1>3 DEF UndoRoot
<1>4. ASSUME NEW s \in Scopes, StartNested(s) PROVE Forward
  BY <1>4 DEF StartNested, Phases
<1>5. ASSUME NEW s \in Scopes, Open(s) PROVE Forward
  BY <1>5 DEF Open
<1>6. ASSUME NEW s \in Scopes, Close(s) PROVE Forward
  BY <1>6 DEF Close
<1>7. ASSUME NEW s \in Scopes, CloseDone(s) PROVE Forward
  BY <1>7 DEF CloseDone
<1>8. ASSUME NEW s \in Scopes, Undo(s) PROVE Forward
  BY <1>8 DEF Undo
<1>9. ASSUME NEW s \in Scopes, UndoNested(s) PROVE Forward
  BY <1>9 DEF UndoNested
<1>10. ASSUME NEW s \in Scopes, OpenThrows(s) PROVE Forward
  BY <1>10 DEF OpenThrows
<1>11. ASSUME NEW s \in Scopes, WorkReturns(s) \/ WorkThrows(s) PROVE Forward
  BY <1>11 DEF WorkReturns, WorkThrows
<1>12. ASSUME NEW s \in Scopes, CloseThrows(s) PROVE Forward
  BY <1>12 DEF CloseThrows
<1>13. ASSUME NEW s \in Scopes, UndoThrows(s) PROVE Forward
  BY <1>13 DEF UndoThrows
<1>14. ASSUME NEW w \in Writes, NEW s \in Scopes, CallWrite(w, s) PROVE Forward
  BY <1>14 DEF CallWrite
<1>15. ASSUME NEW w \in Writes, ResumeWrite(w) PROVE Forward
  BY <1>15 DEF ResumeWrite
<1>16. ASSUME NEW k \in Callbacks, NEW s \in Scopes, AfterCommit(k, s) PROVE Forward
  BY <1>16 DEF AfterCommit
<1>17. CASE Crash
  BY <1>17 DEF Crash
<1>18. CASE Finished
  BY <1>18 DEF Finished, vars
<1>q. QED
  BY <1>1, <1>2, <1>3, <1>4, <1>5, <1>6, <1>7, <1>8, <1>9, <1>10, <1>11, <1>12, <1>13, <1>14, <1>15,
     <1>16, <1>17, <1>18 DEF Next, ScopeNext, Advance, WorkEnds

--------------------
(* The tree of the transactions. *)

(* A transaction queued for the first time is in no chain but its own and
   in no queue. *)
LEMMA NewcomerIsNowhere ==
  ASSUME TypeOK, Tree, Links, Turns, Phases, NEW s \in Nested, pc[s] = "idle"
  PROVE  /\ \A u \in Scopes : u # s => s \notin chain[u]
         /\ \A p \in Scopes : \A i \in 1..Len(queue[p]) : queue[p][i] # s
         /\ s \notin created
<1>1. s \notin created
  BY DEF Phases
<1>2. \A u \in Scopes : u # s => s \notin chain[u]
  BY <1>1 DEF Links, Around
<1>3. \A p \in Scopes : \A i \in 1..Len(queue[p]) : queue[p][i] # s
  BY DEF Turns
<1>q. QED
  BY <1>1, <1>2, <1>3

(* What CallNested(s, p) does to the chains and the queues. *)
LEMMA Queued ==
  ASSUME TypeOK, NEW s \in Nested, NEW p \in Scopes, CallNested(s, p)
  PROVE  /\ pc'[s] = "queued" /\ \A u \in Scopes : u # s => pc'[u] = pc[u]
         /\ parent'[s] = p /\ \A u \in Scopes : u # s => parent'[u] = parent[u]
         /\ chain'[s] = chain[p] \cup {s} /\ \A u \in Scopes : u # s => chain'[u] = chain[u]
         /\ \A u \in Scopes : u # p => queue'[u] = queue[u]
         /\ Len(queue[p]) \in Nat
         /\ Len(queue'[p]) = Len(queue[p]) + 1
         /\ queue'[p][Len(queue[p]) + 1] = s
         /\ \A i \in 1..Len(queue[p]) : queue'[p][i] = queue[p][i]
BY DEF CallNested, Goto, TypeOK, Scopes

LEMMA TreeStep ==
  ASSUME TypeOK, Tree, Links, Turns, Phases, pc[Root] # "dead", pc'[Root] # "dead", Next
  PROVE  Tree' /\ Links'
<1>. USE ScopesAssumption
<1>1. ASSUME Forward PROVE Tree' /\ Links'
  <2>1. Tree'
    BY <1>1 DEF Forward, Tree, Scopes
  <2>2. Links'
    BY <1>1 DEF Forward, Links, Around
  <2>q. QED BY <2>1, <2>2
<1>2. ASSUME NEW s \in Nested, NEW p \in Scopes, CallNested(s, p) PROVE Tree' /\ Links'
  <2>1. s # p /\ p \in created /\ created' = created /\ pc[s] = "idle" /\ s # Root
    BY <1>2 DEF CallNested, HasContext, Phases
  <2>2. /\ \A u \in Scopes : u # s => s \notin chain[u]
        /\ \A q \in Scopes : \A i \in 1..Len(queue[q]) : queue[q][i] # s
        /\ s \notin created
    BY <2>1, NewcomerIsNowhere
  <2>3. /\ pc'[s] = "queued" /\ \A u \in Scopes : u # s => pc'[u] = pc[u]
        /\ parent'[s] = p /\ \A u \in Scopes : u # s => parent'[u] = parent[u]
        /\ chain'[s] = chain[p] \cup {s} /\ \A u \in Scopes : u # s => chain'[u] = chain[u]
        /\ \A u \in Scopes : u # p => queue'[u] = queue[u]
        /\ Len(queue[p]) \in Nat
        /\ Len(queue'[p]) = Len(queue[p]) + 1
        /\ queue'[p][Len(queue[p]) + 1] = s
        /\ \A i \in 1..Len(queue[p]) : queue'[p][i] = queue[p][i]
    BY <1>2, Queued
  <2>4. \A u \in Scopes : Len(queue[u]) \in Nat
    BY DEF TypeOK
  <2>5. \A u \in Scopes : \A i \in 1..Len(queue[u]) : i \in 1..Len(queue'[u]) /\ queue'[u][i] = queue[u][i]
    BY <2>3, <2>4
  <2>6. Root \in chain[p]
    BY <2>1 DEF Tree, Phases, Scopes
  <2>7. chain[p] \subseteq Scopes /\ p \in chain[p] /\ s \in Scopes /\ Root \in Scopes
    BY DEF TypeOK, Tree, Scopes
  <2>8. \A u \in Nested : u # s /\ pc[u] # "idle" => parent[u] \in Scopes /\ parent[u] # s
    BY <2>1, <2>2 DEF Tree, Phases, TypeOK
  <2>9. Tree'
    <3>1. chain'[Root] = {Root}
      BY <2>1, <2>3, <2>7 DEF Tree
    <3>2. ASSUME NEW u \in Nested, pc'[u] # "idle"
          PROVE  /\ parent'[u] \in created' /\ parent'[u] # u
                 /\ chain'[u] = chain'[parent'[u]] \cup {u}
                 /\ Root \in chain'[u]
                 /\ \E i \in 1..Len(queue'[parent'[u]]) : queue'[parent'[u]][i] = u
      <4>1. CASE u = s
        BY <4>1, <2>1, <2>3, <2>6
      <4>2. CASE u # s
        <5>1. u \in Scopes /\ pc[u] # "idle" /\ parent'[u] = parent[u] /\ chain'[u] = chain[u]
          BY <4>2, <3>2, <2>3 DEF Scopes
        <5>2. parent[u] \in Scopes /\ chain'[parent[u]] = chain[parent[u]]
          BY <5>1, <4>2, <2>8, <2>3
        <5>3. \E i \in 1..Len(queue[parent[u]]) : queue[parent[u]][i] = u
          BY <5>1 DEF Tree
        <5>4. \E i \in 1..Len(queue'[parent[u]]) : queue'[parent[u]][i] = u
          BY <5>3, <5>2, <2>5
        <5>q. QED BY <5>1, <5>2, <5>4, <2>1 DEF Tree
      <4>q. QED BY <4>1, <4>2
    <3>3. \A u \in Nested : pc'[u] = "idle" => chain'[u] = {u}
      BY <2>3 DEF Tree, Scopes
    <3>4. \A u \in Scopes : u \in chain'[u]
      BY <2>3 DEF Tree
    <3>q. QED BY <3>1, <3>2, <3>3, <3>4 DEF Tree
  <2>10. Links'
    <3>1. \A u \in Scopes : \A t \in chain'[u] \ {u} : t \in created
      BY <2>1, <2>3 DEF Links, Around
    <3>2. ASSUME NEW u \in Scopes, NEW t \in chain'[u] \ {u}
          PROVE  \E i \in 1..Len(queue'[t]) : queue'[t][i] \in chain'[u]
      <4>1. CASE u # s
        <5>1. t \in Around(u) /\ t \in Scopes /\ chain'[u] = chain[u]
          BY <4>1, <2>3 DEF Around, TypeOK
        <5>2. PICK i \in 1..Len(queue[t]) : queue[t][i] \in chain[u]
          BY <5>1 DEF Links
        <5>q. QED BY <5>1, <5>2, <2>5
      <4>2. CASE u = s /\ t = p
        BY <4>2, <2>3
      <4>3. CASE u = s /\ t # p
        <5>1. t \in Around(p) /\ t \in Scopes
          BY <4>3, <2>3, <2>7 DEF Around
        <5>2. PICK i \in 1..Len(queue[t]) : queue[t][i] \in chain[p]
          BY <5>1 DEF Links
        <5>q. QED BY <5>1, <5>2, <4>3, <2>3, <2>5
      <4>q. QED BY <4>1, <4>2, <4>3
    <3>3. ASSUME NEW u \in Scopes, NEW t \in chain'[u] PROVE chain'[t] \subseteq chain'[u]
      <4>1. CASE t = s
        BY <4>1, <3>3, <2>2, <2>3
      <4>2. CASE t # s /\ u # s
        BY <4>2, <3>3, <2>3 DEF Links, TypeOK
      <4>3. CASE t # s /\ u = s
        BY <4>3, <3>3, <2>3, <2>7 DEF Links
      <4>q. QED BY <4>1, <4>2, <4>3
    <3>q. QED BY <3>1, <3>2, <3>3, <2>1 DEF Links, Around
  <2>q. QED BY <2>9, <2>10
<1>q. QED BY <1>1, <1>2, ForwardSteps

LEMMA TurnsStep ==
  ASSUME TypeOK, Tree, Links, Turns, Phases, pc[Root] # "dead", pc'[Root] # "dead", Next
  PROVE  Turns'
<1>. USE ScopesAssumption
<1>1. ASSUME Forward PROVE Turns'
  <2>1. \A p \in Scopes : \A i \in 1..Len(queue[p]) : queue[p][i] \in Nested /\ Len(queue[p]) \in Nat
    BY DEF TypeOK
  <2>2. UNCHANGED <<parent, queue>>
    BY <1>1 DEF Forward
  <2>3. ASSUME NEW p \in Scopes, NEW i \in 1..Len(queue[p]), NEW j \in 1..Len(queue[p]), i < j,
               pc'[queue[p][j]] # "queued"
        PROVE  pc'[queue[p][i]] \in Over
    <3>1. pc[queue[p][i]] \in Over
      <4>1. CASE pc[queue[p][j]] # "queued"
        BY <4>1, <2>3 DEF Turns
      <4>2. CASE pc[queue[p][j]] = "queued"
        <5>1. Drained(p, Before(queue[p][j]) - 1)
          BY <4>2, <2>1, <2>3, <1>1 DEF Forward, Turns
        <5>2. Before(queue[p][j]) = j
          BY <2>1 DEF Before, Turns
        <5>q. QED BY <5>1, <5>2, <2>3, <2>1 DEF Drained
      <4>q. QED BY <4>1, <4>2
    <3>q. QED BY <3>1, <2>1, <1>1 DEF Forward, Scopes
  <2>4. \A p \in Scopes : \A i \in 1..Len(queue[p]) : pc'[queue[p][i]] # "idle"
    BY <2>1, <1>1 DEF Forward, Turns
  <2>q. QED BY <2>2, <2>3, <2>4 DEF Turns
<1>2. ASSUME NEW s \in Nested, NEW p \in Scopes, CallNested(s, p) PROVE Turns'
  <2>1. pc[s] = "idle"
    BY <1>2 DEF CallNested
  <2>2. \A q \in Scopes : \A i \in 1..Len(queue[q]) : queue[q][i] # s /\ queue[q][i] \in Scopes
    BY <2>1, NewcomerIsNowhere DEF TypeOK, Scopes
  <2>3. /\ pc'[s] = "queued" /\ \A u \in Scopes : u # s => pc'[u] = pc[u]
        /\ parent'[s] = p /\ \A u \in Scopes : u # s => parent'[u] = parent[u]
        /\ \A u \in Scopes : u # p => queue'[u] = queue[u]
        /\ Len(queue[p]) \in Nat
        /\ Len(queue'[p]) = Len(queue[p]) + 1
        /\ queue'[p][Len(queue[p]) + 1] = s
        /\ \A i \in 1..Len(queue[p]) : queue'[p][i] = queue[p][i]
    BY <1>2, Queued
  <2>4. \A q \in Scopes : \A i \in 1..Len(queue[q]) :
          pc'[queue[q][i]] = pc[queue[q][i]] /\ parent'[queue[q][i]] = parent[queue[q][i]]
    BY <2>2, <2>3
  <2>5. ASSUME NEW q \in Scopes, q # p
        PROVE  /\ \A i \in 1..Len(queue'[q]) : parent'[queue'[q][i]] = q /\ pc'[queue'[q][i]] # "idle"
               /\ \A i, j \in 1..Len(queue'[q]) : i # j => queue'[q][i] # queue'[q][j]
               /\ \A i, j \in 1..Len(queue'[q]) :
                    i < j /\ pc'[queue'[q][j]] # "queued" => pc'[queue'[q][i]] \in Over
    <3>1. queue'[q] = queue[q]
      BY <2>3, <2>5
    <3>q. QED BY <3>1, <2>4 DEF Turns
  <2>6. \A i \in 1..Len(queue'[p]) : i \in 1..Len(queue[p]) \/ i = Len(queue[p]) + 1
    BY <2>3
  <2>7. \A i \in 1..Len(queue'[p]) : parent'[queue'[p][i]] = p /\ pc'[queue'[p][i]] # "idle"
    BY <2>6, <2>3, <2>4 DEF Turns
  <2>8. \A i, j \in 1..Len(queue'[p]) : i # j => queue'[p][i] # queue'[p][j]
    BY <2>6, <2>3, <2>2 DEF Turns
  <2>9. \A i, j \in 1..Len(queue'[p]) : i < j /\ pc'[queue'[p][j]] # "queued" => pc'[queue'[p][i]] \in Over
    BY <2>6, <2>3, <2>4 DEF Turns
  <2>q. QED BY <2>5, <2>7, <2>8, <2>9 DEF Turns
<1>q. QED BY <1>1, <1>2, ForwardSteps

--------------------
(* Who may hold a place. *)

(* No transaction that holds a place is nested in t, at any depth. *)
Alone(t) == \A u \in Nested : pc[u] \in Busy => t \notin Around(u)

LEMMA SettledMeansAlone ==
  ASSUME TypeOK, Links, Held, NEW t \in Scopes, Settled(t)
  PROVE  Alone(t)
<1>. SUFFICES ASSUME NEW u \in Nested, pc[u] \in Busy, t \in Around(u) PROVE FALSE
  BY DEF Alone
<1>1. PICK i \in 1..Len(queue[t]) : queue[t][i] \in chain[u]
  BY DEF Links, Scopes
<1>2. pc[queue[t][i]] \in Over
  BY DEF Settled, Drained
<1>3. queue[t][i] # u
  BY <1>2 DEF Over, Busy
<1>4. pc[queue[t][i]] \in Holding
  BY <1>1, <1>3 DEF Held, Around
<1>q. QED BY <1>2, <1>4 DEF Over, Holding

LEMMA FreeMeansAlone ==
  ASSUME TypeOK, Links, Turns, Held, ChildActive, NEW t \in Scopes, t \notin childActive
  PROVE  Alone(t)
<1>. SUFFICES ASSUME NEW u \in Nested, pc[u] \in Busy, t \in Around(u) PROVE FALSE
  BY DEF Alone
<1>1. PICK i \in 1..Len(queue[t]) : queue[t][i] \in chain[u]
  BY DEF Links, Scopes
<1>2. queue[t][i] \in Nested /\ parent[queue[t][i]] = t
  BY DEF TypeOK, Turns
<1>3. pc[queue[t][i]] \in Busy
  BY <1>1 DEF Held, Around, Holding, Busy
<1>q. QED BY <1>2, <1>3 DEF ChildActive

LEMMA StartsAlone ==
  ASSUME TypeOK, Tree, Links, Turns, Held, NEW s \in Nested, pc[s] = "queued",
         parent[s] \in Scopes, Drained(parent[s], Before(s) - 1)
  PROVE  Alone(parent[s])
<1>. DEFINE p == parent[s]
<1>. SUFFICES ASSUME NEW u \in Nested, pc[u] \in Busy, p \in Around(u) PROVE FALSE
  BY DEF Alone
<1>1. PICK i \in 1..Len(queue[p]) : queue[p][i] \in chain[u]
  BY DEF Links, Scopes
<1>2. pc[queue[p][i]] \in Busy
  BY <1>1 DEF Held, Around, Holding, Busy
<1>3. Before(s) \in 1..Len(queue[p]) /\ queue[p][Before(s)] = s
  BY DEF Before, Tree
<1>4. i # Before(s)
  BY <1>2, <1>3 DEF Busy
<1>5. Len(queue[p]) \in Nat
  BY DEF TypeOK
<1>6. ~ i < Before(s)
  <2>1. SUFFICES ASSUME i < Before(s) PROVE FALSE
    OBVIOUS
  <2>2. i \in 1..(Before(s) - 1)
    BY <1>3, <1>5, <2>1
  <2>q. QED BY <2>2, <1>2 DEF Drained, Over, Busy
<1>7. Before(s) < i
  BY <1>3, <1>4, <1>5, <1>6
<1>8. pc[queue[p][Before(s)]] \in Over
  BY <1>7, <1>3, <1>2 DEF Turns, Busy
<1>q. QED BY <1>8, <1>3 DEF Over

(* A scope has one nested transaction that holds a place, at most. *)
LEMMA OneBusyChild ==
  ASSUME TypeOK, Tree, Turns, Phases, NEW s \in Nested, NEW u \in Nested, pc[s] \in Busy, pc[u] \in Busy,
         parent[s] = parent[u]
  PROVE  s = u
<1>. DEFINE p == parent[s]
<1>1. p \in Scopes
  BY DEF Tree, Busy, TypeOK
<1>2. PICK i \in 1..Len(queue[p]) : queue[p][i] = s
  BY DEF Tree, Busy
<1>3. PICK j \in 1..Len(queue[p]) : queue[p][j] = u
  BY DEF Tree, Busy
<1>4. Len(queue[p]) \in Nat
  BY <1>1 DEF TypeOK
<1>5. ~ i < j
  BY <1>1, <1>2, <1>3 DEF Turns, Busy, Over
<1>6. ~ j < i
  BY <1>1, <1>2, <1>3 DEF Turns, Busy, Over
<1>q. QED BY <1>2, <1>3, <1>4, <1>5, <1>6

(* While a transaction nested in Root holds a place, Root does too. *)
LEMMA RootHolds ==
  ASSUME Tree, Held, NEW s \in Nested, pc[s] \in Busy
  PROVE  pc[Root] \in Holding
BY ScopesAssumption DEF Tree, Held, Around, Busy

(* What every step but the start of a nested transaction does. *)
Quiets ==
  /\ \A u \in Nested : pc'[u] \in Busy => /\ pc[u] \in Busy
                                          /\ chain'[u] = chain[u] /\ parent'[u] = parent[u]
  /\ \A t \in Scopes : pc[t] \in Holding => pc'[t] \in Holding \/ Settled(t)

LEMMA QuietSteps ==
  ASSUME TypeOK, Phases, pc[Root] # "dead", pc'[Root] # "dead", Next,
         ~ \E s \in Scopes : StartNested(s)
  PROVE  Quiets
<1>. USE ScopesAssumption DEF Scopes, TypeOK, Quiets, Goto, scopeVars, Busy, Holding
<1>1. CASE CallOutermost
  BY <1>1 DEF CallOutermost
<1>2. CASE Deliver
  BY <1>2 DEF Deliver
<1>3. CASE UndoRoot
  BY <1>3 DEF UndoRoot
<1>4. ASSUME NEW s \in Nested, NEW p \in Scopes, CallNested(s, p) PROVE Quiets
  BY <1>4 DEF CallNested
<1>5. ASSUME NEW s \in Scopes, Open(s) PROVE Quiets
  BY <1>5 DEF Open
<1>6. ASSUME NEW s \in Scopes, Close(s) PROVE Quiets
  BY <1>6 DEF Close
<1>7. ASSUME NEW s \in Scopes, CloseDone(s) PROVE Quiets
  BY <1>7 DEF CloseDone
<1>8. ASSUME NEW s \in Scopes, Undo(s) PROVE Quiets
  BY <1>8 DEF Undo
<1>9. ASSUME NEW s \in Scopes, UndoNested(s) PROVE Quiets
  BY <1>9 DEF UndoNested
<1>10. ASSUME NEW s \in Scopes, OpenThrows(s) PROVE Quiets
  BY <1>10 DEF OpenThrows
<1>11. ASSUME NEW s \in Scopes, WorkReturns(s) \/ WorkThrows(s) PROVE Quiets
  BY <1>11 DEF WorkReturns, WorkThrows
<1>12. ASSUME NEW s \in Scopes, CloseThrows(s) PROVE Quiets
  BY <1>12 DEF CloseThrows
<1>13. ASSUME NEW s \in Scopes, UndoThrows(s) PROVE Quiets
  BY <1>13 DEF UndoThrows
<1>14. ASSUME NEW w \in Writes, NEW s \in Scopes, CallWrite(w, s) PROVE Quiets
  BY <1>14 DEF CallWrite
<1>15. ASSUME NEW w \in Writes, ResumeWrite(w) PROVE Quiets
  BY <1>15 DEF ResumeWrite
<1>16. ASSUME NEW k \in Callbacks, NEW s \in Scopes, AfterCommit(k, s) PROVE Quiets
  BY <1>16 DEF AfterCommit
<1>17. CASE Crash
  BY <1>17 DEF Crash, Over
<1>18. CASE Finished
  BY <1>18 DEF Finished, vars
<1>q. QED
  BY <1>1, <1>2, <1>3, <1>4, <1>5, <1>6, <1>7, <1>8, <1>9, <1>10, <1>11, <1>12, <1>13, <1>14, <1>15,
     <1>16, <1>17, <1>18 DEF Next, ScopeNext, Advance, WorkEnds

(* StartNested(s) opens s if its parent is active. *)
LEMMA Started ==
  ASSUME TypeOK, Tree, Phases, NEW s \in Scopes, StartNested(s)
  PROVE  /\ s \in Nested /\ pc[s] = "queued" /\ parent[s] \in Scopes /\ parent[s] # s
         /\ Drained(parent[s], Before(s) - 1)
         /\ parent[s] \in active => pc'[s] = "opening" /\ childActive' = childActive \cup {parent[s]}
         /\ parent[s] \notin active => pc'[s] = "rejected" /\ childActive' = childActive
         /\ \A u \in Scopes : u # s => pc'[u] = pc[u]
         /\ UNCHANGED <<parent, chain, queue, active, rolledBack, unsafe, created, notices, calls, database>>
BY DEF StartNested, Phases, TypeOK, Scopes, Goto, Tree

LEMMA LineStep ==
  ASSUME TypeOK, Tree, Links, Turns, Phases, Held, ChildActive, OneLine,
         pc[Root] # "dead", pc'[Root] # "dead", Next
  PROVE  Held' /\ OneLine'
<1>. USE ScopesAssumption
<1>1. ASSUME Quiets PROVE Held' /\ OneLine'
  <2>1. OneLine'
    BY <1>1 DEF Quiets, OneLine
  <2>2. ASSUME NEW u \in Nested, pc'[u] \in Busy, NEW t \in chain'[u] \ {u} PROVE pc'[t] \in Holding
    <3>1. pc[u] \in Busy /\ t \in Around(u) /\ t \in Scopes
      BY <2>2, <1>1 DEF Quiets, Around, TypeOK, Scopes
    <3>2. pc[t] \in Holding
      BY <3>1 DEF Held
    <3>3. ~ Settled(t)
      BY <3>1, SettledMeansAlone DEF Alone
    <3>q. QED BY <3>1, <3>2, <3>3, <1>1 DEF Quiets
  <2>q. QED BY <2>1, <2>2 DEF Held, Around
<1>2. ASSUME NEW s \in Scopes, StartNested(s) PROVE Held' /\ OneLine'
  <2>. DEFINE p == parent[s]
  <2>1. /\ s \in Nested /\ pc[s] = "queued" /\ p \in Scopes /\ p # s
        /\ Drained(p, Before(s) - 1)
        /\ p \in active => pc'[s] = "opening"
        /\ p \notin active => pc'[s] = "rejected"
        /\ \A u \in Scopes : u # s => pc'[u] = pc[u]
        /\ chain' = chain
    BY <1>2, Started
  <2>2. Alone(p)
    BY <2>1, StartsAlone
  <2>3. \A u \in Nested : u # s /\ pc'[u] \in Busy => pc[u] \in Busy
    BY <2>1 DEF Scopes
  <2>4. chain[s] = chain[p] \cup {s} /\ chain[s] \subseteq Scopes
    BY <2>1 DEF Tree, TypeOK, Scopes
  <2>5. \A u \in Scopes : s \in chain[u] => u = s
    BY <2>1 DEF Links, Around, Phases
  <2>6. pc'[s] \in Busy => p \in active
    BY <2>1 DEF Busy
  <2>7. ASSUME NEW u \in Nested, pc'[u] \in Busy, NEW t \in Around(u) PROVE pc'[t] \in Holding
    <3>1. t # s /\ t \in Scopes
      BY <2>5, <2>7 DEF Around, TypeOK, Scopes
    <3>2. CASE u # s
      BY <3>1, <3>2, <2>1, <2>3, <2>7 DEF Held
    <3>3. CASE u = s
      <4>1. pc[p] \in {"working", "settling"}
        BY <3>3, <2>7, <2>6, <2>1 DEF Phases
      <4>2. t = p \/ t \in Around(p)
        BY <3>3, <2>4, <2>7 DEF Around
      <4>3. CASE t = p
        BY <4>1, <4>3, <3>1, <2>1 DEF Holding
      <4>4. CASE t \in Around(p)
        <5>1. p \in Nested
          BY <4>4, <2>1 DEF Tree, Around, Scopes
        <5>q. QED BY <5>1, <4>1, <4>4, <3>1, <2>1 DEF Held, Busy
      <4>q. QED BY <4>2, <4>3, <4>4
    <3>q. QED BY <3>2, <3>3
  <2>8. ASSUME NEW u \in Nested, u # s, pc'[u] \in Busy, pc'[s] \in Busy PROVE u \in chain[s]
    <3>1. pc[u] \in Busy /\ p \in active /\ p \notin Around(u)
      BY <2>2, <2>3, <2>6, <2>8 DEF Alone
    <3>2. CASE p = Root
      BY <3>1, <3>2 DEF Tree, Around, Busy
    <3>3. CASE p # Root
      <4>1. p \in Nested /\ pc[p] \in Busy
        BY <3>1, <3>3, <2>1 DEF Phases, Busy, Scopes
      <4>2. u \in chain[p] \/ p \in chain[u]
        BY <4>1, <3>1 DEF OneLine
      <4>3. p \in chain[p]
        BY <2>1 DEF Tree
      <4>q. QED BY <4>2, <4>3, <3>1, <2>4 DEF Around
    <3>q. QED BY <3>2, <3>3
  <2>9. OneLine'
    <3>1. \A u \in Scopes : u \in chain[u]
      BY DEF Tree
    <3>2. SUFFICES ASSUME NEW u \in Nested, NEW v \in Nested, pc'[u] \in Busy, pc'[v] \in Busy
                   PROVE  u \in chain[v] \/ v \in chain[u]
      BY <2>1 DEF OneLine
    <3>3. CASE u = s /\ v = s
      BY <3>1, <3>3, <2>1 DEF Scopes
    <3>4. CASE u = s /\ v # s
      BY <3>2, <3>4, <2>8
    <3>5. CASE u # s /\ v = s
      BY <3>2, <3>5, <2>8
    <3>6. CASE u # s /\ v # s
      BY <3>2, <3>6, <2>3 DEF OneLine
    <3>q. QED BY <3>3, <3>4, <3>5, <3>6
  <2>q. QED BY <2>1, <2>7, <2>9 DEF Held, Around
<1>q. QED BY <1>1, <1>2, QuietSteps

LEMMA Moved ==
  ASSUME TypeOK, NEW s \in Scopes, NEW place, Goto(s, place)
  PROVE  pc'[s] = place /\ \A u \in Scopes : u # s => pc'[u] = pc[u]
BY DEF Goto, TypeOK

LEMMA PhasesStep ==
  ASSUME TypeOK, Tree, Phases, Held, pc[Root] # "dead", pc'[Root] # "dead", Next
  PROVE  Phases'
<1>. USE ScopesAssumption DEF Scopes, TypeOK, Phases, Goto, scopeVars, Over
<1>1. CASE CallOutermost
  BY <1>1 DEF CallOutermost
<1>2. CASE Deliver
  BY <1>2 DEF Deliver
<1>3. CASE UndoRoot
  BY <1>3 DEF UndoRoot
<1>4. ASSUME NEW s \in Nested, NEW p \in Scopes, CallNested(s, p) PROVE Phases'
  BY <1>4 DEF CallNested
<1>5. ASSUME NEW s \in Scopes, Open(s) PROVE Phases'
  BY <1>5 DEF Open
<1>6. ASSUME NEW s \in Scopes, Close(s) PROVE Phases'
  BY <1>6 DEF Close
<1>7. ASSUME NEW s \in Scopes, CloseDone(s) PROVE Phases'
  <2>. DEFINE place == IF s = Root THEN "ending" ELSE "resolved"
  <2>1. pc'[s] = place /\ \A u \in Scopes : u # s => pc'[u] = pc[u]
    BY <1>7, Moved DEF CloseDone
  <2>2. pc[s] = "closing" /\ UNCHANGED <<active, rolledBack, unsafe, created>>
    BY <1>7 DEF CloseDone
  <2>3. created \subseteq Scopes /\ rolledBack \subseteq Nested
    OBVIOUS
  <2>4. s # Root => s \in created
    BY <2>2
  <2>. HIDE DEF TypeOK
  <2>q. QED BY <2>1, <2>2, <2>3, <2>4
<1>8. ASSUME NEW s \in Scopes, Undo(s) PROVE Phases'
  <2>1. \E place \in {"undoing", "rejected"} :
          /\ pc'[s] = place /\ \A u \in Scopes : u # s => pc'[u] = pc[u]
          /\ s = Root \/ s \in created <=> place = "undoing"
    BY <1>8, Moved DEF Undo
  <2>2. /\ pc[s] = "failing" /\ UNCHANGED <<active, unsafe, created>>
        /\ rolledBack' = IF s = Root THEN rolledBack ELSE rolledBack \cup {s}
    BY <1>8 DEF Undo, MarkRolledBack
  <2>3. created \subseteq Scopes /\ rolledBack \subseteq Nested
    OBVIOUS
  <2>. HIDE DEF TypeOK
  <2>4. CASE s = Root
    BY <2>1, <2>2, <2>3, <2>4
  <2>5. CASE s # Root /\ s \in created
    BY <2>1, <2>2, <2>3, <2>5
  <2>6. CASE s # Root /\ s \notin created
    BY <2>1, <2>2, <2>3, <2>6
  <2>q. QED BY <2>4, <2>5, <2>6
<1>9. ASSUME NEW s \in Scopes, UndoNested(s) PROVE Phases'
  BY <1>9 DEF UndoNested
<1>10. ASSUME NEW s \in Scopes, OpenThrows(s) PROVE Phases'
  BY <1>10 DEF OpenThrows
<1>11. ASSUME NEW s \in Scopes, WorkReturns(s) \/ WorkThrows(s) PROVE Phases'
  <2>1. \E place \in {"settling", "failing"} :
          /\ pc'[s] = place /\ \A u \in Scopes : u # s => pc'[u] = pc[u]
          /\ active' = IF place = "settling" THEN active ELSE active \ {s}
    BY <1>11, Moved DEF WorkReturns, WorkThrows
  <2>2. /\ pc[s] = "working" /\ UNCHANGED <<rolledBack, unsafe, created>>
    BY <1>11 DEF WorkReturns, WorkThrows
  <2>3. created \subseteq Scopes /\ rolledBack \subseteq Nested
    OBVIOUS
  <2>. HIDE DEF TypeOK
  <2>q. QED BY <2>1, <2>2, <2>3
<1>12. ASSUME NEW s \in Scopes, CloseThrows(s) PROVE Phases'
  BY <1>12 DEF CloseThrows
<1>13. ASSUME NEW s \in Scopes, UndoThrows(s) PROVE Phases'
  <2>1. pc[Root] \in Holding
    BY <1>13, RootHolds DEF UndoThrows, Busy
  <2>q. QED BY <1>13, <2>1 DEF UndoThrows, Holding
<1>14. ASSUME NEW w \in Writes, NEW s \in Scopes, CallWrite(w, s) PROVE Phases'
  BY <1>14 DEF CallWrite
<1>15. ASSUME NEW w \in Writes, ResumeWrite(w) PROVE Phases'
  BY <1>15 DEF ResumeWrite
<1>16. ASSUME NEW k \in Callbacks, NEW s \in Scopes, AfterCommit(k, s) PROVE Phases'
  BY <1>16 DEF AfterCommit
<1>17. CASE Crash
  BY <1>17 DEF Crash
<1>18. CASE Finished
  BY <1>18 DEF Finished, vars
<1>19. ASSUME NEW s \in Scopes, StartNested(s) PROVE Phases'
  <2>1. /\ s \in Nested /\ pc[s] = "queued" /\ pc'[s] \in {"opening", "rejected"}
        /\ \A u \in Scopes : u # s => pc'[u] = pc[u]
        /\ UNCHANGED <<active, rolledBack, unsafe, created>>
    BY <1>19, Started
  <2>3. created \subseteq Scopes /\ rolledBack \subseteq Nested
    OBVIOUS
  <2>. HIDE DEF TypeOK
  <2>q. QED BY <2>1, <2>3
<1>q. QED
  BY <1>1, <1>2, <1>3, <1>4, <1>5, <1>6, <1>7, <1>8, <1>9, <1>10, <1>11, <1>12, <1>13, <1>14, <1>15,
     <1>16, <1>17, <1>18, <1>19 DEF Next, ScopeNext, Advance, WorkEnds

(* A nested transaction that gives up its place frees its parent. *)
LEMMA PlaceGivenUp ==
  ASSUME TypeOK, Tree, Turns, Phases, ChildActive, NEW s \in Nested, pc[s] \in Busy, pc'[s] \notin Busy,
         \A u \in Nested : u # s => pc'[u] = pc[u], parent' = parent, FreeParent(s)
  PROVE  ChildActive'
<1>1. \A u \in Nested : u # s /\ pc[u] \in Busy => parent[u] # parent[s]
  BY OneBusyChild
<1>2. parent[s] \in Scopes
  BY DEF Tree, TypeOK, Busy
<1>q. QED BY <1>1, <1>2 DEF ChildActive, FreeParent

LEMMA ChildActiveStep ==
  ASSUME TypeOK, Tree, Links, Turns, Phases, Held, ChildActive,
         pc[Root] # "dead", pc'[Root] # "dead", Next
  PROVE  ChildActive'
<1>. USE ScopesAssumption
<1>0. ASSUME UNCHANGED <<parent, childActive>>, \A u \in Nested : pc'[u] \in Busy <=> pc[u] \in Busy
      PROVE  ChildActive'
  BY <1>0 DEF ChildActive
<1>1. CASE CallOutermost
  BY <1>0, <1>1 DEF CallOutermost, Goto, scopeVars, TypeOK, Scopes
<1>2. CASE Deliver
  BY <1>0, <1>2 DEF Deliver, Goto, scopeVars, TypeOK, Scopes
<1>3. CASE UndoRoot
  BY <1>0, <1>3 DEF UndoRoot, Goto, scopeVars, TypeOK, Scopes
<1>4. ASSUME NEW s \in Nested, NEW p \in Scopes, CallNested(s, p) PROVE ChildActive'
  <2>1. /\ pc[s] = "idle" /\ pc'[s] = "queued" /\ childActive' = childActive
        /\ \A u \in Nested : u # s => pc'[u] = pc[u] /\ parent'[u] = parent[u]
    <3>1. pc[s] = "idle" /\ childActive' = childActive
      BY <1>4 DEF CallNested
    <3>2. /\ pc'[s] = "queued" /\ \A u \in Scopes : u # s => pc'[u] = pc[u]
          /\ \A u \in Scopes : u # s => parent'[u] = parent[u]
      BY <1>4, Queued
    <3>q. QED BY <3>1, <3>2 DEF Scopes
  <2>2. \A u \in Nested : pc[u] \in Busy \/ pc'[u] \in Busy => u # s
    BY <2>1 DEF Busy
  <2>q. QED BY <2>1, <2>2 DEF ChildActive
<1>5. ASSUME NEW s \in Scopes, Open(s) PROVE ChildActive'
  BY <1>0, <1>5 DEF Open, Goto, TypeOK, Busy
<1>6. ASSUME NEW s \in Scopes, Close(s) PROVE ChildActive'
  BY <1>0, <1>6 DEF Close, Goto, TypeOK, Busy
<1>7. ASSUME NEW s \in Scopes, CloseDone(s) PROVE ChildActive'
  <2>1. CASE s = Root
    BY <1>0, <1>7, <2>1 DEF CloseDone, Goto, TypeOK, Scopes
  <2>2. CASE s # Root
    BY <1>7, <2>2, PlaceGivenUp DEF CloseDone, Goto, TypeOK, Busy, Scopes
  <2>q. QED BY <2>1, <2>2
<1>8. ASSUME NEW s \in Scopes, Undo(s) PROVE ChildActive'
  <2>1. CASE s = Root \/ s \in created
    <3>1. /\ pc[s] = "failing" /\ pc'[s] = "undoing" /\ \A u \in Scopes : u # s => pc'[u] = pc[u]
          /\ UNCHANGED <<parent, childActive>>
      BY <1>8, <2>1, Moved DEF Undo
    <3>q. QED BY <1>0, <3>1 DEF Busy, Scopes
  <2>2. CASE ~ (s = Root \/ s \in created)
    BY <1>8, <2>2, PlaceGivenUp DEF Undo, Goto, TypeOK, Busy, Scopes
  <2>q. QED BY <2>1, <2>2
<1>9. ASSUME NEW s \in Scopes, UndoNested(s) PROVE ChildActive'
  BY <1>9, PlaceGivenUp DEF UndoNested, Goto, TypeOK, Busy, Scopes
<1>10. ASSUME NEW s \in Scopes, OpenThrows(s) PROVE ChildActive'
  BY <1>0, <1>10 DEF OpenThrows, Goto, scopeVars, TypeOK, Busy
<1>11. ASSUME NEW s \in Scopes, WorkReturns(s) \/ WorkThrows(s) PROVE ChildActive'
  <2>1. /\ pc[s] = "working" /\ pc'[s] \in {"settling", "failing"}
        /\ \A u \in Scopes : u # s => pc'[u] = pc[u]
        /\ UNCHANGED <<parent, childActive>>
    BY <1>11, Moved DEF WorkReturns, WorkThrows, scopeVars
  <2>q. QED BY <1>0, <2>1 DEF Busy, Scopes
<1>12. ASSUME NEW s \in Scopes, CloseThrows(s) PROVE ChildActive'
  BY <1>0, <1>12 DEF CloseThrows, Goto, scopeVars, TypeOK, Busy
<1>13. ASSUME NEW s \in Scopes, UndoThrows(s) PROVE ChildActive'
  BY <1>13, PlaceGivenUp DEF UndoThrows, Goto, TypeOK, Busy, Scopes
<1>14. ASSUME NEW w \in Writes, NEW s \in Scopes, CallWrite(w, s) PROVE ChildActive'
  BY <1>0, <1>14 DEF CallWrite, scopeVars
<1>15. ASSUME NEW w \in Writes, ResumeWrite(w) PROVE ChildActive'
  BY <1>0, <1>15 DEF ResumeWrite, scopeVars
<1>16. ASSUME NEW k \in Callbacks, NEW s \in Scopes, AfterCommit(k, s) PROVE ChildActive'
  BY <1>0, <1>16 DEF AfterCommit, scopeVars
<1>17. CASE Crash
  BY <1>17 DEF Crash, Over, Scopes
<1>18. CASE Finished
  BY <1>0, <1>18 DEF Finished, vars, scopeVars
<1>19. ASSUME NEW s \in Scopes, StartNested(s) PROVE ChildActive'
  <2>1. /\ s \in Nested /\ pc[s] = "queued" /\ parent[s] \in Scopes
        /\ parent[s] \in active => pc'[s] = "opening" /\ childActive' = childActive \cup {parent[s]}
        /\ parent[s] \notin active => pc'[s] = "rejected" /\ childActive' = childActive
        /\ \A u \in Nested : u # s => pc'[u] = pc[u]
        /\ parent' = parent
    BY <1>19, Started DEF Scopes
  <2>2. CASE parent[s] \in active
    BY <2>1, <2>2 DEF ChildActive, Busy
  <2>3. CASE parent[s] \notin active
    BY <2>1, <2>3 DEF ChildActive, Busy
  <2>q. QED BY <2>2, <2>3
<1>q. QED
  BY <1>1, <1>2, <1>3, <1>4, <1>5, <1>6, <1>7, <1>8, <1>9, <1>10, <1>11, <1>12, <1>13, <1>14, <1>15,
     <1>16, <1>17, <1>18, <1>19 DEF Next, ScopeNext, Advance, WorkEnds

--------------------
(* The savepoints. *)

(* What a scope in which nothing holds a place knows of the others. *)
LEMMA Innermost ==
  ASSUME TypeOK, Tree, Held, OneLine, NEW s \in Scopes, Alone(s), s = Root \/ pc[s] \in Busy
  PROVE  \A u \in Nested : pc[u] \in Busy => s # Root /\ u \in chain[s]
<1>. SUFFICES ASSUME NEW u \in Nested, pc[u] \in Busy PROVE s # Root /\ u \in chain[s]
  OBVIOUS
<1>1. s \notin Around(u)
  BY DEF Alone
<1>2. Root \in chain[u] /\ Root # u
  BY ScopesAssumption DEF Tree, Busy
<1>3. s # Root
  BY <1>1, <1>2 DEF Around
<1>4. s \in chain[u] \/ u \in chain[s]
  BY <1>3 DEF OneLine, Scopes
<1>5. s \in chain[s]
  BY DEF Tree
<1>q. QED BY <1>1, <1>3, <1>4, <1>5 DEF Around

LEMMA Depths ==
  ASSUME TypeOK, Stack, NEW s \in Nested, HasPlace(s)
  PROVE  /\ Depth(s) \in 1..Len(savepoints)
         /\ savepoints[Depth(s)].scope = s
         /\ Len(savepoints) \in Nat
         /\ savepoints[Depth(s)].saved \subseteq Writes
<1>1. Depth(s) \in 1..Len(savepoints) /\ savepoints[Depth(s)].scope = s
  BY DEF Stack, Depth
<1>. DEFINE Entry == [scope : Scopes, saved : SUBSET Writes]
<1>2. savepoints \in Seq(Entry)
  BY DEF TypeOK
<1>3. Len(savepoints) \in Nat /\ savepoints[Depth(s)] \in Entry
  <2>. HIDE DEF Entry
  <2>q. QED BY <1>1, <1>2
<1>4. savepoints[Depth(s)].saved \subseteq Writes
  BY <1>3
<1>q. QED BY <1>1, <1>3, <1>4

(* The innermost scope with a place has its savepoint on top of those of
   the others; as long as no rollback failed, on top of all. *)
LEMMA OnTop ==
  ASSUME TypeOK, Tree, Held, OneLine, Stack, Saves, NEW s \in Nested, HasPlace(s), Alone(s)
  PROVE  /\ \A i \in 1..Len(savepoints) : HasPlace(savepoints[i].scope) => i <= Depth(s)
         /\ ~unsafe => Depth(s) = Len(savepoints)
         /\ ~unsafe => \A i \in 1..Len(savepoints) : savepoints[i].scope \in chain[s]
<1>1. /\ Depth(s) \in 1..Len(savepoints)
      /\ savepoints[Depth(s)].scope = s
      /\ Len(savepoints) \in Nat
  BY Depths
<1>2. \A u \in Nested : HasPlace(u) => u \in chain[s]
  BY Innermost DEF HasPlace, Scopes
<1>3. \A i \in 1..Len(savepoints) : savepoints[i].scope \in Nested
  BY DEF Stack
<1>4. \A i \in 1..Len(savepoints) : HasPlace(savepoints[i].scope) => i <= Depth(s)
  BY <1>1, <1>2, <1>3 DEF Stack
<1>5. ASSUME ~unsafe PROVE Len(savepoints) <= Depth(s)
  BY <1>1, <1>4, <1>5 DEF Saves
<1>6. ASSUME ~unsafe PROVE \A i \in 1..Len(savepoints) : savepoints[i].scope \in chain[s]
  BY <1>2, <1>3, <1>6 DEF Saves
<1>q. QED BY <1>1, <1>4, <1>5, <1>6

(* In the outermost scope alone no savepoint is left, unless a rollback
   failed. *)
LEMMA NoSavepoint ==
  ASSUME TypeOK, Tree, Held, OneLine, Stack, Saves, Alone(Root), ~unsafe
  PROVE  savepoints = <<>>
<1>1. \A u \in Nested : ~ HasPlace(u)
  BY Innermost DEF HasPlace, Scopes
<1>2. Len(savepoints) = 0
  BY <1>1 DEF Stack, Saves, TypeOK
<1>q. QED BY <1>2 DEF TypeOK

(* Only Open gives a nested transaction a place; its ancestors stay. *)
LEMMA PlacesStep ==
  ASSUME TypeOK, Tree, Phases, pc[Root] # "dead", pc'[Root] # "dead", Next,
         ~ \E s \in Nested : Open(s)
  PROVE  \A u \in Nested : HasPlace(u)' => HasPlace(u) /\ chain'[u] = chain[u]
<1>. USE ScopesAssumption
<1>1. \A u \in Nested : u \in created' => u \in created
  BY DEF Next, ScopeNext, Advance, WorkEnds, CallOutermost, Deliver, UndoRoot, StartNested, Open, Close,
         CloseDone, Undo, UndoNested, OpenThrows, WorkReturns, WorkThrows, CloseThrows, UndoThrows,
         CallNested, CallWrite, ResumeWrite, AfterCommit, Crash, Finished, scopeVars, vars, Scopes
<1>2. CASE \E s \in Scopes : StartNested(s)
  <2>1. PICK s \in Scopes : StartNested(s)
    BY <1>2
  <2>2. s \in Nested /\ pc[s] = "queued" /\ chain' = chain /\ \A u \in Scopes : u # s => pc'[u] = pc[u]
    BY <2>1, Started
  <2>q. QED BY <1>1, <2>2 DEF HasPlace, Phases, Scopes
<1>3. CASE ~ \E s \in Scopes : StartNested(s)
  BY <1>1, <1>3, QuietSteps DEF Quiets, HasPlace
<1>q. QED BY <1>2, <1>3

LEMMA StackKept ==
  ASSUME TypeOK, Stack, NEW n \in 0..Len(savepoints), Len(savepoints') = n,
         \A i \in 1..n : savepoints'[i] = savepoints[i],
         created \subseteq created',
         \A u \in Nested : HasPlace(u)' => HasPlace(u) /\ chain'[u] = chain[u],
         \A i \in 1..Len(savepoints) : \A u \in Nested : HasPlace(u)' /\ savepoints[i].scope = u => i <= n
  PROVE  Stack'
<1>0. Len(savepoints) \in Nat /\ \A i \in 1..n : i \in 1..Len(savepoints)
  BY DEF TypeOK
<1>1. \A i \in 1..Len(savepoints') : savepoints'[i].scope \in Nested \cap created'
  BY <1>0 DEF Stack
<1>2. \A i, j \in 1..Len(savepoints') : i # j => savepoints'[i].scope # savepoints'[j].scope
  BY <1>0 DEF Stack
<1>3. ASSUME NEW u \in Nested, HasPlace(u)' PROVE \E i \in 1..Len(savepoints') : savepoints'[i].scope = u
  <2>1. PICK i \in 1..Len(savepoints) : savepoints[i].scope = u
    BY <1>3 DEF Stack
  <2>2. i \in 1..n
    BY <2>1, <1>0, <1>3
  <2>q. QED BY <2>1, <2>2
<1>4. ASSUME NEW i \in 1..n, NEW j \in 1..n, NEW u \in Nested, NEW v \in Nested,
             savepoints'[i].scope = u, savepoints'[j].scope = v, HasPlace(u)', HasPlace(v)', u \in chain'[v]
      PROVE  i <= j
  <2>1. /\ i \in 1..Len(savepoints) /\ j \in 1..Len(savepoints)
        /\ savepoints[i].scope = u /\ savepoints[j].scope = v
    BY <1>0, <1>4
  <2>2. HasPlace(u) /\ HasPlace(v) /\ u \in chain[v]
    BY <1>4
  <2>q. QED BY <2>1, <2>2 DEF Stack
<1>5. \A i, j \in 1..Len(savepoints') :
        /\ HasPlace(savepoints[i].scope)' /\ HasPlace(savepoints[j].scope)'
        /\ savepoints'[i].scope \in chain'[savepoints'[j].scope]
        => i <= j
  BY <1>4, <1>1 DEF HasPlace
<1>q. QED BY <1>1, <1>2, <1>3, <1>5 DEF Stack

LEMMA CreatedStep ==
  ASSUME TypeOK, Phases, pc[Root] # "dead", pc'[Root] # "dead", Next
  PROVE  created \subseteq created'
<1>1. CASE \E s \in Nested, p \in Scopes : CallNested(s, p)
  BY <1>1 DEF CallNested
<1>q. QED BY <1>1, ForwardSteps DEF Forward

LEMMA CutAt ==
  ASSUME TypeOK, NEW n \in 0..Len(savepoints), savepoints' = SubSeq(savepoints, 1, n)
  PROVE  Len(savepoints') = n /\ \A i \in 1..n : savepoints'[i] = savepoints[i]
<1>. DEFINE Entry == [scope : Scopes, saved : SUBSET Writes]
<1>1. savepoints \in Seq(Entry)
  BY DEF TypeOK
<1>. HIDE DEF Entry
<1>2. Len(savepoints) \in Nat
  BY <1>1
<1>q. QED BY <1>1, <1>2

(* What Open(s) does for a nested transaction. *)
LEMMA Opened ==
  ASSUME TypeOK, NEW s \in Nested, Open(s)
  PROVE  /\ pc[s] = "opening" /\ pc'[s] = "working" /\ \A u \in Scopes : u # s => pc'[u] = pc[u]
         /\ created' = created \cup {s}
         /\ UNCHANGED <<chain, unsafe, written, committed, callScope, call>>
         /\ Len(savepoints) \in Nat
         /\ Len(savepoints') = Len(savepoints) + 1
         /\ savepoints'[Len(savepoints) + 1].scope = s
         /\ savepoints'[Len(savepoints) + 1].saved = written
         /\ \A i \in 1..Len(savepoints) : savepoints'[i] = savepoints[i]
<1>. DEFINE Entry == [scope : Scopes, saved : SUBSET Writes]
            top == [scope |-> s, saved |-> written]
<1>1. /\ s \in Scopes /\ s # Root
  BY ScopesAssumption DEF Scopes
<1>2. /\ pc[s] = "opening" /\ pc'[s] = "working" /\ \A u \in Scopes : u # s => pc'[u] = pc[u]
  BY <1>1, Moved DEF Open
<1>3. /\ created' = created \cup {s}
      /\ UNCHANGED <<chain, unsafe, written, committed, callScope, call>>
      /\ savepoints' = Append(savepoints, top)
  BY <1>1 DEF Open, Savepoint, calls
<1>4. savepoints \in Seq(Entry) /\ top \in Entry
  BY <1>1 DEF TypeOK
<1>5. top.scope = s /\ top.saved = written
  OBVIOUS
<1>. HIDE DEF Entry, top
<1>6. /\ Len(savepoints) \in Nat
      /\ Len(savepoints') = Len(savepoints) + 1
      /\ savepoints'[Len(savepoints) + 1] = top
      /\ \A i \in 1..Len(savepoints) : savepoints'[i] = savepoints[i]
  BY <1>3, <1>4
<1>q. QED BY <1>2, <1>3, <1>5, <1>6

(* The steps that give up the place of a nested transaction. *)
GivesUp(s) == CloseDone(s) \/ UndoNested(s) \/ UndoThrows(s)

LEMMA GivenUp ==
  ASSUME TypeOK, Tree, Links, Turns, Phases, Held, ChildActive, OneLine, Stack, Saves,
         NEW s \in Nested, GivesUp(s)
  PROVE  /\ HasPlace(s) /\ ~ HasPlace(s)' /\ Alone(s)
         /\ \A u \in Scopes : u # s => pc'[u] = pc[u]
         /\ UNCHANGED <<chain, created, call, callScope, committed, callbacks, delivered>>
         /\ \E n \in {Depth(s) - 1, Depth(s), Len(savepoints)} :
              /\ n \in 0..Len(savepoints) /\ n >= Depth(s) - 1
              /\ Len(savepoints') = n /\ \A i \in 1..n : savepoints'[i] = savepoints[i]
              /\ ~unsafe' => n = Depth(s) - 1
<1>1. s \in Scopes /\ s # Root
  BY ScopesAssumption DEF Scopes
<1>2. /\ pc[s] \in {"closing", "undoing"} /\ pc'[s] \in {"resolved", "rejected"}
      /\ \A u \in Scopes : u # s => pc'[u] = pc[u]
  BY <1>1, Moved DEF GivesUp, CloseDone, UndoNested, UndoThrows
<1>3. UNCHANGED <<chain, created, call, callScope, committed, callbacks, delivered>>
  BY <1>1 DEF GivesUp, CloseDone, UndoNested, UndoThrows, ReleaseSavepoint, RollbackToAndRelease, RollbackTo,
              notices, calls, database
<1>4. HasPlace(s) /\ ~ HasPlace(s)'
  BY <1>2 DEF HasPlace, Phases, Busy
<1>5. Alone(s)
  BY <1>2 DEF Held, Alone, Holding
<1>6. Depth(s) \in 1..Len(savepoints) /\ Len(savepoints) \in Nat
  BY <1>4, Depths
<1>7. \/ savepoints' = SubSeq(savepoints, 1, Depth(s) - 1)
      \/ savepoints' = SubSeq(savepoints, 1, Depth(s)) /\ unsafe'
      \/ savepoints' = savepoints /\ unsafe'
  BY <1>1 DEF GivesUp, CloseDone, UndoNested, UndoThrows, ReleaseSavepoint, RollbackToAndRelease, RollbackTo,
              database
<1>8. CASE savepoints' = SubSeq(savepoints, 1, Depth(s) - 1)
  <2>1. Len(savepoints') = Depth(s) - 1 /\ \A i \in 1..(Depth(s) - 1) : savepoints'[i] = savepoints[i]
    BY <1>6, <1>8, CutAt
  <2>2. Depth(s) - 1 \in 0..Len(savepoints) /\ Depth(s) - 1 >= Depth(s) - 1
    BY <1>6
  <2>q. QED BY <1>2, <1>3, <1>4, <1>5, <2>1, <2>2
<1>9. CASE savepoints' = SubSeq(savepoints, 1, Depth(s)) /\ unsafe'
  <2>1. Len(savepoints') = Depth(s) /\ \A i \in 1..Depth(s) : savepoints'[i] = savepoints[i]
    BY <1>6, <1>9, CutAt
  <2>2. Depth(s) \in 0..Len(savepoints) /\ Depth(s) >= Depth(s) - 1
    BY <1>6
  <2>q. QED BY <1>2, <1>3, <1>4, <1>5, <2>1, <2>2, <1>9
<1>10. CASE savepoints' = savepoints /\ unsafe'
  <2>2. Len(savepoints) \in 0..Len(savepoints) /\ Len(savepoints) >= Depth(s) - 1
    BY <1>6
  <2>q. QED BY <1>2, <1>3, <1>4, <1>5, <2>2, <1>10
<1>q. QED BY <1>7, <1>8, <1>9, <1>10

LEMMA StackStep ==
  ASSUME TypeOK, Tree, Links, Turns, Phases, Held, ChildActive, OneLine, Stack, Saves,
         pc[Root] # "dead", pc'[Root] # "dead", Next
  PROVE  Stack'
<1>. USE ScopesAssumption
<1>1. ASSUME NEW s \in Nested, Open(s) PROVE Stack'
  <2>. DEFINE m == Len(savepoints) + 1
  <2>1. /\ pc[s] = "opening" /\ pc'[s] = "working" /\ \A u \in Scopes : u # s => pc'[u] = pc[u]
        /\ created' = created \cup {s}
        /\ chain' = chain
        /\ Len(savepoints) \in Nat /\ Len(savepoints') = m
        /\ savepoints'[m].scope = s
        /\ \A i \in 1..Len(savepoints) : savepoints'[i] = savepoints[i]
    BY <1>1, Opened
  <2>2. s \notin created
    BY <2>1 DEF Phases
  <2>3. \A i \in 1..m : i = m \/ i \in 1..Len(savepoints)
    BY <2>1
  <2>4. \A i \in 1..Len(savepoints) : savepoints'[i].scope \in Nested \cap created /\ savepoints'[i].scope # s
    BY <2>1, <2>2 DEF Stack
  <2>5. \A u \in Nested : u # s => (HasPlace(u)' <=> HasPlace(u))
    BY <2>1 DEF HasPlace, Scopes
  <2>6. \A i \in 1..m : savepoints'[i].scope \in Nested \cap created'
    BY <2>1, <2>3, <2>4
  <2>7. \A i, j \in 1..m : i # j => savepoints'[i].scope # savepoints'[j].scope
    BY <2>1, <2>3, <2>4 DEF Stack
  <2>8. ASSUME NEW u \in Nested, HasPlace(u)' PROVE \E i \in 1..m : savepoints'[i].scope = u
    <3>1. CASE u = s
      BY <2>1, <3>1
    <3>2. CASE u # s
      <4>1. PICK i \in 1..Len(savepoints) : savepoints[i].scope = u
        BY <2>5, <2>8, <3>2 DEF Stack
      <4>2. i \in 1..m /\ savepoints'[i].scope = u
        BY <4>1, <2>1
      <4>q. QED BY <4>2
    <3>q. QED BY <3>1, <3>2
  <2>9. \A u \in Scopes : s \in chain[u] => u = s
    BY <2>2 DEF Links, Around
  <2>10. ASSUME NEW i \in 1..m, NEW j \in 1..m, HasPlace(savepoints[i].scope)', HasPlace(savepoints[j].scope)',
                savepoints'[i].scope \in chain'[savepoints'[j].scope]
         PROVE  i <= j
    <3>1. CASE j = m
      BY <3>1, <2>1
    <3>2. CASE i = m /\ j \in 1..Len(savepoints)
      BY <3>2, <2>10, <2>1, <2>4, <2>9 DEF Scopes
    <3>3. CASE i \in 1..Len(savepoints) /\ j \in 1..Len(savepoints)
      <4>1. HasPlace(savepoints[i].scope) /\ HasPlace(savepoints[j].scope)
        BY <3>3, <2>10, <2>1, <2>4, <2>5
      <4>q. QED BY <4>1, <3>3, <2>10, <2>1 DEF Stack
    <3>q. QED BY <3>1, <3>2, <3>3, <2>3
  <2>q. QED BY <2>1, <2>6, <2>7, <2>8, <2>10 DEF Stack
<1>2. ASSUME NEW s \in Nested, GivesUp(s) PROVE Stack'
  <2>1. PICK n \in 0..Len(savepoints) :
          /\ n >= Depth(s) - 1
          /\ Len(savepoints') = n /\ \A i \in 1..n : savepoints'[i] = savepoints[i]
    BY <1>2, GivenUp
  <2>2. /\ HasPlace(s) /\ ~ HasPlace(s)' /\ Alone(s)
        /\ \A u \in Scopes : u # s => pc'[u] = pc[u]
        /\ UNCHANGED <<chain, created>>
    BY <1>2, GivenUp
  <2>3. /\ Depth(s) \in 1..Len(savepoints) /\ savepoints[Depth(s)].scope = s /\ Len(savepoints) \in Nat
    BY <2>2, Depths
  <2>4. \A i \in 1..Len(savepoints) : HasPlace(savepoints[i].scope) => i <= Depth(s)
    BY <2>2, OnTop
  <2>5. \A u \in Nested : HasPlace(u)' => HasPlace(u) /\ u # s /\ chain'[u] = chain[u]
    BY <2>2 DEF HasPlace, Scopes
  <2>6. ASSUME NEW i \in 1..Len(savepoints), NEW u \in Nested, HasPlace(u)', savepoints[i].scope = u
        PROVE  i <= n
    <3>1. i <= Depth(s) /\ i # Depth(s)
      BY <2>6, <2>5, <2>4, <2>3
    <3>q. QED BY <3>1, <2>1, <2>3
  <2>q. QED BY <2>1, <2>2, <2>5, <2>6, StackKept
<1>3. ASSUME CloseDone(Root) \/ UndoRoot PROVE Stack'
  <2>1. pc[Root] \notin Holding /\ savepoints' = <<>> /\ created' = created /\ chain' = chain
    BY <1>3 DEF CloseDone, UndoRoot, Holding, Commit, Rollback, scopeVars
  <2>2. \A u \in Nested : pc[u] \notin Busy
    BY <2>1, RootHolds
  <2>3. \A u \in Nested : pc'[u] = pc[u]
    BY <1>3 DEF CloseDone, UndoRoot, Goto, TypeOK, Scopes
  <2>4. \A u \in Nested : ~ HasPlace(u)'
    BY <2>2, <2>3 DEF HasPlace
  <2>5. Len(savepoints') = 0 /\ Len(savepoints) \in Nat
    BY <2>1 DEF TypeOK
  <2>q. QED BY <2>1, <2>4, <2>5 DEF Stack
<1>4. ASSUME savepoints' = savepoints, ~ \E s \in Nested : Open(s) PROVE Stack'
  <2>. DEFINE n == Len(savepoints)
  <2>1. \A u \in Nested : HasPlace(u)' => HasPlace(u) /\ chain'[u] = chain[u]
    BY <1>4, PlacesStep
  <2>2. created \subseteq created'
    BY CreatedStep
  <2>3. n \in Nat
    BY DEF TypeOK
  <2>4. n \in 0..Len(savepoints) /\ Len(savepoints') = n /\ \A i \in 1..n : savepoints'[i] = savepoints[i] /\ i <= n
    BY <2>3, <1>4
  <2>. HIDE DEF n
  <2>5. \A i \in 1..Len(savepoints) : \A u \in Nested : HasPlace(u)' /\ savepoints[i].scope = u => i <= n
    BY <2>3 DEF n
  <2>q. QED BY <2>1, <2>2, <2>4, <2>5, StackKept
<1>5. \/ savepoints' = savepoints
      \/ \E s \in Nested : Open(s) \/ GivesUp(s)
      \/ CloseDone(Root) \/ UndoRoot
  BY DEF Next, ScopeNext, Advance, WorkEnds, CallOutermost, Deliver, StartNested, Open, Close,
         Undo, OpenThrows, WorkReturns, WorkThrows, CloseThrows, GivesUp, UndoNested, UndoThrows,
         CallNested, CallWrite, ResumeWrite, AfterCommit, Crash, Finished, vars, database, Scopes
<1>q. QED BY <1>1, <1>2, <1>3, <1>4, <1>5

--------------------
(* The writes. *)

(* Store call w is issued in scope s. *)
Issues(w, s) ==
  /\ s \in active /\ s \notin childActive
  /\ call[w] # "issued" /\ call'[w] = "issued" /\ callScope'[w] = s
  /\ \A x \in Writes : x # w => call'[x] = call[x] /\ callScope'[x] = callScope[x]
  /\ written' = written \cup {w}
  /\ UNCHANGED <<pc, scopeVars, notices, savepoints, committed>>

IssuedKept ==
  \A w \in Writes : /\ call'[w] = "issued" <=> call[w] = "issued"
                    /\ call[w] = "issued" => callScope'[w] = callScope[w]

LEMMA Tried ==
  ASSUME TypeOK, NEW w \in Writes, NEW s \in Scopes, TryWrite(w, s), call[w] # "issued", callScope'[w] = s,
         \A x \in Writes : x # w => callScope'[x] = callScope[x],
         UNCHANGED <<pc, scopeVars, notices, savepoints, committed>>
  PROVE  (IssuedKept /\ written' = written) \/ Issues(w, s)
<1>1. CASE s \notin active
  BY <1>1 DEF TryWrite, TypeOK, IssuedKept
<1>2. CASE s \in active /\ s \in childActive
  BY <1>2 DEF TryWrite, TypeOK, IssuedKept
<1>3. CASE s \in active /\ s \notin childActive
  <2>1. call' = [call EXCEPT ![w] = "issued"] /\ written' = written \cup {w}
    BY <1>3 DEF TryWrite
  <2>2. call'[w] = "issued" /\ \A x \in Writes : x # w => call'[x] = call[x]
    BY <2>1 DEF TypeOK
  <2>q. QED BY <1>3, <2>1, <2>2 DEF Issues
<1>q. QED BY <1>1, <1>2, <1>3

LEMMA CallSteps ==
  ASSUME TypeOK, Phases, Origins, pc[Root] # "dead", pc'[Root] # "dead", Next
  PROVE  IssuedKept \/ \E w \in Writes, s \in Scopes : Issues(w, s)
<1>1. ASSUME NEW w \in Writes, NEW s \in Scopes, CallWrite(w, s)
      PROVE  IssuedKept \/ Issues(w, s)
  <2>1. /\ call[w] # "issued" /\ TryWrite(w, s)
        /\ UNCHANGED <<pc, scopeVars, notices, savepoints, committed>>
    BY <1>1 DEF CallWrite
  <2>2. callScope'[w] = s /\ \A x \in Writes : x # w => callScope'[x] = callScope[x]
    BY <1>1 DEF CallWrite, TypeOK
  <2>q. QED BY <2>1, <2>2, Tried
<1>2. ASSUME NEW w \in Writes, ResumeWrite(w) PROVE IssuedKept \/ \E s \in Scopes : Issues(w, s)
  <2>1. /\ call[w] = "waiting" /\ TryWrite(w, callScope[w]) /\ callScope' = callScope
        /\ UNCHANGED <<pc, scopeVars, notices, savepoints, committed>>
    BY <1>2 DEF ResumeWrite
  <2>2. callScope[w] \in Scopes
    BY <2>1 DEF Origins, TypeOK
  <2>q. QED BY <2>1, <2>2, Tried
<1>3. CASE UNCHANGED <<call, callScope>>
  BY <1>3 DEF IssuedKept
<1>4. \/ UNCHANGED <<call, callScope>>
      \/ \E w \in Writes, s \in Scopes : CallWrite(w, s)
      \/ \E w \in Writes : ResumeWrite(w)
  BY DEF Next, ScopeNext, Advance, WorkEnds, CallOutermost, Deliver, UndoRoot, StartNested, Open, Close,
         CloseDone, Undo, UndoNested, OpenThrows, WorkReturns, WorkThrows, CloseThrows, UndoThrows,
         CallNested, AfterCommit, Crash, Finished, calls, vars
<1>q. QED BY <1>1, <1>2, <1>3, <1>4

LEMMA ChainsKept ==
  ASSUME TypeOK, Phases, pc[Root] # "dead", pc'[Root] # "dead", Next
  PROVE  \A c \in created : chain'[c] = chain[c]
<1>1. ASSUME NEW s \in Nested, NEW p \in Scopes, CallNested(s, p)
      PROVE  \A c \in created : chain'[c] = chain[c]
  <2>1. pc[s] = "idle" /\ \A u \in Scopes : u # s => chain'[u] = chain[u]
    BY <1>1, Queued DEF CallNested
  <2>q. QED BY <2>1 DEF Phases, TypeOK
<1>q. QED BY <1>1, ForwardSteps DEF Forward

(* The scopes around a write that was called were made. *)
LEMMA ChainsAreMade ==
  ASSUME TypeOK, Links, NEW c \in created
  PROVE  chain[c] \subseteq created
BY DEF Links, Around, TypeOK

(* With a savepoint there, and no rollback failed, what is written is in
   force. *)
LEMMA WrittenInForce ==
  ASSUME TypeOK, Tree, Held, Saves, Effects, ~unsafe, savepoints # <<>>
  PROVE  pc[Root] \in Holding /\ written = InForce
<1>1. 1 \in 1..Len(savepoints)
  BY DEF TypeOK
<1>2. HasPlace(savepoints[1].scope)
  BY <1>1 DEF Saves
<1>3. pc[Root] \in Holding
  BY <1>2, RootHolds DEF HasPlace
<1>q. QED BY <1>3 DEF Effects, Holding

LEMMA PlacesKept ==
  ASSUME TypeOK, Tree, Phases, pc[Root] # "dead", pc'[Root] # "dead", Next,
         ~ \E s \in Nested : GivesUp(s)
  PROVE  \A u \in Nested : HasPlace(u) => HasPlace(u)'
<1>. USE ScopesAssumption DEF Scopes
<1>. SUFFICES ASSUME NEW u \in Nested, HasPlace(u) PROVE pc'[u] \in Busy
  BY CreatedStep DEF HasPlace
<1>0. u \in created /\ pc[u] \in Busy /\ u # Root /\ pc[u] \notin {"idle", "queued", "opening"}
  BY DEF HasPlace, Phases
<1>1. ASSUME NEW s \in Scopes, NEW place, Goto(s, place), u = s => place \in Busy
      PROVE  pc'[u] \in Busy
  BY <1>1, <1>0, Moved
<1>2. CASE pc' = pc
  BY <1>0, <1>2
<1>3. CASE CallOutermost \/ Deliver \/ UndoRoot
  BY <1>0, <1>1, <1>3 DEF CallOutermost, Deliver, UndoRoot
<1>4. ASSUME NEW s \in Nested, NEW p \in Scopes, CallNested(s, p) PROVE pc'[u] \in Busy
  BY <1>0, <1>1, <1>4 DEF CallNested
<1>5. ASSUME NEW s \in Scopes, StartNested(s) PROVE pc'[u] \in Busy
  BY <1>0, <1>5, Started
<1>6. ASSUME NEW s \in Scopes, Open(s) \/ WorkReturns(s) \/ WorkThrows(s) \/ CloseThrows(s) PROVE pc'[u] \in Busy
  BY <1>0, <1>1, <1>6 DEF Open, WorkReturns, WorkThrows, CloseThrows, Busy
<1>7. ASSUME NEW s \in Scopes, Close(s) PROVE pc'[u] \in Busy
  <2>1. \E place \in {"failing", "closing"} : Goto(s, place)
    BY <1>7 DEF Close
  <2>q. QED BY <2>1, <1>1 DEF Busy
<1>8. ASSUME NEW s \in Scopes, OpenThrows(s) PROVE pc'[u] \in Busy
  BY <1>0, <1>1, <1>8 DEF OpenThrows
<1>9. ASSUME NEW s \in Scopes, Undo(s) PROVE pc'[u] \in Busy
  <2>1. CASE s = u
    BY <1>0, <1>1, <1>9, <2>1 DEF Undo, Busy
  <2>2. CASE s # u
    BY <1>0, <1>1, <1>9, <2>2 DEF Undo
  <2>q. QED BY <2>1, <2>2
<1>10. ASSUME NEW s \in Scopes, CloseDone(s) \/ UndoNested(s) \/ UndoThrows(s) PROVE pc'[u] \in Busy
  <2>1. s = Root
    BY <1>10 DEF GivesUp
  <2>2. Goto(Root, "ending")
    BY <2>1, <1>10 DEF CloseDone, UndoNested, UndoThrows
  <2>q. QED BY <2>2, <1>0, <1>1
<1>11. ~ Crash
  BY DEF Crash
<1>12. \/ pc' = pc
       \/ CallOutermost \/ Deliver \/ UndoRoot
       \/ \E s \in Scopes : ScopeNext(s)
       \/ \E s \in Nested, p \in Scopes : CallNested(s, p)
  BY <1>11 DEF Next, CallWrite, ResumeWrite, AfterCommit, Finished, vars
<1>q. QED
  BY <1>2, <1>3, <1>4, <1>5, <1>6, <1>7, <1>8, <1>9, <1>10, <1>12 DEF ScopeNext, Advance, WorkEnds

(* What was written outside scope u stays so when the written ones keep
   their scope. *)
LEMMA SavedKept ==
  ASSUME TypeOK, Links, Phases, Origins, pc[Root] # "dead", pc'[Root] # "dead", Next, IssuedKept,
         written = InForce
  PROVE  \A w \in written : w \in Writes /\ callScope'[w] = callScope[w] /\ callScope[w] \in created
                            /\ chain'[callScope'[w]] = chain[callScope[w]]
BY ChainsKept DEF IssuedKept, InForce, Origins

LEMMA IssueStep ==
  ASSUME TypeOK, Tree, Links, Turns, Phases, Held, ChildActive, OneLine, Stack, Saves, Origins, Effects,
         NEW w \in Writes, NEW s \in Scopes, Issues(w, s)
  PROVE  /\ Alone(s) /\ s \in created
         /\ s = Root \/ HasPlace(s)
         /\ pc[Root] \in Holding
         /\ \A t \in chain[s] : pc[t] # "rejected"
<1>. USE ScopesAssumption
<1>1. Alone(s)
  BY FreeMeansAlone DEF Issues
<1>2. pc[s] \in {"working", "settling"}
  BY DEF Issues, Phases
<1>3. CASE s = Root
  <2>1. s \in created
    BY <1>2, <1>3 DEF Issues, Phases, Tree
  <2>q. QED BY <1>1, <1>2, <1>3, <2>1 DEF Tree, Holding
<1>4. CASE s # Root
  <2>1. s \in Nested /\ s \in created /\ HasPlace(s)
    BY <1>2, <1>4 DEF Scopes, Phases, HasPlace, Busy
  <2>2. pc[Root] \in Holding
    BY <2>1, RootHolds DEF HasPlace
  <2>3. \A t \in chain[s] : t = s \/ pc[t] \in Holding
    BY <2>1 DEF Held, HasPlace, Around
  <2>q. QED BY <1>1, <1>2, <2>1, <2>2, <2>3 DEF Holding
<1>q. QED BY <1>3, <1>4

LEMMA SavesStep ==
  ASSUME TypeOK, Tree, Links, Turns, Phases, Held, ChildActive, OneLine, Stack, Saves, Origins, Effects,
         pc[Root] # "dead", pc'[Root] # "dead", Next
  PROVE  Saves'
<1>. USE ScopesAssumption
<1>0. SUFFICES ASSUME ~unsafe' PROVE Saves'
  BY DEF Saves
<1>1. ~unsafe
  BY <1>0 DEF Next, ScopeNext, Advance, WorkEnds, CallOutermost, Deliver, UndoRoot, StartNested, Open, Close,
         CloseDone, Undo, UndoNested, OpenThrows, WorkReturns, WorkThrows, CloseThrows, UndoThrows,
         CallNested, CallWrite, ResumeWrite, AfterCommit, Crash, Finished, scopeVars, vars
<1>2. /\ Len(savepoints) \in Nat
      /\ \A i \in 1..Len(savepoints) :
           /\ HasPlace(savepoints[i].scope) /\ savepoints[i].scope \in Nested
           /\ savepoints[i].saved = {w \in written : savepoints[i].scope \notin chain[callScope[w]]}
  BY <1>1 DEF Saves, Stack, TypeOK
<1>3. savepoints # <<>> => pc[Root] \in Holding /\ written = InForce
  BY <1>1, WrittenInForce
<1>4. ASSUME savepoints # <<>>, IssuedKept
      PROVE  \A w \in written : chain'[callScope'[w]] = chain[callScope[w]]
  BY <1>3, <1>4, SavedKept
<1>5. ASSUME NEW s \in Nested, Open(s) PROVE Saves'
  <2>. DEFINE m == Len(savepoints) + 1
  <2>1. /\ pc[s] = "opening" /\ pc'[s] = "working" /\ \A u \in Scopes : u # s => pc'[u] = pc[u]
        /\ created' = created \cup {s}
        /\ UNCHANGED <<chain, unsafe, written, committed, callScope, call>>
        /\ Len(savepoints) \in Nat /\ Len(savepoints') = m
        /\ savepoints'[m].scope = s /\ savepoints'[m].saved = written
        /\ \A i \in 1..Len(savepoints) : savepoints'[i] = savepoints[i]
    BY <1>5, Opened
  <2>2. s \notin created /\ s \in Scopes
    BY <2>1 DEF Phases, Scopes
  <2>3. \A i \in 1..m : i = m \/ i \in 1..Len(savepoints)
    BY <2>1
  <2>4. pc[Root] \in Holding
    BY <2>1, RootHolds DEF Busy
  <2>5. written = InForce
    BY <2>4, <1>1 DEF Effects, Holding
  <2>6. \A w \in written : s \notin chain[callScope[w]]
    <3>1. \A w \in written : callScope[w] \in created
      BY <2>5 DEF InForce, Origins
    <3>q. QED BY <3>1, <2>2, ChainsAreMade
  <2>7. ASSUME NEW i \in 1..Len(savepoints)
        PROVE  /\ HasPlace(savepoints[i].scope)'
               /\ savepoints'[i].saved = {w \in written' : savepoints'[i].scope \notin chain'[callScope'[w]]}
    <3>1. savepoints'[i] = savepoints[i] /\ savepoints[i].scope # s
      BY <2>1, <2>2, <1>2 DEF HasPlace
    <3>2. HasPlace(savepoints[i].scope)'
      BY <3>1, <2>1, <1>2 DEF HasPlace, Scopes
    <3>q. QED BY <3>1, <3>2, <2>1, <1>2
  <2>8. ASSUME NEW i \in 1..m, i = m
        PROVE  /\ HasPlace(savepoints[i].scope)'
               /\ savepoints'[i].saved = {w \in written' : savepoints'[i].scope \notin chain'[callScope'[w]]}
    <3>1. savepoints'[i].scope = s /\ savepoints'[i].saved = written
      BY <2>1, <2>8
    <3>2. HasPlace(savepoints[i].scope)'
      BY <3>1, <2>1 DEF HasPlace, Busy
    <3>3. {w \in written' : s \notin chain'[callScope'[w]]} = written
      BY <2>1, <2>6
    <3>q. QED BY <3>1, <3>2, <3>3
  <2>q. QED BY <2>1, <2>3, <2>7, <2>8 DEF Saves
<1>6. ASSUME NEW s \in Nested, GivesUp(s) PROVE Saves'
  <2>1. /\ HasPlace(s) /\ ~ HasPlace(s)' /\ Alone(s)
        /\ \A u \in Scopes : u # s => pc'[u] = pc[u]
        /\ UNCHANGED <<chain, created, call, callScope>>
    BY <1>6, GivenUp
  <2>2. PICK n \in 0..Len(savepoints) :
          /\ Len(savepoints') = n /\ \A i \in 1..n : savepoints'[i] = savepoints[i]
          /\ n = Depth(s) - 1
    BY <1>6, <1>0, GivenUp
  <2>3. /\ Depth(s) \in 1..Len(savepoints) /\ savepoints[Depth(s)].scope = s
    BY <2>1, Depths
  <2>4. \A i \in 1..Len(savepoints) : savepoints[i].scope \in chain[s]
    BY <2>1, <1>1, OnTop
  <2>5. savepoints # <<>>
    BY <2>3
  <2>6. \A w \in written : callScope[w] \in created
    BY <2>5, <1>3 DEF InForce, Origins
  <2>7. written' = written \/ written' = {w \in written : s \notin chain[callScope[w]]}
    <3>1. written' = written \/ written' = savepoints[Depth(s)].saved
      BY <1>6, <1>0 DEF GivesUp, CloseDone, UndoNested, UndoThrows, ReleaseSavepoint, RollbackToAndRelease
    <3>q. QED BY <3>1, <2>3, <1>2
  <2>8. ASSUME NEW i \in 1..n
        PROVE  /\ HasPlace(savepoints[i].scope)'
               /\ savepoints'[i].saved = {w \in written' : savepoints'[i].scope \notin chain'[callScope'[w]]}
    <3>1. i \in 1..Len(savepoints) /\ savepoints'[i] = savepoints[i]
      BY <2>2, <1>2
    <3>2. savepoints[i].scope # s
      BY <3>1, <2>2, <2>3 DEF Stack
    <3>3. HasPlace(savepoints[i].scope)'
      BY <3>1, <3>2, <2>1, <1>2 DEF HasPlace, Scopes
    <3>4. \A w \in written : s \in chain[callScope[w]] => savepoints[i].scope \in chain[callScope[w]]
      BY <3>1, <2>4, <2>6 DEF Links, TypeOK
    <3>5. {w \in written' : savepoints[i].scope \notin chain[callScope[w]]}
            = {w \in written : savepoints[i].scope \notin chain[callScope[w]]}
      BY <3>4, <2>7
    <3>q. QED BY <3>1, <3>3, <3>5, <2>1, <1>2
  <2>q. QED BY <2>2, <2>8 DEF Saves
<1>7. ASSUME savepoints' = <<>> PROVE Saves'
  BY <1>7 DEF Saves
<1>8. ASSUME NEW w \in Writes, NEW s \in Scopes, Issues(w, s) PROVE Saves'
  <2>1. Alone(s) /\ s \in created /\ (s = Root \/ HasPlace(s)) /\ pc[Root] \in Holding
    BY <1>8, IssueStep
  <2>2. /\ UNCHANGED <<pc, scopeVars, savepoints>> /\ written' = written \cup {w}
        /\ callScope'[w] = s /\ \A x \in Writes : x # w => callScope'[x] = callScope[x]
        /\ call[w] # "issued"
    BY <1>8 DEF Issues
  <2>3. UNCHANGED <<chain, created>>
    BY <2>2 DEF scopeVars
  <2>4. CASE s = Root
    <3>1. savepoints = <<>>
      BY <2>1, <2>4, <1>1, NoSavepoint
    <3>q. QED BY <3>1, <2>2, <1>7
  <2>5. CASE s # Root
    <3>1. \A i \in 1..Len(savepoints) : savepoints[i].scope \in chain[s]
      BY <2>1, <2>5, <1>1, OnTop DEF HasPlace
    <3>2. written = InForce
      BY <2>1, <1>1 DEF Effects, Holding
    <3>3. w \notin written /\ \A x \in written : x \in Writes
      BY <3>2, <2>2 DEF InForce
    <3>4. ASSUME NEW i \in 1..Len(savepoints)
          PROVE  /\ HasPlace(savepoints[i].scope)'
                 /\ savepoints'[i].saved = {x \in written' : savepoints'[i].scope \notin chain'[callScope'[x]]}
      <4>1. HasPlace(savepoints[i].scope)'
        BY <2>2, <2>3, <1>2 DEF HasPlace
      <4>2. {x \in written' : savepoints[i].scope \notin chain[callScope'[x]]}
              = {x \in written : savepoints[i].scope \notin chain[callScope[x]]}
        BY <2>2, <3>1, <3>3
      <4>q. QED BY <4>1, <4>2, <2>2, <2>3, <1>2
    <3>q. QED BY <3>4, <2>2 DEF Saves
  <2>q. QED BY <2>4, <2>5
<1>9. ASSUME savepoints' = savepoints, written' = written, IssuedKept, ~ \E s \in Nested : GivesUp(s)
      PROVE  Saves'
  <2>1. \A u \in Nested : HasPlace(u) => HasPlace(u)'
    BY <1>9, PlacesKept
  <2>2. ASSUME NEW i \in 1..Len(savepoints)
        PROVE  /\ HasPlace(savepoints[i].scope)'
               /\ savepoints'[i].saved = {x \in written' : savepoints'[i].scope \notin chain'[callScope'[x]]}
    <3>1. HasPlace(savepoints[i].scope)'
      BY <2>1, <1>2, <1>9
    <3>2. \A x \in written : chain'[callScope'[x]] = chain[callScope[x]]
      BY <1>4, <1>9, <1>2
    <3>3. {x \in written : savepoints[i].scope \notin chain'[callScope'[x]]}
            = {x \in written : savepoints[i].scope \notin chain[callScope[x]]}
      BY <3>2
    <3>q. QED BY <3>1, <3>3, <1>2, <1>9
  <2>q. QED BY <2>2, <1>9 DEF Saves
<1>10. \/ savepoints' = savepoints /\ written' = written
       \/ \E s \in Nested : Open(s) \/ GivesUp(s)
       \/ savepoints' = <<>>
       \/ \E w \in Writes, s \in Scopes : CallWrite(w, s)
       \/ \E w \in Writes : ResumeWrite(w)
  BY DEF Next, ScopeNext, Advance, WorkEnds, CallOutermost, Deliver, StartNested, Open, Close, UndoRoot,
         Undo, OpenThrows, WorkReturns, WorkThrows, CloseThrows, GivesUp, CloseDone, UndoNested, UndoThrows,
         CallNested, AfterCommit, Crash, Finished, vars, database, Scopes, Commit, Rollback
<1>11. ASSUME IssuedKept, (\E w \in Writes, s \in Scopes : CallWrite(w, s)) \/ \E w \in Writes : ResumeWrite(w)
       PROVE  savepoints' = savepoints /\ written' = written /\ ~ \E s \in Nested : GivesUp(s)
  <2>1. savepoints' = savepoints /\ pc' = pc
    BY <1>11 DEF CallWrite, ResumeWrite
  <2>2. written' = written
    BY <1>11, CallSteps DEF IssuedKept, CallWrite, ResumeWrite, TryWrite, TypeOK
  <2>3. ~ \E s \in Nested : GivesUp(s)
    BY <2>1, GivenUp DEF HasPlace
  <2>q. QED BY <2>1, <2>2, <2>3
<1>q. QED
  BY <1>5, <1>6, <1>7, <1>8, <1>9, <1>10, <1>11, CallSteps

LEMMA OriginsStep ==
  ASSUME TypeOK, Phases, Origins, pc[Root] # "dead", pc'[Root] # "dead", Next
  PROVE  Origins'
<1>0. created \subseteq created'
  BY CreatedStep
<1>1. ASSUME NEW w \in Writes, NEW s \in Scopes, CallWrite(w, s) PROVE Origins'
  <2>1. s \in created /\ callbacks' = callbacks
    BY <1>1 DEF CallWrite, HasContext, notices
  <2>2. callScope'[w] = s /\ \A x \in Writes : x # w => callScope'[x] = callScope[x]
    BY <1>1 DEF CallWrite, TypeOK
  <2>3. \A x \in Writes : x # w => call'[x] = call[x]
    BY <1>1 DEF CallWrite, TryWrite, TypeOK
  <2>q. QED BY <2>1, <2>2, <2>3, <1>0 DEF Origins
<1>2. ASSUME NEW w \in Writes, ResumeWrite(w) PROVE Origins'
  <2>1. callScope' = callScope /\ callbacks' = callbacks /\ call[w] # "idle"
    BY <1>2 DEF ResumeWrite, notices
  <2>2. \A x \in Writes : x # w => call'[x] = call[x]
    BY <1>2 DEF ResumeWrite, TryWrite, TypeOK
  <2>q. QED BY <2>1, <2>2, <1>0 DEF Origins
<1>3. ASSUME NEW k \in Callbacks, NEW s \in Scopes, AfterCommit(k, s) PROVE Origins'
  BY <1>3, <1>0 DEF AfterCommit, HasContext, Origins, calls
<1>4. ASSUME UNCHANGED <<call, callScope, callbacks>> PROVE Origins'
  BY <1>0, <1>4 DEF Origins
<1>5. \/ UNCHANGED <<call, callScope, callbacks>>
      \/ \E w \in Writes, s \in Scopes : CallWrite(w, s)
      \/ \E w \in Writes : ResumeWrite(w)
      \/ \E k \in Callbacks, s \in Scopes : AfterCommit(k, s)
  BY DEF Next, ScopeNext, Advance, WorkEnds, CallOutermost, Deliver, UndoRoot, StartNested, Open, Close,
         CloseDone, Undo, UndoNested, OpenThrows, WorkReturns, WorkThrows, CloseThrows, UndoThrows,
         CallNested, Crash, Finished, calls, notices, vars
<1>q. QED BY <1>1, <1>2, <1>3, <1>4, <1>5

(* A scope that was made is rejected only once it was undone. *)
LEMMA RejectedKept ==
  ASSUME TypeOK, Tree, Phases, pc[Root] # "dead", pc'[Root] # "dead", Next,
         ~ UndoRoot, ~ \E s \in Nested : UndoNested(s) \/ UndoThrows(s)
  PROVE  \A t \in created : pc'[t] = "rejected" <=> pc[t] = "rejected"
<1>. USE ScopesAssumption
<1>. SUFFICES ASSUME NEW t \in created PROVE pc'[t] = "rejected" <=> pc[t] = "rejected"
  OBVIOUS
<1>0. t \in Scopes /\ pc[t] \notin {"idle", "queued", "opening"}
  BY DEF Phases, TypeOK
<1>1. ASSUME NEW s \in Scopes, NEW place, Goto(s, place), t = s => place # "rejected" /\ pc[s] # "rejected"
      PROVE  pc'[t] = "rejected" <=> pc[t] = "rejected"
  BY <1>1, <1>0, Moved
<1>2. CASE pc' = pc
  BY <1>2
<1>3. CASE CallOutermost \/ Deliver
  BY <1>0, <1>1, <1>3 DEF CallOutermost, Deliver, Scopes
<1>4. ASSUME NEW s \in Nested, NEW p \in Scopes, CallNested(s, p)
      PROVE  pc'[t] = "rejected" <=> pc[t] = "rejected"
  BY <1>0, <1>1, <1>4 DEF CallNested, Scopes
<1>5. ASSUME NEW s \in Scopes, StartNested(s) PROVE pc'[t] = "rejected" <=> pc[t] = "rejected"
  BY <1>0, <1>5, Started
<1>6. ASSUME NEW s \in Scopes, Open(s) \/ WorkReturns(s) \/ WorkThrows(s) \/ CloseThrows(s)
      PROVE  pc'[t] = "rejected" <=> pc[t] = "rejected"
  BY <1>0, <1>1, <1>6 DEF Open, WorkReturns, WorkThrows, CloseThrows
<1>7. ASSUME NEW s \in Scopes, Close(s) PROVE pc'[t] = "rejected" <=> pc[t] = "rejected"
  <2>1. \E place \in {"failing", "closing"} : Goto(s, place) /\ pc[s] = "settling"
    BY <1>7 DEF Close
  <2>q. QED BY <2>1, <1>1
<1>8. ASSUME NEW s \in Scopes, OpenThrows(s) PROVE pc'[t] = "rejected" <=> pc[t] = "rejected"
  BY <1>0, <1>1, <1>8 DEF OpenThrows
<1>9. ASSUME NEW s \in Scopes, Undo(s) PROVE pc'[t] = "rejected" <=> pc[t] = "rejected"
  <2>1. CASE s = Root \/ s \in created
    BY <1>0, <1>1, <1>9, <2>1 DEF Undo
  <2>2. CASE ~ (s = Root \/ s \in created)
    BY <1>0, <1>1, <1>9, <2>2 DEF Undo
  <2>q. QED BY <2>1, <2>2
<1>10. ASSUME NEW s \in Scopes, CloseDone(s) \/ UndoNested(s) \/ UndoThrows(s)
       PROVE  pc'[t] = "rejected" <=> pc[t] = "rejected"
  <2>1. CloseDone(s)
    BY <1>10 DEF Scopes, UndoNested, UndoThrows
  <2>2. \E place \in {"ending", "resolved"} : Goto(s, place) /\ pc[s] = "closing"
    BY <2>1 DEF CloseDone
  <2>q. QED BY <2>2, <1>1
<1>11. ~ Crash
  BY DEF Crash, Scopes
<1>12. \/ pc' = pc
       \/ CallOutermost \/ Deliver
       \/ \E s \in Scopes : ScopeNext(s)
       \/ \E s \in Nested, p \in Scopes : CallNested(s, p)
  BY <1>11 DEF Next, CallWrite, ResumeWrite, AfterCommit, Finished, vars
<1>q. QED
  BY <1>2, <1>3, <1>4, <1>5, <1>6, <1>7, <1>8, <1>9, <1>10, <1>12 DEF ScopeNext, Advance, WorkEnds

LEMMA InForceKept ==
  ASSUME TypeOK, Links, Phases, Origins, pc[Root] # "dead", pc'[Root] # "dead", Next, IssuedKept,
         \A t \in created : pc'[t] = "rejected" <=> pc[t] = "rejected"
  PROVE  InForce' = InForce
<1>1. \A w \in Writes : call[w] = "issued" =>
        /\ callScope[w] \in created /\ callScope'[w] = callScope[w]
        /\ chain'[callScope'[w]] = chain[callScope[w]]
        /\ chain[callScope[w]] \subseteq created
  BY ChainsKept, ChainsAreMade DEF IssuedKept, Origins
<1>q. QED BY <1>1 DEF IssuedKept, InForce

(* Which steps end the outermost transaction. *)
LEMMA RootSteps ==
  ASSUME TypeOK, Phases, pc[Root] # "dead", pc'[Root] # "dead", Next,
         ~ UndoRoot, ~ CloseDone(Root), ~ OpenThrows(Root)
  PROVE  /\ pc'[Root] = "rejected" <=> pc[Root] = "rejected"
         /\ pc'[Root] \in {"ending", "resolved"} <=> pc[Root] \in {"ending", "resolved"}
         /\ ~ Deliver => (pc'[Root] = "resolved" <=> pc[Root] = "resolved")
<1>. USE ScopesAssumption DEF Scopes
<1>1. ASSUME NEW s \in Scopes, NEW place, Goto(s, place),
             s = Root => /\ place \notin {"rejected", "ending", "resolved"}
                         /\ pc[Root] \notin {"rejected", "ending", "resolved"}
      PROVE  /\ pc'[Root] = "rejected" <=> pc[Root] = "rejected"
             /\ pc'[Root] \in {"ending", "resolved"} <=> pc[Root] \in {"ending", "resolved"}
             /\ pc'[Root] = "resolved" <=> pc[Root] = "resolved"
  BY <1>1, Moved
<1>. DEFINE Same == /\ pc'[Root] = "rejected" <=> pc[Root] = "rejected"
                    /\ pc'[Root] \in {"ending", "resolved"} <=> pc[Root] \in {"ending", "resolved"}
                    /\ ~ Deliver => (pc'[Root] = "resolved" <=> pc[Root] = "resolved")
<1>. SUFFICES Same
  OBVIOUS
<1>. HIDE DEF Same
<1>2. CASE pc' = pc
  BY <1>2 DEF Same
<1>3. CASE CallOutermost
  BY <1>1, <1>3 DEF CallOutermost, Same
<1>4. CASE Deliver
  BY <1>4, Moved DEF Deliver, Same
<1>5. ASSUME NEW s \in Nested, NEW p \in Scopes, CallNested(s, p) PROVE Same
  BY <1>1, <1>5 DEF CallNested, Same
<1>6. ASSUME NEW s \in Scopes, StartNested(s) PROVE Same
  <2>1. s # Root
    BY <1>6 DEF StartNested, Phases
  <2>2. \E place \in {"opening", "rejected"} : Goto(s, place)
    BY <1>6 DEF StartNested
  <2>q. QED BY <1>1, <2>1, <2>2 DEF Same
<1>7. ASSUME NEW s \in Scopes, Open(s) \/ WorkReturns(s) \/ WorkThrows(s) \/ CloseThrows(s) PROVE Same
  BY <1>1, <1>7 DEF Open, WorkReturns, WorkThrows, CloseThrows, Same
<1>8. ASSUME NEW s \in Scopes, Close(s) PROVE Same
  <2>1. \E place \in {"failing", "closing"} : Goto(s, place) /\ pc[s] = "settling"
    BY <1>8 DEF Close
  <2>q. QED BY <2>1, <1>1 DEF Same
<1>9. ASSUME NEW s \in Scopes, OpenThrows(s) PROVE Same
  BY <1>1, <1>9 DEF OpenThrows, Same
<1>10. ASSUME NEW s \in Scopes, Undo(s) PROVE Same
  <2>1. CASE s = Root
    BY <1>1, <1>10, <2>1 DEF Undo, Same
  <2>2. CASE s # Root
    BY <1>1, <1>10, <2>2 DEF Undo, Same
  <2>q. QED BY <2>1, <2>2
<1>11. ASSUME NEW s \in Scopes, CloseDone(s) \/ UndoNested(s) \/ UndoThrows(s) PROVE Same
  <2>1. s # Root
    BY <1>11 DEF UndoNested, UndoThrows
  <2>q. QED BY <1>1, <1>11, <2>1 DEF CloseDone, UndoNested, UndoThrows, Same
<1>12. ~ Crash
  BY DEF Crash
<1>13. \/ pc' = pc
       \/ CallOutermost \/ Deliver
       \/ \E s \in Scopes : ScopeNext(s)
       \/ \E s \in Nested, p \in Scopes : CallNested(s, p)
  BY <1>12 DEF Next, CallWrite, ResumeWrite, AfterCommit, Finished, vars
<1>14. ASSUME NEW s \in Scopes, ScopeNext(s) PROVE Same
  BY <1>6, <1>7, <1>8, <1>9, <1>10, <1>11, <1>14 DEF ScopeNext, Advance, WorkEnds
<1>q. QED BY <1>2, <1>3, <1>4, <1>5, <1>13, <1>14

LEMMA EffectsStep ==
  ASSUME TypeOK, Tree, Links, Turns, Phases, Held, ChildActive, OneLine, Stack, Saves, Origins, Effects,
         pc[Root] # "dead", pc'[Root] # "dead", Next
  PROVE  Effects'
<1>. USE ScopesAssumption
<1>1. ASSUME NEW w \in Writes, NEW s \in Scopes, Issues(w, s) PROVE Effects'
  <2>1. /\ s \in created /\ pc[Root] \in Holding /\ \A t \in chain[s] : pc[t] # "rejected"
    BY <1>1, IssueStep
  <2>2. /\ call[w] # "issued" /\ call'[w] = "issued" /\ callScope'[w] = s
        /\ \A x \in Writes : x # w => call'[x] = call[x] /\ callScope'[x] = callScope[x]
        /\ written' = written \cup {w} /\ UNCHANGED <<pc, chain, unsafe, committed>>
    BY <1>1 DEF Issues, scopeVars
  <2>3. InForce' = InForce \cup {w}
    BY <2>1, <2>2 DEF InForce
  <2>q. QED BY <2>1, <2>2, <2>3 DEF Effects, Holding
<1>2. ASSUME UndoRoot \/ OpenThrows(Root) PROVE Effects'
  <2>1. /\ pc[Root] \in {"undoing", "opening"} /\ pc'[Root] = "rejected" /\ committed' = committed
    BY <1>2, Moved DEF UndoRoot, OpenThrows, Rollback, database, Scopes
  <2>q. QED BY <2>1 DEF Effects
<1>3. ASSUME NEW s \in Nested, UndoNested(s) \/ UndoThrows(s) PROVE Effects'
  <2>1. /\ HasPlace(s)
        /\ \A u \in Scopes : u # s => pc'[u] = pc[u]
        /\ UNCHANGED <<chain, call, callScope, committed>>
    BY <1>3, GivenUp DEF GivesUp
  <2>2. pc[Root] \in Holding /\ pc'[Root] = pc[Root]
    BY <2>1, RootHolds DEF HasPlace, Scopes
  <2>3. committed' = {}
    BY <2>1, <2>2 DEF Effects, Holding
  <2>4. CASE UndoThrows(s) \/ unsafe
    <3>1. unsafe'
      BY <1>3, <2>4 DEF UndoNested, UndoThrows
    <3>q. QED BY <3>1, <2>2, <2>3 DEF Effects, Holding
  <2>5. CASE UndoNested(s) /\ ~unsafe
    <3>1. pc[s] # "rejected" /\ pc'[s] = "rejected" /\ written' = savepoints[Depth(s)].saved
      BY <2>5, Moved DEF UndoNested, RollbackToAndRelease, Scopes
    <3>2. Depth(s) \in 1..Len(savepoints) /\ savepoints[Depth(s)].scope = s
      BY <2>1, Depths
    <3>3. written' = {w \in written : s \notin chain[callScope[w]]}
      BY <3>1, <3>2, <2>5 DEF Saves
    <3>4. written = InForce
      BY <2>2, <2>5 DEF Effects, Holding
    <3>5. \A w \in Writes : call[w] = "issued" => chain[callScope[w]] \subseteq Scopes
      BY DEF Origins, TypeOK
    <3>6. InForce' = {w \in InForce : s \notin chain[callScope[w]]}
      BY <3>1, <3>5, <2>1 DEF InForce
    <3>q. QED BY <3>3, <3>4, <3>6, <2>2, <2>3 DEF Effects, Holding
  <2>q. QED BY <1>3, <2>4, <2>5
<1>4. ASSUME InForce' = InForce, CloseDone(Root) PROVE Effects'
  <2>1. pc[Root] = "closing" /\ pc'[Root] = "ending" /\ committed' = written
    BY <1>4, Moved DEF CloseDone, Commit, Scopes
  <2>2. ~unsafe
    BY <2>1 DEF Phases
  <2>q. QED BY <1>4, <2>1, <2>2 DEF Effects
<1>5. ASSUME InForce' = InForce, UNCHANGED <<unsafe, written, committed>>,
             ~ UndoRoot, ~ CloseDone(Root), ~ OpenThrows(Root)
      PROVE  Effects'
  <2>1. /\ pc'[Root] = "rejected" <=> pc[Root] = "rejected"
        /\ pc'[Root] \in {"ending", "resolved"} <=> pc[Root] \in {"ending", "resolved"}
    BY <1>5, RootSteps
  <2>q. QED BY <1>5, <2>1 DEF Effects
<1>6. ASSUME IssuedKept, ~ UndoRoot, ~ \E s \in Nested : UndoNested(s) \/ UndoThrows(s)
      PROVE  InForce' = InForce
  BY <1>6, RejectedKept, InForceKept
<1>7. \/ UNCHANGED <<unsafe, written, committed>>
      \/ \E s \in Nested : UndoNested(s) \/ UndoThrows(s)
      \/ CloseDone(Root) \/ UndoRoot
      \/ \E w \in Writes, s \in Scopes : CallWrite(w, s)
      \/ \E w \in Writes : ResumeWrite(w)
  <2>1. ASSUME NEW s \in Scopes, Advance(s), ~ (s \in Nested /\ UndoNested(s)), ~ (s = Root /\ CloseDone(s))
        PROVE  UNCHANGED <<unsafe, written, committed>>
    BY <2>1 DEF Advance, StartNested, Open, Close, CloseDone, Undo, UndoNested, database, Savepoint,
                ReleaseSavepoint, Scopes
  <2>2. ASSUME NEW s \in Scopes, ScopeNext(s), ~ Advance(s), ~ (s \in Nested /\ UndoThrows(s))
        PROVE  UNCHANGED <<unsafe, written, committed>>
    BY <2>2 DEF ScopeNext, WorkEnds, OpenThrows, WorkReturns, WorkThrows, CloseThrows, UndoThrows, scopeVars,
                database, Scopes
  <2>3. ASSUME CallOutermost \/ Deliver \/ (\E s \in Nested, p \in Scopes : CallNested(s, p))
               \/ (\E k \in Callbacks, s \in Scopes : AfterCommit(k, s)) \/ Finished
        PROVE  UNCHANGED <<unsafe, written, committed>>
    BY <2>3 DEF CallOutermost, Deliver, CallNested, AfterCommit, Finished, vars, scopeVars, database
  <2>4. ~ Crash
    BY DEF Crash, Scopes
  <2>q. QED BY <2>1, <2>2, <2>3, <2>4 DEF Next
<1>8. ASSUME IssuedKept, (\E w \in Writes, s \in Scopes : CallWrite(w, s)) \/ \E w \in Writes : ResumeWrite(w)
      PROVE  UNCHANGED <<unsafe, written, committed>>
  BY <1>8, CallSteps DEF IssuedKept, CallWrite, ResumeWrite, TryWrite, TypeOK, scopeVars
<1>q. QED
  BY <1>1, <1>2, <1>3, <1>4, <1>5, <1>6, <1>7, <1>8, CallSteps

LEMMA NotifiedStep ==
  ASSUME TypeOK, Tree, Links, Turns, Phases, Held, ChildActive, Origins, Notified,
         pc[Root] # "dead", pc'[Root] # "dead", Next
  PROVE  Notified'
<1>. USE ScopesAssumption
<1>1. CASE Deliver
  <2>1. /\ pc[Root] = "ending" /\ pc'[Root] = "resolved" /\ \A u \in Scopes : u # Root => pc'[u] = pc[u]
        /\ delivered' = {entry \in callbacks : chain[entry.scope] \cap rolledBack = {}}
        /\ UNCHANGED <<chain, callbacks>>
    BY <1>1, Moved DEF Deliver, Scopes, RolledBackChain, scopeVars
  <2>2. \A u \in Nested : pc[u] \notin Busy
    BY <2>1, RootHolds DEF Holding
  <2>3. \A t \in created : t \in rolledBack <=> pc'[t] = "rejected"
    BY <2>1, <2>2 DEF Phases, TypeOK, Scopes, Busy
  <2>4. \A entry \in callbacks : chain[entry.scope] \subseteq created
    BY ChainsAreMade DEF Origins
  <2>5. \A entry \in callbacks :
          entry \in delivered' <=> \A t \in chain[entry.scope] : pc'[t] # "rejected"
    BY <2>1, <2>3, <2>4
  <2>q. QED BY <2>1, <2>5 DEF Notified
<1>2. CASE ~ Deliver /\ pc[Root] = "resolved"
  <2>1. pc'[Root] = "resolved"
    BY <1>2, ForwardSteps, Queued DEF Forward, Over, Scopes
  <2>2. \A u \in Nested : pc[u] \notin Busy
    BY <1>2, RootHolds DEF Holding
  <2>3. active = {}
    BY <1>2, <2>2 DEF Phases, TypeOK, Scopes, Busy
  <2>4. UNCHANGED <<callbacks, delivered>>
    BY <1>2, <2>3 DEF Next, ScopeNext, Advance, WorkEnds, CallOutermost, UndoRoot, StartNested, Open, Close,
         CloseDone, Undo, UndoNested, OpenThrows, WorkReturns, WorkThrows, CloseThrows, UndoThrows,
         CallNested, CallWrite, ResumeWrite, AfterCommit, Crash, Finished, notices, vars
  <2>5. ~ UndoRoot /\ ~ \E s \in Nested : UndoNested(s) \/ UndoThrows(s)
    BY <1>2, <2>2 DEF UndoRoot, UndoNested, UndoThrows, Busy
  <2>6. \A t \in created : pc'[t] = "rejected" <=> pc[t] = "rejected"
    BY <2>5, RejectedKept
  <2>7. \A entry \in callbacks : chain'[entry.scope] = chain[entry.scope] /\ chain[entry.scope] \subseteq created
    BY ChainsKept, ChainsAreMade DEF Origins
  <2>q. QED BY <1>2, <2>1, <2>4, <2>6, <2>7 DEF Notified
<1>3. CASE ~ Deliver /\ pc[Root] # "resolved"
  <2>1. pc'[Root] # "resolved"
    <3>1. CASE UndoRoot \/ CloseDone(Root) \/ OpenThrows(Root)
      BY <3>1, Moved DEF UndoRoot, CloseDone, OpenThrows, Scopes
    <3>2. CASE ~ (UndoRoot \/ CloseDone(Root) \/ OpenThrows(Root))
      BY <1>3, <3>2, RootSteps
    <3>q. QED BY <3>1, <3>2
  <2>2. delivered' = delivered
    BY <1>3 DEF Next, ScopeNext, Advance, WorkEnds, CallOutermost, UndoRoot, StartNested, Open, Close,
         CloseDone, Undo, UndoNested, OpenThrows, WorkReturns, WorkThrows, CloseThrows, UndoThrows,
         CallNested, CallWrite, ResumeWrite, AfterCommit, Crash, Finished, notices, vars
  <2>q. QED BY <2>1, <2>2, <1>3 DEF Notified
<1>q. QED BY <1>1, <1>2, <1>3

--------------------
(* The death of the process. *)

LEMMA DeadStays ==
  ASSUME TypeOK, Ended, pc[Root] = "dead", Next
  PROVE  UNCHANGED vars
<1>. USE ScopesAssumption
<1>1. \A s \in Scopes : pc[s] \in {"resolved", "rejected", "dead", "idle"}
  BY DEF Ended, Over
<1>2. /\ ~ CallOutermost /\ ~ Deliver /\ ~ UndoRoot /\ ~ Crash
      /\ \A s \in Nested, p \in Scopes : ~ CallNested(s, p)
      /\ \A w \in Writes, s \in Scopes : ~ CallWrite(w, s)
      /\ \A w \in Writes : ~ ResumeWrite(w)
      /\ \A k \in Callbacks, s \in Scopes : ~ AfterCommit(k, s)
  BY DEF CallOutermost, Deliver, UndoRoot, Crash, CallNested, CallWrite, ResumeWrite, AfterCommit, HasContext, Over
<1>3. \A s \in Scopes : ~ ScopeNext(s)
  BY <1>1 DEF ScopeNext, Advance, WorkEnds, StartNested, Open, Close, CloseDone, Undo, UndoNested, OpenThrows,
              WorkReturns, WorkThrows, CloseThrows, UndoThrows
<1>q. QED BY <1>2, <1>3 DEF Next, Finished

LEMMA CrashStep ==
  ASSUME TypeOK, Phases, Notified, pc[Root] # "dead", pc'[Root] = "dead", Next
  PROVE  Crash /\ Ended'
<1>. USE ScopesAssumption DEF Scopes
<1>1. Crash
  <2>. DEFINE Lives == pc'[Root] # "dead"
  <2>1. ASSUME NEW s \in Scopes, NEW place, Goto(s, place), place # "dead" PROVE Lives
    BY <2>1, Moved
  <2>. HIDE DEF Lives
  <2>2. ASSUME pc' = pc PROVE Lives
    BY <2>2 DEF Lives
  <2>3. ASSUME NEW s \in Scopes, ScopeNext(s) PROVE Lives
    <3>1. \E place \in {"opening", "rejected", "working", "failing", "closing", "ending", "resolved", "undoing",
                        "settling"} : Goto(s, place)
      BY <2>3 DEF ScopeNext, Advance, WorkEnds, StartNested, Open, Close, CloseDone, Undo, UndoNested, OpenThrows,
                  WorkReturns, WorkThrows, CloseThrows, UndoThrows
    <3>q. QED BY <3>1, <2>1
  <2>4. ASSUME CallOutermost \/ Deliver \/ UndoRoot PROVE Lives
    BY <2>4, <2>1 DEF CallOutermost, Deliver, UndoRoot
  <2>5. ASSUME NEW s \in Nested, NEW p \in Scopes, CallNested(s, p) PROVE Lives
    BY <2>5, <2>1 DEF CallNested
  <2>6. ~ Lives
    BY DEF Lives
  <2>q. QED BY <2>2, <2>3, <2>4, <2>5, <2>6 DEF Next, CallWrite, ResumeWrite, AfterCommit, Finished, vars
<1>2. \A s \in Scopes : pc'[s] \in Over \cup {"idle"}
  BY <1>1 DEF Crash, Over
<1>3. delivered' = {}
  BY <1>1 DEF Crash, Notified, notices, Over
<1>q. QED BY <1>1, <1>2, <1>3 DEF Ended

--------------------
(* Types. *)

Places == {"idle", "queued", "opening", "working", "settling", "closing", "ending", "failing", "undoing",
           "resolved", "rejected", "dead"}

LEMMA PlaceKept ==
  ASSUME TypeOK, NEW s \in Scopes, NEW place \in Places, Goto(s, place)
  PROVE  pc' \in [Scopes -> Places]
<1>1. pc \in [Scopes -> Places]
  BY DEF TypeOK, Places, Over
<1>. HIDE DEF Places
<1>q. QED BY <1>1 DEF Goto

(* The types of the parts of the state that steps change together. *)
ScopesTyped == /\ parent \in [Scopes -> Scopes \cup {None}]
               /\ chain \in [Scopes -> SUBSET Scopes]
               /\ queue \in [Scopes -> Seq(Nested)]
               /\ active \subseteq Scopes /\ childActive \subseteq Scopes
               /\ rolledBack \subseteq Nested /\ created \subseteq Scopes
               /\ unsafe \in BOOLEAN

NoticesTyped == callbacks \subseteq Entries /\ delivered \subseteq Entries

CallsTyped == /\ call \in [Writes -> {"idle", "waiting", "issued", "refused"}]
              /\ callScope \in [Writes -> Scopes \cup {None}]
              /\ awaited \in [Writes -> Nat]

DatabaseTyped == /\ written \subseteq Writes /\ committed \subseteq Writes
                 /\ savepoints \in Seq([scope : Scopes, saved : SUBSET Writes])

LEMMA TypesAre ==
  TypeOK <=> pc \in [Scopes -> Places] /\ ScopesTyped /\ NoticesTyped /\ CallsTyped /\ DatabaseTyped
<1>1. Places = {"idle", "queued", "opening", "working", "settling", "closing",
                "ending", "failing", "undoing"} \cup Over
  BY DEF Places, Over
<1>q. QED BY <1>1 DEF TypeOK, ScopesTyped, NoticesTyped, CallsTyped, DatabaseTyped

LEMMA ScopesTypedStep ==
  ASSUME TypeOK, Phases, Tree, pc[Root] # "dead", Next
  PROVE  ScopesTyped'
<1>. USE ScopesAssumption
<1>0. ScopesTyped
  BY TypesAre
<1>1. ASSUME UNCHANGED scopeVars PROVE ScopesTyped'
  BY <1>0, <1>1 DEF scopeVars, ScopesTyped
<1>2. ASSUME NEW s \in Nested, NEW p \in Scopes, CallNested(s, p) PROVE ScopesTyped'
  <2>1. /\ parent' = [parent EXCEPT ![s] = p]
        /\ chain' = [chain EXCEPT ![s] = chain[p] \cup {s}]
        /\ queue' = [queue EXCEPT ![p] = Append(@, s)]
        /\ UNCHANGED <<active, childActive, rolledBack, unsafe, created>>
    BY <1>2 DEF CallNested
  <2>2. parent' \in [Scopes -> Scopes \cup {None}]
    BY <1>0, <2>1 DEF ScopesTyped
  <2>3. chain' \in [Scopes -> SUBSET Scopes]
    <3>1. chain[p] \cup {s} \in SUBSET Scopes
      BY <1>0 DEF ScopesTyped, Scopes
    <3>q. QED BY <1>0, <2>1, <3>1 DEF ScopesTyped
  <2>4. queue' \in [Scopes -> Seq(Nested)]
    <3>1. Append(queue[p], s) \in Seq(Nested)
      BY <1>0 DEF ScopesTyped
    <3>q. QED BY <1>0, <2>1, <3>1 DEF ScopesTyped
  <2>q. QED BY <1>0, <2>1, <2>2, <2>3, <2>4 DEF ScopesTyped
<1>3. ASSUME UNCHANGED <<parent, chain, queue>>, active' \subseteq Scopes, childActive' \subseteq Scopes,
             rolledBack' \subseteq Nested, created' \subseteq Scopes, unsafe' \in BOOLEAN
      PROVE  ScopesTyped'
  BY <1>0, <1>3 DEF ScopesTyped
<1>4. ASSUME NEW s \in Scopes, ScopeNext(s) PROVE ScopesTyped'
  <2>1. /\ UNCHANGED <<parent, chain, queue>>
        /\ active' \in {active, active \cup {s}, active \ {s}}
        /\ created' \in {created, created \cup {s}}
        /\ unsafe' \in {unsafe, TRUE}
    BY <1>4 DEF ScopeNext, Advance, WorkEnds, StartNested, Open, Close, CloseDone, Undo, UndoNested, OpenThrows,
                WorkReturns, WorkThrows, CloseThrows, UndoThrows, scopeVars
  <2>2. rolledBack' = rolledBack \/ (s \in Nested /\ rolledBack' = rolledBack \cup {s})
    BY <1>4 DEF ScopeNext, Advance, WorkEnds, StartNested, Open, Close, CloseDone, Undo, UndoNested, OpenThrows,
                WorkReturns, WorkThrows, CloseThrows, UndoThrows, scopeVars, MarkRolledBack, Scopes
  <2>3. childActive' \subseteq Scopes
    <3>1. CASE StartNested(s)
      BY <3>1, <1>0, Started DEF ScopesTyped, calls, notices, database
    <3>2. CASE ~ StartNested(s)
      <4>1. childActive' \in {childActive, childActive \ {parent[s]}}
        BY <1>4, <3>2 DEF ScopeNext, Advance, WorkEnds, Open, Close, CloseDone, Undo, UndoNested, OpenThrows,
                WorkReturns, WorkThrows, CloseThrows, UndoThrows, scopeVars, FreeParent
      <4>q. QED BY <4>1, <1>0 DEF ScopesTyped
    <3>q. QED BY <3>1, <3>2
  <2>q. QED BY <1>0, <1>3, <2>1, <2>2, <2>3 DEF ScopesTyped
<1>5. \/ UNCHANGED scopeVars
      \/ \E s \in Scopes : ScopeNext(s)
      \/ \E s \in Nested, p \in Scopes : CallNested(s, p)
  BY DEF Next, CallOutermost, Deliver, UndoRoot, CallWrite, ResumeWrite, AfterCommit, Crash, Finished, vars
<1>q. QED BY <1>1, <1>2, <1>4, <1>5

LEMMA CallsTypedStep ==
  ASSUME TypeOK, Phases, Origins, pc[Root] # "dead", Next
  PROVE  CallsTyped' /\ NoticesTyped'
<1>. USE ScopesAssumption
<1>0. CallsTyped /\ NoticesTyped
  BY TypesAre
<1>1. ASSUME UNCHANGED calls PROVE CallsTyped'
  BY <1>0, <1>1 DEF calls, CallsTyped
<1>2. ASSUME UNCHANGED notices PROVE NoticesTyped'
  BY <1>0, <1>2 DEF notices, NoticesTyped, Entries
<1>3. ASSUME NEW w \in Writes, NEW s \in Scopes, TryWrite(w, s),
             callScope' = callScope \/ callScope' = [callScope EXCEPT ![w] = s]
      PROVE  CallsTyped'
  <2>1. Len(queue[s]) \in Nat
    BY DEF TypeOK
  <2>2. callScope' \in [Writes -> Scopes \cup {None}]
    BY <1>0, <1>3 DEF CallsTyped
  <2>3. call' \in [Writes -> {"idle", "waiting", "issued", "refused"}]
    BY <1>0, <1>3 DEF CallsTyped, TryWrite
  <2>4. awaited' \in [Writes -> Nat]
    BY <1>0, <1>3, <2>1 DEF CallsTyped, TryWrite
  <2>q. QED BY <2>2, <2>3, <2>4 DEF CallsTyped
<1>4. ASSUME NEW w \in Writes, NEW s \in Scopes, CallWrite(w, s) PROVE CallsTyped' /\ NoticesTyped'
  BY <1>2, <1>3, <1>4 DEF CallWrite
<1>5. ASSUME NEW w \in Writes, ResumeWrite(w) PROVE CallsTyped' /\ NoticesTyped'
  <2>1. callScope[w] \in Scopes
    BY <1>5 DEF ResumeWrite, Origins, TypeOK
  <2>q. QED BY <1>2, <1>3, <1>5, <2>1 DEF ResumeWrite
<1>6. ASSUME NEW k \in Callbacks, NEW s \in Scopes, AfterCommit(k, s) PROVE CallsTyped' /\ NoticesTyped'
  BY <1>0, <1>1, <1>6 DEF AfterCommit, NoticesTyped, Entries
<1>7. ASSUME Deliver PROVE CallsTyped' /\ NoticesTyped'
  BY <1>0, <1>1, <1>7 DEF Deliver, NoticesTyped, Entries
<1>8. \/ UNCHANGED <<calls, notices>>
      \/ \E w \in Writes, s \in Scopes : CallWrite(w, s)
      \/ \E w \in Writes : ResumeWrite(w)
      \/ \E k \in Callbacks, s \in Scopes : AfterCommit(k, s)
      \/ Deliver
  BY DEF Next, ScopeNext, Advance, WorkEnds, CallOutermost, UndoRoot, StartNested, Open, Close,
         CloseDone, Undo, UndoNested, OpenThrows, WorkReturns, WorkThrows, CloseThrows, UndoThrows,
         CallNested, Crash, Finished, vars
<1>q. QED BY <1>1, <1>2, <1>4, <1>5, <1>6, <1>7, <1>8

LEMMA DatabaseTypedStep ==
  ASSUME TypeOK, Tree, Phases, Stack, pc[Root] # "dead", Next
  PROVE  DatabaseTyped'
<1>. USE ScopesAssumption
<1>. DEFINE Entry == [scope : Scopes, saved : SUBSET Writes]
<1>0. written \subseteq Writes /\ committed \subseteq Writes /\ savepoints \in Seq(Entry)
  BY DEF TypeOK
<1>. SUFFICES written' \subseteq Writes /\ committed' \subseteq Writes /\ savepoints' \in Seq(Entry)
  BY DEF DatabaseTyped
<1>1. ASSUME NEW s \in Nested, Open(s) PROVE written' \subseteq Writes /\ committed' \subseteq Writes /\ savepoints' \in Seq(Entry)
  <2>. DEFINE top == [scope |-> s, saved |-> written]
  <2>1. top \in Entry
    BY <1>0 DEF Scopes
  <2>2. savepoints' = Append(savepoints, top) /\ UNCHANGED <<written, committed>>
    BY <1>1 DEF Open, Savepoint
  <2>. HIDE DEF top, Entry
  <2>q. QED BY <2>1, <2>2, <1>0
<1>2. ASSUME NEW s \in Nested, GivesUp(s) PROVE written' \subseteq Writes /\ committed' \subseteq Writes /\ savepoints' \in Seq(Entry)
  <2>1. HasPlace(s)
    BY <1>2 DEF GivesUp, CloseDone, UndoNested, UndoThrows, HasPlace, Busy, Phases
  <2>2. /\ Depth(s) \in 1..Len(savepoints) /\ Len(savepoints) \in Nat
        /\ savepoints[Depth(s)].saved \subseteq Writes
    BY <2>1, Depths
  <2>3. /\ committed' = committed
        /\ written' = written \/ written' = savepoints[Depth(s)].saved
        /\ \/ savepoints' = savepoints
           \/ savepoints' = SubSeq(savepoints, 1, Depth(s))
           \/ savepoints' = SubSeq(savepoints, 1, Depth(s) - 1)
    BY <1>2 DEF GivesUp, CloseDone, UndoNested, UndoThrows, ReleaseSavepoint, RollbackToAndRelease, RollbackTo,
                database
  <2>. HIDE DEF Entry
  <2>4. \A n \in 0..Len(savepoints) : SubSeq(savepoints, 1, n) \in Seq(Entry)
    BY <1>0, <2>2
  <2>5. Depth(s) \in 0..Len(savepoints) /\ Depth(s) - 1 \in 0..Len(savepoints)
    BY <2>2
  <2>6. savepoints' \in Seq(Entry)
    BY <1>0, <2>3, <2>4, <2>5
  <2>q. QED BY <1>0, <2>2, <2>3, <2>6
<1>3. ASSUME savepoints' = savepoints \/ savepoints' = <<>>, written' \subseteq Writes,
             committed' \in {committed, written}
      PROVE  written' \subseteq Writes /\ committed' \subseteq Writes /\ savepoints' \in Seq(Entry)
  <2>. HIDE DEF Entry
  <2>1. <<>> \in Seq(Entry)
    OBVIOUS
  <2>q. QED BY <1>0, <1>3, <2>1
<1>4. \/ \E s \in Nested : Open(s) \/ GivesUp(s)
      \/ /\ savepoints' = savepoints \/ savepoints' = <<>>
         /\ written' \subseteq Writes
         /\ committed' \in {committed, written}
  <2>. HIDE DEF Entry
  <2>1. ASSUME NEW s \in Scopes, Advance(s), ~ \E n \in Nested : Open(n) \/ GivesUp(n)
        PROVE  /\ savepoints' = savepoints \/ savepoints' = <<>>
               /\ written' \subseteq Writes
               /\ committed' \in {committed, written}
    BY <2>1, <1>0 DEF Advance, StartNested, Open, Close, CloseDone, Undo, UndoNested, database, Commit, Scopes,
                      GivesUp
  <2>2. ASSUME NEW s \in Scopes, ScopeNext(s), ~ Advance(s), ~ \E n \in Nested : GivesUp(n)
        PROVE  UNCHANGED database
    BY <2>2 DEF ScopeNext, WorkEnds, OpenThrows, WorkReturns, WorkThrows, CloseThrows, UndoThrows, Scopes, GivesUp
  <2>3. ASSUME CallOutermost \/ Deliver \/ (\E s \in Nested, p \in Scopes : CallNested(s, p))
               \/ (\E k \in Callbacks, s \in Scopes : AfterCommit(k, s)) \/ Finished
        PROVE  UNCHANGED database
    BY <2>3 DEF CallOutermost, Deliver, CallNested, AfterCommit, Finished, vars
  <2>4. ASSUME Crash \/ UndoRoot
        PROVE  savepoints' = <<>> /\ written' = {} /\ committed' = committed
    BY <2>4 DEF Crash, UndoRoot, Rollback
  <2>5. ASSUME (\E w \in Writes, s \in Scopes : CallWrite(w, s)) \/ \E w \in Writes : ResumeWrite(w)
        PROVE  savepoints' = savepoints /\ written' \subseteq Writes /\ committed' = committed
    BY <2>5, <1>0 DEF CallWrite, ResumeWrite, TryWrite
  <2>q. QED BY <2>1, <2>2, <2>3, <2>4, <2>5, <1>0 DEF Next, database
<1>q. QED BY <1>1, <1>2, <1>3, <1>4

LEMMA TypeStep ==
  ASSUME TypeOK, Tree, Phases, Stack, Origins, pc[Root] # "dead", Next
  PROVE  TypeOK'
<1>. USE ScopesAssumption
<1>1. pc' \in [Scopes -> Places]
  <2>0. pc \in [Scopes -> Places]
    BY TypesAre
  <2>1. ASSUME NEW s \in Scopes, ScopeNext(s) PROVE pc' \in [Scopes -> Places]
    <3>1. \E place \in {"opening", "rejected", "working", "failing", "closing", "ending", "resolved", "undoing",
                        "settling"} : Goto(s, place)
      BY <2>1 DEF ScopeNext, Advance, WorkEnds, StartNested, Open, Close, CloseDone, Undo, UndoNested, OpenThrows,
                  WorkReturns, WorkThrows, CloseThrows, UndoThrows
    <3>2. \E place \in Places : Goto(s, place)
      BY <3>1 DEF Places
    <3>q. QED BY <3>2, PlaceKept
  <2>2. ASSUME CallOutermost \/ Deliver \/ UndoRoot PROVE pc' \in [Scopes -> Places]
    BY <2>2, PlaceKept DEF CallOutermost, Deliver, UndoRoot, Places, Scopes
  <2>3. ASSUME NEW s \in Nested, NEW p \in Scopes, CallNested(s, p) PROVE pc' \in [Scopes -> Places]
    BY <2>3, PlaceKept DEF CallNested, Places, Scopes
  <2>4. ASSUME Crash PROVE pc' \in [Scopes -> Places]
    BY <2>4, <2>0 DEF Crash, Places
  <2>q. QED BY <2>0, <2>1, <2>2, <2>3, <2>4 DEF Next, CallWrite, ResumeWrite, AfterCommit, Finished, vars
<1>2. ScopesTyped' /\ CallsTyped' /\ NoticesTyped' /\ DatabaseTyped'
  BY ScopesTypedStep, CallsTypedStep, DatabaseTypedStep
<1>q. QED
  BY <1>1, <1>2 DEF TypeOK, Places, Over, ScopesTyped, NoticesTyped, CallsTyped, DatabaseTyped

--------------------
(* The invariant holds, and what follows from it. *)

LEMMA Initially ==
  ASSUME Init
  PROVE  TypeOK /\ Inv
<1>. USE ScopesAssumption
<1>1. TypeOK
  <2>1. pc \in [Scopes -> Places]
    BY DEF Init, Places
  <2>2. ScopesTyped
    <3>1. <<>> \in Seq(Nested)
      OBVIOUS
    <3>2. queue \in [Scopes -> Seq(Nested)]
      BY <3>1 DEF Init
    <3>3. chain \in [Scopes -> SUBSET Scopes]
      BY DEF Init
    <3>q. QED BY <3>2, <3>3 DEF Init, ScopesTyped
  <2>3. NoticesTyped /\ CallsTyped
    BY DEF Init, NoticesTyped, CallsTyped, Entries
  <2>4. DatabaseTyped
    <3>. DEFINE Entry == [scope : Scopes, saved : SUBSET Writes]
    <3>1. savepoints \in Seq(Entry)
      <4>. HIDE DEF Entry
      <4>q. QED BY DEF Init
    <3>q. QED BY <3>1 DEF Init, DatabaseTyped
  <2>q. QED BY <2>1, <2>2, <2>3, <2>4, TypesAre
<1>2. Tree /\ Links /\ Phases /\ Held
  BY DEF Init, Tree, Links, Phases, Held, Around, Scopes, Busy
<1>3. Turns /\ ChildActive /\ OneLine
  BY DEF Init, Turns, ChildActive, OneLine, Busy, Scopes
<1>4. Stack /\ Saves /\ Origins /\ Notified
  BY DEF Init, Stack, Saves, Origins, Notified, HasPlace, Busy, Scopes
<1>5. Effects
  BY DEF Init, Effects, InForce, Scopes
<1>q. QED BY <1>1, <1>2, <1>3, <1>4, <1>5 DEF Init, Inv, Alive, Scopes

LEMMA InductiveStep ==
  ASSUME TypeOK, Inv, [Next]_vars
  PROVE  TypeOK' /\ Inv'
<1>1. CASE UNCHANGED vars
  <2>. USE <1>1 DEF vars, scopeVars, notices, calls, database
  <2>1. TypeOK'
    BY DEF TypeOK
  <2>2. Ended <=> Ended'
    BY DEF Ended
  <2>3. Alive => Tree' /\ Links' /\ Turns' /\ Phases'
    BY DEF Alive, Tree, Links, Turns, Phases, Around
  <2>4. Alive => Held' /\ ChildActive' /\ OneLine'
    BY DEF Alive, Held, ChildActive, OneLine, Around
  <2>5. Alive => Stack' /\ Saves'
    BY DEF Alive, Stack, Saves, HasPlace
  <2>6. Alive => Origins' /\ Effects' /\ Notified'
    BY DEF Alive, Origins, Effects, Notified, InForce
  <2>q. QED BY <2>1, <2>2, <2>3, <2>4, <2>5, <2>6 DEF Inv, Alive
<1>2. CASE Next /\ pc[Root] = "dead"
  BY <1>1, <1>2, DeadStays DEF Inv
<1>3. CASE Next /\ pc[Root] # "dead" /\ pc'[Root] = "dead"
  <2>1. Alive
    BY <1>3 DEF Inv
  <2>2. TypeOK'
    BY <1>3, <2>1, TypeStep DEF Alive
  <2>3. Ended'
    BY <1>3, <2>1, CrashStep DEF Alive
  <2>q. QED BY <1>3, <2>2, <2>3 DEF Inv
<1>4. CASE Next /\ pc[Root] # "dead" /\ pc'[Root] # "dead"
  <2>1. Alive
    BY <1>4 DEF Inv
  <2>2. TypeOK'
    BY <1>4, <2>1, TypeStep DEF Alive
  <2>3. Tree' /\ Links' /\ Turns' /\ Phases' /\ Held' /\ OneLine' /\ ChildActive'
    BY <1>4, <2>1, TreeStep, TurnsStep, PhasesStep, LineStep, ChildActiveStep DEF Alive
  <2>4. Stack' /\ Saves' /\ Origins' /\ Effects' /\ Notified'
    BY <1>4, <2>1, StackStep, SavesStep, OriginsStep, EffectsStep, NotifiedStep DEF Alive
  <2>q. QED BY <1>4, <2>2, <2>3, <2>4 DEF Inv, Alive
<1>q. QED BY <1>1, <1>2, <1>3, <1>4

(* The invariant above holds, however the outermost transaction ends. *)
THEOREM InvHolds == Spec => [](TypeOK /\ Inv)
<1>1. Init => TypeOK /\ Inv
  BY Initially
<1>2. TypeOK /\ Inv /\ [Next]_vars => (TypeOK /\ Inv)'
  BY InductiveStep
<1>q. QED BY <1>1, <1>2, PTL DEF Spec

(* The scopes, the calls and the connection keep their types. *)
THEOREM TypeCorrect == Spec => []TypeOK
BY InvHolds, PTL

(* Once the outermost transaction is committed, every scope that was made
   is resolved or was rejected. *)
LEMMA MadeOnesAreOver ==
  ASSUME TypeOK, Alive, pc[Root] \in {"ending", "resolved"}, NEW c \in created
  PROVE  /\ chain[c] \subseteq created
         /\ \A t \in chain[c] : Resolved(t) <=> pc[t] # "rejected"
<1>. USE ScopesAssumption
<1>1. chain[c] \subseteq created /\ created \subseteq Scopes
  BY ChainsAreMade DEF Alive, TypeOK
<1>2. \A u \in Nested : pc[u] \notin Busy
  BY RootHolds DEF Alive, Holding
<1>3. \A t \in created : t = Root \/ pc[t] \in {"resolved", "rejected"}
  <2>. SUFFICES ASSUME NEW t \in created, t # Root PROVE pc[t] \in {"resolved", "rejected"}
    OBVIOUS
  <2>1. t \in Nested
    BY <1>1 DEF Scopes
  <2>2. pc[t] \in Places /\ pc[t] \notin {"idle", "queued", "opening", "dead", "ending"}
    BY <1>1, <2>1, TypesAre DEF Alive, Phases
  <2>q. QED BY <1>2, <2>1, <2>2 DEF Places, Busy
<1>q. QED BY <1>1, <1>3 DEF Resolved

(* A connection is committed or given up only once nothing nested in its
   transaction can issue a statement. *)
THEOREM NothingRunsAfterTheEndHolds == Spec => []NothingRunsAfterTheEnd
<1>1. TypeOK /\ Inv => NothingRunsAfterTheEnd
  <2>. SUFFICES ASSUME TypeOK, Inv, pc[Root] \in {"closing", "undoing", "ending", "resolved", "rejected"},
                       NEW s \in Nested
                PROVE  pc[s] \in Over \cup {"idle", "queued"}
    BY DEF NothingRunsAfterTheEnd
  <2>1. Alive
    BY DEF Inv
  <2>2. pc[s] \notin Busy
    BY <2>1, RootHolds DEF Alive, Holding
  <2>3. pc[s] \in Places /\ pc[s] # "ending"
    BY <2>1, TypesAre DEF Alive, Phases, Scopes
  <2>q. QED BY <2>2, <2>3 DEF Places, Busy, Over
<1>q. QED BY <1>1, InvHolds, PTL

(* What is durable is exactly what was issued in scopes that resolve, to
   any depth, whichever statements fail and whatever is left un-awaited. *)
THEOREM AllOrNothingHolds == Spec => []AllOrNothing
<1>. USE ScopesAssumption
<1>1. TypeOK /\ Inv => AllOrNothing
  <2>. SUFFICES ASSUME TypeOK, Inv, pc[Root] # "dead", NEW w \in Writes
                PROVE  w \in committed <=> (call[w] = "issued" /\ Resolved(Root) /\ Kept(callScope[w]))
    BY DEF AllOrNothing
  <2>1. Alive
    BY DEF Inv
  <2>2. Resolved(Root) <=> pc[Root] \in {"ending", "resolved"}
    BY DEF Resolved
  <2>3. CASE pc[Root] \notin {"ending", "resolved"}
    BY <2>1, <2>2, <2>3 DEF Alive, Effects
  <2>4. CASE pc[Root] \in {"ending", "resolved"}
    <3>1. committed = InForce
      BY <2>1, <2>4 DEF Alive, Effects
    <3>2. call[w] = "issued" => callScope[w] \in created
      BY <2>1 DEF Alive, Origins
    <3>3. call[w] = "issued" => (Kept(callScope[w]) <=> \A t \in chain[callScope[w]] : pc[t] # "rejected")
      BY <2>1, <2>4, <3>2, MadeOnesAreOver DEF Kept
    <3>q. QED BY <2>2, <2>4, <3>1, <3>3 DEF InForce
  <2>q. QED BY <2>3, <2>4
<1>q. QED BY <1>1, InvHolds, PTL

(* A callback runs exactly if what its scope wrote is durable. *)
THEOREM NotifiedIffDurableHolds == Spec => []NotifiedIffDurable
<1>1. TypeOK /\ Inv => NotifiedIffDurable
  <2>. SUFFICES ASSUME TypeOK, Inv PROVE NotifiedIffDurable
    OBVIOUS
  <2>1. CASE pc[Root] = "dead"
    BY <2>1 DEF Inv, Ended, NotifiedIffDurable
  <2>2. CASE pc[Root] # "dead" /\ pc[Root] # "resolved"
    BY <2>2 DEF Inv, Alive, Notified, NotifiedIffDurable
  <2>3. CASE pc[Root] = "resolved"
    <3>1. Alive
      BY <2>3 DEF Inv
    <3>2. ASSUME NEW entry \in callbacks PROVE entry \in delivered <=> Kept(entry.scope)
      <4>1. entry.scope \in created
        BY <3>1 DEF Alive, Origins
      <4>2. Kept(entry.scope) <=> \A t \in chain[entry.scope] : pc[t] # "rejected"
        BY <2>3, <3>1, <4>1, MadeOnesAreOver DEF Kept
      <4>q. QED BY <4>2, <2>3, <3>1 DEF Alive, Notified
    <3>q. QED BY <3>2, <2>3 DEF NotifiedIffDurable
  <2>q. QED BY <2>1, <2>2, <2>3
<1>q. QED BY <1>1, InvHolds, PTL

(* No statement of one scope lands in the savepoint of another. *)
THEOREM InOwnSavepointHolds == Spec => InOwnSavepoint
<1>. USE ScopesAssumption
<1>. DEFINE Own(w) == IF callScope'[w] = Root
                      THEN savepoints = <<>>
                      ELSE /\ savepoints # <<>>
                           /\ savepoints[Len(savepoints)].scope = callScope'[w]
            Step == \A w \in Writes : call[w] # "issued" /\ call'[w] = "issued" /\ ~unsafe => Own(w)
<1>1. TypeOK /\ Inv /\ (TypeOK /\ Inv)' /\ [Next]_vars => [Step]_vars
  <2>. SUFFICES ASSUME TypeOK, Inv, Next, NEW w \in Writes, call[w] # "issued", call'[w] = "issued", ~unsafe
                PROVE  Own(w)
    BY DEF calls, vars
  <2>1. pc[Root] # "dead"
    BY DeadStays DEF Inv, vars, calls
  <2>2. pc'[Root] # "dead"
    BY <2>1, CrashStep DEF Inv, Alive, Crash, calls
  <2>3. Alive
    BY <2>1 DEF Inv
  <2>4. PICK s \in Scopes : Issues(w, s)
    <3>1. PICK x \in Writes, s \in Scopes : Issues(x, s)
      BY <2>1, <2>2, <2>3, CallSteps DEF Alive, IssuedKept
    <3>2. x = w
      BY <3>1 DEF Issues
    <3>q. QED BY <3>1, <3>2
  <2>5. Alone(s) /\ (s = Root \/ HasPlace(s)) /\ callScope'[w] = s
    BY <2>3, <2>4, IssueStep DEF Alive, Issues
  <2>6. CASE s = Root
    BY <2>3, <2>5, <2>6, NoSavepoint DEF Alive
  <2>7. CASE s # Root
    <3>1. s \in Nested /\ HasPlace(s)
      BY <2>5, <2>7 DEF Scopes
    <3>2. Depth(s) = Len(savepoints)
      BY <2>3, <2>5, <3>1, OnTop DEF Alive
    <3>3. Depth(s) \in 1..Len(savepoints) /\ savepoints[Depth(s)].scope = s
      BY <2>3, <3>1, Depths DEF Alive
    <3>q. QED BY <2>5, <2>7, <3>2, <3>3
  <2>q. QED BY <2>6, <2>7
<1>2. InOwnSavepoint <=> [][Step]_vars
  BY DEF InOwnSavepoint
<1>q. QED BY <1>1, <1>2, InvHolds, PTL DEF Spec

===============================================================================
