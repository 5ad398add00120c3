----------------------------- MODULE MemoryStore -----------------------------
(***************************************************************************)
(* The reference store (packages/store/src/backends/memory.ts) beside the  *)
(* SQLite adapter: one program makes the same calls of both, one after the *)
(* other, and the checks of a request (atomic.ts) are theirs in common.    *)
(*                                                                         *)
(* Targets are numbered in the order of compareTargets. A request carries  *)
(* its conditions and operations as the caller listed them, and a size for *)
(* its outcome and its key; the digest of what is checked stands for       *)
(* itself. Every value here was written by this release, so the branches   *)
(* that give an older value its version are not taken.                     *)
(***************************************************************************)
EXTENDS Integers, Sequences, FiniteSets, SequencesExt, TLC

CONSTANTS
  Setups,      \* [requests, touches, contents, calls, retention, back, ends]: touches are the
               \* targets of other calls; bounds: how many calls, and when the clock ends
  Targets,     \* in order: [kind, parts], parts being sequences of characters
  Keys,        \* idempotency keys
  Limits,      \* [operations, conditions, bytes, outcome]
  PruneBatch,  \* RECEIPT_PRUNE_BATCH
  Missing      \* no value, key, outcome, retention or receipt

VARIABLES
  setup,
  clock,   \* options.now() of both
  memory,  \* [values, versions, minted, receipts]: versions by target key
  sqlite,  \* [values, versions, minted, receipts]
  window,  \* per key: the request applied under it, while its receipt cannot have expired
  issued,  \* tokens given out, and what they stood for
  calls,
  last     \* the last call: what was asked, what was there and what was answered

storeVars == <<setup, clock, memory, sqlite, window, issued, calls, last>>

Numbers == DOMAIN Targets

None == [status |-> "none"]

--------------------
(* Names of targets *)

(* A part and its length, below ten here. *)
Part(s) == <<ToString(Len(s)), ":">> \o s

TargetKey(t) ==
  LET parts == Targets[t].parts
  IN  IF Targets[t].kind = "key" THEN <<"k", ":">> \o Part(parts[1])
      ELSE <<"r", ":">> \o Part(parts[1]) \o <<":">> \o Part(parts[2])

TargetKeys == {TargetKey(t) : t \in Numbers}

Init ==
  /\ setup \in Setups /\ clock = 0
  /\ memory = [values |-> [t \in Numbers |-> Missing], versions |-> [k \in TargetKeys |-> 0],
               minted |-> 0, receipts |-> <<>>]
  /\ sqlite = [values |-> [t \in Numbers |-> Missing], versions |-> [t \in Numbers |-> 0],
               minted |-> 0, receipts |-> {}]
  /\ window = [k \in Keys |-> Missing] /\ issued = {} /\ calls = 0 /\ last = None

--------------------
(* The checks of a request *)

UnknownCondition(r) == \E i \in DOMAIN r.conditions : r.conditions[i].is \notin {"missing", "present", "version"}

UnknownOperation(r) == \E i \in DOMAIN r.operations : r.operations[i].is \notin {"write", "remove"}

Repeated(items) == \E i, j \in DOMAIN items : i < j /\ items[i].target = items[j].target

OutcomeSize(r) == IF r.outcome = Missing THEN 0 ELSE r.outcome

(* The key is not part of the digest, but counts. *)
Size(r) == Len(r.conditions) + Len(r.operations) + OutcomeSize(r) + (IF r.key = Missing THEN 0 ELSE 1)

(* In the order of validateAtomicRequest: what fails, and how. *)
Checks(r) ==
  << <<r.operations = <<>>, "invalid-request">>,
     <<Len(r.operations) > Limits.operations, "operation-limit-exceeded">>,
     <<Len(r.conditions) > Limits.conditions, "condition-limit-exceeded">>,
     <<UnknownCondition(r), "invalid-request">>,
     <<Repeated(r.conditions), "invalid-request">>,
     <<UnknownOperation(r), "unsupported-operation">>,
     <<Repeated(r.operations), "invalid-request">>,
     <<OutcomeSize(r) > Limits.outcome, "outcome-size-exceeded">>,
     <<Size(r) > Limits.bytes, "request-size-exceeded">> >>

Rejected(r) == \E i \in DOMAIN Checks(r) : Checks(r)[i][1]

RejectionCode(r) == Checks(r)[Min({i \in DOMAIN Checks(r) : Checks(r)[i][1]})][2]

SortedConditions(r) == SortSeq(r.conditions, LAMBDA a, b : a.target < b.target)

Digest(r) == [conditions |-> SortedConditions(r), operations |-> r.operations, outcome |-> r.outcome]

--------------------
(* Values and versions *)

MemoryVersion(M, t) == M.versions[TargetKey(t)]

MemorySet(M, t, v) ==
  [M EXCEPT !.values[t] = v, !.versions[TargetKey(t)] = M.minted + 1, !.minted = @ + 1]

MemoryDelete(M, t) ==
  IF M.values[t] = Missing THEN M ELSE [M EXCEPT !.values[t] = Missing, !.versions[TargetKey(t)] = 0]

SqliteSet(S, t, v) == [S EXCEPT !.values[t] = v, !.versions[t] = S.minted + 1, !.minted = @ + 1]

SqliteClear(S, t) == [S EXCEPT !.values[t] = Missing, !.versions[t] = 0]

MemoryObserved(M, t) == IF M.values[t] = Missing THEN 0 ELSE MemoryVersion(M, t)

SqliteObserved(S, t) == IF S.values[t] = Missing THEN 0 ELSE S.versions[t]

(* A version observed is 0 when there is no value. *)
Matches(c, observed) ==
  CASE c.is = "missing" -> observed = 0
    [] c.is = "present" -> observed # 0
    [] c.is = "version" -> observed # 0 /\ observed = c.version

Conflict(c, observed) ==
  [status |-> "conflict", condition |-> c,
   observed |-> IF observed = 0 THEN "missing" ELSE IF c.is = "version" THEN "version" ELSE "present",
   version |-> IF c.is = "version" THEN observed ELSE 0]

Told(t, version) == [target |-> t, version |-> version]

MemoryPerform(done, o) ==
  LET after == IF o.is = "write" THEN MemorySet(done.store, o.target, o.content)
               ELSE MemoryDelete(done.store, o.target)
      version == IF o.is = "write" THEN MemoryVersion(after, o.target) ELSE 0
  IN  [store |-> after, told |-> Append(done.told, Told(o.target, version))]

SqlitePerform(done, o) ==
  LET after == IF o.is = "write" THEN SqliteSet(done.store, o.target, o.content)
               ELSE SqliteClear(done.store, o.target)
      version == IF o.is = "write" THEN after.versions[o.target] ELSE 0
  IN  [store |-> after, told |-> Append(done.told, Told(o.target, version))]

--------------------
(* Receipts *)

Expired(row) == setup.retention # Missing /\ clock - row.at > setup.retention

(* In memory the scan stops at the first live receipt. *)
MemoryPruned(q) ==
  LET stops == {n \in 0 .. Len(q) : \A i \in 1 .. n : i <= PruneBatch /\ Expired(q[i])}
  IN  SubSeq(q, 1 + (CHOOSE n \in stops : \A m \in stops : m <= n), Len(q))

(* SQLite deletes the oldest of the expired ones, in any order of equals. *)
SqlitePrunings(rows) ==
  LET old == {row \in rows : Expired(row)}
  IN  {rows \ D : D \in {E \in SUBSET old :
        /\ Cardinality(E) = IF Cardinality(old) < PruneBatch THEN Cardinality(old) ELSE PruneBatch
        /\ \A d \in E, o \in old \ E : d.at <= o.at}}

(* The live receipts under a key. *)
Receipts(rows, k) == {row \in rows : row.key = k /\ ~ Expired(row)}

Receipt(r, told) == [key |-> r.key, digest |-> Digest(r), told |-> told, outcome |-> r.outcome, at |-> clock]

(* An expired receipt under the key goes, and the new one comes last. *)
MemoryRecorded(q, row) == Append(SelectSeq(q, LAMBDA old : old.key # row.key), row)

SqliteRecorded(rows, row) == {old \in rows : old.key # row.key} \cup {row}

--------------------
(* A request, as each decides it: [store, answer] *)

Replay(r, prior) ==
  IF prior.digest # Digest(r) THEN [status |-> "idempotency-conflict", expected |-> prior.digest, received |-> Digest(r)]
  ELSE [status |-> "replayed", told |-> prior.told, outcome |-> prior.outcome]

Applied(r, told) == [status |-> "applied", told |-> told, outcome |-> r.outcome]

MemoryDecides(M, r) ==
  LET pruned == IF r.key = Missing THEN M ELSE [M EXCEPT !.receipts = MemoryPruned(@)]
      prior == Receipts(ToSet(pruned.receipts), r.key)
      conditions == SortedConditions(r)
      failing == {i \in DOMAIN conditions : ~ Matches(conditions[i], MemoryObserved(pruned, conditions[i].target))}
      done == FoldLeft(MemoryPerform, [store |-> pruned, told |-> <<>>], r.operations)
      row == Receipt(r, done.told)
  IN  IF prior # {} THEN [store |-> pruned, answer |-> Replay(r, CHOOSE p \in prior : TRUE)]
      ELSE IF failing # {}
      THEN [store |-> pruned,
            answer |-> Conflict(conditions[Min(failing)], MemoryObserved(pruned, conditions[Min(failing)].target))]
      ELSE [store |-> IF r.key = Missing THEN done.store
                      ELSE [done.store EXCEPT !.receipts = MemoryRecorded(@, row)],
            answer |-> Applied(r, done.told)]

SqliteDecides(S, r) ==
  LET prior == Receipts(S.receipts, r.key)
      conditions == SortedConditions(r)
      failing == {i \in DOMAIN conditions : ~ Matches(conditions[i], SqliteObserved(S, conditions[i].target))}
      done == FoldLeft(SqlitePerform, [store |-> S, told |-> <<>>], r.operations)
      row == Receipt(r, done.told)
  IN  IF prior # {} THEN [store |-> S, answer |-> Replay(r, CHOOSE p \in prior : TRUE)]
      ELSE IF failing # {}
      THEN [store |-> S, answer |-> Conflict(conditions[Min(failing)], SqliteObserved(S, conditions[Min(failing)].target))]
      ELSE [store |-> IF r.key = Missing THEN done.store
                      ELSE [done.store EXCEPT !.receipts = SqliteRecorded(@, row)],
            answer |-> Applied(r, done.told)]

--------------------
(* Calls *)

Stores == {"memory", "sqlite"}

(* What is stored, and how many tokens were minted. *)
Standing ==
  "memory" :> [values |-> memory.values, versions |-> [t \in Numbers |-> MemoryVersion(memory, t)], minted |-> memory.minted]
  @@ "sqlite" :> [values |-> sqlite.values, versions |-> sqlite.versions, minted |-> sqlite.minted]

Tokens(b) ==
  {[store |-> b, token |-> Standing[b].versions[t], target |-> t, content |-> Standing[b].values[t]] :
     t \in {u \in Numbers : Standing[b].versions[u] # 0}}

(* What a call leaves behind: the tokens it gave out, and its answers. *)
Answer(name, about, m, s) ==
  /\ calls < setup.calls /\ calls' = calls + 1
  /\ last' = [status |-> name, about |-> about, before |-> Standing, window |-> window,
              answers |-> ("memory" :> m @@ "sqlite" :> s)]
  /\ issued' = issued \cup Tokens("memory")' \cup Tokens("sqlite")'
  /\ UNCHANGED <<setup, clock>>

(* What a call found: a deletion answers whether there was anything. *)
Found(value, version) == [status |-> "found", value |-> value, version |-> version]

Set(t, v) ==
  /\ memory' = MemorySet(memory, t, v) /\ sqlite' = SqliteSet(sqlite, t, v)
  /\ Answer("set", {t}, None, None) /\ UNCHANGED window

Delete(t) ==
  /\ memory' = MemoryDelete(memory, t)
  /\ sqlite' = IF sqlite.values[t] = Missing THEN sqlite ELSE SqliteClear(sqlite, t)
  /\ Answer("delete", {t}, Found(memory.values[t], 0), Found(sqlite.values[t], 0)) /\ UNCHANGED window

GetVersioned(t) ==
  /\ UNCHANGED <<memory, sqlite, window>>
  /\ Answer("get", {t}, Found(memory.values[t], MemoryObserved(memory, t)),
            Found(sqlite.values[t], SqliteObserved(sqlite, t)))

Reject(r) ==
  /\ r \in setup.requests /\ Rejected(r)
  /\ UNCHANGED <<memory, sqlite, window>>
  /\ LET answer == [status |-> "rejected", code |-> RejectionCode(r)] IN Answer("mutate", r, answer, answer)

MutateAtomically(r) ==
  /\ r \in setup.requests /\ ~ Rejected(r)
  /\ \E rows \in IF r.key = Missing THEN {sqlite.receipts} ELSE SqlitePrunings(sqlite.receipts) :
       LET m == MemoryDecides(memory, r)
           s == SqliteDecides([sqlite EXCEPT !.receipts = rows], r)
       IN  /\ memory' = m.store /\ sqlite' = s.store
           /\ Answer("mutate", r, m.answer, s.answer)
           /\ window' = IF r.key # Missing /\ m.answer.status = "applied" /\ s.answer.status = "applied"
                        THEN [window EXCEPT ![r.key] = [request |-> r, told |-> m.answer.told, at |-> clock]]
                        ELSE window

PruneExpiredReceipts ==
  /\ memory' = [memory EXCEPT !.receipts = SelectSeq(@, LAMBDA row : ~ Expired(row))]
  /\ sqlite' = [sqlite EXCEPT !.receipts = {row \in @ : ~ Expired(row)}]
  /\ Answer("prune", {}, None, None)
  /\ UNCHANGED window

(* The clock may be set back. *)
Tick ==
  /\ clock' \in (IF setup.back THEN {clock - 1, clock + 1} ELSE {clock + 1}) \cap (0 .. setup.ends)
  /\ window' = [k \in Keys |-> IF window[k] # Missing /\ setup.retention # Missing /\ clock' - window[k].at > setup.retention
                               THEN Missing ELSE window[k]]
  /\ last' = None /\ UNCHANGED <<setup, memory, sqlite, issued, calls>>

Next ==
  \/ \E t \in setup.touches, v \in setup.contents : Set(t, v)
  \/ \E t \in setup.touches : Delete(t) \/ GetVersioned(t)
  \/ \E r \in setup.requests : Reject(r) \/ MutateAtomically(r)
  \/ PruneExpiredReceipts
  \/ Tick

Spec == Init /\ [][Next]_storeVars

--------------------
(* Properties *)

(* Every answer is to a call, tokens are minted in order, and SQLite holds
   one receipt per key. *)
TypeOK ==
  /\ clock \in 0 .. setup.ends /\ calls \in 0 .. setup.calls
  /\ \A t \in Numbers : MemoryVersion(memory, t) \in 0 .. memory.minted /\ sqlite.versions[t] \in 0 .. sqlite.minted
  /\ \A a, b \in sqlite.receipts : a.key = b.key => a = b
  /\ \A i, j \in DOMAIN memory.receipts : memory.receipts[i].key = memory.receipts[j].key => i = j
  /\ \A k \in Keys : window[k] # Missing => window[k].request \in setup.requests

(* A token stands for one content of one target, in either store: over
   deletions, conflicts and replays. *)
TokensStandForOneValue ==
  \A a, b \in issued : a.store = b.store /\ a.token = b.token => a = b

IsMutation == last.status = "mutate" /\ ~ Rejected(last.about)

Answers == {last.answers[b] : b \in Stores}

Within(k) == k # Missing /\ last.window[k] # Missing

(* The same mutation: the order of conditions does not matter, that of the
   operations does. *)
Same(q, r) ==
  ToSet(q.conditions) = ToSet(r.conditions) /\ q.operations = r.operations /\ q.outcome = r.outcome

(* Under a key whose receipt cannot have expired, nothing is applied: the
   same mutation is answered with the versions and the outcome it was
   answered with before, another one is refused. *)
AppliedOncePerWindow ==
  IsMutation /\ Within(last.about.key) =>
    LET first == last.window[last.about.key]
    IN  \A a \in Answers :
          IF Same(first.request, last.about)
          THEN a = [status |-> "replayed", told |-> first.told, outcome |-> first.request.outcome]
          ELSE a.status = "idempotency-conflict"

(* A request with no live receipt is never answered from an old one. *)
ExpiredIsForgotten ==
  IsMutation /\ ~ Within(last.about.key) /\ ~ setup.back =>
    \A a \in Answers : a.status \in {"applied", "conflict"}

Versions(b) == last.before[b].versions

Held(b, c) ==
  CASE c.is = "missing" -> last.before[b].values[c.target] = Missing
    [] c.is = "present" -> last.before[b].values[c.target] # Missing
    [] c.is = "version" -> c.version # 0 /\ Versions(b)[c.target] = c.version

(* Applied: every condition held, and every operation is in force with the
   version it was answered with, a new one. A conflict: nothing was done,
   and the condition is the first in the order of targets that did not
   hold, with what was there instead. *)
AnswersAreTrue ==
  IsMutation => \A b \in Stores :
    LET answer == last.answers[b]
        r == last.about
    IN  CASE answer.status = "applied" ->
               /\ \A c \in ToSet(r.conditions) : Held(b, c)
               /\ \A i \in DOMAIN r.operations :
                    LET o == r.operations[i]
                        version == Standing[b].versions[o.target]
                    IN  /\ answer.told[i] = [target |-> o.target, version |-> version]
                        /\ IF o.is = "write" THEN Standing[b].values[o.target] = o.content /\ version > last.before[b].minted
                           ELSE Standing[b].values[o.target] = Missing /\ version = 0
          [] answer.status = "conflict" ->
               /\ Standing[b] = last.before[b]
               /\ answer.condition \in ToSet(r.conditions) /\ ~ Held(b, answer.condition)
               /\ \A c \in ToSet(r.conditions) : c.target < answer.condition.target => Held(b, c)
               /\ answer.condition.is = "version" => answer.version = Versions(b)[answer.condition.target]
          [] OTHER -> Standing[b] = last.before[b]

(* While the clock goes forward the two stores answer every call alike,
   token by token, and hold the same values. (How many receipts they keep
   may differ: of those of one moment each may have dropped another one.) *)
StoresAgree ==
  ~ setup.back =>
    /\ last.status # "none" => last.answers["memory"] = last.answers["sqlite"]
    /\ Standing["memory"] = Standing["sqlite"]

Named(about) == IF last'.status = "mutate" THEN {o.target : o \in ToSet(about.operations)} ELSE about

(* A call changes the value and the version of no target it does not name,
   whatever the names look like. *)
OthersStay ==
  \A b \in Stores, t \in Numbers :
    calls' # calls /\ t \notin Named(last'.about) =>
      /\ Standing[b].values[t]' = Standing[b].values[t]
      /\ Standing[b].versions[t]' = Standing[b].versions[t]
===============================================================================
