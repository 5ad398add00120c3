-------------------------- MODULE AtomicStore_proofs --------------------------
(***************************************************************************)
(* Proofs about the atomic mutation store for any targets, keys, requests, *)
(* retention windows and depth of nested transactions, and about its       *)
(* counterpart in a browser, the IndexedDB adapter, for any pages and any  *)
(* calls of theirs.                                                        *)
(***************************************************************************)
EXTENDS AtomicStore, FiniteSetTheorems, SequenceTheorems, FunctionTheorems, TLAPS

CONSTANTS   \* of IndexedDb, and what its rows hold
  Pages, Setups, KeyTargets, RecordTargets, PageKeys, NoPageKey, Missing, WindowMs, LastTick,
  Values,       \* what rows may hold, and digests
  Identities    \* what a database's counters may be known by: pages among them

VARIABLES   \* of IndexedDb
  setup, database, earlier, browserClock, backup, conn, promise, unusable, line, call, given, requested, imports

Idb == INSTANCE IndexedDb WITH Keys <- PageKeys, NoKey <- NoPageKey, RetentionMs <- WindowMs,
                               MaxClock <- LastTick, clock <- browserClock, applied <- requested

(* Ranks number the members of a set of targets from 1 on, each once. *)
LEMMA RankFacts ==
  ASSUME NEW T \in SUBSET Targets
  PROVE  /\ Cardinality(T) \in Nat
         /\ \A t \in T : Rank(T, t) \in Nat /\ 0 < Rank(T, t) /\ Rank(T, t) =< Cardinality(T)
         /\ \A t, u \in T : Rank(T, t) = Rank(T, u) => t = u
<1> USE RequestsAssumption
<1> DEFINE Upto(t) == {u \in T : u =< t}
<1>1. IsFiniteSet(T) /\ Cardinality(T) \in Nat
  BY FS_Subset, FS_CardinalityType
<1>2. ASSUME NEW t \in T
      PROVE  /\ IsFiniteSet(Upto(t))
             /\ Rank(T, t) = Cardinality(Upto(t))
             /\ Rank(T, t) \in Nat /\ 0 < Rank(T, t) /\ Rank(T, t) =< Cardinality(T)
  <2>1. IsFiniteSet(Upto(t)) /\ Cardinality(Upto(t)) =< Cardinality(T)
    BY <1>1, FS_Subset
  <2>2. t \in Upto(t)
    OBVIOUS
  <2>3. Cardinality(Upto(t)) \in Nat /\ Cardinality(Upto(t)) # 0
    BY <2>1, <2>2, FS_CardinalityType, FS_EmptySet
  <2>4. QED
    BY <1>1, <2>1, <2>3 DEF Rank
<1>3. ASSUME NEW t \in T, NEW u \in T, t < u
      PROVE  Rank(T, t) < Rank(T, u)
  <2>1. Upto(t) \subseteq Upto(u) /\ Upto(t) # Upto(u)
    <3>1. T \subseteq Nat /\ t \in Nat /\ u \in Nat
      OBVIOUS
    <3>2. u \in Upto(u) /\ u \notin Upto(t)
      BY <1>3, <3>1
    <3>3. ASSUME NEW v \in Upto(t) PROVE v \in Upto(u)
      BY <1>3, <3>1
    <3>4. QED
      BY <3>2, <3>3
  <2>2. Cardinality(Upto(t)) < Cardinality(Upto(u))
    <3>1. /\ Cardinality(Upto(t)) =< Cardinality(Upto(u))
          /\ Cardinality(Upto(t)) # Cardinality(Upto(u))
      BY <1>2, <2>1, FS_Subset
    <3>2. Cardinality(Upto(t)) \in Nat /\ Cardinality(Upto(u)) \in Nat
      BY <1>2, FS_CardinalityType
    <3>3. QED
      BY <3>1, <3>2
  <2>3. QED
    BY <1>2, <2>2
<1>4. ASSUME NEW t \in T, NEW u \in T, Rank(T, t) = Rank(T, u)
      PROVE  t = u
  <2>1. Rank(T, t) \in Nat /\ t \in Nat /\ u \in Nat
    <3>1. T \subseteq Nat
      OBVIOUS
    <3>2. QED
      BY <1>2, <3>1
  <2>2. ~(t < u) /\ ~(u < t)
    BY <1>3, <1>4, <2>1
  <2>3. QED
    BY <2>1, <2>2
<1>5. QED
  BY <1>1, <1>2, <1>4

(* Fresh numbers are naturals. *)
LEMMA NumberedType ==
  ASSUME NEW f \in [Targets -> Nat], NEW T \in SUBSET Targets, NEW last \in Nat
  PROVE  Numbered(f, T, last) \in [Targets -> Nat]
<1>1. \A t \in T : last + Rank(T, t) \in Nat
  BY RankFacts
<1>2. QED
  BY <1>1 DEF Numbered

--------------------
(* What the helpers do to a database. *)

LEMMA LookedFacts ==
  ASSUME NEW d \in Databases, NEW T \in SUBSET Targets, sequence \in Nat
  PROVE  /\ Looked(d, T) \in Databases
         /\ Looked(d, T).version = Numbered(d.version, T, sequence)
         /\ Looked(d, T).content = d.content
         /\ Looked(d, T).consumed = d.consumed
         /\ Looked(d, T).receipt = d.receipt
         /\ Looked(d, T).applied = d.applied
  BY NumberedType DEF Looked, Databases

LEMMA BatchFacts ==
  ASSUME NEW d \in Databases, NEW r \in Requests, NEW last \in Nat, serial \in Nat
  PROVE  /\ Batch(d, r, last) \in Databases
         /\ Batch(d, r, last).consumed = d.consumed
         /\ Batch(d, r, last).receipt = d.receipt
         /\ Batch(d, r, last).applied = d.applied
         /\ \A t \in Targets :
              /\ Batch(d, r, last).version[t] =
                   IF t \in Removes(r) THEN 0 ELSE Numbered(d.version, Writes(r), last)[t]
              /\ Batch(d, r, last).content[t] = IF t \in Writes(r) THEN serial + 1 ELSE d.content[t]
<1>1. Writes(r) \in SUBSET Targets
  BY RequestsAssumption DEF Writes
<1>2. Numbered(d.version, Writes(r), last) \in [Targets -> Nat]
  BY <1>1, NumberedType DEF Databases
<1> DEFINE present == [t \in Targets |-> (d.present[t] \/ t \in Writes(r)) /\ t \notin Removes(r)]
           version == [t \in Targets |-> IF t \in Removes(r) THEN 0
                                         ELSE Numbered(d.version, Writes(r), last)[t]]
           content == [t \in Targets |-> IF t \in Writes(r) THEN serial + 1 ELSE d.content[t]]
<1>3. /\ present \in [Targets -> BOOLEAN]
      /\ version \in [Targets -> Nat]
      /\ content \in [Targets -> Nat]
  <2>1. d.content \in [Targets -> Nat]
    BY DEF Databases
  <2>2. QED
    BY <1>2, <2>1
<1>4. Batch(d, r, last) = [d EXCEPT !.present = present, !.version = version, !.content = content]
  BY DEF Batch
<1> HIDE DEF present, version, content
<1>5. /\ Batch(d, r, last) \in Databases
      /\ Batch(d, r, last).consumed = d.consumed
      /\ Batch(d, r, last).receipt = d.receipt
      /\ Batch(d, r, last).applied = d.applied
      /\ Batch(d, r, last).version = version
      /\ Batch(d, r, last).content = content
  BY <1>3, <1>4 DEF Databases
<1>6. QED
  BY <1>5 DEF version, content

LEMMA StampedFacts ==
  ASSUME NEW d \in Databases, clock \in Nat,
         NEW S \in SUBSET {k \in Keys : d.receipt[k] # NoReceipt}
  PROVE  /\ Stamped(d, S) \in Databases
         /\ Stamped(d, S).version = d.version
         /\ Stamped(d, S).content = d.content
         /\ Stamped(d, S).consumed = d.consumed
<1>1. \A k \in S : d.receipt[k] \in Receipts /\ d.applied[k] \in [at : Moments, by : Nat]
  BY DEF Databases
<1>2. \A k \in S : /\ [d.receipt[k] EXCEPT !.created = clock] \in Receipts
                   /\ [d.applied[k] EXCEPT !.at = clock] \in [at : Moments, by : Nat]
  BY <1>1 DEF Receipts, Moments
<1> DEFINE receipt == [k \in Keys |-> IF k \in S THEN [d.receipt[k] EXCEPT !.created = clock]
                                      ELSE d.receipt[k]]
           applied == [k \in Keys |-> IF k \in S THEN [d.applied[k] EXCEPT !.at = clock]
                                      ELSE d.applied[k]]
<1>3. /\ receipt \in [Keys -> Receipts \cup {NoReceipt}]
      /\ applied \in [Keys -> [at : Moments, by : Nat]]
  BY <1>2 DEF Databases
<1>4. Stamped(d, S) = [d EXCEPT !.receipt = receipt, !.applied = applied]
  BY DEF Stamped
<1> HIDE DEF receipt, applied
<1>5. QED
  BY <1>3, <1>4 DEF Databases

(* Pruning touches receipts only. *)
LEMMA PrunedFacts ==
  ASSUME NEW d \in Databases, clock \in Nat, NEW e \in Pruned(d)
  PROVE  /\ e \in Databases
         /\ e.version = d.version
         /\ e.content = d.content
         /\ e.consumed = d.consumed
<1>1. CASE RetentionMs < 0
  BY <1>1 DEF Pruned
<1>2. CASE ~(RetentionMs < 0)
  <2>1. PICK S \in AtMost(With(d, {Unstamped}), PruneBatch) :
               \E T \in OldestExpired(Stamped(d, S)) : e = Without(Stamped(d, S), T)
    BY <1>2 DEF Pruned
  <2>2. PICK T : e = Without(Stamped(d, S), T)
    BY <2>1
  <2>3. S \in SUBSET {k \in Keys : d.receipt[k] # NoReceipt}
    BY DEF AtMost, With
  <2> DEFINE s == Stamped(d, S)
             receipt == [k \in Keys |-> IF k \in T THEN NoReceipt ELSE s.receipt[k]]
  <2>4. /\ s \in Databases
        /\ s.version = d.version /\ s.content = d.content /\ s.consumed = d.consumed
    BY <2>3, StampedFacts
  <2>5. e = [s EXCEPT !.receipt = receipt]
    BY <2>2 DEF Without
  <2> HIDE DEF s
  <2>6. receipt \in [Keys -> Receipts \cup {NoReceipt}]
    BY <2>4 DEF Databases
  <2> HIDE DEF receipt
  <2>7. QED
    BY <2>4, <2>5, <2>6 DEF Databases
<1>3. QED
  BY <1>1, <1>2

LEMMA WriteReceiptFacts ==
  ASSUME NEW d \in Databases, NEW k \in Keys \cup {NoKey}, NEW r \in Requests,
         clock \in Nat, serial \in Nat
  PROVE  /\ WriteReceipt(d, k, r) \in Databases
         /\ WriteReceipt(d, k, r).version = d.version
         /\ WriteReceipt(d, k, r).content = d.content
         /\ WriteReceipt(d, k, r).consumed = d.consumed
<1>1. [request |-> r, created |-> clock] \in Receipts
  BY DEF Receipts
<1>2. [at |-> clock, by |-> serial + 1] \in [at : Moments, by : Nat]
  BY DEF Moments
<1>3. CASE k = NoKey
  BY <1>3 DEF WriteReceipt
<1>4. CASE k # NoKey
  BY <1>1, <1>2, <1>4 DEF WriteReceipt, Databases
<1>5. QED
  BY <1>3, <1>4

(* Tokens of a database are well-typed. *)
LEMMA TokensType ==
  ASSUME NEW d \in Databases, NEW T \in SUBSET Targets
  PROVE  Tokens(d, T) \subseteq Issues
  BY DEF Tokens, Issues, Databases

(* The targets a request looks at and writes. *)
LEMMA RequestFacts ==
  ASSUME NEW d, NEW r \in Requests
  PROVE  /\ Writes(r) \in SUBSET Targets
         /\ Unversioned(d, Checked(d, r)) \in SUBSET Targets
         /\ Unversioned(d, DOMAIN r.conditions) \in SUBSET Targets
         /\ Replaced(r) = {[target |-> t, version |-> r.conditions[t].version, by |-> serial + 1] :
                             t \in {u \in DOMAIN r.conditions \cap DOMAIN r.operations :
                                       r.conditions[u].expected = "version"}}
         /\ \A t \in DOMAIN r.conditions : t \in Targets /\ r.conditions[t].version \in Nat
<1>1. DOMAIN r.conditions \subseteq Targets /\ DOMAIN r.operations \subseteq Targets
  BY RequestsAssumption
<1>2. \A t \in DOMAIN r.conditions : r.conditions[t] \in Expectations
  BY RequestsAssumption
<1>3. QED
  BY <1>1, <1>2 DEF Writes, Unversioned, Checked, Replaced, Expectations

(* What set and put leave. *)
LEMMA SetFacts ==
  ASSUME db \in Databases, sequence \in Nat, serial \in Nat, NEW t \in Targets, Set(t)
  PROVE  /\ db' \in Databases
         /\ db'.version = [db.version EXCEPT ![t] = sequence + 1]
         /\ db'.content = [db.content EXCEPT ![t] = serial + 1]
         /\ db'.consumed = db.consumed
         /\ db'.receipt = db.receipt /\ db'.applied = db.applied
<1> DEFINE present == [db.present EXCEPT ![t] = TRUE]
           version == [db.version EXCEPT ![t] = sequence + 1]
           content == [db.content EXCEPT ![t] = serial + 1]
<1>1. /\ present \in [Targets -> BOOLEAN]
      /\ version \in [Targets -> Nat]
      /\ content \in [Targets -> Nat]
  BY DEF Databases
<1>2. db' = [db EXCEPT !.present = present, !.version = version, !.content = content]
  BY DEF Set, Databases
<1> HIDE DEF present, version, content
<1>3. /\ db' \in Databases
      /\ db'.version = version /\ db'.content = content /\ db'.consumed = db.consumed
      /\ db'.receipt = db.receipt /\ db'.applied = db.applied
  BY <1>1, <1>2 DEF Databases
<1>4. QED
  BY <1>3 DEF version, content

(* What an applied batch leaves. *)
LEMMA AppliedFacts ==
  ASSUME TypeOK, NEW d \in Databases, NEW k \in Keys \cup {NoKey}, NEW r \in Requests,
         Applied(d, k, r),
         NEW seen, seen = Unversioned(d, DOMAIN r.conditions),
         NEW looked, looked = Looked(d, seen),
         NEW last, last = sequence + Cardinality(seen),
         NEW batch, batch = Batch(looked, r, last)
  PROVE  /\ last \in Nat /\ sequence' = last + Cardinality(Writes(r))
         /\ looked \in Databases /\ batch \in Databases
         /\ db' \in Databases
         /\ db'.version = batch.version
         /\ db'.content = batch.content
         /\ db'.consumed = d.consumed \cup Replaced(r)
         /\ batch.receipt = d.receipt /\ batch.applied = d.applied
         /\ db'.receipt = WriteReceipt(batch, k, r).receipt
         /\ db'.applied = WriteReceipt(batch, k, r).applied
         /\ issued' = issued \cup Tokens(looked, seen) \cup Tokens(batch, Writes(r))
<1>1. seen \in SUBSET Targets /\ Writes(r) \in SUBSET Targets
  BY RequestFacts
<1>2. sequence \in Nat /\ serial \in Nat /\ clock \in Nat
  BY DEF TypeOK
<1>3. last \in Nat
  BY <1>1, <1>2, RankFacts
<1>4. looked \in Databases
  BY <1>1, <1>2, LookedFacts
<1>5. batch \in Databases
  BY <1>2, <1>3, <1>4, BatchFacts
<1> DEFINE receipted == WriteReceipt(batch, k, r)
<1>6. /\ receipted \in Databases
      /\ receipted.version = batch.version /\ receipted.content = batch.content
  BY <1>2, <1>5, WriteReceiptFacts
<1>7. /\ db' = [receipted EXCEPT !.consumed = d.consumed \cup Replaced(r)]
      /\ sequence' = last + Cardinality(Writes(r))
      /\ issued' = issued \cup Tokens(looked, seen) \cup Tokens(batch, Writes(r))
  BY DEF Applied
<1> DEFINE consumed == d.consumed \cup Replaced(r)
<1>8. Replaced(r) \subseteq [target : Targets, version : Nat, by : Nat]
  BY <1>2, RequestFacts
<1>9. consumed \in SUBSET [target : Targets, version : Nat, by : Nat]
  BY <1>8 DEF Databases
<1> HIDE DEF receipted, consumed
<1>10. db' = [receipted EXCEPT !.consumed = consumed]
  BY <1>7 DEF consumed
<1>11. /\ db' \in Databases
       /\ db'.version = receipted.version /\ db'.content = receipted.content
       /\ db'.consumed = consumed
       /\ db'.receipt = receipted.receipt /\ db'.applied = receipted.applied
  BY <1>6, <1>9, <1>10 DEF Databases
<1>12. batch.receipt = d.receipt /\ batch.applied = d.applied
  <2>1. looked.receipt = d.receipt /\ looked.applied = d.applied
    BY <1>1, <1>2, LookedFacts
  <2>2. QED
    BY <1>2, <1>3, <1>4, <2>1, BatchFacts
<1>13. QED
  BY <1>3, <1>4, <1>5, <1>6, <1>7, <1>11, <1>12 DEF consumed, receipted

LEMMA SequenceFacts ==
  ASSUME NEW S, NEW s \in Seq(S), s # <<>>
  PROVE  /\ Len(s) \in Nat \ {0}
         /\ s[1] \in S /\ s[Len(s)] \in S
         /\ SubSeq(s, 1, Len(s) - 1) \in Seq(S)
         /\ Len(SubSeq(s, 1, Len(s) - 1)) = Len(s) - 1
         /\ \A j \in 1..Len(s) - 1 : SubSeq(s, 1, Len(s) - 1)[j] = s[j]
<1>1. Len(s) \in Nat \ {0} /\ s[1] \in S /\ s[Len(s)] \in S
  OBVIOUS
<1>2. \A j \in 1..Len(s) - 1 : s[j] \in S
  OBVIOUS
<1> DEFINE n == Len(s) - 1
           front == SubSeq(s, 1, n)
<1>3. /\ front \in Seq(S)
      /\ Len(front) = IF 1 <= n THEN n - 1 + 1 ELSE 0
      /\ \A j \in 1..n - 1 + 1 : front[j] = s[1 + j - 1]
  <2>1. n \in Nat /\ \A j \in 1..n : s[j] \in S
    BY <1>1, <1>2
  <2> HIDE DEF n
  <2>2. QED
    BY <2>1, SubSeqProperties
<1>4. n \in Nat /\ n - 1 + 1 = n
  BY <1>1
<1> HIDE DEF front
<1>5. /\ front \in Seq(S)
      /\ Len(front) = n
      /\ \A j \in 1..n : front[j] = s[j]
  <2> HIDE DEF n
  <2>1. Len(front) = n
    BY <1>3, <1>4
  <2>2. ASSUME NEW j \in 1..n PROVE front[j] = s[j]
    <3>1. 1 + j - 1 = j /\ j \in 1..n - 1 + 1
      BY <1>4
    <3>2. QED
      BY <1>3, <3>1
  <2>3. QED
    BY <1>3, <2>1, <2>2
<1>6. QED
  BY <1>1, <1>5 DEF front

(* The tables, savepoints and history have their types in every state. *)
THEOREM TypeCorrect == Spec => []TypeOK
<1>1. Init => TypeOK
  <2> SUFFICES ASSUME Init PROVE TypeOK
    OBVIOUS
  <2>1. PICK present \in [Targets -> BOOLEAN], old \in SUBSET Keys :
       db = [present  |-> present,
             version  |-> [t \in Targets |-> 0],
             content  |-> [t \in Targets |-> 0],
             receipt  |-> [k \in Keys |-> IF k \in old THEN [request |-> NoKey, created |-> Unstamped]
                                                       ELSE NoReceipt],
             applied  |-> [k \in Keys |-> [at |-> IF k \in old THEN Unstamped ELSE Never, by |-> 0]],
             consumed |-> {}]
    BY DEF Init
  <2>2. db \in Databases
    BY <2>1 DEF Databases, Receipts, Moments
  <2>3. QED
    BY <2>2 DEF Init, TypeOK
<1>2. TypeOK /\ [Next]_vars => TypeOK'
  <2> SUFFICES ASSUME TypeOK, [Next]_vars PROVE TypeOK'
    OBVIOUS
  <2>0. /\ db \in Databases /\ sequence \in Nat /\ serial \in Nat /\ clock \in Nat
        /\ saved \in Seq([db : Databases, sequence : Nat])
        /\ issued \subseteq Issues
        /\ looking \in [Readers -> Issues \cup {Idle}]
    BY DEF TypeOK
  <2>1. ASSUME NEW t \in Targets, GetVersioned(t) PROVE TypeOK'
    <3>1. db' \in Databases
      BY <2>0, <2>1, LookedFacts DEF GetVersioned
    <3>2. issued' \subseteq Issues
      BY <2>0, <2>1, <3>1, TokensType DEF GetVersioned
    <3>3. sequence' = sequence + 1 /\ UNCHANGED <<saved, looking, serial, clock>>
      BY <2>1 DEF GetVersioned
    <3>4. QED
      BY <2>0, <3>1, <3>2, <3>3 DEF TypeOK
  <2>2. ASSUME NEW t \in Targets, Set(t) PROVE TypeOK'
    <3>1. db' \in Databases
      BY <2>0, <2>2, SetFacts
    <3>2. issued' \subseteq Issues
      BY <2>0, <2>2, <3>1, TokensType DEF Set
    <3>3. /\ sequence' = sequence + 1 /\ serial' = serial + 1
          /\ UNCHANGED <<saved, looking, clock>>
      BY <2>2 DEF Set
    <3>4. QED
      BY <2>0, <3>1, <3>2, <3>3 DEF TypeOK
  <2>3. ASSUME NEW t \in Targets, Delete(t) PROVE TypeOK'
    <3>1. db' \in Databases
      BY <2>0, <2>3 DEF Delete, Databases
    <3>2. QED
      BY <2>3, <3>1 DEF Delete, TypeOK
  <2>4. ASSUME NEW p \in Readers, NEW t \in Targets, Look(p, t) PROVE TypeOK'
    <3>1. Committed \in Databases
      <4>1. CASE saved = <<>>
        BY <2>0, <4>1 DEF Committed
      <4>2. CASE saved # <<>>
        <5>1. saved[1] \in [db : Databases, sequence : Nat]
          BY <2>0, <4>2, SequenceFacts
        <5>2. QED
          BY <4>2, <5>1 DEF Committed
      <4>3. QED
        BY <4>1, <4>2
    <3>2. [token |-> 0, target |-> t, content |-> Committed.content[t]] \in Issues
      BY <3>1 DEF Databases, Issues
    <3>3. QED
      BY <2>4, <3>2 DEF Look, TypeOK
  <2>5. ASSUME NEW p \in Readers, Mint(p) PROVE TypeOK'
    <3>1. looking[p] \in Issues
      BY <2>0, <2>5 DEF Mint
    <3>2. [looking[p] EXCEPT !.token = sequence + 1] \in Issues
      BY <2>0, <3>1 DEF Issues
    <3>3. looking' = [looking EXCEPT ![p] = [looking[p] EXCEPT !.token = sequence + 1]]
      BY <2>0, <2>5 DEF Mint
    <3>4. QED
      BY <2>0, <2>5, <3>2, <3>3 DEF Mint, TypeOK
  <2>6. ASSUME NEW p \in Readers, Enter(p) PROVE TypeOK'
    <3>1. looking[p] \in Issues
      BY <2>0, <2>6 DEF Enter
    <3>2. db' \in Databases
      BY <2>0, <2>6, <3>1 DEF Enter, Databases, Issues
    <3>3. QED
      BY <2>0, <2>6, <3>1, <3>2 DEF Enter, TypeOK
  <2>7. ASSUME NEW k \in Keys \cup {NoKey}, NEW r \in Requests, MutateAtomically(k, r)
        PROVE  TypeOK'
    <3>1. PICK d \in IF k = NoKey THEN {db} ELSE Pruned(db) :
                 Answered(d, k) \/ Conflict(d, k, r) \/ Applied(d, k, r)
      BY <2>7 DEF MutateAtomically
    <3>2. d \in Databases
      BY <2>0, PrunedFacts
    <3>3. UNCHANGED <<saved, looking, clock>>
      BY <2>7 DEF MutateAtomically
    <3>4. CASE Answered(d, k)
      BY <3>2, <3>3, <3>4 DEF Answered, TypeOK
    <3>5. CASE Conflict(d, k, r)
      <4> DEFINE seen == Unversioned(d, Checked(d, r))
      <4>1. seen \in SUBSET Targets
        BY RequestFacts
      <4>2. db' \in Databases /\ sequence' \in Nat
        BY <2>0, <3>2, <3>5, <4>1, LookedFacts, RankFacts DEF Conflict
      <4>3. issued' \subseteq Issues
        BY <2>0, <3>5, <4>1, <4>2, TokensType DEF Conflict
      <4>4. QED
        BY <2>0, <3>3, <3>5, <4>2, <4>3 DEF Conflict, TypeOK
    <3>6. CASE Applied(d, k, r)
      <4> DEFINE seen == Unversioned(d, DOMAIN r.conditions)
                 looked == Looked(d, seen)
                 batch == Batch(looked, r, sequence + Cardinality(seen))
      <4>1. seen \in SUBSET Targets /\ Writes(r) \in SUBSET Targets
        BY RequestFacts
      <4>2. Cardinality(Writes(r)) \in Nat
        BY <4>1, RankFacts
      <4>3. /\ looked \in Databases /\ batch \in Databases /\ db' \in Databases
            /\ sequence' \in Nat
            /\ issued' = issued \cup Tokens(looked, seen) \cup Tokens(batch, Writes(r))
        BY <3>2, <3>6, <4>2, AppliedFacts
      <4>4. issued' \subseteq Issues
        BY <2>0, <4>1, <4>3, TokensType
      <4>5. serial' \in Nat
        BY <2>0, <3>6 DEF Applied
      <4>6. QED
        BY <2>0, <3>3, <4>3, <4>4, <4>5 DEF TypeOK
    <3>7. QED
      BY <3>1, <3>4, <3>5, <3>6
  <2>8. CASE PruneExpiredReceipts
    BY <2>0, <2>8, PrunedFacts DEF PruneExpiredReceipts, TypeOK
  <2>9. CASE Begin
    BY <2>0, <2>9 DEF Begin, TypeOK
  <2>10. CASE Keep
    BY <2>0, <2>10, SequenceFacts DEF Keep, TypeOK
  <2>11. CASE RollBack
    <3>1. /\ saved # <<>>
          /\ saved[1] \in [db : Databases, sequence : Nat]
          /\ saved[Len(saved)] \in [db : Databases, sequence : Nat]
          /\ SubSeq(saved, 1, Len(saved) - 1) \in Seq([db : Databases, sequence : Nat])
      BY <2>0, <2>11, SequenceFacts DEF RollBack
    <3>2. db' \in Databases /\ sequence' \in Nat
      BY <2>0, <2>11, <3>1 DEF RollBack, KeepVersionsMinted
    <3>3. QED
      BY <2>0, <2>11, <3>1, <3>2 DEF RollBack, TypeOK
  <2>12. CASE Crash
    <3>1. /\ saved # <<>>
          /\ saved[1] \in [db : Databases, sequence : Nat]
          /\ saved[Len(saved)] \in [db : Databases, sequence : Nat]
          /\ SubSeq(saved, 1, Len(saved) - 1) \in Seq([db : Databases, sequence : Nat])
      BY <2>0, <2>12, SequenceFacts DEF Crash
    <3>2. db' \in Databases /\ sequence' \in Nat
      BY <2>0, <2>12, <3>1 DEF Crash
    <3>3. QED
      BY <2>0, <2>12, <3>1, <3>2 DEF Crash, TypeOK
  <2>13. CASE RolledBackBySqlite
    <3>1. /\ saved # <<>>
          /\ saved[1] \in [db : Databases, sequence : Nat]
          /\ saved[Len(saved)] \in [db : Databases, sequence : Nat]
          /\ SubSeq(saved, 1, Len(saved) - 1) \in Seq([db : Databases, sequence : Nat])
      BY <2>0, <2>13, SequenceFacts DEF RolledBackBySqlite
    <3>2. db' \in Databases /\ sequence' \in Nat
      BY <2>0, <2>13, <3>1 DEF RolledBackBySqlite
    <3>3. QED
      BY <2>0, <2>13, <3>1, <3>2 DEF RolledBackBySqlite, TypeOK
  <2>14. CASE Tick
    BY <2>0, <2>14 DEF Tick, TypeOK
  <2>15. CASE UNCHANGED vars
    BY <2>15 DEF vars, TypeOK
  <2>16. QED
    BY <2>1, <2>2, <2>3, <2>4, <2>5, <2>6, <2>7, <2>8, <2>9, <2>10, <2>11, <2>12, <2>13,
       <2>14, <2>15 DEF Next
<1>3. QED
  BY <1>1, <1>2, PTL DEF Spec

--------------------
(* Version tokens, when no other process reads outside a transaction and
   SQLite ends none by itself. Every version in the tables or in a
   savepoint was issued for the value next to it, no number is past the
   sequence it was minted from, and a replaced version is gone for good. *)

Sound(d, n, I) ==
  /\ \A t \in Targets :
       /\ d.version[t] =< n
       /\ d.version[t] # 0
            => [token |-> d.version[t], target |-> t, content |-> d.content[t]] \in I
  /\ \A w \in d.consumed : 0 < w.version /\ w.version =< n /\ w.version # d.version[w.target]
  /\ \A w, x \in d.consumed : w.target = x.target /\ w.version = x.version => w = x

VersionsInv ==
  /\ Sound(db, sequence, issued)
  /\ \A j \in 1..Len(saved) : /\ saved[j].sequence =< sequence
                              /\ Sound(saved[j].db, saved[j].sequence, issued)
  /\ \A i \in issued : 0 < i.token /\ i.token =< sequence
  /\ \A i, j \in issued : i.token = j.token => i = j

LEMMA SoundGrows ==
  ASSUME NEW d \in Databases, NEW n \in Nat, NEW m \in Nat, n =< m,
         NEW I, NEW J, I \subseteq J, Sound(d, n, I)
  PROVE  Sound(d, m, J)
<1>1. /\ \A t \in Targets : d.version[t] \in Nat
      /\ \A w \in d.consumed : w.version \in Nat
  BY DEF Databases
<1>2. QED
  BY <1>1 DEF Sound

(* Tokens numbered by rank are fresh, and no two of them the same. *)
LEMMA FreshTokens ==
  ASSUME NEW e \in Databases, NEW T \in SUBSET Targets, NEW last \in Nat,
         \A t \in T : e.version[t] = last + Rank(T, t)
  PROVE  /\ \A i \in Tokens(e, T) : last < i.token /\ i.token =< last + Cardinality(T)
         /\ \A i, j \in Tokens(e, T) : i.token = j.token => i = j
<1>1. /\ Cardinality(T) \in Nat
      /\ \A t \in T : Rank(T, t) \in Nat /\ 0 < Rank(T, t) /\ Rank(T, t) =< Cardinality(T)
      /\ \A t, u \in T : Rank(T, t) = Rank(T, u) => t = u
  BY RankFacts
<1>2. ASSUME NEW i \in Tokens(e, T)
      PROVE  \E t \in T : /\ i = [token |-> e.version[t], target |-> t, content |-> e.content[t]]
                          /\ i.token = last + Rank(T, t)
  BY <1>2 DEF Tokens
<1>3. ASSUME NEW i \in Tokens(e, T) PROVE last < i.token /\ i.token =< last + Cardinality(T)
  BY <1>1, <1>2
<1>4. ASSUME NEW i \in Tokens(e, T), NEW j \in Tokens(e, T), i.token = j.token PROVE i = j
  <2>1. PICK t \in T : /\ i = [token |-> e.version[t], target |-> t, content |-> e.content[t]]
                       /\ i.token = last + Rank(T, t)
    BY <1>2
  <2>2. PICK u \in T : /\ j = [token |-> e.version[u], target |-> u, content |-> e.content[u]]
                       /\ j.token = last + Rank(T, u)
    BY <1>2
  <2>3. Rank(T, t) = Rank(T, u)
    BY <1>1, <1>4, <2>1, <2>2
  <2>4. t = u
    BY <1>1, <2>3
  <2>5. QED
    BY <2>1, <2>2, <2>4
<1>5. QED
  BY <1>3, <1>4

(* A step that mints fresh tokens, each for the value it is entered with,
   and replaces only versions that are current. *)
LEMMA MintingStep ==
  ASSUME TypeOK, TypeOK', VersionsInv, saved' = saved, sequence =< sequence',
         NEW N, issued' = issued \cup N,
         \A i \in N : sequence < i.token /\ i.token =< sequence',
         \A i, j \in N : i.token = j.token => i = j,
         \A t \in Targets :
           \/ db'.version[t] = db.version[t] /\ db'.content[t] = db.content[t]
           \/ db'.version[t] = 0
           \/ [token |-> db'.version[t], target |-> t, content |-> db'.content[t]] \in N,
         \A w \in db'.consumed : w \notin db.consumed =>
           0 < w.version /\ w.version = db.version[w.target] /\ w.version # db'.version[w.target],
         \A w, x \in db'.consumed \ db.consumed :
           w.target = x.target /\ w.version = x.version => w = x
  PROVE  VersionsInv'
<1>1. /\ sequence \in Nat /\ sequence' \in Nat
      /\ \A i \in issued : i.token \in Nat
      /\ \A i \in N : i.token \in Nat
      /\ \A t \in Targets : db.version[t] \in Nat /\ db'.version[t] \in Nat
      /\ \A w \in db.consumed : w.version \in Nat /\ w.target \in Targets
      /\ \A w \in db'.consumed : w.version \in Nat /\ w.target \in Targets
  BY DEF TypeOK, Databases, Issues
<1>2. \A i \in issued' : 0 < i.token /\ i.token =< sequence'
  BY <1>1 DEF VersionsInv
<1>3. \A i, j \in issued' : i.token = j.token => i = j
  <2>1. ASSUME NEW i \in issued, NEW j \in N PROVE i.token # j.token
    BY <1>1 DEF VersionsInv
  <2>2. QED
    BY <2>1 DEF VersionsInv
<1>4. \A j \in 1..Len(saved) : /\ saved[j].sequence =< sequence'
                              /\ Sound(saved[j].db, saved[j].sequence, issued')
  <2>1. ASSUME NEW j \in 1..Len(saved)
        PROVE  saved[j].db \in Databases /\ saved[j].sequence \in Nat
    <3>1. saved \in Seq([db : Databases, sequence : Nat])
      BY DEF TypeOK
    <3>2. saved[j] \in [db : Databases, sequence : Nat]
      BY <3>1, ElementOfSeq
    <3>3. QED
      BY <3>2
  <2>2. QED
    BY <1>1, <2>1, SoundGrows DEF VersionsInv
<1>5. Sound(db', sequence', issued')
  <2>1. ASSUME NEW t \in Targets
        PROVE  /\ db'.version[t] =< sequence'
               /\ db'.version[t] # 0
                    => [token |-> db'.version[t], target |-> t, content |-> db'.content[t]] \in issued'
    <3>1. CASE db'.version[t] = db.version[t] /\ db'.content[t] = db.content[t]
      BY <1>1, <3>1 DEF VersionsInv, Sound
    <3>2. CASE db'.version[t] = 0
      BY <1>1, <3>2
    <3>3. CASE [token |-> db'.version[t], target |-> t, content |-> db'.content[t]] \in N
      BY <1>1, <3>3
    <3>4. QED
      BY <3>1, <3>2, <3>3
  <2>2. ASSUME NEW w \in db'.consumed
        PROVE  0 < w.version /\ w.version =< sequence' /\ w.version # db'.version[w.target]
    <3>1. CASE w \notin db.consumed
      <4>1. w.target \in Targets /\ w.version \in Nat
        BY <1>1
      <4>2. db.version[w.target] =< sequence
        BY <4>1 DEF VersionsInv, Sound
      <4>3. 0 < w.version /\ w.version = db.version[w.target] /\ w.version # db'.version[w.target]
        BY <3>1
      <4>4. QED
        BY <1>1, <4>1, <4>2, <4>3
    <3>2. CASE w \in db.consumed
      <4>1. 0 < w.version /\ w.version =< sequence /\ w.version # db.version[w.target]
        BY <3>2 DEF VersionsInv, Sound
      <4>2. CASE [token |-> db'.version[w.target], target |-> w.target,
                  content |-> db'.content[w.target]] \in N
        BY <1>1, <4>1, <4>2
      <4>3. QED
        BY <1>1, <4>1, <4>2
    <3>3. QED
      BY <3>1, <3>2
  <2>3. ASSUME NEW w \in db'.consumed, NEW x \in db'.consumed,
               w.target = x.target, w.version = x.version
        PROVE  w = x
    <3>1. CASE w \in db.consumed /\ x \in db.consumed
      BY <2>3, <3>1 DEF VersionsInv, Sound
    <3>2. CASE w \in db.consumed /\ x \notin db.consumed
      BY <2>3, <3>2 DEF VersionsInv, Sound
    <3>3. CASE w \notin db.consumed /\ x \in db.consumed
      BY <2>3, <3>3 DEF VersionsInv, Sound
    <3>4. CASE w \notin db.consumed /\ x \notin db.consumed
      BY <2>3, <3>4
    <3>5. QED
      BY <3>1, <3>2, <3>3, <3>4
  <2>4. QED
    BY <2>1, <2>2, <2>3 DEF Sound
<1>6. QED
  BY <1>2, <1>3, <1>4, <1>5 DEF VersionsInv

(* A look numbers what it found, and leaves the other targets as they are. *)
LEMMA LookedTokens ==
  ASSUME NEW d \in Databases, NEW T \in SUBSET Targets, sequence \in Nat
  PROVE  /\ \A t \in Targets \ T : Looked(d, T).version[t] = d.version[t]
         /\ \A i \in Tokens(Looked(d, T), T) :
              sequence < i.token /\ i.token =< sequence + Cardinality(T)
         /\ \A i, j \in Tokens(Looked(d, T), T) : i.token = j.token => i = j
<1>1. Looked(d, T) \in Databases /\ Looked(d, T).version = Numbered(d.version, T, sequence)
  BY LookedFacts
<1>2. \A t \in T : Looked(d, T).version[t] = sequence + Rank(T, t)
  BY <1>1 DEF Numbered
<1>3. \A t \in Targets \ T : Looked(d, T).version[t] = d.version[t]
  BY <1>1 DEF Numbered
<1>4. QED
  BY <1>1, <1>2, <1>3, FreshTokens

(* The batch numbers what it writes, and the rest keeps or loses its
   version. *)
LEMMA BatchTokens ==
  ASSUME NEW d \in Databases, NEW r \in Requests, NEW last \in Nat, serial \in Nat,
         NEW batch, batch = Batch(d, r, last)
  PROVE  /\ \A t \in Targets \ Writes(r) :
              \/ batch.version[t] = 0
              \/ batch.version[t] = d.version[t] /\ batch.content[t] = d.content[t]
         /\ \A t \in Removes(r) \cap Targets : batch.version[t] = 0
         /\ \A t \in Writes(r) : last < batch.version[t]
         /\ \A i \in Tokens(batch, Writes(r)) :
              last < i.token /\ i.token =< last + Cardinality(Writes(r))
         /\ \A i, j \in Tokens(batch, Writes(r)) : i.token = j.token => i = j
<1>1. Writes(r) \in SUBSET Targets /\ Writes(r) \cap Removes(r) = {}
  BY RequestFacts DEF Writes, Removes
<1>2. /\ batch \in Databases
      /\ \A t \in Targets :
           /\ batch.version[t] = IF t \in Removes(r) THEN 0
                                 ELSE Numbered(d.version, Writes(r), last)[t]
           /\ batch.content[t] = IF t \in Writes(r) THEN serial + 1 ELSE d.content[t]
  BY BatchFacts
<1>3. \A t \in Writes(r) : batch.version[t] = last + Rank(Writes(r), t)
  BY <1>1, <1>2 DEF Numbered
<1>4. \A t \in Targets \ Writes(r) :
        \/ batch.version[t] = 0
        \/ batch.version[t] = d.version[t] /\ batch.content[t] = d.content[t]
  BY <1>2 DEF Numbered
<1>5. \A t \in Writes(r) : last < batch.version[t]
  BY <1>1, <1>3, RankFacts
<1>6. QED
  BY <1>1, <1>2, <1>3, <1>4, <1>5, FreshTokens

LEMMA ConflictStep ==
  ASSUME TypeOK, TypeOK', VersionsInv, saved' = saved, NEW d \in Databases,
         d.version = db.version, d.content = db.content, d.consumed = db.consumed,
         NEW T \in SUBSET Targets,
         db' = Looked(d, T), sequence' = sequence + Cardinality(T),
         issued' = issued \cup Tokens(db', T)
  PROVE  VersionsInv'
<1>1. sequence \in Nat /\ Cardinality(T) \in Nat
  BY RankFacts DEF TypeOK
<1>2. db'.content = db.content /\ db'.consumed = db.consumed
  BY <1>1, LookedFacts
<1> DEFINE N == Tokens(db', T)
<1>3. /\ \A i \in N : sequence < i.token /\ i.token =< sequence'
      /\ \A i, j \in N : i.token = j.token => i = j
      /\ \A t \in Targets \ T : db'.version[t] = db.version[t]
  BY <1>1, LookedTokens
<1>4. \A t \in T : [token |-> db'.version[t], target |-> t, content |-> db'.content[t]] \in N
  BY DEF Tokens
<1> HIDE DEF N
<1>5. \A t \in Targets :
        \/ db'.version[t] = db.version[t] /\ db'.content[t] = db.content[t]
        \/ db'.version[t] = 0
        \/ [token |-> db'.version[t], target |-> t, content |-> db'.content[t]] \in N
  BY <1>2, <1>3, <1>4
<1>6. issued' = issued \cup N /\ sequence =< sequence'
  BY <1>1 DEF N
<1>7. QED
  BY <1>2, <1>3, <1>5, <1>6, MintingStep

LEMMA AppliedStep ==
  ASSUME TypeOK, TypeOK', VersionsInv, saved' = saved, NEW d \in Databases,
         d.version = db.version, d.content = db.content, d.consumed = db.consumed,
         NEW k \in Keys \cup {NoKey}, NEW r \in Requests,
         HoldsItsTokens(r), Applied(d, k, r)
  PROVE  VersionsInv'
<1> DEFINE seen == Unversioned(d, DOMAIN r.conditions)
           looked == Looked(d, seen)
           last == sequence + Cardinality(seen)
           batch == Batch(looked, r, last)
           N == Tokens(looked, seen) \cup Tokens(batch, Writes(r))
<1>1. /\ sequence \in Nat /\ serial \in Nat
      /\ seen \in SUBSET Targets /\ Writes(r) \in SUBSET Targets
      /\ Cardinality(seen) \in Nat /\ Cardinality(Writes(r)) \in Nat
  BY RequestFacts, RankFacts DEF TypeOK
<1>2. /\ last \in Nat /\ sequence' = last + Cardinality(Writes(r))
      /\ looked \in Databases /\ batch \in Databases
      /\ db'.version = batch.version
      /\ db'.content = batch.content
      /\ db'.consumed = d.consumed \cup Replaced(r)
      /\ issued' = issued \cup N
  BY AppliedFacts
<1>3. /\ looked.content = db.content
      /\ \A t \in Targets \ seen : looked.version[t] = db.version[t]
      /\ \A i \in Tokens(looked, seen) : sequence < i.token /\ i.token =< last
      /\ \A i, j \in Tokens(looked, seen) : i.token = j.token => i = j
  BY <1>1, LookedTokens, LookedFacts
<1>4. /\ \A t \in Targets \ Writes(r) :
            \/ batch.version[t] = 0
            \/ batch.version[t] = looked.version[t] /\ batch.content[t] = looked.content[t]
      /\ \A t \in Removes(r) \cap Targets : batch.version[t] = 0
      /\ \A t \in Writes(r) : last < batch.version[t]
      /\ \A i \in Tokens(batch, Writes(r)) : last < i.token /\ i.token =< sequence'
      /\ \A i, j \in Tokens(batch, Writes(r)) : i.token = j.token => i = j
  BY <1>1, <1>2, BatchTokens
<1>5. /\ \A t \in seen : [token |-> looked.version[t], target |-> t, content |-> looked.content[t]]
                          \in Tokens(looked, seen)
      /\ \A t \in Writes(r) : [token |-> batch.version[t], target |-> t, content |-> batch.content[t]]
                               \in Tokens(batch, Writes(r))
  BY DEF Tokens
<1>6. /\ \A i \in Tokens(looked, seen) : i.token \in Nat
      /\ \A i \in Tokens(batch, Writes(r)) : i.token \in Nat
  BY <1>1, <1>2, TokensType DEF Issues
<1>7. ASSUME NEW t \in Targets, NEW w \in Replaced(r), w.target = t
      PROVE  /\ w.version = db.version[t] /\ 0 < w.version
             /\ t \in Writes(r) \cup Removes(r)
             /\ w.version =< sequence
             /\ w = [target |-> t, version |-> db.version[t], by |-> serial + 1]
  <2>1. /\ t \in DOMAIN r.conditions /\ t \in DOMAIN r.operations
        /\ r.conditions[t].expected = "version"
        /\ w = [target |-> t, version |-> r.conditions[t].version, by |-> serial + 1]
    BY <1>7 DEF Replaced
  <2>2. d.version[t] = r.conditions[t].version
    BY <2>1 DEF Applied, AllHold, ConditionHolds, Holds
  <2>3. PICK i \in issued : i.token = r.conditions[t].version
    BY <2>1 DEF HoldsItsTokens
  <2>4. t \in Writes(r) \cup Removes(r)
    BY <2>1, RequestsAssumption DEF Writes, Removes
  <2>5. QED
    BY <2>1, <2>2, <2>3, <2>4 DEF VersionsInv
<1>8. \A w \in Replaced(r) : w.target \in Targets
  BY RequestFacts DEF Replaced
<1> HIDE DEF seen, looked, last, batch
<1>9. sequence =< last /\ last =< sequence' /\ sequence' \in Nat
  BY <1>1, <1>2 DEF last
<1>10. \A i \in N : sequence < i.token /\ i.token =< sequence'
  BY <1>1, <1>2, <1>3, <1>4, <1>6, <1>9
<1>11. \A i, j \in N : i.token = j.token => i = j
  BY <1>1, <1>2, <1>3, <1>4, <1>6, <1>9
<1>12. \A t \in Targets :
         \/ db'.version[t] = db.version[t] /\ db'.content[t] = db.content[t]
         \/ db'.version[t] = 0
         \/ [token |-> db'.version[t], target |-> t, content |-> db'.content[t]] \in N
  <2> TAKE t \in Targets
  <2>1. CASE t \in Writes(r)
    BY <1>2, <1>5, <2>1
  <2>2. CASE t \notin Writes(r) /\ batch.version[t] = 0
    BY <1>2, <2>2
  <2>3. CASE /\ batch.version[t] = looked.version[t] /\ batch.content[t] = looked.content[t]
             /\ t \in seen
    BY <1>2, <1>5, <2>3
  <2>4. CASE /\ batch.version[t] = looked.version[t] /\ batch.content[t] = looked.content[t]
             /\ t \notin seen
    BY <1>2, <1>3, <2>4
  <2>5. QED
    BY <1>4, <2>1, <2>2, <2>3, <2>4
<1>13. \A w \in db'.consumed : w \notin db.consumed =>
         0 < w.version /\ w.version = db.version[w.target] /\ w.version # db'.version[w.target]
  <2> TAKE w \in db'.consumed
  <2> SUFFICES ASSUME w \in Replaced(r)
               PROVE  /\ 0 < w.version /\ w.version = db.version[w.target]
                      /\ w.version # db'.version[w.target]
    BY <1>2
  <2>1. w.target \in Targets
    BY <1>8
  <2>2. /\ 0 < w.version /\ w.version =< sequence /\ w.version = db.version[w.target]
        /\ w.target \in Writes(r) \cup Removes(r)
    BY <1>7, <2>1
  <2>3. w.version \in Nat /\ batch.version[w.target] \in Nat
    BY <1>2, <2>1, <2>2 DEF TypeOK, Databases
  <2>4. CASE w.target \in Writes(r)
    BY <1>1, <1>2, <1>4, <1>9, <2>2, <2>3, <2>4
  <2>5. CASE w.target \in Removes(r)
    BY <1>2, <1>4, <2>1, <2>2, <2>3, <2>5
  <2>6. QED
    BY <2>2, <2>4, <2>5
<1>14. \A w, x \in db'.consumed \ db.consumed : w.target = x.target /\ w.version = x.version => w = x
  <2> TAKE w, x \in db'.consumed \ db.consumed
  <2>1. w \in Replaced(r) /\ x \in Replaced(r)
    BY <1>2
  <2>2. QED
    BY <1>7, <1>8, <2>1
<1>15. issued' = issued \cup N /\ sequence =< sequence'
  BY <1>1, <1>2, <1>9
<1> HIDE DEF N
<1>16. QED
  BY <1>10, <1>11, <1>12, <1>13, <1>14, <1>15, MintingStep

LEMMA VersionsStep ==
  ASSUME Readers = {}, ~AutoRollback, TypeOK, TypeOK', VersionsInv, [Next]_vars
  PROVE  VersionsInv'
<1>0. /\ db \in Databases /\ sequence \in Nat /\ serial \in Nat /\ clock \in Nat
      /\ saved \in Seq([db : Databases, sequence : Nat])
  BY DEF TypeOK
<1> DEFINE Saves == [db : Databases, sequence : Nat]
<1>1. ASSUME NEW t \in Targets, GetVersioned(t) PROVE VersionsInv'
  <2>1. Cardinality({t}) = 1
    BY FS_Singleton
  <2>2. /\ db' = Looked(db, {t}) /\ sequence' = sequence + Cardinality({t})
        /\ issued' = issued \cup Tokens(db', {t}) /\ saved' = saved
    BY <1>1, <2>1 DEF GetVersioned
  <2>3. QED
    BY <1>0, <2>2, ConflictStep
<1>2. ASSUME NEW t \in Targets, Set(t) PROVE VersionsInv'
  <2> DEFINE N == Tokens(db', {t})
  <2>1. /\ db'.version = [db.version EXCEPT ![t] = sequence + 1]
        /\ db'.content = [db.content EXCEPT ![t] = serial + 1]
        /\ db'.consumed = db.consumed
        /\ db.version \in [Targets -> Nat] /\ db.content \in [Targets -> Nat]
    BY <1>0, <1>2, SetFacts DEF Databases
  <2>2. N = {[token |-> db'.version[t], target |-> t, content |-> db'.content[t]]}
    BY DEF Tokens
  <2>3. db'.version[t] = sequence + 1
    BY <2>1
  <2>4. sequence' = sequence + 1 /\ issued' = issued \cup N /\ saved' = saved
    BY <1>2 DEF Set
  <2> HIDE DEF N
  <2>5. /\ \A i \in N : sequence < i.token /\ i.token =< sequence'
        /\ \A i, j \in N : i.token = j.token => i = j
    BY <1>0, <2>2, <2>3, <2>4
  <2>6. \A u \in Targets :
          \/ db'.version[u] = db.version[u] /\ db'.content[u] = db.content[u]
          \/ db'.version[u] = 0
          \/ [token |-> db'.version[u], target |-> u, content |-> db'.content[u]] \in N
    BY <2>1, <2>2
  <2>7. sequence =< sequence'
    BY <1>0, <2>4
  <2>8. QED
    BY <2>1, <2>4, <2>5, <2>6, <2>7, MintingStep
<1>3. ASSUME NEW t \in Targets, Delete(t) PROVE VersionsInv'
  <2>1. /\ db'.version = [db.version EXCEPT ![t] = 0]
        /\ db'.content = db.content /\ db'.consumed = db.consumed
        /\ issued' = issued \cup {} /\ sequence' = sequence /\ saved' = saved
        /\ db.version \in [Targets -> Nat]
    BY <1>0, <1>3 DEF Delete, Databases
  <2>2. sequence =< sequence'
    BY <1>0, <2>1
  <2>3. QED
    BY <2>1, <2>2, MintingStep
<1>4. ASSUME NEW k \in Keys \cup {NoKey}, NEW r \in Requests, MutateAtomically(k, r)
      PROVE  VersionsInv'
  <2>1. PICK d \in IF k = NoKey THEN {db} ELSE Pruned(db) :
               Answered(d, k) \/ Conflict(d, k, r) \/ Applied(d, k, r)
    BY <1>4 DEF MutateAtomically
  <2>2. /\ d \in Databases /\ d.version = db.version
        /\ d.content = db.content /\ d.consumed = db.consumed
    BY <1>0, PrunedFacts
  <2>3. saved' = saved /\ HoldsItsTokens(r)
    BY <1>4 DEF MutateAtomically
  <2>4. CASE Answered(d, k)
    BY <2>2, <2>3, <2>4 DEF Answered, VersionsInv, Sound
  <2>5. CASE Conflict(d, k, r)
    BY <2>2, <2>3, <2>5, RequestFacts, ConflictStep DEF Conflict
  <2>6. CASE Applied(d, k, r)
    BY <2>2, <2>3, <2>6, AppliedStep
  <2>7. QED
    BY <2>1, <2>4, <2>5, <2>6
<1>5. CASE PruneExpiredReceipts
  <2>1. /\ db'.version = db.version /\ db'.content = db.content /\ db'.consumed = db.consumed
        /\ issued' = issued /\ sequence' = sequence /\ saved' = saved
    BY <1>0, <1>5, PrunedFacts DEF PruneExpiredReceipts
  <2>2. QED
    BY <2>1 DEF VersionsInv, Sound
<1>6. CASE Begin
  <2> DEFINE save == [db |-> db, sequence |-> sequence]
  <2>1. /\ saved' = Append(saved, save)
        /\ db' = db /\ sequence' = sequence /\ issued' = issued
    BY <1>6 DEF Begin
  <2>2. save.db = db /\ save.sequence = sequence
    OBVIOUS
  <2> HIDE DEF save
  <2>3. ASSUME NEW j \in 1..Len(saved')
        PROVE  /\ saved'[j].sequence =< sequence
               /\ Sound(saved'[j].db, saved'[j].sequence, issued)
    <3>1. CASE j \in 1..Len(saved)
      <4>1. saved'[j] = saved[j]
        BY <1>0, <2>1, <3>1
      <4>2. QED
        BY <3>1, <4>1 DEF VersionsInv
    <3>2. CASE j \notin 1..Len(saved)
      <4>1. saved'[j] = save
        BY <1>0, <2>1, <3>2
      <4>2. QED
        BY <1>0, <2>2, <4>1 DEF VersionsInv
    <3>3. QED
      BY <3>1, <3>2
  <2>4. QED
    BY <2>1, <2>3 DEF VersionsInv
<1>7. ASSUME saved # <<>>
      PROVE  /\ saved[1] \in Saves /\ saved[Len(saved)] \in Saves
             /\ Sound(saved[1].db, saved[1].sequence, issued)
             /\ saved[1].sequence =< sequence
             /\ Sound(saved[Len(saved)].db, saved[Len(saved)].sequence, issued)
             /\ saved[Len(saved)].sequence =< sequence
  <2>1. Len(saved) \in Nat \ {0} /\ saved[1] \in Saves /\ saved[Len(saved)] \in Saves
    BY <1>0, <1>7, SequenceFacts
  <2>2. 1 \in 1..Len(saved) /\ Len(saved) \in 1..Len(saved)
    BY <2>1
  <2>3. QED
    BY <2>1, <2>2 DEF VersionsInv
<1>8. ASSUME saved # <<>>, saved' = SubSeq(saved, 1, Len(saved) - 1),
             sequence' = sequence, issued' = issued
      PROVE  \A j \in 1..Len(saved') : /\ saved'[j].sequence =< sequence'
                                      /\ Sound(saved'[j].db, saved'[j].sequence, issued')
  <2>1. /\ Len(saved) \in Nat \ {0} /\ Len(saved') = Len(saved) - 1
        /\ \A j \in 1..Len(saved) - 1 : saved'[j] = saved[j]
    BY <1>0, <1>8, SequenceFacts
  <2>2. ASSUME NEW j \in 1..Len(saved') PROVE j \in 1..Len(saved) /\ saved'[j] = saved[j]
    BY <2>1
  <2>3. QED
    BY <1>8, <2>2 DEF VersionsInv
<1>9. CASE Keep
  <2>1. /\ saved # <<>> /\ saved' = SubSeq(saved, 1, Len(saved) - 1)
        /\ db' = db /\ sequence' = sequence /\ issued' = issued
    BY <1>9 DEF Keep
  <2>2. QED
    BY <1>8, <2>1 DEF VersionsInv
<1>10. CASE RollBack
  <2>1. /\ saved # <<>> /\ saved' = SubSeq(saved, 1, Len(saved) - 1)
        /\ db' = saved[Len(saved)].db /\ issued' = issued
        /\ sequence' = KeepVersionsMinted(sequence, saved[Len(saved)].sequence)
    BY <1>10 DEF RollBack
  <2>2. sequence' = sequence
    <3>1. saved[Len(saved)].sequence \in Nat /\ saved[Len(saved)].sequence =< sequence
      BY <1>7, <2>1
    <3>2. QED
      BY <1>0, <2>1, <3>1 DEF KeepVersionsMinted
  <2>3. Sound(db', sequence', issued')
    BY <1>0, <1>7, <2>1, <2>2, SoundGrows
  <2>4. QED
    BY <1>8, <2>1, <2>2, <2>3 DEF VersionsInv
<1>11. CASE Crash
  <2>1. /\ saved # <<>> /\ saved' = <<>>
        /\ db' = saved[1].db /\ sequence' = saved[1].sequence
        /\ issued' = {i \in issued : i.token =< sequence'}
    BY <1>11 DEF Crash
  <2>2. db' \in Databases /\ Sound(db', sequence', issued)
    BY <1>7, <2>1
  <2>3. Sound(db', sequence', issued')
    BY <2>1, <2>2 DEF Sound
  <2>4. QED
    BY <2>1, <2>3 DEF VersionsInv
<1>12. CASE RolledBackBySqlite
  BY <1>12 DEF RolledBackBySqlite
<1>13. CASE Tick
  BY <1>13 DEF Tick, VersionsInv
<1>14. CASE UNCHANGED vars
  BY <1>14 DEF vars, VersionsInv
<1>15. QED
  BY <1>1, <1>2, <1>3, <1>4, <1>5, <1>6, <1>9, <1>10, <1>11, <1>12, <1>13, <1>14 DEF Next

LEMMA VersionsHold ==
  ASSUME Readers = {}, ~AutoRollback
  PROVE  Spec => [](TypeOK /\ VersionsInv)
<1>1. Init => VersionsInv
  <2> SUFFICES ASSUME Init PROVE VersionsInv
    OBVIOUS
  <2>1. /\ \A t \in Targets : db.version[t] = 0
        /\ db.consumed = {} /\ sequence = 0 /\ saved = <<>> /\ issued = {}
    BY DEF Init
  <2>2. QED
    BY <2>1 DEF VersionsInv, Sound
<1>2. TypeOK /\ TypeOK' /\ VersionsInv /\ [Next]_vars => VersionsInv'
  BY VersionsStep
<1>3. QED
  BY <1>1, <1>2, TypeCorrect, PTL DEF Spec

(* Where no other process reads outside a transaction and SQLite ends none
   by itself, a version token names one value for ever, through any
   nesting of transactions, rollbacks and crashes. *)
THEOREM TokensStandForOneValueHolds ==
  ASSUME Readers = {}, ~AutoRollback
  PROVE  Spec => []TokensStandForOneValue
<1>1. TypeOK /\ VersionsInv => TokensStandForOneValue
  <2> SUFFICES ASSUME TypeOK, VersionsInv PROVE TokensStandForOneValue
    OBVIOUS
  <2>1. ASSUME NEW i \in issued, NEW t \in Targets, db.version[t] = i.token
        PROVE  t = i.target /\ db.content[t] = i.content
    <3> DEFINE entered == [token |-> db.version[t], target |-> t, content |-> db.content[t]]
    <3>1. 0 < i.token
      BY DEF VersionsInv
    <3>2. entered \in issued /\ entered.token = i.token
      BY <2>1, <3>1 DEF VersionsInv, Sound
    <3>3. entered = i
      BY <3>2 DEF VersionsInv
    <3>4. QED
      BY <3>3
  <2>2. QED
    BY <2>1 DEF TokensStandForOneValue, VersionsInv
<1>2. QED
  BY <1>1, VersionsHold, PTL

(* Under the same conditions, of all batches conditioned on one version of
   a target, at most one is ever in force. *)
THEOREM OneWinnerPerVersionHolds ==
  ASSUME Readers = {}, ~AutoRollback
  PROVE  Spec => []OneWinnerPerVersion
<1>1. VersionsInv => OneWinnerPerVersion
  BY DEF VersionsInv, Sound, OneWinnerPerVersion
<1>2. QED
  BY <1>1, VersionsHold, PTL

--------------------
(* Receipts, whoever reads meanwhile and however transactions end: the
   tables and every savepoint hold the receipts of what they keep, and no
   savepoint has seen a key applied later than the tables have. *)

AnswersRetries(d, now) ==
  \A k \in Keys :
    LET at == d.applied[k].at IN
    IF at = Never THEN d.receipt[k] = NoReceipt
    ELSE (RetentionMs >= 0 /\ at # Unstamped => now - at =< RetentionMs)
           => d.receipt[k] # NoReceipt /\ d.receipt[k].created = at

NotAppliedSince(d, e) == \A k \in Keys : d.applied[k].by =< e.applied[k].by

ReceiptsInv ==
  /\ AnswersRetries(db, clock)
  /\ \A k \in Keys : db.applied[k].by =< serial
  /\ \A j \in 1..Len(saved) : AnswersRetries(saved[j].db, clock) /\ NotAppliedSince(saved[j].db, db)
  /\ \A i, j \in 1..Len(saved) : i < j => NotAppliedSince(saved[i].db, saved[j].db)

WindowIsOver(d, k) ==
  \/ d.applied[k].at = Never
  \/ RetentionMs >= 0 /\ d.applied[k].at # Unstamped /\ clock - d.applied[k].at > RetentionMs

LEMMA DatabaseFields ==
  ASSUME NEW d \in Databases, NEW k \in Keys
  PROVE  /\ d.applied[k].by \in Nat
         /\ d.applied[k].at \in Int \cup {Unstamped, Never}
         /\ d.receipt[k] # NoReceipt => /\ d.receipt[k] \in Receipts
                                        /\ d.receipt[k].created \in Int \cup {Unstamped}
  BY DEF Databases, Moments, Receipts

LEMMA AppliedSinceIsTransitive ==
  ASSUME NEW d \in Databases, NEW e \in Databases, NEW f \in Databases,
         NotAppliedSince(d, e), NotAppliedSince(e, f)
  PROVE  NotAppliedSince(d, f)
<1> SUFFICES ASSUME NEW k \in Keys PROVE d.applied[k].by =< f.applied[k].by
  BY DEF NotAppliedSince
<1>1. d.applied[k].by \in Nat /\ e.applied[k].by \in Nat /\ f.applied[k].by \in Nat
  BY DatabaseFields
<1>2. QED
  BY <1>1 DEF NotAppliedSince

(* A window that has passed stays passed. *)
LEMMA AnswersLater ==
  ASSUME NEW d \in Databases, NEW now \in Nat, NEW later \in Nat, now =< later,
         AnswersRetries(d, now)
  PROVE  AnswersRetries(d, later)
<1> USE MarkersAssumption, BoundsAssumption
<1> SUFFICES ASSUME NEW k \in Keys, NEW at, at = d.applied[k].at
             PROVE  IF at = Never THEN d.receipt[k] = NoReceipt
                    ELSE (RetentionMs >= 0 /\ at # Unstamped => later - at =< RetentionMs)
                           => d.receipt[k] # NoReceipt /\ d.receipt[k].created = at
  BY DEF AnswersRetries
<1>1. at \in Int \cup {Unstamped, Never}
  BY DatabaseFields
<1>2. IF at = Never THEN d.receipt[k] = NoReceipt
      ELSE (RetentionMs >= 0 /\ at # Unstamped => now - at =< RetentionMs)
             => d.receipt[k] # NoReceipt /\ d.receipt[k].created = at
  BY DEF AnswersRetries
<1>3. QED
  BY <1>1, <1>2

(* A key that nothing answers for was never applied, or too long ago. *)
LEMMA UnansweredMeansOver ==
  ASSUME NEW d \in Databases, clock \in Nat, AnswersRetries(d, clock),
         NEW k \in Keys, ReadReceipt(d, k, clock) = NoReceipt
  PROVE  WindowIsOver(d, k)
<1> USE MarkersAssumption, BoundsAssumption
<1> DEFINE at == d.applied[k].at
<1>1. IF at = Never THEN d.receipt[k] = NoReceipt
      ELSE (RetentionMs >= 0 /\ at # Unstamped => clock - at =< RetentionMs)
             => d.receipt[k] # NoReceipt /\ d.receipt[k].created = at
  BY DEF AnswersRetries
<1>2. d.receipt[k] = NoReceipt \/ IsReceiptExpired(d.receipt[k].created, clock)
  BY DEF ReadReceipt
<1>3. at \in Int \cup {Unstamped, Never}
  BY DatabaseFields
<1> HIDE DEF at
<1>4. at = Never \/ (RetentionMs >= 0 /\ at # Unstamped /\ clock - at > RetentionMs)
  BY <1>1, <1>2, <1>3 DEF IsReceiptExpired
<1>5. QED
  BY <1>4 DEF WindowIsOver, at

(* Stamping dates the receipt and what it stands for alike. *)
LEMMA StampedReceipts ==
  ASSUME NEW d \in Databases, clock \in Nat, AnswersRetries(d, clock),
         NEW S \in SUBSET {k \in Keys : d.receipt[k] # NoReceipt}
  PROVE  /\ AnswersRetries(Stamped(d, S), clock)
         /\ \A k \in Keys :
              /\ Stamped(d, S).applied[k].by = d.applied[k].by
              /\ \/ Stamped(d, S).applied[k].at = d.applied[k].at
                 \/ Stamped(d, S).applied[k].at = clock
<1> USE MarkersAssumption
<1> DEFINE s == Stamped(d, S)
<1> DEFINE receipt == [k \in Keys |-> IF k \in S THEN [d.receipt[k] EXCEPT !.created = clock]
                                      ELSE d.receipt[k]]
           applied == [k \in Keys |-> IF k \in S THEN [d.applied[k] EXCEPT !.at = clock]
                                      ELSE d.applied[k]]
<1>0. s.receipt = receipt /\ s.applied = applied
  <2> HIDE DEF s
  <2>1. s \in Databases /\ s = [d EXCEPT !.receipt = receipt, !.applied = applied]
    BY StampedFacts DEF s, Stamped
  <2> HIDE DEF receipt, applied
  <2>2. QED
    BY <2>1 DEF Databases
<1> HIDE DEF s
<1>1. /\ \A k \in Keys : s.receipt[k] = IF k \in S THEN [d.receipt[k] EXCEPT !.created = clock]
                                       ELSE d.receipt[k]
      /\ \A k \in Keys : s.applied[k] = IF k \in S THEN [d.applied[k] EXCEPT !.at = clock]
                                       ELSE d.applied[k]
  BY <1>0
<1> HIDE DEF receipt, applied
<1>2. ASSUME NEW k \in Keys, k \in S
      PROVE  /\ s.receipt[k] # NoReceipt /\ s.receipt[k].created = clock
             /\ s.applied[k].at = clock /\ s.applied[k].by = d.applied[k].by
  <2>1. d.receipt[k] \in Receipts /\ d.applied[k] \in [at : Moments, by : Nat]
    BY <1>2 DEF Databases
  <2>2. s.receipt[k] = [d.receipt[k] EXCEPT !.created = clock]
    BY <1>1, <1>2
  <2>3. s.receipt[k] \in Receipts /\ s.receipt[k].created = clock
    BY <2>1, <2>2 DEF Receipts
  <2>4. s.applied[k].at = clock /\ s.applied[k].by = d.applied[k].by
    BY <1>1, <1>2, <2>1
  <2>5. QED
    BY <2>3, <2>4
<1>3. ASSUME NEW k \in Keys, k \notin S
      PROVE  s.receipt[k] = d.receipt[k] /\ s.applied[k] = d.applied[k]
  BY <1>1, <1>3
<1>4. AnswersRetries(s, clock)
  BY <1>2, <1>3 DEF AnswersRetries
<1>5. QED
  BY <1>2, <1>3, <1>4 DEF s

(* Pruning takes no receipt that may still have to answer. *)
LEMMA PrunedReceipts ==
  ASSUME NEW d \in Databases, clock \in Nat, AnswersRetries(d, clock), NEW e \in Pruned(d)
  PROVE  /\ AnswersRetries(e, clock)
         /\ \A k \in Keys :
              /\ e.applied[k].by = d.applied[k].by
              /\ \/ e.applied[k].at = d.applied[k].at
                 \/ RetentionMs >= 0 /\ e.applied[k].at = clock
<1> USE BoundsAssumption, MarkersAssumption
<1>1. CASE RetentionMs < 0
  BY <1>1 DEF Pruned
<1>2. CASE ~(RetentionMs < 0)
  <2>1. PICK S \in AtMost(With(d, {Unstamped}), PruneBatch) :
               \E T \in OldestExpired(Stamped(d, S)) : e = Without(Stamped(d, S), T)
    BY <1>2 DEF Pruned
  <2>2. PICK T \in OldestExpired(Stamped(d, S)) : e = Without(Stamped(d, S), T)
    BY <2>1
  <2>3. S \in SUBSET {k \in Keys : d.receipt[k] # NoReceipt}
    BY DEF AtMost, With
  <2> DEFINE s == Stamped(d, S)
             receipt == [k \in Keys |-> IF k \in T THEN NoReceipt ELSE s.receipt[k]]
  <2>4. /\ s \in Databases /\ AnswersRetries(s, clock)
        /\ \A k \in Keys : /\ s.applied[k].by = d.applied[k].by
                           /\ s.applied[k].at = d.applied[k].at \/ s.applied[k].at = clock
    BY <2>3, StampedFacts, StampedReceipts
  <2>5. \A k \in T : s.receipt[k] # NoReceipt /\ IsReceiptExpired(s.receipt[k].created, clock)
    BY <2>2 DEF OldestExpired, AtMost, With
  <2>6. e = [s EXCEPT !.receipt = receipt]
    BY <2>2 DEF Without
  <2> HIDE DEF s
  <2>7. e.receipt = receipt /\ e.applied = s.applied
    BY <2>4, <2>6 DEF Databases
  <2>8. ASSUME NEW k \in Keys, NEW at, at = s.applied[k].at
        PROVE  IF at = Never THEN e.receipt[k] = NoReceipt
               ELSE (RetentionMs >= 0 /\ at # Unstamped => clock - at =< RetentionMs)
                      => e.receipt[k] # NoReceipt /\ e.receipt[k].created = at
    <3>1. IF at = Never THEN s.receipt[k] = NoReceipt
          ELSE (RetentionMs >= 0 /\ at # Unstamped => clock - at =< RetentionMs)
                 => s.receipt[k] # NoReceipt /\ s.receipt[k].created = at
      BY <2>4, <2>8 DEF AnswersRetries
    <3>2. CASE k \in T
      <4>1. at \in Int \cup {Unstamped, Never}
        BY <2>4, <2>8, DatabaseFields
      <4>2. QED
        BY <2>5, <2>7, <3>1, <3>2, <4>1 DEF IsReceiptExpired
    <3>3. CASE k \notin T
      BY <2>7, <3>1, <3>3
    <3>4. QED
      BY <3>2, <3>3
  <2>9. AnswersRetries(e, clock)
    BY <2>7, <2>8 DEF AnswersRetries
  <2>10. QED
    BY <1>2, <2>4, <2>7, <2>9
<1>3. QED
  BY <1>1, <1>2

LEMMA ReceiptWritten ==
  ASSUME NEW d \in Databases, NEW k \in Keys, NEW r \in Requests, k # NoKey
  PROVE  /\ WriteReceipt(d, k, r).receipt =
              [d.receipt EXCEPT ![k] = [request |-> r, created |-> clock]]
         /\ WriteReceipt(d, k, r).applied =
              [d.applied EXCEPT ![k] = [at |-> clock, by |-> serial + 1]]
  BY DEF WriteReceipt, Databases

(* What mutateAtomically does to receipts: it applies a key only if its
   window is over, and leaves a receipt for what it applied. *)
LEMMA MutationReceipts ==
  ASSUME TypeOK, ReceiptsInv, NEW k \in Keys \cup {NoKey}, NEW r \in Requests,
         MutateAtomically(k, r)
  PROVE  /\ AnswersRetries(db', clock)
         /\ \A l \in Keys : db'.applied[l].by =< serial'
         /\ \A l \in Keys : /\ db.applied[l].by =< db'.applied[l].by
                            /\ db'.applied[l].by > db.applied[l].by => WindowIsOver(db, l)
<1> USE BoundsAssumption, MarkersAssumption
<1>0. /\ db \in Databases /\ serial \in Nat /\ clock \in Nat
      /\ AnswersRetries(db, clock) /\ \A l \in Keys : db.applied[l].by =< serial
  BY DEF TypeOK, ReceiptsInv
<1>1. PICK d \in IF k = NoKey THEN {db} ELSE Pruned(db) :
             Answered(d, k) \/ Conflict(d, k, r) \/ Applied(d, k, r)
  BY DEF MutateAtomically
<1>2. /\ d \in Databases
      /\ AnswersRetries(d, clock)
      /\ \A l \in Keys : /\ d.applied[l].by = db.applied[l].by
                         /\ \/ d.applied[l].at = db.applied[l].at
                            \/ RetentionMs >= 0 /\ d.applied[l].at = clock
  BY <1>0, PrunedFacts, PrunedReceipts
<1>3. \A l \in Keys : d.applied[l].by \in Nat /\ db.applied[l].by \in Nat
  BY <1>0, <1>2, DatabaseFields
<1>4. ASSUME db'.receipt = d.receipt, db'.applied = d.applied, serial' = serial
      PROVE  /\ AnswersRetries(db', clock)
             /\ \A l \in Keys : db'.applied[l].by =< serial'
             /\ \A l \in Keys : db'.applied[l].by = db.applied[l].by
  BY <1>0, <1>2, <1>4 DEF AnswersRetries
<1>5. CASE Answered(d, k)
  BY <1>3, <1>4, <1>5 DEF Answered
<1>6. CASE Conflict(d, k, r)
  <2>1. db'.receipt = d.receipt /\ db'.applied = d.applied /\ serial' = serial
    BY <1>0, <1>2, <1>6, RequestFacts, LookedFacts DEF Conflict, TypeOK
  <2>2. QED
    BY <1>3, <1>4, <2>1
<1>7. CASE Applied(d, k, r)
  <2> DEFINE looked == Looked(d, Unversioned(d, DOMAIN r.conditions))
             batch == Batch(looked, r,
                            sequence + Cardinality(Unversioned(d, DOMAIN r.conditions)))
  <2>1. /\ batch \in Databases /\ batch.receipt = d.receipt /\ batch.applied = d.applied
        /\ db'.receipt = WriteReceipt(batch, k, r).receipt
        /\ db'.applied = WriteReceipt(batch, k, r).applied
    BY <1>2, <1>7, AppliedFacts
  <2>2. serial' = serial + 1
    BY <1>7 DEF Applied
  <2> HIDE DEF batch
  <2>3. CASE k = NoKey
    <3>1. db'.receipt = d.receipt /\ db'.applied = d.applied
      BY <2>1, <2>3 DEF WriteReceipt
    <3>2. QED
      BY <1>0, <1>2, <1>3, <2>2, <3>1 DEF AnswersRetries
  <2>4. CASE k # NoKey
    <3>1. k \in Keys
      BY <2>4
    <3>2. /\ db'.receipt = [d.receipt EXCEPT ![k] = [request |-> r, created |-> clock]]
          /\ db'.applied = [d.applied EXCEPT ![k] = [at |-> clock, by |-> serial + 1]]
      BY <2>1, <2>4, <3>1, ReceiptWritten
    <3>3. /\ d.receipt \in [Keys -> Receipts \cup {NoReceipt}]
          /\ d.applied \in [Keys -> [at : Moments, by : Nat]]
      BY <1>2 DEF Databases
    <3>4. /\ db'.receipt[k] = [request |-> r, created |-> clock]
          /\ db'.applied[k] = [at |-> clock, by |-> serial + 1]
          /\ \A l \in Keys : l # k => /\ db'.receipt[l] = d.receipt[l]
                                      /\ db'.applied[l] = d.applied[l]
      BY <3>1, <3>2, <3>3
    <3>5. db'.receipt[k] # NoReceipt /\ db'.receipt[k].created = clock
      <4>1. [request |-> r, created |-> clock] \in Receipts
        BY <1>0 DEF Receipts
      <4>2. QED
        BY <3>4, <4>1
    <3>6. AnswersRetries(db', clock)
      <4>1. clock # Never /\ db'.applied[k].at = clock
        BY <1>0, <3>4
      <4>2. QED
        BY <1>2, <3>4, <3>5, <4>1 DEF AnswersRetries
    <3>7. WindowIsOver(d, k)
      BY <1>0, <1>2, <1>7, <2>4, <3>1, UnansweredMeansOver DEF Applied
    <3>8. WindowIsOver(db, k)
      <4>1. d.applied[k].at = db.applied[k].at \/ (RetentionMs >= 0 /\ d.applied[k].at = clock)
        BY <1>2, <3>1
      <4>2. d.applied[k].at # clock \/ RetentionMs < 0
        BY <1>0, <3>7 DEF WindowIsOver
      <4>3. d.applied[k].at = db.applied[k].at
        BY <4>1, <4>2
      <4>4. QED
        BY <3>7, <4>3 DEF WindowIsOver
    <3>9. /\ db'.applied[k].by = serial + 1
          /\ \A l \in Keys : l # k => db'.applied[l].by = db.applied[l].by
      BY <1>2, <3>4
    <3>10. QED
      BY <1>0, <1>3, <2>2, <3>1, <3>6, <3>8, <3>9
  <2>5. QED
    BY <2>3, <2>4
<1>8. QED
  BY <1>1, <1>5, <1>6, <1>7

LEMMA SavedDatabase ==
  ASSUME TypeOK, NEW j \in 1..Len(saved)
  PROVE  saved[j].db \in Databases
<1> DEFINE Saves == [db : Databases, sequence : Nat]
<1>1. saved \in Seq(Saves)
  BY DEF TypeOK
<1>2. saved[j] \in Saves
  <2> HIDE DEF Saves
  <2>1. QED
    BY <1>1
<1>3. QED
  BY <1>2

(* Everything that writes outside of a rollback goes forward. *)
LEMMA ReceiptsGoOn ==
  ASSUME TypeOK, TypeOK', ReceiptsInv, saved' = saved, clock' = clock,
         AnswersRetries(db', clock),
         \A k \in Keys : db'.applied[k].by =< serial',
         \A k \in Keys : db.applied[k].by =< db'.applied[k].by
  PROVE  ReceiptsInv'
<1>1. db \in Databases /\ db' \in Databases /\ saved \in Seq([db : Databases, sequence : Nat])
  BY DEF TypeOK
<1>2. NotAppliedSince(db, db')
  BY DEF NotAppliedSince
<1>3. ASSUME NEW j \in 1..Len(saved) PROVE NotAppliedSince(saved[j].db, db')
  <2>1. saved[j].db \in Databases /\ NotAppliedSince(saved[j].db, db)
    BY SavedDatabase DEF ReceiptsInv
  <2>2. QED
    BY <1>1, <1>2, <2>1, AppliedSinceIsTransitive
<1>4. QED
  BY <1>3 DEF ReceiptsInv

(* A step that changes neither receipts nor what they stand for. *)
LEMMA ReceiptsUntouched ==
  ASSUME TypeOK, TypeOK', ReceiptsInv, saved' = saved, clock' = clock,
         db'.receipt = db.receipt, db'.applied = db.applied, serial =< serial'
  PROVE  ReceiptsInv'
<1>1. AnswersRetries(db', clock)
  BY DEF ReceiptsInv, AnswersRetries
<1>2. ASSUME NEW k \in Keys
      PROVE  db'.applied[k].by =< serial' /\ db.applied[k].by =< db'.applied[k].by
  <2>1. db.applied[k].by \in Nat /\ serial \in Nat /\ serial' \in Nat
    BY DatabaseFields DEF TypeOK
  <2>2. QED
    BY <2>1 DEF ReceiptsInv
<1>3. QED
  BY <1>1, <1>2, ReceiptsGoOn

LEMMA ReceiptsStep ==
  ASSUME TypeOK, TypeOK', ReceiptsInv, [Next]_vars
  PROVE  /\ ReceiptsInv'
         /\ \A k \in Keys : db'.applied[k].by > db.applied[k].by => WindowIsOver(db, k)
<1>0. /\ db \in Databases /\ sequence \in Nat /\ serial \in Nat /\ serial' \in Nat
      /\ clock \in Nat /\ clock' \in Nat
      /\ saved \in Seq([db : Databases, sequence : Nat])
      /\ \A k \in Keys : db.applied[k].by \in Nat
  BY DatabaseFields DEF TypeOK
<1> DEFINE Forward == \A k \in Keys : db'.applied[k].by > db.applied[k].by => WindowIsOver(db, k)
<1>1. ASSUME db'.applied = db.applied PROVE Forward
  BY <1>0, <1>1
<1>2. ASSUME NEW t \in Targets, GetVersioned(t) \/ Set(t) \/ Delete(t) PROVE ReceiptsInv' /\ Forward
  <2>1. db'.receipt = db.receipt /\ db'.applied = db.applied
    <3>1. CASE GetVersioned(t)
      BY <1>0, <3>1, LookedFacts DEF GetVersioned
    <3>2. CASE Set(t)
      BY <1>0, <3>2, SetFacts
    <3>3. CASE Delete(t)
      BY <1>0, <3>3 DEF Delete, Databases
    <3>4. QED
      BY <1>2, <3>1, <3>2, <3>3
  <2>2. saved' = saved /\ clock' = clock /\ serial =< serial'
    BY <1>0, <1>2 DEF GetVersioned, Set, Delete
  <2>3. QED
    BY <1>1, <2>1, <2>2, ReceiptsUntouched
<1>3. ASSUME NEW p \in Readers, (\E t \in Targets : Look(p, t)) \/ Mint(p) \/ Enter(p)
      PROVE  ReceiptsInv' /\ Forward
  <2>1. db'.receipt = db.receipt /\ db'.applied = db.applied
    <3>1. CASE Enter(p)
      <4>1. db' = [db EXCEPT !.version[looking[p].target] = looking[p].token]
        BY <3>1 DEF Enter
      <4>2. QED
        BY <1>0, <4>1 DEF Databases
    <3>2. CASE (\E t \in Targets : Look(p, t)) \/ Mint(p)
      BY <3>2 DEF Look, Mint
    <3>3. QED
      BY <1>3, <3>1, <3>2
  <2>2. saved' = saved /\ clock' = clock /\ serial =< serial'
    <3>1. UNCHANGED <<saved, serial, clock>>
      <4>1. CASE Enter(p) \/ Mint(p)
        BY <4>1 DEF Enter, Mint
      <4>2. CASE \E t \in Targets : Look(p, t)
        BY <4>2 DEF Look
      <4>3. QED
        BY <1>3, <4>1, <4>2
    <3>2. QED
      BY <1>0, <3>1
  <2>3. QED
    BY <1>1, <2>1, <2>2, ReceiptsUntouched
<1>4. ASSUME NEW k \in Keys \cup {NoKey}, NEW r \in Requests, MutateAtomically(k, r)
      PROVE  ReceiptsInv' /\ Forward
  <2>1. saved' = saved /\ clock' = clock
    BY <1>4 DEF MutateAtomically
  <2>2. QED
    BY <1>4, <2>1, MutationReceipts, ReceiptsGoOn
<1>5. CASE PruneExpiredReceipts
  <2>1. db' \in Pruned(db) /\ UNCHANGED <<saved, serial, clock>>
    BY <1>5 DEF PruneExpiredReceipts
  <2>2. AnswersRetries(db', clock) /\ \A k \in Keys : db'.applied[k].by = db.applied[k].by
    BY <1>0, <2>1, PrunedReceipts DEF ReceiptsInv
  <2>3. \A k \in Keys : db'.applied[k].by =< serial' /\ db.applied[k].by =< db'.applied[k].by
    BY <1>0, <2>1, <2>2 DEF ReceiptsInv
  <2>4. QED
    BY <1>0, <2>1, <2>2, <2>3, ReceiptsGoOn
<1>6. CASE Begin
  <2> DEFINE save == [db |-> db, sequence |-> sequence]
  <2>1. saved' = Append(saved, save) /\ UNCHANGED <<db, serial, clock>>
    BY <1>6 DEF Begin
  <2>2. save.db = db
    OBVIOUS
  <2> HIDE DEF save
  <2>3. /\ Len(saved) \in Nat /\ Len(saved') = Len(saved) + 1
        /\ \A j \in 1..Len(saved) : saved'[j] = saved[j]
        /\ saved'[Len(saved')] = save
    BY <1>0, <2>1
  <2>4. NotAppliedSince(db, db)
    BY <1>0 DEF NotAppliedSince
  <2>5. ASSUME NEW j \in 1..Len(saved')
        PROVE  AnswersRetries(saved'[j].db, clock) /\ NotAppliedSince(saved'[j].db, db)
    <3>1. CASE j \in 1..Len(saved)
      BY <2>3, <3>1 DEF ReceiptsInv
    <3>2. CASE j = Len(saved')
      BY <2>2, <2>3, <2>4, <3>2 DEF ReceiptsInv
    <3>3. QED
      BY <2>3, <3>1, <3>2
  <2>6. ASSUME NEW i \in 1..Len(saved'), NEW j \in 1..Len(saved'), i < j
        PROVE  NotAppliedSince(saved'[i].db, saved'[j].db)
    <3>1. i \in 1..Len(saved) /\ saved'[i] = saved[i]
      BY <2>3, <2>6
    <3>2. CASE j \in 1..Len(saved)
      BY <2>3, <2>6, <3>1, <3>2 DEF ReceiptsInv
    <3>3. CASE j = Len(saved')
      BY <2>2, <2>3, <3>1, <3>3 DEF ReceiptsInv
    <3>4. QED
      BY <2>3, <3>2, <3>3
  <2>7. QED
    BY <1>1, <2>1, <2>5, <2>6 DEF ReceiptsInv
<1>7. ASSUME saved # <<>>
      PROVE  /\ 1 \in 1..Len(saved) /\ Len(saved) \in 1..Len(saved)
             /\ saved[1].db \in Databases /\ saved[Len(saved)].db \in Databases
  <2>1. 1 \in 1..Len(saved) /\ Len(saved) \in 1..Len(saved)
    BY <1>0, <1>7, SequenceFacts
  <2>2. QED
    BY <2>1, SavedDatabase
<1>8. ASSUME saved # <<>>, saved' = SubSeq(saved, 1, Len(saved) - 1),
             clock' = clock, serial' = serial,
             db' = db \/ db' = saved[Len(saved)].db
      PROVE  ReceiptsInv' /\ Forward
  <2>1. /\ Len(saved) \in Nat \ {0} /\ Len(saved') = Len(saved) - 1
        /\ \A j \in 1..Len(saved) - 1 : saved'[j] = saved[j]
    BY <1>0, <1>8, SequenceFacts
  <2>2. ASSUME NEW j \in 1..Len(saved')
        PROVE  j \in 1..Len(saved) /\ j < Len(saved) /\ saved'[j] = saved[j]
    BY <2>1
  <2>3. \A j \in 1..Len(saved') : /\ AnswersRetries(saved'[j].db, clock)
                                 /\ NotAppliedSince(saved'[j].db, db')
    BY <1>7, <1>8, <2>2 DEF ReceiptsInv
  <2>4. \A i, j \in 1..Len(saved') : i < j => NotAppliedSince(saved'[i].db, saved'[j].db)
    BY <2>2 DEF ReceiptsInv
  <2>5. AnswersRetries(db', clock) /\ NotAppliedSince(db', db)
    <3>1. NotAppliedSince(db, db)
      BY <1>0 DEF NotAppliedSince
    <3>2. QED
      BY <1>7, <1>8, <3>1 DEF ReceiptsInv
  <2>6. ASSUME NEW k \in Keys
        PROVE  /\ db'.applied[k].by =< serial
               /\ ~(db'.applied[k].by > db.applied[k].by)
    <3>1. db'.applied[k].by =< db.applied[k].by /\ db.applied[k].by =< serial
      BY <2>5 DEF NotAppliedSince, ReceiptsInv
    <3>2. db'.applied[k].by \in Nat
      BY <1>7, <1>8, <1>0, DatabaseFields
    <3>3. QED
      BY <1>0, <3>1, <3>2
  <2>7. QED
    BY <1>8, <2>3, <2>4, <2>5, <2>6 DEF ReceiptsInv
<1>9. CASE Keep \/ RollBack
  BY <1>8, <1>9 DEF Keep, RollBack
<1>10. CASE Crash \/ RolledBackBySqlite
  <2>1. saved # <<>> /\ saved' = <<>> /\ db' = saved[1].db /\ UNCHANGED <<serial, clock>>
    BY <1>10 DEF Crash, RolledBackBySqlite
  <2>2. AnswersRetries(db', clock) /\ NotAppliedSince(db', db) /\ db' \in Databases
    BY <1>7, <2>1 DEF ReceiptsInv
  <2>3. ASSUME NEW k \in Keys
        PROVE  /\ db'.applied[k].by =< serial
               /\ ~(db'.applied[k].by > db.applied[k].by)
    <3>1. db'.applied[k].by =< db.applied[k].by /\ db.applied[k].by =< serial
      BY <2>2 DEF NotAppliedSince, ReceiptsInv
    <3>2. db'.applied[k].by \in Nat
      BY <2>2, DatabaseFields
    <3>3. QED
      BY <1>0, <3>1, <3>2
  <2>4. QED
    BY <2>1, <2>2, <2>3 DEF ReceiptsInv
<1>11. CASE Tick
  <2>1. clock' = clock + 1 /\ UNCHANGED <<db, saved, serial>>
    BY <1>11 DEF Tick
  <2>2. AnswersRetries(db, clock')
    BY <1>0, <2>1, AnswersLater DEF ReceiptsInv
  <2>3. ASSUME NEW j \in 1..Len(saved) PROVE AnswersRetries(saved[j].db, clock')
    <3>1. saved[j].db \in Databases
      BY SavedDatabase
    <3>2. QED
      BY <1>0, <2>1, <3>1, AnswersLater DEF ReceiptsInv
  <2>4. QED
    BY <1>1, <2>1, <2>2, <2>3 DEF ReceiptsInv
<1>12. CASE UNCHANGED vars
  BY <1>1, <1>12 DEF vars, ReceiptsInv
<1>13. QED
  BY <1>2, <1>3, <1>4, <1>5, <1>6, <1>9, <1>10, <1>11, <1>12 DEF Next

LEMMA ReceiptsHold == Spec => [](TypeOK /\ ReceiptsInv)
<1>1. Init => ReceiptsInv
  <2> SUFFICES ASSUME Init PROVE ReceiptsInv
    OBVIOUS
  <2>0. PICK present \in [Targets -> BOOLEAN], old \in SUBSET Keys :
       db = [present  |-> present,
             version  |-> [t \in Targets |-> 0],
             content  |-> [t \in Targets |-> 0],
             receipt  |-> [k \in Keys |-> IF k \in old THEN [request |-> NoKey, created |-> Unstamped]
                                                       ELSE NoReceipt],
             applied  |-> [k \in Keys |-> [at |-> IF k \in old THEN Unstamped ELSE Never, by |-> 0]],
             consumed |-> {}]
    BY DEF Init
  <2>1. /\ db.receipt = [k \in Keys |-> IF k \in old THEN [request |-> NoKey, created |-> Unstamped]
                                        ELSE NoReceipt]
        /\ db.applied = [k \in Keys |-> [at |-> IF k \in old THEN Unstamped ELSE Never, by |-> 0]]
    BY <2>0
  <2>2. [request |-> NoKey, created |-> Unstamped] \in Receipts
    BY DEF Receipts
  <2>3. AnswersRetries(db, clock)
    BY <2>1, <2>2, MarkersAssumption DEF AnswersRetries
  <2>4. \A k \in Keys : db.applied[k].by = 0
    BY <2>1
  <2>5. serial = 0 /\ saved = <<>>
    BY DEF Init
  <2>6. QED
    BY <2>3, <2>4, <2>5 DEF ReceiptsInv
<1>2. TypeOK /\ TypeOK' /\ ReceiptsInv /\ [Next]_vars => ReceiptsInv'
  BY ReceiptsStep
<1>3. QED
  BY <1>1, <1>2, TypeCorrect, PTL DEF Spec

(* A mutation in force and no older than the window has its receipt:
   pruning and every kind of rollback keep or lose the two together. *)
THEOREM InForceMeansAnsweredHolds == Spec => []InForceMeansAnswered
<1>1. ReceiptsInv => InForceMeansAnswered
  BY DEF ReceiptsInv, AnswersRetries, InForceMeansAnswered
<1>2. QED
  BY <1>1, ReceiptsHold, PTL

(* A key is applied a second time only when its window is over, through
   pruning, replays, nested transactions, rollbacks and crashes. *)
THEOREM AppliedOncePerWindowHolds == Spec => AppliedOncePerWindow
<1>1. TypeOK /\ TypeOK' /\ ReceiptsInv /\ [Next]_vars =>
        [\A k \in Keys : db'.applied[k].by > db.applied[k].by
           => \/ db.applied[k].at = Never
              \/ RetentionMs >= 0 /\ db.applied[k].at # Unstamped
                   /\ clock - db.applied[k].at > RetentionMs]_vars
  BY ReceiptsStep DEF WindowIsOver
<1>2. QED
  BY <1>1, ReceiptsHold, PTL DEF Spec, AppliedOncePerWindow

--------------------
(* The IndexedDB adapter *)

Rows == [value : Values, ordinal : Nat]

Versions == Identities \X Nat

Metas == [identity : Identities, nextVersion : Nat, nextOrdinal : Nat]

ReceiptRecords == [digest : Values, created : Nat \cup {Missing}, versions : Seq(Versions \cup {Missing})]

BrowserDatabases ==
  [schema : Nat, rows : [Idb!Targets -> Rows \cup {Missing}], versions : [Idb!Targets -> Versions \cup {Missing}],
   receipts : [PageKeys -> ReceiptRecords \cup {Missing}], meta : Metas \cup {Missing}]

Conditions == [target : Idb!Targets, version : Versions \cup {Missing}]

Calls ==
  [op : {"write"}, target : Idb!Targets, value : Values] \cup [op : {"remove"}, target : Idb!Targets]
  \cup [op : {"mutate"}, key : PageKeys \cup {NoPageKey}, digest : Values, condition : Conditions \cup {Missing},
        writes : Seq(Idb!Targets), removes : SUBSET Idb!Targets]
  \cup [op : {"prune", "export", "import"}]

Results ==
  [status : {"none", "done", "rejected", "replayed", "idempotency-conflict", "conflict", "applied"},
   versions : Seq(Versions \cup {Missing})]

CallStates ==
  [at : Nat \ {0}, pc : {"idle", "made", "finished", "ended"}, now : Nat,
   draft : BrowserDatabases \cup {Missing}, result : Results]

(* No two targets share a version, no two records an ordinal. *)
Distinct(d) ==
  /\ \A t, u \in Idb!Targets : d.versions[t] # Missing /\ d.versions[t] = d.versions[u] => t = u
  /\ \A t, u \in RecordTargets :
       d.rows[t] # Missing /\ d.rows[u] # Missing /\ d.rows[t].ordinal = d.rows[u].ordinal => t = u

Paired(d) == \A t \in Idb!Targets : d.rows[t] # Missing => d.versions[t] # Missing

SoundDatabase(d) == d \in BrowserDatabases /\ Idb!Valid(d) /\ Distinct(d) /\ (d.schema # 1 => Paired(d))

(* What is asked of the setups: that databases and backups are some that a
   store may have left, and calls name targets and keys that there are. *)
IndexedDbWellFormed ==
  /\ IsFiniteSet(Idb!Targets) /\ KeyTargets \cap RecordTargets = {}
  /\ Pages \subseteq Identities
  /\ WindowMs \in Nat
  /\ Missing \notin Rows \cup Versions \cup Metas \cup ReceiptRecords \cup BrowserDatabases \cup Conditions \cup Nat
  /\ \A s \in Setups : /\ s.work \in [Pages -> Seq(Calls)]
                       /\ SoundDatabase(s.database)
                       /\ s.backup \in BrowserDatabases /\ Distinct(s.backup)

--------------------
(* The invariant *)

Typed ==
  /\ setup \in Setups
  /\ SoundDatabase(database)
  /\ backup \in BrowserDatabases /\ Distinct(backup)
  /\ browserClock \in Nat /\ imports \in Nat
  /\ conn \in [Pages -> {"none", "requested", "open", "closed"}]
  /\ promise \in [Pages -> {"none", "pending", "resolved", "rejected"}]
  /\ unusable \in [Pages -> {"no", "closed", "version-change", "connection-lost"}]
  /\ line \in Seq(Pages)
  /\ call \in [Pages -> CallStates]

(* A connection is open for an adapter in use, and the schema is current
   while one is, or a transaction waits. *)
Connected(p) ==
  /\ promise[p] = "none" => conn[p] = "none"
  /\ conn[p] = "requested" => promise[p] \in {"pending", "rejected"}
  /\ conn[p] = "open" <=> promise[p] = "resolved" /\ unusable[p] = "no"
  /\ unusable[p] # "no" => promise[p] = "resolved"
  /\ promise[p] = "pending" => conn[p] = "requested"
  /\ call[p].pc # "idle" => promise[p] = "resolved"

Connections ==
  /\ \A p \in Pages : Connected(p)
  /\ line # <<>> \/ (\E p \in Pages : conn[p] = "open") => database.schema = Idb!SchemaVersion

(* The line holds the transactions under way, once each, as their times
   were read. *)
InLine(p) == call[p].pc \in {"made", "finished"}

Lines ==
  /\ \A i \in DOMAIN line : InLine(line[i])
  /\ \A p \in Pages : InLine(p) => \E i \in DOMAIN line : line[i] = p
  /\ \A i, j \in DOMAIN line : i < j => line[i] # line[j] /\ call[line[i]].now <= call[line[j]].now
  /\ \A p \in Pages : call[p].now <= browserClock
  /\ \A p \in Pages : InLine(p) => call[p].at \in 1 .. Len(setup.work[p])

(* What a transaction that is not an import makes of a database. *)
Extends(d, e) ==
  /\ d.meta # Missing => e.meta # Missing /\ e.meta.nextVersion >= d.meta.nextVersion
  /\ \A t \in Idb!Targets : e.versions[t] # Missing =>
       \/ e.versions[t] = d.versions[t] /\ d.rows[t] # Missing /\ e.rows[t].value = d.rows[t].value
       \/ d.meta # Missing => e.versions[t][2] >= d.meta.nextVersion

Lasts(receipt, now) == receipt # Missing /\ ~Idb!IsExpired(receipt, now)

(* A receipt is left, forgotten when it is over, or written when none is
   in force, for the request that is applied. *)
Forgets(d, e, k, now) == e.receipts[k] = Missing /\ ~Lasts(d.receipts[k], now)

Notes(d, e, k, now) ==
  e.receipts[k] # Missing /\ e.receipts[k].created = now /\ ~Lasts(d.receipts[k], now)

Answers(d, e, o, now, status) ==
  /\ \A k \in PageKeys : e.receipts[k] = d.receipts[k] \/ Forgets(d, e, k, now) \/ Notes(d, e, k, now)
  /\ status = "applied" => o.op = "mutate" /\ (o.key # NoPageKey => Notes(d, e, o.key, now))

IsOutcome(d, e, o, now, status) ==
  /\ SoundDatabase(e) /\ e.schema = d.schema
  /\ o.op # "import" => Extends(d, e) /\ Answers(d, e, o, now, status)
  /\ o.op \in {"import", "export"} => status = "done"
  /\ o.op = "export" => e = d
  /\ status # "rejected"

Drafted(p) ==
  /\ call[p].pc = "made" /\ Idb!Call(p).op = "import" => Idb!Valid(backup)
  /\ call[p].pc = "finished" =>
       line[1] = p /\ IsOutcome(database, call[p].draft, Idb!Call(p), call[p].now, call[p].result.status)

Drafts == \A p \in Pages : Drafted(p)

GivenAtFirst(d) ==
  {g \in Idb!Given(d, 0) : d.schema = 3 \/ g.target \in RecordTargets}
  \cup {[g EXCEPT !.value = "before"] :
          g \in {h \in Idb!Given(d, 0) : d.schema = 1 /\ h.target \in KeyTargets}}

Stand(known) == \A g, h \in known : g.version = h.version /\ g.import = h.import =>
  g.target = h.target /\ g.value = h.value

Counted(known, d, epoch) ==
  \A g \in known : /\ g.import \in Nat /\ g.import <= epoch /\ g.version[2] \in Nat
                   /\ g.import = epoch => d.meta # Missing /\ g.version[2] < d.meta.nextVersion

VersionsNumbered ==
  /\ Stand(given)
  /\ Counted(given, database, imports)
  /\ database.schema = Idb!SchemaVersion => Idb!Given(database, imports) \subseteq given
  /\ database.schema < Idb!SchemaVersion => given = GivenAtFirst(database) /\ imports = 0 /\ requested = {}

(* The times of what may yet be applied. *)
Coming(n) == n = browserClock \/ \E p \in Pages : InLine(p) /\ n = call[p].now

AppliedBy(r) ==
  /\ r.page \in Pages /\ r.at <= call[r.page].at
  /\ r.at = call[r.page].at => call[r.page].pc = "ended" /\ call[r.page].result.status = "applied"
  /\ r.at \in Nat /\ r.now \in Nat /\ r.import \in Nat /\ r.import <= imports
  /\ \A n \in Nat : Coming(n) => r.now <= n

Remembered(r) ==
  r.import = imports /\ r.key # NoPageKey =>
    /\ r.key \in PageKeys
    /\ \/ database.receipts[r.key] # Missing /\ database.receipts[r.key].created \in Nat
          /\ database.receipts[r.key].created >= r.now
       \/ \A n \in Nat : Coming(n) => r.now + WindowMs < n

ReceiptsKept ==
  /\ \A r \in requested : AppliedBy(r) /\ Remembered(r)
  /\ Idb!AppliedOncePerWindow

Told == \A p \in Pages : call[p].pc = "ended" =>
  /\ call[p].result.status = "applied" => \E r \in requested : r.page = p /\ r.at = call[p].at

Inductive == Typed /\ Connections /\ Lines /\ Drafts /\ VersionsNumbered /\ ReceiptsKept /\ Told

(* The adapter counts as everybody does. *)
LEMMA SameCount == \A S : Idb!Cardinality(S) = Cardinality(S)
BY DEF Idb!Cardinality, Cardinality
--------------------
(* What the operations make of a database *)

LEMMA MarksApart ==
  ASSUME IndexedDbWellFormed
  PROVE  /\ Missing \notin Rows /\ Missing \notin Versions /\ Missing \notin Metas
         /\ Missing \notin ReceiptRecords /\ Missing \notin BrowserDatabases /\ Missing \notin Conditions
         /\ Missing \notin Nat
         /\ \A p \in Pages : p \in Identities
BY DEF IndexedDbWellFormed

LEMMA Parts ==
  ASSUME NEW d \in BrowserDatabases
  PROVE  /\ d.schema \in Nat /\ d.rows \in [Idb!Targets -> Rows \cup {Missing}]
         /\ d.versions \in [Idb!Targets -> Versions \cup {Missing}]
         /\ d.receipts \in [PageKeys -> ReceiptRecords \cup {Missing}] /\ d.meta \in Metas \cup {Missing}
         /\ \A t \in Idb!Targets : d.rows[t] # Missing => d.rows[t].ordinal \in Nat /\ d.rows[t].value \in Values
         /\ \A t \in Idb!Targets : d.versions[t] # Missing => d.versions[t] \in Versions /\ d.versions[t][2] \in Nat
         /\ \A t \in Idb!Targets : d.rows[t] \in Rows \cup {Missing} /\ d.versions[t] \in Versions \cup {Missing}
<1>1. /\ d.schema \in Nat /\ d.rows \in [Idb!Targets -> Rows \cup {Missing}]
      /\ d.versions \in [Idb!Targets -> Versions \cup {Missing}]
      /\ d.receipts \in [PageKeys -> ReceiptRecords \cup {Missing}] /\ d.meta \in Metas \cup {Missing}
  BY DEF BrowserDatabases
<1>2. \A t \in Idb!Targets : d.rows[t] \in Rows \cup {Missing} /\ d.versions[t] \in Versions \cup {Missing}
  BY <1>1
<1>3. \A t \in Idb!Targets : d.rows[t] # Missing => d.rows[t].ordinal \in Nat /\ d.rows[t].value \in Values
  BY <1>2 DEF Rows
<1>4. \A t \in Idb!Targets : d.versions[t] # Missing => d.versions[t] \in Versions /\ d.versions[t][2] \in Nat
  BY <1>2 DEF Versions
<1> QED BY <1>1, <1>2, <1>3, <1>4

LEMMA Smaller ==
  ASSUME NEW S, NEW T, IsFiniteSet(S), T \subseteq S, T # S
  PROVE  IsFiniteSet(T) /\ Cardinality(T) \in Nat /\ Cardinality(S) \in Nat /\ Cardinality(T) < Cardinality(S)
<1>1. IsFiniteSet(T) /\ Cardinality(T) \in Nat /\ Cardinality(S) \in Nat
  BY FS_Subset, FS_CardinalityType
<1>2. Cardinality(T) <= Cardinality(S) /\ Cardinality(T) # Cardinality(S)
  BY FS_Subset
<1> QED BY <1>1, <1>2

LEMMA Counters ==
  ASSUME NEW m \in Metas, NEW a \in Nat, NEW b \in Nat
  PROVE  LET n == [m EXCEPT !.nextVersion = @ + a, !.nextOrdinal = @ + b]
         IN  /\ n \in Metas /\ n.identity = m.identity
             /\ n.nextVersion = m.nextVersion + a /\ n.nextOrdinal = m.nextOrdinal + b
<1>1. m.nextVersion + a \in Nat /\ m.nextOrdinal + b \in Nat
  BY DEF Metas
<1> QED BY <1>1 DEF Metas

(* The numbers that new records get. *)
LEMMA NewOrdinals ==
  ASSUME NEW d, NEW writes \in Seq(Idb!Targets)
  PROVE  LET new == Idb!NewRecords(d, writes)
             before(i) == Cardinality({j \in new : j < i})
         IN  /\ Cardinality(new) \in Nat
             /\ \A i \in Nat : before(i) \in Nat
             /\ \A i \in new : before(i) < Cardinality(new)
             /\ \A i, k \in new : before(i) = before(k) => i = k
<1> DEFINE new == Idb!NewRecords(d, writes)
           before(i) == Cardinality({j \in new : j < i})
<1>1. Len(writes) \in Nat /\ DOMAIN writes = 1 .. Len(writes) /\ new \subseteq 1 .. Len(writes)
  BY DEF Idb!NewRecords
<1>2. IsFiniteSet(1 .. Len(writes))
  BY <1>1, FS_Interval
<1>3. IsFiniteSet(new) /\ Cardinality(new) \in Nat
  BY <1>1, <1>2, FS_Subset, FS_CardinalityType
<1>4. \A i \in Nat : IsFiniteSet({j \in new : j < i}) /\ before(i) \in Nat
  <2> SUFFICES ASSUME NEW i \in Nat PROVE IsFiniteSet({j \in new : j < i}) /\ before(i) \in Nat
    OBVIOUS
  <2>1. {j \in new : j < i} \subseteq new
    OBVIOUS
  <2> QED BY <2>1, <1>3, FS_Subset, FS_CardinalityType
<1>5. ASSUME NEW i \in new
      PROVE  before(i) < Cardinality(new)
  <2>0. i \in Nat /\ ~(i < i)
    BY <1>1
  <2>1. {j \in new : j < i} \subseteq new /\ {j \in new : j < i} # new /\ i \in Nat
    <3> HIDE DEF new
    <3> QED BY <2>0
  <2> HIDE DEF new
  <2> QED BY <2>1, <1>3, Smaller
<1>6. ASSUME NEW i \in new, NEW k \in new, i < k
      PROVE  before(i) < before(k)
  <2>1. i \in Nat /\ k \in Nat /\ new \subseteq Nat
    BY <1>1
  <2>2. {j \in new : j < i} \subseteq {j \in new : j < k} /\ {j \in new : j < i} # {j \in new : j < k}
    <3> HIDE DEF new
    <3>1. i \in {j \in new : j < k} /\ i \notin {j \in new : j < i}
      BY <1>6, <2>1
    <3>2. \A j \in new : j < i => j < k
      BY <1>6, <2>1
    <3> QED BY <3>1, <3>2
  <2>3. IsFiniteSet({j \in new : j < k})
    BY <2>1, <1>4
  <2> HIDE DEF new
  <2> QED BY <2>2, <2>3, Smaller
<1>b. \A i \in Nat : before(i) \in Nat
  BY <1>4
<1>7. \A i, k \in new : before(i) = before(k) => i = k
  <2> HIDE DEF new, before
  <2> SUFFICES ASSUME NEW i \in new, NEW k \in new, before(i) = before(k) PROVE i = k
    OBVIOUS
  <2>1. i \in Nat /\ k \in Nat /\ before(i) \in Nat
    BY <1>1, <1>b
  <2>2. ~(i < k) /\ ~(k < i)
    BY <1>6, <2>1
  <2> QED BY <2>1, <2>2
<1> QED BY <1>3, <1>4, <1>5, <1>7

LEMMA WrittenIs ==
  ASSUME IndexedDbWellFormed, NEW d, SoundDatabase(d), d.schema # 1, NEW writes \in Seq(Idb!Targets),
         NEW value \in Values, NEW identity \in Identities
  PROVE  LET e == Idb!Written(d, writes, value, identity)
         IN  SoundDatabase(e) /\ Extends(d, e) /\ e.schema = d.schema /\ e.receipts = d.receipts
<1> DEFINE meta == IF d.meta = Missing THEN Idb!NewMeta(identity) ELSE d.meta
           In(t) == \E i \in DOMAIN writes : writes[i] = t
           pos(t) == CHOOSE i \in DOMAIN writes : writes[i] = t
           rows == [t \in Idb!Targets |-> IF In(t) THEN Idb!Row(value, Idb!Ordinal(d, meta, writes, pos(t))) ELSE d.rows[t]]
           vers == Idb!NewVersions(d, meta, writes)
           new == Idb!NewRecords(d, writes)
           before(i) == Cardinality({j \in new : j < i})
           grown == [meta EXCEPT !.nextVersion = @ + Len(writes), !.nextOrdinal = @ + Cardinality(new)]
           e == Idb!Written(d, writes, value, identity)
<1>1. d \in BrowserDatabases /\ Idb!Valid(d) /\ Distinct(d) /\ Paired(d)
  BY DEF SoundDatabase
<1>d. /\ d.meta \in Metas \cup {Missing} /\ \A t \in Idb!Targets : d.rows[t] \in Rows \cup {Missing} /\ d.versions[t] \in Versions \cup {Missing}
      /\ \A t \in Idb!Targets : d.rows[t] # Missing => d.rows[t].ordinal \in Nat
      /\ \A t \in Idb!Targets : d.versions[t] # Missing => d.versions[t][2] \in Nat
  BY <1>1, Parts
<1>2. meta \in Metas /\ (d.meta # Missing => meta = d.meta)
  BY <1>d DEF Idb!NewMeta, Metas
<1>3. Len(writes) \in Nat /\ DOMAIN writes = 1 .. Len(writes)
  OBVIOUS
<1>4. \A t \in Idb!Targets : In(t) => pos(t) \in 1 .. Len(writes) /\ writes[pos(t)] = t
  BY <1>3
<1>5. /\ Cardinality(new) \in Nat
      /\ \A i \in Nat : before(i) \in Nat
      /\ \A i \in new : before(i) < Cardinality(new)
      /\ \A i, k \in new : before(i) = before(k) => i = k
  BY NewOrdinals
<1>6. /\ grown \in Metas /\ grown.nextVersion = meta.nextVersion + Len(writes)
      /\ grown.nextOrdinal = meta.nextOrdinal + Cardinality(new)
  <2> HIDE DEF meta, new
  <2> QED BY <1>2, <1>3, <1>5, Counters
<1>7. /\ grown \in Metas /\ grown # Missing /\ meta.nextVersion \in Nat /\ meta.nextOrdinal \in Nat
      /\ grown.nextVersion = meta.nextVersion + Len(writes)
      /\ grown.nextOrdinal = meta.nextOrdinal + Cardinality(new) /\ meta.identity \in Identities
  <2> HIDE DEF meta, new, grown
  <2> QED BY <1>2, <1>6, MarksApart DEF Metas
<1>8. \A t \in Idb!Targets :
        /\ In(t) => vers[t] = <<meta.identity, meta.nextVersion + pos(t) - 1>>
        /\ ~In(t) => vers[t] = d.versions[t]
  BY DEF Idb!NewVersions, Idb!Version
<1>9. /\ vers \in [Idb!Targets -> Versions \cup {Missing}]
      /\ \A t \in Idb!Targets : In(t) => /\ vers[t] \in Versions /\ vers[t] # Missing
                                         /\ vers[t][2] = meta.nextVersion + pos(t) - 1
  <2>1. \A t \in Idb!Targets : In(t) => meta.nextVersion + pos(t) - 1 \in Nat
    BY <1>3, <1>4, <1>7
  <2>2. \A t \in Idb!Targets : In(t) => /\ vers[t] \in Versions /\ vers[t] # Missing
                                     /\ vers[t][2] = meta.nextVersion + pos(t) - 1
    <3> SUFFICES ASSUME NEW t \in Idb!Targets, In(t)
                 PROVE  vers[t] \in Versions /\ vers[t] # Missing /\ vers[t][2] = meta.nextVersion + pos(t) - 1
      OBVIOUS
    <3>1. PICK n \in Nat : n = meta.nextVersion + pos(t) - 1
      BY <2>1
    <3>2. vers[t] = <<meta.identity, n>> /\ meta.identity \in Identities
      BY <3>1, <1>7, <1>8
    <3> HIDE DEF vers, meta, pos, In
    <3> QED BY <3>1, <3>2, MarksApart DEF Versions
  <2>3. \A t \in Idb!Targets : vers[t] \in Versions \cup {Missing}
    BY <2>2, <1>d, <1>8
  <2> QED BY <2>2, <2>3 DEF Idb!NewVersions
<1>10. \A t \in Idb!Targets : In(t) => Idb!Ordinal(d, meta, writes, pos(t)) =
         IF t \in KeyTargets THEN 0 ELSE IF d.rows[t] # Missing THEN d.rows[t].ordinal
         ELSE meta.nextOrdinal + before(pos(t))
  BY <1>4, SameCount DEF Idb!Ordinal
<1>11. \A t \in Idb!Targets : In(t) => Idb!Ordinal(d, meta, writes, pos(t)) \in Nat
  <2> SUFFICES ASSUME NEW t \in Idb!Targets, In(t) PROVE Idb!Ordinal(d, meta, writes, pos(t)) \in Nat
    OBVIOUS
  <2>1. d.rows[t] # Missing => d.rows[t].ordinal \in Nat
    BY <1>d
  <2>2. before(pos(t)) \in Nat
    BY <1>3, <1>4, <1>5
  <2>3. meta.nextOrdinal + before(pos(t)) \in Nat
    BY <2>2, <1>7
  <2>4. Idb!Ordinal(d, meta, writes, pos(t)) \in {0, d.rows[t].ordinal, meta.nextOrdinal + before(pos(t))}
        /\ (d.rows[t] = Missing => Idb!Ordinal(d, meta, writes, pos(t)) \in {0, meta.nextOrdinal + before(pos(t))})
    BY <1>10
  <2> HIDE DEF meta, before, new, pos
  <2> QED BY <2>1, <2>2, <2>3, <2>4
<1>12. /\ rows \in [Idb!Targets -> Rows \cup {Missing}]
       /\ \A t \in Idb!Targets : In(t) => /\ rows[t] # Missing
                                          /\ rows[t].ordinal = Idb!Ordinal(d, meta, writes, pos(t))
  <2>1. \A t \in Idb!Targets : In(t) => rows[t] = [value |-> value, ordinal |-> Idb!Ordinal(d, meta, writes, pos(t))]
    BY DEF Idb!Row
  <2>2. \A t \in Idb!Targets : In(t) => rows[t] \in Rows /\ rows[t].ordinal = Idb!Ordinal(d, meta, writes, pos(t))
    <3> SUFFICES ASSUME NEW t \in Idb!Targets, In(t) PROVE rows[t] \in Rows /\ rows[t].ordinal = Idb!Ordinal(d, meta, writes, pos(t))
      OBVIOUS
    <3>1. PICK n \in Nat : n = Idb!Ordinal(d, meta, writes, pos(t))
      BY <1>11
    <3>2. rows[t] = [value |-> value, ordinal |-> n]
      BY <2>1, <3>1
    <3> HIDE DEF rows, meta, pos
    <3> QED BY <3>1, <3>2 DEF Rows
  <2>3. \A t \in Idb!Targets : ~In(t) => rows[t] = d.rows[t] /\ d.rows[t] \in Rows \cup {Missing}
    BY <1>d
  <2> QED BY <2>2, <2>3, MarksApart
<1>13. e = [d EXCEPT !.rows = rows, !.versions = vers, !.meta = grown]
  BY SameCount DEF Idb!Written
<1>14. /\ e \in BrowserDatabases /\ e.rows = rows /\ e.versions = vers /\ e.meta = grown
       /\ e.receipts = d.receipts /\ e.schema = d.schema
  <2> HIDE DEF e, rows, vers, grown, meta
  <2>1. /\ d \in BrowserDatabases /\ rows \in [Idb!Targets -> Rows \cup {Missing}]
        /\ vers \in [Idb!Targets -> Versions \cup {Missing}] /\ grown \in Metas \cup {Missing}
    BY <1>1, <1>7, <1>9, <1>12
  <2>2. e \in BrowserDatabases /\ e.rows = rows /\ e.versions = vers /\ e.meta = grown
    BY <2>1, <1>13 DEF BrowserDatabases
  <2>3. e.receipts = d.receipts /\ e.schema = d.schema
    BY <2>1, <1>13 DEF BrowserDatabases
  <2> QED BY <2>2, <2>3
<1> HIDE DEF e, rows, vers, grown, meta
<1>r. \A t \in Idb!Targets : ~In(t) => rows[t] = d.rows[t]
  BY DEF rows
<1>n. \A t \in RecordTargets : In(t) /\ d.rows[t] = Missing => pos(t) \in new
  BY <1>3, <1>4 DEF Idb!NewRecords, Idb!Targets
<1>m. /\ meta.nextVersion \in Nat /\ meta.nextOrdinal \in Nat /\ Len(writes) \in Nat /\ Cardinality(new) \in Nat
      /\ \A t \in Idb!Targets : In(t) => pos(t) \in Nat /\ pos(t) >= 1 /\ pos(t) <= Len(writes) /\ before(pos(t)) \in Nat
  BY <1>3, <1>4, <1>5, <1>7
<1>k. PICK top \in Nat : top = Cardinality(new)
  BY <1>5
<1> HIDE DEF In, pos, new, before
<1>15. ASSUME NEW t \in Idb!Targets, vers[t] # Missing
       PROVE  /\ rows[t] # Missing
              /\ vers[t][2] \in Nat /\ vers[t][2] < grown.nextVersion
              /\ \/ ~In(t) /\ vers[t] = d.versions[t] /\ d.rows[t] # Missing /\ rows[t] = d.rows[t]
                              /\ (d.meta # Missing /\ vers[t][2] < d.meta.nextVersion)
                 \/ In(t) /\ vers[t][2] = meta.nextVersion + pos(t) - 1 /\ pos(t) \in 1 .. Len(writes)
  <2>1. CASE In(t)
    BY <2>1, <1>3, <1>4, <1>7, <1>9, <1>12, <1>m
  <2>2. CASE ~In(t)
    <3>1. vers[t] = d.versions[t] /\ rows[t] = d.rows[t]
      BY <2>2, <1>8, <1>r
    <3>2. d.rows[t] # Missing /\ d.meta # Missing /\ d.versions[t][2] < d.meta.nextVersion
      BY <3>1, <1>15, <1>1 DEF Idb!Valid
    <3>3. d.versions[t][2] \in Nat
      BY <3>1, <1>15, <1>d
    <3> QED BY <2>2, <3>1, <3>2, <3>3, <1>2, <1>3, <1>7
  <2> QED BY <2>1, <2>2
<1>16. ASSUME NEW t \in RecordTargets, rows[t] # Missing
       PROVE  /\ t \in Idb!Targets /\ t \notin KeyTargets /\ rows[t].ordinal \in Nat /\ rows[t].ordinal < grown.nextOrdinal
              /\ d.rows[t] # Missing => rows[t].ordinal = d.rows[t].ordinal /\ rows[t].ordinal < meta.nextOrdinal
              /\ d.rows[t] = Missing => /\ In(t) /\ pos(t) \in new
                                        /\ rows[t].ordinal = meta.nextOrdinal + before(pos(t))
  <2>1. t \in Idb!Targets /\ t \notin KeyTargets
    BY DEF Idb!Targets, IndexedDbWellFormed
  <2>2. CASE d.rows[t] # Missing
    <3>1. d.meta # Missing /\ d.rows[t].ordinal < d.meta.nextOrdinal /\ d.rows[t].ordinal \in Nat
      BY <2>1, <2>2, <1>1, <1>d DEF Idb!Valid
    <3>2. rows[t].ordinal = d.rows[t].ordinal
      BY <2>1, <2>2, <1>10, <1>12, <1>r
    <3>3. grown.nextOrdinal = meta.nextOrdinal + top
      BY <1>7, <1>k
    <3> QED BY <2>1, <2>2, <3>1, <3>2, <3>3, <1>2, <1>m
  <2>3. CASE d.rows[t] = Missing
    <3>1. In(t)
      BY <2>1, <2>3, <1>16, <1>r
    <3>2. pos(t) \in new
      BY <2>3, <3>1, <1>n
    <3>3. rows[t].ordinal = meta.nextOrdinal + before(pos(t))
      BY <2>1, <2>3, <3>1, <1>10, <1>12
    <3>4. before(pos(t)) \in Nat /\ before(pos(t)) < top
      BY <3>1, <3>2, <2>1, <1>5, <1>m, <1>k
    <3>5. grown.nextOrdinal = meta.nextOrdinal + top
      BY <1>7, <1>k
    <3> QED BY <2>1, <2>3, <3>1, <3>2, <3>3, <3>4, <3>5, <1>m
  <2> QED BY <2>2, <2>3
<1>17. Idb!Valid(e)
  BY <1>7, <1>14, <1>15, <1>16 DEF Idb!Valid
<1>18. Paired(e)
  BY <1>1, <1>8, <1>9, <1>14, <1>r DEF Paired
<1>19. \A t, u \in Idb!Targets : vers[t] # Missing /\ vers[t] = vers[u] => t = u
  <2> SUFFICES ASSUME NEW t \in Idb!Targets, NEW u \in Idb!Targets, vers[t] # Missing, vers[t] = vers[u] PROVE t = u
    OBVIOUS
  <2>1. CASE In(t) /\ In(u)
    <3>1. meta.nextVersion + pos(t) - 1 = meta.nextVersion + pos(u) - 1
      BY <2>1, <1>9
    <3>2. pos(t) = pos(u)
      BY <2>1, <3>1, <1>m
    <3> QED BY <2>1, <3>2, <1>4
  <2>2. CASE ~In(t) /\ ~In(u)
    BY <2>2, <1>1, <1>8 DEF Distinct
  <2>3. CASE In(t) /\ ~In(u)
    <3>1. vers[t][2] = meta.nextVersion + pos(t) - 1 /\ vers[u][2] < meta.nextVersion /\ vers[u][2] = vers[t][2]
      BY <2>3, <1>2, <1>15
    <3> QED BY <2>3, <3>1, <1>m
  <2>4. CASE ~In(t) /\ In(u)
    <3>1. vers[u][2] = meta.nextVersion + pos(u) - 1 /\ vers[t][2] < meta.nextVersion /\ vers[u][2] = vers[t][2]
      BY <2>4, <1>2, <1>15
    <3> QED BY <2>4, <3>1, <1>m
  <2> QED BY <2>1, <2>2, <2>3, <2>4
<1>20. \A t, u \in RecordTargets : rows[t] # Missing /\ rows[u] # Missing /\ rows[t].ordinal = rows[u].ordinal => t = u
  <2> SUFFICES ASSUME NEW t \in RecordTargets, NEW u \in RecordTargets,
                      rows[t] # Missing, rows[u] # Missing, rows[t].ordinal = rows[u].ordinal
               PROVE  t = u
    OBVIOUS
  <2>1. CASE d.rows[t] # Missing /\ d.rows[u] # Missing
    BY <2>1, <1>1, <1>16 DEF Distinct
  <2>2. CASE d.rows[t] = Missing /\ d.rows[u] = Missing
    <3>1. before(pos(t)) = before(pos(u)) /\ pos(t) \in new /\ pos(u) \in new
      BY <2>2, <1>m, <1>16
    <3>2. pos(t) = pos(u) /\ t \in Idb!Targets /\ u \in Idb!Targets /\ In(t) /\ In(u)
      BY <2>2, <3>1, <1>5, <1>16
    <3> QED BY <3>2, <1>4
  <2>3. CASE d.rows[t] # Missing /\ d.rows[u] = Missing
    <3>1. before(pos(u)) \in Nat
      BY <2>3, <1>m, <1>16
    <3> QED BY <2>3, <3>1, <1>m, <1>16
  <2>4. CASE d.rows[t] = Missing /\ d.rows[u] # Missing
    <3>1. before(pos(t)) \in Nat
      BY <2>4, <1>m, <1>16
    <3> QED BY <2>4, <3>1, <1>m, <1>16
  <2> QED BY <2>1, <2>2, <2>3, <2>4
<1>21. Extends(d, e)
  <2>1. d.meta # Missing => e.meta # Missing /\ e.meta.nextVersion >= d.meta.nextVersion
    BY <1>2, <1>3, <1>7, <1>14
  <2>2. \A t \in Idb!Targets : vers[t] # Missing =>
          \/ vers[t] = d.versions[t] /\ d.rows[t] # Missing /\ rows[t].value = d.rows[t].value
          \/ d.meta # Missing => vers[t][2] >= d.meta.nextVersion
    BY <1>2, <1>m, <1>15
  <2> QED BY <2>1, <2>2, <1>14 DEF Extends
<1>22. Distinct(e)
  BY <1>14, <1>19, <1>20 DEF Distinct
<1>23. SoundDatabase(e) /\ Extends(d, e) /\ e.schema = d.schema /\ e.receipts = d.receipts
  BY <1>14, <1>17, <1>18, <1>21, <1>22 DEF SoundDatabase
<1> QED BY <1>23 DEF e

(* Databases with the same rows, versions and counters. *)
SameData(d, e) ==
  e \in BrowserDatabases /\ e.rows = d.rows /\ e.versions = d.versions /\ e.meta = d.meta /\ e.schema = d.schema

LEMMA SameDataIsSound ==
  ASSUME NEW d, SoundDatabase(d), NEW e, SameData(d, e)
  PROVE  SoundDatabase(e) /\ Extends(d, e) /\ \A c : Extends(c, d) => Extends(c, e)
<1>1. Idb!Valid(e) /\ Distinct(e) /\ (e.schema # 1 => Paired(e)) /\ e \in BrowserDatabases
  BY DEF SoundDatabase, SameData, Idb!Valid, Distinct, Paired
<1>2. \A c : Extends(c, d) => Extends(c, e)
  BY DEF Extends, SameData
<1>3. Extends(d, d)
  <2>1. \A t \in Idb!Targets : d.versions[t] # Missing => d.rows[t] # Missing
    BY DEF SoundDatabase, Idb!Valid
  <2>2. d.meta # Missing => d.meta.nextVersion \in Nat
    BY Parts DEF SoundDatabase, Metas
  <2> QED BY <2>1, <2>2 DEF Extends
<1> QED BY <1>1, <1>2, <1>3 DEF SoundDatabase

LEMMA RemovedIs ==
  ASSUME IndexedDbWellFormed, NEW d, SoundDatabase(d), NEW removes
  PROVE  LET e == Idb!Removed(d, removes)
         IN  /\ SoundDatabase(e) /\ e.schema = d.schema /\ e.receipts = d.receipts
             /\ \A c : Extends(c, d) => Extends(c, e)
<1> DEFINE e == Idb!Removed(d, removes)
           rows == [t \in Idb!Targets |-> IF t \in removes THEN Missing ELSE d.rows[t]]
           vers == [t \in Idb!Targets |-> IF t \in removes THEN Missing ELSE d.versions[t]]
<1>1. d \in BrowserDatabases /\ Idb!Valid(d) /\ Distinct(d) /\ (d.schema # 1 => Paired(d))
  BY DEF SoundDatabase
<1>2. \A t \in Idb!Targets : d.rows[t] \in Rows \cup {Missing} /\ d.versions[t] \in Versions \cup {Missing}
  BY <1>1, Parts
<1>3. rows \in [Idb!Targets -> Rows \cup {Missing}] /\ vers \in [Idb!Targets -> Versions \cup {Missing}]
  BY <1>2
<1>4. e = [d EXCEPT !.rows = rows, !.versions = vers]
  BY DEF Idb!Removed
<1>5. \A t \in Idb!Targets : \/ rows[t] = Missing /\ vers[t] = Missing
                             \/ rows[t] = d.rows[t] /\ vers[t] = d.versions[t]
  OBVIOUS
<1> HIDE DEF rows, vers, e
<1>6. /\ e \in BrowserDatabases /\ e.rows = rows /\ e.versions = vers /\ e.meta = d.meta
      /\ e.receipts = d.receipts /\ e.schema = d.schema
  BY <1>1, <1>3, <1>4 DEF BrowserDatabases
<1>7. Idb!Valid(e)
  <2>1. \A t \in RecordTargets : t \in Idb!Targets
    BY DEF Idb!Targets
  <2> QED BY <2>1, <1>1, <1>5, <1>6 DEF Idb!Valid
<1>8. Distinct(e)
  <2>1. \A t \in RecordTargets : t \in Idb!Targets
    BY DEF Idb!Targets
  <2> QED BY <2>1, <1>1, <1>5, <1>6 DEF Distinct
<1>9. e.schema # 1 => Paired(e)
  BY <1>1, <1>5, <1>6 DEF Paired
<1>10. ASSUME NEW c, Extends(c, d) PROVE Extends(c, e)
  BY <1>5, <1>6, <1>10 DEF Extends
<1>11. SoundDatabase(e) /\ e.schema = d.schema /\ e.receipts = d.receipts /\ \A c : Extends(c, d) => Extends(c, e)
  BY <1>6, <1>7, <1>8, <1>9, <1>10 DEF SoundDatabase
<1> QED BY <1>11 DEF e

LEMMA PrunedIs ==
  ASSUME IndexedDbWellFormed, NEW d \in BrowserDatabases, NEW now, NEW keep
  PROVE  LET e == Idb!Pruned(d, now, keep)
         IN  /\ SameData(d, e)
             /\ \A k \in PageKeys : \/ e.receipts[k] = d.receipts[k]
                                    \/ k # keep /\ e.receipts[k] = Missing /\ ~Lasts(d.receipts[k], now)
<1> DEFINE e == Idb!Pruned(d, now, keep)
           kept == [k \in PageKeys |-> IF k # keep /\ Idb!IsExpired(d.receipts[k], now) THEN Missing ELSE d.receipts[k]]
<1>1. d.receipts \in [PageKeys -> ReceiptRecords \cup {Missing}]
  BY Parts
<1>2. kept \in [PageKeys -> ReceiptRecords \cup {Missing}]
  BY <1>1
<1>3. e = [d EXCEPT !.receipts = kept]
  BY DEF Idb!Pruned
<1>4. \A k \in PageKeys : kept[k] = d.receipts[k] \/ (k # keep /\ kept[k] = Missing /\ ~Lasts(d.receipts[k], now))
  BY DEF Lasts
<1> HIDE DEF kept, e
<1>5. /\ e \in BrowserDatabases /\ e.rows = d.rows /\ e.versions = d.versions /\ e.meta = d.meta /\ e.schema = d.schema
      /\ e.receipts = kept
  BY <1>2, <1>3 DEF BrowserDatabases
<1>6. SameData(d, e) /\ \A k \in PageKeys : e.receipts[k] = d.receipts[k] \/ (k # keep /\ e.receipts[k] = Missing /\ ~Lasts(d.receipts[k], now))
  BY <1>4, <1>5 DEF SameData
<1> QED BY <1>6 DEF e

LEMMA StampedIs ==
  ASSUME IndexedDbWellFormed, NEW d \in BrowserDatabases, NEW now \in Nat
  PROVE  SameData(d, Idb!StampReceipts(d, now))
<1> DEFINE stamped == [k \in PageKeys |-> Idb!Stamped(d.receipts[k], now)]
<1>1. \A k \in PageKeys : d.receipts[k] \in ReceiptRecords \cup {Missing}
  BY Parts
<1>2. \A r \in ReceiptRecords : [r EXCEPT !.created = now] \in ReceiptRecords
  BY DEF ReceiptRecords
<1>3. stamped \in [PageKeys -> ReceiptRecords \cup {Missing}]
  BY <1>1, <1>2 DEF Idb!Stamped
<1> HIDE DEF stamped
<1>4. [d EXCEPT !.receipts = stamped] \in BrowserDatabases
  BY <1>3 DEF BrowserDatabases
<1>5. SameData(d, [d EXCEPT !.receipts = stamped])
  BY <1>4 DEF SameData, BrowserDatabases
<1> QED BY <1>5 DEF Idb!StampReceipts, stamped

LEMMA WithReceiptIs ==
  ASSUME IndexedDbWellFormed, NEW d, NEW after \in BrowserDatabases, NEW now \in Nat,
         NEW o \in Calls, o.op = "mutate"
  PROVE  LET e == Idb!WithReceipt(d, o, after, now)
         IN  /\ SameData(after, e)
             /\ \A k \in PageKeys : (k = o.key /\ o.key # NoPageKey) \/ e.receipts[k] = after.receipts[k]
             /\ o.key # NoPageKey => o.key \in PageKeys /\ e.receipts[o.key] # Missing /\ e.receipts[o.key].created = now
<1>1. /\ o.key \in PageKeys \cup {NoPageKey} /\ o.digest \in Values /\ o.writes \in Seq(Idb!Targets)
  BY DEF Calls
<1>2. CASE o.key = NoPageKey
  BY <1>2 DEF Idb!WithReceipt, SameData
<1>3. CASE o.key # NoPageKey
  <2> DEFINE receipt == [digest |-> o.digest, created |-> now, versions |-> [i \in DOMAIN o.writes |-> after.versions[o.writes[i]]]]
             noted == [after.receipts EXCEPT ![o.key] = receipt]
             e == [after EXCEPT !.receipts = noted]
  <2>1. \A i \in DOMAIN o.writes : after.versions[o.writes[i]] \in Versions \cup {Missing}
    <3>1. \A i \in DOMAIN o.writes : o.writes[i] \in Idb!Targets
      BY <1>1
    <3> QED BY <3>1, Parts
  <2>2. [i \in DOMAIN o.writes |-> after.versions[o.writes[i]]] \in Seq(Versions \cup {Missing})
    <3>1. DOMAIN o.writes = 1 .. Len(o.writes) /\ Len(o.writes) \in Nat
      BY <1>1
    <3> QED BY <2>1, <3>1, IsASeq
  <2>3. receipt \in ReceiptRecords /\ receipt.created = now /\ receipt # Missing
    BY <1>1, <2>2, MarksApart DEF ReceiptRecords
  <2> HIDE DEF receipt
  <2>4. /\ noted \in [PageKeys -> ReceiptRecords \cup {Missing}] /\ noted[o.key] = receipt
        /\ \A k \in PageKeys : k = o.key \/ noted[k] = after.receipts[k]
    BY <1>1, <1>3, <2>3, Parts
  <2> HIDE DEF noted
  <2>5. /\ e \in BrowserDatabases /\ e.rows = after.rows /\ e.versions = after.versions /\ e.meta = after.meta
        /\ e.schema = after.schema /\ e.receipts = noted
    BY <2>4 DEF BrowserDatabases
  <2>6. Idb!WithReceipt(d, o, after, now) = e
    BY <1>3 DEF Idb!WithReceipt, noted, receipt
  <2> HIDE DEF e
  <2> QED BY <1>1, <1>3, <2>3, <2>4, <2>5, <2>6 DEF SameData
<1> QED BY <1>2, <1>3

(* Counters that stand where a database's own do. *)
CountsOn(d, meta) ==
  /\ meta \in Metas \cup {Missing} /\ (meta = Missing <=> d.meta = Missing)
  /\ d.meta # Missing => meta.nextVersion = d.meta.nextVersion /\ meta.nextOrdinal = d.meta.nextOrdinal

LEMMA Orders ==
  ASSUME NEW S, IsFiniteSet(S)
  PROVE  /\ Cardinality(S) \in Nat
         /\ \E f \in [S -> 1 .. Cardinality(S)] : \A s, t \in S : s # t => f[s] # f[t]
<1> DEFINE n == Cardinality(S)
<1>1. n \in Nat /\ ExistsBijection(1 .. n, S)
  BY FS_CardinalityType
<1>2. ExistsBijection(S, 1 .. n)
  BY <1>1, Fun_ExistsBijSymmetric
<1>3. PICK f \in Bijection(S, 1 .. n) : TRUE
  BY <1>2 DEF ExistsBijection
<1>4. f \in [S -> 1 .. n] /\ \A s, t \in S : s # t => f[s] # f[t]
  BY <1>3 DEF Bijection, Injection, IsInjective
<1> QED BY <1>1, <1>4

LEMMA BackfillIs ==
  ASSUME IndexedDbWellFormed, NEW d \in BrowserDatabases, Idb!Valid(d), Distinct(d), NEW meta, CountsOn(d, meta),
         NEW identity \in Identities, NEW targets, targets \subseteq Idb!Stored(d),
         d.meta # Missing \/ targets \cap RecordTargets = {}
  PROVE  LET e == Idb!Backfill(d, meta, identity, targets)
         IN  /\ e \in BrowserDatabases /\ Idb!Valid(e) /\ Distinct(e) /\ Extends(d, e)
             /\ e.rows = d.rows /\ e.schema = d.schema /\ e.receipts = d.receipts
             /\ \A t \in Idb!Targets \ targets : e.versions[t] = d.versions[t]
             /\ \A t \in targets : /\ e.versions[t] # Missing
                                   /\ d.meta # Missing => e.versions[t][2] >= d.meta.nextVersion
<1> DEFINE e == Idb!Backfill(d, meta, identity, targets)
<1>1. d.meta # Missing => d.meta.nextVersion \in Nat /\ d.meta.nextOrdinal \in Nat
  BY Parts DEF Metas
<1>2. \A t \in Idb!Targets : d.versions[t] # Missing => d.versions[t][2] \in Nat
  BY Parts
<1>t. targets \subseteq Idb!Targets
  BY DEF Idb!Stored
<1>v. \A t \in Idb!Targets : d.versions[t] # Missing => d.rows[t] # Missing
  BY DEF Idb!Valid
<1>3. CASE targets = {}
  <2>1. e = [d EXCEPT !.meta = meta]
    BY <1>3 DEF Idb!Backfill
  <2> HIDE DEF e
  <2>2. /\ e \in BrowserDatabases /\ e.rows = d.rows /\ e.versions = d.versions /\ e.meta = meta
        /\ e.receipts = d.receipts /\ e.schema = d.schema
    BY <2>1 DEF BrowserDatabases, CountsOn
  <2>3. Idb!Valid(e) /\ Distinct(e)
    BY <2>2 DEF Idb!Valid, Distinct, CountsOn
  <2>4. Extends(d, e)
    BY <2>2, <1>1, <1>v DEF Extends, CountsOn
  <2>5. /\ e \in BrowserDatabases /\ Idb!Valid(e) /\ Distinct(e) /\ Extends(d, e)
        /\ e.rows = d.rows /\ e.schema = d.schema /\ e.receipts = d.receipts
        /\ \A t \in Idb!Targets \ targets : e.versions[t] = d.versions[t]
    BY <2>2, <2>3, <2>4
  <2> QED BY <2>5, <1>3 DEF e
<1>4. CASE targets # {}
  <2> DEFINE state == IF meta = Missing THEN Idb!NewMeta(identity) ELSE meta
             count == Idb!Cardinality(targets)
             order == CHOOSE f \in [targets -> 1 .. count] : \A s, t \in targets : s # t => f[s] # f[t]
             vers == [t \in Idb!Targets |-> IF t \in targets THEN Idb!Version(state, order[t]) ELSE d.versions[t]]
             grown == [state EXCEPT !.nextVersion = @ + count]
  <2>1. IsFiniteSet(targets)
    BY <1>t, FS_Subset DEF IndexedDbWellFormed
  <2>2. /\ count \in Nat /\ order \in [targets -> 1 .. count]
        /\ \A s, t \in targets : s # t => order[s] # order[t]
    <3>1. count = Cardinality(targets)
      BY SameCount
    <3> HIDE DEF count
    <3>2. count \in Nat /\ \E f \in [targets -> 1 .. count] : \A s, t \in targets : s # t => f[s] # f[t]
      BY <2>1, <3>1, Orders
    <3> QED BY <3>2
  <2>3. /\ state \in Metas /\ state.nextVersion \in Nat /\ state.nextOrdinal \in Nat /\ state.identity \in Identities
        /\ d.meta # Missing => state.nextVersion = d.meta.nextVersion /\ state.nextOrdinal = d.meta.nextOrdinal
    BY DEF CountsOn, Idb!NewMeta, Metas
  <2>4. e = [d EXCEPT !.versions = vers, !.meta = grown]
    BY <1>4 DEF Idb!Backfill
  <2> HIDE DEF e, count, order, state
  <2>5. grown \in Metas /\ grown.nextVersion = state.nextVersion + count /\ grown.nextOrdinal = state.nextOrdinal
    <3>1. state.nextVersion + count \in Nat
      BY <2>2, <2>3
    <3> QED BY <3>1, <2>3 DEF Metas
  <2>6. grown # Missing
    BY <2>5, MarksApart
  <2>7. \A t \in targets : /\ vers[t] \in Versions /\ vers[t] # Missing
                           /\ vers[t][2] = state.nextVersion + order[t] - 1
                           /\ order[t] \in Nat /\ order[t] >= 1 /\ order[t] <= count
    <3> SUFFICES ASSUME NEW t \in targets
                 PROVE  /\ vers[t] \in Versions /\ vers[t] # Missing
                        /\ vers[t][2] = state.nextVersion + order[t] - 1
                        /\ order[t] \in Nat /\ order[t] >= 1 /\ order[t] <= count
      OBVIOUS
    <3>1. order[t] \in Nat /\ order[t] >= 1 /\ order[t] <= count
      BY <2>2
    <3>2. PICK n \in Nat : n = state.nextVersion + order[t] - 1
      BY <3>1, <2>3
    <3>3. vers[t] = <<state.identity, n>>
      BY <3>2, <1>t DEF Idb!Version
    <3> HIDE DEF vers
    <3> QED BY <3>1, <3>2, <3>3, <2>3, MarksApart DEF Versions
  <2>8. \A t \in Idb!Targets \ targets : vers[t] = d.versions[t]
    OBVIOUS
  <2>9. vers \in [Idb!Targets -> Versions \cup {Missing}]
    <3>1. \A t \in Idb!Targets : vers[t] \in Versions \cup {Missing}
      <4> HIDE DEF vers
      <4> QED BY <2>7, <2>8, Parts
    <3> QED BY <3>1
  <2> HIDE DEF vers, grown
  <2>10. /\ e \in BrowserDatabases /\ e.rows = d.rows /\ e.versions = vers /\ e.meta = grown
         /\ e.receipts = d.receipts /\ e.schema = d.schema
    BY <2>4, <2>5, <2>9 DEF BrowserDatabases
  <2>11. \A t \in Idb!Targets \ targets : vers[t] # Missing =>
           d.meta # Missing /\ vers[t][2] \in Nat /\ vers[t][2] < state.nextVersion
    BY <2>3, <2>8, <1>2 DEF Idb!Valid
  <2>12. Idb!Valid(e)
    <3>1. \A t \in Idb!Targets : vers[t] # Missing => e.rows[t] # Missing
      BY <2>8, <2>10, <1>t, <1>v DEF Idb!Stored
    <3>2. \A t \in Idb!Targets : vers[t] # Missing => vers[t][2] < grown.nextVersion
      BY <2>2, <2>3, <2>5, <2>7, <2>11
    <3>3. \A t \in RecordTargets : d.rows[t] # Missing => d.meta # Missing /\ d.rows[t].ordinal < d.meta.nextOrdinal
      BY DEF Idb!Valid, Idb!Targets
    <3>4. \A t \in RecordTargets : d.rows[t] # Missing => d.rows[t].ordinal < grown.nextOrdinal
      BY <3>3, <2>3, <2>5
    <3> QED BY <3>1, <3>2, <3>4, <2>6, <2>10 DEF Idb!Valid
  <2>13. \A t, u \in Idb!Targets : vers[t] # Missing /\ vers[t] = vers[u] => t = u
    <3> SUFFICES ASSUME NEW t \in Idb!Targets, NEW u \in Idb!Targets, vers[t] # Missing, vers[t] = vers[u] PROVE t = u
      OBVIOUS
    <3>1. CASE t \in targets /\ u \in targets
      BY <3>1, <2>2, <2>3, <2>7
    <3>2. CASE t \notin targets /\ u \notin targets
      BY <3>2, <2>8 DEF Distinct
    <3>3. CASE t \in targets /\ u \notin targets
      BY <3>3, <2>3, <2>7, <2>11
    <3>4. CASE t \notin targets /\ u \in targets
      BY <3>4, <2>3, <2>7, <2>11
    <3> QED BY <3>1, <3>2, <3>3, <3>4
  <2>14. Distinct(e)
    BY <2>10, <2>13 DEF Distinct
  <2>15. \A t \in targets : d.meta # Missing => vers[t][2] >= d.meta.nextVersion
    BY <2>3, <2>7
  <2>16. Extends(d, e)
    <3>1. grown.nextVersion >= state.nextVersion
      BY <2>2, <2>3, <2>5
    <3> QED BY <3>1, <2>3, <2>6, <2>8, <2>10, <2>15, <1>v DEF Extends
  <2>17. /\ e \in BrowserDatabases /\ Idb!Valid(e) /\ Distinct(e) /\ Extends(d, e)
         /\ e.rows = d.rows /\ e.schema = d.schema /\ e.receipts = d.receipts
         /\ \A t \in Idb!Targets \ targets : e.versions[t] = d.versions[t]
         /\ \A t \in targets : /\ e.versions[t] # Missing
                               /\ d.meta # Missing => e.versions[t][2] >= d.meta.nextVersion
    BY <2>7, <2>8, <2>10, <2>12, <2>14, <2>15, <2>16
  <2> QED BY <2>17 DEF e
<1> QED BY <1>3, <1>4

LEMMA UpgradedIs ==
  ASSUME IndexedDbWellFormed, NEW d, SoundDatabase(d), NEW identity \in Identities, NEW now \in Nat
  PROVE  LET e == Idb!Upgraded(d, identity, now)
         IN  /\ SoundDatabase(e) /\ e.schema = Idb!SchemaVersion /\ Extends(d, e)
             /\ e.rows = d.rows
             /\ d.schema # 1 => e.versions = d.versions /\ e.meta = d.meta
             /\ d.schema = 1 => \A t \in KeyTargets : e.versions[t] # Missing /\ d.meta # Missing =>
                                  e.versions[t][2] >= d.meta.nextVersion
<1> DEFINE versioned == IF d.schema = 1 THEN Idb!BackfillVersions(d, identity) ELSE d
           stamped == IF d.schema \in 1 .. 2 THEN Idb!StampReceipts(versioned, now) ELSE versioned
           e == [stamped EXCEPT !.schema = Idb!SchemaVersion]
<1>1. d \in BrowserDatabases /\ Idb!Valid(d) /\ Distinct(d)
  BY DEF SoundDatabase
<1>2. /\ versioned \in BrowserDatabases /\ Idb!Valid(versioned) /\ Distinct(versioned) /\ Extends(d, versioned)
      /\ versioned.rows = d.rows /\ versioned.schema = d.schema /\ Paired(versioned)
      /\ d.schema # 1 => versioned = d
      /\ d.schema = 1 => \A t \in KeyTargets : versioned.versions[t] # Missing /\ d.meta # Missing =>
                           versioned.versions[t][2] >= d.meta.nextVersion
  <2>1. CASE d.schema = 1
    <3> DEFINE meta == Idb!Rekeyed(d.meta, identity)
               targets == Idb!ToBackfill(d)
    <3>1. CountsOn(d, meta)
      <4>1. d.meta \in Metas \cup {Missing}
        BY <1>1, Parts
      <4>2. ASSUME d.meta # Missing
            PROVE  LET m == [d.meta EXCEPT !.identity = identity]
                   IN  m \in Metas /\ m # Missing /\ m.nextVersion = d.meta.nextVersion /\ m.nextOrdinal = d.meta.nextOrdinal
        BY <4>1, <4>2, MarksApart DEF Metas
      <4> QED BY <4>1, <4>2 DEF CountsOn, Idb!Rekeyed
    <3>2. targets \subseteq Idb!Stored(d)
      BY DEF Idb!ToBackfill, Idb!Unversioned
    <3>3. d.meta # Missing \/ targets \cap RecordTargets = {}
      BY <3>2, <1>1 DEF Idb!Valid, Idb!Stored
    <3>4. \A t \in Idb!Targets : d.rows[t] # Missing /\ t \notin targets => d.versions[t] # Missing
      BY DEF Idb!ToBackfill, Idb!Unversioned, Idb!Stored
    <3>5. \A t \in KeyTargets : t \in Idb!Targets /\ (d.rows[t] # Missing => t \in targets)
      BY DEF Idb!ToBackfill, Idb!Stored, Idb!Targets
    <3>6. versioned = Idb!Backfill(d, meta, identity, targets)
      BY <2>1 DEF Idb!BackfillVersions
    <3> HIDE DEF meta, targets, versioned
    <3>7. /\ versioned \in BrowserDatabases /\ Idb!Valid(versioned) /\ Distinct(versioned) /\ Extends(d, versioned)
          /\ versioned.rows = d.rows /\ versioned.schema = d.schema
          /\ \A t \in Idb!Targets \ targets : versioned.versions[t] = d.versions[t]
          /\ \A t \in targets : /\ versioned.versions[t] # Missing
                                /\ d.meta # Missing => versioned.versions[t][2] >= d.meta.nextVersion
      BY <1>1, <3>1, <3>2, <3>3, <3>6, BackfillIs
    <3>8. Paired(versioned)
      BY <3>4, <3>7 DEF Paired
    <3>9. \A t \in KeyTargets : versioned.versions[t] # Missing => t \in targets
      BY <3>5, <3>7 DEF Idb!Valid
    <3> QED BY <2>1, <3>7, <3>8, <3>9
  <2>2. CASE d.schema # 1
    <3>1. SameData(d, d)
      BY <1>1 DEF SameData
    <3> QED BY <2>2, <3>1, <1>1, SameDataIsSound DEF SoundDatabase
  <2> QED BY <2>1, <2>2
<1> HIDE DEF versioned
<1>3. SameData(versioned, stamped)
  <2>1. SameData(versioned, Idb!StampReceipts(versioned, now))
    BY <1>2, StampedIs
  <2>2. SameData(versioned, versioned)
    BY <1>2 DEF SameData
  <2> QED BY <2>1, <2>2
<1> HIDE DEF stamped
<1>4. /\ e \in BrowserDatabases /\ e.rows = stamped.rows /\ e.versions = stamped.versions /\ e.meta = stamped.meta
      /\ e.schema = Idb!SchemaVersion
  BY <1>3 DEF BrowserDatabases, SameData, Idb!SchemaVersion
<1> HIDE DEF e
<1>5. e.rows = d.rows /\ e.versions = versioned.versions /\ e.meta = versioned.meta
  BY <1>2, <1>3, <1>4 DEF SameData
<1>6. Idb!Valid(e) /\ Distinct(e) /\ Paired(e) /\ Extends(d, e)
  BY <1>2, <1>5 DEF Idb!Valid, Distinct, Paired, Extends
<1>7. e = Idb!Upgraded(d, identity, now)
  BY DEF Idb!Upgraded, e, stamped, versioned
<1> QED BY <1>2, <1>4, <1>5, <1>6, <1>7 DEF SoundDatabase

LEMMA ImportedIs ==
  ASSUME IndexedDbWellFormed, NEW d, SoundDatabase(d), NEW b \in BrowserDatabases, Idb!Valid(b), Distinct(b),
         NEW identity \in Identities, NEW now \in Nat
  PROVE  SoundDatabase(Idb!Imported(d, b, identity, now)) /\ Idb!Imported(d, b, identity, now).schema = d.schema
<1> DEFINE filled == Idb!Backfill(b, b.meta, identity, Idb!Unversioned(b))
           stamped == Idb!StampReceipts(filled, now)
           e == [stamped EXCEPT !.schema = d.schema]
<1>1. CountsOn(b, b.meta)
  BY Parts DEF CountsOn
<1>2. Idb!Unversioned(b) \subseteq Idb!Stored(b) /\ (b.meta # Missing \/ Idb!Unversioned(b) \cap RecordTargets = {})
  BY DEF Idb!Unversioned, Idb!Stored, Idb!Valid
<1>3. /\ filled \in BrowserDatabases /\ Idb!Valid(filled) /\ Distinct(filled) /\ filled.rows = b.rows
      /\ \A t \in Idb!Targets \ Idb!Unversioned(b) : filled.versions[t] = b.versions[t]
      /\ \A t \in Idb!Unversioned(b) : filled.versions[t] # Missing
  BY <1>1, <1>2, BackfillIs
<1> HIDE DEF filled
<1>4. Paired(filled)
  BY <1>3 DEF Paired, Idb!Unversioned, Idb!Stored
<1>5. SameData(filled, stamped)
  BY <1>3, StampedIs
<1> HIDE DEF stamped
<1>6. d.schema \in Nat
  BY Parts DEF SoundDatabase
<1>7. /\ e \in BrowserDatabases /\ e.rows = filled.rows /\ e.versions = filled.versions /\ e.meta = filled.meta
      /\ e.schema = d.schema
  BY <1>5, <1>6 DEF BrowserDatabases, SameData
<1> HIDE DEF e
<1>8. Idb!Valid(e) /\ Distinct(e) /\ Paired(e)
  BY <1>3, <1>4, <1>7 DEF Idb!Valid, Distinct, Paired
<1>9. e = Idb!Imported(d, b, identity, now)
  BY DEF e, stamped, filled, Idb!Imported
<1> QED BY <1>7, <1>8, <1>9 DEF SoundDatabase

LEMMA MutatedIs ==
  ASSUME IndexedDbWellFormed, NEW d, SoundDatabase(d), d.schema # 1, NEW o \in Calls, o.op = "mutate",
         NEW now \in Nat, NEW identity \in Identities
  PROVE  LET m == Idb!Mutated(d, o, now, identity)
         IN  IsOutcome(d, m.database, o, now, m.result.status) /\ m.result \in Results
<1> DEFINE pruned == IF o.key = NoPageKey THEN d ELSE Idb!Pruned(d, now, o.key)
           receipt == IF o.key = NoPageKey \/ Idb!IsExpired(d.receipts[o.key], now) THEN Missing ELSE d.receipts[o.key]
           written == IF o.writes = <<>> THEN pruned ELSE Idb!Written(pruned, o.writes, o.digest, identity)
           after == Idb!Removed(written, o.removes)
           final == Idb!WithReceipt(pruned, o, after, now)
           applied1 == [i \in DOMAIN o.writes |-> final.versions[o.writes[i]]]
           m == Idb!Mutated(d, o, now, identity)
<1>1. /\ o.key \in PageKeys \cup {NoPageKey} /\ o.digest \in Values /\ o.writes \in Seq(Idb!Targets)
  BY DEF Calls
<1>2. SameData(d, d) /\ d \in BrowserDatabases
  BY DEF SameData, SoundDatabase
<1>3. /\ SameData(d, pruned)
      /\ \A k \in PageKeys : \/ pruned.receipts[k] = d.receipts[k]
                             \/ k # o.key /\ pruned.receipts[k] = Missing /\ ~Lasts(d.receipts[k], now)
  BY <1>2, PrunedIs
<1> HIDE DEF pruned
<1>4. SoundDatabase(pruned) /\ Extends(d, pruned) /\ pruned.schema = d.schema
  BY <1>3, SameDataIsSound DEF SameData
<1>5. SoundDatabase(written) /\ Extends(pruned, written) /\ written.schema = d.schema /\ written.receipts = pruned.receipts
  <2>1. SameData(pruned, pruned)
    BY <1>4 DEF SameData, SoundDatabase
  <2>2. CASE o.writes = <<>>
    BY <2>1, <2>2, <1>4, SameDataIsSound
  <2>3. CASE o.writes # <<>>
    BY <2>3, <1>1, <1>4, WrittenIs
  <2> QED BY <2>2, <2>3
<1> HIDE DEF written
<1>6. SoundDatabase(after) /\ Extends(pruned, after) /\ after.schema = d.schema /\ after.receipts = pruned.receipts
  BY <1>5, RemovedIs
<1> HIDE DEF after
<1>7. /\ SameData(after, final)
      /\ \A k \in PageKeys : (k = o.key /\ o.key # NoPageKey) \/ final.receipts[k] = after.receipts[k]
      /\ o.key # NoPageKey => o.key \in PageKeys /\ final.receipts[o.key] # Missing /\ final.receipts[o.key].created = now
  BY <1>6, WithReceiptIs DEF SoundDatabase
<1> HIDE DEF final
<1>8. SoundDatabase(final) /\ Extends(pruned, final) /\ final.schema = d.schema
  BY <1>6, <1>7, SameDataIsSound DEF SameData
<1>9. \A e : Extends(pruned, e) => Extends(d, e)
  BY <1>3 DEF Extends, SameData
<1>10. applied1 \in Seq(Versions \cup {Missing})
  <2>1. DOMAIN o.writes = 1 .. Len(o.writes) /\ Len(o.writes) \in Nat /\ \A i \in DOMAIN o.writes : o.writes[i] \in Idb!Targets
    BY <1>1
  <2>2. final \in BrowserDatabases
    BY <1>8 DEF SoundDatabase
  <2>3. \A i \in DOMAIN o.writes : final.versions[o.writes[i]] \in Versions \cup {Missing}
    BY <2>1, <2>2, Parts
  <2> QED BY <2>1, <2>3, IsASeq
<1> HIDE DEF applied1
<1>11. receipt # Missing => receipt \in ReceiptRecords
  BY <1>1, <1>2, Parts
<1>12. CASE receipt # Missing
  <2>1. /\ m.database = pruned
        /\ m.result = IF receipt.digest = o.digest THEN Idb!Result("replayed", receipt.versions)
                      ELSE Idb!Result("idempotency-conflict", <<>>)
    BY <1>12 DEF Idb!Mutated, pruned
  <2>2. m.result \in Results /\ m.result.status \in {"replayed", "idempotency-conflict"}
    BY <2>1, <1>11, <1>12 DEF Idb!Result, Results, ReceiptRecords
  <2> HIDE DEF m
  <2>3. Answers(d, pruned, o, now, m.result.status)
    BY <2>2, <1>3 DEF Answers, Forgets
  <2>4. IsOutcome(d, m.database, o, now, m.result.status)
    BY <2>1, <2>2, <2>3, <1>4 DEF IsOutcome
  <2> QED BY <2>2, <2>4 DEF m
<1>13. CASE receipt = Missing /\ ~Idb!ConditionMatches(d, o.condition)
  <2>0. m = [database |-> pruned, result |-> Idb!Result("conflict", <<>>)]
    BY <1>13 DEF Idb!Mutated, pruned
  <2> HIDE DEF m
  <2>2. m.database = pruned /\ m.result \in Results /\ m.result.status = "conflict"
    BY <2>0 DEF Idb!Result, Results
  <2>3. Answers(d, pruned, o, now, m.result.status)
    BY <2>2, <1>3 DEF Answers, Forgets
  <2>4. IsOutcome(d, m.database, o, now, m.result.status)
    BY <2>2, <2>3, <1>4 DEF IsOutcome
  <2> QED BY <2>2, <2>4 DEF m
<1>14. CASE receipt = Missing /\ Idb!ConditionMatches(d, o.condition)
  <2>0. m = [database |-> final, result |-> Idb!Result("applied", applied1)]
    BY <1>14 DEF Idb!Mutated, pruned, final, after, written, applied1
  <2> HIDE DEF m
  <2>2. m.database = final /\ m.result \in Results /\ m.result.status = "applied"
    BY <2>0, <1>10 DEF Idb!Result, Results
  <2>3. o.key # NoPageKey => Notes(d, final, o.key, now)
    BY <1>14, <1>7 DEF Notes, Lasts
  <2>4. \A k \in PageKeys : final.receipts[k] = d.receipts[k] \/ Forgets(d, final, k, now) \/ Notes(d, final, k, now)
    BY <2>3, <1>3, <1>6, <1>7 DEF Forgets
  <2>5. Answers(d, final, o, now, m.result.status)
    BY <2>3, <2>4 DEF Answers
  <2>6. IsOutcome(d, m.database, o, now, m.result.status)
    BY <2>2, <2>5, <1>8, <1>9 DEF IsOutcome
  <2> QED BY <2>2, <2>6 DEF m
<1> QED BY <1>12, <1>13, <1>14

LEMMA OutcomeIs ==
  ASSUME IndexedDbWellFormed, NEW d, SoundDatabase(d), d.schema # 1, NEW o \in Calls, NEW p \in Pages,
         call[p].now \in Nat, browserClock \in Nat, backup \in BrowserDatabases, Distinct(backup),
         o.op = "import" => Idb!Valid(backup)
  PROVE  /\ IsOutcome(d, Idb!Outcome(p, d, o).database, o, call[p].now, Idb!Outcome(p, d, o).result.status)
         /\ Idb!Outcome(p, d, o).result \in Results
<1> DEFINE now == call[p].now
           m == Idb!Outcome(p, d, o)
<1>1. d \in BrowserDatabases /\ SameData(d, d) /\ p \in Identities
  BY MarksApart DEF SoundDatabase, SameData
<1>2. Idb!Result("done", <<>>) \in Results /\ Idb!Result("done", <<>>).status = "done"
  BY DEF Idb!Result, Results
<1>3. \A e : Answers(d, e, o, now, "done") <=> \A k \in PageKeys : e.receipts[k] = d.receipts[k] \/ Forgets(d, e, k, now) \/ Notes(d, e, k, now)
  BY DEF Answers
<1>4. Extends(d, d)
  BY <1>1, SameDataIsSound
<1>5. CASE o.op = "write"
  <2> DEFINE e == Idb!Written(d, <<o.target>>, o.value, p)
  <2>1. m.database = e /\ m.result = Idb!Result("done", <<>>)
    BY <1>5 DEF Idb!Outcome
  <2>2. <<o.target>> \in Seq(Idb!Targets) /\ o.value \in Values
    BY <1>5 DEF Calls
  <2>3. SoundDatabase(e) /\ Extends(d, e) /\ e.schema = d.schema /\ e.receipts = d.receipts
    BY <2>2, <1>1, WrittenIs
  <2> HIDE DEF e, m
  <2>4. Answers(d, e, o, now, "done")
    BY <2>3, <1>3
  <2> QED BY <2>1, <2>3, <2>4, <1>2, <1>5 DEF IsOutcome, m
<1>6. CASE o.op = "remove"
  <2> DEFINE e == Idb!Removed(d, {o.target})
  <2>1. m.database = e /\ m.result = Idb!Result("done", <<>>)
    BY <1>6 DEF Idb!Outcome
  <2>3. SoundDatabase(e) /\ Extends(d, e) /\ e.schema = d.schema /\ e.receipts = d.receipts
    BY <1>4, RemovedIs
  <2> HIDE DEF e, m
  <2>4. Answers(d, e, o, now, "done")
    BY <2>3, <1>3
  <2> QED BY <2>1, <2>3, <2>4, <1>2, <1>6 DEF IsOutcome, m
<1>7. CASE o.op = "mutate"
  <2>1. m = Idb!Mutated(d, o, now, p)
    BY <1>7 DEF Idb!Outcome
  <2> QED BY <2>1, <1>1, <1>7, MutatedIs
<1>8. CASE o.op = "prune"
  <2> DEFINE e == Idb!Pruned(d, now, NoPageKey)
  <2>1. m.database = e /\ m.result = Idb!Result("done", <<>>)
    BY <1>8 DEF Idb!Outcome
  <2>2. /\ SameData(d, e)
        /\ \A k \in PageKeys : e.receipts[k] = d.receipts[k] \/ Forgets(d, e, k, now)
    BY <1>1, PrunedIs DEF Forgets
  <2>3. SoundDatabase(e) /\ Extends(d, e) /\ e.schema = d.schema
    BY <2>2, SameDataIsSound DEF SameData
  <2> HIDE DEF e, m
  <2>4. Answers(d, e, o, now, "done")
    BY <2>2, <1>3
  <2> QED BY <2>1, <2>3, <2>4, <1>2, <1>8 DEF IsOutcome, m
<1>9. CASE o.op = "export"
  <2>1. m.database = d /\ m.result = Idb!Result("done", <<>>)
    BY <1>9 DEF Idb!Outcome
  <2> HIDE DEF m
  <2>4. Answers(d, d, o, now, "done")
    BY <1>3
  <2> QED BY <2>1, <2>4, <1>2, <1>4, <1>9 DEF IsOutcome, m
<1>10. CASE o.op = "import"
  <2> DEFINE e == Idb!Imported(d, backup, p, browserClock)
  <2>1. m.database = e /\ m.result = Idb!Result("done", <<>>)
    BY <1>10 DEF Idb!Outcome
  <2>2. SoundDatabase(e) /\ e.schema = d.schema
    BY <1>1, <1>10, ImportedIs
  <2> HIDE DEF e, m
  <2> QED BY <2>1, <2>2, <1>2, <1>10 DEF IsOutcome, m
<1>11. o.op \in {"write", "remove", "mutate", "prune", "export", "import"}
  BY DEF Calls
<1> QED BY <1>5, <1>6, <1>7, <1>8, <1>9, <1>10, <1>11

--------------------
(* The line of transactions *)

(* l is the line after page p left it, wherever in it p was. *)
Left(l, p) ==
  /\ l \in Seq(Pages)
  /\ \A i \in DOMAIN l : l[i] # p /\ \E k \in DOMAIN line : l[i] = line[k]
  /\ \A q \in Pages : q # p /\ (\E k \in DOMAIN line : line[k] = q) => \E i \in DOMAIN l : l[i] = q
  /\ \A i, j \in DOMAIN l : i < j => l[i] # l[j] /\ call[l[i]].now <= call[l[j]].now
  /\ line # <<>> /\ line[1] # p => l # <<>> /\ l[1] = line[1]

(* The line is in the order of the times, and nobody is in it twice. *)
InOrder ==
  /\ line \in Seq(Pages)
  /\ \A i, j \in DOMAIN line : i < j => line[i] # line[j] /\ call[line[i]].now <= call[line[j]].now

LEMMA TailLeaves ==
  ASSUME InOrder, line # <<>>
  PROVE  Left(Tail(line), Head(line))
<1>1. /\ Len(line) \in Nat /\ Len(line) # 0 /\ DOMAIN line = 1 .. Len(line) /\ Head(line) = line[1]
      /\ Tail(line) \in Seq(Pages) /\ Len(Tail(line)) = Len(line) - 1 /\ DOMAIN Tail(line) = 1 .. Len(line) - 1
      /\ \A i \in 1 .. Len(line) - 1 : Tail(line)[i] = line[i + 1]
  BY DEF InOrder
<1>2. \A i \in DOMAIN Tail(line) : /\ 1 \in DOMAIN line /\ i + 1 \in DOMAIN line /\ 1 < i + 1
                                   /\ Tail(line)[i] = line[i + 1]
  BY <1>1
<1>3. \A i \in DOMAIN Tail(line) : Tail(line)[i] # Head(line)
  BY <1>1, <1>2 DEF InOrder
<1>4. \A k \in DOMAIN line : k = 1 \/ (k - 1 \in DOMAIN Tail(line) /\ Tail(line)[k - 1] = line[k])
  BY <1>1
<1>5. \A i, j \in DOMAIN Tail(line) : i < j =>
         Tail(line)[i] # Tail(line)[j] /\ call[Tail(line)[i]].now <= call[Tail(line)[j]].now
  <2>1. \A i, j \in DOMAIN Tail(line) : i < j => i + 1 < j + 1
    BY <1>1
  <2> QED BY <2>1, <1>2 DEF InOrder
<1>6. \A q \in Pages : q # Head(line) /\ (\E k \in DOMAIN line : line[k] = q) => \E i \in DOMAIN Tail(line) : Tail(line)[i] = q
  BY <1>1, <1>4
<1>7. \A i \in DOMAIN Tail(line) : \E k \in DOMAIN line : Tail(line)[i] = line[k]
  BY <1>2
<1> QED BY <1>1, <1>3, <1>5, <1>6, <1>7 DEF Left

LEMMA WithoutLeaves ==
  ASSUME InOrder, NEW p
  PROVE  Left(Idb!Without(p), p)
<1>1. Len(line) \in Nat /\ DOMAIN line = 1 .. Len(line) /\ line \in Seq(Pages)
  BY DEF InOrder
<1>2. CASE \A i \in DOMAIN line : line[i] # p
  <2>1. Idb!Without(p) = line
    BY <1>2 DEF Idb!Without
  <2> QED BY <2>1, <1>1, <1>2 DEF InOrder, Left
<1>3. CASE \E i \in DOMAIN line : line[i] = p
  <2> DEFINE l == Idb!Without(p)
             n == Len(line) - 1
             from(i) == IF i < Idb!Place(p) THEN i ELSE i + 1
  <2>1. Idb!Place(p) \in 1 .. Len(line) /\ line[Idb!Place(p)] = p
    BY <1>1, <1>3 DEF Idb!Place
  <2>2. n \in Nat /\ n + 1 = Len(line)
    BY <1>1, <2>1
  <2>3. l = [i \in 1 .. n |-> IF i < Idb!Place(p) THEN line[i] ELSE line[i + 1]]
    BY <1>3 DEF Idb!Without
  <2> HIDE DEF l, n
  <2>4. \A i \in 1 .. n : from(i) \in 1 .. Len(line) /\ from(i) # Idb!Place(p) /\ l[i] = line[from(i)]
    BY <2>1, <2>2, <2>3
  <2>5. \A i, j \in 1 .. n : i < j => from(i) < from(j)
    BY <2>1, <2>2
  <2>6. \A k \in 1 .. Len(line) : k # Idb!Place(p) => \E i \in 1 .. n : from(i) = k
    <3> SUFFICES ASSUME NEW k \in 1 .. Len(line), k # Idb!Place(p) PROVE \E i \in 1 .. n : from(i) = k
      OBVIOUS
    <3>1. CASE k < Idb!Place(p)
      <4>1. k \in 1 .. n /\ from(k) = k
        BY <3>1, <2>1, <2>2, <1>1
      <4> QED BY <4>1
    <3>2. CASE k > Idb!Place(p)
      <4>1. k - 1 \in 1 .. n /\ from(k - 1) = k
        BY <3>2, <2>1, <2>2, <1>1
      <4> QED BY <4>1
    <3> QED BY <3>1, <3>2, <2>1, <1>1
  <2>7. Idb!Place(p) # 1 => (1 \in 1 .. n /\ from(1) = 1)
    BY <2>1, <2>2, <1>1
  <2> HIDE DEF from
  <2>8. l \in Seq(Pages) /\ DOMAIN l = 1 .. n /\ Len(l) = n
    <3>1. \A i \in 1 .. n : l[i] \in Pages
      BY <2>4, <1>1
    <3>2. l \in [1 .. n -> Pages]
      BY <2>3, <3>1
    <3> QED BY <3>2, <2>2
  <2>9. \A i \in DOMAIN line : i # Idb!Place(p) => line[i] # p
    <3> SUFFICES ASSUME NEW i \in DOMAIN line, i # Idb!Place(p) PROVE line[i] # p
      OBVIOUS
    <3>1. i < Idb!Place(p) \/ Idb!Place(p) < i
      BY <1>1, <2>1
    <3> QED BY <3>1, <1>1, <2>1 DEF InOrder
  <2>10. \A i \in DOMAIN l : l[i] # p /\ \E k \in DOMAIN line : l[i] = line[k]
    BY <2>4, <2>8, <2>9, <1>1
  <2>11. \A i, j \in DOMAIN l : i < j => l[i] # l[j] /\ call[l[i]].now <= call[l[j]].now
    BY <2>4, <2>5, <2>8, <1>1 DEF InOrder
  <2>12. \A q \in Pages : q # p /\ (\E k \in DOMAIN line : line[k] = q) => \E i \in DOMAIN l : l[i] = q
    <3> SUFFICES ASSUME NEW q \in Pages, q # p, NEW k \in DOMAIN line, line[k] = q
                 PROVE  \E i \in DOMAIN l : l[i] = q
      OBVIOUS
    <3>1. PICK i \in 1 .. n : from(i) = k
      BY <2>1, <2>6, <1>1
    <3> QED BY <3>1, <2>4, <2>8
  <2>13. line[1] # p => l # <<>> /\ l[1] = line[1]
    <3>1. ASSUME line[1] # p PROVE l[1] = line[1] /\ n # 0
      BY <3>1, <2>1, <2>2, <2>4, <2>7
    <3> QED BY <3>1, <2>8
  <2> QED BY <2>8, <2>10, <2>11, <2>12, <2>13 DEF Left, l
<1> QED BY <1>2, <1>3

--------------------
(* Calls *)

LEMMA CallFacts ==
  ASSUME IndexedDbWellFormed, Typed, NEW p \in Pages
  PROVE  /\ call[p].at \in Nat /\ call[p].at # 0 /\ call[p].now \in Nat
         /\ call[p].draft \in BrowserDatabases \cup {Missing} /\ call[p].result \in Results
         /\ call[p].pc \in {"idle", "made", "finished", "ended"}
         /\ setup.work[p] \in Seq(Calls) /\ Len(setup.work[p]) \in Nat
         /\ call[p].at <= Len(setup.work[p]) => Idb!Call(p) \in Calls
<1>1. call[p] \in CallStates /\ setup.work \in [Pages -> Seq(Calls)]
  BY DEF Typed, IndexedDbWellFormed
<1>2. /\ call[p].at \in Nat /\ call[p].at # 0 /\ call[p].now \in Nat
      /\ call[p].draft \in BrowserDatabases \cup {Missing} /\ call[p].result \in Results
      /\ call[p].pc \in {"idle", "made", "finished", "ended"}
  BY <1>1 DEF CallStates
<1>3. setup.work[p] \in Seq(Calls) /\ Len(setup.work[p]) \in Nat
  BY <1>1
<1>4. call[p].at <= Len(setup.work[p]) => setup.work[p][call[p].at] \in Calls
  <2>1. call[p].at <= Len(setup.work[p]) => call[p].at \in 1 .. Len(setup.work[p])
    BY <1>2, <1>3
  <2> QED BY <2>1, <1>3
<1> QED BY <1>2, <1>3, <1>4 DEF Idb!Call

LEMMA LineFacts ==
  ASSUME IndexedDbWellFormed, Typed, Lines
  PROVE  /\ InOrder
         /\ \A p \in Pages : ~InLine(p) => \A i \in DOMAIN line : line[i] # p
         /\ \A p \in Pages : InLine(p) => line # <<>> /\ Idb!Call(p) \in Calls
         /\ \A n \in Nat : Coming(n) => n <= browserClock
<1>1. InOrder
  BY DEF Typed, Lines, InOrder
<1>2. \A p \in Pages : ~InLine(p) => \A i \in DOMAIN line : line[i] # p
  BY DEF Lines
<1>3. \A p \in Pages : InLine(p) => line # <<>> /\ Idb!Call(p) \in Calls
  <2> SUFFICES ASSUME NEW p \in Pages, InLine(p) PROVE line # <<>> /\ Idb!Call(p) \in Calls
    OBVIOUS
  <2>1. line # <<>>
    BY DEF Lines, Typed
  <2>2. call[p].at <= Len(setup.work[p])
    BY CallFacts DEF Lines
  <2> QED BY <2>1, <2>2, CallFacts
<1>4. \A n \in Nat : Coming(n) => n <= browserClock
  BY DEF Coming, Lines, Typed
<1> QED BY <1>1, <1>2, <1>3, <1>4

(* Who was not to apply anything any more leaves the line. *)
LEMMA Rejecting ==
  ASSUME IndexedDbWellFormed, Inductive, NEW p \in Pages, call[p].pc # "ended",
         call' = Idb!Rejected(p), Left(line', p),
         UNCHANGED <<setup, database, backup, browserClock, given, requested, imports>>
  PROVE  /\ call' \in [Pages -> CallStates] /\ line' \in Seq(Pages) /\ (line' # <<>> => line # <<>>)
         /\ Lines' /\ Drafts' /\ VersionsNumbered' /\ ReceiptsKept' /\ Told'
         /\ \A q \in Pages : q # p => call'[q] = call[q]
<1> USE DEF Inductive
<1>1. /\ call' \in [Pages -> CallStates]
      /\ call'[p].pc = "ended" /\ call'[p].at = call[p].at /\ call'[p].now = call[p].now
      /\ call'[p].result.status = "rejected"
      /\ \A q \in Pages : q # p => call'[q] = call[q]
  <2>1. Idb!Result("rejected", <<>>) \in Results /\ Idb!Result("rejected", <<>>).status = "rejected"
    BY DEF Idb!Result, Results
  <2>2. call \in [Pages -> CallStates]
    BY DEF Typed
  <2> QED BY <2>1, <2>2 DEF Idb!Rejected, CallStates
<1>2. \A q \in Pages : call'[q].at = call[q].at /\ call'[q].now = call[q].now
  BY <1>1
<1>3. \A q \in Pages : InLine(q)' => InLine(q) /\ q # p
  BY <1>1 DEF InLine
<1>4. \A q \in Pages : Idb!Call(q)' = Idb!Call(q)
  BY <1>2 DEF Idb!Call
<1>5. line' \in Seq(Pages) /\ (line' # <<>> => line # <<>>)
  <2>1. line' # <<>> => 1 \in DOMAIN line'
    BY DEF Left
  <2>2. line' # <<>> => \E k \in DOMAIN line : TRUE
    BY <2>1 DEF Left
  <2> QED BY <2>2 DEF Left, Typed
<1>6. Lines'
  <2>1. \A i \in DOMAIN line' : line'[i] \in Pages /\ call'[line'[i]].pc \in {"made", "finished"}
    <3> SUFFICES ASSUME NEW i \in DOMAIN line' PROVE line'[i] \in Pages /\ call'[line'[i]].pc \in {"made", "finished"}
      OBVIOUS
    <3>1. line'[i] # p /\ \E k \in DOMAIN line : line'[i] = line[k]
      BY DEF Left
    <3>2. InLine(line'[i]) /\ line'[i] \in Pages
      BY <3>1 DEF Lines, Typed
    <3> QED BY <3>1, <3>2, <1>1 DEF InLine
  <2>2. \A q \in Pages : InLine(q)' => \E i \in DOMAIN line' : line'[i] = q
    BY <1>3 DEF Lines, Left
  <2>3. \A i, j \in DOMAIN line' : i < j => line'[i] # line'[j] /\ call'[line'[i]].now <= call'[line'[j]].now
    BY <1>2, <2>1 DEF Left
  <2>4. \A q \in Pages : call'[q].now <= browserClock'
    BY <1>2 DEF Lines
  <2>5. \A q \in Pages : InLine(q)' => call'[q].at \in 1 .. Len(setup'.work[q])
    BY <1>2, <1>3 DEF Lines
  <2> QED BY <2>1, <2>2, <2>3, <2>4, <2>5 DEF Lines, InLine
<1>7. Drafts'
  <2> SUFFICES ASSUME NEW q \in Pages PROVE Drafted(q)'
    BY DEF Drafts
  <2>1. CASE q = p
    BY <2>1, <1>1 DEF Drafted
  <2>2. CASE q # p
    <3>1. call'[q] = call[q] /\ Drafted(q)
      BY <2>2, <1>1 DEF Drafts
    <3>2. call'[q].pc = "finished" => line'[1] = q
      <4>1. call'[q].pc = "finished" => line # <<>> /\ line[1] = q
        BY <3>1, LineFacts DEF Drafted, InLine
      <4> QED BY <4>1, <2>2 DEF Left
    <3> QED BY <3>1, <3>2, <1>4 DEF Drafted
  <2> QED BY <2>1, <2>2
<1>8. VersionsNumbered'
  BY DEF VersionsNumbered
<1>9. \A n \in Nat : Coming(n)' => Coming(n)
  BY <1>2, <1>3 DEF Coming
<1>10. ReceiptsKept'
  <2>1. \A r \in requested : AppliedBy(r)' /\ Remembered(r)'
    <3> SUFFICES ASSUME NEW r \in requested PROVE AppliedBy(r)' /\ Remembered(r)'
      OBVIOUS
    <3>1. AppliedBy(r) /\ Remembered(r)
      BY DEF ReceiptsKept
    <3>2. r.page # p \/ r.at # call[p].at
      BY <3>1 DEF AppliedBy
    <3>3. AppliedBy(r)'
      BY <3>1, <3>2, <1>1, <1>2, <1>9 DEF AppliedBy
    <3> QED BY <3>1, <3>3, <1>9 DEF Remembered
  <2> QED BY <2>1 DEF ReceiptsKept, Idb!AppliedOncePerWindow
<1>11. Told'
  BY <1>1 DEF Told
<1> QED BY <1>1, <1>5, <1>6, <1>7, <1>8, <1>10, <1>11

--------------------
(* Versions and their values *)

LEMMA GivenFacts ==
  ASSUME NEW d, NEW epoch, NEW g \in Idb!Given(d, epoch)
  PROVE  /\ g.target \in Idb!Targets /\ d.rows[g.target] # Missing /\ d.versions[g.target] # Missing
         /\ g.version = d.versions[g.target] /\ g.value = d.rows[g.target].value /\ g.import = epoch
         /\ g = [version |-> d.versions[g.target], target |-> g.target, value |-> d.rows[g.target].value, import |-> epoch]
BY DEF Idb!Given, Idb!Stored

LEMMA IsGiven ==
  ASSUME NEW d, NEW epoch, NEW t \in Idb!Targets, d.rows[t] # Missing, d.versions[t] # Missing
  PROVE  [version |-> d.versions[t], target |-> t, value |-> d.rows[t].value, import |-> epoch] \in Idb!Given(d, epoch)
BY DEF Idb!Given, Idb!Stored

LEMMA FirstFacts ==
  ASSUME NEW d, NEW g \in GivenAtFirst(d)
  PROVE  /\ g.target \in Idb!Targets /\ d.rows[g.target] # Missing /\ d.versions[g.target] # Missing
         /\ g.version = d.versions[g.target] /\ g.import = 0
         /\ \/ g \in Idb!Given(d, 0) /\ (d.schema = 3 \/ g.target \in RecordTargets)
            \/ d.schema = 1 /\ g.target \in KeyTargets /\ g.value = "before"
<1>1. CASE g \in Idb!Given(d, 0) /\ (d.schema = 3 \/ g.target \in RecordTargets)
  BY <1>1, GivenFacts
<1>2. ASSUME NEW h \in Idb!Given(d, 0), d.schema = 1, h.target \in KeyTargets, g = [h EXCEPT !.value = "before"]
      PROVE  /\ g.target \in Idb!Targets /\ d.rows[g.target] # Missing /\ d.versions[g.target] # Missing
             /\ g.version = d.versions[g.target] /\ g.import = 0
             /\ d.schema = 1 /\ g.target \in KeyTargets /\ g.value = "before"
  <2>1. h = [version |-> d.versions[h.target], target |-> h.target, value |-> d.rows[h.target].value, import |-> 0]
    BY GivenFacts
  <2>2. g = [version |-> d.versions[h.target], target |-> h.target, value |-> "before", import |-> 0]
    BY <1>2, <2>1
  <2>3. h.target \in Idb!Targets /\ d.rows[h.target] # Missing /\ d.versions[h.target] # Missing
    BY GivenFacts
  <2> QED BY <1>2, <2>2, <2>3
<1>3. \/ g \in Idb!Given(d, 0) /\ (d.schema = 3 \/ g.target \in RecordTargets)
      \/ \E h \in Idb!Given(d, 0) : d.schema = 1 /\ h.target \in KeyTargets /\ g = [h EXCEPT !.value = "before"]
  BY DEF GivenAtFirst
<1> QED BY <1>1, <1>2, <1>3

LEMMA FirstStands ==
  ASSUME IndexedDbWellFormed, NEW d, SoundDatabase(d)
  PROVE  Stand(GivenAtFirst(d)) /\ Counted(GivenAtFirst(d), d, 0)
<1>1. d \in BrowserDatabases /\ Idb!Valid(d) /\ Distinct(d)
  BY DEF SoundDatabase
<1>2. Stand(GivenAtFirst(d))
  <2> SUFFICES ASSUME NEW g \in GivenAtFirst(d), NEW h \in GivenAtFirst(d), g.version = h.version
               PROVE  g.target = h.target /\ g.value = h.value
    BY DEF Stand
  <2>1. g.target = h.target
    BY <1>1, FirstFacts DEF Distinct
  <2>2. d.schema = 1 => ~(g.target \in KeyTargets /\ g.target \in RecordTargets)
    BY DEF IndexedDbWellFormed
  <2>3. CASE g \in Idb!Given(d, 0) /\ h \in Idb!Given(d, 0)
    BY <2>1, <2>3, GivenFacts
  <2>4. CASE g \notin Idb!Given(d, 0) \/ h \notin Idb!Given(d, 0)
    BY <2>1, <2>2, <2>4, FirstFacts
  <2> QED BY <2>1, <2>3, <2>4
<1>3. Counted(GivenAtFirst(d), d, 0)
  <2> SUFFICES ASSUME NEW g \in GivenAtFirst(d)
               PROVE  g.import = 0 /\ g.version[2] \in Nat /\ d.meta # Missing /\ g.version[2] < d.meta.nextVersion
    BY DEF Counted
  <2>1. g.target \in Idb!Targets /\ d.versions[g.target] # Missing /\ g.version = d.versions[g.target] /\ g.import = 0
    BY FirstFacts
  <2>2. d.versions[g.target][2] \in Nat
    BY <2>1, <1>1, Parts
  <2> QED BY <2>1, <2>2, <1>1 DEF Idb!Valid
<1> QED BY <1>2, <1>3

(* New versions are past all that were given, so no value is lost. *)
LEMMA StandsOn ==
  ASSUME IndexedDbWellFormed, NEW d, NEW e, SoundDatabase(e), NEW epoch \in Nat, NEW known,
         Stand(known), Counted(known, d, epoch),
         d.meta # Missing => /\ d.meta.nextVersion \in Nat /\ e.meta # Missing
                             /\ d.meta.nextVersion <= e.meta.nextVersion,
         \A h \in Idb!Given(e, epoch) : h \in known \/ (d.meta # Missing => h.version[2] >= d.meta.nextVersion)
  PROVE  Stand(known \cup Idb!Given(e, epoch)) /\ Counted(known \cup Idb!Given(e, epoch), e, epoch)
<1>1. e \in BrowserDatabases /\ Idb!Valid(e) /\ Distinct(e)
  BY DEF SoundDatabase
<1>2. e.meta # Missing => e.meta.nextVersion \in Nat
  BY <1>1, Parts DEF Metas
<1>3. \A h \in Idb!Given(e, epoch) : /\ h.import = epoch /\ h.version[2] \in Nat
                                     /\ e.meta # Missing /\ h.version[2] < e.meta.nextVersion
  <2> SUFFICES ASSUME NEW h \in Idb!Given(e, epoch)
               PROVE  /\ h.import = epoch /\ h.version[2] \in Nat
                      /\ e.meta # Missing /\ h.version[2] < e.meta.nextVersion
    OBVIOUS
  <2>1. h.target \in Idb!Targets /\ e.versions[h.target] # Missing /\ h.version = e.versions[h.target] /\ h.import = epoch
    BY GivenFacts
  <2>2. e.versions[h.target][2] \in Nat
    BY <2>1, <1>1, Parts
  <2> QED BY <2>1, <2>2, <1>1 DEF Idb!Valid
<1>4. Counted(known \cup Idb!Given(e, epoch), e, epoch)
  <2>1. \A g \in known : /\ g.import \in Nat /\ g.import <= epoch /\ g.version[2] \in Nat
                         /\ g.import = epoch => e.meta # Missing /\ g.version[2] < e.meta.nextVersion
    BY <1>2 DEF Counted
  <2> QED BY <2>1, <1>3 DEF Counted
<1>5. \A g, h \in Idb!Given(e, epoch) : g.version = h.version => g.target = h.target /\ g.value = h.value
  BY <1>1, GivenFacts DEF Distinct
<1>6. ASSUME NEW g \in known, NEW h \in Idb!Given(e, epoch), g.version = h.version, g.import = h.import
      PROVE  g.target = h.target /\ g.value = h.value
  <2>1. CASE h \in known
    BY <2>1, <1>6 DEF Stand
  <2>2. CASE h \notin known
    <3>1. g.import = epoch /\ d.meta # Missing /\ g.version[2] < d.meta.nextVersion /\ g.version[2] \in Nat
      BY <1>3, <1>6 DEF Counted
    <3>2. h.version[2] >= d.meta.nextVersion
      BY <2>2, <3>1
    <3> QED BY <3>1, <3>2, <1>6
  <2> QED BY <2>1, <2>2
<1>7. ASSUME NEW g \in known \cup Idb!Given(e, epoch), NEW h \in known \cup Idb!Given(e, epoch),
             g.version = h.version, g.import = h.import
      PROVE  g.target = h.target /\ g.value = h.value
  <2>1. CASE g \in known /\ h \in known
    BY <2>1, <1>7 DEF Stand
  <2>2. CASE g \in known /\ h \in Idb!Given(e, epoch)
    BY <2>2, <1>6, <1>7
  <2>3. CASE g \in Idb!Given(e, epoch) /\ h \in known
    BY <2>3, <1>6, <1>7
  <2>4. CASE g \in Idb!Given(e, epoch) /\ h \in Idb!Given(e, epoch)
    BY <2>4, <1>5, <1>7
  <2> QED BY <2>1, <2>2, <2>3, <2>4, <1>7
<1>8. Stand(known \cup Idb!Given(e, epoch))
  BY <1>7 DEF Stand
<1> QED BY <1>4, <1>8

(* A step that takes database d to e, of the current schema, and no import. *)
LEMMA ExtendingStands ==
  ASSUME IndexedDbWellFormed, NEW d, SoundDatabase(d), NEW e, SoundDatabase(e), Extends(d, e), NEW epoch \in Nat, NEW known,
         Stand(known), Counted(known, d, epoch), Idb!Given(d, epoch) \subseteq known
  PROVE  Stand(known \cup Idb!Given(e, epoch)) /\ Counted(known \cup Idb!Given(e, epoch), e, epoch)
<1>1. d \in BrowserDatabases /\ e \in BrowserDatabases
  BY DEF SoundDatabase
<1>2. d.meta # Missing => /\ d.meta.nextVersion \in Nat /\ e.meta # Missing /\ e.meta.nextVersion \in Nat
                          /\ d.meta.nextVersion <= e.meta.nextVersion
  <2>1. d.meta # Missing => d.meta.nextVersion \in Nat
    BY <1>1, Parts DEF Metas
  <2>2. e.meta # Missing => e.meta.nextVersion \in Nat
    BY <1>1, Parts DEF Metas
  <2> QED BY <2>1, <2>2 DEF Extends
<1>3. ASSUME NEW h \in Idb!Given(e, epoch)
      PROVE  h \in known \/ (d.meta # Missing => h.version[2] >= d.meta.nextVersion)
  <2>1. /\ h.target \in Idb!Targets /\ e.versions[h.target] # Missing /\ h.version = e.versions[h.target]
        /\ h = [version |-> e.versions[h.target], target |-> h.target, value |-> e.rows[h.target].value, import |-> epoch]
    BY GivenFacts
  <2>2. CASE e.versions[h.target] = d.versions[h.target] /\ d.rows[h.target] # Missing
              /\ e.rows[h.target].value = d.rows[h.target].value
    <3>1. h \in Idb!Given(d, epoch)
      BY <2>1, <2>2, IsGiven
    <3> QED BY <3>1
  <2> QED BY <2>1, <2>2 DEF Extends
<1> QED BY <1>2, <1>3, StandsOn

(* The upgrade of an earlier schema. *)
LEMMA UpgradeStands ==
  ASSUME IndexedDbWellFormed, NEW d, SoundDatabase(d), d.schema < Idb!SchemaVersion, NEW p \in Pages, NEW now \in Nat
  PROVE  LET e == Idb!Upgraded(d, p, now)
         IN  /\ Stand(GivenAtFirst(d) \cup Idb!Given(e, 0))
             /\ Counted(GivenAtFirst(d) \cup Idb!Given(e, 0), e, 0)
<1> DEFINE e == Idb!Upgraded(d, p, now)
           known == GivenAtFirst(d)
<1>1. /\ SoundDatabase(e) /\ e.schema = Idb!SchemaVersion /\ Extends(d, e) /\ e.rows = d.rows
      /\ d.schema # 1 => e.versions = d.versions /\ e.meta = d.meta
      /\ d.schema = 1 => \A t \in KeyTargets : e.versions[t] # Missing /\ d.meta # Missing =>
                           e.versions[t][2] >= d.meta.nextVersion
  BY MarksApart, UpgradedIs
<1> HIDE DEF e
<1>2. d.schema \in Nat /\ d.schema # 3 /\ d \in BrowserDatabases
  BY Parts DEF SoundDatabase, Idb!SchemaVersion
<1>3. CASE d.schema # 1
  <2>1. Idb!Given(e, 0) = Idb!Given(d, 0)
    BY <1>1, <1>3 DEF Idb!Given, Idb!Stored
  <2>2. known \subseteq Idb!Given(e, 0)
    BY <2>1, <1>2, <1>3 DEF GivenAtFirst
  <2> DEFINE none == [meta |-> Missing]
  <2>3. Stand({}) /\ Counted({}, none, 0) /\ none.meta = Missing
    BY DEF Stand, Counted
  <2> HIDE DEF none, known
  <2>4. Stand({} \cup Idb!Given(e, 0)) /\ Counted({} \cup Idb!Given(e, 0), e, 0)
    BY <2>3, <1>1, StandsOn
  <2>5. {} \cup Idb!Given(e, 0) = known \cup Idb!Given(e, 0)
    BY <2>2
  <2> QED BY <2>4, <2>5 DEF known, e
<1>4. CASE d.schema = 1
  <2>1. Stand(known) /\ Counted(known, d, 0)
    BY FirstStands
  <2>2. d.meta # Missing => /\ d.meta.nextVersion \in Nat /\ e.meta # Missing /\ e.meta.nextVersion \in Nat
                            /\ d.meta.nextVersion <= e.meta.nextVersion
    <3>1. d.meta # Missing => d.meta.nextVersion \in Nat
      BY <1>2, Parts DEF Metas
    <3>2. e.meta # Missing => e.meta.nextVersion \in Nat
      BY <1>1, Parts DEF Metas, SoundDatabase
    <3> QED BY <3>1, <3>2, <1>1 DEF Extends
  <2>3. ASSUME NEW h \in Idb!Given(e, 0)
        PROVE  h \in known \/ (d.meta # Missing => h.version[2] >= d.meta.nextVersion)
    <3>1. /\ h.target \in Idb!Targets /\ e.versions[h.target] # Missing /\ h.version = e.versions[h.target]
          /\ h = [version |-> e.versions[h.target], target |-> h.target, value |-> e.rows[h.target].value, import |-> 0]
      BY GivenFacts
    <3>2. CASE h.target \in KeyTargets
      BY <3>1, <3>2, <1>1, <1>4
    <3>3. CASE h.target \in RecordTargets
      <4>1. CASE e.versions[h.target] = d.versions[h.target] /\ d.rows[h.target] # Missing
                  /\ e.rows[h.target].value = d.rows[h.target].value
        <5>1. h \in Idb!Given(d, 0)
          BY <3>1, <4>1, IsGiven
        <5>2. h \in known
          BY <5>1, <3>3 DEF GivenAtFirst
        <5> QED BY <5>2
      <4> QED BY <3>1, <4>1, <1>1 DEF Extends
    <3> QED BY <3>1, <3>2, <3>3 DEF Idb!Targets
  <2> HIDE DEF known
  <2> QED BY <2>1, <2>2, <2>3, <1>1, StandsOn DEF known, e
<1> QED BY <1>3, <1>4

--------------------
(* The invariant holds at first, and in every step *)

LEMMA Initially == IndexedDbWellFormed /\ Idb!Init => Inductive
<1> SUFFICES ASSUME IndexedDbWellFormed, Idb!Init PROVE Inductive
  OBVIOUS
<1>1. SoundDatabase(database) /\ setup \in Setups /\ backup \in BrowserDatabases /\ Distinct(backup)
  BY DEF Idb!Init, IndexedDbWellFormed
<1>2. call \in [Pages -> CallStates] /\ \A p \in Pages : call[p].pc = "idle" /\ call[p].now = 0
  <2>1. Idb!Result("none", <<>>) \in Results
    BY DEF Idb!Result, Results
  <2> QED BY <2>1 DEF Idb!Init, CallStates
<1>3. Typed
  BY <1>1, <1>2 DEF Typed, Idb!Init
<1>4. Connections
  BY <1>2 DEF Connections, Connected, Idb!Init
<1>5. Lines
  BY <1>2 DEF Lines, Idb!Init, InLine
<1>6. Drafts
  BY <1>2 DEF Drafts, Drafted
<1>7. VersionsNumbered
  <2>1. given = GivenAtFirst(database) /\ imports = 0 /\ requested = {}
    BY DEF Idb!Init, GivenAtFirst
  <2>2. Stand(given) /\ Counted(given, database, imports)
    BY <2>1, <1>1, FirstStands
  <2>3. database.schema = Idb!SchemaVersion => Idb!Given(database, imports) \subseteq given
    BY <2>1 DEF GivenAtFirst, Idb!SchemaVersion
  <2> QED BY <2>1, <2>2, <2>3 DEF VersionsNumbered
<1>8. ReceiptsKept
  BY DEF ReceiptsKept, Idb!AppliedOncePerWindow, Idb!Init
<1>9. Told
  BY <1>2 DEF Told
<1> QED BY <1>3, <1>4, <1>5, <1>6, <1>7, <1>8, <1>9 DEF Inductive

(* What a step of the connections alone leaves. *)
LEMMA WorkStays ==
  ASSUME Inductive, UNCHANGED <<setup, database, backup, browserClock, line, call, given, requested, imports>>
  PROVE  Lines' /\ Drafts' /\ VersionsNumbered' /\ ReceiptsKept' /\ Told'
<1>1. Lines'
  BY DEF Inductive, Lines, InLine
<1>2. Drafts'
  BY DEF Inductive, Drafts, Drafted, Idb!Call
<1>3. VersionsNumbered'
  BY DEF Inductive, VersionsNumbered
<1>4. ReceiptsKept'
  BY DEF Inductive, ReceiptsKept, AppliedBy, Remembered, Idb!AppliedOncePerWindow, Coming, InLine
<1>5. Told'
  BY DEF Inductive, Told
<1> QED BY <1>1, <1>2, <1>3, <1>4, <1>5

LEMMA RequestOpenStep ==
  ASSUME IndexedDbWellFormed, Inductive, NEW p \in Pages, Idb!RequestOpen(p)
  PROVE  Inductive'
<1>1. Lines' /\ Drafts' /\ VersionsNumbered' /\ ReceiptsKept' /\ Told'
  BY WorkStays DEF Idb!RequestOpen
<1>2. Typed'
  BY DEF Inductive, Typed, Idb!RequestOpen
<1>3. Connections'
  BY DEF Inductive, Typed, Connections, Connected, Idb!RequestOpen
<1> QED BY <1>1, <1>2, <1>3 DEF Inductive

LEMMA BlockedStep ==
  ASSUME IndexedDbWellFormed, Inductive, NEW p \in Pages, Idb!Blocked(p)
  PROVE  Inductive'
<1>1. Lines' /\ Drafts' /\ VersionsNumbered' /\ ReceiptsKept' /\ Told'
  BY WorkStays DEF Idb!Blocked
<1>2. Typed'
  BY DEF Inductive, Typed, Idb!Blocked
<1>3. Connections'
  BY DEF Inductive, Typed, Connections, Connected, Idb!Blocked
<1> QED BY <1>1, <1>2, <1>3 DEF Inductive

LEMMA OpenFailsStep ==
  ASSUME IndexedDbWellFormed, Inductive, NEW p \in Pages, Idb!OpenFails(p)
  PROVE  Inductive'
<1>1. Lines' /\ Drafts' /\ VersionsNumbered' /\ ReceiptsKept' /\ Told'
  BY WorkStays DEF Idb!OpenFails
<1>2. Typed'
  BY DEF Inductive, Typed, Idb!OpenFails
<1>3. Connections'
  BY DEF Inductive, Typed, Connections, Connected, Idb!OpenFails
<1> QED BY <1>1, <1>2, <1>3 DEF Inductive

LEMMA ReleaseStep ==
  ASSUME IndexedDbWellFormed, Typed, Connections, NEW p \in Pages,
         NEW reason \in {"closed", "version-change", "connection-lost"}, conn[p] = "open", Idb!Release(p, reason)
  PROVE  /\ conn' \in [Pages -> {"none", "requested", "open", "closed"}]
         /\ unusable' \in [Pages -> {"no", "closed", "version-change", "connection-lost"}]
         /\ unusable'[p] # "no" /\ conn'[p] = "closed"
         /\ \A q \in Pages : q # p => unusable'[q] = unusable[q] /\ conn'[q] = conn[q]
BY DEF Typed, Idb!Release, Idb!ConnectionClosed

LEMMA CloseStep ==
  ASSUME IndexedDbWellFormed, Inductive, NEW p \in Pages, Idb!Close(p) \/ Idb!VersionChange(p)
  PROVE  Inductive'
<1>1. Lines' /\ Drafts' /\ VersionsNumbered' /\ ReceiptsKept' /\ Told'
  BY WorkStays DEF Idb!Close, Idb!VersionChange
<1>2. /\ conn[p] = "open" /\ \E reason \in {"closed", "version-change", "connection-lost"} : Idb!Release(p, reason)
      /\ UNCHANGED <<setup, database, backup, browserClock, promise, line, call, given, requested, imports>>
  BY DEF Idb!Close, Idb!VersionChange
<1>3. /\ conn' \in [Pages -> {"none", "requested", "open", "closed"}]
      /\ unusable' \in [Pages -> {"no", "closed", "version-change", "connection-lost"}]
      /\ unusable'[p] # "no" /\ conn'[p] = "closed"
      /\ \A q \in Pages : q # p => unusable'[q] = unusable[q] /\ conn'[q] = conn[q]
  BY <1>2, ReleaseStep DEF Inductive
<1>4. Typed'
  BY <1>2, <1>3 DEF Inductive, Typed
<1>5. \A q \in Pages : Connected(q)'
  BY <1>2, <1>3 DEF Inductive, Connections, Connected
<1>6. Connections'
  BY <1>2, <1>3, <1>5 DEF Inductive, Connections
<1> QED BY <1>1, <1>4, <1>6 DEF Inductive

LEMMA ConnectionLostStep ==
  ASSUME IndexedDbWellFormed, Inductive, NEW p \in Pages, Idb!ConnectionLost(p)
  PROVE  Inductive'
<1>1. /\ conn[p] = "open" /\ Idb!Release(p, "connection-lost") /\ line' = Idb!Without(p)
      /\ UNCHANGED <<setup, database, earlier, browserClock, backup, promise, given, requested, imports>>
      /\ InLine(p) => call' = Idb!Rejected(p)
      /\ ~InLine(p) => call' = call
  BY DEF Idb!ConnectionLost, InLine
<1>2. /\ conn' \in [Pages -> {"none", "requested", "open", "closed"}]
      /\ unusable' \in [Pages -> {"no", "closed", "version-change", "connection-lost"}]
      /\ unusable'[p] # "no" /\ conn'[p] = "closed"
      /\ \A q \in Pages : q # p => unusable'[q] = unusable[q] /\ conn'[q] = conn[q]
  BY <1>1, ReleaseStep DEF Inductive
<1>3. InOrder /\ (~InLine(p) => \A i \in DOMAIN line : line[i] # p)
  BY LineFacts DEF Inductive
<1>4. /\ call' \in [Pages -> CallStates] /\ line' \in Seq(Pages) /\ (line' # <<>> => line # <<>>)
      /\ Lines' /\ Drafts' /\ VersionsNumbered' /\ ReceiptsKept' /\ Told'
      /\ \A q \in Pages : q # p => call'[q] = call[q]
  <2>1. CASE InLine(p)
    <3>1. call[p].pc # "ended" /\ Left(line', p)
      BY <2>1, <1>1, <1>3, WithoutLeaves DEF InLine
    <3> QED BY <2>1, <3>1, <1>1, Rejecting
  <2>2. CASE ~InLine(p)
    <3>1. line' = line
      BY <2>2, <1>1, <1>3 DEF Idb!Without
    <3> QED BY <2>2, <3>1, <1>1, WorkStays DEF Inductive, Typed
  <2> QED BY <2>1, <2>2
<1>5. Typed'
  BY <1>1, <1>2, <1>4 DEF Inductive, Typed
<1>6. promise[p] = "resolved"
  BY <1>1 DEF Inductive, Connections, Connected
<1>7. \A q \in Pages : Connected(q)'
  BY <1>1, <1>2, <1>4, <1>6 DEF Inductive, Connections, Connected
<1>8. Connections'
  BY <1>1, <1>2, <1>4, <1>7 DEF Inductive, Connections
<1> QED BY <1>4, <1>5, <1>8 DEF Inductive

LEMMA RejectStep ==
  ASSUME IndexedDbWellFormed, Inductive, NEW p \in Pages, Idb!Refuse(p) \/ Idb!Abort(p)
  PROVE  Inductive'
<1>1. /\ call[p].pc # "ended" /\ call' = Idb!Rejected(p) /\ promise[p] = "resolved"
      /\ UNCHANGED <<setup, database, earlier, browserClock, backup, conn, promise, unusable, given, requested, imports>>
      /\ line' = Idb!Without(p) \/ (line' = line /\ ~InLine(p))
  BY DEF Idb!Refuse, Idb!Abort, Idb!AbortedCall, Idb!HasCall, InLine, Inductive, Connections, Connected
<1>2. InOrder /\ (~InLine(p) => \A i \in DOMAIN line : line[i] # p)
  BY LineFacts DEF Inductive
<1>3. Left(line', p)
  <2>1. CASE line' = Idb!Without(p)
    BY <2>1, <1>2, WithoutLeaves
  <2>2. CASE line' = line /\ ~InLine(p)
    <3>1. Left(line, p)
      BY <2>2, <1>2 DEF InOrder, Left
    <3> QED BY <2>2, <3>1
  <2> QED BY <2>1, <2>2, <1>1
<1>4. /\ call' \in [Pages -> CallStates] /\ line' \in Seq(Pages) /\ (line' # <<>> => line # <<>>)
      /\ Lines' /\ Drafts' /\ VersionsNumbered' /\ ReceiptsKept' /\ Told'
      /\ \A q \in Pages : q # p => call'[q] = call[q]
  BY <1>1, <1>3, Rejecting
<1>5. Typed'
  BY <1>1, <1>4 DEF Inductive, Typed
<1>6. \A q \in Pages : Connected(q)'
  BY <1>1, <1>4 DEF Inductive, Connections, Connected
<1>7. Connections'
  BY <1>1, <1>4, <1>6 DEF Inductive, Connections
<1> QED BY <1>4, <1>5, <1>7 DEF Inductive

LEMMA OpenSucceedsStep ==
  ASSUME IndexedDbWellFormed, Inductive, NEW p \in Pages, Idb!OpenSucceeds(p)
  PROVE  Inductive'
<1> USE DEF Inductive
<1>1. /\ conn[p] = "requested"
      /\ database.schema = Idb!SchemaVersion \/ database.schema < Idb!SchemaVersion
      /\ database' = IF database.schema = Idb!SchemaVersion THEN database ELSE Idb!Upgraded(database, p, browserClock)
      /\ given' = given \cup Idb!Given(database', imports)
      /\ conn' = [conn EXCEPT ![p] = Idb!Settled(p)]
      /\ promise' = [promise EXCEPT ![p] = IF @ = "pending" THEN "resolved" ELSE @]
      /\ UNCHANGED <<setup, earlier, browserClock, backup, unusable, line, call, requested, imports>>
  BY DEF Idb!OpenSucceeds
<1>2. /\ SoundDatabase(database) /\ browserClock \in Nat /\ imports \in Nat /\ p \in Identities
      /\ line \in Seq(Pages) /\ call \in [Pages -> CallStates]
  BY MarksApart DEF Typed
<1>3. SoundDatabase(database') /\ database'.schema = Idb!SchemaVersion
  BY <1>1, <1>2, UpgradedIs DEF Idb!SchemaVersion
<1>4. Stand(given') /\ Counted(given', database', imports)
  <2>1. CASE database.schema = Idb!SchemaVersion
    <3>1. database' = database /\ given' = given
      BY <2>1, <1>1 DEF VersionsNumbered
    <3> QED BY <3>1 DEF VersionsNumbered
  <2>2. CASE database.schema < Idb!SchemaVersion
    <3>0. database.schema \in Nat
      BY <1>2, Parts DEF SoundDatabase
    <3>1. database' = Idb!Upgraded(database, p, browserClock) /\ given = GivenAtFirst(database) /\ imports = 0
      BY <2>2, <3>0, <1>1 DEF VersionsNumbered, Idb!SchemaVersion
    <3>2. given' = GivenAtFirst(database) \cup Idb!Given(Idb!Upgraded(database, p, browserClock), 0)
      BY <3>1, <1>1
    <3> QED BY <2>2, <3>1, <3>2, <1>2, UpgradeStands
  <2> QED BY <2>1, <2>2, <1>1
<1>5. VersionsNumbered'
  <2>1. Idb!Given(database', imports) \subseteq given' /\ imports' = imports
    BY <1>1
  <2> QED BY <2>1, <1>3, <1>4 DEF VersionsNumbered, Idb!SchemaVersion
<1>6. /\ conn' \in [Pages -> {"none", "requested", "open", "closed"}]
      /\ promise' \in [Pages -> {"none", "pending", "resolved", "rejected"}]
      /\ \/ promise[p] = "pending" /\ promise'[p] = "resolved" /\ conn'[p] = "open"
         \/ promise[p] = "rejected" /\ promise'[p] = "rejected" /\ conn'[p] = "closed"
      /\ \A q \in Pages : q # p => promise'[q] = promise[q] /\ conn'[q] = conn[q]
  BY <1>1 DEF Typed, Idb!Settled, Connections, Connected
<1>7. Typed'
  BY <1>1, <1>3, <1>6 DEF Typed
<1>8. \A q \in Pages : Connected(q)'
  BY <1>1, <1>6 DEF Connections, Connected, Typed
<1>9. Connections'
  BY <1>1, <1>3, <1>8 DEF Connections
<1>10. Lines'
  BY <1>1 DEF Lines, InLine
<1>11. Drafts'
  <2> SUFFICES ASSUME NEW q \in Pages PROVE Drafted(q)'
    BY DEF Drafts
  <2>1. call[q].pc = "finished" => database' = database
    <3>1. call[q].pc = "finished" => line # <<>>
      BY LineFacts DEF InLine
    <3> QED BY <3>1, <1>1 DEF Connections
  <2> QED BY <2>1, <1>1 DEF Drafts, Drafted, Idb!Call
<1>12. \A r \in requested : AppliedBy(r)'
  BY <1>1 DEF ReceiptsKept, AppliedBy, Coming, InLine
<1>13. \A r \in requested : Remembered(r)'
  <2> SUFFICES ASSUME NEW r \in requested PROVE Remembered(r)'
    OBVIOUS
  <2>1. CASE database' = database
    BY <2>1, <1>1 DEF ReceiptsKept, Remembered, Coming, InLine
  <2>2. CASE database.schema < Idb!SchemaVersion
    BY <2>2 DEF VersionsNumbered
  <2> QED BY <2>1, <2>2, <1>1
<1>14. ReceiptsKept' /\ Told'
  BY <1>1, <1>12, <1>13 DEF ReceiptsKept, Idb!AppliedOncePerWindow, Told
<1> QED BY <1>5, <1>7, <1>9, <1>10, <1>11, <1>14

LEMMA MakeStep ==
  ASSUME IndexedDbWellFormed, Inductive, NEW p \in Pages, Idb!Make(p)
  PROVE  Inductive'
<1> USE DEF Inductive
<1>1. /\ Idb!HasCall(p) /\ call[p].pc = "idle" /\ unusable[p] = "no" /\ (Idb!Call(p).op = "import" => Idb!Valid(backup))
      /\ call' = [call EXCEPT ![p].pc = "made", ![p].now = browserClock] /\ line' = Append(line, p)
      /\ UNCHANGED <<setup, database, earlier, browserClock, backup, conn, promise, unusable, given, requested, imports>>
  BY DEF Idb!Make
<1>2. call \in [Pages -> CallStates] /\ line \in Seq(Pages) /\ browserClock \in Nat
  BY DEF Typed
<1>3. /\ call' \in [Pages -> CallStates]
      /\ call'[p].pc = "made" /\ call'[p].at = call[p].at /\ call'[p].now = browserClock
      /\ \A q \in Pages : q # p => call'[q] = call[q]
  BY <1>1, <1>2 DEF CallStates
<1>4. /\ Len(line) \in Nat /\ DOMAIN line = 1 .. Len(line) /\ line' \in Seq(Pages)
      /\ DOMAIN line' = 1 .. Len(line) + 1 /\ line'[Len(line) + 1] = p
      /\ \A i \in 1 .. Len(line) : line'[i] = line[i] /\ line[i] \in Pages
  BY <1>1, <1>2
<1>5. ~InLine(p) /\ \A i \in DOMAIN line : line[i] # p
  BY <1>1, LineFacts DEF InLine
<1>6. \A q \in Pages : InLine(q)' <=> q = p \/ InLine(q)
  BY <1>3 DEF InLine
<1>7. \A q \in Pages : Idb!Call(q)' = Idb!Call(q) /\ call'[q].at = call[q].at
  BY <1>1, <1>3 DEF Idb!Call
<1>8. Lines'
  <2>1. \A i \in DOMAIN line' : line'[i] \in Pages /\ call'[line'[i]].pc \in {"made", "finished"}
    <3> SUFFICES ASSUME NEW i \in DOMAIN line' PROVE line'[i] \in Pages /\ call'[line'[i]].pc \in {"made", "finished"}
      OBVIOUS
    <3>1. CASE i = Len(line) + 1
      BY <3>1, <1>3, <1>4
    <3>2. CASE i \in 1 .. Len(line)
      <4>1. line'[i] = line[i] /\ line[i] \in Pages /\ line[i] # p /\ InLine(line[i])
        BY <3>2, <1>4, <1>5 DEF Lines
      <4> QED BY <4>1, <1>3 DEF InLine
    <3> QED BY <3>1, <3>2, <1>4
  <2>2. \A q \in Pages : InLine(q)' => \E i \in DOMAIN line' : line'[i] = q
    <3> SUFFICES ASSUME NEW q \in Pages, InLine(q)' PROVE \E i \in DOMAIN line' : line'[i] = q
      OBVIOUS
    <3>1. CASE q = p
      <4>1. Len(line) + 1 \in DOMAIN line'
        BY <1>4
      <4> QED BY <3>1, <4>1, <1>4
    <3>2. CASE q # p
      <4>1. PICK i \in DOMAIN line : line[i] = q
        BY <3>2, <1>6 DEF Lines
      <4>2. i \in DOMAIN line' /\ line'[i] = q
        BY <4>1, <1>4
      <4> QED BY <4>2
    <3> QED BY <3>1, <3>2
  <2>3. \A i, j \in DOMAIN line' : i < j => line'[i] # line'[j] /\ call'[line'[i]].now <= call'[line'[j]].now
    <3> SUFFICES ASSUME NEW i \in DOMAIN line', NEW j \in DOMAIN line', i < j
                 PROVE  line'[i] # line'[j] /\ call'[line'[i]].now <= call'[line'[j]].now
      OBVIOUS
    <3>1. i \in 1 .. Len(line) /\ line'[i] = line[i] /\ line[i] \in Pages /\ line[i] # p /\ call'[line[i]] = call[line[i]]
      BY <1>3, <1>4, <1>5
    <3>2. CASE j = Len(line) + 1
      <4>1. call[line[i]].now <= browserClock
        BY <3>1 DEF Lines
      <4> QED BY <3>1, <3>2, <4>1, <1>3, <1>4
    <3>3. CASE j \in 1 .. Len(line)
      <4>1. line'[j] = line[j] /\ line[j] \in Pages /\ line[j] # p /\ call'[line[j]] = call[line[j]]
        BY <3>3, <1>3, <1>4, <1>5
      <4> QED BY <3>1, <3>3, <4>1, <1>4 DEF Lines
    <3> QED BY <3>2, <3>3, <1>4
  <2>4. \A q \in Pages : call'[q].now <= browserClock'
    BY <1>1, <1>2, <1>3 DEF Lines
  <2>5. \A q \in Pages : InLine(q)' => call'[q].at \in 1 .. Len(setup'.work[q])
    <3> SUFFICES ASSUME NEW q \in Pages, InLine(q)' PROVE call[q].at \in 1 .. Len(setup.work[q])
      BY <1>1, <1>7
    <3>1. CASE q = p
      BY <3>1, <1>1, CallFacts DEF Idb!HasCall
    <3>2. CASE q # p
      BY <3>2, <1>6 DEF Lines
    <3> QED BY <3>1, <3>2
  <2> QED BY <2>1, <2>2, <2>3, <2>4, <2>5 DEF Lines, InLine
<1>9. Drafts'
  <2> SUFFICES ASSUME NEW q \in Pages PROVE Drafted(q)'
    BY DEF Drafts
  <2>1. CASE q = p
    BY <2>1, <1>1, <1>3, <1>7 DEF Drafted
  <2>2. CASE q # p
    <3>1. call[q].pc = "finished" => line'[1] = line[1]
      BY <1>4, LineFacts DEF InLine
    <3> QED BY <2>2, <3>1, <1>1, <1>3, <1>7 DEF Drafts, Drafted
  <2> QED BY <2>1, <2>2
<1>10. \A n \in Nat : Coming(n)' => Coming(n)
  BY <1>1, <1>3, <1>6 DEF Coming
<1>11. ReceiptsKept'
  <2>1. \A r \in requested : AppliedBy(r)'
    <3> SUFFICES ASSUME NEW r \in requested PROVE AppliedBy(r)'
      OBVIOUS
    <3>1. AppliedBy(r)
      BY DEF ReceiptsKept
    <3>2. r.page = p => r.at # call[p].at
      BY <3>1, <1>1 DEF AppliedBy
    <3> QED BY <3>1, <3>2, <1>1, <1>3, <1>7, <1>10 DEF AppliedBy
  <2>2. \A r \in requested : Remembered(r)'
    BY <1>1, <1>10 DEF ReceiptsKept, Remembered
  <2> QED BY <2>1, <2>2, <1>1 DEF ReceiptsKept, Idb!AppliedOncePerWindow
<1>12. Told' /\ VersionsNumbered'
  BY <1>1, <1>3 DEF Told, VersionsNumbered
<1>13. Typed'
  BY <1>1, <1>3, <1>4 DEF Typed
<1>14. conn[p] = "open" /\ promise[p] = "resolved"
  BY <1>1 DEF Idb!HasCall, Connections, Connected
<1>15. \A q \in Pages : Connected(q)'
  BY <1>1, <1>3, <1>14 DEF Connections, Connected
<1>16. Connections'
  BY <1>1, <1>14, <1>15 DEF Connections
<1> QED BY <1>8, <1>9, <1>11, <1>12, <1>13, <1>16

LEMMA FinishStep ==
  ASSUME IndexedDbWellFormed, Inductive, NEW p \in Pages, Idb!Finish(p)
  PROVE  Inductive'
<1> USE DEF Inductive
<1> DEFINE draft == Idb!Outcome(p, database, Idb!Call(p)).database
           result == Idb!Outcome(p, database, Idb!Call(p)).result
<1>1. /\ line # <<>> /\ Head(line) = p /\ call[p].pc = "made"
      /\ call' = [call EXCEPT ![p].pc = "finished", ![p].draft = draft, ![p].result = result]
      /\ UNCHANGED <<setup, database, earlier, browserClock, backup, conn, promise, unusable, line, given, requested, imports>>
  BY DEF Idb!Finish
<1>2. call \in [Pages -> CallStates] /\ line \in Seq(Pages) /\ browserClock \in Nat /\ line[1] = p /\ InLine(p)
  BY <1>1 DEF Typed, InLine
<1>3. IsOutcome(database, draft, Idb!Call(p), call[p].now, result.status) /\ result \in Results
  <2>1. SoundDatabase(database) /\ database.schema # 1
    BY <1>1 DEF Typed, Connections, Idb!SchemaVersion
  <2>2. Idb!Call(p) \in Calls /\ call[p].now \in Nat
    BY <1>2, LineFacts, CallFacts
  <2>3. Idb!Call(p).op = "import" => Idb!Valid(backup)
    BY <1>1 DEF Drafts, Drafted
  <2>4. backup \in BrowserDatabases /\ Distinct(backup)
    BY DEF Typed
  <2> QED BY <2>1, <2>2, <2>3, <2>4, <1>2, OutcomeIs
<1> HIDE DEF draft, result
<1>4. /\ call' \in [Pages -> CallStates]
      /\ call'[p].pc = "finished" /\ call'[p].at = call[p].at /\ call'[p].now = call[p].now
      /\ call'[p].draft = draft /\ call'[p].result = result
      /\ \A q \in Pages : q # p => call'[q] = call[q]
  <2>1. draft \in BrowserDatabases
    BY <1>3 DEF IsOutcome, SoundDatabase
  <2> QED BY <2>1, <1>1, <1>2, <1>3 DEF CallStates
<1>5. \A q \in Pages : Idb!Call(q)' = Idb!Call(q) /\ call'[q].at = call[q].at /\ call'[q].now = call[q].now /\ (InLine(q)' <=> InLine(q))
  BY <1>1, <1>2, <1>4 DEF Idb!Call, InLine
<1>6. Lines'
  <2>1. \A i \in DOMAIN line : line[i] \in Pages
    BY <1>2
  <2>2. \A i \in DOMAIN line : call'[line[i]].pc \in {"made", "finished"}
    BY <2>1, <1>5 DEF Lines, InLine
  <2>3. \A i, j \in DOMAIN line : i < j => line[i] # line[j] /\ call'[line[i]].now <= call'[line[j]].now
    BY <2>1, <1>5 DEF Lines
  <2>4. \A q \in Pages : InLine(q)' => \E i \in DOMAIN line' : line'[i] = q
    BY <1>1, <1>5 DEF Lines
  <2>5. \A q \in Pages : call'[q].now <= browserClock'
    BY <1>1, <1>5 DEF Lines
  <2>6. \A q \in Pages : InLine(q)' => call'[q].at \in 1 .. Len(setup'.work[q])
    BY <1>1, <1>5 DEF Lines
  <2>7. line' = line
    BY <1>1
  <2> QED BY <2>2, <2>3, <2>4, <2>5, <2>6, <2>7 DEF Lines, InLine
<1>7. Drafts'
  <2> SUFFICES ASSUME NEW q \in Pages PROVE Drafted(q)'
    BY DEF Drafts
  <2>1. CASE q = p
    BY <2>1, <1>1, <1>2, <1>3, <1>4, <1>5 DEF Drafted
  <2>2. CASE q # p
    BY <2>2, <1>1, <1>4, <1>5 DEF Drafts, Drafted
  <2> QED BY <2>1, <2>2
<1>8. \A n \in Nat : Coming(n)' => Coming(n)
  BY <1>1, <1>5 DEF Coming
<1>9. ReceiptsKept'
  <2>1. \A r \in requested : AppliedBy(r)'
    <3> SUFFICES ASSUME NEW r \in requested PROVE AppliedBy(r)'
      OBVIOUS
    <3>1. AppliedBy(r)
      BY DEF ReceiptsKept
    <3>2. r.page = p => r.at # call[p].at
      BY <3>1, <1>1 DEF AppliedBy
    <3> QED BY <3>1, <3>2, <1>1, <1>4, <1>5, <1>8 DEF AppliedBy
  <2>2. \A r \in requested : Remembered(r)'
    BY <1>1, <1>8 DEF ReceiptsKept, Remembered
  <2> QED BY <2>1, <2>2, <1>1 DEF ReceiptsKept, Idb!AppliedOncePerWindow
<1>10. Told' /\ VersionsNumbered'
  BY <1>1, <1>4 DEF Told, VersionsNumbered
<1>11. Typed'
  BY <1>1, <1>4 DEF Typed
<1>12. \A q \in Pages : Connected(q)'
  BY <1>1, <1>4 DEF Connections, Connected
<1>13. Connections'
  BY <1>1, <1>12 DEF Connections
<1> QED BY <1>6, <1>7, <1>9, <1>10, <1>11, <1>13

LEMMA GoOnStep ==
  ASSUME IndexedDbWellFormed, Inductive, NEW p \in Pages, Idb!GoOn(p)
  PROVE  Inductive'
<1> USE DEF Inductive
<1>1. /\ call[p].pc = "ended" /\ call' = [call EXCEPT ![p].pc = "idle", ![p].at = @ + 1]
      /\ UNCHANGED <<setup, database, earlier, browserClock, backup, conn, promise, unusable, line, given, requested, imports>>
  BY DEF Idb!GoOn
<1>2. call \in [Pages -> CallStates] /\ line \in Seq(Pages) /\ call[p].at \in Nat
  BY CallFacts DEF Typed
<1>3. /\ call' \in [Pages -> CallStates]
      /\ call'[p].pc = "idle" /\ call'[p].at = call[p].at + 1 /\ call'[p].now = call[p].now
      /\ \A q \in Pages : q # p => call'[q] = call[q]
  <2>1. PICK n \in Nat \ {0} : n = call[p].at + 1
    BY <1>2
  <2>2. call' = [call EXCEPT ![p] = [call[p] EXCEPT !.pc = "idle", !.at = n]]
    BY <2>1, <1>1, <1>2
  <2> QED BY <2>1, <2>2, <1>2 DEF CallStates
<1>4. \A q \in Pages : InLine(q)' <=> InLine(q)
  BY <1>1, <1>3 DEF InLine
<1>5. \A q \in Pages : InLine(q) => q # p /\ call'[q] = call[q] /\ Idb!Call(q)' = Idb!Call(q)
  BY <1>1, <1>3 DEF InLine, Idb!Call
<1>6. Lines'
  <2>1. \A i \in DOMAIN line : line[i] \in Pages /\ InLine(line[i])
    BY <1>2 DEF Lines
  <2>2. \A i \in DOMAIN line : call'[line[i]].pc \in {"made", "finished"} /\ call'[line[i]] = call[line[i]]
    BY <2>1, <1>5 DEF InLine
  <2>3. \A i, j \in DOMAIN line : i < j => line[i] # line[j] /\ call'[line[i]].now <= call'[line[j]].now
    BY <2>2 DEF Lines
  <2>4. \A q \in Pages : InLine(q)' => \E i \in DOMAIN line' : line'[i] = q
    BY <1>1, <1>4 DEF Lines
  <2>5. \A q \in Pages : call'[q].now <= browserClock'
    BY <1>1, <1>3 DEF Lines
  <2>6. \A q \in Pages : InLine(q)' => call'[q].at \in 1 .. Len(setup'.work[q])
    BY <1>1, <1>4, <1>5 DEF Lines
  <2>7. line' = line
    BY <1>1
  <2> QED BY <2>2, <2>3, <2>4, <2>5, <2>6, <2>7 DEF Lines, InLine
<1>7. Drafts'
  <2> SUFFICES ASSUME NEW q \in Pages PROVE Drafted(q)'
    BY DEF Drafts
  <2>1. CASE InLine(q)
    BY <2>1, <1>1, <1>5 DEF Drafts, Drafted
  <2>2. CASE ~InLine(q)
    BY <2>2, <1>4 DEF Drafted, InLine
  <2> QED BY <2>1, <2>2
<1>8. \A n \in Nat : Coming(n)' => Coming(n)
  BY <1>1, <1>4, <1>5 DEF Coming
<1>9. ReceiptsKept'
  <2>1. \A r \in requested : AppliedBy(r)'
    <3> SUFFICES ASSUME NEW r \in requested PROVE AppliedBy(r)'
      OBVIOUS
    <3>1. AppliedBy(r)
      BY DEF ReceiptsKept
    <3>2. r.at <= call'[r.page].at /\ (r.page = p => r.at # call'[p].at)
      BY <3>1, <1>2, <1>3 DEF AppliedBy
    <3> QED BY <3>1, <3>2, <1>1, <1>3, <1>8 DEF AppliedBy
  <2>2. \A r \in requested : Remembered(r)'
    BY <1>1, <1>8 DEF ReceiptsKept, Remembered
  <2> QED BY <2>1, <2>2, <1>1 DEF ReceiptsKept, Idb!AppliedOncePerWindow
<1>10. Told' /\ VersionsNumbered'
  BY <1>1, <1>3 DEF Told, VersionsNumbered
<1>11. Typed'
  BY <1>1, <1>3 DEF Typed
<1>12. \A q \in Pages : Connected(q)'
  BY <1>1, <1>3 DEF Connections, Connected
<1>13. Connections'
  BY <1>1, <1>12 DEF Connections
<1> QED BY <1>6, <1>7, <1>9, <1>10, <1>11, <1>13

(* What a transaction that is not an import leaves of the receipts in
   force: enough to know every request that was applied in the window. *)
LEMMA ReceiptsOn ==
  ASSUME IndexedDbWellFormed, Inductive, NEW p \in Pages, InLine(p), NEW e, SoundDatabase(e),
         NEW status, Answers(database, e, Idb!Call(p), call[p].now, status),
         \A n \in Nat : Coming(n) => call[p].now <= n,
         NEW r \in requested, r.import = imports, r.key # NoPageKey
  PROVE  /\ r.key \in PageKeys /\ call[p].now \in Nat
         /\ \/ e.receipts[r.key] # Missing /\ e.receipts[r.key].created \in Nat
               /\ e.receipts[r.key].created >= r.now
            \/ \A n \in Nat : Coming(n) => r.now + WindowMs < n
         /\ ~Lasts(database.receipts[r.key], call[p].now) => r.now + WindowMs < call[p].now
<1> DEFINE now == call[p].now
           before == database.receipts[r.key]
           after == e.receipts[r.key]
<1>1. now \in Nat /\ Coming(now)
  BY CallFacts DEF Inductive, Coming
<1>2. r.now \in Nat /\ r.now <= now /\ WindowMs \in Nat
  BY <1>1 DEF Inductive, ReceiptsKept, AppliedBy, IndexedDbWellFormed
<1>3. /\ r.key \in PageKeys
      /\ \/ before # Missing /\ before.created \in Nat /\ before.created >= r.now
         \/ \A n \in Nat : Coming(n) => r.now + WindowMs < n
  BY DEF Inductive, ReceiptsKept, Remembered
<1>4. after = before \/ Forgets(database, e, r.key, now) \/ Notes(database, e, r.key, now)
  BY <1>3 DEF Answers
<1>5. ~Lasts(before, now) => r.now + WindowMs < now
  <2>1. CASE before # Missing /\ before.created \in Nat /\ before.created >= r.now
    <3>1. before.created # Missing
      BY <2>1, MarksApart
    <3> QED BY <2>1, <3>1, <1>1, <1>2 DEF Lasts, Idb!IsExpired
  <2>2. CASE \A n \in Nat : Coming(n) => r.now + WindowMs < n
    BY <2>2, <1>1
  <2> QED BY <2>1, <2>2, <1>3
<1>6. ~Lasts(before, now) => \A n \in Nat : Coming(n) => r.now + WindowMs < n
  BY <1>1, <1>2, <1>5
<1>7. \/ after # Missing /\ after.created \in Nat /\ after.created >= r.now
      \/ \A n \in Nat : Coming(n) => r.now + WindowMs < n
  <2>1. CASE after = before
    BY <2>1, <1>3
  <2>2. CASE Forgets(database, e, r.key, now)
    BY <2>2, <1>6 DEF Forgets
  <2>3. CASE Notes(database, e, r.key, now)
    BY <2>3, <1>1, <1>2 DEF Notes
  <2> QED BY <2>1, <2>2, <2>3, <1>4
<1> QED BY <1>1, <1>3, <1>5, <1>7

LEMMA CompleteStep ==
  ASSUME IndexedDbWellFormed, Inductive, NEW p \in Pages, Idb!Complete(p)
  PROVE  Inductive'
<1> USE DEF Inductive
<1> DEFINE draft == call[p].draft
           status == call[p].result.status
           now == call[p].now
<1>1. /\ line # <<>> /\ Head(line) = p /\ call[p].pc = "finished"
      /\ database' = draft /\ line' = Tail(line)
      /\ call' = [call EXCEPT ![p].pc = "ended", ![p].draft = Missing]
      /\ imports' = (IF Idb!Call(p).op = "import" THEN imports + 1 ELSE imports)
      /\ given' = given \cup Idb!Given(database', imports')
      /\ backup' = (IF Idb!Call(p).op = "export" THEN database ELSE backup)
      /\ requested' = (IF status = "applied" THEN requested \cup {Idb!Request(p)} ELSE requested)
      /\ UNCHANGED <<setup, earlier, browserClock, conn, promise, unusable>>
  BY DEF Idb!Complete
<1>2. /\ call \in [Pages -> CallStates] /\ line \in Seq(Pages) /\ browserClock \in Nat /\ imports \in Nat
      /\ line[1] = p /\ InLine(p) /\ SoundDatabase(database)
  BY <1>1 DEF Typed, InLine
<1>3. IsOutcome(database, draft, Idb!Call(p), now, status)
  BY <1>1 DEF Drafts, Drafted
<1>4. /\ SoundDatabase(draft) /\ draft.schema = Idb!SchemaVersion /\ database.schema = Idb!SchemaVersion
      /\ (Idb!Call(p).op # "import" => Extends(database, draft) /\ Answers(database, draft, Idb!Call(p), now, status))
      /\ (status = "applied" => Idb!Call(p).op = "mutate")
  BY <1>1, <1>3 DEF IsOutcome, Connections, Answers
<1>5. Idb!Call(p) \in Calls /\ now \in Nat /\ call[p].at \in Nat
  BY <1>2, LineFacts, CallFacts
<1>6. /\ call' \in [Pages -> CallStates]
      /\ call'[p].pc = "ended" /\ call'[p].at = call[p].at /\ call'[p].now = now /\ call'[p].result = call[p].result
      /\ \A q \in Pages : q # p => call'[q] = call[q]
  BY <1>1, <1>2 DEF CallStates
<1>7. \A q \in Pages : /\ Idb!Call(q)' = Idb!Call(q) /\ call'[q].at = call[q].at /\ call'[q].now = call[q].now
                       /\ call'[q].result = call[q].result
                       /\ InLine(q)' <=> InLine(q) /\ q # p
  BY <1>1, <1>6 DEF Idb!Call, InLine
<1>8. Left(line', p) /\ InOrder
  BY <1>1, LineFacts, TailLeaves
<1>9. \A n \in Nat : (Coming(n)' => Coming(n)) /\ (Coming(n) => now <= n)
  <2>1. \A n \in Nat : Coming(n)' => Coming(n)
    BY <1>1, <1>7 DEF Coming
  <2>2. ASSUME NEW q \in Pages, InLine(q) PROVE now <= call[q].now
    <3>1. PICK i \in DOMAIN line : line[i] = q
      BY <2>2 DEF Lines
    <3>2. CASE i = 1
      BY <3>1, <3>2, <1>2, <1>5
    <3>3. CASE i # 1
      <4>1. 1 \in DOMAIN line /\ 1 < i
        BY <3>3, <1>1, <1>2
      <4> QED BY <3>1, <4>1, <1>2 DEF Lines
    <3> QED BY <3>2, <3>3
  <2>3. now <= browserClock
    BY DEF Lines
  <2> QED BY <2>1, <2>2, <2>3 DEF Coming
<1> HIDE DEF draft, status, now
<1>10. Lines'
  <2>1. \A i \in DOMAIN line' : line'[i] \in Pages /\ call'[line'[i]].pc \in {"made", "finished"}
    <3> SUFFICES ASSUME NEW i \in DOMAIN line' PROVE line'[i] \in Pages /\ call'[line'[i]].pc \in {"made", "finished"}
      OBVIOUS
    <3>1. line'[i] # p /\ \E k \in DOMAIN line : line'[i] = line[k]
      BY <1>8 DEF Left
    <3>2. InLine(line'[i]) /\ line'[i] \in Pages
      BY <3>1, <1>2 DEF Lines
    <3> QED BY <3>1, <3>2, <1>6 DEF InLine
  <2>2. \A q \in Pages : InLine(q)' => \E i \in DOMAIN line' : line'[i] = q
    BY <1>7, <1>8 DEF Lines, Left
  <2>3. \A i, j \in DOMAIN line' : i < j => line'[i] # line'[j] /\ call'[line'[i]].now <= call'[line'[j]].now
    BY <1>7, <1>8, <2>1 DEF Left
  <2>4. \A q \in Pages : call'[q].now <= browserClock'
    BY <1>1, <1>7 DEF Lines
  <2>5. \A q \in Pages : InLine(q)' => call'[q].at \in 1 .. Len(setup'.work[q])
    BY <1>1, <1>7 DEF Lines
  <2> QED BY <2>1, <2>2, <2>3, <2>4, <2>5 DEF Lines, InLine
<1>11. line' \in Seq(Pages)
  BY <1>8 DEF Left
<1>12. backup' \in BrowserDatabases /\ Distinct(backup') /\ (Idb!Valid(backup) => Idb!Valid(backup'))
  BY <1>1, <1>2 DEF Typed, SoundDatabase
<1>13. Drafts'
  <2> SUFFICES ASSUME NEW q \in Pages PROVE Drafted(q)'
    BY DEF Drafts
  <2>1. CASE q = p
    BY <2>1, <1>6 DEF Drafted
  <2>2. CASE q # p
    <3>1. call'[q] = call[q] /\ Drafted(q) /\ Idb!Call(q)' = Idb!Call(q)
      BY <2>2, <1>6, <1>7 DEF Drafts
    <3>2. call[q].pc # "finished"
      BY <2>2, <3>1, <1>2 DEF Drafted
    <3> QED BY <3>1, <3>2, <1>12 DEF Drafted
  <2> QED BY <2>1, <2>2
<1>14. imports' \in Nat /\ imports <= imports' /\ (Idb!Call(p).op = "import" => imports' = imports + 1)
       /\ (Idb!Call(p).op # "import" => imports' = imports)
  BY <1>1, <1>2
<1>15. Stand(given') /\ Counted(given', draft, imports')
  <2>1. Stand(given) /\ Counted(given, database, imports) /\ Idb!Given(database, imports) \subseteq given
    BY <1>4 DEF VersionsNumbered
  <2>2. CASE Idb!Call(p).op = "import"
    <3> DEFINE none == [meta |-> Missing]
    <3>1. none.meta = Missing
      OBVIOUS
    <3> HIDE DEF none
    <3>2. Counted(given, none, imports')
      BY <2>1, <2>2, <1>2, <1>14 DEF Counted
    <3> QED BY <2>1, <3>1, <3>2, <1>1, <1>4, <1>14, StandsOn
  <2>3. CASE Idb!Call(p).op # "import"
    BY <2>1, <2>3, <1>1, <1>2, <1>4, <1>14, ExtendingStands
  <2> QED BY <2>2, <2>3
<1>16. VersionsNumbered'
  <2>1. Idb!Given(database', imports') \subseteq given'
    BY <1>1
  <2>2. database' = draft /\ ~(draft.schema < Idb!SchemaVersion)
    BY <1>1, <1>4 DEF Idb!SchemaVersion
  <2> QED BY <2>1, <2>2, <1>15 DEF VersionsNumbered
<1>17. Typed'
  BY <1>1, <1>4, <1>6, <1>11, <1>12, <1>14 DEF Typed
<1>18. \A q \in Pages : Connected(q)'
  BY <1>1, <1>6 DEF Connections, Connected
<1>19. Connections'
  BY <1>1, <1>4, <1>18 DEF Connections
<1>20. \A r \in requested : AppliedBy(r)'
  <2> SUFFICES ASSUME NEW r \in requested PROVE AppliedBy(r)'
    OBVIOUS
  <2>1. AppliedBy(r) /\ r.import \in Nat
    BY DEF ReceiptsKept, AppliedBy
  <2>2. r.page # p \/ r.at # call[p].at
    BY <2>1, <1>1 DEF AppliedBy
  <2>3. r.import <= imports'
    BY <2>1, <1>2, <1>14 DEF AppliedBy
  <2> QED BY <2>1, <2>2, <2>3, <1>6, <1>7, <1>9 DEF AppliedBy
<1>21. ASSUME NEW r \in requested, r.import = imports', r.key # NoPageKey
       PROVE  /\ Remembered(r)'
              /\ ~Lasts(database.receipts[r.key], now) => r.now + WindowMs < now
  <2>1. Idb!Call(p).op # "import" /\ r.import = imports
    <3>1. r.import \in Nat /\ r.import <= imports
      BY DEF ReceiptsKept, AppliedBy
    <3> QED BY <3>1, <1>2, <1>14, <1>21
  <2>2. /\ r.key \in PageKeys
        /\ \/ draft.receipts[r.key] # Missing /\ draft.receipts[r.key].created \in Nat
              /\ draft.receipts[r.key].created >= r.now
           \/ \A n \in Nat : Coming(n) => r.now + WindowMs < n
        /\ ~Lasts(database.receipts[r.key], now) => r.now + WindowMs < now
    BY <2>1, <1>2, <1>4, <1>9, <1>21, ReceiptsOn DEF now
  <2> QED BY <2>2, <1>1, <1>9 DEF Remembered
<1>22. \A r \in requested : Remembered(r)'
  BY <1>21 DEF Remembered
<1>m. PICK mine : mine = Idb!Request(p)
  OBVIOUS
<1>23. ASSUME status = "applied"
       PROVE  /\ AppliedBy(mine)' /\ Remembered(mine)'
              /\ mine.now = now /\ mine.import = imports'
              /\ mine.key # NoPageKey => ~Lasts(database.receipts[mine.key], now)
  <2>1. /\ mine.page = p /\ mine.at = call[p].at /\ mine.key = Idb!Call(p).key /\ mine.now = now /\ mine.import = imports
        /\ imports' = imports /\ Idb!Call(p).op = "mutate" /\ Idb!Call(p).key \in PageKeys \cup {NoPageKey}
    BY <1>m, <1>4, <1>5, <1>14, <1>23 DEF Idb!Request, Calls, now
  <2>2. Idb!Call(p).key # NoPageKey => Notes(database, draft, Idb!Call(p).key, now)
    BY <2>1, <1>4, <1>23 DEF Answers
  <2>4. /\ mine.page \in Pages /\ mine.at = call'[mine.page].at /\ call'[mine.page].pc = "ended"
        /\ call'[mine.page].result.status = "applied"
        /\ mine.at \in Nat /\ mine.now \in Nat /\ mine.import \in Nat /\ mine.import <= imports'
        /\ \A n \in Nat : Coming(n)' => mine.now <= n
    BY <2>1, <1>2, <1>5, <1>6, <1>9, <1>23 DEF status
  <2>5. mine.key # NoPageKey => /\ mine.key \in PageKeys /\ database'.receipts[mine.key] # Missing
                                /\ database'.receipts[mine.key].created = now
                                /\ ~Lasts(database.receipts[mine.key], now)
    BY <2>1, <2>2, <1>1 DEF Notes
  <2> QED BY <2>1, <2>4, <2>5, <1>5 DEF AppliedBy, Remembered
<1>24. ReceiptsKept'
  <2>1. \A r \in requested' : AppliedBy(r)' /\ Remembered(r)'
    <3> SUFFICES ASSUME NEW r \in requested' PROVE AppliedBy(r)' /\ Remembered(r)'
      OBVIOUS
    <3>1. CASE r \in requested
      BY <3>1, <1>20, <1>22
    <3>2. CASE r \notin requested
      <4>1. status = "applied" /\ r = mine
        BY <3>2, <1>1, <1>m
      <4> QED BY <4>1, <1>23
    <3> QED BY <3>1, <3>2
  <2>2. ASSUME NEW r \in requested, status = "applied", r.key = mine.key, r.key # NoPageKey, r.import = mine.import
        PROVE  r.now + WindowMs < mine.now
    BY <2>2, <1>21, <1>23
  <2>3. \A r, s \in requested' : r # s /\ r.key = s.key /\ r.key # NoPageKey /\ r.import = s.import =>
          r.now + WindowMs < s.now \/ s.now + WindowMs < r.now
    <3> SUFFICES ASSUME NEW r \in requested', NEW s \in requested', r # s, r.key = s.key, r.key # NoPageKey, r.import = s.import
                 PROVE  r.now + WindowMs < s.now \/ s.now + WindowMs < r.now
      OBVIOUS
    <3>1. CASE r \in requested /\ s \in requested
      BY <3>1 DEF ReceiptsKept, Idb!AppliedOncePerWindow
    <3>2. CASE r \in requested /\ s \notin requested
      <4>1. status = "applied" /\ s = mine
        BY <3>2, <1>1, <1>m
      <4> QED BY <3>2, <4>1, <2>2
    <3>3. CASE r \notin requested /\ s \in requested
      <4>1. status = "applied" /\ r = mine
        BY <3>3, <1>1, <1>m
      <4> QED BY <3>3, <4>1, <2>2
    <3>4. CASE r \notin requested /\ s \notin requested
      BY <3>4, <1>1
    <3> QED BY <3>1, <3>2, <3>3, <3>4
  <2> QED BY <2>1, <2>3 DEF ReceiptsKept, Idb!AppliedOncePerWindow
<1>25. Told'
  <2> SUFFICES ASSUME NEW q \in Pages, call'[q].pc = "ended", call'[q].result.status = "applied"
               PROVE  \E r \in requested' : r.page = q /\ r.at = call'[q].at
    BY DEF Told
  <2>1. CASE q = p
    <3>1. status = "applied"
      BY <2>1, <1>6 DEF status
    <3>2. mine \in requested' /\ mine.page = p /\ mine.at = call[p].at
      BY <3>1, <1>1, <1>m DEF Idb!Request
    <3> QED BY <3>2, <2>1, <1>6
  <2>2. CASE q # p
    <3>1. \E r \in requested : r.page = q /\ r.at = call[q].at
      BY <2>2, <1>6 DEF Told
    <3> QED BY <3>1, <2>2, <1>1, <1>6
  <2> QED BY <2>1, <2>2
<1> QED BY <1>10, <1>13, <1>16, <1>17, <1>19, <1>24, <1>25

LEMMA EarlierClosesStep ==
  ASSUME Inductive, Idb!EarlierCloses
  PROVE  Inductive'
<1>1. UNCHANGED <<setup, database, browserClock, backup, conn, promise, unusable, line, call, given, requested, imports>>
  BY DEF Idb!EarlierCloses
<1>2. Lines' /\ Drafts' /\ VersionsNumbered' /\ ReceiptsKept' /\ Told'
  BY <1>1, WorkStays
<1>3. Typed' /\ Connections'
  BY <1>1 DEF Inductive, Typed, Connections, Connected
<1> QED BY <1>2, <1>3 DEF Inductive

LEMMA NewerUpgradesStep ==
  ASSUME IndexedDbWellFormed, Inductive, Idb!NewerUpgrades
  PROVE  Inductive'
<1> USE DEF Inductive
<1>1. /\ database.schema = Idb!SchemaVersion /\ line = <<>> /\ \A p \in Pages : conn[p] # "open"
      /\ database' = [database EXCEPT !.schema = Idb!SchemaVersion + 1]
      /\ UNCHANGED <<setup, earlier, browserClock, backup, conn, promise, unusable, line, call, given, requested, imports>>
  BY DEF Idb!NewerUpgrades
<1>2. SoundDatabase(database) /\ \A p \in Pages : ~InLine(p)
  BY <1>1, LineFacts DEF Typed
<1>3. /\ database' \in BrowserDatabases /\ database'.schema = 4 /\ database'.rows = database.rows
      /\ database'.versions = database.versions /\ database'.receipts = database.receipts
      /\ database'.meta = database.meta
  BY <1>1, <1>2 DEF SoundDatabase, BrowserDatabases, Idb!SchemaVersion
<1>4. SoundDatabase(database')
  BY <1>1, <1>2, <1>3 DEF SoundDatabase, Idb!Valid, Distinct, Paired, Idb!SchemaVersion
<1>5. Typed'
  BY <1>1, <1>4 DEF Typed
<1>6. Connections'
  BY <1>1 DEF Connections, Connected
<1>7. Lines'
  BY <1>1 DEF Lines, InLine
<1>8. Drafts'
  BY <1>1, <1>2 DEF Drafts, Drafted, InLine
<1>9. VersionsNumbered'
  BY <1>1, <1>3 DEF VersionsNumbered, Counted, Idb!SchemaVersion
<1>10. ReceiptsKept' /\ Told'
  BY <1>1, <1>3 DEF ReceiptsKept, AppliedBy, Remembered, Idb!AppliedOncePerWindow, Coming, InLine, Told
<1> QED BY <1>5, <1>6, <1>7, <1>8, <1>9, <1>10

LEMMA TickStep ==
  ASSUME IndexedDbWellFormed, Inductive, Idb!Tick
  PROVE  Inductive'
<1> USE DEF Inductive
<1>1. /\ browserClock' = browserClock + 1 /\ browserClock \in Nat
      /\ UNCHANGED <<setup, database, earlier, backup, conn, promise, unusable, line, call, given, requested, imports>>
  BY DEF Idb!Tick, Typed
<1>2. Typed' /\ Connections'
  BY <1>1 DEF Typed, Connections, Connected
<1>3. \A p \in Pages : call[p].now \in Nat
  BY CallFacts
<1>4. Lines'
  <2>1. \A p \in Pages : call[p].now <= browserClock'
    BY <1>1, <1>3 DEF Lines
  <2> QED BY <2>1, <1>1 DEF Lines, InLine
<1>5. Drafts'
  BY <1>1 DEF Drafts, Drafted, Idb!Call
<1>6. VersionsNumbered' /\ Told'
  BY <1>1 DEF VersionsNumbered, Told
<1>7. \A n \in Nat : Coming(n)' => Coming(n) \/ (Coming(browserClock) /\ n = browserClock + 1)
  BY <1>1 DEF Coming, InLine
<1>8. \A r \in requested : AppliedBy(r)'
  <2> SUFFICES ASSUME NEW r \in requested PROVE AppliedBy(r)'
    OBVIOUS
  <2>1. AppliedBy(r) /\ r.now \in Nat
    BY DEF ReceiptsKept, AppliedBy
  <2>2. \A n \in Nat : Coming(n)' => r.now <= n
    BY <2>1, <1>1, <1>7 DEF AppliedBy
  <2> QED BY <2>1, <2>2, <1>1 DEF AppliedBy
<1>9. \A r \in requested : Remembered(r)'
  <2> SUFFICES ASSUME NEW r \in requested, r.import = imports, r.key # NoPageKey PROVE Remembered(r)'
    BY <1>1 DEF Remembered
  <2>1. Remembered(r) /\ r.now \in Nat /\ WindowMs \in Nat
    BY DEF ReceiptsKept, AppliedBy, IndexedDbWellFormed
  <2>2. (\A n \in Nat : Coming(n) => r.now + WindowMs < n) => (\A n \in Nat : Coming(n)' => r.now + WindowMs < n)
    BY <2>1, <1>1, <1>7
  <2> QED BY <2>1, <2>2, <1>1 DEF Remembered
<1>10. ReceiptsKept'
  BY <1>1, <1>8, <1>9 DEF ReceiptsKept, Idb!AppliedOncePerWindow
<1> QED BY <1>2, <1>4, <1>5, <1>6, <1>10

LEMMA IndexedDbSteps ==
  IndexedDbWellFormed /\ Inductive /\ [Idb!Next]_Idb!indexedDbVars => Inductive'
<1> SUFFICES ASSUME IndexedDbWellFormed, Inductive, [Idb!Next]_Idb!indexedDbVars PROVE Inductive'
  OBVIOUS
<1>1. ASSUME NEW p \in Pages, Idb!Step(p) PROVE Inductive'
  BY <1>1, RequestOpenStep, BlockedStep, OpenFailsStep, OpenSucceedsStep, RejectStep, MakeStep, FinishStep,
     CompleteStep, GoOnStep DEF Idb!Step
<1>2. ASSUME NEW p \in Pages, Idb!Close(p) \/ Idb!VersionChange(p) \/ Idb!ConnectionLost(p) \/ Idb!Abort(p) PROVE Inductive'
  BY <1>2, CloseStep, ConnectionLostStep, RejectStep
<1>3. CASE Idb!EarlierCloses \/ Idb!NewerUpgrades \/ Idb!Tick
  BY <1>3, EarlierClosesStep, NewerUpgradesStep, TickStep
<1>4. CASE UNCHANGED Idb!indexedDbVars
  <2>1. UNCHANGED <<setup, database, browserClock, backup, conn, promise, unusable, line, call, given, requested, imports>>
    BY <1>4 DEF Idb!indexedDbVars
  <2>2. Lines' /\ Drafts' /\ VersionsNumbered' /\ ReceiptsKept' /\ Told'
    BY <2>1, WorkStays
  <2>3. Typed' /\ Connections'
    BY <2>1 DEF Inductive, Typed, Connections, Connected
  <2> QED BY <2>2, <2>3 DEF Inductive
<1> QED BY <1>1, <1>2, <1>3, <1>4 DEF Idb!Next

LEMMA IndexedDbInvariant == IndexedDbWellFormed => (Idb!Spec => []Inductive)
<1> SUFFICES ASSUME IndexedDbWellFormed PROVE Idb!Spec => []Inductive
  OBVIOUS
<1>1. Idb!Init => Inductive
  BY Initially
<1>2. Inductive /\ [Idb!Next]_Idb!indexedDbVars => Inductive'
  BY IndexedDbSteps
<1> QED BY <1>1, <1>2, PTL DEF Idb!Spec

(* In the current schema every row has its version, an adapter is released
   only after it was handed out, and only transactions under way wait. *)
THEOREM IndexedDbTypes == IndexedDbWellFormed => (Idb!Spec => []Idb!TypeOK)
<1> SUFFICES ASSUME IndexedDbWellFormed PROVE Idb!Spec => []Idb!TypeOK
  OBVIOUS
<1>1. Inductive => Idb!TypeOK
  <2> SUFFICES ASSUME Inductive PROVE Idb!TypeOK
    OBVIOUS
  <2>1. database.schema = Idb!SchemaVersion =>
          \A t \in Idb!Targets : (database.rows[t] = Missing) = (database.versions[t] = Missing)
    BY DEF Inductive, Typed, SoundDatabase, Idb!Valid, Paired, Idb!SchemaVersion
  <2>2. \A p \in Pages : unusable[p] # "no" => promise[p] = "resolved"
    BY DEF Inductive, Connections, Connected
  <2>3. \A i \in DOMAIN line : call[line[i]].pc \in {"made", "finished"}
    BY DEF Inductive, Lines, InLine
  <2> QED BY <2>1, <2>2, <2>3 DEF Idb!TypeOK
<1> QED BY <1>1, IndexedDbInvariant, PTL

(* A connection that comes after its caller was told of a rejection is
   closed at once, and a release closes the connection with the adapter. *)
THEOREM NoConnectionLeaksHolds == IndexedDbWellFormed => (Idb!Spec => []Idb!NoConnectionLeaks)
<1> SUFFICES ASSUME IndexedDbWellFormed PROVE Idb!Spec => []Idb!NoConnectionLeaks
  OBVIOUS
<1>1. Inductive => Idb!NoConnectionLeaks
  BY DEF Inductive, Connections, Connected, Idb!NoConnectionLeaks
<1> QED BY <1>1, IndexedDbInvariant, PTL

(* A version stands for one value of one target, across the upgrade from
   every schema, plain writes, retries and removals (Backfill, Written). *)
THEOREM IndexedDbVersionsStandForOneValue == IndexedDbWellFormed => (Idb!Spec => []Idb!VersionsStandForOneValue)
<1> SUFFICES ASSUME IndexedDbWellFormed PROVE Idb!Spec => []Idb!VersionsStandForOneValue
  OBVIOUS
<1>1. Inductive => Idb!VersionsStandForOneValue
  BY DEF Inductive, VersionsNumbered, Stand, Idb!VersionsStandForOneValue
<1> QED BY <1>1, IndexedDbInvariant, PTL

(* A request under a key is applied again only more than the window after
   it: the times that pages read before their transactions are in the
   order of the transactions, and pruning forgets only what is over. *)
THEOREM IndexedDbAppliesOncePerWindow == IndexedDbWellFormed => (Idb!Spec => []Idb!AppliedOncePerWindow)
<1> SUFFICES ASSUME IndexedDbWellFormed PROVE Idb!Spec => []Idb!AppliedOncePerWindow
  OBVIOUS
<1>1. Inductive => Idb!AppliedOncePerWindow
  BY DEF Inductive, ReceiptsKept
<1> QED BY <1>1, IndexedDbInvariant, PTL

(* What a resolved promise says was applied is durable; a rejected one
   left nothing, of a page that was refused, aborted or lost its database. *)
THEOREM IndexedDbPromisesTellTheTruth == IndexedDbWellFormed => (Idb!Spec => []Idb!PromisesTellTheTruth)
<1> SUFFICES ASSUME IndexedDbWellFormed PROVE Idb!Spec => []Idb!PromisesTellTheTruth
  OBVIOUS
<1>1. Inductive => Idb!PromisesTellTheTruth
  BY DEF Inductive, ReceiptsKept, AppliedBy, Told, Idb!PromisesTellTheTruth
<1> QED BY <1>1, IndexedDbInvariant, PTL

(* Records keep the order they were first put in: no ordinal is used by
   two, after imports and upgrades too. *)
THEOREM OrdinalsOrderRecordsHolds == IndexedDbWellFormed => (Idb!Spec => []Idb!OrdinalsOrderRecords)
<1> SUFFICES ASSUME IndexedDbWellFormed PROVE Idb!Spec => []Idb!OrdinalsOrderRecords
  OBVIOUS
<1>1. Inductive => Idb!OrdinalsOrderRecords
  <2> SUFFICES ASSUME Inductive, NEW t \in RecordTargets, database.rows[t] # Missing
               PROVE  /\ database.rows[t].ordinal < database.meta.nextOrdinal
                      /\ \A u \in RecordTargets \ {t} :
                           database.rows[u] # Missing => database.rows[u].ordinal # database.rows[t].ordinal
    BY DEF Idb!OrdinalsOrderRecords
  <2>1. t \in Idb!Targets /\ Idb!Valid(database) /\ Distinct(database)
    BY DEF Inductive, Typed, SoundDatabase, Idb!Targets
  <2> QED BY <2>1 DEF Idb!Valid, Distinct
<1> QED BY <1>1, IndexedDbInvariant, PTL
===============================================================================
