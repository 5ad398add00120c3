------------------------ MODULE PostgresAdapter_proofs ------------------------
(***************************************************************************)
(* Theorems of PostgresAdapter, for any clients, requests, bounds and      *)
(* numbers of faults. The database as the holder of the lock sees it and   *)
(* the committed one are both sound (Sound) at every moment: a version in  *)
(* a row was handed out with that row's value and carries no number that   *)
(* is still to come, a request in force has its receipt until its window   *)
(* is over, and a version that was written over does not come back.        *)
(***************************************************************************)
EXTENDS PostgresAdapter, FiniteSetTheorems, WellFoundedInduction, SequenceTheorems, TLAPS

CONSTANTS
  Values,     \* what rows hold
  Versions,   \* versions that an earlier release issued
  Digests,    \* digests of requests
  Guesses     \* versions that conditions name

AnyVersion == Versions \cup {Token(n) : n \in Nat} \cup {OwnVersion(t) : t \in Targets}

Rows == [value : Values, version : AnyVersion \cup {Missing}]

Answers == Seq(AnyVersion \cup {Missing})

Receipts == [digest : Digests, versions : Answers, created : Nat \cup {Missing}]

Conditions == [target : Targets, expected : {"missing", "present", "version"}, version : Guesses]

Applied == [key : Keys \cup {NoKey}, digest : Digests, created : Nat, decided : Nat,
            versions : Answers, conditions : Seq(Conditions), targets : SUBSET Targets,
            by : (Clients \X (Nat \ {0})) \cup {Missing}]

Databases == [rows : [Targets -> Rows \cup {Missing}], receipts : [Keys -> Receipts \cup {Missing}],
              versioned : BOOLEAN, applied : SUBSET Applied]

Operations ==
  [kind : {"mutate"}, key : Keys \cup {NoKey}, digest : Digests, conditions : Seq(Conditions),
   operations : Seq([target : Targets, op : {"write", "remove"}])]
  \cup [kind : {"set", "delete", "read"}, target : Targets]
  \cup [kind : {"prune", "open"}]

Statuses == {"none", "applied", "replayed", "idempotency-conflict", "conflict", "done", "absent",
             "value", "failed", "lost", "indeterminate"}

Answerable == [client : Clients, status : Statuses, versions : Answers]

ClientStates ==
  [work : Seq(Operations), wrapped : BOOLEAN,
   pc : {"idle", "begun", "open", "committing", "committed", "ended"},
   attempt : Nat \ {0}, began : Nat, at : Nat \ {0}, seen : Rows \cup {Missing},
   answer : Answerable]

Writes(o, t) ==
  \/ o.kind \in {"set", "delete"} /\ o.target = t
  \/ o.kind = "mutate" /\ \E i \in DOMAIN o.operations : o.operations[i].target = t

Unnumbered(row) == row # Missing /\ row.version = Missing

--------------------
(* What the theorems ask of the constants: that marks are none of the
   values; that versions of earlier releases are none of this one's and
   stand for one value each; that what is in force at first has receipts;
   and of the callers, that a call outside transaction() is one operation,
   as init is, and that nobody writes the rows without versions that are
   read outside a transaction. *)
Marked ==
  /\ RetentionMs \in Nat /\ MaxClock \in Nat
  /\ NoKey \notin Keys
  /\ Missing \notin Nat \cup Rows \cup Receipts \cup AnyVersion \cup Guesses
  /\ Clients \cup Digests \subseteq Values
  /\ \A v \in Versions : (\A n \in Nat : v # Token(n)) /\ (\A t \in Targets : v # OwnVersion(t))

StartsSound(d) ==
  /\ d \in Databases
  /\ \A t \in Targets : d.rows[t] # Missing => d.rows[t].version \in Versions \cup {Missing}
  /\ \A p, q \in Named(d.rows) : p[1] = q[1] => p[2] = q[2]
  /\ \A a \in d.applied :
       /\ a.key \in Keys /\ a.created = 0 /\ a.conditions = <<>> /\ a.by \notin Clients \X Nat
       /\ d.receipts[a.key] # Missing
       /\ \A b \in d.applied : a.key = b.key => a = b
  /\ \A k \in Keys : d.receipts[k] # Missing =>
       \E a \in d.applied : a.digest = d.receipts[k].digest /\ a.versions = d.receipts[k].versions

CallsAreSingle(s) ==
  \A c \in Clients : s.work[c] # <<>> /\ (c \notin s.wrapped \/ s.work[c][1].kind = "open") => Len(s.work[c]) = 1

ReadsAreQuiet(s) ==
  \A c \in Clients \ s.wrapped :
    s.work[c] # <<>> /\ s.work[c][1].kind = "read" /\ Unnumbered(s.database.rows[s.work[c][1].target]) =>
      \A d \in Clients : \A i \in DOMAIN s.work[d] : ~Writes(s.work[d][i], s.work[c][1].target)

WellFormed ==
  /\ Marked
  /\ \A s \in Scenarios :
       /\ StartsSound(s.database)
       /\ s.work \in [Clients -> Seq(Operations)]
       /\ CallsAreSingle(s)
       /\ ReadsAreQuiet(s)

--------------------
(* The invariant, for what scenario s began with. Told: what was handed
   out, when n numbers were used. *)
Told(s, n, names) ==
  /\ names \subseteq AnyVersion \X Values
  /\ \A p \in names, k \in Nat : p[1] = Token(k) => k <= n
  /\ \A p \in names, t \in Targets : p[1] = OwnVersion(t) =>
       s.database.rows[t] # Missing /\ p[2] = s.database.rows[t].value
  /\ \A p, q \in names : p[1] = q[1] => p[2] = q[2]

(* The rows of d: those without a version are as they were at first. *)
Kept(s, t) == \A c \in Clients : \A i \in DOMAIN s.work[c] : ~Writes(s.work[c][i], t)

Numbered(s, d, names) ==
  /\ Named(d.rows) \subseteq names
  /\ \A t \in Targets : Unnumbered(d.rows[t]) => d.rows[t] = s.database.rows[t]
  /\ ~d.versioned => d.rows = s.database.rows
  /\ \A t \in Targets : s.database.rows[t] # Missing /\ Kept(s, t) =>
       d.rows[t] # Missing /\ d.rows[t].value = s.database.rows[t].value

(* A request in force has a receipt, no older, or its window is over. *)
Remembered(d, a, now) ==
  \/ a.created + RetentionMs < now
  \/ /\ d.receipts[a.key] # Missing
     /\ \/ d.receipts[a.key].created = Missing /\ a.created = 0
        \/ d.receipts[a.key].created # Missing /\ a.created <= d.receipts[a.key].created

Windowed(d, now) ==
  /\ \A a \in d.applied : a.key # NoKey => Remembered(d, a, now)
  /\ \A a, b \in d.applied : a # b /\ a.key = b.key /\ a.key # NoKey =>
       a.decided > b.created + RetentionMs \/ b.decided > a.created + RetentionMs

(* A request in force took away the versions that it was conditional on. *)
OnVersion(a, i) == a.conditions[i].expected = "version" /\ a.conditions[i].target \in a.targets

Taken(d, a, i, n) ==
  /\ d.versioned
  /\ \A k \in Nat : a.conditions[i].version = Token(k) => k <= n
  /\ d.rows[a.conditions[i].target] # Missing =>
       d.rows[a.conditions[i].target].version # a.conditions[i].version

Won(d, n) ==
  /\ \A a \in d.applied : \A i \in DOMAIN a.conditions : OnVersion(a, i) => Taken(d, a, i, n)
  /\ \A a, b \in d.applied : a # b =>
       ~\E i \in DOMAIN a.conditions, j \in DOMAIN b.conditions :
          /\ a.conditions[i].expected = "version" /\ a.conditions[i] = b.conditions[j]
          /\ a.conditions[i].target \in a.targets \cap b.targets

(* What a receipt replays is in force. *)
Backed(d) ==
  \A k \in Keys : d.receipts[k] # Missing =>
    \E a \in d.applied : a.digest = d.receipts[k].digest /\ a.versions = d.receipts[k].versions

Sound(s, d, n, names, now) ==
  d \in Databases /\ Numbered(s, d, names) /\ Windowed(d, now) /\ Won(d, n) /\ Backed(d)

--------------------
(* The lemmas below are about databases alone. *)

(* Time, numbers and what was handed out only grow, and what is sound
   stays so. *)
LEMMA SoundStays ==
  ASSUME Marked, NEW s, NEW d, NEW n \in Nat, NEW m \in Nat, n <= m, NEW names, NEW more,
         names \subseteq more, NEW now \in Nat, NEW later \in Nat, now <= later,
         Sound(s, d, n, names, now)
  PROVE  Sound(s, d, m, more, later)
<1>1. Numbered(s, d, more)
  BY DEF Sound, Numbered
<1>2. Windowed(d, later)
  <2>1. ASSUME NEW a \in d.applied, Remembered(d, a, now) PROVE Remembered(d, a, later)
    <3>1. a.created \in Nat
      BY DEF Sound, Databases, Applied
    <3> QED BY <2>1, <3>1 DEF Remembered, Marked
  <2> QED BY <2>1 DEF Sound, Windowed
<1>3. Won(d, m)
  BY DEF Sound, Won, Taken
<1> QED BY <1>1, <1>2, <1>3 DEF Sound

(* What pruning at the time now makes of a receipt. *)
PrunedTo(receipt, kept, now) ==
  \/ kept = receipt
  \/ receipt # Missing /\ receipt.created = Missing /\ kept = [receipt EXCEPT !.created = now]
  \/ /\ receipt # Missing /\ receipt.created # Missing /\ receipt.created + RetentionMs < now
     /\ kept = Missing

LEMMA BatchesAreParts == ASSUME NEW S, NEW b \in Batches(S) PROVE b \subseteq S
BY DEF Batches, kSubset

LEMMA PrunedIs ==
  ASSUME Marked, NEW receipts \in [Keys -> Receipts \cup {Missing}], NEW now \in Nat,
         NEW p \in Pruned(receipts, now)
  PROVE  /\ p \in [Keys -> Receipts \cup {Missing}]
         /\ \A k \in Keys : PrunedTo(receipts[k], p[k], now)
<1>1. PICK stamped \in Stamped(receipts, now) :
        \E batch \in Batches({k \in Keys : IsPrunable(stamped[k], now)}) :
          p = [k \in Keys |-> IF k \in batch THEN Missing ELSE stamped[k]]
  BY DEF Pruned
<1>2. PICK batch \in Batches({k \in Keys : IsPrunable(stamped[k], now)}) :
        p = [k \in Keys |-> IF k \in batch THEN Missing ELSE stamped[k]]
  BY <1>1
<1>3. PICK undated \in Batches({k \in Keys : receipts[k] # Missing /\ receipts[k].created = Missing}) :
        stamped = [k \in Keys |-> IF k \in undated THEN [receipts[k] EXCEPT !.created = now] ELSE receipts[k]]
  BY DEF Stamped
<1>4. \A k \in undated : k \in Keys /\ receipts[k] # Missing /\ receipts[k].created = Missing
  BY BatchesAreParts
<1>5. \A k \in batch : k \in Keys /\ IsPrunable(stamped[k], now)
  BY <1>2, BatchesAreParts
<1>6. ASSUME NEW k \in Keys
      PROVE  p[k] \in Receipts \cup {Missing} /\ PrunedTo(receipts[k], p[k], now)
  <2>1. receipts[k] \in Receipts \cup {Missing}
    OBVIOUS
  <2>2. CASE k \in undated
    <3>1. receipts[k] \in Receipts /\ stamped[k] = [receipts[k] EXCEPT !.created = now]
      BY <2>2, <1>3, <1>4
    <3>2. stamped[k] \in Receipts /\ stamped[k].created = now
      BY <3>1 DEF Receipts
    <3>3. k \notin batch
      BY <3>2, <1>5 DEF IsPrunable, IsExpired, Marked
    <3> QED BY <3>1, <3>2, <3>3, <2>2, <1>2, <1>4 DEF PrunedTo
  <2>3. CASE k \notin undated
    <3>1. stamped[k] = receipts[k]
      BY <2>3, <1>3
    <3> QED BY <3>1, <2>1, <1>2, <1>5 DEF PrunedTo, IsPrunable, IsExpired
  <2> QED BY <2>2, <2>3
<1> QED BY <1>2, <1>6

(* Pruning at a time that has been keeps a database sound. *)
LEMMA PruneSound ==
  ASSUME Marked, NEW s, NEW d, NEW n, NEW names, NEW now \in Nat, NEW began \in Nat, began <= now,
         Sound(s, d, n, names, now), NEW p \in Pruned(d.receipts, began)
  PROVE  Sound(s, [d EXCEPT !.receipts = p], n, names, now)
<1> DEFINE e == [d EXCEPT !.receipts = p]
<1>1. d \in Databases
  BY DEF Sound
<1>2. /\ p \in [Keys -> Receipts \cup {Missing}]
      /\ \A k \in Keys : PrunedTo(d.receipts[k], p[k], began)
  BY <1>1, PrunedIs DEF Databases
<1>3. e \in Databases /\ e.rows = d.rows /\ e.versioned = d.versioned /\ e.applied = d.applied /\ e.receipts = p
  BY <1>1, <1>2 DEF Databases
<1>4. \A k \in Keys : d.receipts[k] \in Receipts \cup {Missing} /\ p[k] \in Receipts \cup {Missing}
  BY <1>1, <1>2 DEF Databases
<1>5. Numbered(s, e, names) /\ Won(e, n)
  BY <1>3 DEF Sound, Numbered, Won, Taken
<1>6. ASSUME NEW a \in d.applied, a.key # NoKey, Remembered(d, a, now) PROVE Remembered(e, a, now)
  <2>1. a.key \in Keys /\ a.created \in Nat
    BY <1>1, <1>6 DEF Databases, Applied
  <2>2. PrunedTo(d.receipts[a.key], p[a.key], began)
    BY <2>1, <1>2
  <2>3. d.receipts[a.key] # Missing => d.receipts[a.key] \in Receipts
    BY <2>1, <1>4
  <2>4. CASE p[a.key] = d.receipts[a.key]
    BY <2>4, <1>3, <1>6 DEF Remembered
  <2>5. CASE d.receipts[a.key] # Missing /\ d.receipts[a.key].created = Missing
             /\ p[a.key] = [d.receipts[a.key] EXCEPT !.created = began]
    <3>1. p[a.key].created = began /\ p[a.key] # Missing
      BY <2>1, <2>3, <2>5 DEF Receipts, Marked
    <3>2. a.created = 0 \/ a.created + RetentionMs < now
      BY <1>6, <2>5 DEF Remembered
    <3> QED BY <3>1, <3>2, <1>3 DEF Remembered, Marked
  <2>6. CASE d.receipts[a.key] # Missing /\ d.receipts[a.key].created # Missing
             /\ d.receipts[a.key].created + RetentionMs < began
    <3>1. d.receipts[a.key].created \in Nat
      BY <2>6, <2>3 DEF Receipts
    <3>2. a.created <= d.receipts[a.key].created \/ a.created + RetentionMs < now
      BY <1>6, <2>6 DEF Remembered
    <3> QED BY <3>1, <3>2, <2>1, <2>6 DEF Remembered, Marked
  <2> QED BY <2>2, <2>4, <2>5, <2>6 DEF PrunedTo
<1>7. Windowed(e, now)
  BY <1>3, <1>6 DEF Sound, Windowed
<1>8. Backed(e)
  <2> SUFFICES ASSUME NEW k \in Keys, p[k] # Missing
               PROVE  \E a \in d.applied : a.digest = p[k].digest /\ a.versions = p[k].versions
    BY <1>3 DEF Backed
  <2>1. d.receipts[k] # Missing /\ p[k].digest = d.receipts[k].digest /\ p[k].versions = d.receipts[k].versions
    BY <1>2, <1>4 DEF PrunedTo, Receipts
  <2> QED BY <2>1 DEF Sound, Backed
<1> QED BY <1>3, <1>5, <1>7, <1>8 DEF Sound

(* A request whose key has no live receipt left is over. *)
LEMMA ForgottenIsOver ==
  ASSUME Marked, NEW s, NEW d, NEW n, NEW names, NEW now \in Nat, NEW began \in Nat, began <= now,
         Sound(s, d, n, names, now), NEW p \in Pruned(d.receipts, began),
         NEW a \in d.applied, a.key \in Keys, ~Live(p, a.key, began)
  PROVE  a.created + RetentionMs < now
<1> DEFINE e == [d EXCEPT !.receipts = p]
<1>1. Sound(s, e, n, names, now)
  BY PruneSound
<1>2. d \in Databases /\ e \in Databases
  BY <1>1 DEF Sound
<1>3. e.applied = d.applied /\ e.receipts = p
  BY <1>2 DEF Databases
<1>4. Remembered(e, a, now)
  BY <1>1, <1>3 DEF Sound, Windowed, Marked
<1>5. a.created \in Nat /\ p[a.key] \in Receipts \cup {Missing}
  BY <1>2, <1>3 DEF Databases, Applied
<1>6. CASE p[a.key] # Missing
  <2>1. p[a.key].created \in Nat /\ p[a.key].created + RetentionMs < began
    BY <1>5, <1>6 DEF Live, IsExpired, Receipts
  <2> QED BY <2>1, <1>3, <1>4, <1>5, <1>6 DEF Remembered, Marked
<1>7. CASE p[a.key] = Missing
  BY <1>3, <1>4, <1>7 DEF Remembered
<1> QED BY <1>6, <1>7

--------------------
(* Rows. A version is of one kind only, and says its number or target. *)
LEMMA VersionsDiffer ==
  ASSUME Marked, NEW k, NEW t
  PROVE  /\ \A j : Token(k) = Token(j) => k = j
         /\ Token(k) # OwnVersion(t)
         /\ \A u : OwnVersion(t) = OwnVersion(u) => t = u
BY DEF Token, OwnVersion

(* The row of t in e, when the numbers after n up to m were used. *)
NewRow(s, d, e, t, n, m, v) ==
  \/ e.rows[t] = d.rows[t]
  \/ e.rows[t] = Missing /\ ~Kept(s, t)
  \/ \E k \in Nat : /\ n < k /\ k <= m /\ e.rows[t] = Row(v, Token(k))
                    /\ ~Kept(s, t) \/ (d.rows[t] # Missing /\ d.rows[t].value = v)

(* Rows that are written with numbers of their own keep what was told
   true, and what was taken away stays away. *)
LEMMA RowsChange ==
  ASSUME Marked, NEW s, NEW d \in Databases, NEW e \in Databases, d.versioned, e.versioned,
         NEW n \in Nat, NEW m \in Nat, n <= m, NEW names, Told(s, n, names), Numbered(s, d, names),
         NEW v \in Values, \A t \in Targets : NewRow(s, d, e, t, n, m, v)
  PROVE  /\ Told(s, m, names \cup Named(e.rows))
         /\ Numbered(s, e, names \cup Named(e.rows))
         /\ \A a \in Applied : \A i \in DOMAIN a.conditions : Taken(d, a, i, n) => Taken(e, a, i, m)
<1> DEFINE more == names \cup Named(e.rows)
<1>1. \A t \in Targets : e.rows[t] \in Rows \cup {Missing} /\ d.rows[t] \in Rows \cup {Missing}
  BY DEF Databases
<1>2. ASSUME NEW p \in Named(e.rows), p \notin names
      PROVE  \E k \in Nat : n < k /\ k <= m /\ p = <<Token(k), v>>
  <2>1. PICK t \in Targets : e.rows[t] # Missing /\ e.rows[t].version # Missing /\ p = <<e.rows[t].version, e.rows[t].value>>
    BY DEF Named
  <2>2. e.rows[t] # d.rows[t]
    BY <1>2, <2>1 DEF Numbered, Named
  <2>3. PICK k \in Nat : n < k /\ k <= m /\ e.rows[t] = Row(v, Token(k))
    BY <2>1, <2>2 DEF NewRow
  <2> QED BY <2>1, <2>3 DEF Row
<1>3. Told(s, m, more)
  <2>1. more \subseteq AnyVersion \X Values
    <3>1. \A k \in Nat : Token(k) \in AnyVersion
      BY DEF AnyVersion
    <3> QED BY <3>1, <1>2 DEF Told
  <2>2. ASSUME NEW p \in more, NEW k \in Nat, p[1] = Token(k) PROVE k <= m
    BY <2>2, <1>2, VersionsDiffer DEF Told
  <2>3. ASSUME NEW p \in more, NEW t \in Targets, p[1] = OwnVersion(t)
        PROVE  s.database.rows[t] # Missing /\ p[2] = s.database.rows[t].value
    BY <2>3, <1>2, VersionsDiffer DEF Told
  <2>4. ASSUME NEW p \in more, NEW q \in more, p[1] = q[1] PROVE p[2] = q[2]
    <3>1. CASE p \in names /\ q \in names
      BY <3>1, <2>4 DEF Told
    <3>2. CASE p \notin names /\ q \notin names
      BY <3>2, <1>2
    <3>3. CASE p \in names /\ q \notin names
      <4>1. PICK k \in Nat : n < k /\ q = <<Token(k), v>>
        BY <3>3, <1>2
      <4> QED BY <4>1, <3>3, <2>4 DEF Told
    <3>4. CASE p \notin names /\ q \in names
      <4>1. PICK k \in Nat : n < k /\ p = <<Token(k), v>>
        BY <3>4, <1>2
      <4> QED BY <4>1, <3>4, <2>4 DEF Told
    <3> QED BY <3>1, <3>2, <3>3, <3>4
  <2> QED BY <2>1, <2>2, <2>3, <2>4 DEF Told
<1>4. \A k \in Nat : Row(v, Token(k)).version = Token(k) /\ Row(v, Token(k)).value = v
                       /\ Token(k) # Missing /\ Row(v, Token(k)) # Missing
  BY DEF Row, Marked, AnyVersion, Rows
<1>5. Numbered(s, e, more)
  <2>1. ASSUME NEW t \in Targets, Unnumbered(e.rows[t]) PROVE e.rows[t] = s.database.rows[t]
    BY <2>1, <1>4 DEF NewRow, Unnumbered, Numbered
  <2>2. ASSUME NEW t \in Targets, s.database.rows[t] # Missing, Kept(s, t)
        PROVE  e.rows[t] # Missing /\ e.rows[t].value = s.database.rows[t].value
    BY <2>2, <1>4 DEF NewRow, Numbered
  <2> QED BY <2>1, <2>2 DEF Numbered
<1>6. ASSUME NEW a \in Applied, NEW i \in DOMAIN a.conditions, Taken(d, a, i, n) PROVE Taken(e, a, i, m)
  <2>1. a.conditions[i].target \in Targets
    <3>1. a.conditions[i] \in Conditions
      BY DEF Applied
    <3> QED BY <3>1 DEF Conditions
  <2>2. \A k \in Nat : a.conditions[i].version = Token(k) => k <= n
    BY <1>6 DEF Taken
  <2>3. e.rows[a.conditions[i].target] # Missing => e.rows[a.conditions[i].target].version # a.conditions[i].version
    <3>1. NewRow(s, d, e, a.conditions[i].target, n, m, v)
      BY <2>1
    <3>2. Taken(d, a, i, n)
      BY <1>6
    <3>3. CASE e.rows[a.conditions[i].target] = d.rows[a.conditions[i].target]
      BY <3>2, <3>3 DEF Taken
    <3>4. CASE \E k \in Nat : n < k /\ e.rows[a.conditions[i].target] = Row(v, Token(k))
      <4>1. PICK k \in Nat : n < k /\ e.rows[a.conditions[i].target] = Row(v, Token(k))
        BY <3>4
      <4>2. ~(k <= n)
        BY <4>1
      <4> QED BY <4>1, <4>2, <2>2, <1>4
    <3> QED BY <3>1, <3>3, <3>4 DEF NewRow
  <2> QED BY <2>2, <2>3 DEF Taken
<1> QED BY <1>3, <1>5, <1>6

--------------------
(* The invariant of the whole: the two databases, the queue of the
   sessions, and what each client was told. *)
Typed(s) ==
  /\ sequence \in Nat /\ clock \in 0..MaxClock /\ sent \in BOOLEAN
  /\ queue \in Seq(Clients \X (Nat \ {0}))
  /\ client \in [Clients -> ClientStates]
  /\ \A c \in Clients : /\ client[c].work = s.work[c] /\ client[c].wrapped = (c \in s.wrapped)
                        /\ client[c].began <= clock

Data(s) ==
  /\ Told(s, sequence, named)
  /\ Sound(s, committed, sequence, named, clock)
  /\ Sound(s, draft, sequence, named, clock)
  /\ committed.applied \subseteq draft.applied
  /\ committed.versioned => draft.versioned

Lost(c) == client[c].pc = "ended" /\ client[c].answer.status \in {"lost", "indeterminate"}

(* A session has one place; the COMMIT that was sent is the first one's. *)
Queued ==
  /\ queue = <<>> => draft = committed /\ ~sent
  /\ \A i \in DOMAIN queue, c \in Clients : queue[i][1] = c => queue[i][2] <= client[c].attempt
  /\ \A i \in DOMAIN queue, c \in Clients :
       queue[i] = Session(c) => client[c].pc \in {"open", "committing", "ended"}
  /\ \A i, j \in DOMAIN queue : queue[i] = queue[j] => i = j
  /\ \A c \in Clients :
       /\ client[c].pc = "committing" => sent /\ queue # <<>> /\ queue[1] = Session(c)
       /\ sent /\ queue # <<>> /\ queue[1] = Session(c) => client[c].pc = "committing" \/ Lost(c)

InTransaction(c) == client[c].pc \in {"begun", "open", "committing"}

Asking(s, c) ==
  /\ client[c].work = <<>> => client[c].pc = "ended" /\ client[c].answer.status = "none"
  /\ client[c].seen # Missing =>
       /\ c \notin s.wrapped /\ client[c].work # <<>> /\ client[c].work[1].kind = "read"
       /\ client[c].seen = s.database.rows[client[c].work[1].target] /\ Unnumbered(client[c].seen)
  /\ InTransaction(c) /\ ~committed.versioned => client[c].work[1].kind = "open"

Claimed(d, c) ==
  \E a \in d.applied : a.digest = client[c].work[1].digest /\ a.versions = client[c].answer.versions

ToldApplied(c) == ~client[c].wrapped /\ client[c].answer.status \in {"applied", "replayed"}

Claims(c) ==
  ToldApplied(c) =>
    /\ client[c].pc \in {"open", "committing", "committed", "ended"}
    /\ client[c].pc \in {"committed", "ended"} => Claimed(committed, c)
    /\ client[c].pc \in {"open", "committing"} =>
         \A i \in DOMAIN queue : queue[i] = Session(c) => i = 1 /\ Claimed(draft, c)

IInv(s) ==
  Typed(s) /\ Data(s) /\ Queued /\ \A c \in Clients : Asking(s, c) /\ Claims(c)

WellFormedIn(s) ==
  Marked /\ StartsSound(s.database) /\ s.work \in [Clients -> Seq(Operations)] /\ CallsAreSingle(s) /\ ReadsAreQuiet(s)

--------------------
(* The client's operation in hand. *)
LEMMA OperationFacts ==
  ASSUME NEW s, WellFormedIn(s), IInv(s), NEW c \in Clients, Holds(c), client[c].at <= Len(client[c].work)
  PROVE  /\ Operation(c) \in Operations /\ client[c].at \in DOMAIN client[c].work
         /\ Operation(c) = s.work[c][client[c].at] /\ client[c].at \in DOMAIN s.work[c]
         /\ queue # <<>> /\ queue[1] = Session(c)
         /\ client[c] \in ClientStates
         /\ c \notin s.wrapped => client[c].at = 1 /\ Operation(c) = client[c].work[1]
         /\ draft.versioned \/ Operation(c).kind = "open"
         /\ client[c].began \in Nat /\ client[c].began <= clock
<1>1. /\ client[c] \in ClientStates /\ client[c].work = s.work[c] /\ client[c].began <= clock
      /\ queue \in Seq(Clients \X (Nat \ {0}))
  BY DEF IInv, Typed
<1>2. client[c].work \in Seq(Operations) /\ client[c].at \in Nat \ {0} /\ client[c].began \in Nat
  BY <1>1 DEF ClientStates
<1>3. client[c].at \in DOMAIN client[c].work /\ Operation(c) \in Operations /\ client[c].work # <<>>
  BY <1>2 DEF Operation
<1>4. c \notin s.wrapped => client[c].at = 1
  BY <1>1, <1>2, <1>3 DEF WellFormedIn, CallsAreSingle
<1>5. draft.versioned \/ Operation(c).kind = "open"
  <2> SUFFICES ASSUME ~draft.versioned PROVE Operation(c).kind = "open"
    OBVIOUS
  <2>1. client[c].work[1].kind = "open"
    BY DEF IInv, Data, Asking, InTransaction, Holds
  <2>2. Len(client[c].work) = 1
    BY <2>1, <1>1, <1>3 DEF WellFormedIn, CallsAreSingle
  <2> QED BY <2>1, <2>2, <1>2 DEF Operation
<1>6. queue # <<>> /\ queue[1] = Session(c)
  BY <1>1 DEF Holds
<1> QED BY <1>1, <1>2, <1>3, <1>4, <1>5, <1>6 DEF Operation

(* An operation of the holder that leaves the data sound is sound. *)
Moved(c, answer) ==
  /\ client' = [client EXCEPT ![c].at = @ + 1, ![c].answer = answer]
  /\ UNCHANGED <<committed, clock, queue, sent>>

LEMMA OperationStep ==
  ASSUME NEW s, WellFormedIn(s), IInv(s), NEW c \in Clients, Holds(c), client[c].at <= Len(client[c].work),
         NEW answer \in Answerable, Moved(c, answer), sequence' \in Nat, Data(s)',
         c \notin s.wrapped /\ answer.status \in {"applied", "replayed"} =>
           \E a \in draft'.applied : a.digest = Operation(c).digest /\ a.versions = answer.versions
  PROVE  IInv(s)'
<1>1. /\ client[c] \in ClientStates /\ queue # <<>> /\ queue[1] = Session(c)
      /\ c \notin s.wrapped => Operation(c) = client[c].work[1]
  BY OperationFacts
<1>2. client \in [Clients -> ClientStates] /\ queue \in Seq(Clients \X (Nat \ {0}))
  BY DEF IInv, Typed
<1>3. /\ client'[c] = [client[c] EXCEPT !.at = @ + 1, !.answer = answer]
      /\ \A d \in Clients \ {c} : client'[d] = client[d]
  BY <1>2 DEF Moved
<1>4. client'[c] \in ClientStates /\ client'[c].answer = answer
  <2>1. client[c].at + 1 \in Nat \ {0}
    BY <1>1 DEF ClientStates
  <2> QED BY <2>1, <1>1, <1>3 DEF ClientStates
<1>5. /\ client'[c].work = client[c].work /\ client'[c].wrapped = client[c].wrapped /\ client'[c].pc = client[c].pc
      /\ client'[c].attempt = client[c].attempt /\ client'[c].began = client[c].began /\ client'[c].seen = client[c].seen
  BY <1>1, <1>3 DEF ClientStates
<1>6. \A d \in Clients : Session(d)' = Session(d)
  BY <1>3, <1>5 DEF Session
<1>7. Typed(s)'
  BY <1>2, <1>3, <1>4, <1>5 DEF IInv, Typed, Moved
<1>8. client[c].pc = "open" /\ ~sent
  <2>1. client[c].pc = "open"
    BY DEF Holds
  <2> QED BY <2>1, <1>1 DEF IInv, Queued, Lost
<1>9. Queued'
  <2>1. UNCHANGED <<queue, sent>> /\ ~sent
    BY <1>8 DEF Moved
  <2>2. \A d \in Clients : client'[d].pc = client[d].pc /\ client'[d].attempt = client[d].attempt
    BY <1>3, <1>5
  <2> QED BY <2>1, <2>2, <1>1, <1>6 DEF IInv, Queued
<1>10. ASSUME NEW d \in Clients PROVE Asking(s, d)'
  <2>1. CASE d = c
    <3>1. client[c].work # <<>>
      BY <1>8 DEF IInv, Asking
    <3>2. Asking(s, c) /\ committed' = committed
      BY DEF IInv, Moved
    <3> QED BY <3>1, <3>2, <2>1, <1>5 DEF Asking, InTransaction
  <2>2. CASE d # c
    <3>1. client'[d] = client[d]
      BY <2>2, <1>3
    <3>2. Asking(s, d) /\ committed' = committed
      BY DEF IInv, Moved
    <3> QED BY <3>1, <3>2 DEF Asking, InTransaction
  <2> QED BY <2>1, <2>2
<1>11. ASSUME NEW d \in Clients PROVE Claims(d)'
  <2>1. CASE d = c
    <3>1. \A i \in DOMAIN queue : queue[i] = Session(c) => i = 1
      BY <1>1, <1>2 DEF IInv, Queued
    <3>2. client[c].wrapped = (c \in s.wrapped)
      BY DEF IInv, Typed
    <3>3. UNCHANGED <<queue, committed>> /\ Session(c)' = Session(c)
      BY <1>6 DEF Moved
    <3>4. ToldApplied(c)' => Claimed(draft, c)'
      BY <3>2, <1>1, <1>4, <1>5 DEF ToldApplied, Claimed
    <3> QED BY <3>1, <3>3, <3>4, <2>1, <1>5, <1>8 DEF Claims
  <2>2. CASE d # c
    <3>1. client'[d] = client[d] /\ committed' = committed /\ queue' = queue
      BY <2>2, <1>3 DEF Moved
    <3>2. queue[1] # Session(d)
      BY <2>2, <1>1 DEF Session
    <3> QED BY <3>1, <3>2, <1>6 DEF IInv, Claims, ToldApplied, Claimed
  <2> QED BY <2>1, <2>2
<1> QED BY <1>7, <1>9, <1>10, <1>11 DEF IInv

--------------------
(* Operations on rows. *)
LEMMA DataFrom ==
  ASSUME Marked, NEW s, IInv(s), sequence' \in Nat, sequence <= sequence', named \subseteq named',
         UNCHANGED <<committed, clock>>, Told(s, sequence', named'),
         Sound(s, draft', sequence', named', clock),
         draft.applied \subseteq draft'.applied, draft.versioned => draft'.versioned
  PROVE  Data(s)'
<1>1. sequence \in Nat /\ clock \in Nat
  BY DEF IInv, Typed, Marked
<1>2. Sound(s, committed, sequence', named', clock)
  BY <1>1, SoundStays DEF IInv, Data
<1> QED BY <1>2 DEF IInv, Data

LEMMA RowsSound ==
  ASSUME Marked, NEW s, NEW d, NEW e \in Databases, d.versioned, e.versioned,
         e.applied = d.applied, e.receipts = d.receipts,
         NEW n \in Nat, NEW m \in Nat, n <= m, NEW names, NEW now,
         Told(s, n, names), Sound(s, d, n, names, now),
         NEW v \in Values, \A t \in Targets : NewRow(s, d, e, t, n, m, v)
  PROVE  /\ Told(s, m, names \cup Named(e.rows))
         /\ Sound(s, e, m, names \cup Named(e.rows), now)
<1>1. d \in Databases /\ Numbered(s, d, names)
  BY DEF Sound
<1>2. /\ Told(s, m, names \cup Named(e.rows))
      /\ Numbered(s, e, names \cup Named(e.rows))
      /\ \A a \in Applied : \A i \in DOMAIN a.conditions : Taken(d, a, i, n) => Taken(e, a, i, m)
  BY <1>1, RowsChange
<1>3. d.applied \subseteq Applied
  BY <1>1 DEF Databases
<1>4. Won(e, m)
  BY <1>2, <1>3 DEF Won, Sound
<1>5. Windowed(e, now) /\ Backed(e)
  BY DEF Sound, Windowed, Remembered, Backed
<1> QED BY <1>2, <1>4, <1>5 DEF Sound

(* A row without a version gets the next one; another stays. *)
Refilled(row, n) == IF row.version = Missing THEN Row(row.value, Token(n + 1)) ELSE row

Refills(s, d, e, t, n, m, names, now) ==
  /\ n \in Nat /\ m \in Nat /\ n <= m
  /\ Told(s, n, names) /\ Sound(s, d, n, names, now) /\ d.versioned
  /\ t \in Targets /\ d.rows[t] # Missing
  /\ Unnumbered(d.rows[t]) => n + 1 <= m
  /\ e \in Databases /\ e.versioned /\ e.applied = d.applied /\ e.receipts = d.receipts
  /\ e.rows[t] = Refilled(d.rows[t], n)
  /\ \A u \in Targets : u = t \/ e.rows[u] = d.rows[u]

LEMMA BackfillSound ==
  ASSUME Marked, NEW s, NEW d, NEW e, NEW t, NEW n, NEW m, NEW names, NEW now,
         Refills(s, d, e, t, n, m, names, now)
  PROVE  /\ Told(s, m, names \cup Named(e.rows))
         /\ Sound(s, e, m, names \cup Named(e.rows), now)
         /\ Refilled(d.rows[t], n).version \in AnyVersion
         /\ <<Refilled(d.rows[t], n).version, d.rows[t].value>> \in Named(e.rows)
         /\ Named(e.rows) \subseteq names \cup {<<Refilled(d.rows[t], n).version, d.rows[t].value>>}
<1> USE DEF Refills
<1>1. d \in Databases
  BY DEF Sound
<1>2. d.rows \in [Targets -> Rows \cup {Missing}] /\ d.rows[t] \in Rows
  BY <1>1 DEF Databases
<1>3. Token(n + 1) \in AnyVersion
  BY DEF AnyVersion
<1>5. /\ Refilled(d.rows[t], n) \in Rows /\ Refilled(d.rows[t], n).version \in AnyVersion
      /\ Refilled(d.rows[t], n).value = d.rows[t].value
  BY <1>2, <1>3 DEF Refilled, Row, Rows
<1>6. <<Refilled(d.rows[t], n).version, d.rows[t].value>> \in Named(e.rows)
  BY <1>5 DEF Named, Marked
<1>7. ASSUME NEW p \in Named(e.rows) PROVE p \in names \/ p = <<Refilled(d.rows[t], n).version, d.rows[t].value>>
  <2>1. p \in Named(d.rows) \/ p = <<Refilled(d.rows[t], n).version, d.rows[t].value>>
    BY <1>5 DEF Named
  <2>2. Named(d.rows) \subseteq names
    BY DEF Sound, Numbered
  <2> QED BY <2>1, <2>2
<1>8. CASE Unnumbered(d.rows[t])
  <2>1. Refilled(d.rows[t], n) = Row(d.rows[t].value, Token(n + 1)) /\ d.rows[t].value \in Values
    BY <1>2, <1>8 DEF Unnumbered, Refilled, Rows
  <2>2. PICK v \in Values, k \in Nat : v = d.rows[t].value /\ k = n + 1
    BY <2>1
  <2>3. ASSUME NEW u \in Targets PROVE NewRow(s, d, e, u, n, m, v)
    BY <2>1, <2>2, <1>8 DEF NewRow
  <2>4. Told(s, m, names \cup Named(e.rows)) /\ Sound(s, e, m, names \cup Named(e.rows), now)
    BY <2>3, <1>1, RowsSound
  <2> QED BY <2>4, <1>5, <1>6, <1>7
<1>9. CASE ~Unnumbered(d.rows[t])
  <2>1. Refilled(d.rows[t], n) = d.rows[t] /\ d.rows[t].value \in Values
    BY <1>2, <1>9 DEF Unnumbered, Refilled, Rows
  <2>2. ASSUME NEW u \in Targets PROVE NewRow(s, d, e, u, n, m, d.rows[t].value)
    BY <2>1 DEF NewRow
  <2>3. Told(s, m, names \cup Named(e.rows)) /\ Sound(s, e, m, names \cup Named(e.rows), now)
    BY <2>1, <2>2, <1>1, RowsSound
  <2> QED BY <2>3, <1>5, <1>6, <1>7
<1> QED BY <1>8, <1>9

LEMMA AnswerIs ==
  ASSUME NEW c \in Clients, NEW status \in Statuses, NEW versions \in Answers
  PROVE  Answer(c, status, versions) \in Answerable /\ Answer(c, status, versions).status = status
         /\ Answer(c, status, versions).client = c /\ Answer(c, status, versions).versions = versions
BY DEF Answer, Answerable

LEMMA ShortAnswers == <<>> \in Answers /\ \A v \in AnyVersion : <<v>> \in Answers
BY DEF Answers

(* What an operation leaves is sound, and so the step is. *)
LEMMA OutcomeStep ==
  ASSUME NEW s, WellFormedIn(s), IInv(s), NEW c \in Clients, Holds(c), client[c].at <= Len(client[c].work),
         NEW answer \in Answerable, Moved(c, answer),
         sequence' \in Nat, sequence <= sequence', named \subseteq named',
         Told(s, sequence', named'), Sound(s, draft', sequence', named', clock),
         draft.applied \subseteq draft'.applied, draft.versioned => draft'.versioned,
         c \notin s.wrapped /\ answer.status \in {"applied", "replayed"} =>
           \E a \in draft'.applied : a.digest = Operation(c).digest /\ a.versions = answer.versions
  PROVE  IInv(s)'
<1>1. UNCHANGED <<committed, clock>> /\ Marked
  BY DEF Moved, WellFormedIn
<1>2. Data(s)'
  BY <1>1, DataFrom
<1> QED BY <1>2, OperationStep

LEMMA SetStep ==
  ASSUME NEW s, WellFormedIn(s), IInv(s), NEW c \in Clients, Write(c)
  PROVE  IInv(s)'
<1> DEFINE o == Operation(c)
           t == o.target
<1>0. o.kind \in {"set", "delete"} /\ Holds(c) /\ client[c].at <= Len(client[c].work)
  BY DEF Write, Ready
<1>1. /\ o \in Operations /\ draft.versioned /\ client[c].at \in DOMAIN s.work[c]
      /\ o = s.work[c][client[c].at] /\ Marked
  BY <1>0, OperationFacts DEF WellFormedIn
<1>2. t \in Targets /\ ~Kept(s, t)
  BY <1>0, <1>1 DEF Operations, Kept, Writes
<1>3. /\ draft \in Databases /\ draft.rows \in [Targets -> Rows \cup {Missing}]
      /\ sequence \in Nat /\ sequence + 1 \in Nat /\ c \in Values
  BY <1>1 DEF IInv, Typed, Data, Sound, Databases, Marked
<1>4. Answer(c, "done", <<>>) \in Answerable /\ Answer(c, "done", <<>>).status = "done" /\ Answer(c, "done", <<>>).client = c
  BY AnswerIs, ShortAnswers DEF Statuses
<1>5. PICK row \in Rows \cup {Missing}, m \in {sequence, sequence + 1} :
        /\ draft' = [draft EXCEPT !.rows[t] = row]
        /\ sequence' = m /\ named' = named \cup Named(draft'.rows)
        /\ Moved(c, Answer(c, "done", <<>>))
        /\ row = Missing \/ (m = sequence + 1 /\ row = Row(c, Token(sequence + 1)))
  <2>1. CASE o.kind = "set"
    <3>1. Row(c, Token(sequence + 1)) \in Rows
      BY <1>3 DEF Row, Rows, AnyVersion
    <3> QED BY <3>1, <2>1, <1>4 DEF Write, Ready, Outcome, Moved
  <2>2. CASE o.kind = "delete"
    <3>1. sequence + 0 = sequence
      BY <1>3
    <3> QED BY <3>1, <2>2, <1>4 DEF Write, Ready, Outcome, Moved
  <2> QED BY <2>1, <2>2, <1>0
<1>6. PICK rows \in [Targets -> Rows \cup {Missing}] : rows = [draft.rows EXCEPT ![t] = row]
  BY <1>3
<1>7. draft' = [draft EXCEPT !.rows = rows]
  <2>1. draft' = [draft EXCEPT !.rows = [draft.rows EXCEPT ![t] = row]]
    BY <1>2, <1>3, <1>5 DEF Databases
  <2> QED BY <2>1, <1>6
<1>8. /\ draft' \in Databases /\ draft'.rows = rows /\ draft'.versioned = draft.versioned
      /\ draft'.applied = draft.applied /\ draft'.receipts = draft.receipts
  BY <1>3, <1>7 DEF Databases
<1>9. ASSUME NEW u \in Targets PROVE NewRow(s, draft, draft', u, sequence, m, c)
  BY <1>2, <1>3, <1>5, <1>6, <1>8 DEF NewRow
<1>10. Told(s, m, named') /\ Sound(s, draft', m, named', clock)
  <2>1. Told(s, sequence, named) /\ Sound(s, draft, sequence, named, clock)
    BY DEF IInv, Data
  <2>2. draft'.versioned /\ m \in Nat /\ sequence <= m
    BY <1>1, <1>3, <1>8
  <2>3. /\ Told(s, m, named \cup Named(draft'.rows))
        /\ Sound(s, draft', m, named \cup Named(draft'.rows), clock)
    BY <2>1, <2>2, <1>1, <1>3, <1>8, <1>9, RowsSound
  <2> QED BY <2>3, <1>5
<1> QED
  <2>1. sequence' \in Nat /\ sequence <= sequence' /\ named \subseteq named' /\ sequence' = m
    BY <1>3, <1>5
  <2> QED BY <2>1, <1>0, <1>4, <1>5, <1>8, <1>10, OutcomeStep

LEMMA ReadStep ==
  ASSUME NEW s, WellFormedIn(s), IInv(s), NEW c \in Clients, GetVersioned(c)
  PROVE  IInv(s)'
<1> DEFINE o == Operation(c)
           t == o.target
           row == draft.rows[t]
           seen == IF client[c].seen = Missing THEN row ELSE client[c].seen
<1>1. o.kind = "read" /\ Holds(c) /\ client[c].at <= Len(client[c].work)
  BY DEF GetVersioned, Ready
<1>2. /\ o \in Operations /\ draft.versioned /\ Marked
      /\ c \notin s.wrapped => client[c].at = 1 /\ o = client[c].work[1]
      /\ client[c].work = s.work[c] /\ client[c].at \in DOMAIN s.work[c]
  BY <1>1, OperationFacts DEF WellFormedIn, IInv, Typed
<1>3. t \in Targets
  BY <1>1, <1>2 DEF Operations
<1>4. /\ draft \in Databases /\ draft.rows \in [Targets -> Rows \cup {Missing}]
      /\ sequence \in Nat /\ sequence + 1 \in Nat /\ sequence + 0 = sequence
      /\ Told(s, sequence, named) /\ Sound(s, draft, sequence, named, clock)
  BY DEF IInv, Typed, Data, Sound, Databases
<1>5. CASE row = Missing
  <2>1. Answer(c, "absent", <<>>) \in Answerable /\ Answer(c, "absent", <<>>).status = "absent" /\ Answer(c, "absent", <<>>).client = c
    BY AnswerIs, ShortAnswers DEF Statuses
  <2>2. /\ draft' = draft /\ sequence' = sequence /\ named' = named \cup Named(draft.rows)
        /\ Moved(c, Answer(c, "absent", <<>>))
    BY <1>4, <1>5, <2>1 DEF GetVersioned, Outcome, Moved
  <2>3. named' = named
    BY <2>2, <1>4 DEF Sound, Numbered
  <2>4. Told(s, sequence', named') /\ Sound(s, draft', sequence', named', clock)
    BY <2>2, <2>3, <1>4
  <2>5. sequence' \in Nat /\ sequence <= sequence' /\ named \subseteq named'
    BY <2>2, <2>3, <1>4
  <2>6. draft.applied \subseteq draft'.applied /\ (draft.versioned => draft'.versioned)
    BY <2>2
  <2> QED BY <2>1, <2>2, <2>4, <2>5, <2>6, <1>1, OutcomeStep
<1>6. CASE row # Missing
  <2>1. row \in Rows
    BY <1>3, <1>4, <1>6
  <2>2. /\ named' = named \cup {<<Backfilled(row).version, seen.value>>}
        /\ draft' = [draft EXCEPT !.rows[t] = Backfilled(@)]
        /\ sequence' = IF seen # Missing /\ seen.version = Missing THEN sequence + 1 ELSE sequence
        /\ Moved(c, Answer(c, "value", <<Backfilled(row).version>>))
    BY <1>6 DEF GetVersioned, Moved
  <2>3. seen.value = row.value /\ (Unnumbered(row) => sequence' = sequence + 1)
    <3>1. CASE client[c].seen = Missing
      BY <3>1, <2>2, <1>6 DEF Unnumbered
    <3>2. CASE client[c].seen # Missing
      <4>1. /\ c \notin s.wrapped /\ client[c].work # <<>> /\ client[c].work[1].kind = "read"
            /\ client[c].seen = s.database.rows[client[c].work[1].target] /\ Unnumbered(client[c].seen)
        BY <3>2 DEF IInv, Asking
      <4>2. client[c].seen = s.database.rows[t] /\ Unnumbered(s.database.rows[t]) /\ c \in Clients \ s.wrapped
        BY <4>1, <1>2
      <4>3. Kept(s, t)
        BY <4>1, <4>2, <1>2 DEF WellFormedIn, ReadsAreQuiet, Kept
      <4>4. row.value = s.database.rows[t].value
        BY <4>2, <4>3, <1>3, <1>4 DEF Sound, Numbered, Unnumbered
      <4> QED BY <4>2, <4>4, <3>2, <2>2 DEF Unnumbered
    <3> QED BY <3>1, <3>2
  <2>4. sequence' \in Nat /\ sequence <= sequence' /\ (Unnumbered(row) => sequence + 1 <= sequence')
    BY <2>2, <2>3, <1>4
  <2>9. /\ draft' \in Databases /\ draft'.versioned
        /\ draft'.applied = draft.applied /\ draft'.receipts = draft.receipts
        /\ draft'.rows[t] = Backfilled(row) /\ \A u \in Targets : u = t \/ draft'.rows[u] = draft.rows[u]
    <3>1. Backfilled(row) \in Rows
      BY <2>1, <1>4 DEF Backfilled, Row, Rows, AnyVersion
    <3>2. PICK rows \in [Targets -> Rows \cup {Missing}] : rows = [draft.rows EXCEPT ![t] = Backfilled(row)]
      BY <3>1, <1>4
    <3>3. draft' = [draft EXCEPT !.rows = [draft.rows EXCEPT ![t] = Backfilled(row)]]
      BY <2>2, <1>3, <1>4 DEF Databases
    <3>4. draft' = [draft EXCEPT !.rows = rows]
      BY <3>2, <3>3
    <3> QED BY <3>2, <3>4, <1>2, <1>3, <1>4 DEF Databases
  <2>5. PICK m \in Nat : m = sequence'
    BY <2>4
  <2>6. /\ Told(s, m, named \cup Named(draft'.rows))
        /\ Sound(s, draft', m, named \cup Named(draft'.rows), clock)
        /\ Backfilled(row).version \in AnyVersion
        /\ named \cup Named(draft'.rows) = named \cup {<<Backfilled(row).version, row.value>>}
    <3>1. sequence <= m /\ (Unnumbered(row) => sequence + 1 <= m)
      BY <2>4, <2>5
    <3>2. Backfilled(row) = Refilled(row, sequence)
      BY DEF Backfilled, Refilled
    <3>3. Refills(s, draft, draft', t, sequence, m, named, clock)
      BY <3>1, <3>2, <2>9, <1>2, <1>3, <1>4, <1>6 DEF Refills
    <3>4. /\ Told(s, m, named \cup Named(draft'.rows))
          /\ Sound(s, draft', m, named \cup Named(draft'.rows), clock)
      BY <3>3, <1>2, BackfillSound
    <3>5. Refilled(row, sequence).version \in AnyVersion
      BY <3>3, <1>2, BackfillSound
    <3>6. <<Refilled(row, sequence).version, row.value>> \in Named(draft'.rows)
      BY <3>3, <1>2, BackfillSound
    <3>7. Named(draft'.rows) \subseteq named \cup {<<Refilled(row, sequence).version, row.value>>}
      BY <3>3, <1>2, BackfillSound
    <3> QED BY <3>2, <3>4, <3>5, <3>6, <3>7
  <2>7. named' = named \cup Named(draft'.rows)
    BY <2>2, <2>3, <2>6
  <2>8. /\ Answer(c, "value", <<Backfilled(row).version>>) \in Answerable
        /\ Answer(c, "value", <<Backfilled(row).version>>).status = "value"
    BY <2>6, AnswerIs, ShortAnswers DEF Statuses
  <2> QED BY <2>2, <2>4, <2>5, <2>6, <2>7, <2>8, <2>9, <1>1, OutcomeStep
<1> QED BY <1>5, <1>6

(* Rows that get versions of their own for the first time: nobody has
   changed them, so each version can only stand for what was there. *)
LEMMA OpenSound ==
  ASSUME Marked, NEW s, StartsSound(s.database), NEW d, NEW e \in Databases, ~d.versioned, e.versioned,
         e.applied = d.applied, e.receipts = d.receipts,
         \A t \in Targets : e.rows[t] = IF d.rows[t] = Missing THEN Missing
                                        ELSE Row(d.rows[t].value, OwnVersion(t)),
         NEW n \in Nat, NEW names, NEW now, Told(s, n, names), Sound(s, d, n, names, now)
  PROVE  /\ Told(s, n, names \cup Named(e.rows))
         /\ Sound(s, e, n, names \cup Named(e.rows), now)
<1> DEFINE more == names \cup Named(e.rows)
<1>1. d \in Databases /\ d.rows = s.database.rows
  BY DEF Sound, Numbered
<1>2. \A t \in Targets : d.rows[t] # Missing => d.rows[t] \in Rows /\ d.rows[t].value \in Values
  BY <1>1 DEF Databases, Rows
<1>3. \A v, t : Row(v, OwnVersion(t)).version = OwnVersion(t) /\ Row(v, OwnVersion(t)).value = v
  BY DEF Row
<1>4. \A t \in Targets : OwnVersion(t) \in AnyVersion /\ OwnVersion(t) # Missing
  BY DEF AnyVersion, Marked
<1>5. ASSUME NEW p \in Named(e.rows)
      PROVE  \E t \in Targets : p = <<OwnVersion(t), d.rows[t].value>> /\ d.rows[t] # Missing
  BY <1>3 DEF Named
<1>6. Told(s, n, more)
  <2>1. more \subseteq AnyVersion \X Values
    BY <1>2, <1>4, <1>5 DEF Told
  <2>2. ASSUME NEW p \in more, NEW k \in Nat, p[1] = Token(k) PROVE k <= n
    BY <2>2, <1>5, VersionsDiffer DEF Told
  <2>3. ASSUME NEW p \in more, NEW t \in Targets, p[1] = OwnVersion(t)
        PROVE  s.database.rows[t] # Missing /\ p[2] = s.database.rows[t].value
    BY <2>3, <1>1, <1>5, VersionsDiffer DEF Told
  <2>4. ASSUME NEW p \in more, NEW q \in more, p[1] = q[1] PROVE p[2] = q[2]
    <3>1. CASE p \in names /\ q \in names
      BY <3>1, <2>4 DEF Told
    <3>2. CASE p \in Named(e.rows)
      BY <3>2, <2>3, <2>4, <1>1, <1>5
    <3>3. CASE q \in Named(e.rows)
      BY <3>3, <2>3, <2>4, <1>1, <1>5
    <3> QED BY <3>1, <3>2, <3>3
  <2> QED BY <2>1, <2>2, <2>3, <2>4 DEF Told
<1>7. Numbered(s, e, more)
  <2>1. ASSUME NEW t \in Targets PROVE ~Unnumbered(e.rows[t])
    BY <1>3, <1>4 DEF Unnumbered
  <2>2. ASSUME NEW t \in Targets, s.database.rows[t] # Missing
        PROVE  e.rows[t] # Missing /\ e.rows[t].value = s.database.rows[t].value
    <3>1. Row(d.rows[t].value, OwnVersion(t)) \in Rows
      BY <2>2, <1>1, <1>2, <1>4 DEF Row, Rows
    <3> QED BY <3>1, <2>2, <1>1, <1>3 DEF Marked
  <2> QED BY <2>1, <2>2 DEF Numbered
<1>8. Won(e, n)
  <2>1. \A a \in d.applied : \A i \in DOMAIN a.conditions : ~OnVersion(a, i)
    BY DEF Sound, Won, Taken
  <2> QED BY <2>1 DEF Sound, Won
<1>9. Windowed(e, now) /\ Backed(e)
  BY DEF Sound, Windowed, Remembered, Backed
<1> QED BY <1>6, <1>7, <1>8, <1>9 DEF Sound

LEMMA OpenStep ==
  ASSUME NEW s, WellFormedIn(s), IInv(s), NEW c \in Clients, Open(c)
  PROVE  IInv(s)'
<1>1. Holds(c) /\ client[c].at <= Len(client[c].work)
  BY DEF Open, Ready
<1>2. /\ draft \in Databases /\ draft.rows \in [Targets -> Rows \cup {Missing}]
      /\ sequence \in Nat /\ sequence + 0 = sequence
      /\ Told(s, sequence, named) /\ Sound(s, draft, sequence, named, clock)
  BY DEF IInv, Typed, Data, Sound, Databases
<1>3. /\ Answer(c, "done", <<>>) \in Answerable /\ Answer(c, "done", <<>>).status = "done"
      /\ Answer(c, "done", <<>>).client = c
  BY AnswerIs, ShortAnswers DEF Statuses
<1>4. PICK rows : rows = IF draft.versioned THEN draft.rows
                         ELSE [t \in Targets |-> IF draft.rows[t] = Missing THEN Missing
                                                 ELSE Row(draft.rows[t].value, OwnVersion(t))]
  OBVIOUS
<1>5. rows \in [Targets -> Rows \cup {Missing}]
  <2>1. \A t \in Targets : draft.rows[t] # Missing => Row(draft.rows[t].value, OwnVersion(t)) \in Rows
    BY <1>2 DEF Row, Rows, AnyVersion
  <2> QED BY <2>1, <1>2, <1>4
<1>6. /\ draft' = [draft EXCEPT !.versioned = TRUE, !.rows = rows]
      /\ sequence' = sequence /\ named' = named \cup Named(draft'.rows)
      /\ Moved(c, Answer(c, "done", <<>>))
  BY <1>2, <1>3, <1>4 DEF Open, Outcome, Moved
<1>7. /\ draft' \in Databases /\ draft'.rows = rows /\ draft'.versioned
      /\ draft'.applied = draft.applied /\ draft'.receipts = draft.receipts
  BY <1>2, <1>5, <1>6 DEF Databases
<1>8. Told(s, sequence, named') /\ Sound(s, draft', sequence, named', clock)
  <2>1. CASE draft.versioned
    <3>1. draft' = draft
      BY <2>1, <1>2, <1>4, <1>6 DEF Databases
    <3>2. named' = named
      BY <3>1, <1>2, <1>6 DEF Sound, Numbered
    <3> QED BY <3>1, <3>2, <1>2
  <2>2. CASE ~draft.versioned
    <3>1. \A t \in Targets : draft'.rows[t] = IF draft.rows[t] = Missing THEN Missing
                                              ELSE Row(draft.rows[t].value, OwnVersion(t))
      BY <2>2, <1>4, <1>7
    <3> QED BY <3>1, <2>2, <1>2, <1>6, <1>7, OpenSound DEF WellFormedIn
  <2> QED BY <2>1, <2>2
<1>9. sequence' \in Nat /\ sequence <= sequence' /\ named \subseteq named'
  BY <1>2, <1>6
<1> QED BY <1>1, <1>3, <1>6, <1>7, <1>8, <1>9, OutcomeStep

LEMMA PruneStep ==
  ASSUME NEW s, WellFormedIn(s), IInv(s), NEW c \in Clients, PruneExpiredReceipts(c)
  PROVE  IInv(s)'
<1>1. Holds(c) /\ client[c].at <= Len(client[c].work)
  BY DEF PruneExpiredReceipts, Ready
<1>2. /\ draft \in Databases /\ sequence \in Nat /\ sequence + 0 = sequence /\ clock \in Nat
      /\ Told(s, sequence, named) /\ Sound(s, draft, sequence, named, clock)
  BY DEF IInv, Typed, Data, Sound, WellFormedIn, Marked
<1>8. client[c].began \in Nat /\ client[c].began <= clock /\ Marked
  BY <1>1, OperationFacts DEF WellFormedIn
<1>3. /\ Answer(c, "done", <<>>) \in Answerable /\ Answer(c, "done", <<>>).status = "done"
      /\ Answer(c, "done", <<>>).client = c
  BY AnswerIs, ShortAnswers DEF Statuses
<1>4. PICK p \in Pruned(draft.receipts, client[c].began) :
        /\ draft' = [draft EXCEPT !.receipts = p]
        /\ sequence' = sequence /\ named' = named \cup Named(draft'.rows)
        /\ Moved(c, Answer(c, "done", <<>>))
  BY <1>2, <1>3 DEF PruneExpiredReceipts, Outcome, Moved
<1>5. /\ draft'.rows = draft.rows /\ draft'.versioned = draft.versioned /\ draft'.applied = draft.applied
  BY <1>2, <1>4 DEF Databases
<1>6. named' = named
  BY <1>2, <1>4, <1>5 DEF Sound, Numbered
<1>7. Sound(s, draft', sequence, named, clock)
  BY <1>2, <1>4, <1>8, PruneSound
<1> QED
  <2>1. sequence' \in Nat /\ sequence <= sequence' /\ named \subseteq named'
    BY <1>2, <1>4, <1>6
  <2>2. Told(s, sequence', named') /\ Sound(s, draft', sequence', named', clock)
    BY <1>2, <1>4, <1>6, <1>7
  <2> QED BY <2>1, <2>2, <1>1, <1>3, <1>4, <1>5, OutcomeStep

--------------------
(* Atomic mutations. What a batch does that is applied: it turns d into e
   at the time now, in a transaction that began before, by the numbers
   after n up to m, when r is left of the receipts. *)
Targeted(o, t) == t \in {o.operations[i].target : i \in DOMAIN o.operations}

Effect(o, d, e, t, n, m) ==
  \/ ~Targeted(o, t) /\ e.rows[t] = d.rows[t]
  \/ /\ Targeted(o, t)
     /\ \/ e.rows[t] = Missing
        \/ \E k \in Nat : n < k /\ k <= m /\ e.rows[t] = Row(o.digest, Token(k))

Recorded(o, record, now, began) ==
  /\ record \in Applied
  /\ record.key = o.key /\ record.digest = o.digest /\ record.created = began /\ record.decided = now
  /\ record.conditions = o.conditions
  /\ \A t \in Targets : t \in record.targets <=> Targeted(o, t)

Applies(s, d, r, e, o, n, m, names, now, began, record) ==
  /\ n \in Nat /\ m \in Nat /\ n <= m /\ now \in Nat /\ began \in Nat /\ began <= now
  /\ Told(s, n, names) /\ Sound(s, d, n, names, now) /\ d.versioned
  /\ o \in Operations /\ o.kind = "mutate" /\ \A t \in Targets : Targeted(o, t) => ~Kept(s, t)
  /\ IF o.key = NoKey THEN r = d.receipts ELSE r \in Pruned(d.receipts, began) /\ ~Live(r, o.key, began)
  /\ \A i \in DOMAIN o.conditions : Matches(o.conditions[i], d.rows[o.conditions[i].target])
  /\ Recorded(o, record, now, began)
  /\ e \in Databases /\ e.versioned /\ e.applied = d.applied \cup {record}
  /\ \A k \in Keys : e.receipts[k] = IF k = o.key THEN [digest |-> o.digest, versions |-> record.versions, created |-> began]
                                     ELSE r[k]
  /\ \A t \in Targets : Effect(o, d, e, t, n, m)

LEMMA MutationIs ==
  ASSUME NEW o \in Operations, o.kind = "mutate"
  PROVE  /\ o.key \in Keys \cup {NoKey} /\ o.digest \in Digests /\ o.conditions \in Seq(Conditions)
         /\ o.operations \in Seq([target : Targets, op : {"write", "remove"}])
         /\ \A i \in DOMAIN o.conditions : o.conditions[i] \in Conditions /\ o.conditions[i].target \in Targets
<1>1. /\ o.key \in Keys \cup {NoKey} /\ o.digest \in Digests /\ o.conditions \in Seq(Conditions)
      /\ o.operations \in Seq([target : Targets, op : {"write", "remove"}])
  BY DEF Operations
<1>2. ASSUME NEW i \in DOMAIN o.conditions PROVE o.conditions[i] \in Conditions
  BY <1>1
<1> QED BY <1>1, <1>2 DEF Conditions

(* What pruning leaves is sound, also when there is no key to prune for. *)
Left(key, receipts, began) == IF key = NoKey THEN {receipts} ELSE Pruned(receipts, began)

Leaves(s, d, n, names, now, began, key, r) ==
  /\ now \in Nat /\ began \in Nat /\ began <= now
  /\ Sound(s, d, n, names, now) /\ r \in Left(key, d.receipts, began)

LEMMA LeftSound ==
  ASSUME Marked, NEW s, NEW d, NEW n, NEW names, NEW now, NEW began, NEW key, NEW r,
         Leaves(s, d, n, names, now, began, key, r)
  PROVE  \E e \in Databases :
         /\ Sound(s, e, n, names, now)
         /\ e.rows = d.rows /\ e.versioned = d.versioned
         /\ e.applied = d.applied /\ e.receipts = r
<1> USE DEF Leaves
<1>1. d \in Databases
  BY DEF Sound
<1>4. PICK e : e = [d EXCEPT !.receipts = r]
  OBVIOUS
<1>2. CASE key = NoKey
  <2>1. e = d
    BY <1>1, <1>2, <1>4 DEF Databases, Left
  <2> QED BY <2>1, <1>1, <1>2, <1>4 DEF Left
<1>3. CASE key # NoKey
  <2>1. Sound(s, e, n, names, now)
    BY <1>3, <1>4, PruneSound DEF Left
  <2>2. e \in Databases
    BY <2>1 DEF Sound
  <2>3. e.rows = d.rows /\ e.versioned = d.versioned /\ e.applied = d.applied /\ e.receipts = r
    BY <1>1, <1>4 DEF Databases
  <2> QED BY <2>1, <2>2, <2>3, <1>4
<1> QED BY <1>2, <1>3

LEMMA ApplySound ==
  ASSUME Marked, NEW s, NEW d, NEW r, NEW e, NEW o, NEW n, NEW m, NEW names, NEW now, NEW began, NEW record,
         Applies(s, d, r, e, o, n, m, names, now, began, record)
  PROVE  /\ Told(s, m, names \cup Named(e.rows))
         /\ Sound(s, e, m, names \cup Named(e.rows), now)
<1>1. Leaves(s, d, n, names, now, began, o.key, r)
  BY DEF Applies, Left, Leaves
<1>2. PICK f \in Databases :
        /\ Sound(s, f, n, names, now)
        /\ f.rows = d.rows /\ f.versioned = d.versioned /\ f.applied = d.applied /\ f.receipts = r
  BY <1>1, LeftSound
<1> USE DEF Applies
<1>3. /\ o.key \in Keys \cup {NoKey} /\ o.digest \in Digests
      /\ \A i \in DOMAIN o.conditions : o.conditions[i] \in Conditions /\ o.conditions[i].target \in Targets
  BY MutationIs
<1>4. d \in Databases /\ d.applied \subseteq Applied /\ Numbered(s, d, names) /\ o.digest \in Values
  BY <1>3 DEF Sound, Databases, Marked
<1>5. \A t \in Targets : NewRow(s, d, e, t, n, m, o.digest)
  <2> SUFFICES ASSUME NEW t \in Targets PROVE NewRow(s, d, e, t, n, m, o.digest)
    OBVIOUS
  <2>1. Effect(o, d, e, t, n, m) /\ (Targeted(o, t) => ~Kept(s, t))
    OBVIOUS
  <2> QED BY <2>1 DEF Effect, NewRow
<1>6. /\ Told(s, m, names \cup Named(e.rows))
      /\ Numbered(s, e, names \cup Named(e.rows))
      /\ \A a \in Applied : \A i \in DOMAIN a.conditions : Taken(d, a, i, n) => Taken(e, a, i, m)
  <2>1. /\ n \in Nat /\ m \in Nat /\ n <= m /\ Told(s, n, names) /\ e \in Databases /\ d.versioned /\ e.versioned
    OBVIOUS
  <2> HIDE DEF Applies
  <2> QED BY <2>1, <1>4, <1>5, RowsChange
<1>7. ASSUME NEW a \in d.applied, a.key # NoKey, a.key = o.key PROVE a.created + RetentionMs < now
  <2>1. o.key # NoKey /\ r \in Pruned(d.receipts, began) /\ a.key \in Keys /\ ~Live(r, a.key, began)
    BY <1>3, <1>7
  <2> QED BY <2>1, ForgottenIsOver
<1>8. Windowed(e, now)
  <2>1. ASSUME NEW a \in e.applied, a.key # NoKey PROVE Remembered(e, a, now)
    <3>1. CASE a \in d.applied /\ a.key = o.key
      BY <3>1, <2>1, <1>7 DEF Remembered
    <3>2. CASE a \in d.applied /\ a.key # o.key
      <4>1. a.key \in Keys
        BY <3>2, <2>1, <1>4 DEF Applied
      <4>2. e.receipts[a.key] = f.receipts[a.key]
        BY <4>1, <3>2, <1>2
      <4>3. Remembered(f, a, now)
        BY <3>2, <2>1, <1>2 DEF Sound, Windowed
      <4> QED BY <4>2, <4>3 DEF Remembered
    <3>3. CASE a = record
      <4>1. a.key \in Keys /\ a.key = o.key /\ a.created = began
        BY <3>3, <2>1, <1>3 DEF Recorded
      <4>2. e.receipts[a.key] = [digest |-> o.digest, versions |-> record.versions, created |-> began]
        BY <4>1
      <4>3. e.receipts[a.key] # Missing
        <5>1. e.receipts[a.key] \in Receipts \cup {Missing}
          BY <4>1 DEF Databases
        <5>2. record.versions \in Answers
          BY DEF Recorded, Applied
        <5>3. e.receipts[a.key] \in Receipts
          BY <4>2, <5>2, <1>3 DEF Receipts
        <5> QED BY <5>3 DEF Marked
      <4>4. e.receipts[a.key].created = began /\ began # Missing
        BY <4>2 DEF Marked
      <4> QED BY <4>1, <4>3, <4>4 DEF Remembered
    <3> QED BY <3>1, <3>2, <3>3
  <2>2. ASSUME NEW a \in e.applied, NEW b \in e.applied, a # b, a.key = b.key, a.key # NoKey
        PROVE  a.decided > b.created + RetentionMs \/ b.decided > a.created + RetentionMs
    <3>1. CASE a \in d.applied /\ b \in d.applied
      BY <3>1, <2>2 DEF Sound, Windowed
    <3>2. CASE a = record /\ b \in d.applied
      <4>1. a.decided = now /\ b.key = o.key /\ b.created \in Nat
        BY <3>2, <2>2, <1>4 DEF Recorded, Applied
      <4> QED BY <4>1, <3>2, <2>2, <1>7 DEF Marked
    <3>3. CASE b = record /\ a \in d.applied
      <4>1. b.decided = now /\ a.key = o.key /\ a.created \in Nat
        BY <3>3, <2>2, <1>4 DEF Recorded, Applied
      <4> QED BY <4>1, <3>3, <2>2, <1>7 DEF Marked
    <3> QED BY <2>2, <3>1, <3>2, <3>3
  <2> QED BY <2>1, <2>2 DEF Windowed
<1>9. ASSUME NEW i \in DOMAIN record.conditions, OnVersion(record, i) PROVE Taken(e, record, i, m)
  <2> DEFINE t == record.conditions[i].target
             v == record.conditions[i].version
  <2>1. /\ t \in Targets /\ Targeted(o, t) /\ d.rows[t] # Missing /\ d.rows[t].version = v /\ v # Missing
    <3>1. /\ i \in DOMAIN o.conditions /\ o.conditions[i] = record.conditions[i]
          /\ o.conditions[i].expected = "version" /\ t \in record.targets
      BY <1>9 DEF Recorded, OnVersion
    <3>2. t \in Targets /\ v \in Guesses
      BY <3>1, <1>3 DEF Conditions
    <3>3. Matches(o.conditions[i], d.rows[t])
      BY <3>1
    <3> QED BY <3>1, <3>2, <3>3 DEF Recorded, Matches, Marked
  <2>2. <<v, d.rows[t].value>> \in names
    BY <2>1, <1>4 DEF Numbered, Named
  <2>3. \A k \in Nat : v = Token(k) => k <= n
    BY <2>2 DEF Told
  <2>4. e.rows[t] # Missing => e.rows[t].version # v
    <3> SUFFICES ASSUME e.rows[t] # Missing PROVE e.rows[t].version # v
      OBVIOUS
    <3>1. PICK k \in Nat : n < k /\ e.rows[t] = Row(o.digest, Token(k))
      BY <2>1 DEF Effect
    <3>2. e.rows[t].version = Token(k)
      BY <3>1 DEF Row
    <3> QED BY <3>1, <3>2, <2>3
  <2> QED BY <2>3, <2>4 DEF Taken
<1>10. Won(e, m)
  <2>1. ASSUME NEW a \in e.applied, NEW i \in DOMAIN a.conditions, OnVersion(a, i) PROVE Taken(e, a, i, m)
    <3>1. CASE a \in d.applied
      BY <3>1, <2>1, <1>4, <1>6 DEF Sound, Won
    <3>2. CASE a = record
      BY <3>2, <2>1, <1>9
    <3> QED BY <3>1, <3>2
  <2>2. ASSUME NEW a \in d.applied, NEW i \in DOMAIN a.conditions, NEW j \in DOMAIN record.conditions,
               a.conditions[i].expected = "version", a.conditions[i] = record.conditions[j],
               a.conditions[i].target \in a.targets \cap record.targets
        PROVE  FALSE
    <3>1. Taken(d, a, i, n)
      BY <2>2 DEF Sound, Won, OnVersion
    <3>2. Matches(o.conditions[j], d.rows[o.conditions[j].target]) /\ o.conditions[j] = a.conditions[i]
      BY <2>2 DEF Recorded
    <3> QED BY <3>1, <3>2, <2>2 DEF Matches, Taken
  <2>3. ASSUME NEW a \in e.applied, NEW b \in e.applied, a # b,
               NEW i \in DOMAIN a.conditions, NEW j \in DOMAIN b.conditions,
               a.conditions[i].expected = "version", a.conditions[i] = b.conditions[j],
               a.conditions[i].target \in a.targets \cap b.targets
        PROVE  FALSE
    <3>1. CASE a \in d.applied /\ b \in d.applied
      BY <3>1, <2>3 DEF Sound, Won
    <3>2. CASE a \in d.applied /\ b = record
      BY <3>2, <2>3, <2>2
    <3>3. CASE b \in d.applied /\ a = record
      BY <3>3, <2>3, <2>2
    <3> QED BY <2>3, <3>1, <3>2, <3>3
  <2> QED BY <2>1, <2>3 DEF Won
<1>11. Backed(e)
  <2> SUFFICES ASSUME NEW k \in Keys, e.receipts[k] # Missing
               PROVE  \E a \in e.applied : a.digest = e.receipts[k].digest /\ a.versions = e.receipts[k].versions
    BY DEF Backed
  <2>1. CASE k = o.key
    BY <2>1 DEF Recorded
  <2>2. CASE k # o.key
    <3>1. e.receipts[k] = f.receipts[k]
      BY <2>2, <1>2
    <3> QED BY <3>1, <1>2 DEF Sound, Backed
  <2> QED BY <2>1, <2>2
<1> QED BY <1>6, <1>8, <1>10, <1>11 DEF Sound

(* The first of the conditions that fail is one of them. *)
LEMMA LeastIsElement ==
  ASSUME NEW S \in SUBSET Nat, S # {}
  PROVE  Min(S) \in S
<1>1. PICK less : less = {ss \in Nat \X Nat : ss[1] < ss[2]} /\ IsWellFoundedOn(less, Nat)
  BY NatLessThanWellFounded DEF OpToRel
<1>2. PICK x \in S : \A y \in S : ~(<<y, x>> \in less)
  BY <1>1, WFMin
<1>3. less = {ss \in Nat \X Nat : ss[1] < ss[2]}
  BY <1>1
<1>4. ASSUME NEW y \in S, y < x PROVE FALSE
  <2>1. <<y, x>> \in Nat \X Nat
    OBVIOUS
  <2>2. <<y, x>>[1] < <<y, x>>[2]
    BY <1>4
  <2>3. <<y, x>> \in less
    BY <2>1, <2>2, <1>3
  <2> QED BY <2>3, <1>2
<1>5. x \in Nat /\ \A y \in S : y \in Nat
  OBVIOUS
<1>6. \A y \in S : x <= y
  BY <1>4, <1>5
<1> QED BY <1>6 DEF Min

(* An operation that writes has one of the numbers that the batch uses. *)
LEMMA NumbersOf ==
  ASSUME NEW operations, NEW n \in Nat
  PROVE  /\ Cardinality(Issuing(operations, n)) \in Nat
         /\ \A i \in 1..n : operations[i].op = "write" =>
              /\ Cardinality(Issuing(operations, i)) \in Nat
              /\ 0 < Cardinality(Issuing(operations, i))
              /\ Cardinality(Issuing(operations, i)) <= Cardinality(Issuing(operations, n))
<1>1. IsFiniteSet(Issuing(operations, n)) /\ Cardinality(Issuing(operations, n)) \in Nat
  <2>1. IsFiniteSet(1..n)
    BY FS_Interval
  <2>2. Issuing(operations, n) \in SUBSET (1..n)
    BY DEF Issuing
  <2>3. IsFiniteSet(Issuing(operations, n))
    BY <2>1, <2>2, FS_Subset
  <2> QED BY <2>3, FS_CardinalityType
<1>2. ASSUME NEW i \in 1..n, operations[i].op = "write"
      PROVE  /\ Cardinality(Issuing(operations, i)) \in Nat /\ 0 < Cardinality(Issuing(operations, i))
             /\ Cardinality(Issuing(operations, i)) <= Cardinality(Issuing(operations, n))
  <2>1. Issuing(operations, i) \in SUBSET Issuing(operations, n)
    BY DEF Issuing
  <2>2. i \in Issuing(operations, i)
    BY <1>2 DEF Issuing
  <2>3. /\ IsFiniteSet(Issuing(operations, i))
        /\ Cardinality(Issuing(operations, i)) <= Cardinality(Issuing(operations, n))
    BY <1>1, <2>1, FS_Subset
  <2>4. Cardinality(Issuing(operations, i)) \in Nat /\ Cardinality(Issuing(operations, i)) # 0
    BY <2>2, <2>3, FS_CardinalityType, FS_EmptySet
  <2> QED BY <2>3, <2>4
<1> QED BY <1>1, <1>2

(* The client whose mutateAtomically is in hand. *)
Mutating(s, c) ==
  /\ Marked /\ Holds(c) /\ client[c].at <= Len(client[c].work)
  /\ Operation(c) \in Operations /\ Operation(c).kind = "mutate" /\ draft.versioned
  /\ client[c].began \in Nat /\ client[c].began <= clock
  /\ \A t \in Targets : Targeted(Operation(c), t) => ~Kept(s, t)
  /\ sequence \in Nat /\ clock \in Nat /\ draft \in Databases
  /\ Told(s, sequence, named) /\ Sound(s, draft, sequence, named, clock)

LEMMA MutationFacts ==
  ASSUME NEW s, WellFormedIn(s), IInv(s), NEW c \in Clients, Ready(c, "mutate")
  PROVE  Mutating(s, c)
<1>1. Holds(c) /\ client[c].at <= Len(client[c].work) /\ Operation(c).kind = "mutate"
  BY DEF Ready
<1>2. /\ Operation(c) \in Operations /\ draft.versioned /\ client[c].at \in DOMAIN s.work[c]
      /\ Operation(c) = s.work[c][client[c].at]
      /\ client[c].began \in Nat /\ client[c].began <= clock
  BY <1>1, OperationFacts
<1>3. \A t \in Targets : Targeted(Operation(c), t) => ~Kept(s, t)
  BY <1>1, <1>2 DEF Targeted, Kept, Writes
<1>4. /\ sequence \in Nat /\ clock \in Nat /\ draft \in Databases /\ Marked
      /\ Told(s, sequence, named) /\ Sound(s, draft, sequence, named, clock)
  BY DEF IInv, Typed, Data, Sound, WellFormedIn, Marked
<1> QED BY <1>1, <1>2, <1>3, <1>4 DEF Mutating

(* The database that differs in its receipts is the one of LeftSound. *)
LEMMA SameButReceipts ==
  ASSUME NEW d \in Databases, NEW e \in Databases, e.rows = d.rows, e.versioned = d.versioned, e.applied = d.applied
  PROVE  [d EXCEPT !.receipts = e.receipts] = e
BY DEF Databases

(* What pruning leaves of the draft, e, is sound. *)
LeavesDraft(s, r, e) ==
  /\ Sound(s, e, sequence, named, clock)
  /\ e.rows = draft.rows /\ e.versioned = draft.versioned
  /\ e.applied = draft.applied /\ e.receipts = r
  /\ e = [draft EXCEPT !.receipts = r]

LEMMA LeftDraft ==
  ASSUME NEW s, NEW c, Mutating(s, c), NEW r \in Left(Operation(c).key, draft.receipts, client[c].began)
  PROVE  \E e \in Databases : LeavesDraft(s, r, e)
<1>0. Marked
  BY DEF Mutating
<1>1. Leaves(s, draft, sequence, named, clock, client[c].began, Operation(c).key, r)
  BY DEF Mutating, Leaves
<1>2. PICK e \in Databases :
        /\ Sound(s, e, sequence, named, clock)
        /\ e.rows = draft.rows /\ e.versioned = draft.versioned
        /\ e.applied = draft.applied /\ e.receipts = r
  BY <1>0, <1>1, LeftSound
<1>3. [draft EXCEPT !.receipts = r] = e
  BY <1>2, SameButReceipts DEF Mutating
<1> QED BY <1>2, <1>3 DEF LeavesDraft

LEMMA ReplayStep ==
  ASSUME NEW s, WellFormedIn(s), IInv(s), NEW c \in Clients, Ready(c, "mutate"),
         NEW r \in Left(Operation(c).key, draft.receipts, client[c].began),
         Operation(c).key # NoKey, Live(r, Operation(c).key, client[c].began), Replay(c, Operation(c), r)
  PROVE  IInv(s)'
<1> DEFINE o == Operation(c)
<1>1. /\ Marked /\ Holds(c) /\ client[c].at <= Len(client[c].work) /\ o \in Operations /\ o.kind = "mutate"
      /\ client[c].began \in Nat /\ client[c].began <= clock /\ sequence \in Nat /\ clock \in Nat /\ draft \in Databases
      /\ Told(s, sequence, named) /\ Sound(s, draft, sequence, named, clock)
  BY MutationFacts DEF Mutating
<1>2. PICK e \in Databases : LeavesDraft(s, r, e)
  BY MutationFacts, LeftDraft
<1> USE <1>2 DEF LeavesDraft
<1>3. o.key \in Keys
  BY <1>1, MutationIs
<1>4. r[o.key] \in Receipts
  BY <1>2, <1>3 DEF Live, Databases
<1>5. \E a \in e.applied : a.digest = r[o.key].digest /\ a.versions = r[o.key].versions
  BY <1>2, <1>3 DEF Sound, Backed, Live
<1>6. PICK answer \in Answerable :
        /\ draft' = [draft EXCEPT !.receipts = r]
        /\ sequence' = sequence + 0 /\ named' = named \cup Named(draft'.rows)
        /\ Moved(c, answer)
        /\ answer.status = "replayed" => o.digest = r[o.key].digest /\ answer.versions = r[o.key].versions
        /\ answer.status # "applied"
  <2>1. CASE r[o.key].digest = o.digest
    <3>1. r[o.key].versions \in Answers
      BY <1>4 DEF Receipts
    <3>2. /\ Answer(c, "replayed", r[o.key].versions) \in Answerable
          /\ Answer(c, "replayed", r[o.key].versions).status = "replayed"
          /\ Answer(c, "replayed", r[o.key].versions).client = c
          /\ Answer(c, "replayed", r[o.key].versions).versions = r[o.key].versions
      BY <3>1, AnswerIs DEF Statuses
    <3> QED BY <3>2, <2>1 DEF Replay, Outcome, Moved
  <2>2. CASE r[o.key].digest # o.digest
    <3>1. /\ Answer(c, "idempotency-conflict", <<>>) \in Answerable
          /\ Answer(c, "idempotency-conflict", <<>>).status = "idempotency-conflict"
          /\ Answer(c, "idempotency-conflict", <<>>).client = c
      BY AnswerIs, ShortAnswers DEF Statuses
    <3> QED BY <3>1, <2>2 DEF Replay, Outcome, Moved
  <2> QED BY <2>1, <2>2
<1>7. draft' = e
  BY <1>6
<1>8. named' = named /\ sequence' = sequence
  BY <1>1, <1>2, <1>6, <1>7 DEF Sound, Numbered
<1>9. sequence' \in Nat /\ sequence <= sequence' /\ named \subseteq named'
  BY <1>1, <1>8
<1>10. Told(s, sequence', named') /\ Sound(s, draft', sequence', named', clock)
  BY <1>1, <1>2, <1>7, <1>8
<1>11. answer.status \in {"applied", "replayed"} =>
         \E a \in draft'.applied : a.digest = o.digest /\ a.versions = answer.versions
  BY <1>5, <1>6, <1>7
<1>12. draft.applied \subseteq draft'.applied /\ (draft.versioned => draft'.versioned)
  BY <1>2, <1>7
<1> QED BY <1>1, <1>6, <1>9, <1>10, <1>11, <1>12, OutcomeStep

LEMMA ConflictStep ==
  ASSUME NEW s, WellFormedIn(s), IInv(s), NEW c \in Clients, Ready(c, "mutate"),
         NEW r \in Left(Operation(c).key, draft.receipts, client[c].began),
         Failing(Operation(c).conditions, draft.rows) # {}, Conflict(c, Operation(c), r)
  PROVE  IInv(s)'
<1> DEFINE o == Operation(c)
           t == o.conditions[Min(Failing(o.conditions, draft.rows))].target
<1>1. /\ Marked /\ Holds(c) /\ client[c].at <= Len(client[c].work) /\ o \in Operations /\ o.kind = "mutate"
      /\ client[c].began \in Nat /\ client[c].began <= clock /\ sequence \in Nat /\ clock \in Nat /\ draft \in Databases
      /\ Told(s, sequence, named) /\ Sound(s, draft, sequence, named, clock) /\ draft.versioned
  BY MutationFacts DEF Mutating
<1>2. PICK e \in Databases : LeavesDraft(s, r, e)
  BY MutationFacts, LeftDraft
<1>3. /\ e \in Databases /\ Sound(s, e, sequence, named, clock)
      /\ e.rows = draft.rows /\ e.versioned = draft.versioned
      /\ e.applied = draft.applied /\ e.receipts = r
  BY <1>2 DEF LeavesDraft
<1>4. t \in Targets
  <2>1. /\ o.conditions \in Seq(Conditions)
        /\ \A i \in DOMAIN o.conditions : o.conditions[i].target \in Targets
    BY <1>1, MutationIs
  <2>2. Failing(o.conditions, draft.rows) \in SUBSET Nat /\ Failing(o.conditions, draft.rows) \subseteq DOMAIN o.conditions
    BY <2>1 DEF Failing
  <2>3. Min(Failing(o.conditions, draft.rows)) \in Failing(o.conditions, draft.rows)
    BY <2>2, LeastIsElement
  <2> QED BY <2>1, <2>2, <2>3
<1>5. CASE Backfill(c, "conflict", t, e) /\ draft.rows[t] # Missing
  <2>1. e.rows \in [Targets -> Rows \cup {Missing}] /\ e.rows[t] \in Rows /\ sequence + 1 \in Nat
    BY <1>1, <1>3, <1>4, <1>5 DEF Databases
  <2>2. Backfilled(e.rows[t]) = Refilled(e.rows[t], sequence) /\ Backfilled(e.rows[t]) \in Rows
    BY <2>1, <1>1 DEF Backfilled, Refilled, Row, Rows, AnyVersion
  <2>3. PICK f : /\ f = [e EXCEPT !.rows[t] = Backfilled(@)]
                 /\ draft' = f /\ sequence' = sequence + 1 /\ named' = named \cup Named(f.rows)
    <3>1. /\ draft' = [e EXCEPT !.rows[t] = Backfilled(@)]
          /\ sequence' = sequence + 1 /\ named' = named \cup Named(draft'.rows)
      BY <1>5 DEF Backfill, Outcome
    <3>2. PICK f : f = draft'
      OBVIOUS
    <3> QED BY <3>1, <3>2
  <2>4. /\ f \in Databases /\ f.versioned = e.versioned /\ f.applied = e.applied /\ f.receipts = e.receipts
        /\ f.rows[t] = Backfilled(e.rows[t]) /\ \A u \in Targets : u = t \/ f.rows[u] = e.rows[u]
    <3>1. PICK rows \in [Targets -> Rows \cup {Missing}] : rows = [e.rows EXCEPT ![t] = Backfilled(e.rows[t])]
      BY <2>1, <2>2
    <3>2. f = [e EXCEPT !.rows = [e.rows EXCEPT ![t] = Backfilled(e.rows[t])]]
      BY <2>1, <2>3, <1>3, <1>4 DEF Databases
    <3>3. f = [e EXCEPT !.rows = rows]
      BY <3>1, <3>2
    <3> QED BY <2>1, <3>1, <3>3, <1>4 DEF Databases
  <2>5. Refills(s, e, f, t, sequence, sequence + 1, named, clock)
    <3>1. sequence \in Nat /\ sequence <= sequence + 1 /\ f.rows[t] = Refilled(e.rows[t], sequence)
      BY <2>2, <2>4, <1>1
    <3>2. e.rows[t] # Missing /\ e.versioned
      BY <1>1, <1>3, <1>5
    <3> QED BY <2>1, <2>4, <3>1, <3>2, <1>1, <1>3, <1>4 DEF Refills
  <2>6. /\ Told(s, sequence + 1, named \cup Named(f.rows))
        /\ Sound(s, f, sequence + 1, named \cup Named(f.rows), clock)
    BY <2>5, <1>1, BackfillSound
  <2>7. Refilled(e.rows[t], sequence).version \in AnyVersion
    BY <2>5, <1>1, BackfillSound
  <2>8. PICK answer \in Answerable : answer.status = "conflict" /\ Moved(c, answer)
    <3>1. /\ Answer(c, "conflict", <<Backfilled(e.rows[t]).version>>) \in Answerable
          /\ Answer(c, "conflict", <<Backfilled(e.rows[t]).version>>).status = "conflict"
          /\ Answer(c, "conflict", <<Backfilled(e.rows[t]).version>>).client = c
      <4>1. PICK v \in AnyVersion : v = Backfilled(e.rows[t]).version
        BY <2>2, <2>7
      <4>2. <<v>> \in Answers
        BY ShortAnswers
      <4>3. "conflict" \in Statuses
        BY DEF Statuses
      <4>4. /\ Answer(c, "conflict", <<v>>) \in Answerable /\ Answer(c, "conflict", <<v>>).status = "conflict"
            /\ Answer(c, "conflict", <<v>>).client = c
        BY <4>2, <4>3, AnswerIs
      <4> QED BY <4>1, <4>4
    <3> QED BY <3>1, <1>5 DEF Backfill, Outcome, Moved
  <2>9. sequence' \in Nat /\ sequence <= sequence' /\ named \subseteq named'
    <3>1. sequence' = sequence + 1 /\ named' = named \cup Named(f.rows)
      BY <2>3
    <3> QED BY <3>1, <1>1
  <2>10. Told(s, sequence', named') /\ Sound(s, draft', sequence', named', clock)
    BY <2>3, <2>6
  <2>11. draft.applied \subseteq draft'.applied /\ (draft.versioned => draft'.versioned)
    BY <2>3, <2>4, <1>3
  <2> QED BY <2>8, <2>9, <2>10, <2>11, <1>1, OutcomeStep
<1>6. CASE Outcome(e, 0, Answer(c, "conflict", <<>>))
  <2>1. /\ Answer(c, "conflict", <<>>) \in Answerable /\ Answer(c, "conflict", <<>>).status = "conflict"
        /\ Answer(c, "conflict", <<>>).client = c
    BY AnswerIs, ShortAnswers DEF Statuses
  <2>2. /\ draft' = e /\ sequence' = sequence /\ named' = named \cup Named(e.rows)
        /\ Moved(c, Answer(c, "conflict", <<>>))
    <3>1. sequence + 0 = sequence
      BY <1>1
    <3> QED BY <3>1, <2>1, <1>6 DEF Outcome, Moved
  <2>3. named' = named
    BY <2>2, <1>3 DEF Sound, Numbered
  <2>4. sequence' \in Nat /\ sequence <= sequence' /\ named \subseteq named'
    BY <2>2, <2>3, <1>1
  <2>5. Told(s, sequence', named') /\ Sound(s, draft', sequence', named', clock)
    BY <2>2, <2>3, <1>1, <1>3
  <2>6. draft.applied \subseteq draft'.applied /\ (draft.versioned => draft'.versioned)
    BY <2>2, <1>3
  <2> QED BY <2>1, <2>2, <2>4, <2>5, <2>6, <1>1, OutcomeStep
<1> QED BY <1>2, <1>5, <1>6 DEF Conflict, LeavesDraft

(* What a batch writes, each row under a number of its own batch, and the
   versions that it answers. *)
LEMMA WrittenIs ==
  ASSUME Marked, sequence \in Nat, NEW rows \in [Targets -> Rows \cup {Missing}], NEW o \in Operations, o.kind = "mutate",
         NEW n, n = Cardinality(Issuing(o.operations, Len(o.operations)))
  PROVE  /\ n \in Nat
         /\ VersionsOf(o.operations) \in Answers
         /\ Written(rows, o.operations, o.digest) \in [Targets -> Rows \cup {Missing}]
         /\ \A t \in Targets :
              \/ ~Targeted(o, t) /\ Written(rows, o.operations, o.digest)[t] = rows[t]
              \/ /\ Targeted(o, t)
                 /\ \/ Written(rows, o.operations, o.digest)[t] = Missing
                    \/ \E k \in Nat : /\ sequence < k /\ k <= sequence + n
                                      /\ Written(rows, o.operations, o.digest)[t] = Row(o.digest, Token(k))
<1>1. /\ o.operations \in Seq([target : Targets, op : {"write", "remove"}]) /\ o.digest \in Values
      /\ Len(o.operations) \in Nat /\ DOMAIN o.operations = 1..Len(o.operations)
  <2>1. o.operations \in Seq([target : Targets, op : {"write", "remove"}]) /\ o.digest \in Digests
    BY MutationIs
  <2> QED BY <2>1 DEF Marked
<1>2. n \in Nat
  BY <1>1, NumbersOf
<1>3. ASSUME NEW i \in DOMAIN o.operations, o.operations[i].op = "write"
      PROVE  Issued(o.operations, i) \in Nat /\ sequence < Issued(o.operations, i) /\ Issued(o.operations, i) <= sequence + n
  <2>1. PICK m \in Nat : m = Cardinality(Issuing(o.operations, i)) /\ 0 < m /\ m <= n
    BY <1>1, <1>3, NumbersOf
  <2> QED BY <2>1, <1>2 DEF Issued
<1>4. \A k \in Nat : Token(k) \in AnyVersion /\ Row(o.digest, Token(k)) \in Rows
  BY <1>1 DEF AnyVersion, Row, Rows
<1>5. VersionsOf(o.operations) \in Answers
  <2>1. \A i \in 1..Len(o.operations) :
          (IF o.operations[i].op = "write" THEN Token(Issued(o.operations, i)) ELSE Missing) \in AnyVersion \cup {Missing}
    BY <1>1, <1>3, <1>4
  <2> QED BY <2>1, <1>1 DEF VersionsOf, Answers
<1>6. ASSUME NEW t \in Targets
      PROVE  /\ Written(rows, o.operations, o.digest)[t] \in Rows \cup {Missing}
             /\ \/ ~Targeted(o, t) /\ Written(rows, o.operations, o.digest)[t] = rows[t]
                \/ /\ Targeted(o, t)
                   /\ \/ Written(rows, o.operations, o.digest)[t] = Missing
                      \/ \E k \in Nat : /\ sequence < k /\ k <= sequence + n
                                        /\ Written(rows, o.operations, o.digest)[t] = Row(o.digest, Token(k))
  <2>1. CASE ~\E i \in DOMAIN o.operations : o.operations[i].target = t
    BY <2>1 DEF Written, Targeted
  <2>2. CASE \E i \in DOMAIN o.operations : o.operations[i].target = t
    <3>1. PICK i \in DOMAIN o.operations : i = CHOOSE j \in DOMAIN o.operations : o.operations[j].target = t
      BY <2>2
    <3>2. Written(rows, o.operations, o.digest)[t] =
            IF o.operations[i].op = "write" THEN Row(o.digest, Token(Issued(o.operations, i))) ELSE Missing
      BY <2>2, <3>1 DEF Written
    <3>3. Targeted(o, t)
      BY <2>2 DEF Targeted
    <3> QED BY <3>2, <3>3, <1>3, <1>4
  <2> QED BY <2>1, <2>2
<1>7. Written(rows, o.operations, o.digest) \in [Targets -> Rows \cup {Missing}]
  <2>1. Written(rows, o.operations, o.digest) =
          [t \in Targets |-> Written(rows, o.operations, o.digest)[t]]
    BY DEF Written
  <2> QED BY <2>1, <1>6
<1> QED BY <1>2, <1>5, <1>6, <1>7

LEMMA TargetsOf ==
  ASSUME NEW operations \in Seq([target : Targets, op : {"write", "remove"}])
  PROVE  {operations[i].target : i \in DOMAIN operations} \in SUBSET Targets
<1>1. ASSUME NEW i \in DOMAIN operations PROVE operations[i].target \in Targets
  <2>1. i \in 1..Len(operations)
    OBVIOUS
  <2>2. operations[i] \in [target : Targets, op : {"write", "remove"}]
    BY <2>1, ElementOfSeq
  <2> QED BY <2>2
<1> QED BY <1>1

(* What is recorded of a batch in force. *)
LEMMA RecordIs ==
  ASSUME Marked, NEW o \in Operations, o.kind = "mutate", NEW now \in Nat, NEW began \in Nat, NEW versions \in Answers,
         NEW session \in Clients \X (Nat \ {0}), NEW record,
         record = [key |-> o.key, digest |-> o.digest, created |-> began, decided |-> now,
                   versions |-> versions, conditions |-> o.conditions,
                   targets |-> {o.operations[i].target : i \in DOMAIN o.operations}, by |-> session]
  PROVE  record \in Applied /\ Recorded(o, record, now, began) /\ record.versions = versions
<1>1. /\ o.key \in Keys \cup {NoKey} /\ o.digest \in Digests /\ o.conditions \in Seq(Conditions)
      /\ o.operations \in Seq([target : Targets, op : {"write", "remove"}])
  BY MutationIs
<1>2. {o.operations[i].target : i \in DOMAIN o.operations} \in SUBSET Targets
  BY <1>1, TargetsOf
<1>3. record \in Applied
  BY <1>1, <1>2 DEF Applied
<1> QED BY <1>3 DEF Recorded, Targeted

LEMMA SessionIs ==
  ASSUME NEW s, IInv(s), NEW c \in Clients
  PROVE  Session(c) \in Clients \X (Nat \ {0})
BY DEF IInv, Typed, ClientStates, Session

LEMMA ApplyStep ==
  ASSUME NEW s, WellFormedIn(s), IInv(s), NEW c \in Clients, Ready(c, "mutate"),
         NEW r \in Left(Operation(c).key, draft.receipts, client[c].began),
         Operation(c).key = NoKey \/ ~Live(r, Operation(c).key, client[c].began),
         Failing(Operation(c).conditions, draft.rows) = {}, Apply(c, Operation(c), r)
  PROVE  IInv(s)'
<1> DEFINE o == Operation(c)
<1>1. /\ Marked /\ Holds(c) /\ client[c].at <= Len(client[c].work) /\ o \in Operations /\ o.kind = "mutate"
      /\ client[c].began \in Nat /\ client[c].began <= clock /\ sequence \in Nat /\ clock \in Nat /\ draft \in Databases
      /\ Told(s, sequence, named) /\ Sound(s, draft, sequence, named, clock) /\ draft.versioned
      /\ \A t \in Targets : Targeted(o, t) => ~Kept(s, t)
  BY MutationFacts DEF Mutating
<1>2. r \in [Keys -> Receipts \cup {Missing}]
  <2>1. PICK e \in Databases : LeavesDraft(s, r, e)
    BY MutationFacts, LeftDraft
  <2> QED BY <2>1 DEF LeavesDraft, Databases
<1>3. draft.rows \in [Targets -> Rows \cup {Missing}] /\ draft.applied \subseteq Applied
  BY <1>1 DEF Databases
<1>4. PICK n \in Nat, versions \in Answers, rows \in [Targets -> Rows \cup {Missing}] :
        /\ n = Cardinality(Issuing(o.operations, Len(o.operations)))
        /\ versions = VersionsOf(o.operations)
        /\ rows = Written(draft.rows, o.operations, o.digest)
        /\ \A t \in Targets :
             \/ ~Targeted(o, t) /\ rows[t] = draft.rows[t]
             \/ /\ Targeted(o, t)
                /\ rows[t] = Missing \/ \E k \in Nat : /\ sequence < k /\ k <= sequence + n
                                                       /\ rows[t] = Row(o.digest, Token(k))
  <2>1. PICK n : n = Cardinality(Issuing(o.operations, Len(o.operations)))
    OBVIOUS
  <2>2. /\ n \in Nat
        /\ VersionsOf(o.operations) \in Answers
        /\ Written(draft.rows, o.operations, o.digest) \in [Targets -> Rows \cup {Missing}]
    BY <2>1, <1>1, <1>3, WrittenIs
  <2>3. \A t \in Targets :
          \/ ~Targeted(o, t) /\ Written(draft.rows, o.operations, o.digest)[t] = draft.rows[t]
          \/ /\ Targeted(o, t)
             /\ \/ Written(draft.rows, o.operations, o.digest)[t] = Missing
                \/ \E k \in Nat : /\ sequence < k /\ k <= sequence + n
                                  /\ Written(draft.rows, o.operations, o.digest)[t] = Row(o.digest, Token(k))
    BY <2>1, <1>1, <1>3, WrittenIs
  <2>4. PICK rows \in [Targets -> Rows \cup {Missing}] : rows = Written(draft.rows, o.operations, o.digest)
    BY <2>2
  <2> QED BY <2>1, <2>2, <2>3, <2>4
<1>5. PICK record \in Applied :
        /\ record = [key |-> o.key, digest |-> o.digest, created |-> client[c].began, decided |-> clock,
                     versions |-> versions, conditions |-> o.conditions,
                     targets |-> {o.operations[i].target : i \in DOMAIN o.operations}, by |-> Session(c)]
        /\ Recorded(o, record, clock, client[c].began) /\ record.versions = versions
  <2>1. PICK record : record = [key |-> o.key, digest |-> o.digest, created |-> client[c].began, decided |-> clock,
                                versions |-> versions, conditions |-> o.conditions,
                                targets |-> {o.operations[i].target : i \in DOMAIN o.operations}, by |-> Session(c)]
    OBVIOUS
  <2>3. PICK session \in Clients \X (Nat \ {0}) : session = Session(c)
    BY SessionIs
  <2>2. record \in Applied /\ Recorded(o, record, clock, client[c].began) /\ record.versions = versions
    BY <2>1, <2>3, <1>1, RecordIs
  <2> QED BY <2>1, <2>2
<1>6. o.key \in Keys \cup {NoKey} /\ o.digest \in Digests
  BY <1>1, MutationIs
<1>7. PICK receipt \in Receipts : receipt = [digest |-> o.digest, versions |-> versions, created |-> client[c].began]
  BY <1>1, <1>6 DEF Receipts
<1>8. PICK kept \in [Keys -> Receipts \cup {Missing}] :
        /\ kept = IF o.key = NoKey THEN draft.receipts ELSE [r EXCEPT ![o.key] = receipt]
        /\ \A k \in Keys : kept[k] = IF k = o.key THEN receipt ELSE r[k]
  <2>1. CASE o.key = NoKey
    <3>1. r = draft.receipts /\ NoKey \notin Keys
      BY <2>1, <1>1 DEF Left, Marked
    <3> QED BY <3>1, <2>1, <1>2
  <2>2. CASE o.key # NoKey
    <3>1. PICK kept \in [Keys -> Receipts \cup {Missing}] : kept = [r EXCEPT ![o.key] = receipt]
      BY <2>2, <1>2
    <3> QED BY <3>1, <2>2, <1>2, <1>6
  <2> QED BY <2>1, <2>2
<1>9. PICK applied \in SUBSET Applied : applied = draft.applied \cup {record}
  BY <1>3
<1>10. PICK e \in Databases :
         /\ e = [draft EXCEPT !.rows = rows, !.receipts = kept, !.applied = applied]
         /\ e.rows = rows /\ e.receipts = kept /\ e.applied = applied /\ e.versioned = draft.versioned
  <2>1. PICK e : e = [draft EXCEPT !.rows = rows, !.receipts = kept, !.applied = applied]
    OBVIOUS
  <2>2. e \in Databases /\ e.rows = rows /\ e.receipts = kept /\ e.applied = applied /\ e.versioned = draft.versioned
    BY <2>1, <1>1 DEF Databases
  <2> QED BY <2>1, <2>2
<1>11. Applies(s, draft, r, e, o, sequence, sequence + n, named, clock, client[c].began, record)
  <2>1. IF o.key = NoKey THEN r = draft.receipts
        ELSE r \in Pruned(draft.receipts, client[c].began) /\ ~Live(r, o.key, client[c].began)
    BY DEF Left
  <2>2. \A i \in DOMAIN o.conditions : Matches(o.conditions[i], draft.rows[o.conditions[i].target])
    BY DEF Failing
  <2>3. \A t \in Targets : Effect(o, draft, e, t, sequence, sequence + n)
    BY <1>4, <1>10 DEF Effect
  <2>4. sequence + n \in Nat /\ sequence <= sequence + n
    BY <1>1, <1>4
  <2>5. \A k \in Keys : e.receipts[k] = IF k = o.key THEN [digest |-> o.digest, versions |-> record.versions, created |-> client[c].began]
                                        ELSE r[k]
    BY <1>5, <1>7, <1>8, <1>10
  <2> QED BY <2>1, <2>2, <2>3, <2>4, <2>5, <1>1, <1>5, <1>9, <1>10 DEF Applies
<1>12. /\ Told(s, sequence + n, named \cup Named(e.rows))
       /\ Sound(s, e, sequence + n, named \cup Named(e.rows), clock)
  BY <1>11, <1>1, ApplySound
<1>13. /\ Answer(c, "applied", versions) \in Answerable /\ Answer(c, "applied", versions).status = "applied"
       /\ Answer(c, "applied", versions).client = c /\ Answer(c, "applied", versions).versions = versions
  BY AnswerIs DEF Statuses
<1>14. /\ draft' = e /\ sequence' = sequence + n /\ named' = named \cup Named(draft'.rows)
       /\ Moved(c, Answer(c, "applied", versions))
  BY <1>4, <1>5, <1>7, <1>8, <1>9, <1>10, <1>13 DEF Apply, Outcome, Moved
<1>15. sequence' \in Nat /\ sequence <= sequence' /\ named \subseteq named'
  BY <1>1, <1>4, <1>14
<1>16. Told(s, sequence', named') /\ Sound(s, draft', sequence', named', clock)
  BY <1>12, <1>14
<1>17. draft.applied \subseteq draft'.applied /\ (draft.versioned => draft'.versioned)
  BY <1>9, <1>10, <1>14
<1>18. \E a \in draft'.applied : a.digest = o.digest /\ a.versions = versions
  BY <1>5, <1>9, <1>10, <1>14 DEF Recorded
<1> QED BY <1>1, <1>13, <1>14, <1>15, <1>16, <1>17, <1>18, OutcomeStep

LEMMA MutateStep ==
  ASSUME NEW s, WellFormedIn(s), IInv(s), NEW c \in Clients, MutateAtomically(c)
  PROVE  IInv(s)'
<1>1. PICK r \in Left(Operation(c).key, draft.receipts, client[c].began) :
        IF Operation(c).key # NoKey /\ Live(r, Operation(c).key, client[c].began) THEN Replay(c, Operation(c), r)
        ELSE IF Failing(Operation(c).conditions, draft.rows) # {} THEN Conflict(c, Operation(c), r)
        ELSE Apply(c, Operation(c), r)
  BY DEF MutateAtomically, Left
<1>2. Ready(c, "mutate")
  BY DEF MutateAtomically
<1> QED BY <1>1, <1>2, ReplayStep, ConflictStep, ApplyStep

--------------------
(* The other steps. One client moves, and what is stored stays. *)
Moves(c) ==
  /\ client' \in [Clients -> ClientStates]
  /\ \A d \in Clients \ {c} : client'[d] = client[d]
  /\ client'[c].work = client[c].work /\ client'[c].wrapped = client[c].wrapped /\ client'[c].began <= clock
  /\ UNCHANGED <<committed, sequence, clock, draft, named>>

LEMMA OthersStay ==
  ASSUME NEW s, IInv(s), NEW c \in Clients, Moves(c), UNCHANGED queue, sent' \in BOOLEAN
  PROVE  /\ Typed(s)' /\ Data(s)'
         /\ \A d \in Clients \ {c} : Asking(s, d)' /\ Claims(d)' /\ Session(d)' = Session(d)
<1>1. Typed(s)'
  BY DEF IInv, Typed, Moves
<1>2. Data(s)'
  BY DEF IInv, Data, Moves
<1>3. ASSUME NEW d \in Clients \ {c} PROVE Asking(s, d)' /\ Claims(d)' /\ Session(d)' = Session(d)
  <2>1. client'[d] = client[d] /\ UNCHANGED <<committed, draft, queue>>
    BY DEF Moves
  <2> QED BY <2>1 DEF IInv, Asking, InTransaction, Claims, ToldApplied, Claimed, Session
<1> QED BY <1>1, <1>2, <1>3

(* The queue is as it was, and the client's place fits what it became. *)
Fits(c) ==
  /\ UNCHANGED queue /\ client'[c].attempt = client[c].attempt
  /\ \A i \in DOMAIN queue : queue[i] = Session(c) => client'[c].pc \in {"open", "committing", "ended"}
  /\ client'[c].pc = "committing" => sent' /\ queue # <<>> /\ queue[1] = Session(c)
  /\ sent' /\ queue # <<>> /\ queue[1] = Session(c) => client'[c].pc = "committing" \/ Lost(c)'
  /\ sent' = sent \/ (queue # <<>> /\ queue[1] = Session(c))

LEMMA QueueStays ==
  ASSUME NEW s, IInv(s), NEW c \in Clients, Moves(c), Fits(c)
  PROVE  Queued' /\ Session(c)' = Session(c)
<1>1. \A d \in Clients \ {c} : client'[d] = client[d] /\ Session(d)' = Session(d) /\ Session(d) # Session(c)
  BY DEF Moves, Session
<1>2. Session(c)' = Session(c) /\ UNCHANGED <<queue, committed, draft>> /\ client'[c].attempt = client[c].attempt
  BY DEF Moves, Fits, Session
<1>3. queue' = <<>> => draft' = committed' /\ ~sent'
  BY <1>2 DEF Fits, IInv, Queued
<1>4. \A i \in DOMAIN queue', d \in Clients : queue'[i][1] = d => queue'[i][2] <= client'[d].attempt
  BY <1>1, <1>2 DEF IInv, Queued
<1>5. \A i \in DOMAIN queue', d \in Clients :
        queue'[i] = Session(d)' => client'[d].pc \in {"open", "committing", "ended"}
  BY <1>1, <1>2 DEF IInv, Queued, Fits
<1>6. \A i, j \in DOMAIN queue' : queue'[i] = queue'[j] => i = j
  BY <1>2 DEF IInv, Queued
<1>7. ASSUME NEW d \in Clients
      PROVE  /\ client'[d].pc = "committing" => sent' /\ queue' # <<>> /\ queue'[1] = Session(d)'
             /\ sent' /\ queue' # <<>> /\ queue'[1] = Session(d)' => client'[d].pc = "committing" \/ Lost(d)'
  <2>1. CASE d = c
    BY <2>1, <1>2 DEF Fits
  <2>2. CASE d # c
    BY <2>2, <1>1, <1>2 DEF Fits, IInv, Queued, Lost
  <2> QED BY <2>1, <2>2
<1> QED BY <1>2, <1>3, <1>4, <1>5, <1>6, <1>7 DEF Queued

(* A client that is not in the queue is told of no batch that is applied. *)
LEMMA StateOf ==
  ASSUME NEW s, IInv(s), NEW c \in Clients
  PROVE  /\ client \in [Clients -> ClientStates] /\ client[c] \in ClientStates /\ client[c].began <= clock
         /\ queue \in Seq(Clients \X (Nat \ {0})) /\ sent \in BOOLEAN
         /\ client[c].pc \in {"idle", "begun"} => ~ToldApplied(c) /\ \A i \in DOMAIN queue : queue[i] # Session(c)
         /\ client[c].pc # "ended" => client[c].work # <<>>
BY DEF IInv, Typed, Queued, Claims, Asking

LEMMA BeginStep ==
  ASSUME NEW s, WellFormedIn(s), IInv(s), NEW c \in Clients, Begin(c)
  PROVE  IInv(s)'
<1>0. client[c].pc = "idle" /\ clock \in Nat
  BY DEF Begin, IInv, Typed, WellFormedIn, Marked
<1>1. /\ client \in [Clients -> ClientStates] /\ client[c] \in ClientStates
      /\ ~ToldApplied(c) /\ client[c].work # <<>> /\ \A i \in DOMAIN queue : queue[i] # Session(c)
  BY <1>0, StateOf
<1>2. /\ client'[c] = [client[c] EXCEPT !.pc = "begun", !.began = clock, !.at = 1]
      /\ \A d \in Clients \ {c} : client'[d] = client[d]
  BY <1>1 DEF Begin
<1>3. /\ client'[c] \in ClientStates /\ client'[c].pc = "begun" /\ client'[c].began = clock
      /\ client'[c].work = client[c].work /\ client'[c].wrapped = client[c].wrapped
      /\ client'[c].attempt = client[c].attempt /\ client'[c].seen = client[c].seen /\ client'[c].answer = client[c].answer
  <2>1. PICK first \in Nat \ {0} : first = 1
    OBVIOUS
  <2>2. client'[c] = [client[c] EXCEPT !.pc = "begun", !.began = clock, !.at = first]
    BY <2>1, <1>2
  <2> QED BY <2>2, <1>0, <1>1 DEF ClientStates
<1>4. client' \in [Clients -> ClientStates] /\ UNCHANGED <<queue, sent>> /\ sent' \in BOOLEAN
  BY <1>1, <1>2, <1>3 DEF Begin, IInv, Typed
<1>5. Moves(c)
  BY <1>0, <1>1, <1>2, <1>3, <1>4 DEF Moves, Begin
<1>6. Typed(s)' /\ Data(s)' /\ \A d \in Clients \ {c} : Asking(s, d)' /\ Claims(d)' /\ Session(d)' = Session(d)
  BY <1>4, <1>5, OthersStay
<1>7. Session(c)' = Session(c) /\ UNCHANGED <<committed, draft>>
  BY <1>3, <1>5 DEF Session, Moves
<1>8. Queued'
  BY <1>1, <1>2, <1>3, <1>4, <1>6, <1>7 DEF IInv, Queued, Lost, Begin
<1>9. Asking(s, c)' /\ Claims(c)'
  BY <1>1, <1>3, <1>7 DEF IInv, Asking, Claims, ToldApplied, Begin, MayBegin
<1> QED BY <1>6, <1>8, <1>9 DEF IInv

LEMMA RequestLockStep ==
  ASSUME NEW s, WellFormedIn(s), IInv(s), NEW c \in Clients, RequestLock(c)
  PROVE  IInv(s)'
<1>0. client[c].pc = "begun"
  BY DEF RequestLock
<1>1. /\ client \in [Clients -> ClientStates] /\ client[c] \in ClientStates /\ client[c].began <= clock
      /\ queue \in Seq(Clients \X (Nat \ {0})) /\ sent \in BOOLEAN
      /\ ~ToldApplied(c) /\ client[c].work # <<>> /\ \A i \in DOMAIN queue : queue[i] # Session(c)
  BY <1>0, StateOf
<1>2. client'[c] = [client[c] EXCEPT !.pc = "open"] /\ \A d \in Clients \ {c} : client'[d] = client[d]
  BY <1>1 DEF RequestLock
<1>3. /\ client'[c] \in ClientStates /\ client'[c].pc = "open" /\ client'[c].began = client[c].began
      /\ client'[c].work = client[c].work /\ client'[c].wrapped = client[c].wrapped
      /\ client'[c].attempt = client[c].attempt /\ client'[c].seen = client[c].seen /\ client'[c].answer = client[c].answer
  BY <1>1, <1>2 DEF ClientStates
<1>4. /\ \A d \in Clients : client'[d].work = client[d].work /\ client'[d].wrapped = client[d].wrapped /\ Session(d)' = Session(d)
      /\ UNCHANGED <<committed, sequence, clock, draft, sent, named>>
  BY <1>2, <1>3 DEF RequestLock, Session
<1>5. /\ queue' \in Seq(Clients \X (Nat \ {0})) /\ Len(queue') = Len(queue) + 1 /\ queue' # <<>>
      /\ \A i \in DOMAIN queue' : (i \in DOMAIN queue /\ queue'[i] = queue[i]) \/ (i = Len(queue) + 1 /\ queue'[i] = Session(c))
      /\ queue # <<>> => queue'[1] = queue[1]
  <2>1. PICK x \in Clients \X (Nat \ {0}) : x = Session(c)
    BY <1>1 DEF Session, ClientStates
  <2>2. queue' = Append(queue, x)
    BY <2>1 DEF RequestLock, InTurn
  <2>3. /\ queue' \in Seq(Clients \X (Nat \ {0})) /\ Len(queue') = Len(queue) + 1 /\ Len(queue) \in Nat
        /\ queue'[Len(queue) + 1] = x
    BY <2>2, <1>1, AppendProperties
  <2>6. ASSUME NEW i \in 1..Len(queue) PROVE queue'[i] = queue[i]
    BY <2>2, <1>1, AppendProperties
  <2>4. ASSUME NEW i \in DOMAIN queue'
        PROVE  (i \in DOMAIN queue /\ queue'[i] = queue[i]) \/ (i = Len(queue) + 1 /\ queue'[i] = Session(c))
    <3>1. i \in 1..Len(queue) \/ i = Len(queue) + 1
      BY <2>3
    <3>2. CASE i \in 1..Len(queue)
      <4>1. i \in DOMAIN queue
        BY <3>2, <1>1
      <4> QED BY <4>1, <3>2, <2>6
    <3>3. CASE i = Len(queue) + 1
      BY <3>3, <2>1, <2>3
    <3> QED BY <3>1, <3>2, <3>3
  <2>5. queue # <<>> => queue'[1] = queue[1]
    BY <2>2, <1>1
  <2> QED BY <2>3, <2>4, <2>5
<1>6. Typed(s)'
  BY <1>1, <1>2, <1>3, <1>4, <1>5 DEF IInv, Typed, RequestLock
<1>7. Data(s)'
  BY <1>4 DEF IInv, Data
<1>8. Queued'
  <2>1. \A i \in DOMAIN queue', d \in Clients : queue'[i][1] = d => queue'[i][2] <= client'[d].attempt
    <3>1. Session(c)[1] = c /\ Session(c)[2] = client[c].attempt /\ client[c].attempt \in Nat
      BY <1>1 DEF Session, ClientStates
    <3>2. ASSUME NEW i \in DOMAIN queue', NEW d \in Clients, queue'[i][1] = d PROVE queue'[i][2] <= client'[d].attempt
      <4>1. client'[d].attempt = client[d].attempt
        BY <1>2, <1>3
      <4>2. CASE i \in DOMAIN queue /\ queue'[i] = queue[i]
        BY <4>1, <4>2, <3>2 DEF IInv, Queued
      <4>3. CASE queue'[i] = Session(c)
        BY <4>1, <4>3, <3>1, <3>2
      <4> QED BY <4>2, <4>3, <1>5
    <3> QED BY <3>2
  <2>2. \A i \in DOMAIN queue', d \in Clients : queue'[i] = Session(d) => client'[d].pc \in {"open", "committing", "ended"}
    <3>1. \A d \in Clients : Session(c) = Session(d) => c = d
      BY DEF Session
    <3>2. ASSUME NEW i \in DOMAIN queue', NEW d \in Clients, queue'[i] = Session(d)
          PROVE  client'[d].pc \in {"open", "committing", "ended"}
      <4>1. CASE d = c
        BY <4>1, <1>3
      <4>2. CASE d # c
        <5>1. i \in DOMAIN queue /\ queue[i] = Session(d) /\ client'[d] = client[d]
          BY <4>2, <3>1, <3>2, <1>2, <1>5
        <5> QED BY <5>1 DEF IInv, Queued
      <4> QED BY <4>1, <4>2
    <3> QED BY <3>2
  <2>3. \A i, j \in DOMAIN queue' : queue'[i] = queue'[j] => i = j
    BY <1>1, <1>5 DEF IInv, Queued
  <2>4. ASSUME NEW d \in Clients
        PROVE  /\ client'[d].pc = "committing" => sent /\ queue'[1] = Session(d)
               /\ sent /\ queue'[1] = Session(d) => client'[d].pc = "committing" \/ Lost(d)'
    <3>1. sent => queue # <<>>
      BY DEF IInv, Queued
    <3>2. CASE d = c
      <4>1. queue # <<>> => queue'[1] # Session(c)
        BY <1>1, <1>5
      <4> QED BY <4>1, <3>1, <3>2, <1>3
    <3>3. CASE d # c
      BY <3>1, <3>3, <1>2, <1>5 DEF IInv, Queued, Lost
    <3> QED BY <3>2, <3>3
  <2> QED BY <2>1, <2>2, <2>3, <2>4, <1>4, <1>5 DEF Queued
<1>9. ASSUME NEW d \in Clients PROVE Asking(s, d)' /\ Claims(d)'
  <2>1. CASE d = c
    BY <2>1, <1>0, <1>1, <1>3, <1>4 DEF IInv, Asking, InTransaction, Claims, ToldApplied
  <2>2. CASE d # c
    <3>1. client'[d] = client[d]
      BY <2>2, <1>2
    <3>2. Asking(s, d)'
      BY <3>1, <1>4 DEF IInv, Asking, InTransaction
    <3>3. \A i \in DOMAIN queue' : queue'[i] = Session(d)' => i \in DOMAIN queue /\ queue[i] = Session(d)
      <4>1. Session(c) # Session(d)
        BY <2>2 DEF Session
      <4> QED BY <4>1, <1>4, <1>5
    <3>4. Claims(d)'
      BY <3>1, <3>3, <1>4 DEF IInv, Claims, ToldApplied, Claimed
    <3> QED BY <3>2, <3>4
  <2> QED BY <2>1, <2>2
<1> QED BY <1>6, <1>7, <1>8, <1>9 DEF IInv

LEMMA CommitStep ==
  ASSUME NEW s, WellFormedIn(s), IInv(s), NEW c \in Clients, Commit(c)
  PROVE  IInv(s)'
<1>0. client[c].pc = "open" /\ queue # <<>> /\ queue[1] = Session(c)
  BY DEF Commit, Holds
<1>1. /\ client \in [Clients -> ClientStates] /\ client[c] \in ClientStates /\ client[c].began <= clock
      /\ client[c].work # <<>>
  BY <1>0, StateOf
<1>2. client'[c] = [client[c] EXCEPT !.pc = "committing"] /\ \A d \in Clients \ {c} : client'[d] = client[d]
  BY <1>1 DEF Commit
<1>3. /\ client'[c] \in ClientStates /\ client'[c].pc = "committing" /\ client'[c].began = client[c].began
      /\ client'[c].work = client[c].work /\ client'[c].wrapped = client[c].wrapped
      /\ client'[c].attempt = client[c].attempt /\ client'[c].seen = client[c].seen /\ client'[c].answer = client[c].answer
  BY <1>1, <1>2 DEF ClientStates
<1>4. client' \in [Clients -> ClientStates] /\ UNCHANGED queue /\ sent' = TRUE /\ sent' \in BOOLEAN
  BY <1>1, <1>2, <1>3 DEF Commit
<1>5. Moves(c)
  BY <1>1, <1>2, <1>3, <1>4 DEF Moves, Commit
<1>6. Typed(s)' /\ Data(s)' /\ \A d \in Clients \ {c} : Asking(s, d)' /\ Claims(d)' /\ Session(d)' = Session(d)
  BY <1>4, <1>5, OthersStay
<1>7. UNCHANGED <<committed, draft>>
  BY <1>5 DEF Moves
<1>8. Queued' /\ Session(c)' = Session(c)
  <2>1. Fits(c)
    BY <1>0, <1>3, <1>4 DEF Fits
  <2> QED BY <2>1, <1>5, QueueStays
<1>9. Asking(s, c)' /\ Claims(c)'
  BY <1>0, <1>1, <1>3, <1>4, <1>7, <1>8 DEF IInv, Asking, InTransaction, Claims, ToldApplied, Claimed
<1> QED BY <1>6, <1>8, <1>9 DEF IInv

LEMMA AnsweredStep ==
  ASSUME NEW s, WellFormedIn(s), IInv(s), NEW c \in Clients, Answered(c)
  PROVE  IInv(s)'
<1>0. client[c].pc = "committed"
  BY DEF Answered
<1>1. /\ client \in [Clients -> ClientStates] /\ client[c] \in ClientStates /\ client[c].began <= clock
      /\ client[c].work # <<>>
  BY <1>0, StateOf
<1>2. client'[c] = [client[c] EXCEPT !.pc = "ended"] /\ \A d \in Clients \ {c} : client'[d] = client[d]
  BY <1>1 DEF Answered
<1>3. /\ client'[c] \in ClientStates /\ client'[c].pc = "ended" /\ client'[c].began = client[c].began
      /\ client'[c].work = client[c].work /\ client'[c].wrapped = client[c].wrapped
      /\ client'[c].attempt = client[c].attempt /\ client'[c].seen = client[c].seen /\ client'[c].answer = client[c].answer
  BY <1>1, <1>2 DEF ClientStates
<1>4. client' \in [Clients -> ClientStates] /\ UNCHANGED <<queue, sent>> /\ sent' \in BOOLEAN
  BY <1>1, <1>2, <1>3 DEF Answered, IInv, Typed
<1>5. Moves(c)
  BY <1>1, <1>2, <1>3, <1>4 DEF Moves, Answered
<1>6. Typed(s)' /\ Data(s)' /\ \A d \in Clients \ {c} : Asking(s, d)' /\ Claims(d)' /\ Session(d)' = Session(d)
  BY <1>4, <1>5, OthersStay
<1>7. UNCHANGED <<committed, draft>>
  BY <1>5 DEF Moves
<1>8. Queued' /\ Session(c)' = Session(c)
  <2>1. Fits(c)
    BY <1>0, <1>3, <1>4 DEF Fits, IInv, Queued, Lost
  <2> QED BY <2>1, <1>5, QueueStays
<1>9. Asking(s, c)' /\ Claims(c)'
  BY <1>0, <1>1, <1>3, <1>4, <1>7, <1>8 DEF IInv, Asking, InTransaction, Claims, ToldApplied, Claimed
<1> QED BY <1>6, <1>8, <1>9 DEF IInv

LEMMA LoseConnectionStep ==
  ASSUME NEW s, WellFormedIn(s), IInv(s), NEW c \in Clients, LoseConnection(c)
  PROVE  IInv(s)'
<1>0. client[c].pc \in {"begun", "open", "committing", "committed"}
  BY DEF LoseConnection
<1>1. /\ client \in [Clients -> ClientStates] /\ client[c] \in ClientStates /\ client[c].began <= clock
      /\ client[c].work # <<>> /\ sent \in BOOLEAN
  BY <1>0, StateOf
<1>2. PICK answer \in Answerable :
        /\ client' = Ended(c, answer.status) /\ answer = Answer(c, answer.status, <<>>)
        /\ answer.status \in {"failed", "lost", "indeterminate"}
        /\ client[c].pc \in {"committing", "committed"} => answer.status \in {"lost", "indeterminate"}
  <2>1. PICK status \in Statuses :
          /\ client' = Ended(c, status) /\ status \in {"failed", "lost", "indeterminate"}
          /\ client[c].pc \in {"committing", "committed"} => status \in {"lost", "indeterminate"}
    BY DEF LoseConnection, OutcomesOfLoss, Statuses
  <2> QED BY <2>1, AnswerIs, ShortAnswers
<1>3. /\ client'[c] = [client[c] EXCEPT !.pc = "ended", !.answer = answer]
      /\ \A d \in Clients \ {c} : client'[d] = client[d]
  BY <1>1, <1>2 DEF Ended
<1>4. /\ client'[c] \in ClientStates /\ client'[c].pc = "ended" /\ client'[c].began = client[c].began
      /\ client'[c].work = client[c].work /\ client'[c].wrapped = client[c].wrapped
      /\ client'[c].attempt = client[c].attempt /\ client'[c].seen = client[c].seen /\ client'[c].answer = answer
  <2>1. client'[c] = [client[c] EXCEPT !.pc = "ended", !.answer = answer]
    BY <1>3
  <2>2. client[c] \in ClientStates
    BY <1>1
  <2> QED BY <2>1, <2>2 DEF ClientStates
<1>5. client' \in [Clients -> ClientStates] /\ UNCHANGED queue /\ sent' \in BOOLEAN
  BY <1>1, <1>2, <1>3, <1>4 DEF LoseConnection, Ended
<1>6. Moves(c)
  BY <1>1, <1>3, <1>4, <1>5 DEF Moves, LoseConnection
<1>7. Typed(s)' /\ Data(s)' /\ \A d \in Clients \ {c} : Asking(s, d)' /\ Claims(d)' /\ Session(d)' = Session(d)
  BY <1>5, <1>6, OthersStay
<1>8. Queued'
  <2>1. sent' = sent \/ (queue # <<>> /\ queue[1] = Session(c))
    <3>1. sent' = sent \/ (queue # <<>> /\ Head(queue) = Session(c))
      BY Zenon DEF LoseConnection
    <3>2. queue # <<>> => Head(queue) = queue[1]
      BY StateOf
    <3> QED BY <3>1, <3>2
  <2>2. sent' /\ queue # <<>> /\ queue[1] = Session(c) => Lost(c)'
    <3>1. CASE client[c].pc \in {"committing", "committed"}
      BY <3>1, <1>2, <1>4 DEF Lost
    <3>2. CASE client[c].pc \in {"begun", "open"}
      BY <3>2 DEF LoseConnection, IInv, Queued, Lost
    <3> QED BY <3>1, <3>2, <1>0
  <2>3. Fits(c)
    BY <2>1, <2>2, <1>4, <1>5 DEF Fits
  <2> QED BY <2>3, <1>6, QueueStays
<1>9. Asking(s, c)' /\ Claims(c)'
  BY <1>0, <1>1, <1>2, <1>4, <1>6 DEF IInv, Asking, InTransaction, Claims, ToldApplied, Moves
<1> QED BY <1>7, <1>8, <1>9 DEF IInv

LEMMA FindsSessionEndedStep ==
  ASSUME NEW s, WellFormedIn(s), IInv(s), NEW c \in Clients, FindsSessionEnded(c)
  PROVE  IInv(s)'
<1>0. client[c].pc = "open" /\ \A i \in DOMAIN queue : queue[i] # Session(c)
  BY DEF FindsSessionEnded
<1>1. /\ client \in [Clients -> ClientStates] /\ client[c] \in ClientStates /\ client[c].began <= clock
      /\ client[c].work # <<>> /\ sent \in BOOLEAN /\ queue \in Seq(Clients \X (Nat \ {0}))
  BY <1>0, StateOf
<1>2. PICK answer \in Answerable : answer = Answer(c, "failed", <<>>) /\ answer.status = "failed"
  BY AnswerIs, ShortAnswers DEF Statuses
<1>3. /\ client'[c] = [client[c] EXCEPT !.pc = "ended", !.answer = answer]
      /\ \A d \in Clients \ {c} : client'[d] = client[d]
  BY <1>1, <1>2 DEF FindsSessionEnded, Ended
<1>4. /\ client'[c] \in ClientStates /\ client'[c].pc = "ended" /\ client'[c].began = client[c].began
      /\ client'[c].work = client[c].work /\ client'[c].wrapped = client[c].wrapped
      /\ client'[c].attempt = client[c].attempt /\ client'[c].seen = client[c].seen /\ client'[c].answer = answer
  BY <1>1, <1>3 DEF ClientStates
<1>5. client' \in [Clients -> ClientStates] /\ UNCHANGED <<queue, sent>> /\ sent' \in BOOLEAN
  BY <1>1, <1>3, <1>4 DEF FindsSessionEnded, Ended
<1>6. Moves(c)
  BY <1>1, <1>3, <1>4, <1>5 DEF Moves, FindsSessionEnded
<1>7. Typed(s)' /\ Data(s)' /\ \A d \in Clients \ {c} : Asking(s, d)' /\ Claims(d)' /\ Session(d)' = Session(d)
  BY <1>5, <1>6, OthersStay
<1>8. Queued'
  <2>1. queue # <<>> => queue[1] # Session(c)
    BY <1>0, <1>1
  <2>2. Fits(c)
    BY <2>1, <1>0, <1>4, <1>5 DEF Fits
  <2> QED BY <2>2, <1>6, QueueStays
<1>9. Asking(s, c)' /\ Claims(c)'
  BY <1>0, <1>1, <1>2, <1>4, <1>6 DEF IInv, Asking, InTransaction, Claims, ToldApplied, Moves
<1> QED BY <1>7, <1>8, <1>9 DEF IInv

LEMMA RetryStep ==
  ASSUME NEW s, WellFormedIn(s), IInv(s), NEW c \in Clients, Retry(c)
  PROVE  IInv(s)'
<1>0. client[c].pc = "ended" /\ client[c].answer.status \in {"indeterminate", "lost", "failed"}
  BY DEF Retry
<1>1. /\ client \in [Clients -> ClientStates] /\ client[c] \in ClientStates /\ client[c].began <= clock
      /\ sent \in BOOLEAN /\ queue \in Seq(Clients \X (Nat \ {0})) /\ client[c].attempt \in Nat \ {0}
  BY StateOf DEF ClientStates
<1>2. PICK next \in Nat \ {0} : next = client[c].attempt + 1 /\ client[c].attempt < next
  BY <1>1
<1>3. /\ client'[c] = [client[c] EXCEPT !.pc = "idle", !.attempt = next]
      /\ \A d \in Clients \ {c} : client'[d] = client[d]
  BY <1>1, <1>2 DEF Retry
<1>4. /\ client'[c] \in ClientStates /\ client'[c].pc = "idle" /\ client'[c].began = client[c].began
      /\ client'[c].work = client[c].work /\ client'[c].wrapped = client[c].wrapped
      /\ client'[c].attempt = next /\ client'[c].seen = client[c].seen /\ client'[c].answer = client[c].answer
  BY <1>1, <1>3 DEF ClientStates
<1>5. client' \in [Clients -> ClientStates] /\ UNCHANGED <<queue, sent>> /\ sent' \in BOOLEAN
  BY <1>1, <1>3, <1>4 DEF Retry
<1>6. Moves(c)
  BY <1>1, <1>3, <1>4, <1>5 DEF Moves, Retry
<1>7. Typed(s)' /\ Data(s)' /\ \A d \in Clients \ {c} : Asking(s, d)' /\ Claims(d)' /\ Session(d)' = Session(d)
  BY <1>5, <1>6, OthersStay
<1>10. \A i \in DOMAIN queue : queue[i][2] \in Nat /\ (queue[i][1] = c => queue[i][2] <= client[c].attempt)
  <2>1. ASSUME NEW i \in DOMAIN queue PROVE queue[i][2] \in Nat
    <3>1. i \in 1..Len(queue)
      BY <1>1
    <3>2. queue[i] \in Clients \X (Nat \ {0})
      BY <3>1, <1>1, ElementOfSeq
    <3> QED BY <3>2
  <2>2. \A i \in DOMAIN queue : queue[i][1] = c => queue[i][2] <= client[c].attempt
    BY DEF IInv, Queued
  <2> QED BY <2>1, <2>2
<1>8. Queued'
  <2>1. \A i \in DOMAIN queue : queue[i] # Session(c)'
    <3>1. \A i \in DOMAIN queue : queue[i][1] = c => queue[i][2] <= client[c].attempt /\ queue[i][2] \in Nat
      BY <1>10
    <3>2. Session(c)'[1] = c /\ Session(c)'[2] = next
      BY <1>4 DEF Session
    <3> QED BY <3>1, <3>2, <1>1, <1>2
  <2>2. UNCHANGED <<queue, sent, committed, draft>>
    BY <1>5, <1>6 DEF Moves
  <2>3. \A i \in DOMAIN queue', d \in Clients : queue'[i][1] = d => queue'[i][2] <= client'[d].attempt
    <3>1. ASSUME NEW i \in DOMAIN queue, queue[i][1] = c PROVE queue[i][2] <= next
      <4>1. queue[i][2] \in Nat /\ queue[i][2] <= client[c].attempt
        BY <3>1, <1>10
      <4> QED BY <4>1, <1>1, <1>2
    <3> QED BY <3>1, <2>2, <1>3, <1>4 DEF IInv, Queued
  <2>4. \A i \in DOMAIN queue', d \in Clients :
          queue'[i] = Session(d)' => client'[d].pc \in {"open", "committing", "ended"}
    BY <2>1, <2>2, <1>3, <1>7 DEF IInv, Queued
  <2>5. ASSUME NEW d \in Clients
        PROVE  /\ client'[d].pc = "committing" => sent' /\ queue' # <<>> /\ queue'[1] = Session(d)'
               /\ sent' /\ queue' # <<>> /\ queue'[1] = Session(d)' => client'[d].pc = "committing" \/ Lost(d)'
    <3>1. CASE d = c
      <4>1. queue # <<>> => queue[1] # Session(c)'
        BY <2>1, <1>1
      <4> QED BY <4>1, <3>1, <2>2, <1>4
    <3>2. CASE d # c
      <4>1. client'[d] = client[d] /\ Session(d)' = Session(d)
        BY <3>2, <1>3, <1>7
      <4> QED BY <4>1, <2>2 DEF IInv, Queued, Lost
    <3> QED BY <3>1, <3>2
  <2> QED BY <2>2, <2>3, <2>4, <2>5 DEF IInv, Queued
<1>9. Asking(s, c)' /\ Claims(c)'
  BY <1>0, <1>1, <1>4, <1>6 DEF IInv, Asking, InTransaction, Claims, ToldApplied, Moves
<1> QED BY <1>7, <1>8, <1>9 DEF IInv

LEMMA ReadAloneStep ==
  ASSUME NEW s, WellFormedIn(s), IInv(s), NEW c \in Clients, ReadAlone(c)
  PROVE  IInv(s)'
<1> DEFINE t == client[c].work[1].target
<1>0. client[c].pc = "idle" /\ ~client[c].wrapped /\ client[c].work[1].kind = "read" /\ client[c].seen = Missing
  BY DEF ReadAlone
<1>1. /\ client \in [Clients -> ClientStates] /\ client[c] \in ClientStates /\ client[c].began <= clock
      /\ ~ToldApplied(c) /\ client[c].work # <<>> /\ sent \in BOOLEAN /\ queue \in Seq(Clients \X (Nat \ {0}))
      /\ \A i \in DOMAIN queue : queue[i] # Session(c)
  BY <1>0, StateOf
<1>2. t \in Targets
  <2>1. client[c].work \in Seq(Operations)
    BY <1>1 DEF ClientStates
  <2>2. client[c].work[1] \in Operations
    BY <2>1, <1>1
  <2> QED BY <2>2, <1>0 DEF Operations
<1>3. /\ committed \in Databases /\ committed.rows[t] \in Rows \cup {Missing} /\ Sound(s, committed, sequence, named, clock)
      /\ c \notin s.wrapped
  BY <1>0, <1>2 DEF IInv, Typed, Data, Sound, Databases
<1>4. PICK state \in ClientStates :
        /\ client' = [client EXCEPT ![c] = state]
        /\ state.pc \in {"idle", "ended"} /\ state.began = client[c].began
        /\ state.work = client[c].work /\ state.wrapped = client[c].wrapped /\ state.attempt = client[c].attempt
        /\ state.seen # Missing => state.seen = committed.rows[t] /\ Unnumbered(state.seen)
        /\ state.answer.status \notin {"applied", "replayed"}
        /\ named' = named
  <2>1. CASE committed.rows[t] = Missing \/ committed.rows[t].version # Missing
    <3>1. PICK answer \in Answerable :
            /\ answer = Answer(c, IF committed.rows[t] = Missing THEN "absent" ELSE "value", <<>>)
            /\ answer.status \notin {"applied", "replayed"}
      BY AnswerIs, ShortAnswers DEF Statuses
    <3>2. PICK state \in ClientStates :
            /\ state = [client[c] EXCEPT !.pc = "ended", !.answer = answer]
            /\ state.pc = "ended" /\ state.began = client[c].began /\ state.seen = client[c].seen /\ state.answer = answer
            /\ state.work = client[c].work /\ state.wrapped = client[c].wrapped /\ state.attempt = client[c].attempt
      <4>1. PICK state : state = [client[c] EXCEPT !.pc = "ended", !.answer = answer]
        OBVIOUS
      <4>2. /\ state \in ClientStates
            /\ state.pc = "ended" /\ state.began = client[c].began /\ state.seen = client[c].seen /\ state.answer = answer
            /\ state.work = client[c].work /\ state.wrapped = client[c].wrapped /\ state.attempt = client[c].attempt
        BY <4>1, <1>1 DEF ClientStates
      <4> QED BY <4>1, <4>2
    <3>3. client' = [client EXCEPT ![c] = state]
      BY <3>1, <3>2, <2>1, <1>1 DEF ReadAlone
    <3>4. named' = named
      <4>1. committed.rows[t] # Missing => <<committed.rows[t].version, committed.rows[t].value>> \in named
        BY <2>1, <1>2, <1>3 DEF Sound, Numbered, Named
      <4> QED BY <4>1, <2>1 DEF ReadAlone
    <3> QED BY <3>1, <3>2, <3>3, <3>4, <1>0
  <2>2. CASE Unnumbered(committed.rows[t])
    <3>1. PICK state \in ClientStates :
            /\ state = [client[c] EXCEPT !.seen = committed.rows[t]]
            /\ state.pc = client[c].pc /\ state.began = client[c].began /\ state.seen = committed.rows[t]
            /\ state.work = client[c].work /\ state.wrapped = client[c].wrapped /\ state.attempt = client[c].attempt
            /\ state.answer = client[c].answer
      <4>1. PICK row \in Rows \cup {Missing} : row = committed.rows[t]
        BY <1>3
      <4>2. PICK state : state = [client[c] EXCEPT !.seen = row]
        OBVIOUS
      <4>3. /\ state \in ClientStates
            /\ state.pc = client[c].pc /\ state.began = client[c].began /\ state.seen = row
            /\ state.work = client[c].work /\ state.wrapped = client[c].wrapped /\ state.attempt = client[c].attempt
            /\ state.answer = client[c].answer
        BY <4>2, <1>1 DEF ClientStates
      <4> QED BY <4>1, <4>2, <4>3
    <3>2. client' = [client EXCEPT ![c] = state] /\ named' = named
      BY <3>1, <2>2, <1>1 DEF ReadAlone, Unnumbered
    <3> QED BY <3>1, <3>2, <2>2, <1>0, <1>1 DEF ToldApplied
  <2> QED BY <2>1, <2>2 DEF Unnumbered
<1>5. client'[c] = state /\ (\A d \in Clients \ {c} : client'[d] = client[d]) /\ client' \in [Clients -> ClientStates]
  BY <1>1, <1>4
<1>6. UNCHANGED <<queue, sent>> /\ sent' \in BOOLEAN
  BY <1>1 DEF ReadAlone
<1>7. Moves(c)
  BY <1>1, <1>4, <1>5 DEF Moves, ReadAlone
<1>8. Typed(s)' /\ Data(s)' /\ \A d \in Clients \ {c} : Asking(s, d)' /\ Claims(d)' /\ Session(d)' = Session(d)
  BY <1>6, <1>7, OthersStay
<1>9. Queued'
  <2>1. queue # <<>> => queue[1] # Session(c)
    BY <1>1
  <2>2. Fits(c)
    BY <2>1, <1>1, <1>4, <1>5, <1>6 DEF Fits
  <2> QED BY <2>2, <1>7, QueueStays
<1>10. Asking(s, c)' /\ Claims(c)'
  <2>1. Unnumbered(committed.rows[t]) => committed.rows[t] = s.database.rows[t]
    BY <1>2, <1>3 DEF Sound, Numbered
  <2> QED BY <2>1, <1>0, <1>1, <1>3, <1>4, <1>5, <1>7 DEF IInv, Asking, InTransaction, Claims, ToldApplied, Moves
<1> QED BY <1>8, <1>9, <1>10 DEF IInv

LEMMA TickStep ==
  ASSUME NEW s, WellFormedIn(s), IInv(s), Tick
  PROVE  IInv(s)'
<1>1. /\ clock \in 0..MaxClock /\ clock' = clock + 1 /\ clock < MaxClock /\ MaxClock \in Nat /\ Marked /\ sequence \in Nat
      /\ UNCHANGED <<committed, sequence, queue, draft, sent, client, named>>
  BY DEF Tick, IInv, Typed, WellFormedIn, Marked
<1>2. clock \in Nat /\ clock' \in Nat /\ clock <= clock' /\ clock' \in 0..MaxClock
  BY <1>1
<1>3. ASSUME NEW c \in Clients PROVE client[c].began <= clock'
  <2>1. client[c].began \in Nat /\ client[c].began <= clock
    BY DEF IInv, Typed, ClientStates
  <2> QED BY <2>1, <1>2
<1>4. Typed(s)'
  BY <1>1, <1>2, <1>3 DEF IInv, Typed
<1>5. Data(s)'
  <2>1. /\ Told(s, sequence, named) /\ Sound(s, committed, sequence, named, clock) /\ Sound(s, draft, sequence, named, clock)
        /\ committed.applied \subseteq draft.applied /\ (committed.versioned => draft.versioned)
    BY DEF IInv, Data
  <2>2. sequence <= sequence /\ named \subseteq named
    BY <1>1
  <2>3. Sound(s, committed, sequence, named, clock')
    BY <2>1, <2>2, <1>1, <1>2, SoundStays
  <2>4. Sound(s, draft, sequence, named, clock')
    BY <2>1, <2>2, <1>1, <1>2, SoundStays
  <2> QED BY <2>1, <2>3, <2>4, <1>1 DEF Data
<1>6. Queued'
  BY <1>1 DEF IInv, Queued, Session, Lost
<1>7. ASSUME NEW c \in Clients PROVE Asking(s, c)' /\ Claims(c)'
  BY <1>1 DEF IInv, Asking, InTransaction, Claims, ToldApplied, Claimed, Session
<1> QED BY <1>4, <1>5, <1>6, <1>7 DEF IInv

LEMMA OperationFailsStep ==
  ASSUME NEW s, WellFormedIn(s), IInv(s), NEW c \in Clients, OperationFails(c)
  PROVE  IInv(s)'
<1>1. Holds(c) /\ client[c].at <= Len(client[c].work)
  BY DEF OperationFails
<1>2. /\ sequence \in Nat /\ clock \in Nat /\ Marked
      /\ Told(s, sequence, named) /\ Sound(s, draft, sequence, named, clock)
  BY DEF IInv, Typed, Data, WellFormedIn, Marked
<1>3. Answer(c, "failed", <<>>) \in Answerable /\ Answer(c, "failed", <<>>).status = "failed"
  BY AnswerIs, ShortAnswers DEF Statuses
<1>4. Moved(c, Answer(c, "failed", <<>>))
  BY DEF OperationFails, Moved
<1>5. PICK n \in Nat : n = sequence' /\ sequence <= n
  BY <1>2 DEF OperationFails
<1>6. draft' = draft /\ named' = named
  BY DEF OperationFails
<1>7. Told(s, n, named)
  BY <1>2, <1>5 DEF Told
<1>8. Sound(s, draft, n, named, clock)
  <2>1. named \subseteq named /\ clock <= clock
    BY <1>2
  <2> QED BY <2>1, <1>2, <1>5, SoundStays
<1>9. sequence' \in Nat /\ sequence <= sequence' /\ named \subseteq named'
  BY <1>5, <1>6
<1>10. Told(s, sequence', named') /\ Sound(s, draft', sequence', named', clock)
  BY <1>5, <1>6, <1>7, <1>8
<1>11. draft.applied \subseteq draft'.applied /\ (draft.versioned => draft'.versioned)
  BY <1>6
<1> QED BY <1>1, <1>3, <1>4, <1>9, <1>10, <1>11, OutcomeStep

(* The first session ends, and its client knows or will find out. *)
Ends(c) ==
  /\ client'[c] \in ClientStates
  /\ client'[c].work = client[c].work /\ client'[c].wrapped = client[c].wrapped /\ client'[c].attempt = client[c].attempt
  /\ client'[c].seen = client[c].seen /\ client'[c].began = client[c].began
  /\ \/ client'[c] = client[c] /\ client[c].pc # "committing"
     \/ /\ queue[1] = Session(c) /\ client[c].pc = "open"
        /\ client'[c].pc = "ended" /\ client'[c].answer.status = "failed"
     \/ /\ queue[1] = Session(c) /\ client[c].pc = "committing" /\ committed' = draft
        /\ client'[c].pc = "committed" /\ client'[c].answer = client[c].answer

LEMMA SessionEnds ==
  ASSUME NEW s, WellFormedIn(s), IInv(s), queue # <<>>, queue' = Tail(queue), sent' = FALSE,
         committed' = committed \/ committed' = draft, draft' = committed',
         UNCHANGED <<sequence, clock, named>>, client' \in [Clients -> ClientStates],
         \A c \in Clients : Ends(c)
  PROVE  IInv(s)'
<1>1. queue \in Seq(Clients \X (Nat \ {0})) /\ \A i, j \in DOMAIN queue : queue[i] = queue[j] => i = j
  BY DEF IInv, Typed, Queued
<1>2. /\ queue' \in Seq(Clients \X (Nat \ {0})) /\ 1 \in DOMAIN queue
      /\ \A i \in DOMAIN queue' : i + 1 \in DOMAIN queue /\ i + 1 # 1 /\ queue'[i] = queue[i + 1]
  BY <1>1
<1>3. \A i \in DOMAIN queue' : queue'[i] # queue[1]
  BY <1>1, <1>2
<1>4. \A c \in Clients : Session(c)' = Session(c)
  BY DEF Ends, Session
<1>5. /\ committed.applied \subseteq draft.applied /\ (committed.versioned => draft.versioned)
      /\ Sound(s, committed, sequence, named, clock) /\ Sound(s, draft, sequence, named, clock)
      /\ Told(s, sequence, named)
  BY DEF IInv, Data
<1>6. committed.applied \subseteq committed'.applied /\ (committed.versioned => committed'.versioned)
  BY <1>5
<1>7. Typed(s)'
  BY <1>2 DEF IInv, Typed, Ends
<1>8. Data(s)'
  BY <1>5 DEF Data
<1>9. Queued'
  <2>1. \A i \in DOMAIN queue', c \in Clients : queue'[i][1] = c => queue'[i][2] <= client'[c].attempt
    <3>1. \A i \in DOMAIN queue, c \in Clients : queue[i][1] = c => queue[i][2] <= client[c].attempt
      BY DEF IInv, Queued
    <3>2. \A c \in Clients : client'[c].attempt = client[c].attempt
      BY DEF Ends
    <3>3. ASSUME NEW i \in DOMAIN queue', NEW c \in Clients, queue'[i][1] = c PROVE queue'[i][2] <= client'[c].attempt
      <4>1. i + 1 \in DOMAIN queue /\ queue'[i] = queue[i + 1]
        BY <1>2
      <4> QED BY <4>1, <3>1, <3>2, <3>3
    <3> QED BY <3>3
  <2>2. \A i \in DOMAIN queue', c \in Clients :
          queue'[i] = Session(c)' => client'[c].pc \in {"open", "committing", "ended"}
    <3> SUFFICES ASSUME NEW i \in DOMAIN queue', NEW c \in Clients, queue'[i] = Session(c)
                 PROVE  client'[c].pc \in {"open", "committing", "ended"}
      BY <1>4
    <3>1. i + 1 \in DOMAIN queue /\ queue[i + 1] = Session(c) /\ queue[1] # Session(c)
      BY <1>2, <1>3
    <3>2. client[c].pc \in {"open", "committing", "ended"}
      BY <3>1 DEF IInv, Queued
    <3>3. Ends(c)
      OBVIOUS
    <3> QED BY <3>1, <3>2, <3>3 DEF Ends
  <2>3. \A i, j \in DOMAIN queue' : queue'[i] = queue'[j] => i = j
    BY <1>1, <1>2
  <2>4. \A c \in Clients : client'[c].pc # "committing"
    BY DEF Ends
  <2> QED BY <2>1, <2>2, <2>3, <2>4 DEF Queued
<1>10. ASSUME NEW c \in Clients PROVE Asking(s, c)'
  <2>1. Asking(s, c) /\ Ends(c)
    BY DEF IInv
  <2> QED BY <2>1, <1>6 DEF Asking, InTransaction, Ends
<1>11. ASSUME NEW c \in Clients PROVE Claims(c)'
  <2>1. Claims(c) /\ Ends(c)
    BY DEF IInv
  <2>2. CASE client'[c] = client[c] /\ client[c].pc # "committing"
    <3>1. ToldApplied(c)' => ToldApplied(c) /\ client'[c].pc \in {"open", "committed", "ended"}
      BY <2>1, <2>2 DEF Claims, ToldApplied
    <3>2. ToldApplied(c)' /\ client'[c].pc \in {"committed", "ended"} => Claimed(committed, c)'
      BY <3>1, <2>1, <2>2, <1>6 DEF Claims, Claimed
    <3>3. ToldApplied(c)' /\ client'[c].pc = "open" => \A i \in DOMAIN queue' : queue'[i] # Session(c)'
      BY <3>1, <2>1, <2>2, <1>2, <1>4 DEF Claims
    <3> QED BY <3>1, <3>2, <3>3 DEF Claims
  <2>3. CASE client'[c].answer.status = "failed"
    BY <2>3 DEF Claims, ToldApplied
  <2>4. CASE /\ queue[1] = Session(c) /\ client[c].pc = "committing" /\ committed' = draft
             /\ client'[c].pc = "committed" /\ client'[c].answer = client[c].answer
    BY <2>1, <2>4, <1>2 DEF Claims, ToldApplied, Claimed, Ends
  <2> QED BY <2>1, <2>2, <2>3, <2>4 DEF Ends
<1> QED BY <1>7, <1>8, <1>9, <1>10, <1>11 DEF IInv

LEMMA RollbackStep ==
  ASSUME NEW s, WellFormedIn(s), IInv(s), NEW c \in Clients, Rollback(c)
  PROVE  IInv(s)'
<1>1. client[c].pc = "open" /\ queue # <<>> /\ queue[1] = Session(c)
  BY DEF Rollback, Holds
<1>2. client \in [Clients -> ClientStates] /\ client[c] \in ClientStates
  BY StateOf
<1>3. PICK answer \in Answerable : answer = Answer(c, "failed", <<>>) /\ answer.status = "failed"
  BY AnswerIs, ShortAnswers DEF Statuses
<1>4. /\ client'[c] = [client[c] EXCEPT !.pc = "ended", !.answer = answer]
      /\ \A d \in Clients \ {c} : client'[d] = client[d]
  BY <1>2, <1>3 DEF Rollback, Ended
<1>5. /\ client'[c] \in ClientStates /\ client'[c].pc = "ended" /\ client'[c].began = client[c].began
      /\ client'[c].work = client[c].work /\ client'[c].wrapped = client[c].wrapped
      /\ client'[c].attempt = client[c].attempt /\ client'[c].seen = client[c].seen /\ client'[c].answer = answer
  BY <1>2, <1>4 DEF ClientStates
<1>6. client' \in [Clients -> ClientStates]
  BY <1>2, <1>4, <1>5 DEF Rollback, Ended
<1>7. ASSUME NEW d \in Clients PROVE Ends(d)
  <2>1. CASE d = c
    BY <2>1, <1>1, <1>3, <1>5 DEF Ends
  <2>2. CASE d # c
    <3>1. client'[d] = client[d] /\ client[d] \in ClientStates
      BY <2>2, <1>2, <1>4
    <3>2. client[d].pc # "committing"
      <4>1. Session(d) # Session(c)
        BY <2>2 DEF Session
      <4> QED BY <4>1, <1>1 DEF IInv, Queued
    <3> QED BY <3>1, <3>2 DEF Ends
  <2> QED BY <2>1, <2>2
<1>8. /\ queue' = Tail(queue) /\ sent' = FALSE /\ committed' = committed /\ draft' = committed'
      /\ UNCHANGED <<sequence, clock, named>>
  BY DEF Rollback, EndSession
<1> QED BY <1>1, <1>6, <1>7, <1>8, SessionEnds

LEMMA ServerEndsSessionStep ==
  ASSUME NEW s, WellFormedIn(s), IInv(s), ServerEndsSession
  PROVE  IInv(s)'
<1>1. /\ queue # <<>> /\ queue' = Tail(queue) /\ sent' = FALSE /\ ~sent /\ committed' = committed /\ draft' = committed'
      /\ UNCHANGED <<sequence, clock, named, client>>
  BY DEF ServerEndsSession, EndSession
<1>2. client \in [Clients -> ClientStates]
  BY DEF IInv, Typed
<1>3. ASSUME NEW c \in Clients PROVE Ends(c)
  <2>1. client'[c] = client[c] /\ client[c] \in ClientStates
    BY <1>1, <1>2
  <2>2. client[c].pc # "committing"
    BY <1>1 DEF IInv, Queued
  <2> QED BY <2>1, <2>2 DEF Ends
<1>4. client' \in [Clients -> ClientStates]
  BY <1>1, <1>2
<1> QED BY <1>1, <1>3, <1>4, SessionEnds

LEMMA ServerCommitsStep ==
  ASSUME NEW s, WellFormedIn(s), IInv(s), ServerCommits
  PROVE  IInv(s)'
<1>1. /\ queue # <<>> /\ queue' = Tail(queue) /\ sent' = FALSE /\ sent /\ committed' = draft /\ draft' = committed'
      /\ UNCHANGED <<sequence, clock, named>>
  BY DEF ServerCommits, EndSession
<1>2. client \in [Clients -> ClientStates] /\ queue \in Seq(Clients \X (Nat \ {0}))
  BY DEF IInv, Typed
<1>3. PICK c \in Clients : c = queue[1][1] /\ c = Head(queue)[1] /\ Head(queue) = queue[1]
  BY <1>1, <1>2
<1>4. client' = IF client[c].pc = "committing" /\ Session(c) = queue[1] THEN [client EXCEPT ![c].pc = "committed"] ELSE client
  BY <1>3 DEF ServerCommits
<1>5. ASSUME NEW d \in Clients, client[d].pc = "committing" PROVE d = c /\ queue[1] = Session(d)
  BY <1>3, <1>5 DEF IInv, Queued, Session
<1>6. CASE client[c].pc = "committing" /\ Session(c) = queue[1]
  <2>1. /\ client'[c] = [client[c] EXCEPT !.pc = "committed"] /\ client[c] \in ClientStates
        /\ \A d \in Clients \ {c} : client'[d] = client[d]
    BY <1>2, <1>4, <1>6
  <2>2. /\ client'[c] \in ClientStates /\ client'[c].pc = "committed" /\ client'[c].began = client[c].began
        /\ client'[c].work = client[c].work /\ client'[c].wrapped = client[c].wrapped
        /\ client'[c].attempt = client[c].attempt /\ client'[c].seen = client[c].seen /\ client'[c].answer = client[c].answer
    BY <2>1 DEF ClientStates
  <2>3. client' \in [Clients -> ClientStates]
    BY <2>1, <2>2, <1>2, <1>4, <1>6
  <2>4. ASSUME NEW d \in Clients PROVE Ends(d)
    <3>1. CASE d = c
      BY <3>1, <2>2, <1>1, <1>6 DEF Ends
    <3>2. CASE d # c
      <4>1. client'[d] = client[d] /\ client[d] \in ClientStates /\ client[d].pc # "committing"
        BY <3>2, <2>1, <1>2, <1>5
      <4> QED BY <4>1 DEF Ends
    <3> QED BY <3>1, <3>2
  <2> QED BY <2>3, <2>4, <1>1, SessionEnds
<1>7. CASE ~(client[c].pc = "committing" /\ Session(c) = queue[1])
  <2>1. client' = client
    BY <1>4, <1>7
  <2>2. ASSUME NEW d \in Clients PROVE Ends(d)
    <3>1. client'[d] = client[d] /\ client[d] \in ClientStates /\ client[d].pc # "committing"
      BY <2>1, <1>2, <1>5, <1>7
    <3> QED BY <3>1 DEF Ends
  <2>3. client' \in [Clients -> ClientStates]
    BY <2>1, <1>2
  <2> QED BY <2>2, <2>3, <1>1, SessionEnds
<1> QED BY <1>6, <1>7

--------------------
(* The invariant holds at first and is kept by every step. *)
LEMMA StepIInv ==
  ASSUME NEW s, WellFormedIn(s), IInv(s), [Next]_postgresVars
  PROVE  IInv(s)'
<1>1. ASSUME NEW c \in Clients, Step(c) PROVE IInv(s)'
  BY <1>1, ReadAloneStep, BeginStep, RequestLockStep, MutateStep, SetStep, ReadStep, PruneStep, OpenStep,
     CommitStep, AnsweredStep, FindsSessionEndedStep DEF Step
<1>2. ASSUME NEW c \in Clients, Fault(c) PROVE IInv(s)'
  BY <1>2, OperationFailsStep, RollbackStep, LoseConnectionStep, RetryStep DEF Fault
<1>3. ASSUME UNCHANGED postgresVars PROVE IInv(s)'
  BY <1>3 DEF postgresVars, IInv, Typed, Data, Queued, Asking, InTransaction, Claims, ToldApplied, Claimed, Session, Lost
<1> QED BY <1>1, <1>2, <1>3, ServerCommitsStep, ServerEndsSessionStep, TickStep DEF Next

(* Whose the batches are: those of the transaction in hand are the first
   session's, and those of a client's attempt are in force only when it
   may say so. *)
Worked(c) ==
  /\ client[c].pc \notin {"idle", "begun"}
  /\ client[c].pc = "open" => client[c].at > 1
  /\ ~client[c].wrapped /\ client[c].pc # "ended" => client[c].answer.status = "applied"

Settled(c) ==
  /\ client[c].pc \in {"committed", "ended"}
  /\ ~client[c].wrapped => client[c].answer.status \in {"applied", "lost", "indeterminate"}

Author(c) ==
  /\ \A a \in draft.applied, n \in Nat : a.by = <<c, n>> => n <= client[c].attempt
  /\ \A a \in draft.applied : a.by = Session(c) => Worked(c)
  /\ \A a \in committed.applied : a.by = Session(c) => Settled(c)

Authors ==
  /\ \A a \in draft.applied : a \in committed.applied \/ (queue # <<>> /\ a.by = queue[1])
  /\ \A c \in Clients : Author(c)

(* A client goes on while what is stored stays. *)
GoesOnAs(c) ==
  /\ \A d \in Clients \ {c} : client'[d] = client[d]
  /\ client'[c].attempt = client[c].attempt /\ draft'.applied = draft.applied
  /\ UNCHANGED committed
  /\ queue # <<>> => queue' # <<>> /\ queue'[1] = queue[1]
  /\ (Worked(c) => Worked(c)') /\ (Settled(c) => Settled(c)')

LEMMA GoingOnKeepsAuthors ==
  ASSUME Authors, NEW c \in Clients, GoesOnAs(c)
  PROVE  Authors'
<1>1. ASSUME NEW d \in Clients PROVE Author(d)'
  <2>1. Session(d)' = Session(d) /\ client'[d].attempt = client[d].attempt
    BY DEF GoesOnAs, Session
  <2>2. (Worked(d) => Worked(d)') /\ (Settled(d) => Settled(d)')
    BY DEF GoesOnAs, Worked, Settled
  <2> QED BY <2>1, <2>2 DEF Authors, Author, GoesOnAs
<1> QED BY <1>1 DEF Authors, GoesOnAs

LEMMA ClientKeepsAuthors ==
  ASSUME NEW s, WellFormedIn(s), IInv(s), Authors, NEW c \in Clients,
         \/ ReadAlone(c) \/ Begin(c) \/ RequestLock(c) \/ Commit(c) \/ Answered(c)
         \/ FindsSessionEnded(c) \/ LoseConnection(c) \/ OperationFails(c)
  PROVE  Authors'
<1>1. client \in [Clients -> ClientStates] /\ client[c] \in ClientStates /\ queue \in Seq(Clients \X (Nat \ {0}))
  BY StateOf
<1>2. client[c].at \in Nat \ {0}
  BY <1>1 DEF ClientStates
<1>3. CASE ReadAlone(c) \/ Begin(c) \/ RequestLock(c)
  <2>1. client[c].pc \in {"idle", "begun"}
    BY <1>3 DEF ReadAlone, Begin, RequestLock
  <2>2. (\A d \in Clients \ {c} : client'[d] = client[d]) /\ client'[c].attempt = client[c].attempt
    <3>1. CASE ReadAlone(c)
      <4>1. PICK answer, row : \/ client' = [client EXCEPT ![c].pc = "ended", ![c].answer = answer]
                               \/ client' = [client EXCEPT ![c].seen = row]
        BY <3>1 DEF ReadAlone
      <4>2. CASE client' = [client EXCEPT ![c].pc = "ended", ![c].answer = answer]
        BY <4>2, <1>1 DEF ClientStates
      <4>3. CASE client' = [client EXCEPT ![c].seen = row]
        BY <4>3, <1>1 DEF ClientStates
      <4> QED BY <4>1, <4>2, <4>3
    <3>2. CASE Begin(c) \/ RequestLock(c)
      BY <3>2, <1>1 DEF Begin, RequestLock, ClientStates
    <3> QED BY <3>1, <3>2, <1>3
  <2>3. queue # <<>> => queue' # <<>> /\ queue'[1] = queue[1]
    <3>1. CASE RequestLock(c)
      BY <3>1, <1>1, SessionIs DEF RequestLock, InTurn
    <3>2. CASE UNCHANGED queue
      BY <3>2
    <3> QED BY <3>1, <3>2, <1>3 DEF ReadAlone, Begin
  <2>4. draft'.applied = draft.applied /\ UNCHANGED committed
    BY <1>3 DEF ReadAlone, Begin, RequestLock
  <2>5. GoesOnAs(c)
    BY <2>1, <2>2, <2>3, <2>4 DEF GoesOnAs, Worked, Settled
  <2> QED BY <2>5, GoingOnKeepsAuthors
<1>4. CASE Commit(c) \/ Answered(c) \/ FindsSessionEnded(c) \/ LoseConnection(c)
  <2>1. /\ client[c].pc \in {"begun", "open", "committing", "committed"}
        /\ UNCHANGED <<committed, draft, queue>>
    BY <1>4 DEF Commit, Answered, FindsSessionEnded, LoseConnection, Holds
  <2>2. /\ \A d \in Clients \ {c} : client'[d] = client[d]
        /\ client'[c].attempt = client[c].attempt /\ client'[c].wrapped = client[c].wrapped
        /\ \/ client[c].pc = "open" /\ client'[c].pc = "committing" /\ client'[c].answer = client[c].answer
           \/ client'[c].pc = "ended" /\ client'[c].answer = client[c].answer
           \/ /\ client'[c].pc = "ended"
              /\ client[c].pc \in {"committing", "committed"} => client'[c].answer.status \in {"lost", "indeterminate"}
    <3>1. CASE Commit(c)
      BY <3>1, <1>1 DEF Commit, Holds, ClientStates
    <3>2. CASE Answered(c)
      BY <3>2, <1>1 DEF Answered, ClientStates
    <3>3. CASE FindsSessionEnded(c)
      BY <3>3, <1>1 DEF FindsSessionEnded, Ended, ClientStates
    <3>4. CASE LoseConnection(c)
      <4>1. PICK status : /\ client' = Ended(c, status)
                          /\ client[c].pc \in {"committing", "committed"} => status \in {"lost", "indeterminate"}
        BY <3>4 DEF LoseConnection, OutcomesOfLoss
      <4> QED BY <4>1, <1>1 DEF Ended, Answer, ClientStates
    <3> QED BY <3>1, <3>2, <3>3, <3>4, <1>4
  <2>3. GoesOnAs(c)
    BY <2>1, <2>2 DEF GoesOnAs, Worked, Settled
  <2> QED BY <2>3, GoingOnKeepsAuthors
<1>5. CASE OperationFails(c)
  <2>1. /\ \A d \in Clients \ {c} : client'[d] = client[d]
        /\ client'[c].attempt = client[c].attempt /\ client'[c].wrapped /\ client'[c].pc = "open" /\ client[c].pc = "open"
        /\ client'[c].at = client[c].at + 1 /\ UNCHANGED <<committed, draft, queue>>
    BY <1>1, <1>5 DEF OperationFails, Holds, ClientStates
  <2>2. GoesOnAs(c)
    BY <2>1, <1>2 DEF GoesOnAs, Worked, Settled
  <2> QED BY <2>2, GoingOnKeepsAuthors
<1> QED BY <1>3, <1>4, <1>5

(* An operation of the holder, and the session of the batch that it adds. *)
LEMMA OperationKeepsAuthors ==
  ASSUME NEW s, WellFormedIn(s), IInv(s), Authors, NEW c \in Clients,
         Holds(c), client[c].at <= Len(client[c].work), NEW answer, Moved(c, answer),
         \/ draft'.applied = draft.applied
         \/ /\ answer.status = "applied"
            /\ \A a \in draft'.applied : a \in draft.applied \/ a.by = Session(c)
  PROVE  Authors'
<1>1. client \in [Clients -> ClientStates] /\ client[c] \in ClientStates /\ queue # <<>> /\ queue[1] = Session(c)
  BY StateOf, OperationFacts
<1>2. /\ client[c].at \in Nat \ {0} /\ client[c].pc = "open" /\ UNCHANGED <<committed, queue>>
      /\ client'[c].attempt = client[c].attempt /\ client'[c].wrapped = client[c].wrapped
      /\ client'[c].pc = "open" /\ client'[c].at = client[c].at + 1 /\ client'[c].answer = answer
      /\ \A d \in Clients \ {c} : client'[d] = client[d]
  BY <1>1 DEF Moved, Holds, ClientStates
<1>3. ~client[c].wrapped => client[c].at = 1
  BY OperationFacts DEF IInv, Typed
<1>4. CASE draft'.applied = draft.applied
  <2>1. GoesOnAs(c)
    BY <1>2, <1>3, <1>4 DEF GoesOnAs, Worked, Settled
  <2> QED BY <2>1, GoingOnKeepsAuthors
<1>5. CASE answer.status = "applied" /\ \A a \in draft'.applied : a \in draft.applied \/ a.by = Session(c)
  <2>1. \A d \in Clients : Session(d)' = Session(d) /\ client'[d].attempt = client[d].attempt
    BY <1>2 DEF Session
  <2>2. Worked(c)' /\ ~Settled(c)
    BY <1>2, <1>5 DEF Worked, Settled
  <2>3. Author(c)'
    <3>1. \A n \in Nat : Session(c) = <<c, n>> => n <= client[c].attempt
      BY <1>1 DEF Session, ClientStates
    <3> QED BY <3>1, <2>1, <2>2, <1>2, <1>5 DEF Authors, Author
  <2>4. ASSUME NEW d \in Clients \ {c} PROVE Author(d)'
    <3>1. \A n \in Nat : Session(c) # <<d, n>>
      BY DEF Session
    <3>2. Session(c) # Session(d)
      BY DEF Session
    <3>3. (Worked(d) => Worked(d)') /\ (Settled(d) => Settled(d)')
      BY <1>2 DEF Worked, Settled
    <3>4. \A a \in draft'.applied : a \in draft.applied \/ (a.by # Session(d) /\ \A n \in Nat : a.by # <<d, n>>)
      BY <3>1, <3>2, <1>5
    <3>5. Author(d) /\ UNCHANGED committed
      BY <1>2 DEF Authors
    <3> QED BY <3>3, <3>4, <3>5, <2>1 DEF Author
  <2>5. ASSUME NEW a \in draft'.applied PROVE a \in committed'.applied \/ (queue' # <<>> /\ a.by = queue'[1])
    BY <1>1, <1>2, <1>5 DEF Authors
  <2> QED BY <2>3, <2>4, <2>5 DEF Authors
<1> QED BY <1>4, <1>5

LEMMA OperationsKeepAuthors ==
  ASSUME NEW s, WellFormedIn(s), IInv(s), Authors, NEW c \in Clients,
         MutateAtomically(c) \/ Write(c) \/ GetVersioned(c) \/ PruneExpiredReceipts(c) \/ Open(c)
  PROVE  Authors'
<1>1. Holds(c) /\ client[c].at <= Len(client[c].work)
  BY DEF MutateAtomically, Write, GetVersioned, PruneExpiredReceipts, Open, Ready
<1>2. draft \in Databases
  BY DEF IInv, Data, Sound
<1> DEFINE Done == \E answer :
             /\ Moved(c, answer)
             /\ \/ draft'.applied = draft.applied
                \/ /\ answer.status = "applied"
                   /\ \A a \in draft'.applied : a \in draft.applied \/ a.by = Session(c)
<1>3. ASSUME NEW d, NEW n, NEW status, NEW versions, Outcome(d, n, Answer(c, status, versions)),
             d.applied = draft.applied \/ (status = "applied" /\ \A a \in d.applied : a \in draft.applied \/ a.by = Session(c))
      PROVE  Done
  <2>3. Answer(c, status, versions).client = c /\ Answer(c, status, versions).status = status
    BY DEF Answer
  <2>1. PICK answer : answer = Answer(c, status, versions) /\ answer.client = c /\ answer.status = status
    BY <2>3
  <2>2. Moved(c, answer) /\ draft' = d
    BY <2>1, <1>3 DEF Outcome, Moved
  <2> QED BY <2>1, <2>2, <1>3
<1>4. ASSUME NEW d \in Databases, NEW t, NEW x
      PROVE  /\ [d EXCEPT !.rows[t] = x].applied = d.applied /\ [d EXCEPT !.receipts = x].applied = d.applied
             /\ [d EXCEPT !.versioned = TRUE, !.rows = x].applied = d.applied
  BY DEF Databases
<1>5. ASSUME NEW rows, NEW receipts, NEW record
      PROVE  [draft EXCEPT !.rows = rows, !.receipts = receipts, !.applied = @ \cup {record}].applied = draft.applied \cup {record}
  BY <1>2 DEF Databases
<1> HIDE DEF Done
<1>10. ASSUME NEW t, NEW x, NEW n, NEW status, NEW versions, Outcome([draft EXCEPT !.rows[t] = x], n, Answer(c, status, versions))
       PROVE  Done
  <2>1. [draft EXCEPT !.rows[t] = x].applied = draft.applied
    BY <1>2, <1>4
  <2> QED BY <2>1, <1>3, <1>10
<1>11. ASSUME NEW x, NEW n, NEW status, NEW versions, Outcome([draft EXCEPT !.receipts = x], n, Answer(c, status, versions))
       PROVE  Done
  BY <1>11, <1>2, <1>3, <1>4
<1>12. ASSUME NEW t, NEW d, d.applied = draft.applied, NEW n, NEW status, NEW versions,
              Outcome([d EXCEPT !.rows[t] = Backfilled(@)], n, Answer(c, status, versions))
       PROVE  Done
  <2>1. [d EXCEPT !.rows[t] = Backfilled(@)].applied = draft.applied
    BY <1>12
  <2> QED BY <2>1, <1>3, <1>12
<1>6. Write(c) \/ PruneExpiredReceipts(c) => Done
  BY <1>10, <1>11 DEF Write, PruneExpiredReceipts
<1>7. Open(c) => Done
  BY <1>2, <1>3, <1>4 DEF Open
<1>8. GetVersioned(c) => Done
  <2>1. CASE Outcome(draft, 0, Answer(c, "absent", <<>>))
    BY <2>1, <1>3
  <2>2. ASSUME NEW t, NEW versions, draft' = [draft EXCEPT !.rows[t] = Backfilled(@)],
               Moved(c, Answer(c, "value", versions))
        PROVE  Done
    BY <2>2, <1>2, <1>4 DEF Done
  <2> QED BY <2>1, <2>2 DEF GetVersioned, Moved
<1>9. MutateAtomically(c) => Done
  <2> SUFFICES ASSUME MutateAtomically(c) PROVE Done
    OBVIOUS
  <2>1. PICK r : Replay(c, Operation(c), r) \/ Conflict(c, Operation(c), r) \/ Apply(c, Operation(c), r)
    BY DEF MutateAtomically
  <2>2. Replay(c, Operation(c), r) => Done
    BY <1>11 DEF Replay
  <2>3. Conflict(c, Operation(c), r) => Done
    <3> DEFINE o == Operation(c)
               t == o.conditions[Min(Failing(o.conditions, draft.rows))].target
               d == [draft EXCEPT !.receipts = r]
    <3>1. Conflict(c, o, r) =>
            \/ Outcome(d, 0, Answer(c, "conflict", <<>>))
            \/ Outcome([d EXCEPT !.rows[t] = Backfilled(@)], 1, Answer(c, "conflict", <<Backfilled(d.rows[t]).version>>))
      BY DEF Conflict, Backfill
    <3>2. d.applied = draft.applied
      BY <1>2, <1>4
    <3>3. Outcome(d, 0, Answer(c, "conflict", <<>>)) => Done
      BY <1>11
    <3> HIDE DEF t, d
    <3> QED BY <3>1, <3>2, <3>3, <1>12
  <2>4. Apply(c, Operation(c), r) => Done
    <3> DEFINE o == Operation(c)
               versions == VersionsOf(o.operations)
               record == [key |-> o.key, digest |-> o.digest, created |-> client[c].began, decided |-> clock,
                          versions |-> versions, conditions |-> o.conditions,
                          targets |-> {o.operations[i].target : i \in DOMAIN o.operations}, by |-> Session(c)]
               receipts == IF o.key = NoKey THEN draft.receipts
                           ELSE [r EXCEPT ![o.key] = [digest |-> o.digest, versions |-> versions, created |-> client[c].began]]
    <3>1. Apply(c, o, r) =>
            Outcome([draft EXCEPT !.rows = Written(draft.rows, o.operations, o.digest), !.receipts = receipts,
                                  !.applied = @ \cup {record}],
                    Cardinality(Issuing(o.operations, Len(o.operations))), Answer(c, "applied", versions))
      BY DEF Apply
    <3>2. record.by = Session(c)
      OBVIOUS
    <3> HIDE DEF o, versions, record, receipts
    <3>3. [draft EXCEPT !.rows = Written(draft.rows, o.operations, o.digest), !.receipts = receipts,
                        !.applied = @ \cup {record}].applied = draft.applied \cup {record}
      BY <1>5
    <3> QED BY <3>1, <3>2, <3>3, <1>3 DEF o
  <2> QED BY <2>1, <2>2, <2>3, <2>4
<1> QED BY <1>1, <1>6, <1>7, <1>8, <1>9, OperationKeepsAuthors DEF Done

LEMMA RetryKeepsAuthors ==
  ASSUME NEW s, WellFormedIn(s), IInv(s), Authors, NEW c \in Clients, Retry(c)
  PROVE  Authors'
<1>1. client \in [Clients -> ClientStates] /\ client[c] \in ClientStates
  BY StateOf
<1>2. /\ client[c].attempt \in Nat \ {0} /\ client'[c].attempt = client[c].attempt + 1
      /\ UNCHANGED <<committed, draft, queue>> /\ \A d \in Clients \ {c} : client'[d] = client[d]
  BY <1>1 DEF Retry, ClientStates
<1>3. PICK n \in Nat : n = client'[c].attempt /\ Session(c)' = <<c, n>> /\ ~(n <= client[c].attempt)
  BY <1>2 DEF Session
<1>4. \A a \in draft.applied : a.by # Session(c)'
  BY <1>3 DEF Authors, Author
<1>5. committed.applied \subseteq draft.applied
  BY DEF IInv, Data
<1>6. \A a \in draft.applied, k \in Nat : a.by = <<c, k>> => k <= client'[c].attempt
  BY <1>2 DEF Authors, Author
<1>7. Author(c)'
  BY <1>2, <1>4, <1>5, <1>6 DEF Author
<1>8. ASSUME NEW d \in Clients \ {c} PROVE Author(d)'
  BY <1>2 DEF Authors, Author, Worked, Settled, Session
<1> QED BY <1>2, <1>7, <1>8 DEF Authors

(* The first session ends: what it did is in force or gone. *)
LEMMA EndKeepsAuthors ==
  ASSUME NEW s, WellFormedIn(s), IInv(s), Authors, (\E c \in Clients : Rollback(c)) \/ ServerCommits \/ ServerEndsSession
  PROVE  Authors'
<1>1. /\ client \in [Clients -> ClientStates] /\ queue \in Seq(Clients \X (Nat \ {0})) /\ queue # <<>>
      /\ draft' = committed' /\ committed.applied \subseteq draft.applied
  BY DEF Rollback, Holds, ServerCommits, ServerEndsSession, EndSession, IInv, Typed, Data
<1>2. PICK c \in Clients : c = queue[1][1] /\ c = Head(queue)[1] /\ Head(queue) = queue[1]
  BY <1>1
<1>3. /\ \A d \in Clients : client'[d].attempt = client[d].attempt
      /\ \A d \in Clients : Settled(d) => client'[d] = client[d]
  <2>1. CASE \E d \in Clients : Rollback(d)
    <3>1. PICK d \in Clients : client' = Ended(d, "failed") /\ client[d].pc = "open"
      BY <2>1 DEF Rollback, Holds
    <3>2. client'[d].attempt = client[d].attempt /\ \A e \in Clients \ {d} : client'[e] = client[e]
      BY <3>1, <1>1 DEF Ended, ClientStates
    <3> QED BY <3>1, <3>2 DEF Settled
  <2>2. CASE ServerCommits
    BY <2>2, <1>1, <1>2 DEF ServerCommits, ClientStates, Settled
  <2> QED BY <2>1, <2>2 DEF ServerEndsSession
<1>4. \A d \in Clients : Session(d)' = Session(d)
  BY <1>3 DEF Session
<1>5. ASSUME NEW a \in committed'.applied, NEW d \in Clients, a.by = Session(d) PROVE Worked(d)' /\ Settled(d)'
  <2>1. CASE a \in committed.applied
    <3>1. Settled(d) /\ client'[d] = client[d]
      BY <2>1, <1>3, <1>5 DEF Authors, Author
    <3>2. Worked(d)
      BY <2>1, <1>1, <1>5 DEF Authors, Author
    <3> QED BY <3>1, <3>2 DEF Worked, Settled
  <2>2. CASE a \notin committed.applied
    <3>1. ServerCommits /\ committed' = draft /\ a \in draft.applied
      BY <2>2 DEF Rollback, ServerCommits, ServerEndsSession, EndSession
    <3>2. queue[1] = Session(d) /\ Worked(d) /\ sent
      BY <2>2, <3>1, <1>5 DEF Authors, Author, ServerCommits
    <3>3. d = c /\ (client[d].pc = "committing" \/ Lost(d))
      BY <3>2, <1>1, <1>2 DEF IInv, Queued, Session
    <3>4. CASE client[d].pc = "committing"
      <4>1. client' = [client EXCEPT ![d].pc = "committed"]
        BY <3>1, <3>2, <3>3, <3>4, <1>2 DEF ServerCommits
      <4>2. /\ client'[d].pc = "committed" /\ client'[d].answer = client[d].answer
            /\ client'[d].wrapped = client[d].wrapped
        BY <4>1, <1>1 DEF ClientStates
      <4> QED BY <4>2, <3>2, <3>4 DEF Worked, Settled
    <3>5. CASE Lost(d)
      <4>1. client' = client
        BY <3>1, <3>3, <3>5, <1>2 DEF ServerCommits, Lost
      <4> QED BY <4>1, <3>5 DEF Lost, Worked, Settled
    <3> QED BY <3>3, <3>4, <3>5
  <2> QED BY <2>1, <2>2
<1>6. committed'.applied \subseteq draft.applied
  BY <1>1 DEF Rollback, ServerCommits, ServerEndsSession, EndSession
<1>7. ASSUME NEW d \in Clients PROVE Author(d)'
  BY <1>1, <1>3, <1>4, <1>5, <1>6 DEF Authors, Author
<1> QED BY <1>1, <1>7 DEF Authors

LEMMA StepAuthors ==
  ASSUME NEW s, WellFormedIn(s), IInv(s), Authors, [Next]_postgresVars
  PROVE  Authors'
<1>1. ASSUME UNCHANGED <<committed, draft, queue, client>> PROVE Authors'
  BY <1>1 DEF Authors, Author, Worked, Settled, Session
<1>2. Tick \/ UNCHANGED postgresVars => UNCHANGED <<committed, draft, queue, client>>
  BY DEF Tick, postgresVars
<1> QED BY <1>1, <1>2, ClientKeepsAuthors, OperationsKeepAuthors, RetryKeepsAuthors, EndKeepsAuthors DEF Next, Step, Fault

LEMMA StartSound ==
  ASSUME Marked, NEW s, StartsSound(s.database)
  PROVE  Told(s, 0, Named(s.database.rows)) /\ Sound(s, s.database, 0, Named(s.database.rows), 0)
<1> DEFINE d == s.database
<1>1. d \in Databases /\ d.rows \in [Targets -> Rows \cup {Missing}] /\ d.receipts \in [Keys -> Receipts \cup {Missing}]
  BY DEF StartsSound, Databases
<1>2. ASSUME NEW p \in Named(d.rows) PROVE p \in Versions \X Values
  <2>1. PICK t \in Targets : d.rows[t] # Missing /\ d.rows[t].version # Missing /\ p = <<d.rows[t].version, d.rows[t].value>>
    BY DEF Named
  <2>2. d.rows[t] \in Rows
    BY <2>1, <1>1
  <2>3. d.rows[t].version \in Versions
    BY <2>1 DEF StartsSound
  <2> QED BY <2>1, <2>2, <2>3 DEF Rows
<1>3. Told(s, 0, Named(d.rows))
  <2>1. \A p \in Named(d.rows) : /\ p \in AnyVersion \X Values
                                 /\ \A k \in Nat : p[1] # Token(k)
                                 /\ \A t \in Targets : p[1] # OwnVersion(t)
    BY <1>2 DEF AnyVersion, Marked
  <2> QED BY <2>1 DEF Told, StartsSound
<1>4. Windowed(d, 0)
  <2>1. ASSUME NEW a \in d.applied PROVE Remembered(d, a, 0)
    <3>1. a.key \in Keys /\ a.created = 0 /\ d.receipts[a.key] # Missing
      BY DEF StartsSound
    <3>2. d.receipts[a.key] \in Receipts
      BY <3>1, <1>1
    <3>3. d.receipts[a.key].created \in Nat \/ d.receipts[a.key].created = Missing
      BY <3>2 DEF Receipts
    <3> QED BY <3>1, <3>3 DEF Remembered
  <2> QED BY <2>1 DEF Windowed, StartsSound
<1>5. Won(d, 0)
  <2>1. \A a \in d.applied : DOMAIN a.conditions = {}
    BY DEF StartsSound
  <2> QED BY <2>1 DEF Won
<1>6. Numbered(s, d, Named(d.rows)) /\ Backed(d)
  BY DEF Numbered, Backed, StartsSound
<1> QED BY <1>1, <1>3, <1>4, <1>5, <1>6 DEF Sound

LEMMA InitIInv ==
  ASSUME WellFormed, Init
  PROVE  \E s \in Scenarios : WellFormedIn(s) /\ IInv(s)
<1>1. PICK s \in Scenarios :
        /\ committed = s.database
        /\ draft = s.database
        /\ client = [c \in Clients |-> [work |-> s.work[c], wrapped |-> c \in s.wrapped,
                                        pc |-> IF s.work[c] = <<>> THEN "ended" ELSE "idle",
                                        attempt |-> 1, began |-> 0, at |-> 1, seen |-> Missing,
                                        answer |-> Answer(c, "none", <<>>)]]
        /\ named = Named(s.database.rows)
  BY DEF Init
<1>2. WellFormedIn(s) /\ MaxClock \in Nat
  BY DEF WellFormed, WellFormedIn, Marked
<1>3. sequence = 0 /\ clock = 0 /\ queue = <<>> /\ sent = FALSE
  BY DEF Init
<1>4. ASSUME NEW c \in Clients
      PROVE  /\ client[c] \in ClientStates /\ client[c].work = s.work[c] /\ client[c].wrapped = (c \in s.wrapped)
             /\ client[c].pc = IF s.work[c] = <<>> THEN "ended" ELSE "idle"
             /\ client[c].began = 0 /\ client[c].seen = Missing /\ client[c].answer.status = "none"
  <2>1. PICK answer \in Answerable : answer = Answer(c, "none", <<>>) /\ answer.status = "none"
    BY AnswerIs, ShortAnswers DEF Statuses
  <2>2. PICK pc \in {"idle", "ended"}, first \in Nat \ {0}, begin \in Nat :
          pc = (IF s.work[c] = <<>> THEN "ended" ELSE "idle") /\ first = 1 /\ begin = 0
    OBVIOUS
  <2>3. PICK work \in Seq(Operations), wrapped \in BOOLEAN : work = s.work[c] /\ wrapped = (c \in s.wrapped)
    <3>1. PICK work \in Seq(Operations) : work = s.work[c]
      BY <1>2 DEF WellFormedIn
    <3>2. PICK wrapped \in BOOLEAN : wrapped = (c \in s.wrapped)
      <4>1. CASE c \in s.wrapped
        <5>1. TRUE = (c \in s.wrapped)
          BY <4>1
        <5> QED BY <5>1
      <4>2. CASE c \notin s.wrapped
        <5>1. FALSE = (c \in s.wrapped)
          BY <4>2
        <5> QED BY <5>1
      <4> QED BY <4>1, <4>2
    <3> QED BY <3>1, <3>2
  <2>4. client[c] = [work |-> work, wrapped |-> wrapped, pc |-> pc, attempt |-> first, began |-> begin, at |-> first,
                     seen |-> Missing, answer |-> answer]
    BY <2>1, <2>2, <2>3, <1>1
  <2>5. [work |-> work, wrapped |-> wrapped, pc |-> pc, attempt |-> first, began |-> begin, at |-> first,
         seen |-> Missing, answer |-> answer] \in ClientStates
    BY DEF ClientStates
  <2> QED BY <2>1, <2>2, <2>3, <2>4, <2>5
<1>5. Typed(s)
  <2>1. client \in [Clients -> ClientStates]
    <3>1. client = [c \in Clients |-> client[c]]
      BY <1>1
    <3> QED BY <3>1, <1>4
  <2>2. sequence \in Nat /\ clock \in 0..MaxClock /\ sent \in BOOLEAN
    <3>1. sequence \in Nat /\ clock \in 0..MaxClock
      BY <1>2, <1>3
    <3>2. sent \in BOOLEAN
      BY <1>3
    <3> QED BY <3>1, <3>2
  <2>3. queue \in Seq(Clients \X (Nat \ {0}))
    BY <1>3
  <2>4. \A c \in Clients : client[c].began <= clock
    BY <1>3, <1>4
  <2>5. \A c \in Clients : client[c].work = s.work[c] /\ client[c].wrapped = (c \in s.wrapped)
    BY <1>4
  <2> QED BY <2>1, <2>2, <2>3, <2>4, <2>5 DEF Typed
<1>6. Data(s)
  <2>1. Told(s, 0, Named(s.database.rows)) /\ Sound(s, s.database, 0, Named(s.database.rows), 0)
    BY <1>2, StartSound DEF WellFormedIn
  <2> QED BY <2>1, <1>1, <1>3 DEF Data
<1>7. Queued
  <2>1. \A c \in Clients : client[c].pc # "committing"
    BY <1>4
  <2> QED BY <2>1, <1>1, <1>3 DEF Queued
<1>8. ASSUME NEW c \in Clients PROVE Asking(s, c) /\ Claims(c)
  BY <1>4 DEF Asking, InTransaction, Claims, ToldApplied
<1> QED BY <1>2, <1>5, <1>6, <1>7, <1>8 DEF IInv

LEMMA InitAuthors ==
  ASSUME WellFormed, Init
  PROVE  Authors
<1>1. PICK s \in Scenarios : committed = s.database /\ draft = s.database
  BY DEF Init
<1>2. \A a \in draft.applied : a.by \notin Clients \X Nat
  BY <1>1 DEF WellFormed, StartsSound
<1>3. \A c \in Clients : Session(c) = <<c, 1>>
  BY DEF Init, Session
<1>4. ASSUME NEW c \in Clients PROVE Author(c)
  BY <1>1, <1>2, <1>3 DEF Author
<1> QED BY <1>1, <1>4 DEF Authors

LEMMA AlwaysIInv ==
  ASSUME WellFormed
  PROVE  Spec => [](\E s \in Scenarios : WellFormedIn(s) /\ IInv(s) /\ Authors)
<1> DEFINE Inv == \E s \in Scenarios : WellFormedIn(s) /\ IInv(s) /\ Authors
<1>1. Init => Inv
  BY InitIInv, InitAuthors
<1>2. Inv /\ [Next]_postgresVars => Inv'
  BY StepIInv, StepAuthors
<1> HIDE DEF Inv
<1>3. Spec => []Inv
  BY <1>1, <1>2, PTL DEF Spec
<1> QED BY <1>3 DEF Inv

--------------------
(* State of a client, and who may have sent COMMIT (TypeOK), whatever
   clients, connections and the server do. *)
THEOREM PostgresTypes ==
  ASSUME WellFormed
  PROVE  Spec => []TypeOK
<1>1. ASSUME \E s \in Scenarios : WellFormedIn(s) /\ IInv(s) /\ Authors PROVE TypeOK
  BY <1>1 DEF IInv, Typed, Queued, TypeOK, ClientStates
<1> QED BY <1>1, AlwaysIInv, PTL

(* A version that anybody was given by getVersioned, by the versions that
   operations issue or by init's uuids stands for one value for ever, over
   rollbacks, savepoints, broken connections and sessions that the server
   ends (postgres-adapter.ts, nextval and backfillVersion). *)
THEOREM VersionsStandForOneValueInPostgres ==
  ASSUME WellFormed
  PROVE  Spec => []TokensStandForOneValue
<1>1. ASSUME \E s \in Scenarios : WellFormedIn(s) /\ IInv(s) /\ Authors PROVE TokensStandForOneValue
  BY <1>1 DEF IInv, Data, Told, TokensStandForOneValue
<1> QED BY <1>1, AlwaysIInv, PTL

(* A keyed request is not applied twice within the retention window,
   although clients lose COMMITs, make requests again while the session
   of the first still holds the lock, and prune receipts. *)
THEOREM OncePerWindowInPostgres ==
  ASSUME WellFormed
  PROVE  Spec => []AppliedOncePerWindow
<1>1. ASSUME \E s \in Scenarios : WellFormedIn(s) /\ IInv(s) /\ Authors PROVE AppliedOncePerWindow
  BY <1>1 DEF IInv, Data, Sound, Windowed, AppliedOncePerWindow
<1> QED BY <1>1, AlwaysIInv, PTL

(* Of the batches that change a target on the condition that it has one
   version, one takes effect at most: decideAtomic under the lock. *)
THEOREM OneWinnerInPostgres ==
  ASSUME WellFormed
  PROVE  Spec => []OneWinnerPerVersion
<1>1. ASSUME \E s \in Scenarios : WellFormedIn(s) /\ IInv(s) /\ Authors PROVE OneWinnerPerVersion
  BY <1>1 DEF IInv, Data, Sound, Won, OneWinnerPerVersion
<1> QED BY <1>1, AlwaysIInv, PTL

(* What mutateAtomically says of its outcome is so: of an attempt that
   failed before its COMMIT was sent, or conflicted, nothing is in force
   and nothing will be, although sessions outlive their clients; and what
   it applied or replayed is in force. *)
THEOREM PostgresAnswersAreTrue ==
  ASSUME WellFormed
  PROVE  Spec => []AnswersAreTrue
<1>1. ASSUME NEW s \in Scenarios, IInv(s), Authors, NEW c \in Clients, ~client[c].wrapped, client[c].pc = "ended"
      PROVE  /\ client[c].answer.status \in {"failed", "conflict", "idempotency-conflict"} =>
                  /\ ~\E a \in committed.applied : a.by = Session(c)
                  /\ ~(sent /\ queue # <<>> /\ Head(queue) = Session(c))
             /\ client[c].answer.status \in {"applied", "replayed"} => Claimed(committed, c)
  <2>1. queue # <<>> => Head(queue) = queue[1]
    BY <1>1, StateOf
  <2> QED BY <2>1, <1>1 DEF IInv, Queued, Lost, Claims, ToldApplied, Authors, Author, Settled
<1>2. ASSUME \E s \in Scenarios : WellFormedIn(s) /\ IInv(s) /\ Authors PROVE AnswersAreTrue
  BY <1>1, <1>2 DEF AnswersAreTrue, Claimed
<1> QED BY <1>2, AlwaysIInv, PTL
===============================================================================
