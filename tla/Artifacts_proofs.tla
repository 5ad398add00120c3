--------------------------- MODULE Artifacts_proofs ---------------------------
(***************************************************************************)
(* Theorems of Artifacts, for any calls, requests, stores and bounds: type *)
(* correctness; that an object's lease row, read and conditionally written *)
(* by calls that stall in between, implements ObjectLeases; that the calls *)
(* of one idempotency key end with one artifact; that every record has its *)
(* bytes; and that a failed write leaves nothing.                          *)
(*                                                                         *)
(* What makes the second hold is Decided: what a call concluded from a row *)
(* it read is true of the row as long as that read is current, and it      *)
(* writes only then. HeldInMode and Single say whose leases a row has, so  *)
(* that what a call renews, releases or commits under is one lease.        *)
(*                                                                         *)
(* The last two need to know what calls ask for (OwnObjects, OwnIds). For  *)
(* the records' bytes, Lone and Fits say what each lease protects: a       *)
(* writer's keeps the bytes it digested, a deleter's keeps its object      *)
(* unreferenced, and an object that may go without an exclusive lease has  *)
(* no user but the call that drops it.                                     *)
(***************************************************************************)
EXTENDS Artifacts, TLAPS

(* A write or import has its bytes, key, result and source where it uses
   them, and only it gets there; a repair's renewals are in order. *)
WritersPlaces == {"head", "beside", "adopt", "get", "put", "putBeside", "commit", "receipt",
                  "committing", "recheck", "lineage", "link", "undo", "drop"}

PlacedAt(c, p) ==
  /\ p \in WritersPlaces => Mode(c) = "shared-writer"
  /\ p \in {"held", "compare"} => Mode(c) = "exclusive-delete"
  /\ p \in {"commit", "receipt", "committing", "recheck"} => call[c].bytes \in Bytes
  /\ p \in {"renew", "renewing"} /\ Mode(c) = "shared-writer" => call[c].bytes \in Bytes
  /\ p = "receipt" => Asked(c).key # None
  /\ p \in {"lineage", "link"} => call[c].result \in Artifacts
  /\ p = "link" => Asked(c).source # None
  /\ p = "held" => call[c].round \in {0, 2}
  /\ p = "compare" => call[c].round \in {1, 2}

Placed(c) == call[c].now <= clock /\ PlacedAt(c, call[c].pc)

(* What a call concluded from its read of the row, while it is current. *)
DecidedAt(c, p) ==
  /\ p \in {"references", "claim"} => ~Refused(c)
  /\ p \in {"renewing", "receipt", "committing"} => HasLive(c)

Decided(c) == c \in fresh => DecidedAt(c, call[c].pc)

(* The call has not asked for its lease, or was not granted it yet. *)
EarlyAt(c, p) ==
  \/ p \in {"prior", "replay", "find", "unrecord", "list", "audit", "referenced",
            "acquire", "references", "claim"}
  \/ p = "unlink" /\ Kind(c) = "delete"

Early(c) == EarlyAt(c, call[c].pc)

NoneYet(c) == Early(c) => Entries(c) = {} /\ call[c].round = 0

(* A row has at most one lease of a call, of the call's mode. *)
Single(o) == \A l, m \in rows[o].leases : l.holder = m.holder => l = m
HeldInMode(o) == \A l \in rows[o].leases : l.mode = Mode(l.holder)

IInv ==
  /\ TypeOK
  /\ \A c \in Calls : Placed(c) /\ Decided(c) /\ NoneYet(c)
  /\ \A o \in Objects : Single(o) /\ HeldInMode(o)

(* The receipt of a key names its artifact: every record that has the key,
   and what every call that asked with the key came to, is that one. *)
Names(k, a) == receipts[k] # None /\ receipts[k].artifact = a

Keyed ==
  /\ \A a \in Artifacts : records[a] # None /\ records[a].key # None => Names(records[a].key, a)
  /\ \A c \in Calls : call[c].result # None /\ Asked(c).key # None => Names(Asked(c).key, call[c].result)

--------------------
(* Most actions of a call write no lease row, and move no other call. *)
Still(c) ==
  /\ UNCHANGED <<rows, clock>>
  /\ fresh' \subseteq fresh \cup {c}
  /\ \A d \in Calls \ {c} : call'[d] = call[d]
  /\ call'[c].request = call[c].request
  /\ Placed(c)' /\ Decided(c)'
  /\ Early(c)' => Early(c) /\ call'[c].round = call[c].round

(* a is what the call's key came to, as a record or the receipt says. *)
Answers(c, a) ==
  /\ Asked(c).key # None
  /\ (records[a] # None /\ records[a].key = Asked(c).key) \/ Names(Asked(c).key, a)

Learns(c) == call'[c].result = call[c].result \/ \E a \in Artifacts : call'[c].result = a /\ Answers(c, a)

(* Records go, and receipts stay. *)
Forgets == UNCHANGED receipts /\ \A a \in Artifacts : records'[a] \in {records[a], None}

Quiet(c) == Still(c) /\ call'[c].made = call[c].made /\ Learns(c) /\ Forgets

LEMMA StillIInv ==
  ASSUME IInv, TypeOK', NEW c \in Calls, Still(c)
  PROVE  IInv'
<1>1. \A d \in Calls : call'[d].request = call[d].request
  BY DEF Still
<1>2. \A d \in Calls : /\ Object(d)' = Object(d) /\ Kind(d)' = Kind(d) /\ Mode(d)' = Mode(d)
                       /\ Entries(d)' = Entries(d)
  BY <1>1 DEF Still, Object, Kind, Mode, Asked, Entries
<1>3. ASSUME NEW d \in Calls \ {c} PROVE Placed(d)' /\ Decided(d)' /\ NoneYet(d)'
  <2>1. call'[d] = call[d] /\ rows' = rows /\ clock' = clock
    BY DEF Still
  <2>2. d \in fresh' => d \in fresh
    BY DEF Still
  <2>3. Placed(d)'
    BY <2>1, <1>2 DEF IInv, Placed, PlacedAt, Asked
  <2>4. Decided(d)'
    BY <2>1, <2>2, <1>2 DEF IInv, Decided, DecidedAt, Refused, HasLive, Live
  <2>5. NoneYet(d)'
    BY <2>1, <1>2 DEF IInv, NoneYet, Early, EarlyAt
  <2> QED BY <2>3, <2>4, <2>5
<1>4. Placed(c)' /\ Decided(c)' /\ NoneYet(c)'
  BY <1>2 DEF Still, IInv, NoneYet
<1>5. ASSUME NEW o \in Objects PROVE Single(o)' /\ HeldInMode(o)'
  <2>1. \A l \in rows[o].leases : l.holder \in Calls
    BY DEF IInv, TypeOK, Leases
  <2> QED BY <2>1, <1>2 DEF Still, IInv, Single, HeldInMode
<1> QED BY <1>3, <1>4, <1>5 DEF IInv

LEMMA QuietKeeps ==
  ASSUME NEW c \in Calls, Quiet(c)
  PROVE  \A o \in Objects : UNCHANGED ReferenceLeases(o)!vars
<1>1. \A d \in Calls : Object(d)' = Object(d) /\ call'[d].made = call[d].made
  BY DEF Quiet, Still, Object, Asked
<1> QED BY <1>1 DEF Quiet, Still, ReferenceLeases!vars

--------------------
(* A move changes one call's state, and of that neither the request nor
   whether it made a record. *)
Alone(c) ==
  /\ call' \in [Calls -> CallStates]
  /\ call' = [call EXCEPT ![c] = call'[c]]
  /\ call'[c].request = call[c].request /\ call'[c].made = call[c].made

Moved(c, p, now, round, bytes, result) ==
  /\ Alone(c)
  /\ call'[c].pc = p /\ call'[c].now = now /\ call'[c].round = round
  /\ call'[c].bytes = bytes /\ call'[c].result = result

LEMMA Numbers == LeaseTtlMs \in Nat \ {0} /\ AcquireAttempts \in Nat \ {0} /\ MaxClock \in Nat
BY ArtifactsAssumption DEF ArtifactsAssumption

(* What each of the call's moves changes. *)
LEMMA MoveMoves ==
  ASSUME TypeOK, NEW c \in Calls, NEW s \in CallStates,
         s.request = call[c].request, s.made = call[c].made, Move(c, s)
  PROVE  Moved(c, s.pc, s.now, s.round, s.bytes, s.result)
BY DEF TypeOK, Move, Alone, Moved

LEMMA GotoMoves ==
  ASSUME TypeOK, NEW c \in Calls, NEW p \in Places, Goto(c, p)
  PROVE  Moved(c, p, call[c].now, call[c].round, call[c].bytes, call[c].result)
<1> DEFINE s == [call[c] EXCEPT !.pc = p]
<1>1. call[c] \in CallStates /\ clock \in 0..MaxClock
  BY DEF TypeOK
<1>2. s \in CallStates
  BY <1>1 DEF CallStates
<1>3. /\ s.request = call[c].request /\ s.made = call[c].made
      /\ s.pc = p /\ s.now = call[c].now /\ s.round = call[c].round
      /\ s.bytes = call[c].bytes /\ s.result = call[c].result
  BY <1>1 DEF CallStates
<1>4. Move(c, s)
  BY DEF Goto
<1> HIDE DEF s
<1> QED BY <1>2, <1>3, <1>4, MoveMoves

LEMMA GotoNowMoves ==
  ASSUME TypeOK, NEW c \in Calls, NEW p \in Places, GotoNow(c, p)
  PROVE  Moved(c, p, clock, call[c].round, call[c].bytes, call[c].result)
<1> DEFINE s == [call[c] EXCEPT !.pc = p, !.now = clock]
<1>1. call[c] \in CallStates /\ clock \in 0..MaxClock
  BY DEF TypeOK
<1>2. s \in CallStates
  BY <1>1 DEF CallStates
<1>3. /\ s.request = call[c].request /\ s.made = call[c].made
      /\ s.pc = p /\ s.now = clock /\ s.round = call[c].round
      /\ s.bytes = call[c].bytes /\ s.result = call[c].result
  BY <1>1 DEF CallStates
<1>4. Move(c, s)
  BY DEF GotoNow
<1> HIDE DEF s
<1> QED BY <1>2, <1>3, <1>4, MoveMoves

LEMMA GotoWithMoves ==
  ASSUME TypeOK, NEW c \in Calls, NEW p \in Places, NEW out \in Outcomes, GotoWith(c, p, out)
  PROVE  Moved(c, p, call[c].now, call[c].round, call[c].bytes, call[c].result)
<1> DEFINE s == [call[c] EXCEPT !.pc = p, !.outcome = out]
<1>1. call[c] \in CallStates /\ clock \in 0..MaxClock
  BY DEF TypeOK
<1>2. s \in CallStates
  BY <1>1 DEF CallStates
<1>3. /\ s.request = call[c].request /\ s.made = call[c].made
      /\ s.pc = p /\ s.now = call[c].now /\ s.round = call[c].round
      /\ s.bytes = call[c].bytes /\ s.result = call[c].result
  BY <1>1 DEF CallStates
<1>4. Move(c, s)
  BY DEF GotoWith
<1> HIDE DEF s
<1> QED BY <1>2, <1>3, <1>4, MoveMoves

LEMMA AttemptMoves ==
  ASSUME TypeOK, NEW c \in Calls, NEW p \in Places, call[c].attempts < AcquireAttempts, Attempt(c,
         p)
  PROVE  Moved(c, p, call[c].now, call[c].round, call[c].bytes, call[c].result)
<1> DEFINE s == [call[c] EXCEPT !.pc = p, !.attempts = call[c].attempts + 1]
<1>1. call[c] \in CallStates /\ clock \in 0..MaxClock
  BY DEF TypeOK
<1>2. call[c].attempts + 1 \in 0..AcquireAttempts
  BY <1>1, ArtifactsAssumption DEF ArtifactsAssumption, CallStates
<1>3. s \in CallStates
  BY <1>1, <1>2 DEF CallStates
<1>4. /\ s.request = call[c].request /\ s.made = call[c].made
      /\ s.pc = p /\ s.now = call[c].now /\ s.round = call[c].round
      /\ s.bytes = call[c].bytes /\ s.result = call[c].result
  BY <1>1 DEF CallStates
<1>5. Move(c, s)
  BY DEF Attempt
<1> HIDE DEF s
<1> QED BY <1>3, <1>4, <1>5, MoveMoves

LEMMA RememberMoves ==
  ASSUME TypeOK, NEW c \in Calls, NEW a \in Artifacts, records[a] # None, Remember(c, a)
  PROVE  Moved(c, "replay", call[c].now, call[c].round, records[a].bytes, a)
<1> DEFINE s == [call[c] EXCEPT !.pc = "replay", !.result = a, !.bytes = records[a].bytes]
<1>1. call[c] \in CallStates /\ clock \in 0..MaxClock
  BY DEF TypeOK
<1>2. s \in CallStates
  BY <1>1 DEF CallStates, Places, TypeOK, Records
<1>3. /\ s.request = call[c].request /\ s.made = call[c].made
      /\ s.pc = "replay" /\ s.now = call[c].now /\ s.round = call[c].round
      /\ s.bytes = records[a].bytes /\ s.result = a
  BY <1>1 DEF CallStates
<1>4. Move(c, s)
  BY DEF Remember
<1> HIDE DEF s
<1> QED BY <1>2, <1>3, <1>4, MoveMoves

LEMMA DigestedMoves ==
  ASSUME TypeOK, NEW c \in Calls, NEW b \in Bytes, Digested(c, b)
  PROVE  Moved(c, "renew", clock, call[c].round, b, call[c].result)
<1> DEFINE s == [call[c] EXCEPT !.pc = "renew", !.now = clock, !.bytes = b]
<1>1. call[c] \in CallStates /\ clock \in 0..MaxClock
  BY DEF TypeOK
<1>2. s \in CallStates
  BY <1>1 DEF CallStates, Places
<1>3. /\ s.request = call[c].request /\ s.made = call[c].made
      /\ s.pc = "renew" /\ s.now = clock /\ s.round = call[c].round
      /\ s.bytes = b /\ s.result = call[c].result
  BY <1>1 DEF CallStates
<1>4. Move(c, s)
  BY DEF Digested
<1> HIDE DEF s
<1> QED BY <1>2, <1>3, <1>4, MoveMoves

LEMMA ReplayedMoves ==
  ASSUME TypeOK, NEW c \in Calls, NEW p \in Places, NEW a \in Artifacts, Replayed(c, p, a)
  PROVE  Moved(c, p, call[c].now, call[c].round, call[c].bytes, a)
<1> DEFINE s == [call[c] EXCEPT !.pc = p, !.result = a, !.outcome = "replayed"]
<1>1. call[c] \in CallStates /\ clock \in 0..MaxClock
  BY DEF TypeOK
<1>2. "replayed" \in Outcomes
  BY DEF Outcomes
<1>3. s \in CallStates
  BY <1>1, <1>2 DEF CallStates
<1>4. /\ s.request = call[c].request /\ s.made = call[c].made
      /\ s.pc = p /\ s.now = call[c].now /\ s.round = call[c].round
      /\ s.bytes = call[c].bytes /\ s.result = a
  BY <1>1 DEF CallStates
<1>5. Move(c, s)
  BY DEF Replayed
<1> HIDE DEF s
<1> QED BY <1>3, <1>4, <1>5, MoveMoves

LEMMA FoundMoves ==
  ASSUME TypeOK, NEW c \in Calls, NEW b \in Bytes, Found(c, b)
  PROVE  Moved(c, "referenced", call[c].now, call[c].round, b, call[c].result)
<1> DEFINE s == [call[c] EXCEPT !.pc = "referenced", !.bytes = b]
<1>1. call[c] \in CallStates /\ clock \in 0..MaxClock
  BY DEF TypeOK
<1>2. s \in CallStates
  BY <1>1 DEF CallStates, Places
<1>3. /\ s.request = call[c].request /\ s.made = call[c].made
      /\ s.pc = "referenced" /\ s.now = call[c].now /\ s.round = call[c].round
      /\ s.bytes = b /\ s.result = call[c].result
  BY <1>1 DEF CallStates
<1>4. Move(c, s)
  BY DEF Found
<1> HIDE DEF s
<1> QED BY <1>2, <1>3, <1>4, MoveMoves

LEMMA RenewNextMoves ==
  ASSUME TypeOK, NEW c \in Calls, call[c].round < 3, RenewNext(c)
  PROVE  Moved(c, "renew", clock, call[c].round + 1, call[c].bytes, call[c].result)
<1> DEFINE s == [call[c] EXCEPT !.pc = "renew", !.now = clock, !.round = call[c].round + 1]
<1>1. call[c] \in CallStates /\ clock \in 0..MaxClock
  BY DEF TypeOK
<1>2. call[c].round + 1 \in 0..3 /\ "renew" \in Places
  BY <1>1 DEF CallStates, Places
<1>3. s \in CallStates
  BY <1>1, <1>2 DEF CallStates
<1>4. /\ s.request = call[c].request /\ s.made = call[c].made
      /\ s.pc = "renew" /\ s.now = clock /\ s.round = call[c].round + 1
      /\ s.bytes = call[c].bytes /\ s.result = call[c].result
  BY <1>1 DEF CallStates
<1>5. Move(c, s)
  BY DEF RenewNext
<1> HIDE DEF s
<1> QED BY <1>3, <1>4, <1>5, MoveMoves

--------------------
(* A move from an action that writes no row: the call is where it may be,
   and what it concludes there is so. *)
Arrived(c) ==
  /\ Alone(c) /\ Placed(c)' /\ Decided(c)' /\ Learns(c)
  /\ Early(c)' => Early(c) /\ call'[c].round = call[c].round

(* What moves change of a call's state decides whether it has arrived. *)
LEMMA Arrives ==
  ASSUME TypeOK, NEW c \in Calls, Placed(c), UNCHANGED <<rows, clock>>, NEW p, Alone(c),
         call'[c].pc = p,
         PlacedAt(c, p)', call'[c].now \in {call[c].now, clock}, Learns(c),
         EarlyAt(c, p) => Early(c) /\ call'[c].round = call[c].round,
         \/ p \notin {"references", "claim", "renewing", "receipt", "committing"}
         \/ call'[c].now = call[c].now /\ (c \in fresh' => DecidedAt(c, p))
  PROVE  Arrived(c)
<1>1. call'[c].pc = p /\ call'[c].now <= clock'
  BY DEF Alone, Placed, TypeOK, CallStates
<1>2. Mode(c)' = Mode(c) /\ Kind(c)' = Kind(c) /\ Object(c)' = Object(c)
  BY DEF Alone, Mode, Kind, Object, Asked
<1>3. Placed(c)'
  BY <1>1 DEF Placed
<1>4. Decided(c)'
  BY <1>1, <1>2 DEF Decided, DecidedAt, Refused, HasLive, Live, Entries
<1>5. Early(c)' => Early(c) /\ call'[c].round = call[c].round
  BY <1>1, <1>2 DEF Early, EarlyAt
<1> QED BY <1>1, <1>3, <1>4, <1>5 DEF Arrived

LEMMA GotoArrives ==
  ASSUME TypeOK, NEW c \in Calls, Placed(c), UNCHANGED <<rows, clock>>, NEW p \in Places, Goto(c,
         p),
         PlacedAt(c, p), c \in fresh' => DecidedAt(c, p), EarlyAt(c, p) => Early(c)
  PROVE  Arrived(c)
<1>1. PlacedAt(c, p)'
  BY GotoMoves DEF Moved, Alone, PlacedAt, Mode, Kind, Asked
<1> QED BY <1>1, GotoMoves, Arrives DEF Moved, Learns

LEMMA GotoNowArrives ==
  ASSUME TypeOK, NEW c \in Calls, Placed(c), Early(c), UNCHANGED <<rows, clock>>, GotoNow(c,
         "acquire")
  PROVE  Arrived(c)
<1>1. Alone(c) /\ Learns(c) /\ call'[c].pc = "acquire" /\ call'[c].now = clock /\ call'[c].round = call[c].round
  BY GotoNowMoves DEF Moved, Learns, Places
<1>2. PlacedAt(c, "acquire")'
  BY DEF PlacedAt, WritersPlaces
<1> QED BY <1>1, <1>2, Arrives

LEMMA EndArrives ==
  ASSUME TypeOK, NEW c \in Calls, Placed(c), UNCHANGED <<rows, clock>>, NEW p \in {"ended",
         "release", "scrap"},
         NEW out \in Outcomes, GotoWith(c, p, out)
  PROVE  Arrived(c)
<1>1. Alone(c) /\ Learns(c) /\ call'[c].pc = p /\ call'[c].now = call[c].now
  BY GotoWithMoves DEF Moved, Learns, Places
<1>2. PlacedAt(c, p)' /\ ~EarlyAt(c, p)
  BY DEF PlacedAt, EarlyAt, WritersPlaces
<1> QED BY <1>1, <1>2, Arrives

LEMMA FailArrives ==
  ASSUME TypeOK, NEW c \in Calls, Placed(c), UNCHANGED <<rows, clock>>, Mode(c) = "shared-writer",
         NEW out \in Outcomes, Fail(c, out)
  PROVE  Arrived(c)
<1>1. Alone(c) /\ Learns(c) /\ call'[c].pc = "undo" /\ call'[c].now = call[c].now
  BY GotoWithMoves DEF Moved, Learns, Places, Fail
<1>2. PlacedAt(c, "undo")' /\ ~EarlyAt(c, "undo")
  BY <1>1 DEF PlacedAt, EarlyAt, WritersPlaces, Alone, Mode, Kind, Asked
<1> QED BY <1>1, <1>2, Arrives

LEMMA AttemptArrives ==
  ASSUME TypeOK, NEW c \in Calls, Placed(c), Early(c), UNCHANGED <<rows, clock>>,
         NEW p \in {"references", "claim"},
         call[c].attempts < AcquireAttempts, ~Refused(c), Attempt(c, p)
  PROVE  Arrived(c)
<1>1. Alone(c) /\ Learns(c) /\ call'[c].pc = p /\ call'[c].now = call[c].now /\ call'[c].round = call[c].round
  BY AttemptMoves DEF Moved, Learns, Places
<1>2. PlacedAt(c, p)' /\ DecidedAt(c, p)
  BY DEF PlacedAt, DecidedAt, WritersPlaces
<1> QED BY <1>1, <1>2, Arrives

LEMMA RememberArrives ==
  ASSUME TypeOK, NEW c \in Calls, Placed(c), Early(c), UNCHANGED <<rows, clock>>,
         NEW a \in Artifacts, records[a] # None, Answers(c, a), Remember(c, a)
  PROVE  Arrived(c)
<1>1. Alone(c) /\ Learns(c) /\ call'[c].pc = "replay" /\ call'[c].now = call[c].now
   /\ call'[c].round = call[c].round
  BY RememberMoves DEF Moved, Learns
<1>2. PlacedAt(c, "replay")'
  BY DEF PlacedAt, WritersPlaces
<1> QED BY <1>1, <1>2, Arrives

LEMMA DigestedArrives ==
  ASSUME TypeOK, NEW c \in Calls, Placed(c), UNCHANGED <<rows, clock>>, NEW b \in Bytes,
         Digested(c, b)
  PROVE  Arrived(c)
<1>1. Alone(c) /\ Learns(c) /\ call'[c].pc = "renew" /\ call'[c].now = clock /\ call'[c].bytes \in Bytes
  BY DigestedMoves DEF Moved, Learns
<1>2. PlacedAt(c, "renew")' /\ ~EarlyAt(c, "renew")
  BY <1>1 DEF PlacedAt, EarlyAt, WritersPlaces
<1> QED BY <1>1, <1>2, Arrives

LEMMA ReplayedArrives ==
  ASSUME TypeOK, NEW c \in Calls, Placed(c), UNCHANGED <<rows, clock>>, Mode(c) = "shared-writer",
         NEW p \in {"release", "drop"}, NEW a \in Artifacts, Answers(c, a),
         Replayed(c, p, a)
  PROVE  Arrived(c)
<1>1. Alone(c) /\ Learns(c) /\ call'[c].pc = p /\ call'[c].now = call[c].now
  BY ReplayedMoves DEF Moved, Places, Learns
<1>2. PlacedAt(c, p)' /\ ~EarlyAt(c, p)
  BY <1>1 DEF PlacedAt, EarlyAt, WritersPlaces, Alone, Mode, Kind, Asked
<1> QED BY <1>1, <1>2, Arrives

LEMMA FoundArrives ==
  ASSUME TypeOK, NEW c \in Calls, Placed(c), Early(c), UNCHANGED <<rows, clock>>, NEW b \in Bytes,
         Found(c, b)
  PROVE  Arrived(c)
<1>1. Alone(c) /\ Learns(c) /\ call'[c].pc = "referenced" /\ call'[c].now = call[c].now
   /\ call'[c].round = call[c].round
  BY FoundMoves DEF Moved, Learns
<1>2. PlacedAt(c, "referenced")'
  BY DEF PlacedAt, WritersPlaces
<1> QED BY <1>1, <1>2, Arrives

LEMMA RenewNextArrives ==
  ASSUME TypeOK, NEW c \in Calls, Placed(c), UNCHANGED <<rows, clock>>,
         Mode(c) = "exclusive-delete",
         call[c].round \in {0, 1, 2}, RenewNext(c)
  PROVE  Arrived(c)
<1>1. Alone(c) /\ Learns(c) /\ call'[c].pc = "renew" /\ call'[c].now = clock
  BY RenewNextMoves DEF Moved, Learns
<1>2. PlacedAt(c, "renew")' /\ ~EarlyAt(c, "renew")
  BY <1>1 DEF PlacedAt, EarlyAt, WritersPlaces, Alone, Mode, Kind, Asked
<1> QED BY <1>1, <1>2, Arrives

LEMMA LeaseLostArrives ==
  ASSUME TypeOK, NEW c \in Calls, Placed(c), UNCHANGED <<rows, clock>>, LeaseLost(c)
  PROVE  Arrived(c)
<1>1. {"failed", "orphaned", "conflict", "unreleased", "deleted"} \subseteq Outcomes
  BY DEF Outcomes
<1> QED BY <1>1, EndArrives, FailArrives
   DEF LeaseLost, Leave, Mode, Kind, Asked, TypeOK, CallStates, Request, Kinds

LEMMA UnavailableArrives ==
  ASSUME TypeOK, NEW c \in Calls, Placed(c), UNCHANGED <<rows, clock>>, Unavailable(c)
  PROVE  Arrived(c)
<1>1. {"failed", "orphaned", "conflict", "unreleased", "deleted"} \subseteq Outcomes
  BY DEF Outcomes
<1> QED BY <1>1, EndArrives DEF Unavailable, End

LEMMA NotReleasedArrives ==
  ASSUME TypeOK, NEW c \in Calls, Placed(c), UNCHANGED <<rows, clock>>, NotReleased(c)
  PROVE  Arrived(c)
<1>1. {"failed", "orphaned", "conflict", "unreleased", "deleted"} \subseteq Outcomes
  BY DEF Outcomes
<1> QED BY <1>1, EndArrives DEF NotReleased, End, CallStates, TypeOK

LEMMA StillReferencedArrives ==
  ASSUME TypeOK, NEW c \in Calls, Placed(c), UNCHANGED <<rows, clock>>, NEW p \in {"ended",
         "release"}, StillReferenced(c, p)
  PROVE  Arrived(c)
<1>1. {"failed", "orphaned", "conflict", "unreleased", "deleted"} \subseteq Outcomes
  BY DEF Outcomes
<1> QED BY <1>1, EndArrives DEF StillReferenced

--------------------
(* The actions that write no row, each a step of its own call. *)
StoresTyped ==
  /\ objects \in [Objects -> Bytes \cup {None}]
  /\ records \in [Artifacts -> Records \cup {None}]
  /\ edges \subseteq [source : Artifacts, result : Artifacts]
  /\ receipts \in [Keys -> Receipts \cup {None}]

LEMMA CallFacts ==
  ASSUME IInv, NEW c \in Calls
  PROVE  /\ TypeOK /\ StoresTyped /\ Placed(c) /\ Decided(c)
         /\ Object(c) \in Objects /\ objects[Object(c)] \in Bytes \cup {None}
         /\ Asked(c).artifact \in Artifacts /\ Asked(c).bytes \in Bytes
         /\ Asked(c).key \in Keys \cup {None} /\ Asked(c).source \in Artifacts \cup {None}
         /\ Mode(c) = "shared-writer" => Kind(c) # "delete"
         /\ call[c].attempts \in 0..AcquireAttempts
BY DEF IInv, TypeOK, StoresTyped, CallStates, Request, Asked, Object, Kind, Mode

(* Such a move keeps the invariant's parts that it can disturb. *)
LEMMA ArrivesQuietly ==
  ASSUME IInv, NEW c \in Calls, Arrived(c), StoresTyped' /\ Forgets, UNCHANGED <<rows, clock>>,
         fresh' \subseteq fresh \cup {c}
  PROVE  TypeOK' /\ Quiet(c)
<1>1. TypeOK'
  BY DEF IInv, TypeOK, StoresTyped, Arrived, Alone
<1> QED BY <1>1 DEF IInv, Quiet, Still, Arrived, Alone, TypeOK

LEMMA AcquireQuiet == ASSUME IInv, NEW c \in Calls, Acquire(c) PROVE TypeOK' /\ Quiet(c)
<1>1. UNCHANGED <<rows, clock>> /\ fresh' \subseteq fresh \cup {c}
  BY DEF Acquire, store, Read
<1>2. Arrived(c)
  BY <1>1, CallFacts, UnavailableArrives, AttemptArrives, Numbers
     DEF Placed, Acquire, At, OutOfAttempts, Early, EarlyAt
<1>3. StoresTyped' /\ Forgets
  BY CallFacts DEF Forgets, StoresTyped, Acquire, store
<1> QED BY <1>1, <1>2, <1>3, ArrivesQuietly

LEMMA ReferencesQuiet == ASSUME IInv, NEW c \in Calls, References(c) PROVE TypeOK' /\ Quiet(c)
<1>1. UNCHANGED <<rows, clock>> /\ fresh' \subseteq fresh \cup {c}
  BY DEF References, store
<1>2. Arrived(c)
  BY <1>1, CallFacts, StillReferencedArrives, GotoArrives
     DEF Placed, References, At, Places, PlacedAt, DecidedAt, WritersPlaces, Early, EarlyAt, Decided
<1>3. StoresTyped' /\ Forgets
  BY CallFacts DEF Forgets, StoresTyped, References, store
<1> QED BY <1>1, <1>2, <1>3, ArrivesQuietly

LEMMA RenewQuiet == ASSUME IInv, NEW c \in Calls, Renew(c) PROVE TypeOK' /\ Quiet(c)
<1>1. UNCHANGED <<rows, clock>> /\ fresh' \subseteq fresh \cup {c}
  BY DEF Renew, store, Read
<1>2. Arrived(c)
  BY <1>1, CallFacts, GotoArrives, LeaseLostArrives
     DEF Placed, Renew, At, Places, PlacedAt, DecidedAt, WritersPlaces, Early, EarlyAt
<1>3. StoresTyped' /\ Forgets
  BY CallFacts DEF Forgets, StoresTyped, Renew, store
<1> QED BY <1>1, <1>2, <1>3, ArrivesQuietly

LEMMA ReleaseQuiet == ASSUME IInv, NEW c \in Calls, Release(c) PROVE TypeOK' /\ Quiet(c)
<1>1. UNCHANGED <<rows, clock>> /\ fresh' \subseteq fresh \cup {c}
  BY DEF Release, store, Read
<1>2. Arrived(c)
  BY <1>1, CallFacts, GotoArrives, NotReleasedArrives
     DEF Placed, Release, At, Places, PlacedAt, DecidedAt, WritersPlaces, Early, EarlyAt
<1>3. StoresTyped' /\ Forgets
  BY CallFacts DEF Forgets, StoresTyped, Release, store
<1> QED BY <1>1, <1>2, <1>3, ArrivesQuietly

LEMMA PriorQuiet == ASSUME IInv, NEW c \in Calls, Prior(c) PROVE TypeOK' /\ Quiet(c)
<1>1. UNCHANGED <<rows, clock>> /\ fresh' \subseteq fresh \cup {c}
  BY DEF Prior, store
<1>2. Arrived(c)
  BY <1>1, CallFacts, GotoNowArrives, RememberArrives, EndArrives
     DEF Placed, Prior, At, End, Outcomes, Early, EarlyAt, Answers
<1>3. StoresTyped' /\ Forgets
  BY CallFacts DEF Forgets, StoresTyped, Prior, store
<1> QED BY <1>1, <1>2, <1>3, ArrivesQuietly

LEMMA ReplayQuiet == ASSUME IInv, NEW c \in Calls, Replay(c) PROVE TypeOK' /\ Quiet(c)
<1>1. UNCHANGED <<rows, clock>> /\ fresh' \subseteq fresh \cup {c}
  BY DEF Replay, store
<1>2. Arrived(c)
  BY <1>1, CallFacts, EndArrives DEF Placed, Replay, At, End, Outcomes
<1>3. StoresTyped' /\ Forgets
  BY CallFacts DEF Forgets, StoresTyped, Replay, store
<1> QED BY <1>1, <1>2, <1>3, ArrivesQuietly

LEMMA HeadQuiet == ASSUME IInv, NEW c \in Calls, Head(c) PROVE TypeOK' /\ Quiet(c)
<1>1. UNCHANGED <<rows, clock>> /\ fresh' \subseteq fresh \cup {c}
  BY DEF Head, store
<1>2. Arrived(c)
  BY <1>1, CallFacts, GotoArrives
     DEF Placed, Head, At, Places, PlacedAt, DecidedAt, WritersPlaces, Early, EarlyAt
<1>3. StoresTyped' /\ Forgets
  BY CallFacts DEF Forgets, StoresTyped, Head, store
<1> QED BY <1>1, <1>2, <1>3, ArrivesQuietly

LEMMA BesideQuiet == ASSUME IInv, NEW c \in Calls, Beside(c) PROVE TypeOK' /\ Quiet(c)
<1>1. UNCHANGED <<rows, clock>> /\ fresh' \subseteq fresh \cup {c}
  BY DEF Beside, store
<1>2. Arrived(c)
  BY <1>1, CallFacts, GotoArrives
     DEF Placed, Beside, At, Places, PlacedAt, DecidedAt, WritersPlaces, Early, EarlyAt
<1>3. StoresTyped' /\ Forgets
  BY CallFacts DEF Forgets, StoresTyped, Beside, store
<1> QED BY <1>1, <1>2, <1>3, ArrivesQuietly

LEMMA AdoptQuiet == ASSUME IInv, NEW c \in Calls, Adopt(c) PROVE TypeOK' /\ Quiet(c)
<1>1. UNCHANGED <<rows, clock>> /\ fresh' \subseteq fresh \cup {c}
  BY DEF Adopt, store
<1>2. Arrived(c)
  BY <1>1, CallFacts, DigestedArrives, EndArrives DEF Placed, Adopt, At, Leave, Outcomes
<1>3. StoresTyped' /\ Forgets
  BY CallFacts DEF Forgets, StoresTyped, Adopt, store
<1> QED BY <1>1, <1>2, <1>3, ArrivesQuietly

LEMMA GetQuiet == ASSUME IInv, NEW c \in Calls, Get(c) PROVE TypeOK' /\ Quiet(c)
<1>1. UNCHANGED <<rows, clock>> /\ fresh' \subseteq fresh \cup {c}
  BY DEF Get, store
<1>2. Arrived(c)
  BY <1>1, CallFacts, DigestedArrives, EndArrives DEF Placed, Get, At, Leave, Outcomes
<1>3. StoresTyped' /\ Forgets
  BY CallFacts DEF Forgets, StoresTyped, Get, store
<1> QED BY <1>1, <1>2, <1>3, ArrivesQuietly

LEMMA PutQuiet == ASSUME IInv, NEW c \in Calls, Put(c) PROVE TypeOK' /\ Quiet(c)
<1>1. UNCHANGED <<rows, clock>> /\ fresh' \subseteq fresh \cup {c}
  BY DEF Put, store
<1>2. Arrived(c)
  BY <1>1, CallFacts, DigestedArrives, EndArrives DEF Placed, Put, Putting, Leave, At, Outcomes
<1>3. StoresTyped' /\ Forgets
  BY CallFacts DEF Forgets, StoresTyped, Put, store, Landed
<1> QED BY <1>1, <1>2, <1>3, ArrivesQuietly

LEMMA PutUncertainQuiet == ASSUME IInv, NEW c \in Calls, PutUncertain(c) PROVE TypeOK' /\ Quiet(c)
<1>1. UNCHANGED <<rows, clock>> /\ fresh' \subseteq fresh \cup {c}
  BY DEF PutUncertain, store
<1>2. Arrived(c)
  BY <1>1, CallFacts, EndArrives DEF Placed, PutUncertain, Putting, Leave, At, Outcomes
<1>3. StoresTyped' /\ Forgets
  BY CallFacts DEF Forgets, StoresTyped, PutUncertain, store, Landed
<1> QED BY <1>1, <1>2, <1>3, ArrivesQuietly

LEMMA PutFailsQuiet == ASSUME IInv, NEW c \in Calls, PutFails(c) PROVE TypeOK' /\ Quiet(c)
<1>1. UNCHANGED <<rows, clock>> /\ fresh' \subseteq fresh \cup {c}
  BY DEF PutFails, store
<1>2. Arrived(c)
  BY <1>1, CallFacts, EndArrives DEF Placed, PutFails, Putting, Leave, At, Outcomes
<1>3. StoresTyped' /\ Forgets
  BY CallFacts DEF Forgets, StoresTyped, PutFails, store, Landed
<1> QED BY <1>1, <1>2, <1>3, ArrivesQuietly

LEMMA CommitQuiet == ASSUME IInv, NEW c \in Calls, Commit(c) PROVE TypeOK' /\ Quiet(c)
<1>1. UNCHANGED <<rows, clock>> /\ fresh' \subseteq fresh \cup {c}
  BY DEF Commit, store, Read
<1>2. Arrived(c)
  BY <1>1, CallFacts, GotoArrives, LeaseLostArrives
     DEF Placed, Commit, At, Places, PlacedAt, DecidedAt, WritersPlaces, Early, EarlyAt
<1>3. StoresTyped' /\ Forgets
  BY CallFacts DEF Forgets, StoresTyped, Commit, store
<1> QED BY <1>1, <1>2, <1>3, ArrivesQuietly

LEMMA ReceiptQuiet == ASSUME IInv, NEW c \in Calls, Receipt(c) PROVE TypeOK' /\ Quiet(c)
<1>1. UNCHANGED <<rows, clock>> /\ fresh' \subseteq fresh \cup {c}
  BY DEF Receipt, store
<1>2. Arrived(c)
  BY <1>1, CallFacts, GotoArrives, ReplayedArrives, FailArrives
     DEF Placed, Receipt, At, Answer, Answers, Names, Receipts, Outcomes, Places, PlacedAt, DecidedAt, WritersPlaces, Early,
        EarlyAt, Decided, StoresTyped
<1>3. StoresTyped' /\ Forgets
  BY CallFacts DEF Forgets, StoresTyped, Receipt, store
<1> QED BY <1>1, <1>2, <1>3, ArrivesQuietly

LEMMA RecheckQuiet == ASSUME IInv, NEW c \in Calls, Recheck(c) PROVE TypeOK' /\ Quiet(c)
<1>1. UNCHANGED <<rows, clock>> /\ fresh' \subseteq fresh \cup {c}
  BY DEF Recheck, store
<1>2. Arrived(c)
  BY <1>1, CallFacts, FailArrives, LeaseLostArrives, ReplayedArrives
     DEF Placed, Recheck, At, Answer, Answers, Names, Receipts, Outcomes, PlacedAt, WritersPlaces, StoresTyped
<1>3. StoresTyped' /\ Forgets
  BY CallFacts DEF Forgets, StoresTyped, Recheck, store
<1> QED BY <1>1, <1>2, <1>3, ArrivesQuietly

LEMMA LineageQuiet == ASSUME IInv, NEW c \in Calls, Lineage(c) PROVE TypeOK' /\ Quiet(c)
<1>1. UNCHANGED <<rows, clock>> /\ fresh' \subseteq fresh \cup {c}
  BY DEF Lineage, store
<1>2. Arrived(c)
  BY <1>1, CallFacts, GotoArrives, FailArrives, EndArrives
     DEF Placed, Lineage, At, Leave, Outcomes, Places, PlacedAt, DecidedAt, WritersPlaces, Early,
        EarlyAt
<1>3. StoresTyped' /\ Forgets
  BY CallFacts DEF Forgets, StoresTyped, Lineage, store
<1> QED BY <1>1, <1>2, <1>3, ArrivesQuietly

LEMMA LinkQuiet == ASSUME IInv, NEW c \in Calls, Link(c) PROVE TypeOK' /\ Quiet(c)
<1>1. UNCHANGED <<rows, clock>> /\ fresh' \subseteq fresh \cup {c}
  BY DEF Link
<1>2. Arrived(c)
  BY <1>1, CallFacts, EndArrives DEF Placed, Link, At, Leave, Outcomes
<1>3. StoresTyped' /\ Forgets
  BY CallFacts, <1>2 DEF Forgets, StoresTyped, Link, At, Placed, PlacedAt
<1> QED BY <1>1, <1>2, <1>3, ArrivesQuietly

LEMMA UndoQuiet == ASSUME IInv, NEW c \in Calls, Undo(c) PROVE TypeOK' /\ Quiet(c)
<1>1. UNCHANGED <<rows, clock>> /\ fresh' \subseteq fresh \cup {c}
  BY DEF Undo
<1>2. Arrived(c)
  BY <1>1, CallFacts, GotoArrives
     DEF Placed, Undo, At, AfterUndo, Places, PlacedAt, DecidedAt, WritersPlaces, Early, EarlyAt
<1>3. StoresTyped' /\ Forgets
  BY CallFacts DEF Forgets, StoresTyped, Undo
<1> QED BY <1>1, <1>2, <1>3, ArrivesQuietly

LEMMA UnlinkQuiet == ASSUME IInv, NEW c \in Calls, Unlink(c) PROVE TypeOK' /\ Quiet(c)
<1>1. UNCHANGED <<rows, clock>> /\ fresh' \subseteq fresh \cup {c}
  BY DEF Unlink
<1>2. Arrived(c)
  BY <1>1, CallFacts, GotoArrives
     DEF Placed, Unlink, At, AfterUndo, Places, PlacedAt, DecidedAt, WritersPlaces, Early, EarlyAt
<1>3. StoresTyped' /\ Forgets
  BY CallFacts DEF Forgets, StoresTyped, Unlink
<1> QED BY <1>1, <1>2, <1>3, ArrivesQuietly

LEMMA ScrapQuiet == ASSUME IInv, NEW c \in Calls, Scrap(c) PROVE TypeOK' /\ Quiet(c)
<1>1. UNCHANGED <<rows, clock>> /\ fresh' \subseteq fresh \cup {c}
  BY DEF Scrap, store
<1>2. Arrived(c)
  BY <1>1, CallFacts, GotoArrives, EndArrives
     DEF Placed, Scrap, At, Leave, Outcomes, Places, PlacedAt, DecidedAt, WritersPlaces, Early,
        EarlyAt
<1>3. StoresTyped' /\ Forgets
  BY CallFacts DEF Forgets, StoresTyped, Scrap, store
<1> QED BY <1>1, <1>2, <1>3, ArrivesQuietly

LEMMA DropQuiet == ASSUME IInv, NEW c \in Calls, Drop(c) PROVE TypeOK' /\ Quiet(c)
<1>1. UNCHANGED <<rows, clock>> /\ fresh' \subseteq fresh \cup {c}
  BY DEF Drop, store
<1>2. Arrived(c)
  BY <1>1, CallFacts, GotoArrives, FailArrives
     DEF Placed, Drop, At, Outcomes, Places, PlacedAt, DecidedAt, WritersPlaces, Early, EarlyAt
<1>3. StoresTyped' /\ Forgets
  BY CallFacts DEF Forgets, StoresTyped, Drop, store
<1> QED BY <1>1, <1>2, <1>3, ArrivesQuietly

LEMMA FindQuiet == ASSUME IInv, NEW c \in Calls, Find(c) PROVE TypeOK' /\ Quiet(c)
<1>1. UNCHANGED <<rows, clock>> /\ fresh' \subseteq fresh \cup {c}
  BY DEF Find, store
<1>2. Arrived(c)
  BY <1>1, CallFacts, GotoArrives, EndArrives
     DEF Placed, Find, At, End, Outcomes, Places, PlacedAt, DecidedAt, WritersPlaces, Early, EarlyAt
<1>3. StoresTyped' /\ Forgets
  BY CallFacts DEF Forgets, StoresTyped, Find, store
<1> QED BY <1>1, <1>2, <1>3, ArrivesQuietly

LEMMA UnrecordQuiet == ASSUME IInv, NEW c \in Calls, Unrecord(c) PROVE TypeOK' /\ Quiet(c)
<1>1. UNCHANGED <<rows, clock>> /\ fresh' \subseteq fresh \cup {c}
  BY DEF Unrecord
<1>2. Arrived(c)
  BY <1>1, CallFacts, GotoArrives, EndArrives
     DEF Placed, Unrecord, At, End, Outcomes, Places, PlacedAt, DecidedAt, WritersPlaces, Early,
        EarlyAt
<1>3. StoresTyped' /\ Forgets
  BY CallFacts DEF Forgets, StoresTyped, Unrecord
<1> QED BY <1>1, <1>2, <1>3, ArrivesQuietly

LEMMA BeforeLeaseQuiet == ASSUME IInv, NEW c \in Calls, BeforeLease(c) PROVE TypeOK' /\ Quiet(c)
<1>1. UNCHANGED <<rows, clock>> /\ fresh' \subseteq fresh \cup {c}
  BY DEF BeforeLease, store
<1>2. Arrived(c)
  BY <1>1, CallFacts, StillReferencedArrives, GotoNowArrives
     DEF Placed, BeforeLease, At, Early, EarlyAt
<1>3. StoresTyped' /\ Forgets
  BY CallFacts DEF Forgets, StoresTyped, BeforeLease, store
<1> QED BY <1>1, <1>2, <1>3, ArrivesQuietly

LEMMA ListQuiet == ASSUME IInv, NEW c \in Calls, List(c) PROVE TypeOK' /\ Quiet(c)
<1>1. UNCHANGED <<rows, clock>> /\ fresh' \subseteq fresh \cup {c}
  BY DEF List, store
<1>2. Arrived(c)
  BY <1>1, CallFacts, GotoArrives, EndArrives
     DEF Placed, List, At, End, Outcomes, Places, PlacedAt, DecidedAt, WritersPlaces, Early, EarlyAt
<1>3. StoresTyped' /\ Forgets
  BY CallFacts DEF Forgets, StoresTyped, List, store
<1> QED BY <1>1, <1>2, <1>3, ArrivesQuietly

LEMMA AuditQuiet == ASSUME IInv, NEW c \in Calls, Audit(c) PROVE TypeOK' /\ Quiet(c)
<1>1. UNCHANGED <<rows, clock>> /\ fresh' \subseteq fresh \cup {c}
  BY DEF Audit, store
<1>2. Arrived(c)
  BY <1>1, CallFacts, FoundArrives, EndArrives DEF Placed, Audit, At, End, Outcomes, Early, EarlyAt
<1>3. StoresTyped' /\ Forgets
  BY CallFacts DEF Forgets, StoresTyped, Audit, store
<1> QED BY <1>1, <1>2, <1>3, ArrivesQuietly

LEMMA HeldQuiet == ASSUME IInv, NEW c \in Calls, Held(c) PROVE TypeOK' /\ Quiet(c)
<1>1. UNCHANGED <<rows, clock>> /\ fresh' \subseteq fresh \cup {c}
  BY DEF Held, store
<1>2. Arrived(c)
  BY <1>1, CallFacts, StillReferencedArrives, GotoArrives, RenewNextArrives
     DEF Placed, Held, At, Unreferenced, Places, PlacedAt, DecidedAt, WritersPlaces, Early, EarlyAt
<1>3. StoresTyped' /\ Forgets
  BY CallFacts DEF Forgets, StoresTyped, Held, store
<1> QED BY <1>1, <1>2, <1>3, ArrivesQuietly

LEMMA CompareQuiet == ASSUME IInv, NEW c \in Calls, Compare(c) PROVE TypeOK' /\ Quiet(c)
<1>1. UNCHANGED <<rows, clock>> /\ fresh' \subseteq fresh \cup {c}
  BY DEF Compare, store
<1>2. Arrived(c)
  BY <1>1, CallFacts, RenewNextArrives, EndArrives
     DEF Placed, Compare, At, Leave, Outcomes, PlacedAt, WritersPlaces
<1>3. StoresTyped' /\ Forgets
  BY CallFacts DEF Forgets, StoresTyped, Compare, store
<1> QED BY <1>1, <1>2, <1>3, ArrivesQuietly

LEMMA EraseQuiet == ASSUME IInv, NEW c \in Calls, Erase(c) PROVE TypeOK' /\ Quiet(c)
<1>1. UNCHANGED <<rows, clock>> /\ fresh' \subseteq fresh \cup {c}
  BY DEF Erase, store
<1>2. Arrived(c)
  BY <1>1, CallFacts, EndArrives DEF Placed, Erase, At, Leave, Outcomes
<1>3. StoresTyped' /\ Forgets
  BY CallFacts DEF Forgets, StoresTyped, Erase, store
<1> QED BY <1>1, <1>2, <1>3, ArrivesQuietly

LEMMA DieQuiet == ASSUME IInv, NEW c \in Calls, Die(c) PROVE TypeOK' /\ Quiet(c)
<1>1. UNCHANGED <<rows, clock>> /\ fresh' \subseteq fresh \cup {c}
  BY DEF Die, store
<1>2. Arrived(c)
  BY <1>1, CallFacts, EndArrives DEF Placed, Die, End, Outcomes
<1>3. StoresTyped' /\ Forgets
  BY CallFacts DEF Forgets, StoresTyped, Die, store
<1> QED BY <1>1, <1>2, <1>3, ArrivesQuietly

--------------------
(* The four actions that write a lease row, or make a record. Each of them
   is a step of the object's leases. *)
Refines == \A o \in Objects : UNCHANGED ReferenceLeases(o)!vars \/ ReferenceLeases(o)!Next

LEMMA QuietRefines ==
  ASSUME IInv, NEW c \in Calls, TypeOK', Quiet(c)
  PROVE  IInv' /\ Refines
BY StillIInv, QuietKeeps DEF Refines, Quiet

Row == [generation : Nat, leases : SUBSET Leases]

(* A row that is written has, next to leases that it had, at most one of
   the call that writes it. *)
LEMMA WriteIInv ==
  ASSUME IInv, NEW c \in Calls, NEW row \in Row, Write(c, row), UNCHANGED <<objects, clock>>,
         UNCHANGED <<records, edges, receipts>>, Alone(c), Placed(c)', ~Early(c)',
         \A l, m \in row.leases : l.holder = m.holder => l = m,
         \A l \in row.leases : l \in rows[Object(c)].leases \/ (l.holder = c /\ l.mode = Mode(c))
  PROVE  /\ IInv'
         /\ \A o \in Objects \ {Object(c)} : UNCHANGED ReferenceLeases(o)!vars
         /\ rows'[Object(c)] = row
         /\ {d \in Calls : Object(d)' = Object(c) /\ call'[d].made}
              = {d \in Calls : Object(d) = Object(c) /\ call[d].made}
<1>1. /\ rows' = [rows EXCEPT ![Object(c)] = row]
      /\ fresh' = {d \in fresh : Object(d) # Object(c)}
  BY DEF Write
<1>2. rows \in [Objects -> Row] /\ Object(c) \in Objects
  BY CallFacts DEF IInv, TypeOK, Row
<1>3. \A d \in Calls : /\ call'[d].request = call[d].request /\ call'[d].made = call[d].made
                       /\ Object(d)' = Object(d) /\ Kind(d)' = Kind(d) /\ Mode(d)' = Mode(d)
  BY DEF IInv, TypeOK, Alone, Object, Kind, Mode, Asked
<1>4. TypeOK'
  BY <1>1, <1>2 DEF IInv, TypeOK, Alone, Row
<1>5. ASSUME NEW d \in Calls PROVE Placed(d)'
  <2>1. CASE d # c
    BY <2>1, <1>3 DEF IInv, TypeOK, Alone, Placed, PlacedAt, Asked
  <2> QED BY <2>1
<1>6. ASSUME NEW d \in Calls PROVE Decided(d)'
  <2> SUFFICES ASSUME d \in fresh' PROVE DecidedAt(d, call[d].pc)'
    BY DEF Decided
  <2>1. d \in fresh /\ Object(d) # Object(c) /\ call'[d] = call[d]
    BY <1>1 DEF IInv, TypeOK, Alone
  <2>2. rows'[Object(d)'] = rows[Object(d)]
    BY <2>1, <1>1, <1>2, <1>3
  <2>3. DecidedAt(d, call[d].pc)
    BY <2>1 DEF IInv, Decided
  <2> QED BY <2>1, <2>2, <2>3, <1>3 DEF DecidedAt, Refused, HasLive, Live, Entries
<1>7. ASSUME NEW d \in Calls PROVE NoneYet(d)'
  <2> SUFFICES ASSUME Early(d)' PROVE Entries(d)' = {} /\ call'[d].round = 0
    BY DEF NoneYet
  <2>1. d # c
    OBVIOUS
  <2>2. call'[d] = call[d]
    BY <2>1 DEF IInv, TypeOK, Alone
  <2>3. Entries(d) = {} /\ call[d].round = 0
    BY <2>2, <1>3 DEF IInv, NoneYet, Early, EarlyAt
  <2>4. Entries(d)' \subseteq Entries(d)
    BY <2>1, <1>1, <1>2, <1>3 DEF Entries
  <2> QED BY <2>2, <2>3, <2>4
<1>8. ASSUME NEW o \in Objects PROVE Single(o)' /\ HeldInMode(o)'
  <2>1. \A l \in rows[o].leases : l.holder \in Calls
    BY <1>2 DEF Row, Leases
  <2>2. CASE o # Object(c)
    <3>1. rows'[o] = rows[o]
      BY <2>2, <1>1, <1>2
    <3> QED BY <3>1, <2>1, <1>3 DEF IInv, Single, HeldInMode
  <2>3. CASE o = Object(c)
    <3>1. rows'[o] = row
      BY <2>3, <1>1, <1>2
    <3>2. Single(o)'
      BY <3>1 DEF Single
    <3>3. \A l \in row.leases : l.mode = Mode(l.holder) /\ l.holder \in Calls
      BY <2>1, <2>3 DEF IInv, HeldInMode
    <3> QED BY <3>1, <3>2, <3>3, <1>3 DEF HeldInMode
  <2> QED BY <2>2, <2>3
<1>9. ASSUME NEW o \in Objects \ {Object(c)} PROVE UNCHANGED ReferenceLeases(o)!vars
  BY <1>1, <1>2, <1>3 DEF ReferenceLeases!vars
<1> QED BY <1>1, <1>2, <1>3, <1>4, <1>5, <1>6, <1>7, <1>8, <1>9 DEF IInv

(* A change of the object's row is a step of its leases; those of other
   objects stay. *)
LEMMA OneRowRefines ==
  ASSUME NEW c \in Calls, NEW o \in Objects, o = Object(c),
         \A q \in Objects \ {Object(c)} : UNCHANGED ReferenceLeases(q)!vars,
         ReferenceLeases(o)!Next
  PROVE  Refines
BY DEF Refines

(* What ~Refused says, in the terms of the reference. *)
LEMMA CompatibleRefines ==
  ASSUME IInv, NEW c \in Calls, ~Refused(c), NEW o \in Objects, o = Object(c)
  PROVE  ReferenceLeases(o)!Compatible(Mode(c), call[c].now)
<1>1. \A l \in rows[Object(c)].leases : l.mode \in {"shared-writer", "exclusive-delete"}
  BY CallFacts DEF IInv, TypeOK, Leases
<1> QED BY <1>1 DEF Refused, Live, Mode, ReferenceLeases!Compatible, ReferenceLeases!Live

LEMMA ClaimRefines ==
  ASSUME IInv, NEW c \in Calls, Claim(c)
  PROVE  IInv' /\ Refines
<1>1. CASE c \notin fresh
  <2>1. UNCHANGED <<rows, clock>> /\ fresh' \subseteq fresh \cup {c}
    BY <1>1 DEF Claim
  <2>2. Arrived(c)
    BY <1>1, <2>1, CallFacts, GotoArrives
       DEF Claim, At, Places, Placed, PlacedAt, DecidedAt, WritersPlaces, Early, EarlyAt
  <2>3. StoresTyped' /\ Forgets
    BY CallFacts DEF Forgets, StoresTyped, Claim
  <2> QED BY <2>1, <2>2, <2>3, ArrivesQuietly, QuietRefines
<1>2. CASE c \in fresh
  <2> DEFINE row == rows[Object(c)]
             gen == NextGeneration(c)
             live == Live(Object(c), call[c].now)
             granted == [holder |-> c, mode |-> Mode(c), generation |-> gen,
                         expires |-> call[c].now + LeaseTtlMs]
  <2>1. /\ At(c, "claim") /\ Write(c, Granted(c)) /\ UNCHANGED <<objects, records, edges, receipts, clock>>
        /\ \E p \in {"head", "get", "held"} : Goto(c, p) /\ (p # "held" => Mode(c) = "shared-writer")
                                             /\ (p = "held" => Mode(c) = "exclusive-delete")
    BY <1>2, CallFacts DEF Claim, Mode, IInv, TypeOK, CallStates, Request, Kinds, Kind, Asked
  <2>2. PICK p \in {"head", "get", "held"} : /\ Goto(c, p) /\ (p # "held" => Mode(c) = "shared-writer")
                                           /\ (p = "held" => Mode(c) = "exclusive-delete")
    BY <2>1
  <2>3. Early(c) /\ Entries(c) = {} /\ call[c].round = 0 /\ ~Refused(c)
    BY <1>2, <2>1 DEF IInv, Decided, DecidedAt, NoneYet, Early, EarlyAt, At
  <2>4. Moved(c, p, call[c].now, call[c].round, call[c].bytes, call[c].result)
    BY <2>2, CallFacts, GotoMoves DEF Places
  <2>5. Placed(c)' /\ ~Early(c)'
    BY <2>1, <2>2, <2>3, <2>4, CallFacts
       DEF Moved, Alone, Placed, PlacedAt, WritersPlaces, Early, EarlyAt, Mode, Kind, Asked
  <2>6. /\ row \in Row /\ gen \in Nat /\ call[c].now \in Nat
        /\ Mode(c) \in {"shared-writer", "exclusive-delete"}
    BY CallFacts DEF IInv, TypeOK, CallStates, Row, NextGeneration, Mode
  <2>7. granted \in Leases /\ live \subseteq row.leases
    BY <2>6, ArtifactsAssumption DEF ArtifactsAssumption, Leases, Live
  <2>8. Granted(c) = [generation |-> gen, leases |-> live \cup {granted}]
    BY DEF Granted
  <2>9. Granted(c) \in Row /\ Granted(c).leases = live \cup {granted} /\ Granted(c).generation = gen
    BY <2>6, <2>7, <2>8 DEF Row
  <2>10. \A l \in live : l.holder # c
    BY <2>3, <2>7 DEF Entries
  <2>11. \A l, m \in Granted(c).leases : l.holder = m.holder => l = m
    BY <2>7, <2>9, <2>10, CallFacts DEF IInv, Single
  <2>12. \A l \in Granted(c).leases : l \in row.leases \/ (l.holder = c /\ l.mode = Mode(c))
    BY <2>7, <2>9
  <2>13. Alone(c)
    BY <2>4 DEF Moved
  <2>14. /\ IInv'
         /\ \A q \in Objects \ {Object(c)} : UNCHANGED ReferenceLeases(q)!vars
         /\ rows'[Object(c)] = Granted(c)
         /\ {d \in Calls : Object(d)' = Object(c) /\ call'[d].made}
              = {d \in Calls : Object(d) = Object(c) /\ call[d].made}
    BY <2>1, <2>5, <2>9, <2>11, <2>12, <2>13, WriteIInv
  <2>15. PICK o \in Objects : o = Object(c)
    BY CallFacts
  <2>16. ReferenceLeases(o)!Acquire(c, Mode(c), call[c].now)
    <3>1. ReferenceLeases(o)!Live(call[c].now) = live
      BY <2>15 DEF Live, ReferenceLeases!Live
    <3>2. ReferenceLeases(o)!Reclaimed(call[c].now) = gen
      BY <2>15, <3>1 DEF NextGeneration, ReferenceLeases!Reclaimed
    <3>3. UNCHANGED <<{d \in Calls : Object(d) = o /\ call[d].made}, clock>>
      BY <2>1, <2>14, <2>15
    <3>4. rows'[o] = Granted(c)
      BY <2>14, <2>15
    <3> QED BY <2>3, <2>9, <2>15, <3>3, <3>4, <3>1, <3>2, CompatibleRefines DEF ReferenceLeases!Acquire
  <2>17. call[c].now \in 0..clock
    BY <2>6, CallFacts DEF Placed, IInv, TypeOK
  <2>18. ReferenceLeases(o)!Next
    BY <2>6, <2>16, <2>17 DEF ReferenceLeases!Next, ReferenceLeases!Modes
  <2> QED BY <2>14, <2>15, <2>18, OneRowRefines
<1> QED BY <1>1, <1>2

(* A call that holds a live lease has one lease in the row, of its mode. *)
LEMMA OneEntry ==
  ASSUME IInv, NEW c \in Calls, HasLive(c)
  PROVE  \E l \in rows[Object(c)].leases :
           Entries(c) = {l} /\ l.holder = c /\ l.mode = Mode(c) /\ l.expires > call[c].now /\ l \in Leases
<1>1. PICK l \in Entries(c) : l.expires > call[c].now
  BY DEF HasLive
<1>2. l \in rows[Object(c)].leases /\ l.holder = c
  BY DEF Entries
<1>3. l \in Leases /\ l.mode = Mode(c)
  BY <1>2, CallFacts DEF IInv, TypeOK, HeldInMode
<1>4. Entries(c) = {l}
  BY <1>2, CallFacts DEF IInv, Single, Entries
<1> QED BY <1>1, <1>2, <1>3, <1>4

LEMMA RenewingRefines ==
  ASSUME IInv, NEW c \in Calls, Renewing(c)
  PROVE  IInv' /\ Refines
<1>1. CASE c \notin fresh
  <2>1. UNCHANGED <<rows, clock>> /\ fresh' \subseteq fresh \cup {c}
    BY <1>1 DEF Renewing
  <2>2. Arrived(c)
    BY <1>1, <2>1, CallFacts, LeaseLostArrives DEF Renewing
  <2>3. StoresTyped' /\ Forgets
    BY CallFacts DEF Forgets, StoresTyped, Renewing
  <2> QED BY <2>1, <2>2, <2>3, ArrivesQuietly, QuietRefines
<1>2. CASE c \in fresh
  <2>1. At(c, "renewing") /\ Write(c, Renewed(c)) /\ UNCHANGED <<objects, records, edges, receipts, clock>>
    BY <1>2 DEF Renewing
  <2>2. HasLive(c)
    BY <1>2, <2>1, CallFacts DEF Decided, DecidedAt, At
  <2>3. Alone(c) /\ Placed(c)' /\ ~Early(c)'
    <3>1. CASE Kind(c) = "delete"
      <4>1. Goto(c, "erase")
        BY <1>2, <3>1 DEF Renewing
      <4>2. Moved(c, "erase", call[c].now, call[c].round, call[c].bytes, call[c].result)
        BY <4>1, CallFacts, GotoMoves DEF Places
      <4> QED BY <4>2, <2>1, CallFacts
              DEF Moved, Alone, Placed, PlacedAt, WritersPlaces, Early, EarlyAt
    <3>2. CASE Kind(c) = "repair"
      <4>1. Goto(c, AfterRound(c)) /\ Mode(c) = "exclusive-delete"
        BY <1>2, <3>2 DEF Renewing, Mode
      <4>2. PICK p \in {"compare", "held", "erase"} :
              /\ p = AfterRound(c)
              /\ (p = "compare" => call[c].round = 1) /\ (p = "held" => call[c].round = 2)
        BY DEF AfterRound
      <4>3. Moved(c, p, call[c].now, call[c].round, call[c].bytes, call[c].result)
        BY <4>1, <4>2, CallFacts, GotoMoves DEF Places
      <4>4. Mode(c)' = Mode(c)
        BY <4>3 DEF Moved, Alone, Mode, Kind, Asked
      <4> QED BY <4>1, <4>2, <4>3, <4>4, <2>1, CallFacts
              DEF Moved, Placed, PlacedAt, WritersPlaces, Early, EarlyAt
    <3>3. CASE Kind(c) \notin {"delete", "repair"}
      <4>1. GotoNow(c, "commit") /\ Mode(c) = "shared-writer" /\ call[c].bytes \in Bytes
        BY <1>2, <3>3, <2>1, CallFacts
           DEF Renewing, Mode, IInv, TypeOK, CallStates, Request, Kinds, Kind, Asked, Placed, PlacedAt, At
      <4>2. Moved(c, "commit", clock, call[c].round, call[c].bytes, call[c].result)
        BY <4>1, CallFacts, GotoNowMoves DEF Places
      <4>3. Mode(c)' = Mode(c)
        BY <4>2 DEF Moved, Alone, Mode, Kind, Asked
      <4> QED BY <4>1, <4>2, <4>3, <2>1, CallFacts
              DEF Moved, Placed, PlacedAt, WritersPlaces, Early, EarlyAt, IInv, TypeOK
    <3> QED BY <3>1, <3>2, <3>3
  <2>4. PICK l \in rows[Object(c)].leases :
          Entries(c) = {l} /\ l.holder = c /\ l.mode = Mode(c) /\ l.expires > call[c].now /\ l \in Leases
    BY <2>2, OneEntry
  <2> DEFINE row == rows[Object(c)]
             renewed == [l EXCEPT !.expires = call[c].now + LeaseTtlMs]
  <2>5. /\ row \in Row /\ call[c].now \in Nat
    BY CallFacts DEF IInv, TypeOK, CallStates, Row
  <2>6. renewed \in Leases /\ renewed.holder = c /\ renewed.mode = Mode(c)
    BY <2>4, <2>5, ArtifactsAssumption DEF ArtifactsAssumption, Leases
  <2>7. Renewed(c) = [row EXCEPT !.leases = (row.leases \ {l}) \cup {renewed}]
    BY <2>4 DEF Renewed
  <2>8. /\ Renewed(c) \in Row /\ Renewed(c).generation = row.generation
        /\ Renewed(c).leases = (row.leases \ {l}) \cup {renewed}
    BY <2>5, <2>6, <2>7 DEF Row
  <2>9. \A m \in row.leases \ {l} : m.holder # c
    BY <2>4 DEF Entries
  <2>10. \A m, n \in Renewed(c).leases : m.holder = n.holder => m = n
    BY <2>6, <2>8, <2>9, CallFacts DEF IInv, Single
  <2>11. \A m \in Renewed(c).leases : m \in row.leases \/ (m.holder = c /\ m.mode = Mode(c))
    BY <2>6, <2>8
  <2>12. /\ IInv'
         /\ \A q \in Objects \ {Object(c)} : UNCHANGED ReferenceLeases(q)!vars
         /\ rows'[Object(c)] = Renewed(c)
         /\ {d \in Calls : Object(d)' = Object(c) /\ call'[d].made}
              = {d \in Calls : Object(d) = Object(c) /\ call[d].made}
    BY <2>1, <2>3, <2>8, <2>10, <2>11, WriteIInv
  <2>13. PICK o \in Objects : o = Object(c)
    BY CallFacts
  <2>14. UNCHANGED <<rows[o].generation, {d \in Calls : Object(d) = o /\ call[d].made}, clock>>
    BY <2>1, <2>8, <2>12, <2>13
  <2>15. ReferenceLeases(o)!Renew(l, call[c].now)
    BY <2>4, <2>8, <2>12, <2>13, <2>14 DEF ReferenceLeases!Renew
  <2>16. call[c].now \in 0..clock
    BY <2>5, CallFacts DEF Placed, IInv, TypeOK
  <2>17. ReferenceLeases(o)!Next
    BY <2>4, <2>13, <2>15, <2>16 DEF ReferenceLeases!Next
  <2> QED BY <2>12, <2>13, <2>17, OneRowRefines
<1> QED BY <1>1, <1>2

(* A release drops the call's lease, if there is one still. *)
LEMMA ReleasingRefines ==
  ASSUME IInv, NEW c \in Calls, Releasing(c)
  PROVE  IInv' /\ Refines
<1>1. CASE c \notin fresh
  <2>1. UNCHANGED <<rows, clock>> /\ fresh' \subseteq fresh \cup {c}
    BY <1>1 DEF Releasing
  <2>2. Arrived(c)
    BY <1>1, <2>1, CallFacts, NotReleasedArrives DEF Releasing
  <2>3. StoresTyped' /\ Forgets
    BY CallFacts DEF Forgets, StoresTyped, Releasing
  <2> QED BY <2>1, <2>2, <2>3, ArrivesQuietly, QuietRefines
<1>2. CASE c \in fresh
  <2> DEFINE row == rows[Object(c)]
  <2>1. /\ Write(c, Released(c)) /\ Goto(c, "ended")
        /\ UNCHANGED <<objects, records, edges, receipts, clock>>
    BY <1>2 DEF Releasing
  <2>2. Moved(c, "ended", call[c].now, call[c].round, call[c].bytes, call[c].result)
    BY <2>1, CallFacts, GotoMoves DEF Places
  <2>3. Alone(c) /\ Placed(c)' /\ ~Early(c)'
    BY <2>1, <2>2, CallFacts DEF Moved, Placed, PlacedAt, WritersPlaces, Early, EarlyAt
  <2>4. row \in Row
    BY CallFacts DEF IInv, TypeOK, Row
  <2>5. /\ Released(c) \in Row /\ Released(c).generation = row.generation
        /\ Released(c).leases = row.leases \ Entries(c)
    BY <2>4 DEF Released, Row
  <2>6. \A l, m \in Released(c).leases : l.holder = m.holder => l = m
    BY <2>5, CallFacts DEF IInv, Single
  <2>7. /\ IInv'
        /\ \A q \in Objects \ {Object(c)} : UNCHANGED ReferenceLeases(q)!vars
        /\ rows'[Object(c)] = Released(c)
        /\ {d \in Calls : Object(d)' = Object(c) /\ call'[d].made}
             = {d \in Calls : Object(d) = Object(c) /\ call[d].made}
    BY <2>1, <2>3, <2>5, <2>6, WriteIInv
  <2>8. PICK o \in Objects : o = Object(c)
    BY CallFacts
  <2>9. UNCHANGED <<rows[o].generation, {d \in Calls : Object(d) = o /\ call[d].made}, clock>>
    BY <2>1, <2>5, <2>7, <2>8
  <2>10. rows'[o].leases = rows[o].leases \ Entries(c)
    BY <2>5, <2>7, <2>8
  <2>11. CASE Entries(c) = {}
    <3>1. UNCHANGED ReferenceLeases(o)!vars
      BY <2>9, <2>10, <2>11 DEF ReferenceLeases!vars
    <3> QED BY <3>1, <2>7, <2>8 DEF Refines
  <2>12. CASE Entries(c) # {}
    <3>1. PICK l \in rows[o].leases : Entries(c) = {l}
      BY <2>8, <2>12, CallFacts DEF Entries, IInv, Single
    <3>2. ReferenceLeases(o)!Release(l)
      BY <3>1, <2>9, <2>10 DEF ReferenceLeases!Release
    <3>3. ReferenceLeases(o)!Next
      BY <3>1, <3>2 DEF ReferenceLeases!Next
    <3> QED BY <3>3, <2>7, <2>8, OneRowRefines
  <2> QED BY <2>11, <2>12
<1> QED BY <1>1, <1>2

(* A record is made under a live shared lease: the batch is conditioned on
   the row in which the call saw it. *)
LEMMA CommittingRefines ==
  ASSUME IInv, NEW c \in Calls, Committing(c)
  PROVE  IInv' /\ Refines
<1>1. UNCHANGED <<rows, clock, fresh, objects, edges>> /\ At(c, "committing")
  BY DEF Committing
<1>2. CASE ~MayCommit(c)
  <2>1. Arrived(c)
    BY <1>1, <1>2, CallFacts, GotoArrives
       DEF Committing, At, Places, Placed, PlacedAt, DecidedAt, WritersPlaces, Early, EarlyAt
  <2>2. StoresTyped' /\ Forgets
    BY <1>2, CallFacts DEF Forgets, StoresTyped, Committing
  <2> QED BY <1>1, <2>1, <2>2, ArrivesQuietly, QuietRefines
<1>3. CASE MayCommit(c)
  <2> DEFINE a == Asked(c).artifact
             s == [call[c] EXCEPT !.pc = "lineage", !.made = TRUE, !.result = a]
  <2>1. call[c] \in CallStates /\ call[c].bytes \in Bytes /\ Mode(c) = "shared-writer"
    BY <1>1, CallFacts DEF TypeOK, Placed, PlacedAt, WritersPlaces, At
  <2>2. "lineage" \in Places
    BY DEF Places
  <2>3. s \in CallStates
    BY <2>1, <2>2, CallFacts DEF CallStates
  <2>4. /\ s.pc = "lineage" /\ s.made = TRUE /\ s.result = a
        /\ s.request = call[c].request /\ s.now = call[c].now
    BY <2>1 DEF CallStates
  <2>5. call' = [call EXCEPT ![c] = s]
    BY <1>3 DEF Committing, Move
  <2> HIDE DEF s
  <2>6. call' \in [Calls -> CallStates] /\ call'[c] = s /\ \A d \in Calls \ {c} : call'[d] = call[d]
    BY <2>3, <2>5, CallFacts DEF TypeOK
  <2>7. records' \in [Artifacts -> Records \cup {None}]
    BY <1>3, <2>1, CallFacts DEF Committing, StoresTyped, Records
  <2>8. receipts' \in [Keys -> Receipts \cup {None}]
    BY <1>3, <2>1, CallFacts DEF Committing, StoresTyped, Receipts
  <2>9. TypeOK'
    BY <1>1, <2>6, <2>7, <2>8, CallFacts DEF TypeOK
  <2>10. Still(c)
    <3>1. Mode(c)' = Mode(c)
      BY <2>4, <2>6 DEF Mode, Kind, Asked
    <3>2. Placed(c)'
      BY <1>1, <2>1, <2>4, <2>6, <3>1, CallFacts DEF Placed, PlacedAt, WritersPlaces
    <3>3. Decided(c)' /\ ~Early(c)'
      BY <2>4, <2>6 DEF Decided, DecidedAt, Early, EarlyAt
    <3> QED BY <1>1, <2>4, <2>6, <3>2, <3>3 DEF Still
  <2>11. HasLive(c)
    BY <1>1, <1>3, CallFacts DEF MayCommit, Decided, DecidedAt, At
  <2>12. PICK l \in rows[Object(c)].leases :
           Entries(c) = {l} /\ l.holder = c /\ l.mode = Mode(c) /\ l.expires > call[c].now /\ l \in Leases
    BY <2>11, OneEntry
  <2>13. \A d \in Calls : Object(d)' = Object(d)
    BY <2>4, <2>6 DEF Object, Asked
  <2>14. PICK o \in Objects : o = Object(c)
    BY CallFacts
  <2>15. ASSUME NEW q \in Objects \ {Object(c)} PROVE UNCHANGED ReferenceLeases(q)!vars
    BY <1>1, <2>6, <2>13 DEF ReferenceLeases!vars
  <2>16. {d \in Calls : Object(d)' = o /\ call'[d].made} = {d \in Calls : Object(d) = o /\ call[d].made} \cup {c}
    BY <2>4, <2>6, <2>13, <2>14
  <2>17. PICK now \in 0..clock : now = call[c].now
    BY <2>1, CallFacts DEF Placed, TypeOK, CallStates
  <2>18. l \in rows[o].leases
    BY <2>12, <2>14
  <2>19. ReferenceLeases(o)!Commit(l, now)
    BY <1>1, <2>1, <2>12, <2>16, <2>17 DEF ReferenceLeases!Commit
  <2>20. ReferenceLeases(o)!Next
    BY <2>18, <2>19 DEF ReferenceLeases!Next
  <2> QED BY <2>9, <2>10, <2>14, <2>15, <2>20, StillIInv, OneRowRefines
<1> QED BY <1>2, <1>3

(* Time passes for every object at once. *)
LEMMA TickRefines == ASSUME IInv, Tick PROVE IInv' /\ Refines
<1>1. UNCHANGED <<objects, records, edges, receipts, rows, fresh, call>> /\ clock' = clock + 1
      /\ clock \in Nat /\ clock' \in 0..MaxClock
  BY ArtifactsAssumption DEF ArtifactsAssumption, Tick, store, IInv, TypeOK
<1>2. TypeOK'
  BY <1>1 DEF IInv, TypeOK
<1>3. ASSUME NEW c \in Calls PROVE Placed(c)' /\ Decided(c)' /\ NoneYet(c)'
  <2>1. /\ Mode(c)' = Mode(c) /\ Kind(c)' = Kind(c) /\ Entries(c)' = Entries(c)
        /\ call[c].now \in Nat
    BY <1>1 DEF Mode, Kind, Asked, Entries, Object, IInv, TypeOK, CallStates
  <2>2. Placed(c)'
    BY <1>1, <2>1 DEF IInv, Placed, PlacedAt, Asked
  <2>3. Decided(c)'
    BY <1>1, <2>1 DEF IInv, Decided, DecidedAt, Refused, HasLive, Live, Object, Asked
  <2>4. NoneYet(c)'
    BY <1>1, <2>1 DEF IInv, NoneYet, Early, EarlyAt
  <2> QED BY <2>2, <2>3, <2>4
<1>4. ASSUME NEW o \in Objects PROVE Single(o)' /\ HeldInMode(o)'
  BY <1>1 DEF IInv, Single, HeldInMode, Mode, Kind, Asked
<1>5. ASSUME NEW o \in Objects PROVE ReferenceLeases(o)!Next
  <2>1. ReferenceLeases(o)!Tick
    BY <1>1 DEF ReferenceLeases!Tick, Object, Asked
  <2> QED BY <2>1 DEF ReferenceLeases!Next
<1> QED BY <1>2, <1>3, <1>4, <1>5 DEF IInv, Refines

--------------------
LEMMA InitIInv == Init => IInv /\ \A o \in Objects : ReferenceLeases(o)!Init
<1> SUFFICES ASSUME Init PROVE IInv /\ \A o \in Objects : ReferenceLeases(o)!Init
  OBVIOUS
<1>1. PICK request \in Requests :
        call = [c \in Calls |-> [request |-> request[c], pc |-> First[request[c].kind],
                                now |-> 0, attempts |-> 0, round |-> 0, bytes |-> None,
                                made |-> FALSE, result |-> None, outcome |-> None]]
  BY DEF Init
<1>2. request \in [Calls -> Request]
  BY ArtifactsAssumption DEF ArtifactsAssumption
<1>3. ASSUME NEW c \in Calls
      PROVE  /\ call[c] \in CallStates
             /\ call[c].pc \in {"prior", "find", "list"} /\ call[c].now = 0 /\ call[c].round = 0 /\ ~call[c].made
  <2>1. request[c] \in Request /\ request[c].kind \in Kinds
    BY <1>2 DEF Request
  <2>2. First[request[c].kind] \in {"prior", "find", "list"}
    BY <2>1 DEF Kinds, First
  <2>3. /\ {"prior", "find", "list"} \subseteq Places /\ None \in Outcomes
        /\ 0 \in 0..MaxClock /\ 0 \in 0..AcquireAttempts
    BY ArtifactsAssumption DEF ArtifactsAssumption, Places, Outcomes
  <2> QED BY <1>1, <2>1, <2>2, <2>3 DEF CallStates
<1>4. TypeOK
  <2>1. call \in [Calls -> CallStates]
    BY <1>1, <1>3
  <2>2. records \in [Artifacts -> Records \cup {None}]
    BY ArtifactsAssumption DEF ArtifactsAssumption, Init, Records
  <2>3. objects \in [Objects -> Bytes \cup {None}] /\ clock \in 0..MaxClock
    BY ArtifactsAssumption DEF ArtifactsAssumption, Init
  <2>4. rows \in [Objects -> [generation : Nat, leases : SUBSET Leases]]
    BY DEF Init
  <2> QED BY <2>1, <2>2, <2>3, <2>4 DEF Init, TypeOK
<1>5. ASSUME NEW c \in Calls PROVE Placed(c) /\ Decided(c) /\ NoneYet(c)
  <2>1. Placed(c)
    BY <1>3, <1>4 DEF Placed, PlacedAt, WritersPlaces, TypeOK
  <2>2. Decided(c)
    BY DEF Init, Decided
  <2>3. Entries(c) = {}
    BY <1>3 DEF Init, Entries, Object, Asked, CallStates, Request
  <2> QED BY <2>1, <2>2, <2>3, <1>3 DEF NoneYet
<1>6. ASSUME NEW o \in Objects PROVE Single(o) /\ HeldInMode(o)
  BY DEF Init, Single, HeldInMode
<1>7. ASSUME NEW o \in Objects PROVE ReferenceLeases(o)!Init
  BY <1>3 DEF Init, ReferenceLeases!Init
<1> QED BY <1>4, <1>5, <1>6, <1>7 DEF IInv

(* Every action of a call but four is quiet. *)
Writing(c) == Claim(c) \/ Renewing(c) \/ Releasing(c)

LEMMA NextIs ==
  ASSUME IInv, Next
  PROVE  \/ \E c \in Calls : (TypeOK' /\ Quiet(c)) \/ Writing(c) \/ Committing(c)
         \/ Tick \/ UNCHANGED vars
<1>1. ASSUME NEW c \in Calls, Leasing(c), ~Writing(c) PROVE TypeOK' /\ Quiet(c)
  BY <1>1, AcquireQuiet, ReferencesQuiet, RenewQuiet, ReleaseQuiet DEF Leasing, Writing
<1>2. ASSUME NEW c \in Calls, Bringing(c) PROVE TypeOK' /\ Quiet(c)
  BY <1>2, PriorQuiet, ReplayQuiet, HeadQuiet, BesideQuiet, AdoptQuiet, GetQuiet, PutQuiet,
     PutUncertainQuiet, PutFailsQuiet DEF Bringing
<1>3. ASSUME NEW c \in Calls, Recording(c), ~Committing(c) PROVE TypeOK' /\ Quiet(c)
  BY <1>3, CommitQuiet, ReceiptQuiet, RecheckQuiet, LineageQuiet, LinkQuiet, UndoQuiet,
     UnlinkQuiet, ScrapQuiet, DropQuiet DEF Recording
<1>4. ASSUME NEW c \in Calls, Deleting(c) PROVE TypeOK' /\ Quiet(c)
  BY <1>4, FindQuiet, UnrecordQuiet, BeforeLeaseQuiet, ListQuiet, AuditQuiet, HeldQuiet,
     CompareQuiet, EraseQuiet DEF Deleting
<1>5. ASSUME NEW c \in Calls, Die(c) PROVE TypeOK' /\ Quiet(c)
  BY <1>5, DieQuiet
<1> QED BY <1>1, <1>2, <1>3, <1>4, <1>5 DEF Next, AllEnded

LEMMA NextRefines == IInv /\ [Next]_vars => IInv' /\ [Refines]_vars
<1> SUFFICES ASSUME IInv, [Next]_vars PROVE IInv' /\ Refines
  OBVIOUS
<1>1. ASSUME NEW c \in Calls, TypeOK', Quiet(c) PROVE IInv' /\ Refines
  BY <1>1, QuietRefines
<1>2. ASSUME NEW c \in Calls, Writing(c) PROVE IInv' /\ Refines
  BY <1>2, ClaimRefines, RenewingRefines, ReleasingRefines DEF Writing
<1>3. ASSUME NEW c \in Calls, Committing(c) PROVE IInv' /\ Refines
  BY <1>3, CommittingRefines
<1>4. CASE Tick
  BY <1>4, TickRefines
<1>5. CASE UNCHANGED vars
  <2>1. UNCHANGED <<objects, records, edges, receipts, rows, fresh, call, clock>>
    BY <1>5 DEF vars, store
  <2>2. IInv'
    BY <2>1 DEF IInv, TypeOK, Placed, PlacedAt, Decided, DecidedAt, Refused, HasLive, Live, NoneYet,
                Early, EarlyAt, Entries, Single, HeldInMode, Object, Mode, Kind, Asked
  <2>3. Refines
    BY <2>1 DEF Refines, ReferenceLeases!vars, Object, Asked
  <2> QED BY <2>2, <2>3
<1> QED BY <1>1, <1>2, <1>3, <1>4, <1>5, NextIs

LEMMA SpecIInv == Spec => []IInv
<1>1. Init => IInv
  BY InitIInv
<1>2. IInv /\ [Next]_vars => IInv'
  BY NextRefines
<1> QED BY <1>1, <1>2, PTL DEF Spec

(* Every step of every call keeps the stores', the lease rows' and the
   calls' types: no attempt beyond the bound, no record without the fields
   of one (coordinator.ts, store.ts). *)
THEOREM ArtifactsTypes == Spec => []TypeOK
<1>1. IInv => TypeOK
  BY DEF IInv
<1> QED BY <1>1, SpecIInv, PTL

(* The repository over a store, whose calls read an object's lease row,
   stall, and write it if it is as they read it, decides as the reference
   repository does in one step, for every object (store.ts, memory.ts). *)
THEOREM ArtifactsImplementObjectLeases == Spec => ImplementsObjectLeases
<1>1. Init => \A o \in Objects : ReferenceLeases(o)!Init
  BY InitIInv
<1>2. IInv /\ [Next]_vars
        => [\A o \in Objects : UNCHANGED ReferenceLeases(o)!vars \/ ReferenceLeases(o)!Next]_vars
  BY NextRefines DEF Refines
<1> QED BY <1>1, <1>2, SpecIInv, PTL DEF Spec, ImplementsObjectLeases

--------------------
(* What the leases of one object promise, proved of ObjectLeases' own
   steps, whatever times its callers read, and so of every object's row.
   ExclusiveIsAlone is inductive together with the types: a deleter is let
   in only when nothing is live, and what is not live is reclaimed in the
   same step; a writer is let in only beside writers. *)
Fenced(o) == ReferenceLeases(o)!TypeOK /\ ReferenceLeases(o)!ExclusiveIsAlone

(* A grant keeps the leases' shape: what is kept is live, and the new one
   has the generation that the object gets. *)
LEMMA GrantKeepsFenced ==
  ASSUME NEW o \in Objects, Fenced(o), NEW now \in 0..clock, NEW h \in Calls,
         NEW mode \in ReferenceLeases(o)!Modes, ReferenceLeases(o)!Acquire(h, mode, now)
  PROVE  Fenced(o)'
<1> DEFINE gen == rows[o].generation
           old == rows[o].leases
           new == rows'[o].leases
           live == ReferenceLeases(o)!Live(now)
           granted == [holder |-> h, mode |-> mode, generation |-> gen', expires |-> now + LeaseTtlMs]
<1>1. /\ \A l \in live : mode = "shared-writer" /\ l.mode = "shared-writer"
      /\ gen' = IF live = old THEN gen ELSE gen + 1
      /\ new = live \cup {granted}
      /\ {c \in Calls : Object(c) = o /\ call[c].made}' = {c \in Calls : Object(c) = o /\ call[c].made}
      /\ clock' = clock
  BY DEF ReferenceLeases!Acquire, ReferenceLeases!Compatible, ReferenceLeases!Reclaimed
<1>2. /\ gen \in Nat /\ clock \in Nat
      /\ old \subseteq ReferenceLeases(o)!Leases /\ \A l \in old : l.generation <= gen
      /\ {c \in Calls : Object(c) = o /\ call[c].made} \subseteq Calls
  BY DEF Fenced, ReferenceLeases!TypeOK
<1>3. live \subseteq old
  BY DEF ReferenceLeases!Live
<1>4. gen' \in Nat /\ gen <= gen' /\ now \in Nat
  BY <1>1, <1>2
<1>5. granted \in ReferenceLeases(o)!Leases
  BY <1>4, Numbers DEF ReferenceLeases!Leases
<1>6. \A l \in new : l.generation <= gen'
  <2>1. \A l \in old : l.generation \in Nat
    BY <1>2 DEF ReferenceLeases!Leases
  <2> HIDE DEF live
  <2> QED BY <2>1, <1>1, <1>2, <1>3, <1>4
<1>7. ReferenceLeases(o)!TypeOK'
  <2> HIDE DEF live, granted
  <2>1. new \subseteq ReferenceLeases(o)!Leases
    BY <1>1, <1>2, <1>3, <1>5
  <2> QED BY <2>1, <1>1, <1>2, <1>4, <1>6 DEF ReferenceLeases!TypeOK, ReferenceLeases!Leases, ReferenceLeases!Modes
<1>8. ReferenceLeases(o)!ExclusiveIsAlone'
  <2> SUFFICES ASSUME NEW m \in new, m.mode = "exclusive-delete"
               PROVE  new = {m} /\ m.generation = gen'
    BY DEF ReferenceLeases!ExclusiveIsAlone
  <2>1. m = granted
    BY <1>1
  <2>2. mode = "exclusive-delete"
    BY <2>1
  <2>3. live = {}
    BY <2>2, <1>1
  <2> HIDE DEF live
  <2> QED BY <2>1, <2>3, <1>1
<1> QED BY <1>7, <1>8 DEF Fenced

(* A renewal changes one lease's expiry, and no one's mode or generation. *)
LEMMA RenewalKeepsFenced ==
  ASSUME NEW o \in Objects, Fenced(o), NEW now \in 0..clock, NEW l \in rows[o].leases,
         ReferenceLeases(o)!Renew(l, now)
  PROVE  Fenced(o)'
<1> DEFINE old == rows[o].leases
           new == rows'[o].leases
           renewed == [l EXCEPT !.expires = now + LeaseTtlMs]
<1>1. /\ new = (old \ {l}) \cup {renewed}
      /\ rows'[o].generation = rows[o].generation
      /\ {c \in Calls : Object(c) = o /\ call[c].made}' = {c \in Calls : Object(c) = o /\ call[c].made}
      /\ clock' = clock
  BY DEF ReferenceLeases!Renew
<1>2. /\ rows[o].generation \in Nat /\ clock \in Nat
      /\ old \subseteq ReferenceLeases(o)!Leases /\ \A m \in old : m.generation <= rows[o].generation
      /\ {c \in Calls : Object(c) = o /\ call[c].made} \subseteq Calls
  BY DEF Fenced, ReferenceLeases!TypeOK
<1>3. l \in ReferenceLeases(o)!Leases
  BY <1>2
<1>4. /\ renewed \in ReferenceLeases(o)!Leases
      /\ renewed.mode = l.mode /\ renewed.generation = l.generation
  BY <1>2, <1>3, Numbers DEF ReferenceLeases!Leases
<1>5. \A m \in old : m.mode = "exclusive-delete" => old = {m} /\ m.generation = rows[o].generation
  BY DEF Fenced, ReferenceLeases!ExclusiveIsAlone
<1> HIDE DEF renewed
<1>6. ReferenceLeases(o)!TypeOK'
  <2>1. /\ new \subseteq ReferenceLeases(o)!Leases
        /\ \A m \in new : m.generation <= rows'[o].generation
    BY <1>1, <1>2, <1>3, <1>4
  <2> QED BY <2>1, <1>1, <1>2 DEF ReferenceLeases!TypeOK, ReferenceLeases!Leases, ReferenceLeases!Modes
<1>7. ReferenceLeases(o)!ExclusiveIsAlone'
  <2> SUFFICES ASSUME NEW m \in new, m.mode = "exclusive-delete"
               PROVE  new = {m} /\ m.generation = rows'[o].generation
    BY DEF ReferenceLeases!ExclusiveIsAlone
  <2>1. CASE m = renewed
    <3>1. old = {l} /\ l.generation = rows[o].generation
      BY <2>1, <1>4, <1>5
    <3> QED BY <3>1, <2>1, <1>1, <1>4
  <2>2. CASE m \in old \ {l}
    BY <2>2, <1>5
  <2> QED BY <2>1, <2>2, <1>1
<1> QED BY <1>6, <1>7 DEF Fenced

LEMMA ReferenceKeepsFenced ==
  ASSUME NEW o \in Objects, Fenced(o), ReferenceLeases(o)!Next \/ UNCHANGED ReferenceLeases(o)!vars
  PROVE  Fenced(o)'
<1>1. ASSUME NEW now \in 0..clock, NEW h \in Calls, NEW mode \in ReferenceLeases(o)!Modes,
             ReferenceLeases(o)!Acquire(h, mode, now)
      PROVE  Fenced(o)'
  BY <1>1, GrantKeepsFenced
<1>2. ASSUME NEW now \in 0..clock, NEW l \in rows[o].leases, ReferenceLeases(o)!Renew(l, now)
      PROVE  Fenced(o)'
  BY <1>2, RenewalKeepsFenced
<1>3. ASSUME NEW now \in 0..clock, NEW l \in rows[o].leases, ReferenceLeases(o)!Commit(l, now)
      PROVE  Fenced(o)'
  <2>1. l.holder \in Calls
    BY DEF Fenced, ReferenceLeases!TypeOK, ReferenceLeases!Leases
  <2> QED BY <1>3, <2>1 DEF ReferenceLeases!Commit, Fenced, ReferenceLeases!TypeOK,
                             ReferenceLeases!Leases, ReferenceLeases!Modes, ReferenceLeases!ExclusiveIsAlone
<1>4. ASSUME NEW l \in rows[o].leases, ReferenceLeases(o)!Release(l)
      PROVE  Fenced(o)'
  BY <1>4 DEF ReferenceLeases!Release, Fenced, ReferenceLeases!TypeOK,
              ReferenceLeases!Leases, ReferenceLeases!Modes, ReferenceLeases!ExclusiveIsAlone
<1>5. CASE ReferenceLeases(o)!Tick
  BY <1>5 DEF ReferenceLeases!Tick, Fenced, ReferenceLeases!TypeOK,
              ReferenceLeases!Leases, ReferenceLeases!Modes, ReferenceLeases!ExclusiveIsAlone
<1>6. CASE UNCHANGED ReferenceLeases(o)!vars
  BY <1>6 DEF ReferenceLeases!vars, Fenced, ReferenceLeases!TypeOK,
              ReferenceLeases!Leases, ReferenceLeases!Modes, ReferenceLeases!ExclusiveIsAlone
<1> QED BY <1>1, <1>2, <1>3, <1>4, <1>5, <1>6 DEF ReferenceLeases!Next

LEMMA SpecFenced == ASSUME NEW o \in Objects PROVE Spec => []Fenced(o)
<1>1. Init => Fenced(o)
  <2> SUFFICES ASSUME ReferenceLeases(o)!Init PROVE Fenced(o)
    BY InitIInv
  <2> QED BY DEF ReferenceLeases!Init, Fenced, ReferenceLeases!TypeOK, ReferenceLeases!ExclusiveIsAlone
<1>2. IInv /\ Fenced(o) /\ [Next]_vars => Fenced(o)'
  <2> SUFFICES ASSUME IInv, Fenced(o), [Next]_vars PROVE Fenced(o)'
    OBVIOUS
  <2>1. UNCHANGED ReferenceLeases(o)!vars \/ ReferenceLeases(o)!Next
    <3>1. CASE UNCHANGED vars
      BY <3>1 DEF vars, store, ReferenceLeases!vars, Object, Asked
    <3> QED BY <3>1, NextRefines DEF Refines
  <2> QED BY <2>1, ReferenceKeepsFenced
<1> QED BY <1>1, <1>2, SpecIInv, PTL DEF Spec

(* Whatever times its callers read and however long they stall, a deleter
   shares an object's row with no one, expired leases included, and has
   the row's last generation (acquireObjectLease). *)
THEOREM DeletersAreAlone ==
  ASSUME NEW o \in Objects PROVE Spec => []ReferenceLeases(o)!ExclusiveIsAlone
<1>1. Fenced(o) => ReferenceLeases(o)!ExclusiveIsAlone
  BY DEF Fenced
<1> QED BY <1>1, SpecFenced, PTL

(* No record of an object is made while its row has a deleter's lease
   (createWithLease, createIdempotentWithLease): a committing lease is a
   writer's, and a deleter's would be alone. *)
THEOREM NoCommitBehindADeleter ==
  ASSUME NEW o \in Objects PROVE Spec => ReferenceLeases(o)!CommitsExcludeDeleters
<1> DEFINE made == {c \in Calls : Object(c) = o /\ call[c].made}
           writersOnly == \A l \in rows[o].leases : l.mode = "shared-writer"
<1>1. ASSUME Fenced(o), ReferenceLeases(o)!Next, made' # made
      PROVE  writersOnly
  <2>1. PICK l \in rows[o].leases : l.mode = "shared-writer"
    BY <1>1 DEF ReferenceLeases!Next, ReferenceLeases!Acquire, ReferenceLeases!Renew,
                ReferenceLeases!Commit, ReferenceLeases!Release, ReferenceLeases!Tick
  <2>2. \A m \in rows[o].leases : m.mode \in {"shared-writer", "exclusive-delete"}
    BY <1>1 DEF Fenced, ReferenceLeases!TypeOK, ReferenceLeases!Leases, ReferenceLeases!Modes
  <2>3. \A m \in rows[o].leases : m.mode # "exclusive-delete"
    BY <2>1, <1>1 DEF Fenced, ReferenceLeases!ExclusiveIsAlone
  <2> QED BY <2>2, <2>3
<1>2. IInv /\ Fenced(o) /\ [Next]_vars => [made' # made => writersOnly]_(ReferenceLeases(o)!vars)
  <2> SUFFICES ASSUME IInv, Fenced(o), [Next]_vars, made' # made PROVE writersOnly
    OBVIOUS
  <2>1. UNCHANGED ReferenceLeases(o)!vars \/ ReferenceLeases(o)!Next
    <3>1. CASE UNCHANGED vars
      BY <3>1 DEF vars, store, ReferenceLeases!vars, Object, Asked
    <3> QED BY <3>1, NextRefines DEF Refines
  <2>2. ReferenceLeases(o)!Next
    BY <2>1 DEF ReferenceLeases!vars
  <2> QED BY <2>2, <1>1
<1> QED BY <1>2, SpecIInv, SpecFenced, PTL DEF Spec, ReferenceLeases!CommitsExcludeDeleters

--------------------
(* The receipt of a key is written once, with its record, and names it. *)
LEMMA KeepsKeyed ==
  ASSUME IInv, Keyed, IInv', Forgets,
         \A c \in Calls : call'[c].request = call[c].request /\ Learns(c)
  PROVE  Keyed'
<1>1. ASSUME NEW a \in Artifacts, records'[a] # None, records'[a].key # None
      PROVE  Names(records[a].key, a)'
  BY <1>1 DEF Forgets, Keyed, Names
<1>2. ASSUME NEW c \in Calls, call'[c].result # None, Asked(c).key # None
      PROVE  Names(Asked(c).key, call[c].result)'
  <2>1. CASE call'[c].result = call[c].result
    BY <1>2, <2>1 DEF Forgets, Keyed, Names, Asked
  <2>2. CASE \E a \in Artifacts : call'[c].result = a /\ Answers(c, a)
    <3>1. PICK a \in Artifacts : call'[c].result = a /\ Answers(c, a)
      BY <2>2
    <3>2. Names(Asked(c).key, a)
      BY <3>1 DEF Answers, Keyed
    <3> QED BY <3>1, <3>2 DEF Forgets, Names, Asked
  <2> QED BY <2>1, <2>2 DEF Learns
<1> QED BY <1>1, <1>2 DEF Keyed, Asked

LEMMA QuietKeyed == ASSUME IInv, Keyed, IInv', NEW c \in Calls, Quiet(c) PROVE Keyed'
BY KeepsKeyed DEF Quiet, Still, Learns, IInv, TypeOK

(* A write of a lease row teaches the call nothing. *)
LEMMA RowKeyed ==
  ASSUME IInv, Keyed, IInv', NEW c \in Calls, UNCHANGED <<records, receipts>>,
         Alone(c), call'[c].result = call[c].result
  PROVE  Keyed'
<1>1. Forgets
  BY DEF Forgets
<1>2. \A d \in Calls : call'[d].request = call[d].request /\ Learns(d)
  BY DEF Alone, Learns, IInv, TypeOK
<1> QED BY <1>1, <1>2, KeepsKeyed

LEMMA LeaseKeyed ==
  ASSUME IInv, Keyed, IInv', NEW c \in Calls, Writing(c)
  PROVE  Keyed'
<1>1. UNCHANGED <<records, receipts>>
  BY DEF Writing, Claim, Renewing, Releasing
<1>2. (\E p \in Places : Goto(c, p) \/ GotoNow(c, p) \/ \E out \in Outcomes : GotoWith(c, p, out))
  <2>1. CASE Claim(c)
    BY <2>1 DEF Claim, Places
  <2>2. CASE Renewing(c)
    BY <2>2 DEF Renewing, AfterRound, LeaseLost, Leave, Fail, Places, Outcomes
  <2>3. CASE Releasing(c)
    <3>1. call[c].outcome \in Outcomes
      BY CallFacts DEF TypeOK, CallStates
    <3> QED BY <2>3, <3>1 DEF Releasing, NotReleased, End, Places, Outcomes
  <2> QED BY <2>1, <2>2, <2>3 DEF Writing
<1>3. Alone(c) /\ call'[c].result = call[c].result
  BY <1>2, CallFacts, GotoMoves, GotoNowMoves, GotoWithMoves DEF Moved
<1> QED BY <1>1, <1>3, RowKeyed

(* A record with a key is made only if the key has no receipt: then no
   record has the key, and no call came to one. *)
LEMMA CommittingKeyed == ASSUME IInv, Keyed, IInv', NEW c \in Calls, Committing(c) PROVE Keyed'
<1>1. CASE ~MayCommit(c)
  <2>1. UNCHANGED <<records, receipts>> /\ Goto(c, "recheck")
    BY <1>1 DEF Committing
  <2>2. Alone(c) /\ call'[c].result = call[c].result
    BY <2>1, CallFacts, GotoMoves DEF Moved, Places
  <2> QED BY <2>1, <2>2, RowKeyed
<1>2. CASE MayCommit(c)
  <2> DEFINE a == Asked(c).artifact
             k == Asked(c).key
             s == [call[c] EXCEPT !.pc = "lineage", !.made = TRUE, !.result = a]
  <2>1. call' = [call EXCEPT ![c] = s]
    BY <1>2 DEF Committing, Move
  <2>2. call[c] \in CallStates /\ call \in [Calls -> CallStates]
    BY CallFacts DEF TypeOK
  <2>3. s.request = call[c].request /\ s.result = a
    BY <2>2 DEF CallStates
  <2> HIDE DEF s
  <2>4. /\ \A d \in Calls : call'[d].request = call[d].request
        /\ \A d \in Calls \ {c} : call'[d].result = call[d].result
        /\ call'[c].result = a
    BY <2>1, <2>2, <2>3
  <2>5. /\ a \in Artifacts /\ k \in Keys \cup {None}
        /\ records \in [Artifacts -> Records \cup {None}]
        /\ receipts \in [Keys -> Receipts \cup {None}]
    BY CallFacts DEF StoresTyped
  <2>6. /\ records'[a].key = k /\ \A b \in Artifacts \ {a} : records'[b] = records[b]
        /\ k = None => receipts' = receipts
        /\ k # None => /\ receipts[k] = None /\ receipts'[k] = [artifact |-> a, bytes |-> call[c].bytes]
                       /\ \A q \in Keys \ {k} : receipts'[q] = receipts[q]
    BY <1>2, <2>5 DEF Committing, MayCommit
  <2>7. k # None => receipts'[k] # None /\ receipts'[k].artifact = a
    <3>1. ASSUME k # None PROVE receipts'[k] \in Receipts
      <4>1. receipts' \in [Keys -> Receipts \cup {None}] /\ call[c].bytes \in Bytes
        BY <1>2, CallFacts DEF IInv, TypeOK, Committing, At, Placed, PlacedAt
      <4> QED BY <3>1, <2>5, <2>6, <4>1 DEF Receipts
    <3>2. None \notin Receipts
      BY ArtifactsAssumption DEF ArtifactsAssumption
    <3> QED BY <2>6, <3>1, <3>2
  <2>8. ASSUME NEW q \in Keys, q # k, NEW b, Names(q, b)
        PROVE  Names(q, b)'
    BY <2>5, <2>6, <2>8 DEF Names
  <2>9. ASSUME NEW b, k # None PROVE ~Names(k, b)
    BY <2>6, <2>9 DEF Names
  <2>10. ASSUME NEW b \in Artifacts, records'[b] # None, records'[b].key # None
         PROVE  Names(records[b].key, b)'
    <3>1. CASE b = a
      BY <3>1, <2>6, <2>7, <2>10 DEF Names
    <3>2. CASE b # a
      <4>1. records'[b] = records[b] /\ records[b].key \in Keys /\ Names(records[b].key, b)
        BY <3>2, <2>5, <2>6, <2>10 DEF Records, Keyed
      <4>2. records[b].key # k
        BY <4>1, <2>9, <2>10
      <4> QED BY <4>1, <4>2, <2>8
    <3> QED BY <3>1, <3>2
  <2>11. ASSUME NEW d \in Calls, call'[d].result # None, Asked(d).key # None
         PROVE  Names(Asked(d).key, call[d].result)'
    <3>1. Asked(d)' = Asked(d)
      BY <2>4 DEF Asked
    <3>2. CASE d = c
      BY <3>1, <3>2, <2>4, <2>7, <2>11 DEF Names
    <3>3. CASE d # c
      <4>1. call'[d].result = call[d].result /\ Asked(d).key \in Keys /\ Names(Asked(d).key, call[d].result)
        BY <3>3, <2>4, <2>11, CallFacts DEF Keyed
      <4>2. Asked(d).key # k
        BY <4>1, <2>9, <2>11
      <4> QED BY <3>1, <4>1, <4>2, <2>8
    <3> QED BY <3>2, <3>3
  <2>12. \A d \in Calls : Asked(d)' = Asked(d)
    BY <2>4 DEF Asked
  <2> QED BY <2>10, <2>11, <2>12, Zenon DEF Keyed
<1> QED BY <1>1, <1>2

LEMMA NextKeyed == IInv /\ IInv' /\ Keyed /\ [Next]_vars => Keyed'
<1> SUFFICES ASSUME IInv, IInv', Keyed, [Next]_vars PROVE Keyed'
  OBVIOUS
<1>1. ASSUME NEW c \in Calls, Quiet(c) \/ Writing(c) \/ Committing(c) PROVE Keyed'
  BY <1>1, QuietKeyed, LeaseKeyed, CommittingKeyed
<1>2. CASE Tick \/ UNCHANGED vars
  <2>1. UNCHANGED <<records, receipts, call>>
    BY <1>2 DEF Tick, vars, store
  <2> QED BY <2>1 DEF Keyed, Names, Asked
<1> QED BY <1>1, <1>2, NextIs

LEMMA InitKeyed == Init => Keyed
<1> SUFFICES ASSUME Init PROVE Keyed
  OBVIOUS
<1>1. \A c \in Calls : call[c].result = None
  <2>1. PICK request \in Requests :
          call = [c \in Calls |-> [request |-> request[c], pc |-> First[request[c].kind],
                                  now |-> 0, attempts |-> 0, round |-> 0, bytes |-> None,
                                  made |-> FALSE, result |-> None, outcome |-> None]]
    BY DEF Init
  <2> QED BY <2>1
<1>2. \A a \in Artifacts : records[a] # None => records[a].key = None
  BY DEF Init
<1> QED BY <1>1, <1>2 DEF Keyed

(* Writes and imports that ask with one idempotency key come to one
   artifact, whether they make it, find its record or are answered by the
   receipt, in whatever order their steps fall
   (createIdempotentWithLease). *)
THEOREM KeysNameOneArtifact == Spec => []OneArtifactPerKey
<1>1. Keyed => OneArtifactPerKey
  BY DEF Keyed, Names, OneArtifactPerKey
<1> QED BY <1>1, InitKeyed, NextKeyed, SpecIInv, PTL DEF Spec

--------------------
(* The places a call of each kind comes to. *)
Common == {"acquire", "claim", "renew", "renewing", "release", "releasing", "ended"}
Making == {"prior", "replay", "commit", "receipt", "committing", "recheck", "lineage", "link",
           "undo", "unlink", "drop"}
Removing == {"referenced", "references", "held", "erase"}

Route(kind) ==
  Common \cup (CASE kind = "write" -> Making \cup {"head", "beside", "adopt", "put", "putBeside", "scrap"}
                 [] kind = "import" -> Making \cup {"get"}
                 [] kind = "delete" -> Removing \cup {"find", "unrecord", "unlink"}
                 [] OTHER -> Removing \cup {"list", "audit", "compare"})

OnRoute(c) == call[c].pc \in Route(Kind(c))

(* The calls that may delete the object they ask for without an exclusive
   lease: a write that is undone, and what is replayed with a key. *)
MayDrop(kind, key) == kind = "write" \/ (kind = "import" /\ key # None)

Makes(kind) == kind \in {"write", "import"}

(* No other call brings or records the object of such a call, and what an
   import asks for with a key is of no record at first. Without it, see
   TwinRequests in MCArtifacts. *)
OwnObjects ==
  \A r \in Requests : \A c \in Calls : MayDrop(r[c].kind, r[c].key) =>
    /\ \A d \in Calls \ {c} : Makes(r[d].kind) => r[d].object # r[c].object
    /\ r[c].kind = "import" => \A a \in DOMAIN Recorded : Recorded[a] # r[c].object

(* A write's artifact id is new, and its id and its object are no other
   write's or import's. *)
OwnIds ==
  \A r \in Requests : \A c \in Calls : r[c].kind = "write" =>
    /\ r[c].artifact \notin DOMAIN Recorded
    /\ \A d \in Calls \ {c} : Makes(r[d].kind)
         => r[d].artifact # r[c].artifact /\ r[d].object # r[c].object

Drops(c) == MayDrop(Kind(c), Asked(c).key)

(* OwnObjects, of the calls as they go on. *)
Sole == \A c, d \in Calls : c # d /\ Drops(c) /\ Mode(d) = "shared-writer" => Object(d) # Object(c)

(* The artifacts that refer to an object. *)
Users(o) == {a \in Artifacts : records[a] # None /\ records[a].object = o}

(* Before a write or an import has made its record, or after it is undone. *)
Before(s) == s.pc \in {"adopt", "put", "renew", "renewing", "commit", "receipt", "committing",
                       "recheck", "drop", "scrap", "unlink"}

(* What holds of c in the state s, if its object holds here, users refer
   to it and entries are its leases. While it may drop the object there is
   no record but its own. While a writer has its lease, the bytes that it
   digested are there. While a deleter has its own, no record refers to
   the object that it found unreferenced, and it has it when it erases:
   clock has not reached what it renewed the lease to. *)
Fits(c, s, here, users, entries) ==
  /\ s.pc = "drop" => Drops(c)
  /\ Drops(c) =>
       /\ Before(s) => users = {}
       /\ Kind(c) = "import" /\ s.pc \in {"prior", "acquire", "claim", "get"} => users = {}
       /\ s.pc \in {"lineage", "link", "undo"} => users = {} \/ (users = {Asked(c).artifact} /\ s.made)
  /\ Mode(c) = "shared-writer" /\ s.pc \in {"renew", "renewing", "commit", "receipt", "committing"}
       /\ entries # {} => here = s.bytes
  /\ Mode(c) = "exclusive-delete" =>
       /\ s.pc \in {"renew", "renewing", "compare", "erase"} /\ entries # {} => users = {}
       /\ s.pc \in {"renew", "renewing"} /\ Kind(c) = "repair" => s.round # 0
       /\ s.pc = "held" /\ Kind(c) = "delete" => s.round = 0
       /\ s.pc = "erase" \/ (s.pc \in {"renew", "renewing"} /\ (Kind(c) = "delete" \/ s.round = 3))
            => clock < s.now + LeaseTtlMs
       /\ s.pc = "erase" => \E l \in entries : l.expires = s.now + LeaseTtlMs

FitsNow(c) == Fits(c, call[c], objects[Object(c)], Users(Object(c)), Entries(c))

(* An exclusive lease is the only one of its row. *)
Lone(o) == \A l, m \in rows[o].leases : l.mode = "exclusive-delete" => l = m

BytesInv ==
  /\ Sole
  /\ \A c \in Calls : OnRoute(c) /\ FitsNow(c)
  /\ \A o \in Objects : Lone(o)
  /\ RecordsHaveBytes

(* The places of a write that may have made its record, and of one that
   has not brought its bytes. *)
Late == {"lineage", "link", "undo", "unlink", "scrap", "release", "releasing", "ended"}
Soon == {"prior", "replay", "acquire", "claim", "head", "beside", "adopt", "put", "putBeside"}

(* What holds of a write c in the state s, if its object holds here and
   its artifact has that record: a record is one it made and has not
   undone, and bytes are there that were not only while it goes on. *)
Clean(c, s, here, record) ==
  /\ s.pc \in Route("write")
  /\ record # None => s.made
  /\ s.made => s.pc \in Late
  /\ s.pc \in Soon => here = None \/ Object(c) \in DOMAIN Stored
  /\ s.pc \in {"beside", "adopt", "putBeside"} => Object(c) \in DOMAIN Stored
  /\ s.pc \in {"unlink", "scrap"} => record = None
  /\ s.pc = "drop" => s.outcome = "replayed"
  /\ s.pc \in {"release", "releasing", "ended"} /\ s.outcome \in {"failed", "conflict"}
       => record = None /\ (here = None \/ Object(c) \in DOMAIN Stored)

CleanNow(c) == Kind(c) = "write" => Clean(c, call[c], objects[Object(c)], records[Asked(c).artifact])

(* OwnIds, of the calls as they go on. *)
Apart == \A c, d \in Calls : c # d /\ Kind(c) = "write" /\ Mode(d) = "shared-writer"
           => Object(d) # Object(c) /\ Asked(d).artifact # Asked(c).artifact

CleanInv == Apart /\ \A c \in Calls : CleanNow(c)

--------------------
(* What is known of a call that takes a step. *)
LEMMA KnownCall ==
  ASSUME IInv, BytesInv, NEW c \in Calls
  PROVE  /\ Kind(c) \in Kinds /\ call[c].pc \in Route(Kind(c))
         /\ Mode(c) \in {"shared-writer", "exclusive-delete"}
         /\ Mode(c) = "shared-writer" <=> Makes(Kind(c))
         /\ Fits(c, call[c], objects[Object(c)], Users(Object(c)), Entries(c))
         /\ call[c] \in CallStates /\ call[c].now \in Nat /\ clock \in Nat
         /\ call[c].round \in 0..3
BY CallFacts DEF BytesInv, OnRoute, FitsNow, Mode, Makes, Kind, Asked, TypeOK, CallStates, Request, Kinds

(* Places at which nothing is asked of the call. *)
Resting == {"release", "releasing", "ended", "replay", "head", "beside", "putBeside", "find",
            "unrecord", "referenced", "references", "list", "audit"}

LEMMA RestingFits ==
  ASSUME NEW c, NEW s, s.pc \in Resting, NEW here, NEW users, NEW entries
  PROVE  Fits(c, s, here, users, entries)
BY DEF Fits, Resting, Before

LEMMA Settles ==
  ASSUME NEW c \in Calls, call'[c].request = call[c].request, clock' = clock,
         call'[c].pc \in Route(Kind(c)),
         Fits(c, call'[c], objects'[Object(c)], Users(Object(c))', Entries(c)')
  PROVE  OnRoute(c)' /\ FitsNow(c)'
<1>1. /\ Kind(c)' = Kind(c) /\ Mode(c)' = Mode(c) /\ Object(c)' = Object(c) /\ Asked(c)' = Asked(c)
  BY DEF Kind, Mode, Object, Asked
<1>2. Drops(c)' = Drops(c)
  BY <1>1 DEF Drops
<1>3. OnRoute(c)'
  BY <1>1 DEF OnRoute
<1>4. FitsNow(c)'
  BY <1>1, <1>2 DEF FitsNow, Fits
<1> QED BY <1>3, <1>4

(* A step that changes the call and neither an object, a record nor a row. *)
Idles(c) == UNCHANGED <<objects, records, rows, clock>> /\ OnRoute(c)' /\ FitsNow(c)'

LEMMA SettlesIdly ==
  ASSUME NEW c \in Calls, call'[c].request = call[c].request, UNCHANGED <<objects, records, rows, clock>>,
         call'[c].pc \in Route(Kind(c)),
         Fits(c, call'[c], objects[Object(c)], Users(Object(c)), Entries(c))
  PROVE  Idles(c)
<1>1. Object(c)' = Object(c)
  BY DEF Object, Asked
<1>2. Users(Object(c))' = Users(Object(c)) /\ Entries(c)' = Entries(c)
  BY <1>1 DEF Users, Entries
<1> QED BY <1>1, <1>2, Settles DEF Idles

LEMMA RestsIdly ==
  ASSUME IInv, NEW c \in Calls, UNCHANGED <<objects, records, rows, clock>>, NEW p \in Resting,
         p \in Route(Kind(c)), Goto(c, p) \/ \E out \in Outcomes : GotoWith(c, p, out)
  PROVE  Idles(c)
<1>1. p \in Places
  BY DEF Resting, Places
<1>2. call'[c].pc = p /\ call'[c].request = call[c].request
  BY <1>1, CallFacts, GotoMoves, GotoWithMoves DEF Moved, Alone
<1> QED BY <1>2, RestingFits, SettlesIdly

LEMMA LeaseLostIdly ==
  ASSUME IInv, BytesInv, NEW c \in Calls, UNCHANGED <<objects, records, rows, clock>>, LeaseLost(c),
         At(c, "renew") \/ At(c, "renewing") \/ At(c, "commit") \/ At(c, "recheck")
  PROVE  Idles(c)
<1>1. CASE Kind(c) = "delete" \/ Kind(c) = "repair"
  <2>1. "release" \in Route(Kind(c)) /\ "release" \in Resting
    BY DEF Route, Common, Resting
  <2>2. GotoWith(c, "release", "orphaned") \/ GotoWith(c, "release", "conflict")
    BY <1>1 DEF LeaseLost, Leave
  <2> QED BY <2>1, <2>2, RestsIdly DEF Outcomes
<1>2. CASE Kind(c) \notin {"delete", "repair"}
  <2>1. GotoWith(c, "undo", "failed")
    BY <1>2 DEF LeaseLost, Fail
  <2>2. Moved(c, "undo", call[c].now, call[c].round, call[c].bytes, call[c].result)
    BY <2>1, CallFacts, GotoWithMoves DEF Places, Outcomes
  <2>3. "undo" \in Route(Kind(c)) /\ Mode(c) = "shared-writer"
    BY <1>2, KnownCall DEF Route, Making, Kinds, Makes
  <2>4. Drops(c) => Users(Object(c)) = {}
    BY KnownCall DEF Fits, Before, At
  <2>5. Fits(c, call'[c], objects[Object(c)], Users(Object(c)), Entries(c))
    BY <2>2, <2>3, <2>4 DEF Fits, Moved, Before
  <2> QED BY <2>2, <2>3, <2>5, SettlesIdly DEF Moved, Alone
<1> QED BY <1>1, <1>2

--------------------
(* The actions that change a call and nothing that others look at. *)
LEMMA GoesIdly ==
  ASSUME IInv, BytesInv, NEW c \in Calls, UNCHANGED <<objects, records, rows, clock>>,
         NEW p \in Places, p \in Route(Kind(c)),
         Goto(c, p) \/ (GotoNow(c, p) /\ p = "acquire") \/ (Attempt(c, p) /\ ~OutOfAttempts(c)),
         \A s : /\ s.pc = p /\ s.round = call[c].round /\ s.bytes = call[c].bytes /\ s.made = call[c].made
                /\ p # "acquire" => s.now = call[c].now
                => Fits(c, s, objects[Object(c)], Users(Object(c)), Entries(c))
  PROVE  Idles(c)
<1>1. /\ Alone(c) /\ call'[c].pc = p /\ call'[c].round = call[c].round /\ call'[c].bytes = call[c].bytes
      /\ p # "acquire" => call'[c].now = call[c].now
  BY CallFacts, GotoMoves, GotoNowMoves, AttemptMoves, Numbers DEF Moved, OutOfAttempts
<1> QED BY <1>1, SettlesIdly DEF Alone

LEMMA AcquireIdly == ASSUME IInv, BytesInv, NEW c \in Calls, Acquire(c) PROVE Idles(c)
<1>1. UNCHANGED <<objects, records, rows, clock>> /\ At(c, "acquire")
  BY DEF Acquire, store
<1>2. CASE Unavailable(c)
  <2>1. "ended" \in Resting /\ "ended" \in Route(Kind(c))
    BY DEF Resting, Route, Common
  <2> QED BY <1>1, <1>2, <2>1, RestsIdly DEF Unavailable, End, Outcomes
<1>3. CASE ~Unavailable(c)
  <2>1. PICK p \in {"references", "claim"} :
          /\ Attempt(c, p) /\ ~OutOfAttempts(c) /\ (p = "references" => Mode(c) = "exclusive-delete")
    BY <1>3 DEF Acquire
  <2>2. p \in Places /\ p \in Route(Kind(c))
    BY <2>1, KnownCall DEF Places, Route, Common, Removing, Makes, Kinds
  <2>3. ASSUME NEW s, s.pc = p PROVE Fits(c, s, objects[Object(c)], Users(Object(c)), Entries(c))
    BY <1>1, <2>1, <2>3, KnownCall DEF Fits, At, Before
  <2> QED BY <1>1, <2>1, <2>2, <2>3, GoesIdly
<1> QED BY <1>2, <1>3

LEMMA ReferencesIdly == ASSUME IInv, BytesInv, NEW c \in Calls, References(c) PROVE Idles(c)
<1>1. UNCHANGED <<objects, records, rows, clock>> /\ At(c, "references")
  BY DEF References, store
<1>2. "ended" \in Resting /\ {"ended", "claim"} \subseteq Route(Kind(c)) /\ "claim" \in Places
  BY DEF Resting, Route, Common, Places
<1>3. CASE Referenced(Object(c))
  BY <1>1, <1>2, <1>3, RestsIdly DEF References, StillReferenced, Outcomes
<1>4. CASE ~Referenced(Object(c))
  <2>1. Users(Object(c)) = {}
    BY <1>4 DEF Referenced, Users
  <2>2. ASSUME NEW s, s.pc = "claim" PROVE Fits(c, s, objects[Object(c)], Users(Object(c)), Entries(c))
    BY <2>1, <2>2 DEF Fits, Before
  <2> QED BY <1>1, <1>2, <1>4, <2>2, GoesIdly DEF References
<1> QED BY <1>3, <1>4

LEMMA RenewIdly == ASSUME IInv, BytesInv, NEW c \in Calls, Renew(c) PROVE Idles(c)
<1>1. UNCHANGED <<objects, records, rows, clock>> /\ At(c, "renew")
  BY DEF Renew, store
<1>2. "renewing" \in Route(Kind(c)) /\ "renewing" \in Places
  BY DEF Route, Common, Places
<1>3. ASSUME NEW s, s.pc = "renewing", s.round = call[c].round, s.bytes = call[c].bytes, s.now = call[c].now
      PROVE  Fits(c, s, objects[Object(c)], Users(Object(c)), Entries(c))
  BY <1>1, <1>3, KnownCall DEF Fits, At, Before
<1> QED BY <1>1, <1>2, <1>3, GoesIdly, LeaseLostIdly DEF Renew

LEMMA ReleaseIdly == ASSUME IInv, BytesInv, NEW c \in Calls, Release(c) PROVE Idles(c)
<1>1. UNCHANGED <<objects, records, rows, clock>>
  BY DEF Release, store
<1>2. {"releasing", "ended"} \subseteq Resting /\ {"releasing", "ended"} \subseteq Route(Kind(c))
  BY DEF Resting, Route, Common
<1>3. call[c].outcome \in Outcomes /\ "unreleased" \in Outcomes
  BY CallFacts DEF TypeOK, CallStates, Outcomes
<1> QED BY <1>1, <1>2, <1>3, RestsIdly DEF Release, NotReleased, End

LEMMA PriorIdly == ASSUME IInv, BytesInv, NEW c \in Calls, Prior(c) PROVE Idles(c)
<1>1. UNCHANGED <<objects, records, rows, clock>> /\ At(c, "prior")
  BY DEF Prior, store
<1>2. /\ {"replay", "ended"} \subseteq Resting /\ {"replay", "ended", "acquire"} \subseteq Route(Kind(c))
      /\ {"replay", "ended", "acquire"} \subseteq Places
  BY <1>1, KnownCall DEF Resting, Route, Common, Making, Removing, Kinds, At, Places
<1>3. CASE GotoNow(c, "acquire")
  <2>1. ASSUME NEW s, s.pc = "acquire" PROVE Fits(c, s, objects[Object(c)], Users(Object(c)), Entries(c))
    BY <1>1, <2>1, KnownCall DEF Fits, At, Before
  <2> QED BY <1>1, <1>2, <1>3, <2>1, GoesIdly
<1>4. CASE End(c, "conflict")
  BY <1>1, <1>2, <1>4, RestsIdly DEF End, Outcomes
<1>5. CASE \E a \in Artifacts : records[a] # None /\ Remember(c, a)
  <2>1. call'[c].pc = "replay" /\ call'[c].request = call[c].request
    BY <1>5, CallFacts, RememberMoves DEF Moved, Alone
  <2> QED BY <1>1, <1>2, <2>1, RestingFits, SettlesIdly
<1> QED BY <1>3, <1>4, <1>5 DEF Prior

LEMMA ReplayIdly == ASSUME IInv, BytesInv, NEW c \in Calls, Replay(c) PROVE Idles(c)
<1>1. UNCHANGED <<objects, records, rows, clock>>
  BY DEF Replay, store
<1>2. "ended" \in Resting /\ "ended" \in Route(Kind(c))
  BY DEF Resting, Route, Common
<1> QED BY <1>1, <1>2, RestsIdly DEF Replay, End, Outcomes

LEMMA HeadIdly == ASSUME IInv, BytesInv, NEW c \in Calls, Head(c) PROVE Idles(c)
<1>1. UNCHANGED <<objects, records, rows, clock>> /\ At(c, "head")
  BY DEF Head, store
<1>2. Kind(c) = "write"
  BY <1>1, KnownCall DEF At, Route, Common, Making, Removing, Kinds
<1>3. "beside" \in Resting /\ {"beside", "put"} \subseteq Route(Kind(c)) /\ {"beside", "put"} \subseteq Places
  BY <1>2 DEF Resting, Route, Places
<1>4. CASE objects[Object(c)] = None
  <2>1. Users(Object(c)) = {}
    BY <1>4, CallFacts, ArtifactsAssumption
       DEF ArtifactsAssumption, BytesInv, RecordsHaveBytes, Users, StoresTyped, Records
  <2>2. ASSUME NEW s, s.pc = "put" PROVE Fits(c, s, objects[Object(c)], Users(Object(c)), Entries(c))
    BY <2>1, <2>2 DEF Fits, Before
  <2> QED BY <1>1, <1>3, <1>4, <2>2, GoesIdly DEF Head
<1>5. CASE objects[Object(c)] # None
  BY <1>1, <1>3, <1>5, RestsIdly DEF Head
<1> QED BY <1>4, <1>5

LEMMA BesideIdly == ASSUME IInv, BytesInv, NEW c \in Calls, Beside(c) PROVE Idles(c)
<1>1. UNCHANGED <<objects, records, rows, clock>> /\ At(c, "beside")
  BY DEF Beside, store
<1>2. Kind(c) = "write"
  BY <1>1, KnownCall DEF At, Route, Common, Making, Removing, Kinds
<1>3. "putBeside" \in Resting /\ {"putBeside", "adopt"} \subseteq Route(Kind(c)) /\ "adopt" \in Places
  BY <1>2 DEF Resting, Route, Places
<1>4. CASE Referenced(Object(c))
  BY <1>1, <1>3, <1>4, RestsIdly DEF Beside
<1>5. CASE ~Referenced(Object(c))
  <2>1. Users(Object(c)) = {}
    BY <1>5 DEF Referenced, Users
  <2>2. ASSUME NEW s, s.pc = "adopt" PROVE Fits(c, s, objects[Object(c)], Users(Object(c)), Entries(c))
    BY <2>1, <2>2 DEF Fits, Before
  <2> QED BY <1>1, <1>3, <1>5, <2>2, GoesIdly DEF Beside
<1> QED BY <1>4, <1>5

(* What is digested is what the object holds, and no record refers to it
   yet if the call may drop it. *)
LEMMA DigestedFits ==
  ASSUME IInv, BytesInv, NEW c \in Calls, Mode(c) = "shared-writer", NEW b \in Bytes, Digested(c, b),
         NEW entries, NEW users, Drops(c) => users = {}
  PROVE  /\ call'[c].request = call[c].request /\ call'[c].pc \in Route(Kind(c))
         /\ Fits(c, call'[c], b, users, entries)
<1>1. Moved(c, "renew", clock, call[c].round, b, call[c].result)
  BY CallFacts, DigestedMoves
<1>2. "renew" \in Route(Kind(c))
  BY DEF Route, Common
<1> QED BY <1>1, <1>2 DEF Moved, Alone, Fits, Before

LEMMA AdoptIdly == ASSUME IInv, BytesInv, NEW c \in Calls, Adopt(c) PROVE Idles(c)
<1>1. UNCHANGED <<objects, records, rows, clock>> /\ At(c, "adopt")
  BY DEF Adopt, store
<1>2. Mode(c) = "shared-writer" /\ (Drops(c) => Users(Object(c)) = {})
  BY <1>1, KnownCall, CallFacts DEF Fits, Before, At, Placed, PlacedAt, WritersPlaces
<1>3. "release" \in Resting /\ "release" \in Route(Kind(c)) /\ "occupied" \in Outcomes
  BY DEF Resting, Route, Common, Outcomes
<1>4. CASE objects[Object(c)] = Asked(c).bytes
  BY <1>1, <1>2, <1>4, CallFacts, DigestedFits, SettlesIdly DEF Adopt
<1>5. CASE objects[Object(c)] # Asked(c).bytes
  BY <1>1, <1>3, <1>5, RestsIdly DEF Adopt, Leave
<1> QED BY <1>4, <1>5

LEMMA GetIdly == ASSUME IInv, BytesInv, NEW c \in Calls, Get(c) PROVE Idles(c)
<1>1. UNCHANGED <<objects, records, rows, clock>> /\ At(c, "get")
  BY DEF Get, store
<1>2. Mode(c) = "shared-writer" /\ (Drops(c) => Users(Object(c)) = {})
  BY <1>1, KnownCall, CallFacts
     DEF Fits, At, Placed, PlacedAt, WritersPlaces, Drops, MayDrop, Route, Common, Making, Removing, Kinds
<1>3. "release" \in Resting /\ "release" \in Route(Kind(c)) /\ "failed" \in Outcomes
  BY DEF Resting, Route, Common, Outcomes
<1>4. CASE objects[Object(c)] = None
  BY <1>1, <1>3, <1>4, RestsIdly DEF Get, Leave
<1>5. CASE objects[Object(c)] # None
  BY <1>1, <1>2, <1>5, CallFacts, DigestedFits, SettlesIdly DEF Get
<1> QED BY <1>4, <1>5

LEMMA FailsIdly ==
  ASSUME IInv, BytesInv, NEW c \in Calls, UNCHANGED <<objects, records, rows, clock>>,
         Makes(Kind(c)), NEW out \in Outcomes, Fail(c, out),
         Drops(c) => \/ Users(Object(c)) = {}
                     \/ Users(Object(c)) = {Asked(c).artifact} /\ call[c].made
  PROVE  Idles(c)
<1>1. Moved(c, "undo", call[c].now, call[c].round, call[c].bytes, call[c].result)
  BY CallFacts, GotoWithMoves DEF Places, Fail
<1>2. "undo" \in Route(Kind(c)) /\ Mode(c) = "shared-writer"
  BY KnownCall DEF Route, Making, Makes
<1>3. Fits(c, call'[c], objects[Object(c)], Users(Object(c)), Entries(c))
  BY <1>1, <1>2 DEF Fits, Moved, Alone, Before
<1> QED BY <1>1, <1>2, <1>3, SettlesIdly DEF Moved, Alone

LEMMA AnswerIdly ==
  ASSUME IInv, BytesInv, NEW c \in Calls, UNCHANGED <<objects, records, rows, clock>>, Answer(c),
         At(c, "receipt") \/ At(c, "recheck"), Asked(c).key # None, receipts[Asked(c).key] # None
  PROVE  Idles(c)
<1>1. Mode(c) = "shared-writer" /\ Makes(Kind(c)) /\ (Drops(c) => Users(Object(c)) = {})
  BY KnownCall, CallFacts DEF Fits, Before, At, Placed, PlacedAt, WritersPlaces
<1>2. CASE Fail(c, "conflict")
  BY <1>1, <1>2, FailsIdly DEF Outcomes
<1>3. CASE ~Fail(c, "conflict")
  <2>1. PICK p \in {"release", "drop"} : Replayed(c, p, receipts[Asked(c).key].artifact)
    BY <1>3 DEF Answer
  <2>2. receipts[Asked(c).key].artifact \in Artifacts
    BY CallFacts DEF StoresTyped, Receipts
  <2>3. call'[c].pc = p /\ call'[c].request = call[c].request
    BY <2>1, <2>2, CallFacts, ReplayedMoves DEF Moved, Alone, Places
  <2>4. p \in Route(Kind(c))
    BY <1>1, <2>1 DEF Route, Common, Making, Makes
  <2>5. Fits(c, call'[c], objects[Object(c)], Users(Object(c)), Entries(c))
    <3>1. Drops(c)
      BY <1>1 DEF Drops, MayDrop, Makes
    <3> QED BY <1>1, <2>1, <2>3, <3>1 DEF Fits, Before
  <2> QED BY <2>3, <2>4, <2>5, SettlesIdly
<1> QED BY <1>2, <1>3

LEMMA CommitIdly == ASSUME IInv, BytesInv, NEW c \in Calls, Commit(c) PROVE Idles(c)
<1>1. UNCHANGED <<objects, records, rows, clock>> /\ At(c, "commit")
  BY DEF Commit, store
<1>2. Mode(c) = "shared-writer" /\ Makes(Kind(c))
  BY <1>1, KnownCall, CallFacts DEF At, Placed, PlacedAt, WritersPlaces
<1>3. CASE LeaseLost(c)
  BY <1>1, <1>3, LeaseLostIdly
<1>4. CASE ~LeaseLost(c)
  <2>1. PICK p \in {"committing", "receipt"} : Goto(c, p)
    BY <1>4 DEF Commit
  <2>2. p \in Places /\ p \in Route(Kind(c))
    BY <1>2, <2>1 DEF Places, Route, Making, Makes
  <2>3. ASSUME NEW s, s.pc = p, s.bytes = call[c].bytes
        PROVE  Fits(c, s, objects[Object(c)], Users(Object(c)), Entries(c))
    BY <1>1, <1>2, <2>1, <2>3, KnownCall DEF Fits, At, Before
  <2> QED BY <1>1, <2>1, <2>2, <2>3, GoesIdly
<1> QED BY <1>3, <1>4

LEMMA ReceiptIdly == ASSUME IInv, BytesInv, NEW c \in Calls, Receipt(c) PROVE Idles(c)
<1>1. UNCHANGED <<objects, records, rows, clock>> /\ At(c, "receipt")
  BY DEF Receipt, store
<1>2. Mode(c) = "shared-writer" /\ Makes(Kind(c)) /\ Asked(c).key # None
  BY <1>1, KnownCall, CallFacts DEF At, Placed, PlacedAt, WritersPlaces
<1>3. CASE receipts[Asked(c).key] = None
  <2>1. "committing" \in Places /\ "committing" \in Route(Kind(c))
    BY <1>2 DEF Places, Route, Making, Makes
  <2>2. ASSUME NEW s, s.pc = "committing", s.bytes = call[c].bytes
        PROVE  Fits(c, s, objects[Object(c)], Users(Object(c)), Entries(c))
    BY <1>1, <1>2, <2>2, KnownCall DEF Fits, At, Before
  <2> QED BY <1>1, <1>3, <2>1, <2>2, GoesIdly DEF Receipt
<1>4. CASE receipts[Asked(c).key] # None
  BY <1>1, <1>2, <1>4, AnswerIdly DEF Receipt
<1> QED BY <1>3, <1>4

LEMMA RecheckIdly == ASSUME IInv, BytesInv, NEW c \in Calls, Recheck(c) PROVE Idles(c)
<1>1. UNCHANGED <<objects, records, rows, clock>> /\ At(c, "recheck")
  BY DEF Recheck, store
<1>2. Makes(Kind(c)) /\ (Drops(c) => Users(Object(c)) = {})
  BY <1>1, KnownCall, CallFacts DEF Fits, Before, At, Placed, PlacedAt, WritersPlaces
<1> QED BY <1>1, <1>2, AnswerIdly, FailsIdly, LeaseLostIdly DEF Recheck, Outcomes

LEMMA LineageIdly == ASSUME IInv, BytesInv, NEW c \in Calls, Lineage(c) PROVE Idles(c)
<1>1. UNCHANGED <<objects, records, rows, clock>> /\ At(c, "lineage")
  BY DEF Lineage, store
<1>2. /\ Mode(c) = "shared-writer" /\ Makes(Kind(c))
      /\ Drops(c) => \/ Users(Object(c)) = {}
                     \/ Users(Object(c)) = {Asked(c).artifact} /\ call[c].made
  BY <1>1, KnownCall, CallFacts DEF Fits, At, Placed, PlacedAt, WritersPlaces
<1>3. "release" \in Resting /\ {"release", "link"} \subseteq Route(Kind(c)) /\ "link" \in Places
  BY <1>2 DEF Resting, Route, Common, Making, Makes, Places
<1>4. CASE Leave(c, "returned")
  BY <1>1, <1>3, <1>4, RestsIdly DEF Leave, Outcomes
<1>5. CASE Goto(c, "link")
  <2>1. ASSUME NEW s, s.pc = "link", s.made = call[c].made
        PROVE  Fits(c, s, objects[Object(c)], Users(Object(c)), Entries(c))
    BY <1>2, <2>1 DEF Fits, Before
  <2> QED BY <1>1, <1>3, <1>5, <2>1, GoesIdly
<1>6. CASE Fail(c, "failed")
  BY <1>1, <1>2, <1>6, FailsIdly DEF Outcomes
<1> QED BY <1>4, <1>5, <1>6 DEF Lineage

LEMMA LinkIdly == ASSUME IInv, BytesInv, NEW c \in Calls, Link(c) PROVE Idles(c)
<1>1. UNCHANGED <<objects, records, rows, clock>>
  BY DEF Link
<1>2. "release" \in Resting /\ "release" \in Route(Kind(c))
  BY DEF Resting, Route, Common
<1> QED BY <1>1, <1>2, RestsIdly DEF Link, Leave, Outcomes

LEMMA UnlinkIdly == ASSUME IInv, BytesInv, NEW c \in Calls, Unlink(c) PROVE Idles(c)
<1>1. UNCHANGED <<objects, records, rows, clock>> /\ At(c, "unlink")
  BY DEF Unlink
<1>2. CASE Kind(c) = "write"
  <2>1. Goto(c, "scrap") /\ "scrap" \in Route(Kind(c)) /\ "scrap" \in Places
    BY <1>2 DEF Unlink, AfterUndo, Route, Places
  <2>2. Mode(c) = "shared-writer" /\ (Drops(c) => Users(Object(c)) = {})
    BY <1>1, <1>2, KnownCall DEF Fits, Before, At, Makes
  <2>3. ASSUME NEW s, s.pc = "scrap" PROVE Fits(c, s, objects[Object(c)], Users(Object(c)), Entries(c))
    BY <2>2, <2>3 DEF Fits, Before
  <2> QED BY <1>1, <2>1, <2>3, GoesIdly
<1>3. CASE Kind(c) # "write"
  <2>1. PICK p \in {"referenced", "release"} : Goto(c, p) /\ p \in Route(Kind(c)) /\ p \in Resting
    BY <1>3 DEF Unlink, AfterUndo, Route, Common, Removing, Resting
  <2> QED BY <1>1, <2>1, RestsIdly
<1> QED BY <1>2, <1>3

LEMMA FindIdly == ASSUME IInv, BytesInv, NEW c \in Calls, Find(c) PROVE Idles(c)
<1>1. UNCHANGED <<objects, records, rows, clock>> /\ At(c, "find")
  BY DEF Find, store
<1>2. {"unrecord", "ended"} \subseteq Resting /\ {"unrecord", "ended"} \subseteq Route(Kind(c))
  BY <1>1, KnownCall DEF Resting, Route, Common, Making, Removing, Kinds, At
<1> QED BY <1>1, <1>2, RestsIdly DEF Find, End, Outcomes

LEMMA BeforeLeaseIdly == ASSUME IInv, BytesInv, NEW c \in Calls, BeforeLease(c) PROVE Idles(c)
<1>1. UNCHANGED <<objects, records, rows, clock>> /\ At(c, "referenced")
  BY DEF BeforeLease, store
<1>2. Mode(c) = "exclusive-delete" /\ ~Drops(c)
  BY <1>1, KnownCall DEF Drops, MayDrop, Makes, Route, Common, Making, Removing, Kinds, At
<1>3. /\ "ended" \in Resting /\ {"ended", "acquire"} \subseteq Route(Kind(c)) /\ "acquire" \in Places
  BY DEF Resting, Route, Common, Places
<1>4. ASSUME NEW s, s.pc = "acquire" PROVE Fits(c, s, objects[Object(c)], Users(Object(c)), Entries(c))
  BY <1>2, <1>4 DEF Fits
<1> QED BY <1>1, <1>3, <1>4, RestsIdly, GoesIdly DEF BeforeLease, StillReferenced, Outcomes

LEMMA ListIdly == ASSUME IInv, BytesInv, NEW c \in Calls, List(c) PROVE Idles(c)
<1>1. UNCHANGED <<objects, records, rows, clock>> /\ At(c, "list")
  BY DEF List, store
<1>2. {"audit", "ended"} \subseteq Resting /\ {"audit", "ended"} \subseteq Route(Kind(c))
  BY <1>1, KnownCall DEF Resting, Route, Common, Making, Removing, Kinds, At
<1> QED BY <1>1, <1>2, RestsIdly DEF List, End, Outcomes

LEMMA AuditIdly == ASSUME IInv, BytesInv, NEW c \in Calls, Audit(c) PROVE Idles(c)
<1>1. UNCHANGED <<objects, records, rows, clock>> /\ At(c, "audit")
  BY DEF Audit, store
<1>2. {"referenced", "ended"} \subseteq Resting /\ {"referenced", "ended"} \subseteq Route(Kind(c))
  BY <1>1, KnownCall DEF Resting, Route, Common, Making, Removing, Kinds, At
<1>3. CASE objects[Object(c)] = None
  BY <1>1, <1>2, <1>3, RestsIdly DEF Audit, End, Outcomes
<1>4. CASE objects[Object(c)] # None
  <2>1. call'[c].pc = "referenced" /\ call'[c].request = call[c].request
    BY <1>4, CallFacts, FoundMoves DEF Audit, Moved, Alone
  <2> QED BY <1>1, <1>2, <2>1, RestingFits, SettlesIdly
<1> QED BY <1>3, <1>4

(* A renewal is asked for when no record refers to the object, or none
   does while the call has its lease; its time begins now. *)
LEMMA RenewNextIdly ==
  ASSUME IInv, BytesInv, NEW c \in Calls, UNCHANGED <<objects, records, rows, clock>>,
         Mode(c) = "exclusive-delete", call[c].round \in {0, 1, 2}, RenewNext(c),
         Entries(c) # {} => Users(Object(c)) = {}
  PROVE  Idles(c)
<1>1. Moved(c, "renew", clock, call[c].round + 1, call[c].bytes, call[c].result)
  BY CallFacts, RenewNextMoves
<1>2. "renew" \in Route(Kind(c)) /\ ~Drops(c)
  BY KnownCall DEF Route, Common, Drops, MayDrop, Makes
<1>3. clock < clock + LeaseTtlMs
  BY Numbers, KnownCall
<1>4. Fits(c, call'[c], objects[Object(c)], Users(Object(c)), Entries(c))
  BY <1>1, <1>2, <1>3 DEF Fits, Moved
<1> QED BY <1>1, <1>2, <1>4, SettlesIdly DEF Moved, Alone

LEMMA HeldIdly == ASSUME IInv, BytesInv, NEW c \in Calls, Held(c) PROVE Idles(c)
<1>1. UNCHANGED <<objects, records, rows, clock>> /\ At(c, "held")
  BY DEF Held, store
<1>2. Mode(c) = "exclusive-delete" /\ ~Drops(c) /\ call[c].round \in {0, 2}
  BY <1>1, KnownCall, CallFacts DEF At, Placed, PlacedAt, Drops, MayDrop, Makes
<1>3. CASE Referenced(Object(c))
  <2>1. "release" \in Resting /\ "release" \in Route(Kind(c))
    BY DEF Resting, Route, Common
  <2> QED BY <1>1, <1>3, <2>1, RestsIdly DEF Held, Unreferenced, StillReferenced, Outcomes
<1>4. CASE ~Referenced(Object(c))
  <2>1. Users(Object(c)) = {}
    BY <1>4 DEF Referenced, Users
  <2>2. CASE call[c].round = 2
    <3>1. Goto(c, "compare") /\ "compare" \in Places
      BY <1>4, <2>2 DEF Held, Unreferenced, Places
    <3>2. ASSUME NEW s, s.pc = "compare" PROVE Fits(c, s, objects[Object(c)], Users(Object(c)), Entries(c))
      BY <1>2, <2>1, <3>2 DEF Fits
    <3>3. "compare" \in Route(Kind(c))
      BY <1>1, <1>2, <2>2, KnownCall DEF Fits, At, Route, Makes, Kinds
    <3> QED BY <1>1, <3>1, <3>2, <3>3, GoesIdly
  <2>3. CASE call[c].round # 2
    BY <1>1, <1>2, <1>4, <2>1, <2>3, RenewNextIdly DEF Held, Unreferenced
  <2> QED BY <2>2, <2>3
<1> QED BY <1>3, <1>4

LEMMA CompareIdly == ASSUME IInv, BytesInv, NEW c \in Calls, Compare(c) PROVE Idles(c)
<1>1. UNCHANGED <<objects, records, rows, clock>> /\ At(c, "compare")
  BY DEF Compare, store
<1>2. /\ Mode(c) = "exclusive-delete" /\ call[c].round \in {0, 1, 2}
      /\ Entries(c) # {} => Users(Object(c)) = {}
  BY <1>1, KnownCall, CallFacts DEF At, Placed, PlacedAt, Fits
<1>3. "release" \in Resting /\ "release" \in Route(Kind(c))
  BY DEF Resting, Route, Common
<1> QED BY <1>1, <1>2, <1>3, RestsIdly, RenewNextIdly DEF Compare, Leave, Outcomes

LEMMA DieIdly == ASSUME IInv, BytesInv, NEW c \in Calls, Die(c) PROVE Idles(c)
<1>1. UNCHANGED <<objects, records, rows, clock>>
  BY DEF Die, store
<1>2. "ended" \in Resting /\ "ended" \in Route(Kind(c))
  BY DEF Resting, Route, Common
<1> QED BY <1>1, <1>2, RestsIdly DEF Die, End, Outcomes

--------------------
(* What a step of c leaves of another call: the bytes it digested stay
   while it has its lease, no record comes to an object it may drop or is
   about to delete, and its lease is the one it had. *)
Spares(c, d) ==
  /\ \/ objects'[Object(d)] = objects[Object(d)]
     \/ objects[Object(d)] = None
     \/ Mode(d) # "shared-writer"
     \/ Entries(d) = {}
  /\ \/ Users(Object(d))' \subseteq Users(Object(d))
     \/ ~Drops(d) /\ (Mode(d) = "shared-writer" \/ Entries(d) = {})
  /\ Entries(d)' \subseteq Entries(d)
  /\ At(d, "erase") => Entries(d)' = Entries(d)

Steps(c) == /\ clock' = clock /\ call'[c].request = call[c].request
            /\ \A d \in Calls \ {c} : call'[d] = call[d]

LEMMA SparedFits ==
  ASSUME IInv, BytesInv, NEW c \in Calls, Steps(c), NEW d \in Calls \ {c}, Spares(c, d)
  PROVE  OnRoute(d)' /\ FitsNow(d)'
<1>1. call'[d] = call[d] /\ clock' = clock
  BY DEF Steps
<1>2. /\ Kind(d)' = Kind(d) /\ Mode(d)' = Mode(d) /\ Object(d)' = Object(d) /\ Asked(d)' = Asked(d)
  BY <1>1 DEF Kind, Mode, Object, Asked
<1>3. call[d].pc \in Route(Kind(d)) /\ Fits(d, call[d], objects[Object(d)], Users(Object(d)), Entries(d))
  BY KnownCall
<1>4. Fits(d, call'[d], objects'[Object(d)], Users(Object(d))', Entries(d)')
  <2>1. Drops(d) => Users(Object(d))' \subseteq Users(Object(d))
    BY DEF Spares
  <2>2. Drops(d) =>
          /\ Before(call[d]) => Users(Object(d))' = {}
          /\ Kind(d) = "import" /\ call[d].pc \in {"prior", "acquire", "claim", "get"} => Users(Object(d))' = {}
          /\ call[d].pc \in {"lineage", "link", "undo"}
               => \/ Users(Object(d))' = {}
                  \/ Users(Object(d))' = {Asked(d).artifact} /\ call[d].made
    BY <1>3, <2>1 DEF Fits
  <2>3. ASSUME Mode(d) = "shared-writer", Entries(d)' # {},
               call[d].pc \in {"renew", "renewing", "commit", "receipt", "committing"}
        PROVE  objects'[Object(d)] = call[d].bytes
    <3>1. Entries(d) # {} /\ objects[Object(d)] = call[d].bytes
      BY <1>3, <2>3 DEF Fits, Spares
    <3>2. call[d].bytes \in Bytes
      BY <2>3, CallFacts DEF Placed, PlacedAt
    <3> QED BY <2>3, <3>1, <3>2, ArtifactsAssumption DEF ArtifactsAssumption, Spares
  <2>4. ASSUME Mode(d) = "exclusive-delete", Entries(d)' # {},
               call[d].pc \in {"renew", "renewing", "compare", "erase"}
        PROVE  Users(Object(d))' = {}
    <3>1. Entries(d) # {} /\ Users(Object(d)) = {}
      BY <1>3, <2>4 DEF Fits, Spares
    <3> QED BY <2>4, <3>1 DEF Spares
  <2>5. call[d].pc = "erase" => Entries(d)' = Entries(d)
    BY DEF Spares, At
  <2> QED BY <1>1, <1>3, <2>2, <2>3, <2>4, <2>5 DEF Fits
<1> QED BY <1>1, <1>2, <1>3, <1>4, Settles

LEMMA SoleStays == ASSUME BytesInv, NEW c \in Calls, Steps(c) PROVE Sole'
<1>1. \A d \in Calls : call'[d].request = call[d].request
  BY DEF Steps
<1>2. \A d \in Calls : Kind(d)' = Kind(d) /\ Mode(d)' = Mode(d) /\ Object(d)' = Object(d) /\ Drops(d)' = Drops(d)
  BY <1>1 DEF Kind, Mode, Object, Asked, Drops
<1> QED BY <1>2 DEF BytesInv, Sole

(* A step that writes no row, spares the other calls and keeps the bytes
   of what is recorded keeps the invariant. *)
LEMMA StepKeepsBytes ==
  ASSUME IInv, BytesInv, NEW c \in Calls, Steps(c), OnRoute(c)', FitsNow(c)',
         \A d \in Calls \ {c} : Spares(c, d), \A o \in Objects : Lone(o)', RecordsHaveBytes'
  PROVE  BytesInv'
BY SoleStays, SparedFits DEF BytesInv

LEMMA QuietSteps ==
  ASSUME NEW c \in Calls, Quiet(c)
  PROVE  /\ Steps(c) /\ rows' = rows
         /\ \A d \in Calls : Object(d)' = Object(d) /\ Entries(d)' = Entries(d)
<1>1. /\ rows' = rows /\ Steps(c)
  BY DEF Quiet, Still, Steps
<1>2. \A d \in Calls : Object(d)' = Object(d)
  BY <1>1 DEF Steps, Object, Asked
<1> QED BY <1>1, <1>2 DEF Entries

LEMMA QuietKeepsLone == ASSUME BytesInv, rows' = rows PROVE \A o \in Objects : Lone(o)'
BY DEF BytesInv, Lone

LEMMA IdleKeepsBytes ==
  ASSUME IInv, BytesInv, NEW c \in Calls, Quiet(c), Idles(c)
  PROVE  BytesInv'
<1>1. UNCHANGED <<objects, records, rows>> /\ OnRoute(c)' /\ FitsNow(c)'
  BY DEF Idles
<1>2. \A d \in Calls \ {c} : Spares(c, d)
  BY <1>1, QuietSteps DEF Spares, Users
<1>3. RecordsHaveBytes'
  BY <1>1 DEF BytesInv, RecordsHaveBytes
<1> QED BY <1>1, <1>2, <1>3, QuietSteps, QuietKeepsLone, StepKeepsBytes

--------------------
(* A deleter's lease is the only one of its object, and a call that may
   drop an object is the only one that makes records of it. *)
LEMMA LoneEntries ==
  ASSUME IInv, BytesInv, NEW c \in Calls, NEW d \in Calls, d # c, Object(d) = Object(c),
         Entries(c) # {}, Mode(c) = "exclusive-delete" \/ Mode(d) = "exclusive-delete"
  PROVE  Entries(d) = {}
<1> SUFFICES ASSUME NEW m \in Entries(d) PROVE FALSE
  OBVIOUS
<1>1. PICK l \in Entries(c) : TRUE
  OBVIOUS
<1>2. PICK o \in Objects : o = Object(c)
  BY CallFacts
<1>3. l \in rows[o].leases /\ m \in rows[o].leases /\ l.holder = c /\ m.holder = d
  BY <1>1, <1>2 DEF Entries
<1>4. l.mode = Mode(c) /\ m.mode = Mode(d)
  BY <1>3 DEF IInv, HeldInMode
<1> QED BY <1>3, <1>4 DEF BytesInv, Lone

LEMMA PutKeepsBytes ==
  ASSUME IInv, BytesInv, NEW c \in Calls, Quiet(c), Landed(c), UNCHANGED records,
         OnRoute(c)', FitsNow(c)'
  PROVE  BytesInv'
<1>1. /\ objects[Object(c)] = None /\ objects' = [objects EXCEPT ![Object(c)] = Asked(c).bytes]
      /\ objects \in [Objects -> Bytes \cup {None}]
  BY CallFacts DEF Landed, StoresTyped
<1>2. \A d \in Calls \ {c} : Spares(c, d)
  BY <1>1, QuietSteps DEF Spares, Users
<1>3. RecordsHaveBytes'
  <2> SUFFICES ASSUME NEW a \in Artifacts, records[a] # None
               PROVE  objects'[records[a].object] = records[a].bytes
    BY DEF RecordsHaveBytes
  <2>1. records[a].bytes \in Bytes /\ objects[records[a].object] = records[a].bytes
    BY CallFacts DEF StoresTyped, Records, BytesInv, RecordsHaveBytes
  <2>2. records[a].object # Object(c)
    BY <1>1, <2>1, ArtifactsAssumption DEF ArtifactsAssumption
  <2> QED BY <1>1, <2>1, <2>2
<1> QED BY <1>2, <1>3, QuietSteps, QuietKeepsLone, StepKeepsBytes

LEMMA RemoveKeepsBytes ==
  ASSUME IInv, BytesInv, NEW c \in Calls, Quiet(c), UNCHANGED records,
         objects' = [objects EXCEPT ![Object(c)] = None], Users(Object(c)) = {},
         Drops(c) \/ (Mode(c) = "exclusive-delete" /\ Entries(c) # {}),
         OnRoute(c)', FitsNow(c)'
  PROVE  BytesInv'
<1>1. objects \in [Objects -> Bytes \cup {None}]
  BY CallFacts DEF StoresTyped
<1>2. ASSUME NEW d \in Calls \ {c} PROVE Spares(c, d)
  <2>1. Users(Object(d))' = Users(Object(d)) /\ Entries(d)' = Entries(d)
    BY QuietSteps DEF Users
  <2>2. CASE Object(d) # Object(c)
    BY <1>1, <2>1, <2>2 DEF Spares
  <2>3. CASE Object(d) = Object(c)
    <3>1. Mode(d) # "shared-writer" \/ Entries(d) = {}
      BY <2>3, LoneEntries DEF BytesInv, Sole
    <3> QED BY <2>1, <3>1 DEF Spares
  <2> QED BY <2>2, <2>3
<1>3. RecordsHaveBytes'
  <2> SUFFICES ASSUME NEW a \in Artifacts, records[a] # None
               PROVE  objects'[records[a].object] = records[a].bytes
    BY DEF RecordsHaveBytes
  <2>1. records[a].object # Object(c) /\ objects[records[a].object] = records[a].bytes
    BY DEF Users, BytesInv, RecordsHaveBytes
  <2> QED BY <1>1, <2>1
<1> QED BY <1>2, <1>3, QuietSteps, QuietKeepsLone, StepKeepsBytes

LEMMA RestsAnyhow ==
  ASSUME IInv, NEW c \in Calls, clock' = clock, NEW p \in Resting,
         p \in Route(Kind(c)), Goto(c, p) \/ \E out \in Outcomes : GotoWith(c, p, out)
  PROVE  OnRoute(c)' /\ FitsNow(c)'
<1>1. p \in Places
  BY DEF Resting, Places
<1>2. call'[c].pc = p /\ call'[c].request = call[c].request
  BY <1>1, CallFacts, GotoMoves, GotoWithMoves DEF Moved, Alone
<1> QED BY <1>2, RestingFits, Settles

(* Before a put, no record refers to the object, or the bytes that a
   record has are there. *)
LEMMA PuttingKnown ==
  ASSUME IInv, BytesInv, NEW c \in Calls, Putting(c)
  PROVE  /\ Kind(c) = "write" /\ Mode(c) = "shared-writer" /\ Drops(c)
         /\ objects[Object(c)] = None \/ At(c, "put") => Users(Object(c)) = {}
<1>1. Kind(c) = "write" /\ Drops(c)
  BY KnownCall DEF Putting, At, Route, Common, Making, Removing, Kinds, Drops, MayDrop
<1>2. objects[Object(c)] = None => Users(Object(c)) = {}
  BY CallFacts, ArtifactsAssumption
     DEF ArtifactsAssumption, BytesInv, RecordsHaveBytes, Users, StoresTyped, Records
<1> QED BY <1>1, <1>2, KnownCall DEF Fits, Before, At, Makes

LEMMA PutBytes == ASSUME IInv, BytesInv, NEW c \in Calls, Put(c) PROVE BytesInv'
<1>1. UNCHANGED <<records, rows, clock>> /\ Putting(c) /\ Quiet(c)
  BY PutQuiet DEF Put, store
<1>2. CASE objects[Object(c)] = None
  <2>1. Landed(c) /\ Digested(c, Asked(c).bytes)
    BY <1>2 DEF Put
  <2>2. Users(Object(c))' = {}
    BY <1>1, <1>2, PuttingKnown, QuietSteps DEF Users
  <2>3. objects'[Object(c)] = Asked(c).bytes
    BY <2>1, CallFacts DEF Landed, StoresTyped
  <2>4. OnRoute(c)' /\ FitsNow(c)'
    BY <1>1, <2>1, <2>2, <2>3, PuttingKnown, CallFacts, DigestedFits, Settles
  <2> QED BY <1>1, <2>1, <2>4, PutKeepsBytes
<1>3. CASE objects[Object(c)] # None
  <2>1. UNCHANGED objects /\ GotoWith(c, "release", "failed")
    BY <1>3 DEF Put, Leave
  <2>2. "release" \in Resting /\ "release" \in Route(Kind(c)) /\ "failed" \in Outcomes
    BY DEF Resting, Route, Common, Outcomes
  <2> QED BY <1>1, <2>1, <2>2, RestsIdly, IdleKeepsBytes
<1> QED BY <1>2, <1>3

(* A failed put may have stored the bytes. *)
LEMMA FailedPutBytes ==
  ASSUME IInv, BytesInv, NEW c \in Calls, Quiet(c), UNCHANGED <<records, rows, clock>>,
         Landed(c) \/ UNCHANGED objects, OnRoute(c)', FitsNow(c)'
  PROVE  BytesInv'
BY PutKeepsBytes, IdleKeepsBytes DEF Idles

LEMMA PutUncertainBytes == ASSUME IInv, BytesInv, NEW c \in Calls, PutUncertain(c) PROVE BytesInv'
<1>1. UNCHANGED <<records, rows, clock>> /\ Quiet(c) /\ (Landed(c) \/ UNCHANGED objects)
  BY PutUncertainQuiet DEF PutUncertain, store
<1>2. "release" \in Resting /\ "release" \in Route(Kind(c)) /\ "indeterminate" \in Outcomes
  BY DEF Resting, Route, Common, Outcomes
<1> QED BY <1>1, <1>2, RestsAnyhow, FailedPutBytes DEF PutUncertain, Leave

LEMMA PutFailsBytes == ASSUME IInv, BytesInv, NEW c \in Calls, PutFails(c) PROVE BytesInv'
<1>1. UNCHANGED <<records, rows, clock>> /\ Putting(c) /\ Quiet(c) /\ (Landed(c) \/ UNCHANGED objects)
  BY PutFailsQuiet DEF PutFails, store
<1>2. "release" \in Resting /\ "release" \in Route(Kind(c)) /\ "failed" \in Outcomes
  BY DEF Resting, Route, Common, Outcomes
<1>3. CASE Leave(c, "failed")
  BY <1>1, <1>2, <1>3, RestsAnyhow, FailedPutBytes DEF Leave
<1>4. CASE ~At(c, "putBeside") /\ GotoWith(c, "scrap", "failed")
  <2>1. Moved(c, "scrap", call[c].now, call[c].round, call[c].bytes, call[c].result)
    BY <1>2, <1>4, CallFacts, GotoWithMoves DEF Places
  <2>2. Users(Object(c))' = {}
    BY <1>1, <1>4, PuttingKnown, QuietSteps DEF Users, Putting
  <2>3. Fits(c, call'[c], objects'[Object(c)], Users(Object(c))', Entries(c)') /\ call'[c].pc \in Route(Kind(c))
    BY <1>1, <2>1, <2>2, PuttingKnown DEF Fits, Before, Moved, Route
  <2> QED BY <1>1, <2>1, <2>3, Settles, FailedPutBytes DEF Moved, Alone
<1> QED BY <1>3, <1>4 DEF PutFails

LEMMA ScrapBytes == ASSUME IInv, BytesInv, NEW c \in Calls, Scrap(c) PROVE BytesInv'
<1>1. UNCHANGED <<records, rows, clock>> /\ At(c, "scrap") /\ Quiet(c)
  BY ScrapQuiet DEF Scrap, store
<1>2. Drops(c) /\ Users(Object(c)) = {}
  BY <1>1, KnownCall DEF Fits, Before, At, Route, Common, Making, Removing, Kinds, Drops, MayDrop
<1>3. "release" \in Resting /\ "release" \in Route(Kind(c)) /\ "orphaned" \in Outcomes
  BY DEF Resting, Route, Common, Outcomes
<1>4. OnRoute(c)' /\ FitsNow(c)'
  BY <1>1, <1>3, RestsAnyhow DEF Scrap, Leave
<1>5. CASE UNCHANGED objects
  BY <1>1, <1>4, <1>5, IdleKeepsBytes DEF Idles
<1>6. CASE objects' = [objects EXCEPT ![Object(c)] = None]
  BY <1>1, <1>2, <1>4, <1>6, RemoveKeepsBytes
<1> QED BY <1>5, <1>6 DEF Scrap

LEMMA DropBytes == ASSUME IInv, BytesInv, NEW c \in Calls, Drop(c) PROVE BytesInv'
<1>1. UNCHANGED <<records, rows, clock>> /\ At(c, "drop") /\ Quiet(c)
  BY DropQuiet DEF Drop, store
<1>2. Makes(Kind(c)) /\ Drops(c) /\ Users(Object(c)) = {}
  BY <1>1, KnownCall, CallFacts DEF Fits, Before, At, Placed, PlacedAt, WritersPlaces
<1>3. "release" \in Resting /\ "release" \in Route(Kind(c)) /\ "orphaned" \in Outcomes
  BY DEF Resting, Route, Common, Outcomes
<1>4. CASE objects' = [objects EXCEPT ![Object(c)] = None] /\ Goto(c, "release")
  <2>1. OnRoute(c)' /\ FitsNow(c)'
    BY <1>1, <1>3, <1>4, RestsAnyhow
  <2> QED BY <1>1, <1>2, <1>4, <2>1, RemoveKeepsBytes
<1>5. CASE Fail(c, "orphaned") /\ UNCHANGED objects
  BY <1>1, <1>2, <1>3, <1>5, FailsIdly, IdleKeepsBytes
<1> QED BY <1>4, <1>5 DEF Drop

LEMMA EraseBytes == ASSUME IInv, BytesInv, NEW c \in Calls, Erase(c) PROVE BytesInv'
<1>1. UNCHANGED <<records, rows, clock>> /\ At(c, "erase") /\ Quiet(c)
  BY EraseQuiet DEF Erase, store
<1>2. Mode(c) = "exclusive-delete" /\ Entries(c) # {} /\ Users(Object(c)) = {}
  <2>1. Mode(c) = "exclusive-delete"
    BY <1>1, KnownCall DEF At, Route, Common, Making, Removing, Kinds, Makes
  <2> QED BY <1>1, <2>1, KnownCall DEF Fits, At
<1>3. "release" \in Resting /\ "release" \in Route(Kind(c)) /\ {"orphaned", "deleted"} \subseteq Outcomes
  BY DEF Resting, Route, Common, Outcomes
<1>4. OnRoute(c)' /\ FitsNow(c)'
  BY <1>1, <1>3, RestsAnyhow DEF Erase, Leave
<1>5. CASE UNCHANGED objects
  BY <1>1, <1>4, <1>5, IdleKeepsBytes DEF Idles
<1>6. CASE objects' = [objects EXCEPT ![Object(c)] = None]
  BY <1>1, <1>2, <1>4, <1>6, RemoveKeepsBytes
<1> QED BY <1>5, <1>6 DEF Erase

(* A record goes: nothing is asked of its object then. *)
LEMMA ForgetKeepsBytes ==
  ASSUME IInv, BytesInv, NEW c \in Calls, Quiet(c), UNCHANGED objects, NEW a \in Artifacts,
         records' = [records EXCEPT ![a] = None], OnRoute(c)', FitsNow(c)'
  PROVE  BytesInv'
<1>1. /\ \A b \in Artifacts : records'[b] = IF b = a THEN None ELSE records[b]
  BY CallFacts DEF StoresTyped
<1>2. \A d \in Calls \ {c} : Spares(c, d)
  BY <1>1, QuietSteps DEF Spares, Users
<1>3. RecordsHaveBytes'
  BY <1>1 DEF BytesInv, RecordsHaveBytes
<1> QED BY <1>2, <1>3, QuietSteps, QuietKeepsLone, StepKeepsBytes

LEMMA UnrecordBytes == ASSUME IInv, BytesInv, NEW c \in Calls, Unrecord(c) PROVE BytesInv'
<1>1. UNCHANGED <<objects, rows, clock>> /\ At(c, "unrecord") /\ Quiet(c)
  BY UnrecordQuiet DEF Unrecord
<1>2. Kind(c) = "delete"
  BY <1>1, KnownCall DEF At, Route, Common, Making, Removing, Kinds
<1>3. CASE records[Asked(c).artifact] = None
  <2>1. GotoWith(c, "ended", "notFound") /\ UNCHANGED records
    BY <1>3 DEF Unrecord, End
  <2>2. "ended" \in Resting /\ "ended" \in Route(Kind(c)) /\ "notFound" \in Outcomes
    BY DEF Resting, Route, Common, Outcomes
  <2> QED BY <1>1, <2>1, <2>2, RestsIdly, IdleKeepsBytes
<1>4. CASE records[Asked(c).artifact] # None
  <2>1. Goto(c, "unlink") /\ records' = [records EXCEPT ![Asked(c).artifact] = None]
    BY <1>4 DEF Unrecord
  <2>2. call'[c].pc = "unlink" /\ call'[c].request = call[c].request
    BY <2>1, CallFacts, GotoMoves DEF Moved, Alone, Places
  <2>3. "unlink" \in Route(Kind(c)) /\ ~Drops(c) /\ Mode(c) = "exclusive-delete"
    BY <1>2, KnownCall DEF Route, Drops, MayDrop, Makes
  <2>4. Fits(c, call'[c], objects'[Object(c)], Users(Object(c))', Entries(c)')
    BY <2>2, <2>3 DEF Fits
  <2> QED BY <1>1, <2>1, <2>2, <2>3, <2>4, CallFacts, Settles, ForgetKeepsBytes
<1> QED BY <1>3, <1>4

(* What a failed call undoes is the only record of an object it may drop. *)
LEMMA UndoBytes == ASSUME IInv, BytesInv, NEW c \in Calls, Undo(c) PROVE BytesInv'
<1>1. UNCHANGED <<objects, rows, clock>> /\ At(c, "undo") /\ Quiet(c)
  BY UndoQuiet DEF Undo
<1>2. /\ Makes(Kind(c)) /\ Mode(c) = "shared-writer"
      /\ Drops(c) => \/ Users(Object(c)) = {}
                     \/ Users(Object(c)) = {Asked(c).artifact} /\ call[c].made
  BY <1>1, KnownCall, CallFacts DEF Fits, At, Placed, PlacedAt, WritersPlaces
<1>3. CASE call[c].made /\ records[Asked(c).artifact] # None
  <2>1. Goto(c, "unlink") /\ records' = [records EXCEPT ![Asked(c).artifact] = None]
    BY <1>3 DEF Undo
  <2>2. call'[c].pc = "unlink" /\ call'[c].request = call[c].request
    BY <2>1, CallFacts, GotoMoves DEF Moved, Alone, Places
  <2>3. "unlink" \in Route(Kind(c))
    BY <1>2 DEF Route, Making, Makes
  <2>4. Drops(c) => Users(Object(c))' = {}
    BY <1>2, <2>1, CallFacts, QuietSteps, <1>1 DEF Users, StoresTyped
  <2>5. Fits(c, call'[c], objects'[Object(c)], Users(Object(c))', Entries(c)')
    BY <1>2, <2>2, <2>4 DEF Fits, Before
  <2> QED BY <1>1, <2>1, <2>2, <2>3, <2>5, CallFacts, Settles, ForgetKeepsBytes
<1>4. CASE ~(call[c].made /\ records[Asked(c).artifact] # None)
  <2>1. Goto(c, IF Kind(c) = "write" THEN "scrap" ELSE "release") /\ UNCHANGED records
    BY <1>4 DEF Undo, AfterUndo
  <2>2. Drops(c) => Users(Object(c)) = {}
    BY <1>2, <1>4 DEF Users
  <2>3. CASE Kind(c) = "write"
    <3>1. ASSUME NEW s, s.pc = "scrap" PROVE Fits(c, s, objects[Object(c)], Users(Object(c)), Entries(c))
      BY <1>2, <2>2, <3>1 DEF Fits, Before
    <3>2. "scrap" \in Places /\ "scrap" \in Route(Kind(c)) /\ Goto(c, "scrap")
      BY <2>1, <2>3 DEF Places, Route
    <3> QED BY <1>1, <2>1, <3>1, <3>2, GoesIdly, IdleKeepsBytes
  <2>4. CASE Kind(c) # "write"
    <3>1. "release" \in Resting /\ "release" \in Route(Kind(c)) /\ Goto(c, "release")
      BY <2>1, <2>4 DEF Resting, Route, Common
    <3> QED BY <1>1, <2>1, <3>1, RestsIdly, IdleKeepsBytes
  <2> QED BY <2>3, <2>4
<1> QED BY <1>3, <1>4

--------------------
(* A row that is written keeps the other calls' leases that have not run
   out, so that a deleter that is about to erase keeps its own. *)
LEMMA RowKeepsBytes ==
  ASSUME IInv, BytesInv, NEW c \in Calls, NEW row \in Row, Write(c, row),
         UNCHANGED <<objects, records, clock>>, Alone(c),
         \A l \in row.leases : l \in rows[Object(c)].leases \/ l.holder = c,
         \A l \in rows[Object(c)].leases : l.holder # c /\ l.expires > clock => l \in row.leases,
         \A l, m \in row.leases : l.mode = "exclusive-delete" => l = m,
         call'[c].pc \in Route(Kind(c)),
         Fits(c, call'[c], objects[Object(c)], Users(Object(c)), {l \in row.leases : l.holder = c})
  PROVE  BytesInv'
<1>1. /\ rows' = [rows EXCEPT ![Object(c)] = row] /\ rows \in [Objects -> Row] /\ Object(c) \in Objects
  BY CallFacts DEF Write, IInv, TypeOK, Row
<1>2. Steps(c)
  BY DEF Alone, Steps, IInv, TypeOK
<1>3. \A d \in Calls : Object(d)' = Object(d)
  BY <1>2 DEF Steps, Object, Asked
<1>4. OnRoute(c)' /\ FitsNow(c)'
  <2>1. Entries(c)' = {l \in row.leases : l.holder = c} /\ Users(Object(c))' = Users(Object(c))
    BY <1>1, <1>3 DEF Entries, Users
  <2> QED BY <1>2, <2>1, Settles DEF Steps
<1>5. ASSUME NEW d \in Calls \ {c} PROVE Spares(c, d)
  <2>1. Users(Object(d))' = Users(Object(d))
    BY <1>3 DEF Users
  <2>2. CASE Object(d) # Object(c)
    <3>1. Entries(d)' = Entries(d)
      BY <1>1, <1>3, <2>2, CallFacts DEF Entries
    <3> QED BY <2>1, <3>1 DEF Spares
  <2>3. CASE Object(d) = Object(c)
    <3>1. Entries(d)' = {l \in row.leases : l.holder = d}
      BY <1>1, <1>3, <2>3 DEF Entries
    <3>2. Entries(d)' \subseteq Entries(d)
      BY <2>3, <3>1 DEF Entries
    <3>3. ASSUME At(d, "erase") PROVE Entries(d)' = Entries(d)
      <4>1. Mode(d) = "exclusive-delete"
        BY <3>3, KnownCall DEF At, Route, Common, Making, Removing, Kinds, Makes
      <4>2. PICK l \in Entries(d) : l.expires = call[d].now + LeaseTtlMs
        BY <3>3, <4>1, KnownCall DEF Fits, At
      <4>3. l.expires > clock
        BY <3>3, <4>1, <4>2, KnownCall, Numbers DEF Fits, At
      <4>4. l \in rows[Object(c)].leases /\ l.holder = d
        BY <2>3 DEF Entries
      <4>5. l \in Entries(d)'
        BY <3>1, <4>3, <4>4
      <4>6. PICK o \in Objects : o = Object(d)
        BY CallFacts
      <4>7. \A m \in Entries(d) : m = l
        BY <4>6 DEF Entries, IInv, Single
      <4> QED BY <3>2, <4>5, <4>7
    <3> QED BY <2>1, <3>2, <3>3 DEF Spares
  <2> QED BY <2>2, <2>3
<1>6. ASSUME NEW o \in Objects PROVE Lone(o)'
  BY <1>1 DEF BytesInv, Lone
<1>7. RecordsHaveBytes'
  BY DEF BytesInv, RecordsHaveBytes
<1> QED BY <1>2, <1>4, <1>5, <1>6, <1>7, StepKeepsBytes

LEMMA ClaimBytes == ASSUME IInv, BytesInv, NEW c \in Calls, Claim(c) PROVE BytesInv'
<1>1. CASE c \notin fresh
  <2>1. UNCHANGED <<objects, records, rows, clock>> /\ fresh' \subseteq fresh \cup {c} /\ Goto(c, "acquire")
        /\ At(c, "claim")
    BY <1>1 DEF Claim
  <2>2. Arrived(c)
    BY <2>1, CallFacts, GotoArrives
       DEF At, Places, Placed, PlacedAt, DecidedAt, WritersPlaces, Early, EarlyAt
  <2>3. StoresTyped' /\ Forgets
    BY <1>1, CallFacts DEF Forgets, StoresTyped, Claim
  <2>4. Quiet(c)
    BY <2>1, <2>2, <2>3, ArrivesQuietly
  <2>5. ASSUME NEW s, s.pc = "acquire" PROVE Fits(c, s, objects[Object(c)], Users(Object(c)), Entries(c))
    BY <2>1, <2>5, KnownCall DEF Fits, Before, At
  <2>6. "acquire" \in Places /\ "acquire" \in Route(Kind(c))
    BY DEF Places, Route, Common
  <2> QED BY <2>1, <2>4, <2>5, <2>6, GoesIdly, IdleKeepsBytes
<1>2. CASE c \in fresh
  <2> DEFINE granted == [holder |-> c, mode |-> Mode(c), generation |-> NextGeneration(c),
                         expires |-> call[c].now + LeaseTtlMs]
             live == Live(Object(c), call[c].now)
  <2>1. /\ At(c, "claim") /\ Write(c, Granted(c)) /\ UNCHANGED <<objects, records, edges, receipts, clock>>
    BY <1>2 DEF Claim
  <2>2. PICK p \in {"head", "get", "held"} :
          /\ Goto(c, p) /\ (p = "head" => Kind(c) = "write") /\ (p = "get" => Kind(c) = "import")
          /\ p = "held" => Mode(c) = "exclusive-delete"
    BY <1>2, KnownCall DEF Claim, Makes, Kinds
  <2>3. ~Refused(c) /\ Entries(c) = {} /\ call[c].round = 0
    BY <1>2, <2>1 DEF IInv, Decided, DecidedAt, NoneYet, Early, EarlyAt, At
  <2>4. Moved(c, p, call[c].now, call[c].round, call[c].bytes, call[c].result)
    BY <2>2, CallFacts, GotoMoves DEF Places
  <2>5. /\ rows[Object(c)] \in Row /\ NextGeneration(c) \in Nat /\ call[c].now <= clock
    BY CallFacts DEF IInv, TypeOK, CallStates, Row, NextGeneration, Placed
  <2>6. granted \in Leases /\ live \subseteq rows[Object(c)].leases
    BY <2>5, KnownCall, Numbers DEF Leases, Live
  <2>7. Granted(c) = [generation |-> NextGeneration(c), leases |-> live \cup {granted}]
    BY DEF Granted
  <2>8. Granted(c) \in Row /\ Granted(c).leases = live \cup {granted}
    BY <2>5, <2>6, <2>7 DEF Row
  <2>9. granted.holder = c /\ granted.mode = Mode(c)
    OBVIOUS
  <2> HIDE DEF granted
  <2>10. \A l \in rows[Object(c)].leases : l.holder # c /\ l.expires > clock => l \in Granted(c).leases
    <3> SUFFICES ASSUME NEW l \in rows[Object(c)].leases, l.expires > clock PROVE l \in live
      BY <2>8
    <3>1. l.expires \in Nat
      BY <2>5 DEF Row, Leases
    <3> QED BY <3>1, <2>5, KnownCall DEF Live
  <2>11. \A l, m \in Granted(c).leases : l.mode = "exclusive-delete" => l = m
    <3>1. \A l \in live : Mode(c) = "shared-writer" /\ l.mode # "exclusive-delete"
      BY <2>3, KnownCall DEF Refused
    <3> HIDE DEF live
    <3> QED BY <2>8, <2>9, <3>1
  <2>12. Fits(c, call'[c], objects[Object(c)], Users(Object(c)), {l \in Granted(c).leases : l.holder = c})
    BY <2>1, <2>2, <2>3, <2>4, KnownCall DEF Fits, Before, Moved, At, Drops
  <2>13. call'[c].pc \in Route(Kind(c))
    BY <2>2, <2>4, KnownCall DEF Route, Moved, Removing, Makes, Kinds
  <2>14. \A l \in Granted(c).leases : l \in rows[Object(c)].leases \/ l.holder = c
    BY <2>6, <2>8, <2>9
  <2> QED BY <2>1, <2>4, <2>8, <2>10, <2>11, <2>12, <2>13, <2>14, RowKeepsBytes DEF Moved
<1> QED BY <1>1, <1>2

LEMMA RenewingBytes == ASSUME IInv, BytesInv, NEW c \in Calls, Renewing(c) PROVE BytesInv'
<1>1. CASE c \notin fresh
  <2>1. UNCHANGED <<objects, records, rows, clock>> /\ fresh' \subseteq fresh \cup {c} /\ LeaseLost(c)
        /\ At(c, "renewing")
    BY <1>1 DEF Renewing
  <2>2. Arrived(c)
    BY <2>1, CallFacts, LeaseLostArrives
  <2>3. StoresTyped' /\ Forgets
    BY <1>1, CallFacts DEF Forgets, StoresTyped, Renewing
  <2>4. Quiet(c)
    BY <2>1, <2>2, <2>3, ArrivesQuietly
  <2> QED BY <2>1, <2>4, LeaseLostIdly, IdleKeepsBytes
<1>2. CASE c \in fresh
  <2>1. At(c, "renewing") /\ Write(c, Renewed(c)) /\ UNCHANGED <<objects, records, edges, receipts, clock>>
    BY <1>2 DEF Renewing
  <2>2. HasLive(c)
    BY <1>2, <2>1, CallFacts DEF Decided, DecidedAt, At
  <2>3. PICK l \in rows[Object(c)].leases :
          Entries(c) = {l} /\ l.holder = c /\ l.mode = Mode(c) /\ l.expires > call[c].now /\ l \in Leases
    BY <2>2, OneEntry
  <2> DEFINE row == rows[Object(c)]
             renewed == [l EXCEPT !.expires = call[c].now + LeaseTtlMs]
  <2>4. row \in Row
    BY CallFacts DEF IInv, TypeOK, Row
  <2>5. /\ renewed \in Leases /\ renewed.holder = c /\ renewed.mode = l.mode
        /\ renewed.expires = call[c].now + LeaseTtlMs
    BY <2>3, KnownCall, Numbers DEF Leases
  <2>6. Renewed(c) = [row EXCEPT !.leases = (row.leases \ {l}) \cup {renewed}]
    BY <2>3 DEF Renewed
  <2> HIDE DEF renewed
  <2>7. Renewed(c) \in Row /\ Renewed(c).leases = (row.leases \ {l}) \cup {renewed}
    BY <2>4, <2>5, <2>6 DEF Row
  <2>8. {m \in Renewed(c).leases : m.holder = c} = {renewed}
    BY <2>3, <2>5, <2>7 DEF Entries
  <2>9. \A m, n \in Renewed(c).leases : m.mode = "exclusive-delete" => m = n
    <3>1. \A m, n \in row.leases : m.mode = "exclusive-delete" => m = n
      BY CallFacts DEF BytesInv, Lone
    <3> QED BY <2>3, <2>5, <2>7, <3>1
  <2>10. /\ \A m \in Renewed(c).leases : m \in row.leases \/ m.holder = c
         /\ \A m \in row.leases : m.holder # c => m \in Renewed(c).leases
    BY <2>3, <2>5, <2>7
  <2>11. Alone(c) /\ call'[c].pc \in Route(Kind(c))
         /\ Fits(c, call'[c], objects[Object(c)], Users(Object(c)), {renewed})
    <3>1. CASE Mode(c) = "exclusive-delete"
      <4>1. PICK p \in {"erase", "compare", "held"} :
              /\ Goto(c, p) /\ p \in Route(Kind(c)) /\ (p = "held" => Kind(c) # "delete")
              /\ p = "erase" => Kind(c) = "delete" \/ call[c].round = 3
        BY <1>2, <3>1, <2>1, KnownCall
           DEF Renewing, AfterRound, Route, Removing, Makes, Kinds, Fits, At
      <4>2. Moved(c, p, call[c].now, call[c].round, call[c].bytes, call[c].result)
        BY <4>1, CallFacts, GotoMoves DEF Places
      <4>3. ~Drops(c) /\ Users(Object(c)) = {}
        BY <3>1, <2>1, <2>3, KnownCall DEF Fits, At, Drops, MayDrop, Makes
      <4>4. p = "erase" => clock < call[c].now + LeaseTtlMs
        BY <3>1, <4>1, <2>1, KnownCall DEF Fits, At
      <4>5. Fits(c, call'[c], objects[Object(c)], Users(Object(c)), {renewed})
        BY <3>1, <4>1, <4>2, <4>3, <4>4, <2>5 DEF Fits, Moved
      <4> QED BY <4>1, <4>2, <4>5 DEF Moved
    <3>2. CASE Mode(c) # "exclusive-delete"
      <4>1. GotoNow(c, "commit") /\ Makes(Kind(c)) /\ Mode(c) = "shared-writer"
        BY <1>2, <3>2, KnownCall DEF Renewing, Makes
      <4>2. Moved(c, "commit", clock, call[c].round, call[c].bytes, call[c].result)
        BY <4>1, CallFacts, GotoNowMoves DEF Places
      <4>3. "commit" \in Route(Kind(c))
        BY <4>1 DEF Route, Making, Makes
      <4>4. (Drops(c) => Users(Object(c)) = {}) /\ objects[Object(c)] = call[c].bytes
        BY <4>1, <2>1, <2>3, KnownCall DEF Fits, Before, At
      <4>5. Fits(c, call'[c], objects[Object(c)], Users(Object(c)), {renewed})
        BY <4>1, <4>2, <4>4 DEF Fits, Moved, Before
      <4> QED BY <4>2, <4>3, <4>5 DEF Moved
    <3> QED BY <3>1, <3>2
  <2> QED BY <2>1, <2>7, <2>8, <2>9, <2>10, <2>11, RowKeepsBytes
<1> QED BY <1>1, <1>2

LEMMA ReleasingBytes == ASSUME IInv, BytesInv, NEW c \in Calls, Releasing(c) PROVE BytesInv'
<1>1. "ended" \in Resting /\ "ended" \in Route(Kind(c)) /\ "ended" \in Places
  BY DEF Resting, Route, Common, Places
<1>2. CASE c \notin fresh
  <2>1. UNCHANGED <<objects, records, rows, clock>> /\ fresh' \subseteq fresh \cup {c} /\ NotReleased(c)
    BY <1>2 DEF Releasing
  <2>2. Arrived(c)
    BY <2>1, CallFacts, NotReleasedArrives
  <2>3. StoresTyped' /\ Forgets
    BY <1>2, CallFacts DEF Forgets, StoresTyped, Releasing
  <2>4. Quiet(c)
    BY <2>1, <2>2, <2>3, ArrivesQuietly
  <2>5. call[c].outcome \in Outcomes /\ "unreleased" \in Outcomes
    BY CallFacts DEF TypeOK, CallStates, Outcomes
  <2> QED BY <1>1, <2>1, <2>4, <2>5, RestsIdly, IdleKeepsBytes DEF NotReleased, End
<1>3. CASE c \in fresh
  <2> DEFINE row == rows[Object(c)]
  <2>1. Write(c, Released(c)) /\ Goto(c, "ended") /\ UNCHANGED <<objects, records, clock>>
    BY <1>3 DEF Releasing
  <2>2. row \in Row
    BY CallFacts DEF IInv, TypeOK, Row
  <2>3. Released(c) \in Row /\ Released(c).leases = row.leases \ Entries(c)
    BY <2>2 DEF Released, Row
  <2>4. /\ \A l \in Released(c).leases : l \in row.leases
        /\ \A l \in row.leases : l.holder # c => l \in Released(c).leases
    BY <2>3 DEF Entries
  <2>5. \A l, m \in Released(c).leases : l.mode = "exclusive-delete" => l = m
    <3>1. \A m, n \in row.leases : m.mode = "exclusive-delete" => m = n
      BY CallFacts DEF BytesInv, Lone
    <3> QED BY <2>4, <3>1
  <2>6. Alone(c) /\ call'[c].pc = "ended"
    BY <1>1, <2>1, CallFacts, GotoMoves DEF Moved
  <2>7. Fits(c, call'[c], objects[Object(c)], Users(Object(c)), {l \in Released(c).leases : l.holder = c})
    BY <1>1, <2>6, RestingFits
  <2> QED BY <1>1, <2>1, <2>3, <2>4, <2>5, <2>6, <2>7, RowKeepsBytes
<1> QED BY <1>2, <1>3

(* A record is made of bytes that no one may have deleted since they were
   digested, and of an object that no one else may drop or is deleting. *)
LEMMA CommittingBytes == ASSUME IInv, BytesInv, NEW c \in Calls, Committing(c) PROVE BytesInv'
<1>1. /\ At(c, "committing") /\ UNCHANGED <<objects, edges, rows, fresh, clock>>
      /\ Mode(c) = "shared-writer" /\ Makes(Kind(c))
  BY KnownCall, CallFacts DEF Committing, At, Placed, PlacedAt, WritersPlaces
<1>2. CASE ~MayCommit(c)
  <2>1. UNCHANGED <<records, receipts>> /\ Goto(c, "recheck") /\ "recheck" \in Places
    BY <1>2 DEF Committing, Places
  <2>2. Arrived(c)
    BY <1>1, <2>1, CallFacts, GotoArrives
       DEF At, Placed, PlacedAt, DecidedAt, WritersPlaces, Early, EarlyAt
  <2>3. Quiet(c)
    BY <1>1, <2>1, <2>2, CallFacts, ArrivesQuietly DEF StoresTyped, Forgets
  <2>4. ASSUME NEW s, s.pc = "recheck" PROVE Fits(c, s, objects[Object(c)], Users(Object(c)), Entries(c))
    BY <1>1, <2>4, KnownCall DEF Fits, Before, At
  <2>5. "recheck" \in Route(Kind(c))
    BY <1>1 DEF Route, Making, Makes
  <2> QED BY <1>1, <2>1, <2>3, <2>4, <2>5, GoesIdly, IdleKeepsBytes
<1>3. CASE MayCommit(c)
  <2> DEFINE a == Asked(c).artifact
             record == [object |-> Object(c), bytes |-> call[c].bytes, key |-> Asked(c).key,
                        source |-> Asked(c).source]
             s == [call[c] EXCEPT !.pc = "lineage", !.made = TRUE, !.result = a]
  <2>1. records' = [records EXCEPT ![a] = record] /\ call' = [call EXCEPT ![c] = s]
    BY <1>3 DEF Committing, Move
  <2>2. record.object = Object(c) /\ record.bytes = call[c].bytes
    OBVIOUS
  <2>3. s.request = call[c].request /\ s.pc = "lineage" /\ s.made
    BY KnownCall DEF CallStates
  <2> HIDE DEF record, s
  <2>4. /\ records \in [Artifacts -> Records \cup {None}] /\ a \in Artifacts /\ records[a] = None
        /\ call \in [Calls -> CallStates]
    BY <1>3, CallFacts DEF StoresTyped, MayCommit, TypeOK
  <2>5. Steps(c) /\ call'[c] = s
    BY <1>1, <2>1, <2>3, <2>4 DEF Steps
  <2>6. \A d \in Calls : Object(d)' = Object(d) /\ Entries(d)' = Entries(d)
    BY <1>1, <2>5 DEF Steps, Object, Asked, Entries
  <2>7. \A b \in Artifacts : records'[b] = IF b = a THEN record ELSE records[b]
    BY <2>1, <2>4
  <2>8. HasLive(c) /\ Entries(c) # {}
    BY <1>1, <1>3, CallFacts DEF MayCommit, Decided, DecidedAt, At, HasLive
  <2>9. objects[Object(c)] = call[c].bytes /\ (Drops(c) => Users(Object(c)) = {})
    BY <1>1, <2>8, KnownCall DEF Fits, Before, At
  <2>10. RecordsHaveBytes'
    BY <1>1, <2>2, <2>7, <2>9 DEF BytesInv, RecordsHaveBytes
  <2>11. Drops(c) => Users(Object(c))' \subseteq {a}
    BY <2>6, <2>7, <2>9 DEF Users
  <2>12. Fits(c, call'[c], objects'[Object(c)], Users(Object(c))', Entries(c)')
    <3>1. Drops(c) => \/ Users(Object(c))' = {}
                      \/ Users(Object(c))' = {Asked(c).artifact} /\ call'[c].made
      BY <2>3, <2>5, <2>11
    <3> QED BY <1>1, <2>3, <2>5, <3>1 DEF Fits, Before
  <2>13. "lineage" \in Route(Kind(c))
    BY <1>1 DEF Route, Making, Makes
  <2>14. OnRoute(c)' /\ FitsNow(c)'
    BY <1>1, <2>3, <2>5, <2>12, <2>13, Settles
  <2>15. ASSUME NEW d \in Calls \ {c} PROVE Spares(c, d)
    <3>1. CASE Object(d) # Object(c)
      <4>1. \A b \in Users(Object(d))' : b \in Users(Object(d))
        BY <2>2, <2>6, <2>7, <3>1 DEF Users
      <4> QED BY <1>1, <2>6, <4>1 DEF Spares
    <3>2. CASE Object(d) = Object(c)
      <4>1. ~Drops(d)
        BY <1>1, <3>2 DEF BytesInv, Sole
      <4>2. Mode(d) = "shared-writer" \/ Entries(d) = {}
        BY <2>8, <3>2, KnownCall, LoneEntries
      <4> QED BY <1>1, <2>6, <4>1, <4>2 DEF Spares
    <3> QED BY <3>1, <3>2
  <2> QED BY <1>1, <2>5, <2>10, <2>14, <2>15, QuietKeepsLone, StepKeepsBytes
<1> QED BY <1>2, <1>3

(* Time does not reach the end of the lease under which an object is about
   to be erased. *)
LEMMA TickBytes == ASSUME IInv, BytesInv, Prompt, Tick PROVE BytesInv'
<1>1. UNCHANGED <<objects, records, rows, call>> /\ clock' = clock + 1
  BY DEF Tick, store
<1>2. \A d \in Calls : /\ Kind(d)' = Kind(d) /\ Mode(d)' = Mode(d) /\ Object(d)' = Object(d)
                       /\ Asked(d)' = Asked(d) /\ Drops(d)' = Drops(d) /\ Entries(d)' = Entries(d)
                       /\ Users(Object(d))' = Users(Object(d))
  BY <1>1 DEF Kind, Mode, Object, Asked, Drops, Entries, Users
<1>3. ASSUME NEW d \in Calls PROVE OnRoute(d)' /\ FitsNow(d)'
  <2>1. OnRoute(d)'
    BY <1>1, <1>2 DEF BytesInv, OnRoute
  <2>2. Fits(d, call[d], objects[Object(d)], Users(Object(d)), Entries(d))
    BY KnownCall
  <2>3. Mode(d) = "exclusive-delete" /\ Erasing(d) => clock' < call[d].now + LeaseTtlMs
    BY <1>1 DEF Tick
  <2>4. FitsNow(d)'
    BY <1>1, <1>2, <2>2, <2>3 DEF FitsNow, Fits, Erasing, At
  <2> QED BY <2>1, <2>4
<1> QED BY <1>1, <1>2, <1>3 DEF BytesInv, Sole, Lone, RecordsHaveBytes

LEMMA QuietBytes ==
  ASSUME IInv, BytesInv, NEW c \in Calls, Leasing(c) \/ Bringing(c) \/ Recording(c) \/ Deleting(c) \/ Die(c)
  PROVE  BytesInv'
<1>1. CASE Leasing(c)
  BY <1>1, AcquireIdly, AcquireQuiet, ReferencesIdly, ReferencesQuiet, RenewIdly, RenewQuiet,
     ReleaseIdly, ReleaseQuiet, IdleKeepsBytes, ClaimBytes, RenewingBytes, ReleasingBytes DEF Leasing
<1>2. CASE Bringing(c)
  BY <1>2, PriorIdly, PriorQuiet, ReplayIdly, ReplayQuiet, HeadIdly, HeadQuiet, BesideIdly, BesideQuiet,
     AdoptIdly, AdoptQuiet, GetIdly, GetQuiet, IdleKeepsBytes, PutBytes, PutUncertainBytes, PutFailsBytes
  DEF Bringing
<1>3. CASE Recording(c)
  BY <1>3, CommitIdly, CommitQuiet, ReceiptIdly, ReceiptQuiet, RecheckIdly, RecheckQuiet,
     LineageIdly, LineageQuiet, LinkIdly, LinkQuiet, UnlinkIdly, UnlinkQuiet, IdleKeepsBytes,
     CommittingBytes, UndoBytes, ScrapBytes, DropBytes DEF Recording
<1>4. CASE Deleting(c)
  BY <1>4, FindIdly, FindQuiet, BeforeLeaseIdly, BeforeLeaseQuiet, ListIdly, ListQuiet, AuditIdly,
     AuditQuiet, HeldIdly, HeldQuiet, CompareIdly, CompareQuiet, IdleKeepsBytes, UnrecordBytes, EraseBytes
  DEF Deleting
<1>5. CASE Die(c)
  BY <1>5, DieIdly, DieQuiet, IdleKeepsBytes
<1> QED BY <1>1, <1>2, <1>3, <1>4, <1>5

LEMMA NextBytes == IInv /\ BytesInv /\ Prompt /\ [Next]_vars => BytesInv'
<1> SUFFICES ASSUME IInv, BytesInv, Prompt, [Next]_vars PROVE BytesInv'
  OBVIOUS
<1>1. CASE UNCHANGED vars
  <2>1. UNCHANGED <<objects, records, rows, call, clock>>
    BY <1>1 DEF vars, store
  <2> QED BY <2>1 DEF BytesInv, Sole, OnRoute, FitsNow, Fits, Users, Entries, Drops, Lone, RecordsHaveBytes,
                      Object, Mode, Kind, Asked
<1> QED BY <1>1, QuietBytes, TickBytes DEF Next, AllEnded

LEMMA Begins ==
  ASSUME Init
  PROVE  \E r \in Requests : \A c \in Calls :
           /\ Asked(c) = r[c] /\ Kind(c) = r[c].kind /\ Object(c) = r[c].object
           /\ call[c].pc = First[Kind(c)] /\ ~call[c].made /\ call[c].outcome = None
           /\ Kind(c) \in Kinds /\ Asked(c) \in Request
<1>1. PICK r \in Requests :
        call = [c \in Calls |-> [request |-> r[c], pc |-> First[r[c].kind],
                                now |-> 0, attempts |-> 0, round |-> 0, bytes |-> None,
                                made |-> FALSE, result |-> None, outcome |-> None]]
  BY DEF Init
<1>2. \A c \in Calls : r[c] \in Request /\ r[c].kind \in Kinds
  BY ArtifactsAssumption DEF ArtifactsAssumption, Request
<1> QED BY <1>1, <1>2 DEF Asked, Kind, Object

LEMMA InitBytes == OwnObjects /\ Init => BytesInv
<1> SUFFICES ASSUME OwnObjects, Init PROVE BytesInv
  OBVIOUS
<1>1. PICK r \in Requests : \A c \in Calls :
           /\ Asked(c) = r[c] /\ Kind(c) = r[c].kind /\ Object(c) = r[c].object
           /\ call[c].pc = First[Kind(c)] /\ ~call[c].made /\ call[c].outcome = None
           /\ Kind(c) \in Kinds /\ Asked(c) \in Request
  BY Begins
<1>2. \A a \in Artifacts : records[a] # None
        => a \in DOMAIN Recorded /\ records[a].object = Recorded[a] /\ records[a].bytes = Stored[Recorded[a]]
  BY DEF Init
<1>3. RecordsHaveBytes
  BY <1>2, ArtifactsAssumption DEF ArtifactsAssumption, Init, RecordsHaveBytes
<1>4. Sole
  <2>1. ASSUME NEW c \in Calls, NEW d \in Calls, c # d, Drops(c), Mode(d) = "shared-writer"
        PROVE  Object(d) # Object(c)
    <3>1. MayDrop(r[c].kind, r[c].key) /\ Makes(r[d].kind)
      BY <1>1, <2>1 DEF Drops, Mode, Makes
    <3> QED BY <1>1, <2>1, <3>1 DEF OwnObjects
  <2> QED BY <2>1 DEF Sole
<1>5. ASSUME NEW c \in Calls PROVE OnRoute(c) /\ FitsNow(c)
  <2>1. call[c].pc = CASE Kind(c) \in {"write", "import"} -> "prior"
                       [] Kind(c) = "delete" -> "find" [] OTHER -> "list"
    BY <1>1 DEF First, Kinds
  <2>2. OnRoute(c)
    BY <1>1, <2>1 DEF OnRoute, Route, Making, Kinds
  <2>3. Kind(c) = "import" /\ Drops(c) => Users(Object(c)) = {}
    <3> SUFFICES ASSUME Kind(c) = "import", Drops(c), NEW a \in Users(Object(c)) PROVE FALSE
      OBVIOUS
    <3>1. a \in DOMAIN Recorded /\ Recorded[a] = Object(c)
      BY <1>2 DEF Users
    <3>2. \A b \in DOMAIN Recorded : Recorded[b] # r[c].object
      BY <1>1 DEF OwnObjects, Drops
    <3> QED BY <1>1, <3>1, <3>2
  <2>4. FitsNow(c)
    BY <1>1, <2>1, <2>3 DEF FitsNow, Fits, Before, Kinds
  <2> QED BY <2>2, <2>4
<1>6. \A o \in Objects : Lone(o)
  BY DEF Init, Lone
<1> QED BY <1>3, <1>4, <1>5, <1>6 DEF BytesInv

(* Every recorded artifact has its bytes, whatever the calls do, in every
   order, with every fault and with calls that die: if deletions land
   before their lease runs out, and what a call may drop without an
   exclusive lease is its own (coordinator.ts, the leases of store.ts,
   #deleteOrphan). *)
THEOREM RecordsHaveBytesHolds ==
  ASSUME OwnObjects, Prompt
  PROVE  Spec => []RecordsHaveBytes
<1>1. Init => BytesInv
  BY InitBytes
<1>2. IInv /\ BytesInv /\ [Next]_vars => BytesInv'
  BY NextBytes
<1>3. BytesInv => RecordsHaveBytes
  BY DEF BytesInv
<1> QED BY <1>1, <1>2, <1>3, SpecIInv, PTL DEF Spec

--------------------
(* What a failed write leaves. A step of c changes of another write's
   object and record at most that they go. *)
LEMMA StepKeepsClean ==
  ASSUME CleanInv, NEW c \in Calls, Steps(c), CleanNow(c)',
         \/ \A o \in Objects : objects'[o] \in {objects[o], None}
         \/ Mode(c) = "shared-writer" /\ \A o \in Objects \ {Object(c)} : objects'[o] = objects[o],
         \/ \A a \in Artifacts : records'[a] \in {records[a], None}
         \/ Mode(c) = "shared-writer" /\ \A a \in Artifacts \ {Asked(c).artifact} : records'[a] = records[a],
         IInv
  PROVE  CleanInv'
<1>1. \A d \in Calls : call'[d].request = call[d].request
  BY DEF Steps
<1>2. \A d \in Calls : /\ Kind(d)' = Kind(d) /\ Mode(d)' = Mode(d)
                       /\ Object(d)' = Object(d) /\ Asked(d)' = Asked(d)
  BY <1>1 DEF Kind, Mode, Object, Asked
<1>3. Apart'
  BY <1>2 DEF CleanInv, Apart
<1>4. ASSUME NEW d \in Calls \ {c}, Kind(d) = "write"
      PROVE  Clean(d, call[d], objects[Object(d)], records[Asked(d).artifact])'
  <2>1. call'[d] = call[d]
    BY DEF Steps
  <2>2. Clean(d, call[d], objects[Object(d)], records[Asked(d).artifact])
    BY <1>4 DEF CleanInv, CleanNow
  <2>3. Mode(c) = "shared-writer" => Object(c) # Object(d) /\ Asked(c).artifact # Asked(d).artifact
    BY <1>4 DEF CleanInv, Apart
  <2>4. /\ objects'[Object(d)] \in {objects[Object(d)], None}
        /\ records'[Asked(d).artifact] \in {records[Asked(d).artifact], None}
    BY <2>3, CallFacts
  <2> QED BY <1>2, <2>1, <2>2, <2>4 DEF Clean
<1> QED BY <1>2, <1>3, <1>4 DEF CleanInv, CleanNow

LEMMA Tidies ==
  ASSUME NEW c \in Calls, call'[c].request = call[c].request,
         Kind(c) = "write" => Clean(c, call'[c], objects'[Object(c)], records'[Asked(c).artifact])
  PROVE  CleanNow(c)'
<1>1. Kind(c)' = Kind(c) /\ Object(c)' = Object(c) /\ Asked(c)' = Asked(c)
  BY DEF Kind, Object, Asked
<1> QED BY <1>1 DEF CleanNow, Clean

(* Where a call is taken, and with what outcome. *)
Taken(c, p, out) == /\ Alone(c) /\ call'[c].pc = p /\ call'[c].outcome = out

LEMMA GotoTakes ==
  ASSUME TypeOK, NEW c \in Calls, NEW p \in Places, Goto(c, p)
  PROVE  Taken(c, p, call[c].outcome)
<1>1. call[c] \in CallStates /\ call \in [Calls -> CallStates]
  BY DEF TypeOK
<1>2. call'[c].outcome = call[c].outcome
  BY <1>1 DEF Goto, Move, CallStates
<1> QED BY <1>2, GotoMoves DEF Taken, Moved

LEMMA GotoWithTakes ==
  ASSUME TypeOK, NEW c \in Calls, NEW p \in Places, NEW out \in Outcomes, GotoWith(c, p, out)
  PROVE  Taken(c, p, out)
<1>1. call[c] \in CallStates /\ call \in [Calls -> CallStates]
  BY DEF TypeOK
<1>2. call'[c].outcome = out
  BY <1>1 DEF GotoWith, Move, CallStates
<1> QED BY <1>2, GotoWithMoves DEF Taken, Moved

LEMMA ReplayedTakes ==
  ASSUME TypeOK, NEW c \in Calls, NEW p \in Places, NEW a \in Artifacts, Replayed(c, p, a)
  PROVE  Taken(c, p, "replayed")
<1>1. call[c] \in CallStates /\ call \in [Calls -> CallStates]
  BY DEF TypeOK
<1>2. call'[c].outcome = "replayed"
  BY <1>1 DEF Replayed, Move, CallStates
<1> QED BY <1>2, ReplayedMoves DEF Taken, Moved

LEMMA Routed ==
  /\ Common \subseteq Route("write") /\ Making \subseteq Route("write")
  /\ {"head", "beside", "adopt", "put", "putBeside", "scrap"} \subseteq Route("write")
  /\ Route("write") \subseteq Places /\ Soon \subseteq Route("write") /\ Late \subseteq Route("write")
BY DEF Route, Common, Making, Places, Soon, Late

CleanOf(c) == Clean(c, call[c], objects[Object(c)], records[Asked(c).artifact])

(* A write that has made no record leaves none, and what its object holds
   was there. *)
LEMMA TakenClean ==
  ASSUME NEW c \in Calls, CleanOf(c), UNCHANGED <<objects, records>>, NEW p \in Route("write"), NEW out,
         Taken(c, p, out), p \notin {"unlink", "scrap"}, call[c].made => p \in Late,
         p \in Soon => call[c].pc \in Soon,
         p \in {"beside", "adopt", "putBeside"} => Object(c) \in DOMAIN Stored,
         p = "drop" => out = "replayed",
         \/ p \notin {"release", "releasing", "ended"} \/ out \notin {"failed", "conflict"}
         \/ call[c].pc \in Soon
         \/ call[c].pc \in {"release", "releasing"} /\ out = call[c].outcome
  PROVE  CleanNow(c)'
<1>1. /\ call'[c].request = call[c].request /\ call'[c].made = call[c].made
      /\ call'[c].pc = p /\ call'[c].outcome = out
  BY DEF Taken, Alone
<1>2. call[c].pc \in Soon => ~call[c].made
  BY DEF CleanOf, Clean, Soon, Late
<1>3. Clean(c, call'[c], objects[Object(c)], records[Asked(c).artifact])
  BY <1>1, <1>2 DEF CleanOf, Clean
<1> QED BY <1>1, <1>3, Tidies

LEMMA WriteKnown ==
  ASSUME IInv, CleanInv, NEW c \in Calls, Kind(c) = "write"
  PROVE  /\ CleanOf(c) /\ Mode(c) = "shared-writer" /\ call[c].outcome \in Outcomes
         /\ call[c].pc \in Route("write")
         /\ call[c].pc \notin Late => ~call[c].made /\ records[Asked(c).artifact] = None
BY CallFacts DEF CleanInv, CleanNow, CleanOf, Mode, TypeOK, CallStates, Clean

(* The writes' moves that leave objects and records. *)
LEMMA GoesClean ==
  ASSUME IInv, CleanInv, NEW c \in Calls, Kind(c) = "write", UNCHANGED <<objects, records>>,
         NEW p \in Route("write") \ {"unlink", "scrap", "drop", "release", "releasing", "ended"},
         \/ Goto(c, p) \/ GotoNow(c, p) \/ (Attempt(c, p) /\ ~OutOfAttempts(c))
         \/ \E b \in Bytes : Digested(c, b) /\ p = "renew"
         \/ \E a \in Artifacts : records[a] # None /\ Remember(c, a) /\ p = "replay"
         \/ \E out \in Outcomes : Fail(c, out) /\ p = "undo",
         call[c].made => p \in Late, p \in Soon => call[c].pc \in Soon,
         p \in {"beside", "adopt", "putBeside"} => Object(c) \in DOMAIN Stored
  PROVE  CleanNow(c)'
<1>1. Taken(c, p, call'[c].outcome)
  BY CallFacts, Routed, Numbers, GotoMoves, GotoNowMoves, AttemptMoves, DigestedMoves, RememberMoves,
     GotoWithMoves DEF Fail, Taken, Moved, OutOfAttempts
<1> QED BY <1>1, WriteKnown, TakenClean

LEMMA LeavesClean ==
  ASSUME IInv, CleanInv, NEW c \in Calls, Kind(c) = "write", UNCHANGED <<objects, records>>,
         NEW p \in {"release", "ended"}, NEW out \in Outcomes, GotoWith(c, p, out),
         \/ call[c].pc \in Soon \/ out \notin {"failed", "conflict"}
         \/ call[c].pc \in {"release", "releasing"} /\ out = call[c].outcome
  PROVE  CleanNow(c)'
<1>1. p \in Places /\ p \in Route("write") /\ p \in Late
  BY Routed DEF Late
<1>2. Taken(c, p, out)
  BY <1>1, CallFacts, GotoWithTakes
<1>3. p \notin Soon /\ p \notin {"unlink", "scrap", "drop", "beside", "adopt", "putBeside"}
  BY DEF Soon
<1> QED BY <1>1, <1>2, <1>3, WriteKnown, TakenClean

LEMMA LeaseLostClean ==
  ASSUME IInv, CleanInv, NEW c \in Calls, Kind(c) = "write", UNCHANGED <<objects, records>>, LeaseLost(c)
  PROVE  CleanNow(c)'
<1>1. Fail(c, "failed") /\ "failed" \in Outcomes
  BY DEF LeaseLost, Outcomes
<1>2. "undo" \in Route("write") /\ "undo" \in Late /\ "undo" \notin Soon
  BY Routed DEF Late, Soon
<1> QED BY <1>1, <1>2, GoesClean

(* Leasing *)
LEMMA LeasingClean ==
  ASSUME IInv, CleanInv, NEW c \in Calls, Kind(c) = "write", Leasing(c)
  PROVE  CleanNow(c)' /\ UNCHANGED <<objects, records>>
<1>1. UNCHANGED <<objects, records>>
  BY DEF Leasing, Acquire, References, Claim, Renew, Renewing, Release, Releasing, store
<1> SUFFICES CleanNow(c)'
  BY <1>1
<1>2. /\ {"claim", "acquire", "head", "renewing", "commit"} \subseteq Route("write")
      /\ {"claim", "acquire", "head"} \subseteq Soon
      /\ {"renewing", "commit", "releasing"} \cap Soon = {}
      /\ {"failed", "unreleased"} \subseteq Outcomes
      /\ {"acquire", "claim", "renew", "renewing"} \cap Late = {}
  BY DEF Route, Common, Making, Soon, Outcomes, Late
<1>3. CASE Acquire(c)
  <2>1. At(c, "acquire") /\ Mode(c) = "shared-writer"
    BY <1>3, WriteKnown DEF Acquire
  <2>2. (Attempt(c, "claim") /\ ~OutOfAttempts(c)) \/ GotoWith(c, "ended", "failed")
    BY <1>3, <2>1 DEF Acquire, Unavailable, End
  <2>3. call[c].pc \in Soon /\ ~call[c].made
    BY <1>2, <2>1, WriteKnown DEF At, Soon
  <2>4. CASE Attempt(c, "claim") /\ ~OutOfAttempts(c)
    BY <1>1, <1>2, <2>3, <2>4, GoesClean
  <2>5. CASE GotoWith(c, "ended", "failed")
    BY <1>1, <1>2, <2>3, <2>5, LeavesClean
  <2> QED BY <2>2, <2>4, <2>5
<1>4. CASE References(c)
  BY <1>4, WriteKnown DEF References, At, Route, Common, Making
<1>5. CASE Claim(c)
  <2>1. At(c, "claim") /\ (Goto(c, "head") \/ Goto(c, "acquire"))
    BY <1>5 DEF Claim
  <2> QED BY <1>1, <1>2, <2>1, WriteKnown, GoesClean DEF At
<1>6. CASE Renew(c)
  <2>1. At(c, "renew") /\ (Goto(c, "renewing") \/ LeaseLost(c))
    BY <1>6 DEF Renew
  <2> QED BY <1>1, <1>2, <2>1, WriteKnown, GoesClean, LeaseLostClean DEF At
<1>7. CASE Renewing(c)
  <2>1. At(c, "renewing") /\ (GotoNow(c, "commit") \/ LeaseLost(c))
    BY <1>7 DEF Renewing
  <2> QED BY <1>1, <1>2, <2>1, WriteKnown, GoesClean, LeaseLostClean DEF At
<1>8. ASSUME At(c, "release") \/ At(c, "releasing"), NotReleased(c)
      PROVE  CleanNow(c)'
  BY <1>1, <1>2, <1>8, WriteKnown, LeavesClean DEF NotReleased, End, At
<1>9. ASSUME NEW p \in {"releasing", "ended"}, At(c, "release") \/ At(c, "releasing"), Goto(c, p)
      PROVE  CleanNow(c)'
  <2>1. p \in Places /\ p \in Route("write") /\ p \in Late /\ p \notin Soon
    BY Routed DEF Late, Soon
  <2>2. Taken(c, p, call[c].outcome)
    BY <1>9, <2>1, CallFacts, GotoTakes
  <2>3. call[c].pc \in {"release", "releasing"} /\ CleanOf(c)
    BY <1>9, WriteKnown DEF At
  <2>4. p \notin {"unlink", "scrap", "drop", "beside", "adopt", "putBeside"}
    OBVIOUS
  <2> QED BY <1>1, <2>1, <2>2, <2>3, <2>4, TakenClean
<1>10. CASE Release(c)
  BY <1>8, <1>9, <1>10 DEF Release
<1>11. CASE Releasing(c)
  BY <1>8, <1>9, <1>11 DEF Releasing
<1> QED BY <1>1, <1>3, <1>4, <1>5, <1>6, <1>7, <1>10, <1>11 DEF Leasing

(* Bringing *)
LEMMA WritePlaces ==
  /\ {"acquire", "replay", "put", "beside", "putBeside", "adopt", "renew", "receipt", "committing",
      "link", "undo", "recheck"} \subseteq Route("write") \ {"unlink", "scrap", "drop", "release", "releasing", "ended"}
  /\ {"prior", "replay", "head", "beside", "adopt", "put", "putBeside", "acquire"} \subseteq Soon
  /\ {"renew", "receipt", "committing", "link", "undo", "recheck"} \cap Soon = {}
  /\ {"link", "undo", "lineage"} \subseteq Late
  /\ Soon \cap Late = {}
  /\ {"failed", "conflict", "replayed", "occupied", "indeterminate", "orphaned", "returned", "dead"} \subseteq Outcomes
BY DEF Route, Common, Making, Soon, Late, Outcomes

LEMMA PlainBringingClean ==
  ASSUME IInv, CleanInv, NEW c \in Calls, Kind(c) = "write",
         Prior(c) \/ Replay(c) \/ Head(c) \/ Beside(c) \/ Adopt(c) \/ Get(c)
  PROVE  CleanNow(c)'
<1>1. UNCHANGED <<objects, records>>
  BY DEF Prior, Replay, Head, Beside, Adopt, Get, store
<1>2. call[c].pc \in Soon => ~call[c].made
  BY WriteKnown, WritePlaces
<1>3. CASE Prior(c)
  <2>1. call[c].pc \in Soon
    BY <1>3, WritePlaces DEF Prior, At
  <2>2. \/ GotoNow(c, "acquire") \/ GotoWith(c, "ended", "conflict")
        \/ \E a \in Artifacts : records[a] # None /\ Remember(c, a)
    BY <1>3 DEF Prior, End
  <2>3. CASE GotoNow(c, "acquire")
    BY <1>1, <1>2, <2>1, <2>3, WritePlaces, GoesClean
  <2>4. CASE GotoWith(c, "ended", "conflict")
    BY <1>1, <1>2, <2>1, <2>4, WritePlaces, LeavesClean
  <2>5. CASE \E a \in Artifacts : records[a] # None /\ Remember(c, a)
    BY <1>1, <1>2, <2>1, <2>5, WritePlaces, GoesClean
  <2> QED BY <2>2, <2>3, <2>4, <2>5
<1>4. CASE Replay(c)
  <2>1. call[c].pc \in Soon
    BY <1>4, WritePlaces DEF Replay, At
  <2>2. \E out \in Outcomes : GotoWith(c, "ended", out)
    BY <1>4, WritePlaces DEF Replay, End
  <2> QED BY <1>1, <2>1, <2>2, LeavesClean
<1>5. CASE Head(c)
  <2>1. call[c].pc = "head" /\ call[c].pc \in Soon /\ ~call[c].made
    BY <1>2, <1>5, WritePlaces DEF Head, At
  <2>2. CASE objects[Object(c)] = None
    BY <1>1, <1>5, <2>1, <2>2, WritePlaces, GoesClean DEF Head
  <2>3. CASE objects[Object(c)] # None
    <3>1. Object(c) \in DOMAIN Stored
      BY <2>1, <2>3, WriteKnown DEF CleanOf, Clean
    <3> QED BY <1>1, <1>5, <2>1, <2>3, <3>1, WritePlaces, GoesClean DEF Head
  <2> QED BY <2>2, <2>3
<1>6. CASE Beside(c)
  <2>1. call[c].pc = "beside" /\ call[c].pc \in Soon /\ ~call[c].made
    BY <1>2, <1>6, WritePlaces DEF Beside, At
  <2>2. Object(c) \in DOMAIN Stored
    BY <2>1, WriteKnown DEF CleanOf, Clean
  <2>3. PICK p \in {"putBeside", "adopt"} : Goto(c, p)
    BY <1>6 DEF Beside
  <2> QED BY <1>1, <2>1, <2>2, <2>3, WritePlaces, GoesClean
<1>7. CASE Adopt(c)
  <2>1. call[c].pc \in Soon /\ ~call[c].made
    BY <1>2, <1>7, WritePlaces DEF Adopt, At
  <2>2. CASE objects[Object(c)] = Asked(c).bytes
    BY <1>1, <1>7, <2>1, <2>2, CallFacts, WritePlaces, GoesClean DEF Adopt
  <2>3. CASE objects[Object(c)] # Asked(c).bytes
    BY <1>1, <1>7, <2>3, WritePlaces, LeavesClean DEF Adopt, Leave
  <2> QED BY <2>2, <2>3
<1>8. CASE Get(c)
  BY <1>8, WriteKnown DEF Get, At, Route, Common, Making
<1> QED BY <1>3, <1>4, <1>5, <1>6, <1>7, <1>8

(* A put leaves what it may have stored when it ends otherwise, or beside
   an object that was there; one that failed at an absent object scraps. *)
LEMMA PuttingClean ==
  ASSUME IInv, CleanInv, NEW c \in Calls, Kind(c) = "write", Put(c) \/ PutUncertain(c) \/ PutFails(c)
  PROVE  CleanNow(c)'
<1>1. UNCHANGED records /\ Putting(c)
  BY DEF Put, PutUncertain, PutFails, store
<1>2. /\ call[c].pc \in {"put", "putBeside"} /\ call[c].pc \in Soon
      /\ ~call[c].made /\ records[Asked(c).artifact] = None
      /\ objects[Object(c)] = None \/ Object(c) \in DOMAIN Stored
      /\ call[c].pc = "putBeside" => Object(c) \in DOMAIN Stored
  BY <1>1, WriteKnown, WritePlaces DEF Putting, At, CleanOf, Clean
<1>3. \/ \E b \in Bytes : Digested(c, b)
      \/ GotoWith(c, "release", "indeterminate")
      \/ /\ GotoWith(c, "release", "failed")
         /\ (UNCHANGED objects \/ call[c].pc = "putBeside")
      \/ GotoWith(c, "scrap", "failed")
  BY CallFacts DEF Put, PutUncertain, PutFails, Leave, At
<1>4. {"release", "scrap", "renew"} \subseteq Places /\ {"release", "scrap", "renew"} \subseteq Route("write")
  BY DEF Places, Route, Common
<1>5. CASE \E b \in Bytes : Digested(c, b)
  <2>1. Taken(c, "renew", call'[c].outcome)
    BY <1>5, CallFacts, DigestedMoves DEF Taken, Moved
  <2>2. Clean(c, call'[c], objects'[Object(c)], records'[Asked(c).artifact]) /\ call'[c].request = call[c].request
    BY <1>1, <1>2, <1>4, <2>1 DEF Taken, Alone, Clean, Soon
  <2> QED BY <2>2, Tidies
<1>6. CASE GotoWith(c, "release", "indeterminate")
  <2>1. Taken(c, "release", "indeterminate")
    BY <1>4, <1>6, CallFacts, WritePlaces, GotoWithTakes
  <2>2. Clean(c, call'[c], objects'[Object(c)], records'[Asked(c).artifact]) /\ call'[c].request = call[c].request
    BY <1>1, <1>2, <1>4, <2>1 DEF Taken, Alone, Clean, Soon
  <2> QED BY <2>2, Tidies
<1>7. CASE GotoWith(c, "release", "failed") /\ (UNCHANGED objects \/ call[c].pc = "putBeside")
  <2>1. Taken(c, "release", "failed")
    BY <1>4, <1>7, CallFacts, WritePlaces, GotoWithTakes
  <2>2. objects'[Object(c)] = None \/ Object(c) \in DOMAIN Stored
    BY <1>2, <1>7
  <2>3. Clean(c, call'[c], objects'[Object(c)], records'[Asked(c).artifact]) /\ call'[c].request = call[c].request
    BY <1>1, <1>2, <1>4, <2>1, <2>2 DEF Taken, Alone, Clean, Soon
  <2> QED BY <2>3, Tidies
<1>8. CASE GotoWith(c, "scrap", "failed")
  <2>1. Taken(c, "scrap", "failed")
    BY <1>4, <1>8, CallFacts, WritePlaces, GotoWithTakes
  <2>2. Clean(c, call'[c], objects'[Object(c)], records'[Asked(c).artifact]) /\ call'[c].request = call[c].request
    BY <1>1, <1>2, <1>4, <2>1 DEF Taken, Alone, Clean, Soon
  <2> QED BY <2>2, Tidies
<1> QED BY <1>3, <1>5, <1>6, <1>7, <1>8

LEMMA BringingClean ==
  ASSUME IInv, CleanInv, NEW c \in Calls, Kind(c) = "write", Bringing(c)
  PROVE  CleanNow(c)'
BY PlainBringingClean, PuttingClean DEF Bringing

--------------------
(* Recording *)
LEMMA AnswerClean ==
  ASSUME IInv, CleanInv, NEW c \in Calls, Kind(c) = "write", UNCHANGED <<objects, records>>,
         call[c].pc \in {"receipt", "recheck"}, Asked(c).key # None, receipts[Asked(c).key] # None,
         Answer(c)
  PROVE  CleanNow(c)'
<1>1. ~call[c].made /\ CleanOf(c)
  BY WriteKnown DEF Late
<1>2. CASE Fail(c, "conflict")
  BY <1>1, <1>2, WritePlaces, GoesClean
<1>3. CASE ~Fail(c, "conflict")
  <2>1. receipts[Asked(c).key].artifact \in Artifacts
    BY CallFacts DEF StoresTyped, Receipts
  <2>2. PICK p \in {"release", "drop"}, a \in Artifacts : Replayed(c, p, a)
    BY <1>3, <2>1 DEF Answer
  <2>3. p \in Places /\ p \in Route("write") /\ p \notin Soon /\ p \notin {"unlink", "scrap"}
    BY Routed DEF Making, Common, Soon
  <2>4. Taken(c, p, "replayed")
    BY <2>2, <2>3, CallFacts, ReplayedTakes
  <2> QED BY <1>1, <2>3, <2>4, TakenClean
<1> QED BY <1>2, <1>3

LEMMA PlainRecordingClean ==
  ASSUME IInv, CleanInv, NEW c \in Calls, Kind(c) = "write",
         Commit(c) \/ Receipt(c) \/ Recheck(c) \/ Lineage(c) \/ Link(c)
  PROVE  CleanNow(c)'
<1>1. UNCHANGED <<objects, records>>
  BY DEF Commit, Receipt, Recheck, Lineage, Link, store
<1>2. call[c].pc \notin Late => ~call[c].made
  BY WriteKnown
<1>3. CASE Commit(c)
  <2>1. At(c, "commit") /\ ~call[c].made
    BY <1>2, <1>3 DEF Commit, At, Late
  <2>2. CASE LeaseLost(c)
    BY <1>1, <2>2, LeaseLostClean
  <2>3. CASE ~LeaseLost(c)
    <3>1. PICK p \in {"committing", "receipt"} : Goto(c, p)
      BY <1>3, <2>3 DEF Commit
    <3> QED BY <1>1, <2>1, <3>1, WritePlaces, GoesClean
  <2> QED BY <2>2, <2>3
<1>4. CASE Receipt(c)
  <2>1. call[c].pc = "receipt" /\ ~call[c].made /\ Asked(c).key # None
    BY <1>2, <1>4, CallFacts DEF Receipt, At, Late, Placed, PlacedAt
  <2>2. CASE receipts[Asked(c).key] = None
    BY <1>1, <1>4, <2>1, <2>2, WritePlaces, GoesClean DEF Receipt
  <2>3. CASE receipts[Asked(c).key] # None
    BY <1>1, <1>4, <2>1, <2>3, AnswerClean DEF Receipt
  <2> QED BY <2>2, <2>3
<1>5. CASE Recheck(c)
  <2>1. call[c].pc = "recheck" /\ ~call[c].made
    BY <1>2, <1>5 DEF Recheck, At, Late
  <2>2. CASE Asked(c).key # None /\ receipts[Asked(c).key] # None
    BY <1>1, <1>5, <2>1, <2>2, AnswerClean DEF Recheck
  <2>3. CASE ~(Asked(c).key # None /\ receipts[Asked(c).key] # None)
    <3>1. Fail(c, "conflict") \/ LeaseLost(c)
      BY <1>5, <2>3 DEF Recheck
    <3> QED BY <1>1, <2>1, <3>1, WritePlaces, GoesClean, LeaseLostClean
  <2> QED BY <2>2, <2>3
<1>6. CASE Lineage(c)
  <2>1. GotoWith(c, "release", "returned") \/ Goto(c, "link") \/ Fail(c, "failed")
    BY <1>6 DEF Lineage, Leave
  <2>2. CASE GotoWith(c, "release", "returned")
    BY <1>1, <2>2, WritePlaces, LeavesClean
  <2>3. CASE Goto(c, "link")
    BY <1>1, <2>3, WritePlaces, GoesClean
  <2>4. CASE Fail(c, "failed")
    BY <1>1, <2>4, WritePlaces, GoesClean
  <2> QED BY <2>1, <2>2, <2>3, <2>4
<1>7. CASE Link(c)
  <2>1. GotoWith(c, "release", "returned")
    BY <1>7 DEF Link, Leave
  <2> QED BY <1>1, <2>1, WritePlaces, LeavesClean
<1> QED BY <1>3, <1>4, <1>5, <1>6, <1>7

LEMMA CommittingClean ==
  ASSUME IInv, CleanInv, NEW c \in Calls, Kind(c) = "write", Committing(c)
  PROVE  CleanNow(c)'
<1>1. UNCHANGED objects /\ At(c, "committing") /\ ~call[c].made
  BY WriteKnown DEF Committing, At, Late
<1>2. CASE ~MayCommit(c)
  <2>1. Goto(c, "recheck") /\ UNCHANGED records
    BY <1>2 DEF Committing
  <2> QED BY <1>1, <2>1, WritePlaces, GoesClean
<1>3. CASE MayCommit(c)
  <2> DEFINE s == [call[c] EXCEPT !.pc = "lineage", !.made = TRUE, !.result = Asked(c).artifact]
  <2>1. call' = [call EXCEPT ![c] = s]
    BY <1>3 DEF Committing, Move
  <2>2. call \in [Calls -> CallStates] /\ call[c] \in CallStates
    BY CallFacts DEF TypeOK
  <2>3. call'[c].request = call[c].request /\ call'[c].pc = "lineage" /\ call'[c].made
    BY <2>1, <2>2 DEF CallStates
  <2>4. Clean(c, call'[c], objects'[Object(c)], records'[Asked(c).artifact])
    BY <2>3, WritePlaces, Routed DEF Clean, Late, Soon
  <2> QED BY <2>3, <2>4, Tidies
<1> QED BY <1>2, <1>3

(* What was made is undone: the record first, then the object. *)
LEMMA UndoingClean ==
  ASSUME IInv, CleanInv, NEW c \in Calls, Kind(c) = "write",
         Undo(c) \/ Unlink(c) \/ Scrap(c) \/ Drop(c)
  PROVE  CleanNow(c)'
<1>1. {"unlink", "scrap", "release", "undo"} \subseteq Places \cap Route("write") \cap Late
  BY DEF Places, Route, Common, Making, Late
<1>2. CASE Undo(c)
  <2>1. /\ call[c].pc = "undo" /\ UNCHANGED objects
        /\ records[Asked(c).artifact] # None => call[c].made
    BY <1>2, WriteKnown DEF Undo, At, CleanOf, Clean
  <2>2. PICK p \in {"unlink", "scrap"} : Goto(c, p) /\ records'[Asked(c).artifact] = None
    BY <1>2, <2>1, CallFacts DEF Undo, AfterUndo, StoresTyped
  <2>3. Taken(c, p, call[c].outcome)
    BY <1>1, <2>2, CallFacts, GotoTakes
  <2>4. call'[c].request = call[c].request /\ Clean(c, call'[c], objects'[Object(c)], records'[Asked(c).artifact])
    BY <1>1, <2>2, <2>3 DEF Taken, Alone, Clean, Soon
  <2> QED BY <2>4, Tidies
<1>3. CASE Unlink(c)
  <2>1. call[c].pc = "unlink" /\ UNCHANGED <<objects, records>> /\ records[Asked(c).artifact] = None
    BY <1>3, WriteKnown DEF Unlink, At, CleanOf, Clean
  <2>2. Goto(c, "scrap")
    BY <1>3 DEF Unlink, AfterUndo
  <2>3. Taken(c, "scrap", call[c].outcome)
    BY <1>1, <2>2, CallFacts, GotoTakes
  <2>4. call'[c].request = call[c].request /\ Clean(c, call'[c], objects'[Object(c)], records'[Asked(c).artifact])
    BY <1>1, <2>1, <2>3 DEF Taken, Alone, Clean, Soon
  <2> QED BY <2>4, Tidies
<1>4. CASE Scrap(c)
  <2>1. call[c].pc = "scrap" /\ UNCHANGED records /\ records[Asked(c).artifact] = None
    BY <1>4, WriteKnown DEF Scrap, At, CleanOf, Clean, store
  <2>2. PICK out \in {call[c].outcome, "orphaned"} :
          Taken(c, "release", out) /\ (out = "orphaned" \/ objects'[Object(c)] = None)
    <3>1. CASE objects' = [objects EXCEPT ![Object(c)] = None] /\ Goto(c, "release")
      <4>1. Taken(c, "release", call[c].outcome)
        BY <1>1, <3>1, CallFacts, GotoTakes
      <4> QED BY <3>1, <4>1, CallFacts DEF StoresTyped
    <3>2. CASE GotoWith(c, "release", "orphaned")
      BY <1>1, <3>2, WritePlaces, CallFacts, GotoWithTakes
    <3> QED BY <1>4, <3>1, <3>2 DEF Scrap, Leave
  <2>3. call'[c].request = call[c].request /\ Clean(c, call'[c], objects'[Object(c)], records'[Asked(c).artifact])
    BY <1>1, <2>1, <2>2 DEF Taken, Alone, Clean, Soon
  <2> QED BY <2>3, Tidies
<1>5. CASE Drop(c)
  <2>1. /\ call[c].pc = "drop" /\ UNCHANGED records /\ records[Asked(c).artifact] = None
        /\ call[c].outcome = "replayed"
    BY <1>5, WriteKnown DEF Drop, At, CleanOf, Clean, store, Late
  <2>2. PICK p \in {"release", "undo"}, out \in {"replayed", "orphaned"} : Taken(c, p, out)
    <3>1. CASE Goto(c, "release")
      BY <1>1, <2>1, <3>1, CallFacts, GotoTakes
    <3>2. CASE GotoWith(c, "undo", "orphaned")
      BY <1>1, <3>2, WritePlaces, CallFacts, GotoWithTakes
    <3> QED BY <1>5, <3>1, <3>2 DEF Drop, Fail
  <2>3. call'[c].request = call[c].request /\ Clean(c, call'[c], objects'[Object(c)], records'[Asked(c).artifact])
    BY <1>1, <2>1, <2>2 DEF Taken, Alone, Clean, Soon
  <2> QED BY <2>3, Tidies
<1> QED BY <1>2, <1>3, <1>4, <1>5

LEMMA RecordingClean ==
  ASSUME IInv, CleanInv, NEW c \in Calls, Kind(c) = "write", Recording(c)
  PROVE  CleanNow(c)'
BY PlainRecordingClean, CommittingClean, UndoingClean DEF Recording

--------------------
(* What any call's step changes: of objects that it does not bring, and of
   records that it does not make, at most that they go. *)
BringsOwn(c) == \/ \A o \in Objects : objects'[o] \in {objects[o], None}
                \/ Mode(c) = "shared-writer" /\ \A o \in Objects \ {Object(c)} : objects'[o] = objects[o]

RecordsOwn(c) ==
  \/ \A a \in Artifacts : records'[a] \in {records[a], None}
  \/ Mode(c) = "shared-writer" /\ \A a \in Artifacts \ {Asked(c).artifact} : records'[a] = records[a]

LEMMA AloneSteps == ASSUME IInv, NEW c \in Calls, Alone(c), clock' = clock PROVE Steps(c)
BY DEF Alone, Steps, IInv, TypeOK

LEMMA LeasingSteps ==
  ASSUME IInv, NEW c \in Calls, Leasing(c)
  PROVE  Steps(c) /\ UNCHANGED <<objects, records>>
<1>1. UNCHANGED <<objects, records, clock>>
  BY DEF Leasing, Acquire, References, Claim, Renew, Renewing, Release, Releasing, store
<1>2. CASE Acquire(c) \/ References(c) \/ Renew(c) \/ Release(c)
  BY <1>1, <1>2, AcquireQuiet, ReferencesQuiet, RenewQuiet, ReleaseQuiet, QuietSteps
<1>3. CASE Claim(c)
  <2>1. \E p \in Places : Goto(c, p)
    BY <1>3 DEF Claim, Places
  <2> QED BY <1>1, <2>1, CallFacts, GotoMoves, AloneSteps DEF Moved
<1>4. CASE Renewing(c)
  <2>1. \E p \in Places : Goto(c, p) \/ GotoNow(c, p) \/ \E out \in Outcomes : GotoWith(c, p, out)
    BY <1>4 DEF Renewing, AfterRound, LeaseLost, Leave, Fail, Places, Outcomes
  <2> QED BY <1>1, <2>1, CallFacts, GotoMoves, GotoNowMoves, GotoWithMoves, AloneSteps DEF Moved
<1>5. CASE Releasing(c)
  <2>1. call[c].outcome \in Outcomes
    BY CallFacts DEF TypeOK, CallStates
  <2>2. Goto(c, "ended") \/ \E out \in Outcomes : GotoWith(c, "ended", out)
    BY <1>5, <2>1 DEF Releasing, NotReleased, End, Outcomes
  <2>3. "ended" \in Places
    BY DEF Places
  <2> QED BY <1>1, <2>2, <2>3, CallFacts, GotoMoves, GotoWithMoves, AloneSteps DEF Moved
<1> QED BY <1>1, <1>2, <1>3, <1>4, <1>5 DEF Leasing

LEMMA QuietlySteps ==
  ASSUME NEW c \in Calls, Quiet(c), BringsOwn(c)
  PROVE  Steps(c) /\ BringsOwn(c) /\ RecordsOwn(c)
BY QuietSteps DEF Quiet, Forgets, RecordsOwn

LEMMA BringingSteps ==
  ASSUME IInv, NEW c \in Calls, Bringing(c)
  PROVE  Steps(c) /\ BringsOwn(c) /\ RecordsOwn(c)
<1>1. Quiet(c)
  BY PriorQuiet, ReplayQuiet, HeadQuiet, BesideQuiet, AdoptQuiet, GetQuiet, PutQuiet, PutUncertainQuiet,
     PutFailsQuiet DEF Bringing
<1>2. UNCHANGED objects \/ (Putting(c) /\ Landed(c))
  BY DEF Bringing, Prior, Replay, Head, Beside, Adopt, Get, Put, PutUncertain, PutFails
<1>3. BringsOwn(c)
  BY <1>2, CallFacts DEF BringsOwn, Landed, Putting, At, Placed, PlacedAt, WritersPlaces, StoresTyped
<1> QED BY <1>1, <1>3, QuietlySteps

LEMMA CommittingSteps ==
  ASSUME IInv, NEW c \in Calls, Committing(c)
  PROVE  Steps(c) /\ BringsOwn(c) /\ RecordsOwn(c)
<1>1. UNCHANGED <<objects, clock>> /\ Mode(c) = "shared-writer" /\ BringsOwn(c)
  BY CallFacts DEF Committing, At, Placed, PlacedAt, WritersPlaces, BringsOwn
<1>2. RecordsOwn(c)
  BY <1>1, CallFacts DEF Committing, RecordsOwn, StoresTyped
<1>3. CASE MayCommit(c)
  <2>1. call' = [call EXCEPT ![c] = [call[c] EXCEPT !.pc = "lineage", !.made = TRUE,
                                                    !.result = Asked(c).artifact]]
    BY <1>3 DEF Committing, Move
  <2>2. call \in [Calls -> CallStates] /\ call[c] \in CallStates
    BY CallFacts DEF TypeOK
  <2>3. Steps(c)
    BY <1>1, <2>1, <2>2 DEF Steps, CallStates
  <2> QED BY <1>1, <1>2, <2>3
<1>4. CASE ~MayCommit(c)
  <2>1. Goto(c, "recheck") /\ "recheck" \in Places
    BY <1>4 DEF Committing, Places
  <2> QED BY <1>1, <1>2, <2>1, CallFacts, GotoMoves, AloneSteps DEF Moved
<1> QED BY <1>3, <1>4

LEMMA RecordingSteps ==
  ASSUME IInv, NEW c \in Calls, Recording(c) \/ Deleting(c) \/ Die(c)
  PROVE  Steps(c) /\ BringsOwn(c) /\ RecordsOwn(c)
<1>1. CASE ~Committing(c)
  <2>1. Quiet(c)
    BY <1>1, CommitQuiet, ReceiptQuiet, RecheckQuiet, LineageQuiet, LinkQuiet, UndoQuiet, UnlinkQuiet,
       ScrapQuiet, DropQuiet, FindQuiet, UnrecordQuiet, BeforeLeaseQuiet, ListQuiet, AuditQuiet,
       HeldQuiet, CompareQuiet, EraseQuiet, DieQuiet DEF Recording, Deleting
  <2>2. UNCHANGED objects \/ objects' = [objects EXCEPT ![Object(c)] = None]
    BY <1>1 DEF Recording, Deleting, Commit, Receipt, Recheck, Lineage, Link, Undo, Unlink, Scrap, Drop,
                Find, Unrecord, BeforeLease, List, Audit, Held, Compare, Erase, Die
  <2>3. BringsOwn(c)
    BY <2>2, CallFacts DEF BringsOwn, StoresTyped
  <2> QED BY <2>1, <2>3, QuietlySteps
<1>2. CASE Committing(c)
  BY <1>2, CommittingSteps
<1> QED BY <1>1, <1>2

LEMMA CallClean ==
  ASSUME IInv, CleanInv, NEW c \in Calls,
         Leasing(c) \/ Bringing(c) \/ Recording(c) \/ Deleting(c) \/ Die(c)
  PROVE  CleanInv'
<1>1. Steps(c) /\ BringsOwn(c) /\ RecordsOwn(c)
  <2>1. Leasing(c) => Steps(c) /\ BringsOwn(c) /\ RecordsOwn(c)
    BY LeasingSteps DEF BringsOwn, RecordsOwn
  <2> QED BY <2>1, BringingSteps, RecordingSteps
<1>2. CASE Kind(c) = "write"
  <2>1. ~Deleting(c)
    BY <1>2, WriteKnown
    DEF Deleting, Find, Unrecord, BeforeLease, List, Audit, Held, Compare, Erase, At, Route, Common, Making
  <2>2. Die(c) => CleanNow(c)'
    <3> SUFFICES ASSUME Die(c) PROVE CleanNow(c)'
      OBVIOUS
    <3>1. UNCHANGED <<objects, records>> /\ GotoWith(c, "ended", "dead")
      BY DEF Die, End, store
    <3> QED BY <1>2, <3>1, WritePlaces, LeavesClean
  <2>3. CleanNow(c)'
    BY <1>2, <2>1, <2>2, LeasingClean, BringingClean, RecordingClean
  <2> QED BY <1>1, <2>3, StepKeepsClean DEF BringsOwn, RecordsOwn
<1>3. CASE Kind(c) # "write"
  <2>1. CleanNow(c)'
    BY <1>1, <1>3 DEF Steps, CleanNow, Kind, Asked
  <2> QED BY <1>1, <2>1, StepKeepsClean DEF BringsOwn, RecordsOwn
<1> QED BY <1>2, <1>3

LEMMA NextClean == IInv /\ CleanInv /\ [Next]_vars => CleanInv'
<1> SUFFICES ASSUME IInv, CleanInv, [Next]_vars PROVE CleanInv'
  OBVIOUS
<1>1. CASE UNCHANGED <<objects, records, call>>
  BY <1>1 DEF CleanInv, Apart, CleanNow, Clean, Object, Mode, Kind, Asked
<1>2. CASE \E c \in Calls : Leasing(c) \/ Bringing(c) \/ Recording(c) \/ Deleting(c) \/ Die(c)
  BY <1>2, CallClean
<1> QED BY <1>1, <1>2 DEF Next, AllEnded, Tick, vars, store

LEMMA InitClean == OwnIds /\ Init => CleanInv
<1> SUFFICES ASSUME OwnIds, Init PROVE CleanInv
  OBVIOUS
<1>1. PICK r \in Requests : \A c \in Calls :
           /\ Asked(c) = r[c] /\ Kind(c) = r[c].kind /\ Object(c) = r[c].object
           /\ call[c].pc = First[Kind(c)] /\ ~call[c].made /\ call[c].outcome = None
           /\ Kind(c) \in Kinds /\ Asked(c) \in Request
  BY Begins
<1>2. Apart
  <2>1. ASSUME NEW c \in Calls, NEW d \in Calls, c # d, Kind(c) = "write", Mode(d) = "shared-writer"
        PROVE  Object(d) # Object(c) /\ Asked(d).artifact # Asked(c).artifact
    <3>1. r[c].kind = "write" /\ Makes(r[d].kind)
      BY <1>1, <2>1 DEF Mode, Makes
    <3> QED BY <1>1, <2>1, <3>1 DEF OwnIds
  <2> QED BY <2>1 DEF Apart
<1>3. ASSUME NEW c \in Calls, Kind(c) = "write"
      PROVE  Clean(c, call[c], objects[Object(c)], records[Asked(c).artifact])
  <2>1. call[c].pc = "prior" /\ ~call[c].made
    BY <1>1, <1>3 DEF First
  <2>2. Object(c) \in Objects /\ Asked(c).artifact \in Artifacts
    BY <1>1 DEF Request
  <2>3. objects[Object(c)] = None \/ Object(c) \in DOMAIN Stored
    BY <2>2 DEF Init
  <2>4. Asked(c).artifact \notin DOMAIN Recorded
    BY <1>1, <1>3 DEF OwnIds
  <2>5. records[Asked(c).artifact] = None
    BY <2>2, <2>4 DEF Init
  <2> QED BY <2>1, <2>3, <2>5, Routed DEF Clean, Making, Late
<1> QED BY <1>2, <1>3 DEF CleanInv, CleanNow

(* A write that fails on a definite answer leaves neither a record nor
   bytes that were not there, whatever the others do, if no other call
   brings its object or makes a record of its artifact's id (#commit,
   #deleteOwnedObject). *)
THEOREM FailedWritesLeaveNothingHolds ==
  ASSUME OwnIds
  PROVE  Spec => []FailedWritesLeaveNothing
<1>1. Init => CleanInv
  BY InitClean
<1>2. IInv /\ CleanInv /\ [Next]_vars => CleanInv'
  BY NextClean
<1>3. CleanInv => FailedWritesLeaveNothing
  BY DEF CleanInv, CleanNow, Clean, FailedWritesLeaveNothing, At
<1> QED BY <1>1, <1>2, <1>3, SpecIInv, PTL DEF Spec
===============================================================================
