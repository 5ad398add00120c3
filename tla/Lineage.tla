------------------------------- MODULE Lineage -------------------------------
(***************************************************************************)
(* What artifacts were made from (packages/artifact/src/store.ts and       *)
(* memory.ts: create, updateAnnotations, delete, addLineage) and the audit *)
(* and the repairs of records and lineage (maintenance.ts). A call awaits  *)
(* the repository again and again, and others act in between; the repairs  *)
(* of one plan run together.                                               *)
(*                                                                         *)
(* Every artifact has an object of its own (for objects they share, and    *)
(* for objects without a record, see Artifacts). A job is a call,          *)
(* <<"call", c>>, or a repair, <<finding, artifact or edge>>.              *)
(***************************************************************************)
EXTENDS Naturals, Sequences, SequencesExt

CONSTANTS
  Setups,     \* [memory, records, objects, edges, requests]: the repository in memory or in a
              \* store; what is there at first; per call [kind, of, bytes], of an artifact or an edge
  Artifacts,  \* a sequence: records are listed in this order
  Ids,        \* a sequence: edges are listed in this order
  Ends,       \* per edge: <<source, result>>
  Missing     \* no record, object, edge or answer

VARIABLES
  setup,
  records,   \* per artifact: [bytes, notes]
  objects,   \* per artifact: bytes
  edges,     \* the ids of the edges there are
  job,       \* per job: [pc, got, todo, seen, answer]
  snapshot,  \* of the audit: [records, edges, findings, next]
  met,       \* which calls were under way together
  doubted,   \* artifacts and edges that were not sound at some time since the plan was made
  harmed     \* those a repair removed that were not doubted

lineageVars == <<setup, records, objects, edges, job, snapshot, met, doubted, harmed>>

repository == <<records, edges>>

Call(c) == <<"call", c>>

IsCall(p) == p[1] = "call"

Calls == DOMAIN setup.requests

Kind(p) == IF IsCall(p) THEN setup.requests[p[2]].kind ELSE p[1]

Of(p) == IF IsCall(p) THEN setup.requests[p[2]].of ELSE p[2]

Source(e) == Ends[e][1]

Result(e) == Ends[e][2]

New == [pc |-> "idle", got |-> Missing, todo |-> {}, seen |-> {}, answer |-> Missing]

Init ==
  /\ setup \in Setups
  /\ records = [a \in ToSet(Artifacts) |->
                  IF a \in setup.records THEN [bytes |-> "b1", notes |-> 0] ELSE Missing]
  /\ objects = [a \in ToSet(Artifacts) |->
                  IF a \in DOMAIN setup.objects THEN setup.objects[a] ELSE Missing]
  /\ edges = setup.edges
  /\ job = [p \in {Call(c) : c \in Calls} |-> New]
  /\ snapshot = [records |-> records, edges |-> <<>>, findings |-> {}, next |-> 1]
  /\ met = {} /\ doubted = {} /\ harmed = {}

--------------------
(* The graph *)

Recorded(a) == records[a] # Missing

GetSources(a) == SelectSeq(Ids, LAMBDA e : e \in edges /\ Result(e) = a)

GetDerivatives(a) == SelectSeq(Ids, LAMBDA e : e \in edges /\ Source(e) = a)

Touching(a, es) == {e \in es : a \in {Source(e), Result(e)}}

(* The artifacts that can be reached from those of S by the edges of es. *)
RECURSIVE ReachedFrom(_, _)
ReachedFrom(S, es) ==
  LET more == S \cup {Result(e) : e \in {d \in es : Source(d) \in S}}
  IN  IF more = S THEN S ELSE ReachedFrom(more, es)

OnCycle(e, es) == e \in es /\ Source(e) \in ReachedFrom({Result(e)}, es)

Sound(e) == Recorded(Source(e)) /\ Recorded(Result(e)) /\ ~ OnCycle(e, edges)

--------------------
(* Steps *)

UnderWay(p) == job[p].pc \notin {"idle", "ended"}

Set(p, j) == job' = [job EXCEPT ![p] = j]

Go(p, pc) == Set(p, [job[p] EXCEPT !.pc = pc])

End(p, answer) == Set(p, [job[p] EXCEPT !.pc = "ended", !.answer = answer])

At(p, kind, pc) == Kind(p) = kind /\ job[p].pc = pc

Unchanged == UNCHANGED <<repository, objects, snapshot>>

InMemory == setup.memory

--------------------
(* Records *)

Written(p) == records' = [records EXCEPT ![Of(p)] = [bytes |-> setup.requests[p[2]].bytes, notes |-> 0]]

LookToCreate(p) ==
  /\ At(p, "create", "idle")
  /\ IF Recorded(Of(p)) THEN End(p, "conflict") /\ UNCHANGED records
     ELSE IF InMemory THEN End(p, "done") /\ Written(p)
     ELSE Go(p, "create") /\ UNCHANGED records
  /\ UNCHANGED <<edges, objects, snapshot>>

Create(p) ==
  /\ At(p, "create", "create")
  /\ End(p, "done") /\ Written(p)
  /\ UNCHANGED <<edges, objects, snapshot>>

Annotated(record) == [record EXCEPT !.notes = 1]

LookToAnnotate(p) ==
  /\ At(p, "annotate", "idle")
  /\ IF ~ Recorded(Of(p)) THEN End(p, "not-found") /\ UNCHANGED records
     ELSE IF InMemory
     THEN End(p, "done") /\ records' = [records EXCEPT ![Of(p)] = Annotated(@)]
     ELSE Set(p, [job[p] EXCEPT !.pc = "annotate", !.got = records[Of(p)]]) /\ UNCHANGED records
  /\ UNCHANGED <<edges, objects, snapshot>>

(* The record that was read is put back, whether it is still there or not. *)
Annotate(p) ==
  /\ At(p, "annotate", "annotate")
  /\ End(p, "done") /\ records' = [records EXCEPT ![Of(p)] = Annotated(job[p].got)]
  /\ UNCHANGED <<edges, objects, snapshot>>

(* The record, then the edges that are listed, one by one. *)
MayDelete(p) == At(p, "delete", "idle") \/ At(p, "record-without-object", "delete")

DeleteRecord(p) ==
  /\ MayDelete(p)
  /\ records' = [records EXCEPT ![Of(p)] = Missing]
  /\ IF InMemory /\ Recorded(Of(p))
     THEN End(p, "applied") /\ edges' = edges \ Touching(Of(p), edges)
     ELSE /\ IF Recorded(Of(p)) THEN Go(p, "edges")
             ELSE End(p, IF IsCall(p) THEN "not-found" ELSE "applied")
          /\ UNCHANGED edges
  /\ UNCHANGED <<objects, snapshot>>

ListEdges(p) ==
  /\ job[p].pc = "edges"
  /\ LET todo == Touching(Of(p), edges)
     IN  IF todo = {} THEN End(p, "applied")
         ELSE Set(p, [job[p] EXCEPT !.pc = "dropping", !.todo = todo])
  /\ Unchanged

DropEdge(p) ==
  /\ job[p].pc = "dropping"
  /\ \E e \in job[p].todo :
       /\ edges' = edges \ {e}
       /\ IF job[p].todo = {e} THEN End(p, "applied")
          ELSE Set(p, [job[p] EXCEPT !.todo = @ \ {e}])
  /\ UNCHANGED <<records, objects, snapshot>>

(* What people and other programs do to the objects. *)
Supply(p) ==
  /\ At(p, "supply", "idle")
  /\ End(p, "done") /\ objects' = [objects EXCEPT ![Of(p)] = setup.requests[p[2]].bytes]
  /\ UNCHANGED <<repository, snapshot>>

--------------------
(* Lineage: both ends are looked for, then a way back, then the edge is put *)

LookForEdge(p) ==
  /\ At(p, "link", "idle")
  /\ IF Of(p) \in edges THEN End(p, "conflict") ELSE Go(p, "source")
  /\ Unchanged

LookForSource(p) ==
  /\ At(p, "link", "source")
  /\ IF Recorded(Source(Of(p))) THEN Go(p, "result") ELSE End(p, "missing")
  /\ Unchanged

LookForResult(p) ==
  /\ At(p, "link", "result")
  /\ IF ~ Recorded(Result(Of(p))) THEN End(p, "missing")
     ELSE IF Source(Of(p)) = Result(Of(p)) THEN End(p, "conflict")
     ELSE Set(p, [job[p] EXCEPT !.pc = "walk", !.todo = {Result(Of(p))}])
  /\ Unchanged

(* One artifact at a time, in any order: whether there is a way from the
   result to the source. A repair leaves the edge itself out. *)
Walk(p, found, none) ==
  /\ job[p].pc = "walk"
  /\ \E a \in job[p].todo :
       LET seen == job[p].seen \cup {a}
           next == {Result(e) : e \in ToSet(GetDerivatives(a)) \ {Of(p)}}
           todo == (job[p].todo \cup next) \ seen
       IN  IF Source(Of(p)) \in next THEN found
           ELSE IF todo = {} THEN none
           ELSE Set(p, [job[p] EXCEPT !.todo = todo, !.seen = seen])
  /\ Unchanged

Reaches(p) == Kind(p) = "link" /\ Walk(p, End(p, "conflict"), Go(p, "put"))

PutEdge(p) ==
  /\ At(p, "link", "put")
  /\ End(p, "done") /\ edges' = edges \cup {Of(p)}
  /\ UNCHANGED <<records, objects, snapshot>>

RemoveLineage(p) ==
  /\ At(p, "unlink", "idle") \/ job[p].pc = "remove"
  /\ End(p, "applied") /\ edges' = edges \ {Of(p)}
  /\ UNCHANGED <<records, objects, snapshot>>

--------------------
(* The audit: the records, the edges of each, the object of each *)

Found(code, x) == <<code, x>>

LineageCodes == {"lineage-missing-source", "lineage-missing-result", "lineage-cycle"}

Listed == SelectSeq(Artifacts, LAMBDA a : snapshot.records[a] # Missing)

IsListed(a) == snapshot.records[a] # Missing

Missed(es) == {Found("lineage-missing-source", e) : e \in {d \in es : ~ IsListed(Source(d))}}
              \cup {Found("lineage-missing-result", e) : e \in {d \in es : ~ IsListed(Result(d))}}

(* Depth first from every record; the first edge that leads into a cycle
   is a finding at every artifact on the way back. seen is what the walks
   know of: those on the path, those that lead to no cycle, the findings. *)
RECURSIVE Seek(_, _, _), SeekBy(_, _, _, _)

SeekBy(a, es, i, seen) ==
  IF i > Len(es) THEN [seen EXCEPT !.path = @ \ {a}, !.done = @ \cup {a}, !.hit = FALSE]
  ELSE IF Source(es[i]) # a THEN SeekBy(a, es, i + 1, seen)
  ELSE LET after == Seek(Result(es[i]), es, seen)
       IN  IF after.hit
           THEN [after EXCEPT !.path = @ \ {a}, !.found = @ \cup {Found("lineage-cycle", es[i])}]
           ELSE SeekBy(a, es, i + 1, after)

Seek(a, es, seen) ==
  IF a \in seen.path THEN [seen EXCEPT !.hit = TRUE]
  ELSE IF a \in seen.done THEN [seen EXCEPT !.hit = FALSE]
  ELSE SeekBy(a, es, 1, [seen EXCEPT !.path = @ \cup {a}])

LineageFindings(as, es) ==
  Missed(ToSet(es))
  \cup FoldLeft(LAMBDA seen, a : Seek(a, es, seen),
                [path |-> {}, done |-> {}, found |-> {}, hit |-> FALSE], as).found

Audit(p) ==
  /\ At(p, "repair", "idle")
  /\ snapshot' = [records |-> records, edges |-> <<>>, findings |-> {}, next |-> 1]
  /\ Go(p, IF \E a \in DOMAIN records : Recorded(a) THEN "sources" ELSE "plan")
  /\ UNCHANGED <<repository, objects>>

Add(es, more) == es \o SelectSeq(more, LAMBDA e : e \notin ToSet(es))

Here == Listed[snapshot.next]

(* The record the audit looks at next, or the first again for what follows. *)
Onward(p, again, then) ==
  IF snapshot.next < Len(Listed) THEN Go(p, again) ELSE Go(p, then)

Onto == IF snapshot.next < Len(Listed) THEN snapshot.next + 1 ELSE 1

AuditSources(p) ==
  /\ At(p, "repair", "sources")
  /\ snapshot' = [snapshot EXCEPT !.edges = Add(@, GetSources(Here))]
  /\ Go(p, "derivatives")
  /\ UNCHANGED <<repository, objects>>

AuditDerivatives(p) ==
  /\ At(p, "repair", "derivatives")
  /\ snapshot' = [snapshot EXCEPT !.edges = Add(@, GetDerivatives(Here)), !.next = Onto]
  /\ Onward(p, "sources", "objects")
  /\ UNCHANGED <<repository, objects>>

ObjectFindings(a) ==
  IF objects[a] = Missing THEN {Found("record-without-object", a)}
  ELSE IF objects[a] # snapshot.records[a].bytes THEN {Found("digest-mismatch", a)} ELSE {}

AuditObject(p) ==
  /\ At(p, "repair", "objects")
  /\ snapshot' = [snapshot EXCEPT !.findings = @ \cup ObjectFindings(Here), !.next = Onto]
  /\ Onward(p, "objects", "plan")
  /\ UNCHANGED <<repository, objects>>

(* The plan has one repair for each finding; they are applied together. *)
Plan(p) ==
  /\ At(p, "repair", "plan")
  /\ LET findings == snapshot.findings \cup LineageFindings(Listed, snapshot.edges)
     IN  /\ snapshot' = [snapshot EXCEPT !.findings = findings]
         /\ job' = [q \in DOMAIN job \cup findings |->
                      IF q = p THEN [job[p] EXCEPT !.pc = IF findings = {} THEN "ended" ELSE "applying"]
                      ELSE IF q \in DOMAIN job THEN job[q] ELSE [New EXCEPT !.pc = "get"]]
  /\ UNCHANGED <<repository, objects>>

Repairs == {p \in DOMAIN job : ~ IsCall(p)}

(* Whoever asked audits again as long as something was repaired. *)
Again(p) ==
  /\ At(p, "repair", "applying") /\ \A q \in Repairs : job[q].pc = "ended"
  /\ LET more == \E q \in Repairs : job[q].answer = "applied" /\ q[1] # "digest-mismatch"
     IN  job' = [q \in DOMAIN job \ Repairs |->
                   IF q = p THEN [job[p] EXCEPT !.pc = IF more THEN "idle" ELSE "ended"] ELSE job[q]]
  /\ Unchanged

--------------------
(* The repairs: each looks again before it acts *)

GetRecord(p) ==
  /\ Kind(p) \in {"record-without-object", "digest-mismatch"} /\ job[p].pc = "get"
  /\ IF ~ Recorded(Of(p)) THEN End(p, "not-found")
     ELSE IF records[Of(p)] # snapshot.records[Of(p)] THEN End(p, "conflict")
     ELSE Go(p, "head")
  /\ Unchanged

LookForObject(p) ==
  /\ At(p, "record-without-object", "head")
  /\ IF objects[Of(p)] # Missing THEN End(p, "conflict") ELSE Go(p, "delete")
  /\ Unchanged

Reverify(p) ==
  /\ At(p, "digest-mismatch", "head")
  /\ End(p, IF objects[Of(p)] = snapshot.records[Of(p)].bytes THEN "applied" ELSE "conflict")
  /\ Unchanged

(* #findEdge looks at the edges of every record: it does not find an edge
   none of whose ends has a record. *)
FindEdge(p) ==
  /\ Kind(p) \in LineageCodes /\ job[p].pc = "get"
  /\ IF Of(p) \in edges /\ (Recorded(Source(Of(p))) \/ Recorded(Result(Of(p))))
     THEN Go(p, "source") ELSE End(p, "not-found")
  /\ Unchanged

Judge(p, invalid) == IF invalid THEN Go(p, "remove") ELSE End(p, "conflict")

GetSource(p) ==
  /\ Kind(p) \in LineageCodes /\ job[p].pc = "source"
  /\ IF Kind(p) = "lineage-missing-source" THEN Judge(p, ~ Recorded(Source(Of(p)))) ELSE Go(p, "result")
  /\ Unchanged

GetResult(p) ==
  /\ Kind(p) \in LineageCodes /\ job[p].pc = "result"
  /\ IF Kind(p) = "lineage-missing-result" THEN Judge(p, ~ Recorded(Result(Of(p))))
     ELSE IF Source(Of(p)) = Result(Of(p)) THEN Go(p, "remove")
     ELSE Set(p, [job[p] EXCEPT !.pc = "walk", !.todo = {Result(Of(p))}])
  /\ Unchanged

EdgeParticipatesInCycle(p) == Kind(p) = "lineage-cycle" /\ Walk(p, Go(p, "remove"), End(p, "conflict"))

--------------------
Changes(p) ==
  \/ LookToCreate(p) \/ Create(p) \/ LookToAnnotate(p) \/ Annotate(p)
  \/ DeleteRecord(p) \/ ListEdges(p) \/ DropEdge(p) \/ Supply(p)

Links(p) ==
  \/ LookForEdge(p) \/ LookForSource(p) \/ LookForResult(p) \/ Reaches(p) \/ PutEdge(p)
  \/ RemoveLineage(p)

Maintains(p) ==
  \/ Audit(p) \/ AuditSources(p) \/ AuditDerivatives(p) \/ AuditObject(p) \/ Plan(p) \/ Again(p)
  \/ GetRecord(p) \/ LookForObject(p) \/ Reverify(p)
  \/ FindEdge(p) \/ GetSource(p) \/ GetResult(p) \/ EdgeParticipatesInCycle(p)

(* What is not sound: a record whose object is missing, an edge with an
   end that has no record, or on a cycle. *)
Unsound ==
  {a \in ToSet(Artifacts) : ~ Recorded(a) \/ objects[a] = Missing} \cup {e \in ToSet(Ids) : ~ Sound(e)}

Witness(p) ==
  /\ met' = met \cup {{p, q} : q \in {r \in DOMAIN job \ {p} : IsCall(r) /\ IsCall(p) /\ UnderWay(r)}}
  /\ doubted' = IF Repairs = {} THEN {} ELSE doubted \cup Unsound
  /\ harmed' = harmed \cup IF ~ IsCall(p) /\ job[p].pc \in {"delete", "remove"}
                           THEN {Of(p)} \ (doubted \cup Unsound) ELSE {}
  /\ UNCHANGED setup

Next == \E p \in DOMAIN job : (Changes(p) \/ Links(p) \/ Maintains(p)) /\ Witness(p)

Spec == Init /\ [][Next]_lineageVars /\ WF_lineageVars(Next)

--------------------
(* Properties *)

CallsOf(kinds) == {p \in DOMAIN job : IsCall(p) /\ Kind(p) \in kinds}

Overlap(p, q) == p # q /\ {p, q} \in met

Successful(p) == job[p].answer \in {"done", "applied"}

TypeOK ==
  /\ \A a \in ToSet(Artifacts) : records[a] = Missing \/ records[a].notes \in {0, 1}
  /\ edges \subseteq ToSet(Ids)
  /\ \A p \in Repairs : p \in snapshot.findings
  /\ doubted \cup harmed \subseteq ToSet(Artifacts) \cup ToSet(Ids)

(* An edge is on a cycle only if it was at first, or two calls of
   addLineage overlapped: deletions, repairs and annotations among them
   close none (store.ts #reaches). *)
CyclesComeOfOverlap ==
  \A e \in edges : OnCycle(e, edges) =>
    \/ OnCycle(e, setup.edges)
    \/ \E p, q \in CallsOf({"link"}) : Overlap(p, q)

(* An edge without one of its ends was there at first, or its call of
   addLineage overlapped the deletion, or the deletion is under way
   (store.ts delete removes every edge that touches the record). *)
DanglingEdgesComeOfOverlap ==
  \A e \in edges, a \in ToSet(Artifacts) : e \in Touching(a, edges) /\ ~ Recorded(a) =>
    \/ e \in setup.edges /\ a \notin setup.records
    \/ \E p \in DOMAIN job : (Kind(p) = "delete" \/ ~ IsCall(p)) /\ Of(p) = a /\ UnderWay(p)
    \/ \E p \in CallsOf({"link"}), q \in CallsOf({"delete", "repair", "annotate"}) :
         Of(p) = e /\ Overlap(p, q)
    \/ \E p, q \in CallsOf({"link"}) : Of(p) = e /\ Of(q) = e /\ Overlap(p, q)

(* A deletion stands: the record is back only if another call created it,
   or put back the one it had read (updateAnnotations). *)
DeletionsStand ==
  \A p \in CallsOf({"delete"}) : job[p].answer = "applied" /\ Recorded(Of(p)) =>
    \E q \in CallsOf({"create", "annotate"}) :
      /\ Of(q) = Of(p) /\ Successful(q)
      /\ Kind(q) = "annotate" => Overlap(p, q)

(* A repair acts on what is wrong: the record it deletes lacked its object
   at some time since the plan was made, and the edge it removes lacked an
   end or was on a cycle (maintenance.ts: every precondition is looked at
   again before the repair acts). *)
RepairsActOnWhatIsWrong == harmed = {}

(* Audits and repairs that go on until nothing is repaired leave every
   record with its object, every edge of a record with both its ends, and
   no cycle that touches a record, unless another call was under way too. *)
RepairsLeaveNothing ==
  \A p \in CallsOf({"repair"}) :
    job[p].pc = "ended" /\ (\A c \in Calls : Call(c) = p \/ job[Call(c)].pc = "idle") =>
      /\ \A a \in ToSet(Artifacts) : Recorded(a) => objects[a] # Missing
      /\ \A e \in edges : Recorded(Source(e)) \/ Recorded(Result(e)) => Sound(e)

(* Every call ends: audits and repairs in turn too, since each round removes
   something or is the last. *)
AllEnded == \A p \in DOMAIN job : job[p].pc = "ended"

CallsEnd == <>[]AllEnded
===============================================================================
