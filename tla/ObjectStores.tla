------------------------------ MODULE ObjectStores ------------------------------
(***************************************************************************)
(* The object stores artifacts keep their bytes in: in memory, in files    *)
(* (packages/artifact/src/memory.ts, fs.ts), through OpenDAL and on Vercel *)
(* Blob (packages/artifact-opendal, packages/artifact-vercel-blob). Each   *)
(* puts, deletes and lists; a put may be conditional (ifAbsent), and must  *)
(* say what became of its bytes: the caller deletes the key, or never      *)
(* does, by that answer. A service behind OpenDAL looks whether a key      *)
(* exists when the writer opens ("early"; the bytes are there as they are  *)
(* written) or when it closes ("late"; they appear whole).                 *)
(*                                                                         *)
(* An object is [file, content]: the call that made the file, and who      *)
(* wrote each of its two chunks. A call that writes into a file somebody   *)
(* removed writes nothing anyone sees.                                     *)
(***************************************************************************)
EXTENDS Naturals, Sequences, FiniteSets

CONSTANTS
  Setups,   \* [store, requests, leased, before, faults]: "memory", "files", "early", "late"
            \* or "blob"; [kind, key] per call; whether a lease keeps deletions and puts apart;
            \* the keys that hold an object; "source", "service" and "die"
  Calls,
  Keys,     \* a sequence of all keys, in their order
  Missing   \* no object, sidecar, file, chunk or answer

VARIABLES
  setup,
  objects,   \* per key
  sidecars,  \* per key: the call that described it
  call,      \* per call: [pc, file, wrote, found, answer, adrift]
  witness    \* per call that lists: the keys there always, and at some time, since it began

objectVars == <<setup, objects, sidecars, call, witness>>

KeySet == {Keys[i] : i \in 1 .. Len(Keys)}

Whole(c) == [file |-> c, content |-> <<c, c>>]

Init ==
  /\ setup \in Setups
  /\ objects = [k \in KeySet |-> IF k \in setup.before THEN Whole("old") ELSE Missing]
  /\ sidecars = [k \in KeySet |-> IF k \in setup.before /\ setup.store = "files" THEN "old" ELSE Missing]
  /\ call = [c \in Calls |-> [pc |-> IF c \in DOMAIN setup.requests THEN "idle" ELSE "ended",
                              file |-> Missing, wrote |-> 0, found |-> {}, answer |-> Missing, adrift |-> FALSE]]
  /\ witness = [c \in Calls |-> [always |-> KeySet, once |-> {}]]

Asked == DOMAIN setup.requests

Kind(c) == setup.requests[c].kind

Key(c) == setup.requests[c].key

IsConditional(c) == Kind(c) = "create"

IsPut(c) == Kind(c) \in {"create", "overwrite"}

Here(c) == objects[Key(c)]

Present(os) == {k \in KeySet : os[k] # Missing}

Under(store) == setup.store \in store

(* The file system, and services like it, show an object as it is written. *)
InPlace == Under({"files", "early"})

Fails(what) == what \in setup.faults

--------------------
(* Steps *)

UnderWay(c) == call[c].pc \notin {"idle", "ended"}

(* The artifact coordinator's leases keep deletions from puts of the key. *)
MayBegin(c) ==
  /\ call[c].pc = "idle"
  /\ setup.leased => \A d \in Asked :
       UnderWay(d) /\ {Kind(c), Kind(d)} \cap {"delete"} # {} => Kind(c) = "list" \/ Kind(d) = "list"

Become(c, pc) == [call[c] EXCEPT !.pc = pc]

Ended(c, answer) == [Become(c, "ended") EXCEPT !.answer = answer]

Set(c, record) == call' = [call EXCEPT ![c] = record]

Answer(c, answer) == Set(c, Ended(c, answer))

Untouched == UNCHANGED <<objects, sidecars>>

Hold(c, object) == objects' = [objects EXCEPT ![Key(c)] = object] /\ UNCHANGED sidecars

At(c, pc) == c \in Asked /\ call[c].pc = pc

(* memory.ts and Vercel Blob look first, to say at once that a key exists. *)
LookFirst(c) ==
  /\ MayBegin(c) /\ IsPut(c) /\ Under({"memory", "blob"})
  /\ IF IsConditional(c) /\ Here(c) # Missing THEN Answer(c, "exists") ELSE Set(c, Become(c, "sending"))
  /\ Untouched

Land(c) == Hold(c, Whole(c))

SourceFails(c) ==
  /\ At(c, "sending") /\ Fails("source")
  /\ Answer(c, "rejected") /\ Untouched

Keep(c) ==
  /\ At(c, "sending")
  /\ IF IsConditional(c) /\ Here(c) # Missing THEN Answer(c, "exists") /\ Untouched
     ELSE Answer(c, "stored") /\ Land(c)

(* Vercel Blob refuses the request, or its reply is lost: the bytes are
   there, will never be, or arrive later. *)
Unheard(c) ==
  /\ At(c, "sending") /\ Under({"blob"}) /\ Fails("service")
  /\ \/ Answer(c, "rejected") /\ Untouched
     \/ Answer(c, "unknown") /\ Untouched
     \/ Set(c, [Ended(c, "unknown") EXCEPT !.adrift = TRUE]) /\ Untouched

Arrive(c) ==
  /\ c \in Asked /\ call[c].adrift
  /\ Set(c, [call[c] EXCEPT !.adrift = FALSE])
  /\ IF IsConditional(c) /\ Here(c) # Missing THEN Untouched ELSE Land(c)

(* O_EXCL creates, O_TRUNC empties the file that is there. *)
Opened(c) ==
  [file |-> IF Here(c) = Missing THEN c ELSE Here(c).file, content |-> <<Missing, Missing>>]

OpenRefused(c) == IF Under({"files"}) THEN "exists" ELSE "rejected"

Open(c) ==
  /\ MayBegin(c) /\ IsPut(c) /\ Under({"files", "early", "late"})
  /\ \/ Fails("service") /\ Answer(c, "rejected") /\ Untouched
     \/ Under({"late"}) /\ Set(c, Become(c, "writing")) /\ Untouched
     \/ /\ InPlace /\ IsConditional(c) /\ Here(c) # Missing
        /\ Answer(c, OpenRefused(c)) /\ Untouched
     \/ /\ InPlace /\ ~(IsConditional(c) /\ Here(c) # Missing)
        /\ Set(c, [Become(c, "writing") EXCEPT !.file = Opened(c).file]) /\ Hold(c, Opened(c))

Write(c) ==
  /\ At(c, "writing") /\ call[c].wrote < 2
  /\ Set(c, [call[c] EXCEPT !.wrote = @ + 1])
  /\ IF InPlace /\ Here(c) # Missing /\ Here(c).file = call[c].file
     THEN Hold(c, [Here(c) EXCEPT !.content[call[c].wrote + 1] = c]) ELSE Untouched

(* Whether a write that failed removes what is under its key. *)
Removes(c, wroteAny) ==
  IF Under({"files"}) THEN IsConditional(c) ELSE ~IsConditional(c) \/ wroteAny

AnswerOfFailure == IF Under({"files"}) THEN "unknown" ELSE "rejected"

(* The source fails before a chunk, or the write of it does. *)
WriteFails(c) ==
  /\ At(c, "writing") /\ call[c].wrote < 2
  /\ \E wroteAny \in {call[c].wrote > 0, TRUE} :
       /\ Fails(IF wroteAny THEN "service" ELSE "source") \/ (call[c].wrote > 0 /\ Fails("source"))
       /\ IF Removes(c, wroteAny) THEN Set(c, Become(c, "removing")) ELSE Answer(c, AnswerOfFailure)
  /\ Untouched

(* fs.ts writes the sidecar beside it and renames it over the earlier one. *)
WriteSidecar(c) == sidecars' = [sidecars EXCEPT ![Key(c)] = c] /\ UNCHANGED objects

Describe(c) ==
  /\ At(c, "writing") /\ call[c].wrote = 2 /\ Under({"files"})
  /\ \/ Answer(c, "stored") /\ WriteSidecar(c)
     \/ /\ Fails("service") /\ Untouched
        /\ IF IsConditional(c) THEN Set(c, Become(c, "removing")) ELSE Answer(c, "unknown")

Refuses(c) == Under({"late"}) /\ IsConditional(c) /\ Here(c) # Missing

Close(c) ==
  /\ At(c, "writing") /\ call[c].wrote = 2 /\ Under({"early", "late"}) /\ ~Refuses(c)
  /\ Set(c, Become(c, "closed"))
  /\ IF Under({"late"}) THEN Land(c) ELSE Untouched

(* The service refuses, fails, or its reply is lost. *)
CloseFails(c) ==
  /\ At(c, "writing") /\ call[c].wrote = 2 /\ Under({"early", "late"})
  /\ Refuses(c) \/ Fails("service")
  /\ IF IsConditional(c) THEN Answer(c, "unknown") ELSE Set(c, Become(c, "removing"))
  /\ Untouched \/ (Under({"late"}) /\ ~Refuses(c) /\ Land(c))

Stat(c) ==
  /\ At(c, "closed")
  /\ \/ Here(c) # Missing /\ Answer(c, "stored")
     \/ (Here(c) = Missing \/ Fails("service")) /\ Answer(c, "unknown")
  /\ Untouched

(* rm, operator.delete: whatever is under the key by now. *)
Remove(c) ==
  /\ At(c, "removing")
  /\ \/ Hold(c, Missing) /\ IF Under({"files"}) THEN Answer(c, "rejected") ELSE Set(c, Become(c, "confirming"))
     \/ /\ Fails("service") /\ Untouched
        /\ IF Under({"files"}) THEN Answer(c, "unknown") ELSE Set(c, Become(c, "confirming"))

Confirm(c) ==
  /\ At(c, "confirming")
  /\ \/ Here(c) = Missing /\ Answer(c, "rejected")
     \/ (Here(c) # Missing \/ Fails("service")) /\ Answer(c, "unknown")
  /\ Untouched

(* Deletions look first: for the answer, or for the version they delete. *)
FindIt(c) ==
  /\ MayBegin(c) /\ Kind(c) = "delete"
  /\ IF Under({"memory"}) THEN Answer(c, IF Here(c) = Missing THEN "gone" ELSE "deleted") /\ Hold(c, Missing)
     ELSE /\ IF Here(c) = Missing /\ ~Under({"files"}) THEN Answer(c, "gone")
             ELSE Set(c, [Become(c, "found") EXCEPT !.file = IF Here(c) = Missing THEN Missing ELSE Here(c).file])
          /\ Untouched

(* On Vercel Blob, only the version that was found is deleted. *)
Matches(c) == Under({"blob"}) => Here(c) # Missing /\ Here(c).file = call[c].file

DeleteIt(c) ==
  /\ At(c, "found")
  /\ \/ Matches(c) /\ Hold(c, Missing)
        /\ IF Under({"files"}) THEN Set(c, Become(c, "unlinked")) ELSE Answer(c, "deleted")
     \/ ~Matches(c) /\ Untouched /\ Answer(c, "gone")
     \/ Fails("service") /\ Answer(c, "unknown") /\ (Untouched \/ (Matches(c) /\ Hold(c, Missing)))

DeleteSidecar(c) ==
  /\ At(c, "unlinked")
  /\ \/ /\ sidecars' = [sidecars EXCEPT ![Key(c)] = Missing]
        /\ Answer(c, IF call[c].file = Missing THEN "gone" ELSE "deleted")
     \/ Fails("service") /\ Answer(c, "unknown") /\ UNCHANGED sidecars
  /\ UNCHANGED objects

(* list is one look in memory and over OpenDAL; fs.ts then asks head about
   each file it found, and Vercel Blob answers page by page. *)
List(c) ==
  /\ MayBegin(c) /\ Kind(c) = "list"
  /\ Set(c, IF Under({"memory", "early", "late"}) THEN [Ended(c, "listed") EXCEPT !.found = Present(objects)]
            ELSE [Become(c, "listing") EXCEPT !.found = IF Under({"files"}) THEN Present(objects) ELSE {}])
  /\ Untouched

HasSidecar(k) == sidecars[k] # Missing

HasHead(k) == HasSidecar(k) \/ objects[k] # Missing

ListNext(c) ==
  /\ At(c, "listing")
  /\ LET k == Keys[call[c].wrote + 1]
         found == IF Under({"files"}) THEN IF HasHead(k) THEN call[c].found ELSE call[c].found \ {k}
                  ELSE call[c].found \cup ({k} \cap Present(objects))
         next == [call[c] EXCEPT !.wrote = @ + 1, !.found = found]
     IN Set(c, IF next.wrote = Len(Keys) THEN [next EXCEPT !.pc = "ended", !.answer = "listed"] ELSE next)
  /\ Untouched

(* The process dies; bytes it sent may be on their way. *)
Die(c) ==
  /\ c \in Asked /\ UnderWay(c) /\ Fails("die")
  /\ Set(c, [Ended(c, "died") EXCEPT !.adrift = Under({"blob"}) /\ call[c].pc = "sending"])
  /\ Untouched

Watch ==
  witness' = [c \in Calls |->
    IF c \in Asked /\ call[c].pc # "ended" /\ call'[c].pc # "idle"
    THEN LET start == IF call[c].pc = "idle" THEN [always |-> KeySet, once |-> {}] ELSE witness[c] IN
         [always |-> start.always \cap Present(objects), once |-> start.once \cup Present(objects)]
    ELSE witness[c]]

Next ==
  /\ \E c \in Calls :
       \/ LookFirst(c) \/ SourceFails(c) \/ Keep(c) \/ Unheard(c) \/ Arrive(c)
       \/ Open(c) \/ Write(c) \/ WriteFails(c) \/ Describe(c) \/ Close(c) \/ CloseFails(c) \/ Stat(c)
       \/ Remove(c) \/ Confirm(c)
       \/ FindIt(c) \/ DeleteIt(c) \/ DeleteSidecar(c) \/ List(c) \/ ListNext(c) \/ Die(c)
  /\ Watch
  /\ UNCHANGED setup

Spec == Init /\ [][Next]_objectVars

--------------------
(* Properties *)

Quiet(k) == \A c \in Asked : UnderWay(c) => Kind(c) = "list" \/ Key(c) # k

Answers(c) == call[c].answer

NeverOverwritten(k) == \A c \in Asked : Kind(c) = "overwrite" => Key(c) # k

(* Chunks are those of calls that put the key; only files have sidecars. *)
TypeOK ==
  \A k \in KeySet :
    /\ objects[k] # Missing => \A i \in 1 .. 2 :
         objects[k].content[i] \in {"old", Missing} \cup {c \in Asked : IsPut(c) /\ Key(c) = k /\ call[c].pc # "idle"}
    /\ sidecars[k] # Missing => Under({"files"})

(* The empty object of a conditional put whose source fails before its
   first chunk, on a service that makes the object when the writer opens:
   the put is rejected, and does not remove what it made. *)
MayLeaveItsEmptyObject(c) ==
  Under({"early"}) /\ IsConditional(c) /\ call[c].file = c /\ call[c].wrote = 0

(* A put that was rejected, or told that the key exists, left nothing: its
   caller will not delete the key (the coordinator relies on it). The code
   keeps this of bytes and descriptions, and of the object itself but for
   one case, which its own words rule out ("leaves nothing of this write",
   artifact-opendal/src/index.ts:76; "stored nothing at `key`",
   artifact/src/errors.ts:92): the object above, empty until somebody
   overwrites or deletes it, which refuses every later conditional put. *)
RefusedPutsLeaveNothing ==
  \A c \in Asked : IsPut(c) /\ Answers(c) \in {"rejected", "exists"} =>
    /\ objects[Key(c)] # Missing =>
         /\ \A i \in 1 .. 2 : objects[Key(c)].content[i] # c
         /\ objects[Key(c)].file = c => MayLeaveItsEmptyObject(c)
    /\ sidecars[Key(c)] # c
    /\ ~call[c].adrift

(* What stood, or was stored on the condition that nothing stood, stands
   whole until a deletion or an unconditional put is asked for: whatever
   other conditional puts do, fail at, or leave when they die. *)
StoredObjectsStand ==
  \A k \in KeySet :
    (\A c \in Asked : Key(c) = k /\ call[c].pc # "idle" => Kind(c) \in {"create", "list"}) =>
      \A w \in {"old"} \cup Asked :
        (IF w = "old" THEN k \in setup.before ELSE Key(w) = k /\ Answers(w) = "stored") =>
          /\ objects[k] = Whole(w)
          /\ Under({"files"}) => sidecars[k] = w

(* Under leases a sidecar is of the bytes beside it, whoever died when,
   unless a deletion did, or bytes were overwritten. *)
SidecarsAreTrue ==
  setup.leased => \A k \in KeySet :
    (/\ Quiet(k) /\ NeverOverwritten(k) /\ sidecars[k] # Missing /\ objects[k] # Missing
     /\ \A c \in Asked : Kind(c) = "delete" /\ Key(c) = k => Answers(c) \notin {"died", "unknown"})
    => objects[k] = Whole(sidecars[k])

(* Under leases nothing is left of an object in files that was deleted, or
   whose put was rejected; unless an unconditional put wrote into the file
   of a conditional one, whose failure takes it away. *)
NoSidecarAlone ==
  setup.leased => \A k \in KeySet :
    Quiet(k) /\ NeverOverwritten(k) /\ (\A c \in Asked : Key(c) = k => Answers(c) \notin {"died", "unknown"}) =>
      (sidecars[k] # Missing => objects[k] # Missing)

(* Two deletions do not both claim one object, where stores say who did. *)
DeletionsAreClaimedOnce ==
  Under({"memory", "blob"}) => \A k \in KeySet :
    Cardinality({c \in Asked : Kind(c) = "delete" /\ Key(c) = k /\ Answers(c) = "deleted"}) <=
      Cardinality((setup.before \cap {k})
                  \cup {c \in Asked : IsPut(c) /\ Key(c) = k /\ Answers(c) \notin {"rejected", "exists"}})

(* A list names each key that was there all the time, and none that never
   was, whatever is put and deleted between its pages. *)
ListsAreFair ==
  \A c \in Asked : Answers(c) = "listed" =>
    witness[c].always \subseteq call[c].found /\ call[c].found \subseteq witness[c].once
===============================================================================
