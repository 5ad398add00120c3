----------------------------- MODULE MarkdownFiles -----------------------------
(***************************************************************************)
(* Records kept as Markdown files                                          *)
(* (packages/store-markdown/src/markdown-store.ts): a directory of one     *)
(* collection, or of the keys, in which a process puts and removes and     *)
(* people edit. A mutation looks at the directory, replaces or removes one *)
(* file by a rename, regenerates the index and commits to git; it may die  *)
(* in between, and people may save a file meanwhile.                       *)
(*                                                                         *)
(* A text is the sequence of its lines: <<"">> is the empty one, and a     *)
(* last "" a newline at the end. A record file is [name, kind, id, theirs, *)
(* body]: theirs, a key of the frontmatter the store does not know.        *)
(***************************************************************************)
EXTENDS Naturals, Sequences, FiniteSets, SequencesExt

CONSTANTS
  Setups,    \* [kind, titles, index, body, folds, git, people]: "records" or "keys"; whether
             \* titles name files; whether there is an index; "sections" or "field"; whether
             \* the file system folds cases; whether git works; when people edit: "between"
             \* mutations or "during" them
  Items,     \* [id, title, preamble, section]: the texts are a record's body
  Files,     \* names of files; IndexName is one
  IndexName,
  Alias,     \* filenameAlias of each
  Levels,    \* of the lines that are headings, their level
  Section, Notes,  \* the heading that is configured, and one that is not
  Mutations, Edits,
  Missing    \* no file, no record

VARIABLES
  setup,
  files,     \* per place in the directory
  history,   \* what git committed of it
  op,        \* the mutation under way: [pc, kind, item, at, old, lines]
  kept,      \* per id: the item acknowledged, unless people or a crash came since
  noted,     \* the ids whose files people wrote notes into
  current,   \* whether nothing happened since the last acknowledged mutation
  lost,      \* whether a mutation replaced a record of another id
  left       \* mutations and edits that may still happen

markdownVars == <<setup, files, history, op, kept, noted, current, lost, left>>

--------------------
(* Texts *)

Empty == <<"">>

IsHeading(line) == line \in DOMAIN Levels

(* The first place from i on where test holds, or 0. *)
First(s, i, test(_)) ==
  LET found == {k \in i .. Len(s) : test(s[k])} IN IF found = {} THEN 0 ELSE Min(found)

WithoutLeading(s) ==
  LET k == First(s, 1, LAMBDA line : line # "") IN IF k = 0 THEN Empty ELSE SubSeq(s, k, Len(s))

Trim(s) == Reverse(WithoutLeading(Reverse(WithoutLeading(s))))

NonBlank(s) == SelectSeq(s, LAMBDA line : line # "")

ReadPreamble(body) ==
  LET k == First(body, 1, IsHeading) IN Trim(IF k = 0 THEN body ELSE <<"">> \o SubSeq(body, 1, k - 1))

(* The lines below the preamble come back as paragraphs of one line. *)
WritePreamble(body, value) ==
  LET k == First(body, 1, IsHeading)
      below == IF k = 0 THEN <<>> ELSE NonBlank(SubSeq(body, k, Len(body)))
      parts == (IF value = Empty THEN <<>> ELSE <<value>>) \o [i \in DOMAIN below |-> <<below[i]>>] IN
  IF parts = <<>> THEN Empty
  ELSE FlattenSeq([i \in DOMAIN parts |-> IF i = 1 THEN parts[i] ELSE <<"">> \o parts[i]])

(* Where the section of a heading ends: at one of its level or above. *)
EndOf(body, start, heading) ==
  LET k == First(body, start + 1, LAMBDA line : IsHeading(line) /\ Levels[line] <= Levels[heading]) IN
  IF k = 0 THEN Len(body) + 1 ELSE k

StartOf(body, heading) == First(body, 1, LAMBDA line : line = heading)

ReadSection(body, heading) ==
  LET start == StartOf(body, heading) IN
  IF start = 0 THEN Empty ELSE Trim(<<"">> \o SubSeq(body, start + 1, EndOf(body, start, heading) - 1))

(* Bug: a section goes on to the end of the text. *)
WriteLastSection(body, heading, value) ==
  LET start == StartOf(body, heading) IN
  (IF start = 0 THEN body ELSE SubSeq(body, 1, start - 1)) \o <<heading, "">> \o value

WriteSection(body, heading, value) ==
  LET start == StartOf(body, heading)
      replacement == <<heading, "">> \o value IN
  IF start = 0 THEN IF body = Empty THEN replacement ELSE body \o <<"">> \o replacement
  ELSE SubSeq(body, 1, start - 1) \o replacement \o <<"">> \o SubSeq(body, EndOf(body, start, heading), Len(body))

(* What the file's text is read back as: one newline more in front of it. *)
Reparsed(body) ==
  LET rendered == WithoutLeading(body) IN
  IF rendered = Empty THEN Empty ELSE <<"">> \o rendered \o (IF Last(rendered) = "" THEN <<>> ELSE <<"">>)

WithoutLastNewline(body) ==
  IF Len(body) > 1 /\ Last(body) = "" THEN SubSeq(body, 1, Len(body) - 1) ELSE body

--------------------
(* The directory *)

Place(name) == IF setup.folds THEN Alias[name] ELSE name

Places == IF setup.folds THEN {Alias[n] : n \in Files} ELSE Files

Begins(kind, item) == [pc |-> "idle", kind |-> kind, item |-> item, at |-> Missing, old |-> Missing, lines |-> {}]

Init ==
  /\ setup \in Setups
  /\ files = [p \in Places |-> Missing] /\ history = [p \in Places |-> Missing]
  /\ op = Begins("none", Missing)
  /\ kept = [i \in {item.id : item \in Items} |-> Missing] /\ noted = {}
  /\ current = FALSE /\ lost = FALSE
  /\ left = [mutations |-> Mutations, edits |-> Edits]

Here(p) == files[p] # Missing

IsRecord(p) == Here(p) /\ files[p].kind = "record"

TakesIndex(name) == setup.index /\ Alias[name] = Alias[IndexName]

(* readDirectory passes over what has the index's name. *)
Entries == {p \in Places : Here(p) /\ ~TakesIndex(files[p].name)}

IsCorrupt == \E p \in Entries : files[p].kind # "record"

RecordsOf(id) == {p \in Entries : IsRecord(p) /\ files[p].id = id}

NameFor(item) == IF setup.titles THEN item.title ELSE item.id

(* parseRecord: what of an item a body holds. *)
Read(p) ==
  LET body == files[p].body IN
  [id |-> files[p].id,
   preamble |-> IF setup.body = "sections" THEN ReadPreamble(body) ELSE WithoutLastNewline(body),
   section |-> IF setup.body = "sections" THEN ReadSection(body, Section) ELSE Empty]

Listed == {Read(p) : p \in Entries}

GetById(id) ==
  LET found == IF setup.titles THEN RecordsOf(id)
               ELSE {p \in Places : Here(p) /\ p = Place(id) /\ files[p].id = id} IN
  IF found = {} THEN Missing ELSE Read(CHOOSE p \in found : TRUE)

--------------------
(* Mutations *)

(* writeRecord: what it does not know of the file it read, it keeps. *)
Body(item, old) ==
  LET before == IF old = Missing THEN Empty ELSE old.body IN
  Reparsed(IF setup.body = "field" THEN item.preamble
           ELSE WriteSection(WritePreamble(before, item.preamble), Section, item.section))

Written(item, old, name) ==
  [name |-> name, kind |-> "record", id |-> item.id, theirs |-> old # Missing /\ old.theirs, body |-> Body(item, old)]

Refused == [op EXCEPT !.pc = "idle"]

MayBegin == op.pc = "idle" /\ left.mutations > 0 /\ left' = [left EXCEPT !.mutations = @ - 1]

(* A record, or something else that is not an index, in the index's place. *)
IndexIsTaken == setup.index /\ \E p \in Places : Here(p) /\ TakesIndex(files[p].name) /\ files[p].kind # "index"

(* Bug: only the very name of a file is taken. *)
TakenByName(item) == {p \in Entries : files[p].name = NameFor(item)}

Taken(item) == {p \in Entries : Alias[files[p].name] = Alias[NameFor(item)]}

(* put: the file that has the id, whatever its name; else one of its own. *)
LookToPut(item) ==
  /\ MayBegin /\ setup.kind = "records"
  /\ LET there == RecordsOf(item.id)
         at == IF there = {} THEN Place(NameFor(item)) ELSE CHOOSE p \in there : TRUE
         refused == IndexIsTaken \/ IsCorrupt \/ TakesIndex(NameFor(item)) \/ (there = {} /\ Taken(item) # {}) IN
     op' = IF refused THEN Begins("put", item)
           ELSE [Begins("put", item) EXCEPT !.pc = "write", !.at = at, !.old = files[at]]

(* set: the file of the key's name. *)
LookToSet(item) ==
  /\ MayBegin /\ setup.kind = "keys"
  /\ LET at == Place(item.id)
         refused == IsCorrupt \/ \E p \in Taken(item) : files[p].id # item.id IN
     op' = IF refused THEN Begins("set", item)
           ELSE [Begins("set", item) EXCEPT !.pc = "write", !.at = at, !.old = files[at]]

LookToRemove(item) ==
  /\ MayBegin
  /\ LET there == IF setup.kind = "records" THEN RecordsOf(item.id)
                  ELSE {p \in Places : p = Place(item.id) /\ IsRecord(p) /\ files[p].id = item.id}
         refused == setup.kind = "records" /\ (IsCorrupt \/ IndexIsTaken) IN
     op' = IF refused \/ there = {} THEN Begins("remove", item)
           ELSE [Begins("remove", item) EXCEPT !.pc = "unlink", !.at = CHOOSE p \in there : TRUE]

Look ==
  /\ \E item \in Items : LookToPut(item) \/ LookToSet(item) \/ LookToRemove(item)
  /\ UNCHANGED <<files, history, kept, noted, current, lost>>

AfterFile == IF setup.index THEN "reindex" ELSE "commit"

WriteRecord ==
  /\ op.pc = "write"
  /\ LET name == IF op.old # Missing THEN op.old.name ELSE NameFor(op.item) IN
     files' = [files EXCEPT ![op.at] = Written(op.item, op.old, name)]
  /\ lost' = (lost \/ (IsRecord(op.at) /\ files[op.at].id # op.item.id))
  /\ kept' = [kept EXCEPT ![op.item.id] = Missing]
  /\ op' = [op EXCEPT !.pc = AfterFile]
  /\ UNCHANGED <<history, noted, left>> /\ current' = FALSE

(* The file that was found, or what people made of it; or none: rm fails. *)
Unlink ==
  /\ op.pc = "unlink"
  /\ IF Here(op.at)
     THEN /\ files' = [files EXCEPT ![op.at] = Missing]
          /\ lost' = (lost \/ (IsRecord(op.at) /\ files[op.at].id # op.item.id))
          /\ kept' = [kept EXCEPT ![op.item.id] = Missing] /\ noted' = noted \ {op.item.id}
          /\ op' = [op EXCEPT !.pc = AfterFile]
     ELSE op' = Refused /\ UNCHANGED <<files, lost, kept, noted>>
  /\ UNCHANGED <<history, left>> /\ current' = FALSE

(* The mutation fails by now if a file does not parse, and is done. *)
ReadForIndex ==
  /\ op.pc = "reindex"
  /\ op' = IF IsCorrupt THEN Refused ELSE [op EXCEPT !.pc = "index", !.lines = Listed]
  /\ UNCHANGED <<files, history, kept, noted, current, lost, left>>

WriteIndex ==
  /\ op.pc = "index"
  /\ files' = [files EXCEPT ![Place(IndexName)] = [name |-> IndexName, kind |-> "index", lines |-> op.lines]]
  /\ lost' = (lost \/ IsRecord(Place(IndexName)))
  /\ op' = [op EXCEPT !.pc = "commit"]
  /\ UNCHANGED <<history, kept, noted, current, left>>

Touched == {op.at} \cup (IF setup.index THEN {Place(IndexName)} ELSE {})

(* add and commit --only the paths; a failure of git is none of the store's. *)
Commit ==
  /\ op.pc = "commit"
  /\ history' = [p \in Places |-> IF setup.git /\ p \in Touched THEN files[p] ELSE history[p]]
  /\ kept' = [kept EXCEPT ![op.item.id] = IF op.kind = "remove" THEN Missing ELSE op.item]
  /\ current' = TRUE
  /\ op' = [op EXCEPT !.pc = "idle"]
  /\ UNCHANGED <<files, noted, lost, left>>

Die ==
  /\ op.pc # "idle" /\ op' = Refused
  /\ current' = FALSE
  /\ UNCHANGED <<files, history, kept, noted, lost, left>>

--------------------
(* People *)

Edited(p, content) ==
  /\ files' = [files EXCEPT ![p] = content]
  /\ kept' = [i \in DOMAIN kept |-> IF IsRecord(p) /\ files[p].id = i THEN Missing ELSE kept[i]]

AddNotes(p) ==
  /\ IsRecord(p) /\ StartOf(files[p].body, Notes) = 0
  /\ Edited(p, [files[p] EXCEPT !.theirs = TRUE, !.body = @ \o <<Notes, "y", "z", "">>])
  /\ noted' = noted \cup {files[p].id}

Spoil(p) ==
  /\ IsRecord(p) /\ Edited(p, [name |-> files[p].name, kind |-> "corrupt", id |-> Missing])
  /\ noted' = noted \ {files[p].id}

Discard(p) ==
  /\ Here(p) /\ Edited(p, Missing)
  /\ noted' = IF IsRecord(p) THEN noted \ {files[p].id} ELSE noted

People ==
  /\ setup.people = "between" => op.pc = "idle"
  /\ left.edits > 0 /\ left' = [left EXCEPT !.edits = @ - 1]
  /\ \E p \in Places : AddNotes(p) \/ Spoil(p) \/ Discard(p)
  /\ current' = FALSE
  /\ UNCHANGED <<history, op, lost>>

Next ==
  /\ Look \/ WriteRecord \/ Unlink \/ ReadForIndex \/ WriteIndex \/ Commit \/ Die \/ People
  /\ UNCHANGED setup

Spec == Init /\ [][Next]_markdownVars

--------------------
(* Properties *)

Idle == op.pc = "idle"

Alone == setup.people = "between"

TypeOK ==
  /\ \A p \in Places : Here(p) => Place(files[p].name) = p
  /\ op.pc \in {"idle", "write", "unlink", "reindex", "index", "commit"}

(* Files never change hands: no mutation replaces or removes a record of
   another id, whatever names the two are given, on any file system; and
   an id is one file. *)
RecordsKeepTheirFiles ==
  Alone => ~lost /\ \A id \in DOMAIN kept : Cardinality(RecordsOf(id)) <= 1

(* What was put is read, by id and in the list, until somebody changes it.
   (The text of a body field comes back with a newline in front of it.) *)
PutsAreRead ==
  Alone /\ Idle /\ ~IsCorrupt => \A id \in {i \in DOMAIN kept : kept[i] # Missing} :
    LET read == GetById(id)
        item == kept[id] IN
    /\ read # Missing /\ read \in Listed
    /\ Trim(read.preamble) = Trim(item.preamble)
    /\ setup.body = "sections" => read.preamble = Trim(item.preamble) /\ read.section = Trim(item.section)

(* What people add to a file stays, but for its blank lines, through every
   put, of sections. *)
NotesSurvive ==
  Alone => \A p \in Entries : IsRecord(p) /\ files[p].id \in noted =>
    /\ files[p].theirs
    /\ setup.body = "sections" => NonBlank(ReadSection(files[p].body, Notes)) = <<"y", "z">>

(* The index is of the records, once a mutation is through. *)
IndexIsCurrent ==
  Alone /\ Idle /\ current /\ setup.index => files[Place(IndexName)].lines = Listed

(* If git works, history has what the last mutation left, and its index. *)
HistoryFollows ==
  Alone /\ Idle /\ current /\ setup.git /\ op.at # Missing => \A p \in Touched : history[p] = files[p]
===============================================================================
