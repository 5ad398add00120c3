------------------------------ MODULE Fixtures ------------------------------
(* The fixture loader: layered sources of documents, three caches, loads
   that await each listing, reading and parsing, materialization through
   references, validation, and seeding of a store. Hosts share one loader;
   their programs also change the files and invalidate the caches.

   A path is a number, in code point order; a type is a number too; a
   fixture is <<type, id>>. A file holds, for each extension by which a
   type may read it, Broken or a function from ids to documents
   [patch, body]; a body is a function from <<key>> or <<key, subkey>> to
   values <<kind, what>>, a <<"ref", r>> among them. Bad is what no schema
   accepts. *)
EXTENDS Integers, FiniteSetsExt, SequencesExt, TLC

CONSTANTS
  Hosts,
  Setups,    \* [types, sources, files, work]: the registry, the layers as declared, what
             \* they hold at first, and the program of each host
  Paths,
  Bad, Broken, Missing

VARIABLES
  setup,
  files,       \* per source: what each path holds
  listing,     \* per source: its last listing, or the store source's cache
  raw,         \* rawCache
  parsed,      \* parsedDocumentCache
  material,    \* materialCache
  host,        \* per host: [at, pc, ref, layer, todo, docs, held, stack, since, answer]
  collection,  \* the store that is seeded: per fixture, [by, value]
  edits,       \* changes of files so far
  clean        \* edits when the caches were last dropped with no call under way

fixtureVars == <<setup, files, listing, raw, parsed, material, host, collection, edits, clean>>

Names == {setup.sources[i].name : i \in DOMAIN setup.sources}

Idle == [at |-> 1, pc |-> "idle", ref |-> Missing, layer |-> 1, todo |-> <<>>, docs |-> <<>>,
         held |-> Missing, stack |-> <<>>, since |-> 0, answer |-> Missing]

Init ==
  /\ setup \in Setups
  /\ files = setup.files
  /\ listing = [s \in Names |-> Missing]
  /\ raw = <<>> /\ parsed = <<>> /\ material = <<>> /\ collection = <<>>
  /\ host = [h \in Hosts |-> Idle]
  /\ edits = 0 /\ clean = 0

--------------------
(* Layers: normalizeLayers, matchEntry, mergeWithStrategy and the fold of
   loadRawInternal. *)

(* Definitions marked "Bug:" are not part of the specification: each is
   the definition that follows it with a plausible mistake, for checking
   that the properties below notice it. *)

Layers ==
  LET s == setup.sources IN
  SortSeq(s, LAMBDA a, b : a.priority < b.priority \/ (a.priority = b.priority /\ a.order < b.order))

Type(t) == setup.types[t]

(* The id that the path gives to a fixture of the type, or Missing. *)
IdAt(t, path) == Type(t).at[path]

IsCandidate(t, id, path) == IdAt(t, path) # Missing /\ (Type(t).document \/ id = Missing \/ IdAt(t, path) = id)

Heads(body) == {path[1] : path \in DOMAIN body}

(* Bug: the values that were there win. *)
MergeUnder(strategy, existing, incoming) == existing @@ incoming

(* An object and a scalar under one key do not occur together here. *)
Merge(strategy, existing, incoming) ==
  CASE strategy = "replace" -> incoming
    [] strategy = "deep" -> incoming @@ existing
    [] strategy = "array-replace" ->
         incoming @@ [path \in {q \in DOMAIN existing : q[1] \notin Heads(incoming)} |-> existing[path]]

IsValid(body) == \A path \in DOMAIN body : body[path][2] # Bad

Outcome(status, value) == [status |-> status, value |-> value]

IsPatch(d) == d.doc.patch # Missing

(* Bug: a patch beside the base is applied too. *)
AppliesBeside(patch, base) == Layers[patch.layer].priority >= Layers[base.layer].priority

Applies(patch, base) == Layers[patch.layer].priority > Layers[base.layer].priority

(* docs: the documents of the fixture, from the lowest layer up. *)
Folded(ref, docs) ==
  LET bases == {i \in DOMAIN docs : ~IsPatch(docs[i])}
      base == docs[Max(bases)]
      above == SelectSeq(SubSeq(docs, Max(bases) + 1, Len(docs)), LAMBDA d : IsPatch(d) /\ Applies(d, base))
      Patched(value, d) ==
        IF value = Bad THEN Bad
        ELSE LET merged == Merge(Type(ref[1]).merge, value, d.doc.body) IN
             IF IsValid(merged) THEN merged ELSE Bad
      value == FoldLeft(Patched, IF IsValid(base.doc.body) THEN base.doc.body ELSE Bad, above)
  IN IF docs = <<>> THEN Outcome("not-found", Missing)
     ELSE IF \E i \in DOMAIN docs : docs[i].doc.patch \notin {Missing, ref} THEN Outcome("patch-ref-mismatch", Missing)
     ELSE IF bases = {} THEN Outcome("patch-without-base", Missing)
     ELSE IF value = Bad THEN Outcome("invalid", Missing)
     ELSE Outcome("ok", value)

RefsIn(body) == {body[path][2] : path \in {q \in DOMAIN body : body[q][1] = "ref"}}

--------------------
(* Candidates: the files of a listing that may hold a fixture. *)

Listed(snapshot) == SetToSortSeq({p \in Paths : snapshot[p] # Missing}, <)

(* A filesystem source names entries by their place in its last listing. *)
Locator(source, snapshot, path) ==
  IF source.kind = "store" THEN path ELSE Cardinality({p \in Paths : snapshot[p] # Missing /\ p <= path})

Candidates(i, snapshot, t, id) ==
  LET paths == SelectSeq(Listed(snapshot), LAMBDA p : IsCandidate(t, id, p)) IN
  [k \in DOMAIN paths |->
     [layer |-> i, path |-> paths[k], locator |-> Locator(Layers[i], snapshot, paths[k])]]

(* Bug: without the extension, types share what either parsed. *)
KeyOfFile(t, c) == <<Layers[c.layer].name, c.locator, c.path>>

KeyOf(t, c) == <<Layers[c.layer].name, c.locator, c.path, Type(t).ext>>

(* expandMapDocument and the filter of parsedCandidates. *)
DocsOf(t, c, content) ==
  IF Type(t).document
  THEN {[layer |-> c.layer, path |-> c.path, id |-> id, doc |-> content[id]] : id \in DOMAIN content}
  ELSE {[layer |-> c.layer, path |-> c.path, id |-> IdAt(t, c.path), doc |-> content["it"]]}

IsTwice(new, docs) == \E d \in new, i \in DOMAIN docs : docs[i].layer = d.layer /\ docs[i].id = d.id

--------------------
(* Loading, one await at a time. *)

Operation(h) == setup.work[h][host[h].at]

Doing(h, op) == host[h].at <= Len(setup.work[h]) /\ Operation(h).op = op

IsMaterializing(h) == Operation(h).op = "materialize"

IsSeeding(h) == Operation(h).op = "seed"

End(h, status, value) ==
  [Idle EXCEPT !.at = host[h].at + 1,
               !.answer = [op |-> Operation(h), status |-> status, value |-> value, since |-> host[h].since]]

Become(h, record) == host' = [host EXCEPT ![h] = record]

Fail(h, status) == Become(h, End(h, status, Missing))

Frame(r, tree, wants) == [ref |-> r, tree |-> tree, wants |-> wants]

(* Bug: seeding does not check what a fixture refers to. *)
WantedByHooks(h, value) == IF IsSeeding(h) THEN {} ELSE RefsIn(value)

Wanted(h, value) == RefsIn(value)

(* The value arrives. The hook of a materialized type asks for the
   fixtures that the value refers to; seeding, which validates each
   fixture, loads what it refers to and no further. *)
Got(h, value) ==
  LET rec == [host[h] EXCEPT !.pc = "next", !.docs = <<>>, !.held = Missing] IN
  IF ~IsMaterializing(h) /\ ~IsSeeding(h) THEN End(h, "ok", value)
  ELSE IF IsSeeding(h) /\ Len(rec.stack) = 2 THEN rec
  ELSE [rec EXCEPT !.stack = Append(@, Frame(rec.ref, {<<rec.ref, value>>}, Wanted(h, value)))]

(* list: a reference without an id is every fixture of the type. *)
GotList(h, refs) ==
  IF IsSeeding(h) THEN [host[h] EXCEPT !.pc = "next", !.docs = <<>>, !.stack = <<Frame(Missing, {}, refs)>>]
  ELSE End(h, "ok", refs)

(* The fixture below the top of the stack, or the caller, gets the tree. *)
Handed(h, stack, tree) ==
  IF stack = <<>> THEN End(h, "ok", tree)
  ELSE [host[h] EXCEPT !.pc = "next", !.stack = [stack EXCEPT ![Len(stack)].tree = @ \cup tree]]

Call(h) ==
  /\ host[h].pc = "idle" /\ \E op \in {"load", "materialize", "list", "seed"} : Doing(h, op)
  /\ Become(h, [host[h] EXCEPT !.pc = "enter", !.ref = Operation(h).ref, !.since = IF clean = edits THEN edits ELSE -1])
  /\ UNCHANGED <<setup, files, listing, raw, parsed, material, collection, edits, clean>>

(* Bug: only the fixture that was asked for first is looked for. *)
IsBottom(h) == host[h].stack # <<>> /\ host[h].stack[1].ref = host[h].ref /\ Len(host[h].stack) # 2

IsOnStack(h) == \E i \in DOMAIN host[h].stack : host[h].stack[i].ref = host[h].ref

(* load and materializeInternal, up to their first await. *)
Enter(h) ==
  LET r == host[h].ref IN
  /\ host[h].pc = "enter"
  /\ Become(h, IF IsMaterializing(h) /\ r \in DOMAIN material THEN Handed(h, host[h].stack, material[r])
               ELSE IF IsMaterializing(h) /\ IsOnStack(h) THEN End(h, "cycle", Missing)
               ELSE IF r \in DOMAIN raw THEN Got(h, raw[r])
               ELSE [host[h] EXCEPT !.pc = "list", !.layer = 1, !.todo = <<>>, !.docs = <<>>])
  /\ UNCHANGED <<setup, files, listing, raw, parsed, material, collection, edits, clean>>

Snapshot(source) ==
  IF source.kind = "store" /\ listing[source.name] # Missing THEN listing[source.name] ELSE files[source.name]

(* list of a source: a filesystem source reads the directory and keeps the
   listing; a store source awaits the store unless it has a cache. *)
ListSource(h) ==
  LET source == Layers[host[h].layer] IN
  /\ host[h].pc = "list"
  /\ IF source.down THEN Fail(h, "source-list-failed") /\ UNCHANGED listing
     ELSE /\ Become(h, [host[h] EXCEPT !.pc = "listed",
                          !.held = [entries |-> Snapshot(source), fresh |-> listing[source.name] = Missing]])
          /\ listing' = IF source.kind = "store" THEN listing ELSE [listing EXCEPT ![source.name] = files[source.name]]
  /\ UNCHANGED <<setup, files, raw, parsed, material, collection, edits, clean>>

(* Bug: one layer too many is listed. *)
IsPastLast(i) == i > Len(Layers)

IsLast(i) == i = Len(Layers)

(* The listing arrives; a store source keeps one that it asked for. *)
TakeListing(h) ==
  LET i == host[h].layer
      source == Layers[i]
      ref == host[h].ref IN
  /\ host[h].pc = "listed"
  /\ listing' = IF source.kind = "store" /\ host[h].held.fresh
                THEN [listing EXCEPT ![source.name] = host[h].held.entries] ELSE listing
  /\ Become(h, [host[h] EXCEPT !.pc = IF IsLast(i) THEN "read" ELSE "list", !.layer = i + 1, !.held = Missing,
                               !.todo = @ \o Candidates(i, host[h].held.entries, ref[1], ref[2])])
  /\ UNCHANGED <<setup, files, raw, parsed, material, collection, edits, clean>>

(* The documents of a file that was parsed join those of the fixture. *)
Expanded(h, content) ==
  LET t == host[h].ref[1]
      wanted == {d \in DocsOf(t, Head(host[h].todo), content) : host[h].ref[2] \in {Missing, d.id}}
  IN IF IsTwice(wanted, host[h].docs) THEN End(h, "duplicate", Missing)
     ELSE [host[h] EXCEPT !.pc = "read", !.held = Missing, !.todo = Tail(@), !.docs = @ \o SetToSeq(wanted)]

(* A source reads what its listing names: a file that is where it was, or
   the store's item as the cache has it. *)
ContentOf(c) ==
  LET source == Layers[c.layer]
      entries == IF source.kind = "store" THEN Snapshot(source) ELSE listing[source.name] IN
  IF entries[c.path] = Missing \/ Locator(source, entries, c.path) # c.locator THEN Missing
  ELSE IF source.kind = "store" THEN entries[c.path] ELSE files[source.name][c.path]

(* readAndParse, up to its await of the source. *)
ReadFile(h) ==
  LET c == Head(host[h].todo)
      t == host[h].ref[1]
      source == Layers[c.layer] IN
  /\ host[h].pc = "read" /\ host[h].todo # <<>>
  /\ IF KeyOf(t, c) \in DOMAIN parsed
     THEN Become(h, Expanded(h, parsed[KeyOf(t, c)])) /\ UNCHANGED listing
     ELSE /\ IF ContentOf(c) = Missing THEN Fail(h, "source-read-failed")
             ELSE Become(h, [host[h] EXCEPT !.pc = "parse", !.held = ContentOf(c)])
          /\ listing' = IF source.kind = "store" THEN [listing EXCEPT ![source.name] = Snapshot(source)] ELSE listing
  /\ UNCHANGED <<setup, files, raw, parsed, material, collection, edits, clean>>

(* The parser's result is cached, unless it failed. *)
ParseFile(h) ==
  LET t == host[h].ref[1]
      content == host[h].held[Type(t).ext] IN
  /\ host[h].pc = "parse"
  /\ IF content = Broken THEN Fail(h, "parse-failed") /\ UNCHANGED parsed
     ELSE /\ parsed' = (KeyOf(t, Head(host[h].todo)) :> content) @@ parsed
          /\ Become(h, Expanded(h, content))
  /\ UNCHANGED <<setup, files, listing, raw, material, collection, edits, clean>>

FinishList(h) ==
  /\ host[h].pc = "read" /\ host[h].todo = <<>> /\ host[h].ref[2] = Missing
  /\ Become(h, GotList(h, {<<host[h].ref[1], host[h].docs[i].id>> : i \in DOMAIN host[h].docs}))
  /\ UNCHANGED <<setup, files, listing, raw, parsed, material, collection, edits, clean>>

(* The fixture is put together and cached. *)
FinishLoad(h) ==
  LET loaded == Folded(host[h].ref, host[h].docs) IN
  /\ host[h].pc = "read" /\ host[h].todo = <<>> /\ host[h].ref[2] # Missing
  /\ IF loaded.status = "ok"
     THEN raw' = (host[h].ref :> loaded.value) @@ raw /\ Become(h, Got(h, loaded.value))
     ELSE Fail(h, loaded.status) /\ UNCHANGED raw
  /\ UNCHANGED <<setup, files, listing, parsed, material, collection, edits, clean>>

(* The hook, or seeding, asks for another fixture, or has all it needs. *)
NextFixture(h) ==
  LET stack == host[h].stack
      top == Last(stack) IN
  /\ host[h].pc = "next"
  /\ \/ /\ top.wants = {}
        /\ Become(h, IF top.ref = Missing THEN [host[h] EXCEPT !.pc = "write", !.held = top.tree]
                     ELSE Handed(h, Front(stack), top.tree))
        /\ material' = IF IsMaterializing(h) THEN (top.ref :> top.tree) @@ material ELSE material
     \/ \E r \in top.wants :
          /\ Become(h, [host[h] EXCEPT !.pc = "enter", !.ref = r, !.stack[Len(stack)].wants = @ \ {r}])
          /\ UNCHANGED material
  /\ UNCHANGED <<setup, files, listing, raw, parsed, collection, edits, clean>>

(* seedStoreFromFixtures writes when all are loaded, one by one;
   insert-only asks for the item first. *)
SeedNext(h) ==
  /\ host[h].pc = "write"
  /\ IF host[h].held = {} THEN Become(h, End(h, "ok", Missing))
     ELSE \E item \in host[h].held :
       Become(h, IF Operation(h).insertOnly /\ item[1] \in DOMAIN collection
                 THEN [host[h] EXCEPT !.held = @ \ {item}]
                 ELSE [host[h] EXCEPT !.pc = "put", !.ref = item])
  /\ UNCHANGED <<setup, files, listing, raw, parsed, material, collection, edits, clean>>

SeedPut(h) ==
  LET item == host[h].ref IN
  /\ host[h].pc = "put"
  /\ collection' = (item[1] :> [by |-> h, value |-> item[2]]) @@ collection
  /\ Become(h, [host[h] EXCEPT !.pc = "write", !.held = @ \ {item}])
  /\ UNCHANGED <<setup, files, listing, raw, parsed, material, edits, clean>>

--------------------
(* What the host does between calls. *)

(* Bug: what was materialized from other fixtures stays. *)
OnlyIts(r) == [q \in DOMAIN material \ {r} |-> material[q]]

(* A materialized value may hold any other: all of them go. *)
WithoutMaterial(r) == <<>>

(* invalidate: of one fixture, or of everything. *)
Invalidate(h) ==
  LET r == Operation(h).ref IN
  /\ host[h].pc = "idle" /\ Doing(h, "invalidate")
  /\ raw' = IF r = Missing THEN <<>> ELSE [q \in DOMAIN raw \ {r} |-> raw[q]]
  /\ material' = WithoutMaterial(r)
  /\ parsed' = <<>>
  /\ clean' = IF /\ r = Missing \/ DOMAIN raw \subseteq {r}
                 /\ \A g \in Hosts : host[g].pc = "idle"
                 /\ \A i \in DOMAIN Layers : Layers[i].kind = "store" => listing[Layers[i].name] \in {Missing, files[Layers[i].name]}
              THEN edits ELSE clean
  /\ Become(h, End(h, "ok", Missing))
  /\ UNCHANGED <<setup, files, listing, collection, edits>>

(* invalidate of a store source. *)
DropListing(h) ==
  /\ host[h].pc = "idle" /\ Doing(h, "drop")
  /\ listing' = [listing EXCEPT ![Operation(h).source] = Missing]
  /\ Become(h, End(h, "ok", Missing))
  /\ UNCHANGED <<setup, files, raw, parsed, material, collection, edits, clean>>

(* A file or an item is written or removed. *)
Edit(h) ==
  LET o == Operation(h) IN
  /\ host[h].pc = "idle" /\ Doing(h, "edit")
  /\ files' = [files EXCEPT ![o.source][o.path] = o.content]
  /\ edits' = edits + 1
  /\ Become(h, End(h, "ok", Missing))
  /\ UNCHANGED <<setup, listing, raw, parsed, material, collection, clean>>

--------------------
(* The command `validate`: a loader of its own, whose caches are empty,
   goes through everything; the files do not change meanwhile. *)

ParseOf(t, c) == files[Layers[c.layer].name][c.path][Type(t).ext]

File(c) == <<c.layer, c.path>>

AllCandidates(t, id, skipped) ==
  LET of(i) == IF Layers[i].down THEN <<>> ELSE Candidates(i, files[Layers[i].name], t, id) IN
  SelectSeq(FlattenSeq([i \in DOMAIN Layers |-> of(i)]), LAMBDA c : File(c) \notin skipped)

(* Bug: the whole source of a file that failed is left out. *)
SkippedWithSource(c, skipped) == skipped \cup {<<c.layer, p>> : p \in Paths}

(* skipFailure: the one file that failed is left out of the rest. *)
Skipped(c, skipped) == skipped \cup {File(c)}

(* discoverRefsForValidation, of one type: each failure is reported and
   skipped, and the candidates are gone through again. *)
Discovered(found, t) ==
  LET Visit(acc, c) ==
        LET content == ParseOf(t, c) IN
        IF File(c) \in acc.skipped THEN acc
        ELSE IF content = Broken \/ IsTwice(DocsOf(t, c, content), acc.docs)
        THEN [acc EXCEPT !.skipped = Skipped(c, @),
                         !.reports = Append(@, [code |-> "file", at |-> File(c), to |-> Missing])]
        ELSE [acc EXCEPT !.docs = @ \o SetToSeq(DocsOf(t, c, content))]
      end == FoldLeft(Visit, [docs |-> <<>>, skipped |-> found.skipped, reports |-> found.reports],
                      AllCandidates(t, Missing, found.skipped))
  IN [refs |-> found.refs \cup {<<t, end.docs[i].id>> : i \in DOMAIN end.docs},
      skipped |-> end.skipped, reports |-> end.reports]

Discovery ==
  LET down == SelectSeq([i \in DOMAIN Layers |-> i], LAMBDA i : Layers[i].down) IN
  FoldLeft(Discovered,
           [refs |-> {}, skipped |-> {},
            reports |-> [k \in DOMAIN down |-> [code |-> "source", at |-> <<down[k], 0>>, to |-> Missing]]],
           [t \in DOMAIN setup.types |-> t])

(* loadRawInternal with files left out. *)
LoadedNow(ref, skipped) ==
  LET t == ref[1]
      Visit(docs, c) ==
        LET wanted == {d \in DocsOf(t, c, ParseOf(t, c)) : d.id = ref[2]} IN
        IF docs \in {Broken, Missing} THEN docs
        ELSE IF ParseOf(t, c) = Broken THEN Broken
        ELSE IF IsTwice(wanted, docs) THEN Missing
        ELSE docs \o SetToSeq(wanted)
      docs == FoldLeft(Visit, <<>>, AllCandidates(t, ref[2], skipped))
  IN IF docs = Broken THEN Outcome("parse-failed", Missing)
     ELSE IF docs = Missing THEN Outcome("duplicate", Missing)
     ELSE Folded(ref, docs)

(* Bug: what a skipped file may define counts as missing. *)
NeverInSkipped(ref, skipped) == FALSE

(* failedFileFor. *)
MayBeInSkipped(ref, skipped) == \E f \in skipped : IsCandidate(ref[1], ref[2], f[2])

(* validateExtractedReferences: a reference whose load fails in another
   way ends the checking of the fixture, with that error alone. *)
ReferenceReports(ref, body, skipped) ==
  LET status(r) == LoadedNow(r, skipped).status
      failing == {r \in RefsIn(body) : status(r) \notin {"ok", "not-found"}} IN
  IF failing # {} THEN {[code |-> status(CHOOSE r \in failing : TRUE), at |-> ref, to |-> Missing]}
  ELSE {[code |-> IF MayBeInSkipped(r, skipped) THEN "unresolved-reference" ELSE "missing-reference", at |-> ref, to |-> r] :
          r \in {q \in RefsIn(body) : status(q) = "not-found"}}

ReportsOn(ref, skipped) ==
  LET loaded == LoadedNow(ref, skipped) IN
  IF loaded.status = "ok" THEN ReferenceReports(ref, loaded.value, skipped)
  ELSE {[code |-> loaded.status, at |-> ref, to |-> Missing]}

Report == Discovery.reports \o SetToSeq(UNION {ReportsOn(ref, Discovery.skipped) : ref \in Discovery.refs})

(* The only warning. *)
IsOk(reports) == \A i \in DOMAIN reports : reports[i].code = "unresolved-reference"

ValidateAll(h) ==
  /\ host[h].pc = "idle" /\ Doing(h, "validate")
  /\ Become(h, [End(h, "ok", Report) EXCEPT !.answer.since = edits])
  /\ UNCHANGED <<setup, files, listing, raw, parsed, material, collection, edits, clean>>

--------------------

Step(h) ==
  \/ Call(h) \/ Enter(h) \/ ListSource(h) \/ TakeListing(h) \/ ReadFile(h) \/ ParseFile(h)
  \/ FinishList(h) \/ FinishLoad(h) \/ NextFixture(h) \/ SeedNext(h) \/ SeedPut(h)
  \/ Invalidate(h) \/ DropListing(h) \/ Edit(h) \/ ValidateAll(h)

Next == \E h \in Hosts : Step(h)

Spec == Init /\ [][Next]_fixtureVars

--------------------
(* Properties *)

TypeOK ==
  /\ \A h \in Hosts :
       /\ host[h].pc \in {"idle", "enter", "list", "listed", "read", "parse", "next", "write", "put"}
       /\ host[h].pc = "idle" => host[h].stack = <<>> /\ host[h].docs = <<>>
       /\ host[h].layer \in 1..(Len(Layers) + 1) /\ (host[h].pc \in {"list", "listed"} => host[h].layer \in DOMAIN Layers)
  /\ \A key \in DOMAIN parsed : parsed[key] # Broken
  /\ clean <= edits

(* The documents that the layers hold of a fixture, by layer. *)
Holders(ref) ==
  UNION {UNION {{d \in DocsOf(ref[1], c, ParseOf(ref[1], c)) : d.id = ref[2]} :
                  c \in ToSet(Candidates(i, files[Layers[i].name], ref[1], ref[2]))} : i \in DOMAIN Layers}

HighestBase(ref) ==
  CHOOSE d \in Holders(ref) : ~IsPatch(d) /\ \A e \in Holders(ref) : ~IsPatch(e) => e.layer <= d.layer

(* The base and the patches above its priority. *)
Contributing(ref) ==
  {HighestBase(ref)} \cup
  {d \in Holders(ref) : IsPatch(d) /\ Layers[d.layer].priority > Layers[HighestBase(ref).layer].priority}

(* The highest contribution that says anything of a field decides it. *)
IsDecidedFromAbove(ref, value) ==
  LET strategy == Type(ref[1]).merge
      speaks(d, field) ==
        CASE strategy = "deep" -> field \in DOMAIN d.doc.body
          [] strategy = "array-replace" -> field[1] \in Heads(d.doc.body)
          [] strategy = "replace" -> TRUE
      fields == UNION {DOMAIN d.doc.body : d \in Contributing(ref)} \cup DOMAIN value
  IN \A field \in fields :
       LET d == CHOOSE e \in Contributing(ref) :
                  speaks(e, field) /\ \A o \in Contributing(ref) : speaks(o, field) => o.layer <= e.layer IN
       IF field \in DOMAIN d.doc.body THEN field \in DOMAIN value /\ value[field] = d.doc.body[field]
       ELSE field \notin DOMAIN value

IsCurrent == clean = edits

(* After the caches are dropped at rest, and until the files change, what
   the caches hold, whatever loads and lists overlap, is what the files
   say: the highest base, and every field from the highest patch. *)
CachesAreCurrent ==
  IsCurrent =>
    /\ \A ref \in DOMAIN raw : IsDecidedFromAbove(ref, raw[ref])
    /\ \A ref \in DOMAIN material : \A node \in material[ref] : IsDecidedFromAbove(node[1], node[2])

(* A fixture and what it refers to, as far as that can be loaded. *)
Successors(refs) ==
  refs \cup UNION {IF LoadedNow(r, {}).status = "ok" THEN RefsIn(LoadedNow(r, {}).value) ELSE {} : r \in refs}

RefersToItself(ref) ==
  LET depth == Cardinality(UNION {{<<t, Type(t).at[p]>> : p \in Paths} : t \in DOMAIN setup.types}) + 2
      reach[n \in 0..depth] ==
        IF n = 0 THEN RefsIn(LoadedNow(ref, {}).value) ELSE Successors(reach[n - 1])
  IN ref \in reach[depth]

(* What a call answers when nothing changed since it began is so: a value is what the
   files say and what it refers to is there; a fixture that is refused is
   not there or not in order; and a cycle is one. *)
AnswersAreRight ==
  \A h \in Hosts :
    LET a == host[h].answer IN
    a # Missing /\ a.since = edits /\ a.op.op \in {"load", "materialize"} =>
      LET now == LoadedNow(a.op.ref, {}) IN
      /\ a.status = "ok" /\ a.op.op = "load" => now.status = "ok" /\ IsDecidedFromAbove(a.op.ref, a.value)
      /\ a.op.op = "load" /\ a.status # "ok" => a.status = now.status
      /\ a.status = "ok" /\ a.op.op = "materialize" =>
           now.status = "ok" /\ \A node \in a.value : ~RefersToItself(node[1])
                            /\ \A r \in RefsIn(node[2]) : \E other \in a.value : other[1] = r
      /\ a.status = "cycle" => now.status = "ok"

(* No fixture is materialized within itself. *)
ChainsAreSimple ==
  \A h \in Hosts : \A i, j \in DOMAIN host[h].stack : host[h].stack[i].ref = host[h].stack[j].ref => i = j

(* validate, of files as they are, reports each file that fails once, goes
   on with the rest of its source, and says that a reference is missing
   only when no file, had it not failed, could define it; it finds nothing
   to report exactly when everything that can be listed can be loaded. *)
ReportsAreFair ==
  \A h \in Hosts :
    LET a == host[h].answer
        broken(t, i, p) == IsCandidate(t, Missing, p) /\ files[Layers[i].name][p] # Missing
                             /\ files[Layers[i].name][p][Type(t).ext] = Broken
        failed == {f \in {<<i, p>> : i \in {k \in DOMAIN Layers : ~Layers[k].down}, p \in Paths} :
                     \E t \in DOMAIN setup.types : broken(t, f[1], f[2])}
        about(f) == {k \in DOMAIN a.value : a.value[k].code = "file" /\ a.value[k].at = f} IN
    a # Missing /\ a.since = edits /\ a.op.op = "validate" =>
      /\ \A f \in failed : Cardinality(about(f)) = 1
      /\ \A k \in DOMAIN a.value : a.value[k].code = "missing-reference" =>
           ~\E f \in failed : IsCandidate(a.value[k].to[1], a.value[k].to[2], f[2])
      /\ IsOk(a.value) =>
           \A t \in DOMAIN setup.types, i \in DOMAIN Layers : \A c \in ToSet(Candidates(i, files[Layers[i].name], t, Missing)) :
             /\ ParseOf(t, c) # Broken
             /\ \A d \in DocsOf(t, c, ParseOf(t, c)) :
                  LET loaded == LoadedNow(<<t, d.id>>, {}) IN
                  loaded.status = "ok" /\ \A r \in RefsIn(loaded.value) : LoadedNow(r, {}).status = "ok"

(* Seeding writes all the fixtures of the type or, when one of them or
   what one refers to is not in order, none. *)
SeedsAllOrNothing ==
  \A h \in Hosts :
    LET a == host[h].answer IN
    a # Missing /\ a.op.op = "seed" =>
      IF a.status # "ok" THEN ~\E ref \in DOMAIN collection : collection[ref].by = h
      ELSE a.since = edits =>
             \A ref \in Discovery.refs : ref[1] = a.op.ref[1] =>
               ref \in DOMAIN collection
                 /\ \A r \in RefsIn(LoadedNow(ref, {}).value) : LoadedNow(r, {}).status = "ok"
===============================================================================
