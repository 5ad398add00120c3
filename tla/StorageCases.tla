---------------------------- MODULE StorageCases ----------------------------
(* What is asked at once of the object stores, of the object store in SurrealDB,
   and of the Markdown store. *)
EXTENDS TLC, Naturals

LOCAL Ask(kind, key) == [kind |-> kind, key |-> key]

LOCAL Create == Ask("create", "k")

LOCAL Overwrite == Ask("overwrite", "k")

LOCAL Delete == Ask("delete", "k")

LOCAL List == Ask("list", "none")

LOCAL Store(store, requests, leased, before, faults) ==
  [store |-> store, requests |-> requests, leased |-> leased, before |-> before, faults |-> faults]

LOCAL Several ==
  { Store(store, requests, leased, before, faults) :
      store \in {"memory", "files", "early", "late", "blob"},
      requests \in {"x" :> Create @@ "y" :> Create @@ "z" :> Delete, "x" :> Create @@ "y" :> Overwrite},
      leased \in BOOLEAN, before \in {{"k"}}, faults \in {{"source", "service", "die"}} }
  \cup { Store(store, "x" :> Create @@ "y" :> Overwrite @@ "z" :> Delete, FALSE, {}, {"source", "die"}) :
            store \in {"files", "early", "late", "blob"} }

LOCAL Deletions ==
  { Store(store, "x" :> Delete @@ "y" :> Delete @@ "z" :> Create, FALSE, {"k"}, {}) : store \in {"memory", "files", "blob"} }

LOCAL Listings ==
  { Store(store, "x" :> List @@ "y" :> Ask("create", "l") @@ "z" :> Delete, FALSE, {"k"}, {"die"}) :
      store \in {"memory", "files", "early", "late", "blob"} }

ObjectStoreSetups == Several \cup Deletions \cup Listings

--------------------
LOCAL Stream(requests, process, punctual, faults) ==
  [requests |-> requests, process |-> process, punctual |-> punctual, faults |-> faults]

LOCAL Together == "x" :> "p1" @@ "y" :> "p1" @@ "z" :> "p1"

LOCAL Apart == "x" :> "p1" @@ "y" :> "p2" @@ "z" :> "p2"

LOCAL Creates == "x" :> "create" @@ "y" :> "create"

LOCAL Scavenged == "x" :> "create" @@ "y" :> "scavenge"

SurrealObjectSetups ==
  { Stream(Creates, Together, TRUE, {"source"}),
    Stream("x" :> "overwrite" @@ "y" :> "create" @@ "z" :> "delete", Together, TRUE, {}),
    Stream("x" :> "overwrite" @@ "y" :> "overwrite" @@ "z" :> "read", Together, TRUE, {}),
    Stream("x" :> "overwrite" @@ "y" :> "delete" @@ "z" :> "read", Together, TRUE, {}),
    Stream(Scavenged @@ "z" :> "read", Apart, TRUE, {"die"}),
    Stream(Scavenged, Together, FALSE, {"query"}),
    Stream(Scavenged, Apart, FALSE, {}) }

--------------------
(* Names, texts and collections of the Markdown store. *)
LOCAL Item(id, title, preamble, section) == [id |-> id, title |-> title, preamble |-> preamble, section |-> section]

MarkdownItems ==
  { Item("a.md", "t.md", <<"p">>, <<"x">>), Item("a.md", "A.md", <<"">>, <<"x", "###", "y">>),
    Item("A.md", "t.md", <<"p", "q">>, <<"">>) }

MarkdownFileNames == {"a.md", "A.md", "t.md", "INDEX.md"}

MarkdownAlias == [n \in MarkdownFileNames |-> IF n = "A.md" THEN "a.md" ELSE n]

MarkdownLevels == "## A" :> 2 @@ "## B" :> 2 @@ "###" :> 3

LOCAL Directory(kind, titles, index, body, folds, people) ==
  [kind |-> kind, titles |-> titles, index |-> index, body |-> body, folds |-> folds, git |-> index, people |-> people]

MarkdownSetups ==
  { Directory("records", titles, index, "sections", titles # index, "between") : titles \in BOOLEAN, index \in BOOLEAN }
  \cup { Directory("records", TRUE, TRUE, "sections", TRUE, "between") }
  \cup { Directory("keys", FALSE, FALSE, body, folds, "between") : body \in {"field", "sections"}, folds \in BOOLEAN }
  \cup { Directory("records", TRUE, TRUE, "field", FALSE, people) : people \in {"between", "during"} }
==============================================================================
