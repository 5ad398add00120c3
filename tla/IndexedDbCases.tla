----------------------------- MODULE IndexedDbCases -----------------------------
(* What the pages p1 and p2 ask of the IndexedDB adapter (see IndexedDb).
   Target 1 is a key, 2 and 3 are records. *)
EXTENDS Marks, Naturals, Sequences, TLC

LOCAL Write(t, value) == [op |-> "write", target |-> t, value |-> value]

LOCAL Remove(t) == [op |-> "remove", target |-> t]

LOCAL Mutate(key, digest, condition, writes, removes) ==
  [op |-> "mutate", key |-> key, digest |-> digest, condition |-> condition, writes |-> writes, removes |-> removes]

LOCAL If(t, version) == [target |-> t, version |-> version]

LOCAL Do(op) == [op |-> op]

LOCAL Row(value, ordinal) == [value |-> value, ordinal |-> ordinal]

LOCAL Database(schema, r1, r2, r3, v1, v2, v3, receipt, meta) ==
  [schema |-> schema, rows |-> 1 :> r1 @@ 2 :> r2 @@ 3 :> r3, versions |-> 1 :> v1 @@ 2 :> v2 @@ 3 :> v3,
   receipts |-> "k1" :> receipt, meta |-> meta]

LOCAL Meta(identity, v, o) == [identity |-> identity, nextVersion |-> v, nextOrdinal |-> o]

LOCAL Nothing == Database(0, Missing, Missing, Missing, Missing, Missing, Missing, Missing, Missing)

LOCAL OldReceipt == [digest |-> "x", created |-> Missing, versions |-> <<>>]

LOCAL First == Database(1, Row("a", 0), Row("b", 1), Row("c", 2), <<"idb1", 1>>, <<"idb1", 2>>, Missing,
                        OldReceipt, Meta("idb1", 3, 3))

LOCAL Third == Database(3, Row("a", 0), Row("b", 1), Missing, <<"id", 1>>, <<"id", 2>>, Missing, Missing, Meta("id", 3, 2))

(* An export of rows without versions, and one whose counter is behind its versions. *)
LOCAL Unversioned == Database(3, Row("d", 0), Missing, Row("e", 1), Missing, Missing, <<"id", 4>>, OldReceipt, Meta("id", 5, 2))

LOCAL Behind == [Third EXCEPT !.meta = Meta("id", 2, 2)]

LOCAL Setup(d, e, w1, w2, faults, b) ==
  [database |-> d, earlier |-> e, work |-> "p1" :> w1 @@ "p2" :> w2, faults |-> faults, backup |-> b]

IndexedDbSetups ==
 { \* an upgrade from the first schema, blocked by a page of an earlier release
   Setup(First, TRUE, <<Write(1, "n")>>, <<Mutate("k1", "m", Missing, <<3>>, {2})>>, {"open", "close"}, Nothing),
   \* a new database; one request under one key, from both pages; aborted transactions
   Setup(Nothing, FALSE, <<Write(2, "n"), Mutate("k1", "m", Missing, <<1, 3>>, {2})>>,
         <<Mutate("k1", "m", Missing, <<1, 3>>, {2})>>, {"abort"}, Nothing),
   \* a compare-and-set beside plain writes, pruning, a later release's upgrade, lost connections
   Setup(Third, FALSE, <<Mutate("k1", "m", If(1, <<"id", 1>>), <<1, 3>>, {}), Do("prune")>>,
         <<Write(1, "w"), Remove(2), Write(2, "w")>>, {"newer", "lost"}, Nothing),
   \* export, write, import; another page writes on
   Setup(Third, FALSE, <<Do("export"), Write(1, "n"), Do("import")>>, <<Write(2, "w"), Mutate("k1", "m", Missing, <<3>>, {})>>,
         {"abort"}, Nothing),
   \* import of a backup with rows to version, and of one that is refused
   Setup(Third, FALSE, <<Do("import"), Write(2, "w")>>, <<Mutate("k1", "m", Missing, <<3>>, {})>>, {"close"}, Unversioned),
   Setup(Third, FALSE, <<Do("import"), Write(2, "w")>>, <<>>, {}, Behind) }
===============================================================================
