----------------------------- MODULE AdapterCases -----------------------------
(* What the PostgreSQL adapter's clients c1, c2 and c3 are asked to do (see
   PostgresAdapter; c3 may freeze), and the libSQL adapter's, through the
   adapters a, b and c. Targets are 1 and 2, keys k1 and k2. *)
EXTENDS Marks, Naturals, Sequences, TLC

LOCAL Row(value, version) == [value |-> value, version |-> version]

LOCAL Expect(t, what, version) == [target |-> t, expected |-> what, version |-> version]

LOCAL Do(t, op) == [target |-> t, op |-> op]

LOCAL Batch(key, digest, conditions, operations) ==
  [kind |-> "mutate", key |-> key, digest |-> digest, conditions |-> conditions, operations |-> operations]

LOCAL On(kind, t) == [kind |-> kind, target |-> t]

LOCAL Plain(kind) == [kind |-> kind]

LOCAL Database(rows, receipts, versioned) ==
  [rows |-> rows, receipts |-> receipts, versioned |-> versioned,
   applied |-> {[key |-> k, digest |-> receipts[k].digest, created |-> 0, decided |-> 0, versions |-> receipts[k].versions,
                 conditions |-> <<>>, targets |-> {}, by |-> Missing] : k \in {l \in {"k1", "k2"} : receipts[l] # Missing}}]

LOCAL None == "k1" :> Missing @@ "k2" :> Missing

LOCAL Rows == 1 :> Row("old", <<"w", 0>>) @@ 2 :> Row("older", Missing)

LOCAL Unversioned == 1 :> Row("old", Missing) @@ 2 :> Row("older", Missing)

LOCAL OldReceipt == "k1" :> Missing @@ "k2" :> [digest |-> "x", versions |-> <<>>, created |-> Missing]

LOCAL Cas(key, digest) == Batch(key, digest, <<Expect(1, "version", <<"w", 0>>)>>, <<Do(1, "write"), Do(2, "remove")>>)

LOCAL Scenario(d, w1, w2, w3, wrapped) ==
  [database |-> d, work |-> "c1" :> w1 @@ "c2" :> w2 @@ "c3" :> w3, wrapped |-> wrapped]

PostgresScenarios ==
 { \* one request sent twice, under one key, by two clients
   Scenario(Database(Rows, None, TRUE), <<Cas("k1", "a")>>, <<Cas("k1", "a")>>, <<>>, {}),
   \* two requests that expect one version, one of a client that may freeze
   Scenario(Database(Rows, None, TRUE), <<Cas(NoKey, "a")>>, <<>>, <<Cas(NoKey, "b")>>, {}),
   \* receipts are pruned while a request is repeated
   Scenario(Database(Rows, OldReceipt, TRUE), <<Batch("k1", "a", <<>>, <<Do(1, "write")>>)>>,
            <<>>, <<Plain("prune")>>, {}),
   \* the key of a receipt from before expiry, and a version still to be issued
   Scenario(Database(Rows, OldReceipt, TRUE), <<Batch("k1", "a", <<>>, <<Do(1, "write")>>)>>,
            <<Batch("k2", "x", <<Expect(2, "version", <<"w", 1>>)>>, <<Do(1, "write")>>)>>, <<>>, {}),
   \* two clients create the column for versions while a third reads and writes
   Scenario(Database(Unversioned, None, FALSE), <<Plain("open")>>, <<Plain("open")>>,
            <<On("set", 2)>>, {}),
   \* one key, two requests, one of them in a transaction()
   Scenario(Database(Rows, None, TRUE), <<On("set", 1), Batch("k1", "a", <<Expect(2, "present", 0)>>, <<Do(2, "write")>>)>>,
            <<Batch("k1", "b", <<Expect(2, "present", 0)>>, <<Do(2, "write")>>)>>, <<>>, {"c1"}),
   \* plain writes and a deletion beside reads of versions
   Scenario(Database(Rows, None, TRUE), <<On("read", 2)>>, <<On("set", 1), On("delete", 1)>>, <<On("read", 1)>>, {"c2"}) }

--------------------
LOCAL Mutate(key, digest, condition, writes, removes) ==
  [key |-> key, digest |-> digest, condition |-> condition, writes |-> writes, removes |-> removes]

LOCAL If(t, n) == [target |-> t, version |-> n]

LOCAL Setup(local, a1, a2, a3, w1, w2, w3, alone, faults, n) ==
  [local |-> local, of |-> "c1" :> a1 @@ "c2" :> a2 @@ "c3" :> a3, work |-> "c1" :> w1 @@ "c2" :> w2 @@ "c3" :> w3,
   alone |-> alone, faults |-> faults, attempts |-> n]

LOCAL Both == Mutate("k1", "a", Missing, <<1, 2>>, {})

LOCAL CasLater == Mutate(NoKey, "b", If(1, 1), <<1>>, {2})

LOCAL Second == Mutate(NoKey, "c", Missing, <<2>>, {})

LOCAL Read == <<>>

LibsqlSetups ==
 { \* a server: clients of one adapter and of another
   Setup(FALSE, "a", "a", "b", <<Both>>, <<CasLater>>, Read, FALSE, {}, 2),
   Setup(FALSE, "a", "a", "b", <<Both>>, Read, <<CasLater>>, FALSE, {}, 2),
   \* a server that drops transactions, whose client is told too late or never;
   \* the clients of the adapter begin one after the other
   Setup(FALSE, "a", "a", "a", <<Both>>, <<Second>>, Read, TRUE, {"server"}, 2),
   \* a file that three adapters open, write and close
   Setup(TRUE, "a", "b", "c", <<Both>>, <<CasLater>>, <<Second>>, FALSE, {"close"}, 1),
   \* an adapter closed in the middle of a transaction
   Setup(TRUE, "a", "b", "a", <<Both>>, Read, Read, FALSE, {"close", "abrupt"}, 2) }

(* As the second, with clients that begin while another's transaction is open. *)
OverlappingLibsqlSetups ==
 { Setup(FALSE, "a", "a", "a", <<Both>>, <<Second>>, <<CasLater>>, FALSE, {"server"}, 2) }
===============================================================================
