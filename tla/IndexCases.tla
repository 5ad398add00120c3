----------------------------- MODULE IndexCases -----------------------------
(* Graphs and what is asked of them; vectors, collections and searches;
   lineage, calls and repairs; texts and what is searched in them. *)
EXTENDS Marks, Integers, Sequences, TLC

LOCAL Edge(from, to, type) == [from |-> from, to |-> to, type |-> type]

LOCAL Line == 1 :> Edge("a", "b", "t") @@ 2 :> Edge("b", "c", "u") @@ 3 :> Missing

LOCAL Round == 1 :> Edge("a", "b", "t") @@ 2 :> Edge("b", "a", "t") @@ 3 :> Edge("c", "c", "u")

LOCAL Fork == 1 :> Edge("a", "b", "t") @@ 2 :> Edge("c", "a", "u") @@ 3 :> Edge("c", "b", "t")

LOCAL Walk(way, depth, direction, types, where) ==
  [way |-> way, start |-> "a", depth |-> depth, direction |-> direction, types |-> types, where |-> where]

LOCAL Nowhere == [f \in {} |-> Missing]

LOCAL Walks ==
  { Walk(way, depth, direction, types, Nowhere) : way \in {"traverse", "batched"}, depth \in {0, 3, 4},
      direction \in {"out", "in", "both"}, types \in {{}, {"t"}} }
  \cup { Walk(way, 4, direction, {}, where) : way \in {"traverse", "batched"}, direction \in {"out", "both"},
           where \in {"from" :> "a", "to" :> "c", "type" :> "t"} }
  \cup { Walk("neighbors", 0, direction, types, Nowhere) : direction \in {"out", "in", "both"}, types \in {{}, {"t"}} }

WalkSetups == [store : {"plain", "listing", "surreal"}, edges : {Line, Round, Fork}, asks : {Walks}]

WalkNewEdges == {Edge("b", "c", "t"), Edge("c", "a", "t")}

--------------------
LOCAL V(exact, native) == [dims |-> 2, usable |-> TRUE, exact |-> exact, native |-> native]

LOCAL Zero == [dims |-> 2, usable |-> FALSE, exact |-> 0, native |-> 0]

LOCAL Long == [dims |-> 3, usable |-> TRUE, exact |-> 9, native |-> 9]

LOCAL NoFields == [f \in {} |-> Missing]

LOCAL Row(vector, meta) == [vector |-> vector, meta |-> meta]

LOCAL Fields == "a" :> 1 @@ "b" :> 1

LOCAL Doc(id, vector, meta) == [id |-> id, vector |-> vector, meta |-> meta]

LOCAL Upsert(docs) == [kind |-> "upsert", docs |-> docs]

LOCAL RemoveIt(id) == [kind |-> "remove", id |-> id]

LOCAL SearchFor(topK, minScore, where, whereNot) ==
  [kind |-> "search", topK |-> topK, minScore |-> minScore, where |-> where, whereNot |-> whereNot]

LOCAL Nothing == [id \in 1 .. 4 |-> Missing]

LOCAL Stored ==
  { <<a, b, c, d>> :
      a \in {Row(V(5, 4), Missing), Row(V(4, 5), NoFields)}, b \in {Missing, Row(V(4, 5), "a" :> 1)},
      c \in {Row(V(5, 5), Fields), Row(Zero, Fields), Row(V(3, 4), Missing)}, d \in {Row(V(5, 4), Fields), Row(V(2, 1), Missing)} }

LOCAL Filters == {Missing, NoFields, "a" :> 1, Fields}

LOCAL Searches ==
  { SearchFor(topK, minScore, Missing, Missing) : topK \in {-1, 0, 1, 2, 9}, minScore \in {-99, 4, 5} }
  \cup { SearchFor(topK, -99, where, whereNot) : topK \in {-1, 2}, where \in Filters, whereNot \in Filters }

LOCAL Setup(store, stored, dims, declared, work, crowd) ==
  [store |-> store, rows |-> stored, dims |-> dims, declared |-> declared, work |-> work, crowd |-> crowd]

LOCAL Alone ==
  { Setup(store, rows, dims, "c1" :> 2, "c1" :> <<ask>>, crowd) :
      store \in {"memory", "sqlite", "libsql", "qdrant", "surreal"}, rows \in Stored, dims \in {2}, ask \in Searches,
      crowd \in {0} }
  \cup { Setup("libsql", rows, 2, "c1" :> 2, "c1" :> <<ask>>, crowd) :
           rows \in Stored, ask \in {SearchFor(topK, -99, Missing, Missing) : topK \in {2, 9}}, crowd \in {13, 30} }

LOCAL Changes ==
  { <<Upsert(<<Doc(2, V(5, 4), Fields), Doc(3, V(1, 2), Fields)>>), RemoveIt(1)>>, <<RemoveIt(4), RemoveIt(1)>>,
    <<Upsert(<<Doc(1, V(1, 1), Missing)>>), Upsert(<<Doc(4, V(6, 5), Fields), Doc(4, V(3, 4), Fields)>>)>> }

LOCAL Beside ==
  { Setup(store, rows, 2, "c1" :> 2 @@ "c2" :> 2, "c1" :> <<ask>> @@ "c2" :> work, 0) :
      store \in {"libsql", "qdrant", "surreal"}, rows \in {r \in Stored : r[2] # Missing}, work \in Changes,
      ask \in {SearchFor(2, -99, Missing, Missing), SearchFor(1, 4, Missing, "b" :> 1)} }

LOCAL Opened ==
  { Setup(store, Nothing, 0, declared, "c1" :> <<Upsert(<<Doc(1, first, Missing), Doc(2, second, Missing)>>), ask>> @@ others, 0) :
      store \in {"sqlite", "libsql", "qdrant", "surreal"},
      declared \in {"c1" :> 0 @@ "c2" :> 0, "c1" :> 2 @@ "c2" :> 2, "c1" :> 2 @@ "c2" :> 3},
      first \in {V(5, 4), Zero, Long}, second \in {V(5, 5), Long}, ask \in {SearchFor(1, -99, Missing, Missing)},
      others \in {<<>>, "c2" :> <<Upsert(<<Doc(3, Long, Missing)>>)>>, "c2" :> <<Upsert(<<Doc(3, V(4, 4), Missing)>>), RemoveIt(1)>>} }

(* SurrealDB refuses vectors without a direction; Qdrant has to be given
   dimensions. *)
LOCAL CanBe(s) ==
  /\ s.store = "surreal" => \A id \in 1 .. 4 : s.rows[id] # Missing => s.rows[id].vector.usable
  /\ s.store = "qdrant" => \A c \in DOMAIN s.work : s.declared[c] # 0

VectorSetups == {s \in Alone \cup Beside \cup Opened : CanBe(s)}

--------------------
LineageEnds ==
  "ab" :> <<"a", "b">> @@ "ba" :> <<"b", "a">> @@ "bc" :> <<"b", "c">> @@ "ca" :> <<"c", "a">>
  @@ "ac" :> <<"a", "c">> @@ "cc" :> <<"c", "c">>

LOCAL Ask(kind, of) == [kind |-> kind, of |-> of, bytes |-> "b1"]

LOCAL All == [a \in {"a", "b", "c"} |-> "b1"]

LOCAL Lineages(records, objects, edges, requests) ==
  [memory : BOOLEAN, records : records, objects : objects, edges : edges, requests : requests]

LOCAL Pair(x, y) == "x" :> x @@ "y" :> y

LOCAL Triple(x, y, z) == Pair(x, y) @@ "z" :> z

LOCAL Linked == Lineages({{"a", "b", "c"}}, {All}, {{}, {"ab"}},
  { Triple(Ask("link", "bc"), Ask("link", "ca"), Ask("unlink", "ab")),
    Triple(Ask("link", "ba"), Ask("delete", "b"), Ask("annotate", "b")),
    Triple(Ask("link", "bc"), Ask("delete", "b"), Ask("create", "b")),
    Pair(Ask("link", "ab"), Ask("link", "ba")),
    Pair(Ask("link", "cc"), Ask("link", "cc")) })

LOCAL Undisturbed == "x" :> Ask("repair", "a")

LOCAL With(asks) == {Pair(Ask("repair", "a"), ask) : ask \in asks}

LOCAL Of(as, bytes) == [a \in as |-> bytes]

LOCAL Unsound ==
  Lineages({{"a", "b", "c"}}, {All}, {{"ab", "bc", "ca"}, {"cc", "bc"}, {"ab", "ba", "ac", "ca"}}, {Undisturbed})
  \cup Lineages({{"a", "b"}}, {Of({"a", "b"}, "b1")}, {{"ca", "ab"}, {"bc"}, {"cc", "ab", "ba"}}, {Undisturbed})
  \cup Lineages({{"a", "b"}}, {Of({"b", "c"}, "b1"), Of({"b"}, "b2")}, {{"ab"}, {"ba", "ca"}}, {Undisturbed})

LOCAL Disturbed ==
  Lineages({{"a", "b", "c"}}, {All}, {{"ab", "ba"}},
           With({Ask("delete", "a"), Ask("link", "bc"), Ask("annotate", "a"), Ask("unlink", "ab")}))
  \cup Lineages({{"a", "b"}}, {Of({"b"}, "b1")}, {{"ab"}},
                With({Ask("annotate", "a"), Ask("supply", "a"), Ask("delete", "a")}))
  \cup Lineages({{"a", "b"}}, {Of({"b", "c"}, "b1")}, {{"bc"}, {"ca"}}, With({Ask("create", "c"), Ask("delete", "b")}))

LineageSetups == Linked \cup Unsound \cup Disturbed

--------------------
LOCAL Text(id, text, meta) == [id |-> id, text |-> text, fields |-> Missing, meta |-> meta]

LOCAL Titled(id, a, b, meta) == [id |-> id, text |-> Missing, fields |-> "a" :> a @@ "b" :> b, meta |-> meta]

LOCAL Query(tokens, limit, where, weights) == [tokens |-> tokens, limit |-> limit, where |-> where, weights |-> weights]

LOCAL TextBatches ==
  { <<Text(1, <<"t", "u", "t">>, Missing)>>, <<Text(2, <<"u">>, "k" :> 1)>>, <<Text(1, <<"u">>, "k" :> 1)>>,
    <<Text(2, <<"t", "t">>, Missing), Text(3, <<>>, NoFields)>>, <<Text(3, <<"t">>, "k" :> 1), Titled(1, <<"t">>, <<>>, Missing)>> }

LOCAL FieldBatches ==
  { <<Titled(1, <<"t">>, <<"u", "u">>, Missing)>>, <<Titled(2, <<"u">>, <<"t">>, "k" :> 1)>>,
    <<Titled(1, <<>>, <<"t">>, "k" :> 2)>>, <<Text(1, <<"t">>, Missing)>>,
    <<[Text(1, <<"t">>, Missing) EXCEPT !.fields = NoFields]>>, <<[Text(1, Missing, Missing) EXCEPT !.fields = NoFields]>>,
    <<[Text(1, <<"t">>, Missing) EXCEPT !.text = Missing]>> }

LOCAL TextQueries ==
  { Query(<<"t">>, 9, Missing, NoFields), Query(<<"u", "t">>, 1, "k" :> 1, NoFields), Query(<<"t", "t">>, -1, Missing, "text" :> 0),
    Query(<<>>, 9, Missing, NoFields) }

LOCAL FieldQueries ==
  { Query(<<"t">>, 9, Missing, NoFields), Query(<<"t">>, 9, Missing, "a" :> 0), Query(<<"t", "u">>, 1, Missing, "a" :> 4),
    Query(<<"t">>, 9, Missing, "a" :> -1), Query(<<"t">>, 9, Missing, "text" :> 1) }

LOCAL Searched(batches, queries, calls, old) == [batches |-> batches, queries |-> queries, calls |-> calls, old |-> old]

SearchSetups ==
  {Searched(TextBatches, TextQueries, 4, old) : old \in BOOLEAN} \cup {Searched(FieldBatches, FieldQueries, 4, FALSE)}
===============================================================================
