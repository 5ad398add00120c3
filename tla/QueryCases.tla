------------------------------ MODULE QueryCases ------------------------------
(* The records, filters and keys that Queries compares the backends on. *)
EXTENDS Marks, Integers, Sequences, TLC

LOCAL N(n) == <<"number", n>>

LOCAL S(n) == <<"string", n>>

LOCAL True == <<"true", 1>>

LOCAL False == <<"false", 0>>

LOCAL Null == <<"null", 0>>

LOCAL R(v, s) == "v" :> v @@ "s" :> s

QueryData == {R(N(1), S(2)), R(S(1), S(1)), R(True, Null), R(Null, Absent)}

LOCAL C(id, d) == [id |-> id, data |-> d]

QueryContents ==
  {<<>>, <<C(1, R(N(0), S(1))), C(2, R(False, S(1))), C(3, R(S(0), S(3)))>>, <<C(1, R(N(1), S(1))), C(3, R(N(2), S(0)))>>}

LOCAL Equals(v) == [field |-> "v", equals |-> v]

LOCAL Within(bounds) == [field |-> "v", bounds |-> bounds]

LOCAL Wheres ==
  {{}, {Equals(N(1))}, {Equals(True)}, {Equals(Null)}, {Equals(S(1))}, {Within({<<"gte", N(0)>>, <<"lt", N(1)>>})},
   {Within({<<"gt", N(0)>>})}, {Within({<<"lte", S(1)>>})}, {Within({<<"gt", N(0)>>, <<"lt", S(1)>>})},
   {Equals(True), [field |-> "s", equals |-> Null]}}

LOCAL F(w, s, d, l, o) == [where |-> w, sortBy |-> s, desc |-> d, limit |-> l, offset |-> o]

QueryFilters ==
  {F(w, Absent, FALSE, Absent, Absent) : w \in Wheres}
     \cup {F({}, "s", d, lo[1], lo[2]) : d \in BOOLEAN, lo \in {<<Absent, Absent>>, <<-2, 2>>, <<3, -1>>, <<3, 2>>}}

QueryInLists ==
  {[field |-> "v", values |-> vs, filter |-> F(w, "s", FALSE, 4, Absent)] :
     vs \in {{N(1)}, {True, S(1)}, {Null, N(0)}, {False}}, w \in {{}, {Within({<<"gte", N(1)>>})}}}

QueryKeys == {<<"a">>, <<"A">>, <<"a", "_">>, <<"A", "b">>}

(* LIKE compares letters of ASCII without regard to their case. *)
LikeFolds == "a" :> "a" @@ "A" :> "a" @@ "b" :> "b" @@ "_" :> "_"

--------------------
(* Targets in order, among them records whose names run together; calls of
   the reference store and of SQLite. *)
MemoryTargets ==
  << [kind |-> "key", parts |-> << <<"a">> >>],
     [kind |-> "record", parts |-> << <<"a", ":">>, <<"b">> >>],
     [kind |-> "record", parts |-> << <<"a">>, <<":", "b">> >>] >>

MemoryLimits == [operations |-> 2, conditions |-> 2, bytes |-> 6, outcome |-> 2]

LOCAL When(target, is, version) == [target |-> target, is |-> is, version |-> version]

LOCAL Write(target, content) == [target |-> target, is |-> "write", content |-> content]

LOCAL Erase(target) == [target |-> target, is |-> "remove", content |-> Missing]

LOCAL Request(conditions, operations, key, outcome) ==
  [conditions |-> conditions, operations |-> operations, key |-> key, outcome |-> outcome]

LOCAL First == When(1, "missing", 0)

LOCAL Second == When(2, "missing", 0)

(* Retries, with conditions listed the other way round or operations changed. *)
LOCAL Retried ==
  { Request(<<First, Second>>, <<Write(1, "x"), Write(2, "x")>>, "k1", 1),
    Request(<<Second, First>>, <<Write(1, "x"), Write(2, "x")>>, "k1", 1),
    Request(<<First, Second>>, <<Write(2, "x"), Write(1, "x")>>, "k1", 1),
    Request(<<>>, <<Write(1, "x")>>, "k2", Missing) }

LOCAL Conditional ==
  { Request(<<When(1, "version", n)>>, <<Write(1, "y")>>, Missing, Missing) : n \in 1 .. 2 }
  \cup { Request(<<When(3, "present", 0), When(2, "version", 2)>>, <<Erase(3), Write(1, "x")>>, "k1", Missing),
         Request(<<>>, <<Erase(2), Write(3, "y")>>, Missing, 2) }

LOCAL Faulty ==
  { Request(<<>>, <<>>, Missing, Missing),
    Request(<<>>, <<Write(1, "x"), Write(2, "x"), Write(3, "x")>>, Missing, Missing),
    Request(<<First, Second, When(3, "missing", 0)>>, <<Write(1, "x")>>, Missing, Missing),
    Request(<<When(1, "absent", 0)>>, <<Write(1, "x")>>, Missing, Missing),
    Request(<<First, First>>, <<Write(1, "x")>>, Missing, Missing),
    Request(<<>>, <<[Write(1, "x") EXCEPT !.is = "merge"]>>, Missing, Missing),
    Request(<<>>, <<Write(1, "x"), Write(1, "y")>>, Missing, Missing),
    Request(<<>>, <<Write(1, "x")>>, "k1", 3),
    Request(<<First, Second>>, <<Write(1, "x"), Write(2, "x")>>, "k1", 2) }

LOCAL Setup(requests, touches, contents, calls, retention, back, ends) ==
  [requests |-> requests, touches |-> touches, contents |-> contents, calls |-> calls,
   retention |-> retention, back |-> back, ends |-> ends]

LOCAL Plain(key, target) == Request(<<>>, <<Write(target, "x")>>, key, Missing)

MemorySetups ==
  { Setup(Retried, {1}, {"x"}, 3, Missing, FALSE, 0), Setup(Retried, {}, {}, 3, 1, FALSE, 3),
    Setup(Conditional, 1 .. 3, {"y"}, 4, Missing, FALSE, 0), Setup(Faulty, {1}, {"x"}, 2, Missing, FALSE, 0) }
  \cup { Setup({Plain("k1", 1), Plain("k2", 2)}, {}, {}, 4, 1, back, 2) : back \in BOOLEAN }
===============================================================================
