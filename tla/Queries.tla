------------------------------- MODULE Queries -------------------------------
(***************************************************************************)
(* Collection queries of the stores: the in-memory reference               *)
(* (packages/store/src/backends/memory.ts, order.ts), SQLite and libSQL    *)
(* (sql.ts), PostgreSQL, IndexedDB and SurrealDB. Each keeps insertion     *)
(* order in its own way and evaluates the same filter in its own language; *)
(* the reference says what the answer is.                                  *)
(*                                                                         *)
(* A value is <<kind, n>>: a number, a string (n its place in code point   *)
(* order), <<"true", 1>>, <<"false", 0>>, <<"null", 0>>; Absent is no      *)
(* field. Limits and offsets are in halves.                                *)
(***************************************************************************)
EXTENDS Naturals, Integers, Sequences, FiniteSets, SequencesExt, Functions

CONSTANTS
  Ids,         \* numbers, in code point order
  Data,        \* records: functions from fields to values
  Absent,
  Contents,    \* initial contents: sequences of [id, data], old rows in order of id
  Filters,     \* [where, sortBy, desc, limit, offset]
  InLists,     \* [field, values, filter]
  Keys,        \* keys and prefixes: sequences of characters
  FoldsTo,     \* for each character, the one that LIKE takes it for
  Steps        \* bounds the writes

VARIABLES
  memory,      \* the reference: its Map, a sequence of [id, data] in insertion order
  sqlite,      \* per id: [data, at], at its rowid; or Absent
  ordered,     \* PostgreSQL and IndexedDB: at is an ordinal
  surreal,     \* at is mirk_ordinal, Absent in rows of old
  counters,    \* the last ordinals of PostgreSQL and IndexedDB, and of SurrealDB
  keys,        \* the keys of the key-value side
  steps

queriesVars == <<memory, sqlite, ordered, surreal, counters, keys, steps>>

Stored(table) == {id \in Ids : table[id] # Absent}

Init ==
  \E c \in Contents :
    LET place(id) == CHOOSE i \in DOMAIN c : c[i].id = id
        rows(at(_)) == [id \in Ids |-> IF \E i \in DOMAIN c : c[i].id = id
                                       THEN [data |-> c[place(id)].data, at |-> at(place(id))] ELSE Absent] IN
    /\ memory = c
    /\ sqlite = rows(LAMBDA i : i) /\ ordered = rows(LAMBDA i : i) /\ surreal = rows(LAMBDA i : Absent)
    /\ counters = [ordered |-> Len(c), surreal |-> 0]
    /\ keys = {} /\ steps = 0

--------------------
(* Writes. *)

(* Bug: putting a record again moves it to the end and keeps the old one. *)
PutAtTheEnd(id, d) == Append(memory, [id |-> id, data |-> d])

PutMemory(id, d) ==
  IF \E i \in DOMAIN memory : memory[i].id = id
  THEN [i \in DOMAIN memory |-> IF memory[i].id = id THEN [id |-> id, data |-> d] ELSE memory[i]]
  ELSE Append(memory, [id |-> id, data |-> d])

(* A new row's rowid is one more than the largest. *)
NextRowid == 1 + Max({0} \cup {sqlite[id].at : id \in Stored(sqlite)})

Upsert(table, id, d, at) ==
  [table EXCEPT ![id] = [data |-> d, at |-> IF @ = Absent THEN at ELSE @.at]]

(* Bug: every put takes an ordinal. *)
OrdinalOfEveryPut(id, d) == [surreal EXCEPT ![id] = [data |-> d, at |-> counters.surreal + 1]]

(* SurrealDB gives an ordinal to a row that is new. *)
PutSurreal(id, d) == Upsert(surreal, id, d, counters.surreal + 1)

Put(id, d) ==
  /\ memory' = PutMemory(id, d)
  /\ sqlite' = Upsert(sqlite, id, d, NextRowid)
  /\ ordered' = Upsert(ordered, id, d, counters.ordered + 1)
  /\ surreal' = PutSurreal(id, d)
  /\ counters' = [ordered |-> counters.ordered + 1,
                  surreal |-> counters.surreal + (IF surreal[id] = Absent THEN 1 ELSE 0)]
  /\ UNCHANGED keys

Discard(id) ==
  /\ id \in Stored(sqlite)
  /\ memory' = SelectSeq(memory, LAMBDA r : r.id # id)
  /\ sqlite' = [sqlite EXCEPT ![id] = Absent]
  /\ ordered' = [ordered EXCEPT ![id] = Absent]
  /\ surreal' = [surreal EXCEPT ![id] = Absent]
  /\ UNCHANGED <<counters, keys>>

Set(k) == keys' = keys \cup {k} /\ UNCHANGED <<memory, sqlite, ordered, surreal, counters>>

Next ==
  /\ steps < Steps /\ steps' = steps + 1
  /\ \/ \E id \in Ids, d \in Data : Put(id, d)
     \/ \E id \in Ids : Discard(id)
     \/ \E k \in Keys \ keys : Set(k)

Spec == Init /\ [][Next]_queriesVars

--------------------
(* The reference's filters: whereCondition, inRange, matchesWhere and
   sortAndPageStoreItems. A condition is [field, equals] or
   [field, bounds]: pairs of an operator and a number or a string. *)

IsRange(c) == "bounds" \in DOMAIN c

Holds(op, m, n) ==
  CASE op = "gt" -> m > n [] op = "gte" -> m >= n [] op = "lt" -> m < n [] op = "lte" -> m <= n

InRange(v, bounds) == \A b \in bounds : v # Absent /\ v[1] = b[2][1] /\ Holds(b[1], v[2], b[2][2])

Matches(d, where) ==
  \A c \in where : IF IsRange(c) THEN InRange(d[c.field], c.bounds) ELSE d[c.field] = c.equals

(* s, stably sorted by a comparison. *)
StableSort(s, before(_, _)) ==
  LET rank(i) == Cardinality({j \in DOMAIN s : before(s[j], s[i]) \/ (~before(s[i], s[j]) /\ j <= i)}) IN
  [k \in DOMAIN s |-> s[CHOOSE i \in DOMAIN s : rank(i) = k]]

Lacks(v) == v = Absent \/ v[1] = "null"

(* The comparison of two values: null and missing ones last either way. *)
Before(f, a, b) ==
  LET v == a[f.sortBy]
      w == b[f.sortBy] IN
  IF Lacks(v) \/ Lacks(w) THEN ~Lacks(v) /\ Lacks(w)
  ELSE IF f.desc THEN v[2] > w[2] ELSE v[2] < w[2]

Sorted(s, f) ==
  IF f.sortBy = Absent THEN s ELSE StableSort(s, LAMBDA a, b : Before(f, a.data, b.data))

Floor(halves) == halves \div 2

AtLeast0(n) == IF n < 0 THEN 0 ELSE n

(* Bug: the limit counts from the first row. *)
PagedFromTheFirst(s, f) ==
  LET first == IF f.limit = Absent THEN s ELSE SubSeq(s, 1, Min({Len(s), AtLeast0(Floor(f.limit))})) IN
  IF f.offset = Absent \/ f.offset <= 0 THEN first ELSE SubSeq(first, Floor(f.offset) + 1, Len(first))

Paged(s, f) ==
  LET rest == IF f.offset = Absent \/ f.offset <= 0 THEN s ELSE SubSeq(s, Floor(f.offset) + 1, Len(s)) IN
  IF f.limit = Absent THEN rest ELSE SubSeq(rest, 1, Min({Len(rest), AtLeast0(Floor(f.limit))}))

SortAndPage(s, f) == Paged(Sorted(s, f), f)

Filtered(s, f) == SelectSeq(s, LAMBDA r : Matches(r.data, f.where))

MemoryList(f) == SortAndPage(Filtered(memory, f), f)

IsIn(v, values) == v # Absent /\ v \in values

MemoryListIn(q) ==
  SortAndPage(Filtered(SelectSeq(memory, LAMBDA r : IsIn(r.data[q.field], q.values)), q.filter), q.filter)

(* Bug: the count of a page. *)
CountedPage(f) == Len(MemoryList(f))

MemoryCount(f) == IF f.where = {} THEN Len(memory) ELSE Len(Filtered(memory, f))

--------------------
(* SQLite and libSQL: json_extract turns booleans into numbers, and its
   NULL satisfies no comparison; json_type tells what was there. *)

Extract(v) ==
  CASE v = Absent \/ v[1] = "null" -> Absent
    [] v # Absent /\ v[1] \in {"true", "false"} -> <<"number", v[2]>>
    [] OTHER -> v

Type(v) == IF v = Absent THEN Absent ELSE v[1]

(* A number is less than every string. *)
SqlHolds(op, v, w) ==
  LET rank(x) == IF x[1] = "number" THEN 0 ELSE 1 IN
  v # Absent /\ IF v[1] = w[1] THEN Holds(op, v[2], w[2]) ELSE Holds(op, rank(v), rank(w))

KindsOf(bounds) == {b[2][1] : b \in bounds}

(* Bug: a range is only its comparisons. *)
UnguardedRange(v, bounds) == \A b \in bounds : SqlHolds(b[1], Extract(v), b[2])

SqlRange(v, bounds) ==
  /\ \A b \in bounds : SqlHolds(b[1], Extract(v), b[2])
  /\ Cardinality(KindsOf(bounds)) = 1 /\ Type(v) \in KindsOf(bounds)

SqlEquals(v, w) == Extract(v) = Extract(w) /\ Type(v) = w[1]

SqlMatches(d, where) ==
  \A c \in where : IF IsRange(c) THEN SqlRange(d[c.field], c.bounds) ELSE SqlEquals(d[c.field], c.equals)

(* Bug: a boolean is one of the numbers of an IN list. *)
UnguardedIn(v, values) ==
  \/ \E w \in values : w[1] # "null" /\ Extract(v) = Extract(w)
  \/ Type(v) = "null" /\ \E w \in values : w[1] = "null"

SqlIn(v, values) ==
  \/ Type(v) \in {"number", "string"} /\ \E w \in values : w[1] \in {"number", "string"} /\ Extract(v) = Extract(w)
  \/ Type(v) \in {"true", "false", "null"} /\ \E w \in values : w[1] = Type(v)

Rows(table, matches(_)) == {[id |-> id, row |-> table[id]] : id \in {i \in Stored(table) : matches(table[i].data)}}

(* ORDER BY ... NULLS LAST, rowid: one comparison of whole rows. *)
SqlBefore(f, r, s) ==
  LET v == IF f.sortBy = Absent THEN Absent ELSE Extract(r.row.data[f.sortBy])
      w == IF f.sortBy = Absent THEN Absent ELSE Extract(s.row.data[f.sortBy]) IN
  IF v = w THEN r.row.at < s.row.at
  ELSE IF v = Absent \/ w = Absent THEN w = Absent
  ELSE IF f.desc THEN SqlHolds("gt", v, w) ELSE SqlHolds("lt", v, w)

(* LIMIT and OFFSET: a negative LIMIT would be none. *)
SqlPage(s, f) ==
  LET offset == IF f.offset = Absent THEN 0 ELSE AtLeast0(Floor(f.offset))
      limit == IF f.limit = Absent THEN -1 ELSE AtLeast0(Floor(f.limit)) IN
  IF limit < 0 THEN SubSeq(s, offset + 1, Len(s)) ELSE SubSeq(s, offset + 1, Min({Len(s), offset + limit}))

Plain(s) == [i \in DOMAIN s |-> [id |-> s[i].id, data |-> s[i].row.data]]

SqlSelect(matches(_), f) == Plain(SqlPage(SetToSortSeq(Rows(sqlite, matches), LAMBDA r, s : SqlBefore(f, r, s)), f))

SqlList(f) == SqlSelect(LAMBDA d : SqlMatches(d, f.where), f)

SqlListIn(q) == SqlSelect(LAMBDA d : SqlMatches(d, q.filter.where) /\ SqlIn(d[q.field], q.values), q.filter)

SqlCount(f) == Cardinality(Rows(sqlite, LAMBDA d : SqlMatches(d, f.where)))

--------------------
(* PostgreSQL: jsonb keeps the types apart; the order is by type, then by
   value, then by ordinal. A negative or fractional page is refused. *)

JsonMatches(d, where) ==
  \A c \in where :
    IF IsRange(c)
    THEN /\ Cardinality(KindsOf(c.bounds)) = 1 /\ Type(d[c.field]) \in KindsOf(c.bounds)
         /\ \A b \in c.bounds : Holds(b[1], d[c.field][2], b[2][2])
    ELSE d[c.field] # Absent /\ d[c.field] = c.equals

TypeRank(v) ==
  CASE v[1] = "string" -> 1 [] v[1] = "number" -> 2 [] v[1] \in {"true", "false"} -> 3

PgBefore(f, r, s) ==
  LET v == IF f.sortBy = Absent THEN Absent ELSE r.row.data[f.sortBy]
      w == IF f.sortBy = Absent THEN Absent ELSE s.row.data[f.sortBy] IN
  IF Lacks(v) \/ Lacks(w) THEN (IF Lacks(v) /\ Lacks(w) THEN r.row.at < s.row.at ELSE Lacks(w))
  ELSE IF TypeRank(v) # TypeRank(w) THEN (TypeRank(v) < TypeRank(w)) # f.desc
  ELSE IF v # w THEN (v[2] < w[2]) # f.desc
  ELSE r.row.at < s.row.at

Accepted(n) == n = Absent \/ (n >= 0 /\ n % 2 = 0)

PgSelect(matches(_), f) == Plain(SqlPage(SetToSortSeq(Rows(ordered, matches), LAMBDA r, s : PgBefore(f, r, s)), f))

PgList(f) == PgSelect(LAMBDA d : JsonMatches(d, f.where), f)

PgListIn(q) ==
  PgSelect(LAMBDA d : JsonMatches(d, q.filter.where) /\ d[q.field] # Absent /\ d[q.field] \in q.values, q.filter)

--------------------
(* SurrealDB answers equalities; the adapter applies ranges, the order and
   the page to the rows it got. IndexedDB's view does all of it. *)

(* Bug: rows without an ordinal come last. *)
OldRowsLast(r, s) ==
  LET old(x) == x.row.at = Absent IN
  IF old(r) \/ old(s) THEN (IF old(r) /\ old(s) THEN r.id < s.id ELSE old(s)) ELSE r.row.at < s.row.at

(* inInsertionOrder. *)
OldRowsFirst(r, s) ==
  LET old(x) == x.row.at = Absent IN
  IF old(r) \/ old(s) THEN (IF old(r) /\ old(s) THEN r.id < s.id ELSE old(r)) ELSE r.row.at < s.row.at

SurrealMatches(d, where) ==
  \A c \in where : d[c.field] # Absent /\ (IsRange(c) \/ d[c.field] = c.equals)

InRanges(s, where) ==
  SelectSeq(s, LAMBDA r : \A c \in where : IsRange(c) => InRange(r.data[c.field], c.bounds))

SurrealSelect(matches(_), f) ==
  SortAndPage(InRanges(Plain(SetToSortSeq(Rows(surreal, matches), OldRowsFirst)), f.where), f)

SurrealList(f) == SurrealSelect(LAMBDA d : SurrealMatches(d, f.where), f)

SurrealListIn(q) ==
  SurrealSelect(LAMBDA d : SurrealMatches(d, q.filter.where) /\ d[q.field] # Absent /\ d[q.field] \in q.values, q.filter)

SurrealCount(f) ==
  IF \E c \in f.where : IsRange(c) THEN Len(SurrealList([f EXCEPT !.sortBy = Absent, !.limit = Absent, !.offset = Absent]))
  ELSE Cardinality(Rows(surreal, LAMBDA d : SurrealMatches(d, f.where)))

IdbList(f) ==
  LET rows == Plain(SetToSortSeq(Rows(ordered, LAMBDA d : TRUE), LAMBDA r, s : r.row.at < s.row.at)) IN
  SortAndPage(Filtered(rows, f), f)

--------------------
(* keys(prefix). *)

StartsWith(k, prefix) == Len(k) >= Len(prefix) /\ SubSeq(k, 1, Len(prefix)) = prefix

(* Bug: the wildcards of LIKE are not escaped. *)
Unescaped(k, prefix) ==
  Len(k) >= Len(prefix) /\ \A i \in DOMAIN prefix : prefix[i] = "_" \/ FoldsTo[k[i]] = FoldsTo[prefix[i]]

Fold(s) == [i \in DOMAIN s |-> FoldsTo[s[i]]]

(* LIKE with the wildcards escaped: letters of ASCII match in either case. *)
Like(k, prefix) == StartsWith(Fold(k), Fold(prefix))

MemoryKeys(prefix) == {k \in keys : StartsWith(k, prefix)}

SqlKeys(prefix) == {k \in keys : prefix = <<>> \/ Like(k, prefix)}

--------------------
(* Properties *)

(* The rows of every store are those of the reference. *)
TypeOK ==
  /\ \A t \in {sqlite, ordered, surreal} :
       {[id |-> id, data |-> t[id].data] : id \in Stored(t)} = Range(memory)
  /\ IsInjective(memory) /\ keys \subseteq Keys

(* Every store lists the same rows in the same order, whatever was put,
   put again and removed before: filtered, sorted and paged alike. *)
ListsAgree ==
  \A f \in Filters :
    /\ SqlList(f) = MemoryList(f) /\ SurrealList(f) = MemoryList(f) /\ IdbList(f) = MemoryList(f)
    /\ Accepted(f.limit) /\ Accepted(f.offset) => PgList(f) = MemoryList(f)

(* listWhereIn: 1, "1" and true are told apart, and a missing field is in
   no list. *)
InListsAgree ==
  \A q \in InLists : \A l \in {SqlListIn(q), PgListIn(q), SurrealListIn(q)} : l = MemoryListIn(q)

(* Counting ignores pages and order, and counts what a list would hold. *)
CountsAgree ==
  \A f \in Filters :
    LET all == [f EXCEPT !.limit = Absent, !.offset = Absent] IN
    \A n \in {MemoryCount(f), SqlCount(f), SurrealCount(f)} : n = Len(MemoryList(all))

(* The pages of a list put together are the list. *)
PagesCoverTheList ==
  \A f \in Filters : \A n \in 1..2 :
    LET all == MemoryList([f EXCEPT !.limit = Absent, !.offset = Absent])
        page(i) == MemoryList([f EXCEPT !.limit = 2 * n, !.offset = 2 * n * i]) IN
    f.limit = Absent /\ f.offset = Absent =>
      FlattenSeq([i \in 1..(Len(all) + 1) |-> page(i - 1)]) = all

(* The keys differ, and where they do, they are one letter in two cases. *)
DifferInCase(k, l) == k # l /\ Len(k) = Len(l) /\ \A i \in DOMAIN k : FoldsTo[k[i]] = FoldsTo[l[i]]

(* A prefix selects the keys that start with it, wildcards or not; but on
   SQLite and libSQL also those that start with it in another case. The
   code's words rule this out: the escapes are there so that the prefix
   "matches LITERALLY (startsWith)" as in the reference
   (sqlite-core.ts:941, libsql-core.ts:1007). *)
PrefixesAreLiteralButForCase ==
  \A prefix \in Keys \cup {<<>>} :
    SqlKeys(prefix) = MemoryKeys(prefix) \cup
      {k \in keys : Len(k) >= Len(prefix) /\ DifferInCase(SubSeq(k, 1, Len(prefix)), prefix)}
===============================================================================
