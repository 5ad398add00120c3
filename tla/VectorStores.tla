------------------------------ MODULE VectorStores ------------------------------
(***************************************************************************)
(* Vectors by similarity: in memory and in SQLite files (packages/store),  *)
(* in libSQL, Qdrant and SurrealDB. All promise the search of the one in   *)
(* memory: of the documents that pass the filters, the topK nearest, ties  *)
(* by id. Each also pins the number of dimensions, in its own way. Clients *)
(* of one collection open, write, remove and search at once.               *)
(*                                                                         *)
(* A vector is what a search can tell of it: its dimensions, whether it    *)
(* has a direction, its similarity to the query, and the similarity that   *)
(* Qdrant, which works in single precision, computes: within Bound of it.  *)
(***************************************************************************)
EXTENDS Integers, Sequences, FiniteSets, SequencesExt

CONSTANTS
  Setups,   \* [store, rows, dims, declared, work, crowd]: "memory", "sqlite", "libsql", "qdrant" or
            \* "surreal"; what is stored; the dimensions each client gives (0 if none), and what it
            \* does; documents of other collections that are nearer than all of this one
  Clients,
  Ids,      \* numbers, in the order of ids
  Bound,
  Indexes,  \* payload indexes of Qdrant
  PageSize,
  QueryDims,
  Missing   \* no document, filter, metadata, result

VARIABLES
  setup,
  rows,     \* per id, [vector, meta]
  kept,     \* the dimensions that the database remembers, or of Qdrant's collection; 0 if none
  indexed,
  client    \* per client: [pc, dims, done, rest, missing, limit, result, expected]

vectorVars == <<setup, rows, kept, indexed, client>>

Init ==
  /\ setup \in Setups
  /\ rows = setup.rows
  /\ kept = setup.dims
  /\ indexed = {}
  /\ client = [c \in Clients |->
       [pc |-> IF c \in DOMAIN setup.work THEN "closed" ELSE "ended", dims |-> 0, done |-> 0, rest |-> <<>>,
        missing |-> {}, limit |-> 0, result |-> Missing, expected |-> Missing]]

Under(stores) == setup.store \in stores

Dim(id) == rows[id].vector.dims

--------------------
(* Searches *)

(* A filter matches the metadata that has all its fields. *)
MatchesWhere(meta, filter) ==
  meta # Missing /\ \A f \in DOMAIN filter : f \in DOMAIN meta /\ meta[f] = filter[f]

Passes(meta, ask) ==
  /\ ask.where # Missing => MatchesWhere(meta, ask.where)
  /\ ask.whereNot # Missing => ~MatchesWhere(meta, ask.whereNot)

(* SurrealDB's conditions are one per field, which a document without
   metadata, stored as one without fields, can pass. *)
PassesEachField(meta, ask) ==
  LET of(f) == IF meta # Missing /\ f \in DOMAIN meta THEN meta[f] ELSE Missing IN
  /\ ask.where # Missing => \A f \in DOMAIN ask.where : of(f) = ask.where[f]
  /\ ask.whereNot # Missing => \A f \in DOMAIN ask.whereNot : of(f) # ask.whereNot[f]

Present == {id \in Ids : rows[id] # Missing}

(* Vectors of another length are as good as orthogonal. *)
Score(id) == IF Dim(id) = QueryDims THEN rows[id].vector.exact ELSE 0

Scored(ids, ask) == {id \in ids : rows[id].vector.usable /\ Score(id) >= ask.minScore}

Nearest(ids) ==
  SetToSortSeq(ids, LAMBDA a, b : Score(a) > Score(b) \/ (Score(a) = Score(b) /\ a < b))

(* Array.slice: a negative topK leaves out as many at the end. *)
Slice(s, topK) ==
  LET n == IF topK < 0 THEN Len(s) + topK ELSE topK IN SubSeq(s, 1, IF n < Len(s) THEN n ELSE Len(s))

Search(ask) ==
  Slice(Nearest(Scored({id \in Present : Passes(rows[id].meta, ask)}, ask)), ask.topK)

(* vector_top_k ranks the index of all collections, and is asked for more
   than topK, so that others may be taken out. *)
OverFetch(topK) == IF topK * 4 > topK + 16 THEN topK * 4 ELSE topK + 16

SearchNative(ask) ==
  LET usable == {id \in Present : rows[id].vector.usable}
      here == OverFetch(ask.topK) - setup.crowd
      fetched == ToSet(Slice(Nearest(usable), IF here > 0 THEN here ELSE 0))
  IN Slice(Nearest(Scored(fetched, ask)), ask.topK)

SearchLibsql(ask) ==
  IF ask.where = Missing /\ ask.whereNot = Missing THEN SearchNative(ask) ELSE Search(ask)

(* SurrealDB cuts to topK before it looks at minScore, and knows only
   vectors of the right length. *)
SearchSurreal(ask, dims) ==
  SelectSeq(
    Slice(Nearest({id \in Present : Dim(id) = dims /\ PassesEachField(rows[id].meta, ask)}), ask.topK),
    LAMBDA id : Score(id) >= ask.minScore)

(* What Qdrant may answer when asked for the nearest `limit`. *)
Native(id) == rows[id].vector.native

NativePrefixes(ask, limit) ==
  LET found == {id \in Present : rows[id].vector.usable /\ Passes(rows[id].meta, ask)} IN
  { p \in SUBSET found :
      /\ Cardinality(p) = IF limit < Cardinality(found) THEN limit ELSE Cardinality(found)
      /\ \A id \in p, other \in found \ p : Native(id) >= Native(other) }

Lowest == -99

(* The least score of interest: minScore, or that of the topK-th so far. *)
Cutoff(sorted, ask) ==
  LET kth == IF ask.topK > 0 /\ Len(sorted) >= ask.topK THEN Score(sorted[ask.topK]) ELSE Lowest
  IN IF kth > ask.minScore THEN kth ELSE ask.minScore

(* A plausible slip: to trust Qdrant's scores. *)
OutOfReachNatively(native, cutoff) == cutoff # Lowest /\ native < cutoff

OutOfReach(native, cutoff) == cutoff # Lowest /\ native < cutoff - Bound

Enough(prefix, limit, ask) ==
  \/ Cardinality(prefix) < limit
  \/ \E id \in prefix : OutOfReach(Native(id), Cutoff(Nearest(Scored(prefix, ask)), ask))

--------------------
(* Steps *)

At(c, pc) == client[c].pc = pc

Set(c, record) == client' = [client EXCEPT ![c] = record]

Become(c, pc) == [client[c] EXCEPT !.pc = pc]

Answer(c) == [Become(c, "open") EXCEPT !.done = @ + 1, !.rest = <<>>, !.limit = 0]

Untouched == UNCHANGED <<rows, kept, indexed>>

Declared(c) == setup.declared[c]

(* A client that gives other dimensions than the database's is refused. *)
Adopt(c) ==
  /\ At(c, "closed") /\ Under({"memory", "sqlite", "libsql", "surreal"})
  /\ LET known == IF Under({"surreal", "memory"}) THEN 0 ELSE kept
         dims == IF known # 0 THEN known ELSE Declared(c)
         isNew == dims # 0 /\ known = 0
     IN /\ IF known # 0 /\ Declared(c) \notin {0, known} THEN Set(c, Become(c, "ended"))
           ELSE Set(c, [Become(c, IF isNew /\ Under({"sqlite"}) THEN "pinning" ELSE "open") EXCEPT !.dims = dims])
        /\ kept' = IF isNew /\ Under({"libsql"}) THEN dims ELSE kept
  /\ UNCHANGED <<rows, indexed>>

(* The SQLite facet and SurrealDB remember dimensions in a statement of
   its own, over what another may have written since. *)
Pin(c) ==
  /\ At(c, "pinning")
  /\ Set(c, Become(c, IF client[c].rest # <<>> THEN "writing" ELSE "open"))
  /\ kept' = client[c].dims
  /\ UNCHANGED <<rows, indexed>>

LookUp(c) ==
  /\ At(c, "closed") /\ Under({"qdrant"})
  /\ Set(c, Become(c, IF kept = 0 THEN "creating" ELSE "checking"))
  /\ Untouched

(* That it exists already is no failure: another client was faster. *)
Create(c) ==
  /\ At(c, "creating")
  /\ Set(c, Become(c, "checking"))
  /\ kept' = IF kept = 0 THEN Declared(c) ELSE kept
  /\ UNCHANGED <<rows, indexed>>

ValidateCollection(c) ==
  /\ At(c, "checking")
  /\ Set(c, IF kept # Declared(c) THEN Become(c, "ended")
            ELSE [Become(c, "indexing") EXCEPT !.dims = kept, !.missing = Indexes \ indexed])
  /\ Untouched

EnsureIndex(c) ==
  /\ At(c, "indexing")
  /\ IF client[c].missing = {} THEN Set(c, Become(c, "open")) /\ UNCHANGED indexed
     ELSE \E i \in client[c].missing :
            Set(c, [client[c] EXCEPT !.missing = @ \ {i}]) /\ indexed' = indexed \cup {i}
  /\ UNCHANGED <<rows, kept>>

HasRequest(c, kind) ==
  /\ At(c, "open") /\ client[c].done < Len(setup.work[c])
  /\ setup.work[c][client[c].done + 1].kind = kind

Request(c) == setup.work[c][client[c].done + 1]

(* A plausible slip: the dimensions are those of the first document. *)
FirstFits(docs, dims) == docs[1].vector.dims = dims

(* Every vector is looked at before any is written. *)
Fit(docs, dims) == \A i \in DOMAIN docs : docs[i].vector.dims = dims

Unstorable(docs) == Under({"surreal"}) /\ \E i \in DOMAIN docs : ~docs[i].vector.usable

(* SurrealDB's adapter asks the database, and is refused when that has
   other dimensions than it had from its options or the last collection. *)
Contradicted(c) == Under({"surreal"}) /\ kept # 0 /\ client[c].dims \notin {0, kept}

KnownTo(c) == IF Under({"surreal"}) /\ kept # 0 THEN kept ELSE client[c].dims

MaySetDims == Under({"sqlite", "surreal"})

UpsertMany(c) ==
  /\ HasRequest(c, "upsert")
  /\ LET docs == Request(c).docs
         dims == IF KnownTo(c) = 0 /\ MaySetDims THEN docs[1].vector.dims ELSE KnownTo(c)
     IN Set(c, IF Unstorable(docs) \/ Contradicted(c) \/ ~Fit(docs, dims) THEN Answer(c)
               ELSE [Become(c, IF KnownTo(c) = 0 THEN "pinning" ELSE "writing") EXCEPT
                       !.dims = dims, !.rest = docs])
  /\ Untouched

With(docs) ==
  [id \in Ids |->
     LET of == {i \in DOMAIN docs : docs[i].id = id} IN
     IF of = {} THEN rows[id]
     ELSE LET last == CHOOSE i \in of : \A j \in of : j <= i IN [vector |-> docs[last].vector, meta |-> docs[last].meta]]

(* One statement, transaction or request for all; SurrealDB takes one for
   each document. *)
WriteDocuments(c) ==
  /\ At(c, "writing")
  /\ LET now == IF Under({"surreal"}) THEN <<Head(client[c].rest)>> ELSE client[c].rest
         later == SubSeq(client[c].rest, Len(now) + 1, Len(client[c].rest))
     IN /\ rows' = With(now)
        /\ Set(c, IF later = <<>> THEN Answer(c) ELSE [client[c] EXCEPT !.rest = later])
  /\ UNCHANGED <<kept, indexed>>

(* Qdrant and SurrealDB do not say what they removed: the adapter looks
   first. *)
RemoveDocument(c) ==
  /\ HasRequest(c, "remove")
  /\ IF Under({"qdrant", "surreal"}) /\ rows[Request(c).id] # Missing
     THEN Set(c, Become(c, "removing")) /\ UNCHANGED rows
     ELSE Set(c, Answer(c)) /\ rows' = [rows EXCEPT ![Request(c).id] = Missing]
  /\ UNCHANGED <<kept, indexed>>

Delete(c) ==
  /\ At(c, "removing")
  /\ Set(c, Answer(c)) /\ rows' = [rows EXCEPT ![Request(c).id] = Missing]
  /\ UNCHANGED <<kept, indexed>>

Found(c, result) == [Answer(c) EXCEPT !.result = result, !.expected = Search(Request(c))]

CanSearch(c) == KnownTo(c) = QueryDims /\ ~Contradicted(c)

Ask(c) ==
  /\ HasRequest(c, "search")
  /\ LET ask == Request(c) IN
     Set(c, IF ~CanSearch(c) \/ (Under({"surreal"}) /\ ask.topK < 0) THEN Answer(c)
            ELSE IF Under({"memory", "sqlite"}) THEN Found(c, Search(ask))
            ELSE IF Under({"libsql"}) THEN Found(c, SearchLibsql(ask))
            ELSE IF ask.topK = 0 THEN Found(c, <<>>)
            ELSE IF Under({"surreal"}) THEN [Become(c, "asking") EXCEPT !.limit = KnownTo(c)]
            ELSE [Become(c, "paging") EXCEPT !.limit = PageSize])
  /\ Untouched

Query(c) ==
  /\ At(c, "asking")
  /\ Set(c, Found(c, SearchSurreal(Request(c), client[c].limit)))
  /\ Untouched

(* Each page begins at the nearest again and is twice as long: it replaces
   the one before. *)
Page(c) ==
  /\ At(c, "paging")
  /\ LET ask == Request(c) IN
     \E prefix \in NativePrefixes(ask, client[c].limit) :
       Set(c, IF Enough(prefix, client[c].limit, ask)
              THEN Found(c, Slice(Nearest(Scored(prefix, ask)), ask.topK))
              ELSE [client[c] EXCEPT !.limit = @ * 2])
  /\ Untouched

Next ==
  /\ \E c \in Clients :
       \/ Adopt(c) \/ Pin(c) \/ LookUp(c) \/ Create(c) \/ ValidateCollection(c) \/ EnsureIndex(c)
       \/ UpsertMany(c) \/ WriteDocuments(c) \/ RemoveDocument(c) \/ Delete(c)
       \/ Ask(c) \/ Query(c) \/ Page(c)
  /\ UNCHANGED setup

Spec == Init /\ [][Next]_vectorVars

--------------------
(* Properties *)

IsOpen(c) == ~At(c, "closed") /\ ~At(c, "ended") /\ ~At(c, "creating") /\ ~At(c, "checking")

(* Writes under way have documents left; pages grow while they are read. *)
TypeOK ==
  \A c \in Clients :
    /\ At(c, "writing") => client[c].rest # <<>>
    /\ At(c, "paging") => client[c].limit \in {PageSize * 2 ^ i : i \in 0 .. Cardinality(Ids)}
    /\ client[c].dims \in {0, QueryDims} \cup {setup.declared[d] : d \in DOMAIN setup.declared} \cup {kept}
                         \cup {Dim(id) : id \in Present}
                         \cup {client[c].rest[i].vector.dims : i \in DOMAIN client[c].rest}

(* Clients whose dimensions the store itself keeps the same. *)
Agreeing ==
  \/ Under({"libsql", "qdrant"})
  \/ Cardinality(DOMAIN setup.work) = 1
  \/ \E d \in {setup.declared[c] : c \in DOMAIN setup.work} \ {0} : \A c \in DOMAIN setup.work : Declared(c) = d

(* Where a search means the same in SurrealDB: filters with one field, of
   the whole query language; and where libSQL asks for enough. *)
Comparable(ask) ==
  /\ Agreeing
  /\ Under({"surreal"}) =>
       /\ ask.where # Missing => DOMAIN ask.where # {}
       /\ ask.whereNot # Missing => Cardinality(DOMAIN ask.whereNot) = 1
  /\ Under({"libsql"}) => setup.crowd + Cardinality(Ids) <= OverFetch(ask.topK)

(* A search finds what the one in memory would at some moment of it (the
   last request of the search): although Qdrant's scores are not exact,
   its order of ties changes from page to page, and others write. *)
SearchesAgree ==
  \A c \in Clients :
    client[c].expected # Missing /\ Comparable(setup.work[c][client[c].done]) =>
      client[c].result = client[c].expected

(* All vectors of a store have one number of dimensions, the one that its
   clients hold, whoever opens or writes first, and whatever is refused. *)
OneDimension ==
  Agreeing => \A id \in Present, c \in DOMAIN setup.work :
    IsOpen(c) /\ client[c].dims # 0 => Dim(id) = client[c].dims

(* A Qdrant collection is opened with all its indexes, of its dimensions. *)
OpenedWhole ==
  Under({"qdrant"}) => \A c \in Clients : IsOpen(c) /\ ~At(c, "indexing") => indexed = Indexes /\ client[c].dims = kept
===============================================================================
