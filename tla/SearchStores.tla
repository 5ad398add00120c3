----------------------------- MODULE SearchStores -----------------------------
(***************************************************************************)
(* Full-text search: the in-memory store (packages/store/src/search) and   *)
(* SqliteSearchFacet (adapters/sqlite-core.ts), through two adapters of    *)
(* one file, asked for the same of one collection, call after call.        *)
(*                                                                         *)
(* A text is the sequence of its tokens. bm25 is some function of the      *)
(* numbers that both compute it from; what is compared is whether those    *)
(* are kept alike, so a fixed one stands in. Tables of several collections *)
(* and processes that create them at once are in SqliteTables.             *)
(***************************************************************************)
EXTENDS Integers, Sequences, FiniteSets, SequencesExt, TLC

CONSTANTS
  Setups,    \* [batches, queries, calls, old]; calls bounds how many, old: a file of the
             \* one-column facet, which has tables and no row for the fields
  Ids,       \* numbered in the order of code points
  Adapters,
  Terms,
  Missing

VARIABLES
  setup,
  memory,   \* [fields, docs, df, total]; fields are Missing until the first document
  file,     \* [schema, tables, rows, index]: index is what FTS5 holds of each row
  ensured,  \* per adapter: for which fields it remembers that the tables exist
  calls,
  parted,   \* whether an indexMany failed after its first document
  last      \* what each answered last

searchVars == <<setup, memory, file, ensured, calls, parted, last>>

None == [status |-> "none"]

NoDocs == [id \in Ids |-> Missing]

Init ==
  /\ setup \in Setups
  /\ memory = [fields |-> IF setup.old THEN {"text"} ELSE Missing, docs |-> NoDocs, df |-> [t \in Terms |-> 0], total |-> 0]
  /\ file = [schema |-> Missing, tables |-> setup.old, rows |-> NoDocs, index |-> {}]
  /\ ensured = [a \in Adapters |-> {}]
  /\ calls = 0 /\ parted = FALSE /\ last = <<None, None>>

--------------------
(* Documents: [id, text, fields, meta], with a text, or with texts by field *)

DocumentError(doc) ==
  CASE doc.text # Missing /\ doc.fields # Missing -> "text-and-fields"
    [] doc.text = Missing /\ doc.fields = Missing -> "missing-text-or-fields"
    [] doc.text = Missing /\ doc.fields # Missing /\ DOMAIN doc.fields = {} -> "empty-fields"
    [] OTHER -> Missing

Texts(doc) == IF doc.text # Missing THEN "text" :> doc.text ELSE doc.fields

Names(doc) == DOMAIN Texts(doc)

IndexError(fields, doc) ==
  IF DocumentError(doc) # Missing THEN DocumentError(doc)
  ELSE IF fields # Missing /\ fields # Names(doc) THEN "field-set-mismatch" ELSE Missing

Count(texts, f, t) == Cardinality({i \in DOMAIN texts[f] : texts[f][i] = t})

TermsOf(texts) == UNION {ToSet(texts[f]) : f \in DOMAIN texts}

Length(texts) == FoldFunction(+, 0, [f \in DOMAIN texts |-> Len(texts[f])])

--------------------
(* In memory, with counts kept as documents come and go *)

Forgotten(M, id) ==
  IF M.docs[id] = Missing THEN M
  ELSE [M EXCEPT !.docs[id] = Missing, !.total = @ - M.docs[id].length,
                 !.df = [t \in Terms |-> IF t \in M.docs[id].terms THEN @[t] - 1 ELSE @[t]]]

MemoryIndexed(M, doc) ==
  LET texts == Texts(doc)
      cleared == Forgotten([M EXCEPT !.fields = Names(doc)], doc.id)
      kept == [texts |-> texts, length |-> Length(texts), terms |-> TermsOf(texts), meta |-> doc.meta]
  IN  [cleared EXCEPT !.docs[doc.id] = kept, !.total = @ + kept.length,
                      !.df = [t \in Terms |-> IF t \in kept.terms THEN @[t] + 1 ELSE @[t]]]

(* Documents before one that is refused stay. *)
MemoryIndexes(done, doc) ==
  IF done.error # Missing THEN done
  ELSE IF IndexError(done.store.fields, doc) # Missing THEN [done EXCEPT !.error = IndexError(done.store.fields, doc)]
  ELSE [done EXCEPT !.store = MemoryIndexed(@, doc)]

--------------------
(* In SQLite, with an index kept by triggers *)

Postings(row) == UNION {{<<row.rowid, f, i, row.texts[f][i]>> : i \in DOMAIN row.texts[f]} : f \in DOMAIN row.texts}

Stored(F) == {id \in Ids : F.rows[id] # Missing}

NextRowid(F) == 1 + Max({0} \cup {F.rows[id].rowid : id \in Stored(F)})

(* An insertion or an update, and its trigger. *)
Upserted(F, doc) ==
  LET old == F.rows[doc.id]
      row == [rowid |-> IF old = Missing THEN NextRowid(F) ELSE old.rowid, texts |-> Texts(doc), meta |-> doc.meta]
  IN  [F EXCEPT !.rows[doc.id] = row,
                !.index = (IF old = Missing THEN @ ELSE @ \ Postings(old)) \cup Postings(row)]

Removed(F, id) ==
  IF F.rows[id] = Missing THEN F ELSE [F EXCEPT !.rows[id] = Missing, !.index = @ \ Postings(F.rows[id])]

(* Tables of an earlier release have the one field. *)
LoadSchema(F) == IF F.schema = Missing /\ F.tables THEN [F EXCEPT !.schema = {"text"}] ELSE F

(* Tables for these fields, which the adapter remembers from then on. *)
Ensure(done) ==
  [done EXCEPT !.known = @ \cup {done.file.schema},
               !.file.tables = @ \/ done.file.schema \notin done.known]

(* Statement by statement: what came before an error stays, outside of a
   transaction. *)
SqliteIndexes(done, doc) ==
  IF done.error # Missing THEN done
  ELSE IF DocumentError(doc) # Missing THEN [done EXCEPT !.error = DocumentError(doc)]
  ELSE LET loaded == [done EXCEPT !.file = LoadSchema(@)]
           made == Ensure([loaded EXCEPT !.file.schema = Names(doc)])
       IN  IF IndexError(loaded.file.schema, doc) # Missing
           THEN [loaded EXCEPT !.error = IndexError(loaded.file.schema, doc)]
           ELSE IF ~ made.file.tables THEN [made EXCEPT !.error = "no such table"]
           ELSE [made EXCEPT !.file = Upserted(@, doc)]

(* Before a removal or a search: the tables, if there ever were any. *)
Opened(a) ==
  LET loaded == LoadSchema(file) IN
  IF loaded.schema = Missing THEN [file |-> loaded, known |-> ensured[a]]
  ELSE Ensure([file |-> loaded, known |-> ensured[a]])

--------------------
(* Searches: [tokens, limit, where, weights] *)

HasMeta(meta, where) ==
  where = Missing \/ \A k \in DOMAIN where : meta # Missing /\ k \in DOMAIN meta /\ meta[k] = where[k]

InvalidWeight(q) == \E f \in DOMAIN q.weights : q.weights[f] < 0

UnknownField(fields, q) == \E f \in DOMAIN q.weights : f \notin fields

Weight(q, f) == IF f \in DOMAIN q.weights THEN q.weights[f] ELSE 1

(* What bm25 computes of: documents, those with the term, the term's
   weighted count in this one, its length and that of all. *)
TermScore(n, df, tf, length, total) ==
  (IF 2 * df < n THEN 100 * (n - df) ELSE 1) * ((60 * tf) \div (1 + tf + (length * n) \div (1 + total)))

Weighted(q, counts) == FoldFunction(+, 0, [f \in DOMAIN counts |-> Weight(q, f) * counts[f]])

Score(q, n, dfs, counts, length, total) ==
  FoldFunction(+, 0, [i \in DOMAIN q.tokens |->
    TermScore(n, dfs[q.tokens[i]], Weighted(q, counts[q.tokens[i]]), length, total)])

(* Best first, then by id; JavaScript's slice of them. *)
Ranked(scores) ==
  SetToSortSeq(DOMAIN scores, LAMBDA x, y : scores[x] > scores[y] \/ (scores[x] = scores[y] /\ x < y))

Slice(s, limit) == SubSeq(s, 1, IF limit < 0 THEN Len(s) + limit ELSE IF limit < Len(s) THEN limit ELSE Len(s))

Hits(scores, q) == LET ids == Slice(Ranked(scores), q.limit) IN [i \in DOMAIN ids |-> <<ids[i], scores[ids[i]]>>]

MemoryHits(q) ==
  LET n == Cardinality({id \in Ids : memory.docs[id] # Missing})
      matched == {id \in Ids : /\ memory.docs[id] # Missing /\ HasMeta(memory.docs[id].meta, q.where)
                               /\ ToSet(q.tokens) \cap memory.docs[id].terms # {}}
      counts(id) == [t \in Terms |-> [f \in memory.fields |-> Count(memory.docs[id].texts, f, t)]]
  IN  Hits([id \in matched |-> Score(q, n, memory.df, counts(id), memory.docs[id].length, memory.total)], q)

(* MATCH and bm25 over the index, joined to the rows by rowid. *)
SqliteHits(F, q) ==
  LET of(id) == {p \in F.index : p[1] = F.rows[id].rowid}
      df == [t \in Terms |-> Cardinality({p[1] : p \in {r \in F.index : r[4] = t}})]
      matched == {id \in Stored(F) : HasMeta(F.rows[id].meta, q.where) /\ \E p \in of(id) : p[4] \in ToSet(q.tokens)}
      counts(id) == [t \in Terms |-> [f \in F.schema |-> Cardinality({p \in of(id) : p[2] = f /\ p[4] = t})]]
  IN  Hits([id \in matched |-> Score(q, Cardinality(Stored(F)), df, counts(id), Cardinality(of(id)), Cardinality(F.index))], q)

MemorySearch(q) ==
  IF InvalidWeight(q) THEN [error |-> "invalid-weight"]
  ELSE IF memory.fields = Missing \/ q.tokens = <<>> THEN [hits |-> <<>>]
  ELSE IF UnknownField(memory.fields, q) THEN [error |-> "unknown-weight-field"]
  ELSE [hits |-> MemoryHits(q)]

SqliteSearch(a, q) ==
  LET F == Opened(a).file IN
  IF InvalidWeight(q) THEN [error |-> "invalid-weight"]
  ELSE IF F.schema = Missing \/ q.tokens = <<>> THEN [hits |-> <<>>]
  ELSE IF UnknownField(F.schema, q) THEN [error |-> "unknown-weight-field"]
  ELSE IF ~ F.tables THEN [error |-> "no such table"]
  ELSE [hits |-> SqliteHits(F, q)]

--------------------
(* Calls *)

Answered(m, q) == calls < setup.calls /\ calls' = calls + 1 /\ last' = <<m, q>> /\ UNCHANGED setup

Outcome(error) == IF error = Missing THEN [done |-> TRUE] ELSE [error |-> error]

Index(a, doc) ==
  LET m == MemoryIndexes([store |-> memory, error |-> Missing], doc)
      s == SqliteIndexes([file |-> file, known |-> ensured[a], error |-> Missing], doc)
  IN  /\ memory' = m.store /\ file' = s.file /\ ensured' = [ensured EXCEPT ![a] = s.known]
      /\ Answered(Outcome(m.error), Outcome(s.error)) /\ UNCHANGED parted

(* One transaction in SQLite; what the adapter remembers is not undone. *)
IndexMany(a, docs) ==
  LET m == FoldLeft(MemoryIndexes, [store |-> memory, error |-> Missing], docs)
      s == FoldLeft(SqliteIndexes, [file |-> file, known |-> ensured[a], error |-> Missing], docs)
  IN  /\ memory' = m.store
      /\ file' = IF s.error = Missing THEN s.file ELSE file
      /\ ensured' = [ensured EXCEPT ![a] = s.known]
      /\ parted' = (parted \/ (m.error # Missing /\ m.store # memory))
      /\ Answered(Outcome(m.error), Outcome(s.error))

RemoveDoc(a, id) ==
  LET opened == Opened(a) IN
  /\ memory' = Forgotten(memory, id)
  /\ file' = Removed(opened.file, id) /\ ensured' = [ensured EXCEPT ![a] = opened.known]
  /\ Answered([found |-> memory.docs[id] # Missing],
              IF opened.file.schema # Missing /\ ~ opened.file.tables THEN [error |-> "no such table"]
              ELSE [found |-> file.rows[id] # Missing])
  /\ UNCHANGED parted

Search(a, q) ==
  LET opened == IF InvalidWeight(q) \/ q.tokens = <<>> THEN [file |-> file, known |-> ensured[a]] ELSE Opened(a) IN
  /\ file' = opened.file /\ ensured' = [ensured EXCEPT ![a] = opened.known]
  /\ Answered(MemorySearch(q), SqliteSearch(a, q))
  /\ UNCHANGED <<memory, parted>>

Reopen(a) ==
  /\ ensured[a] # {} /\ ensured' = [ensured EXCEPT ![a] = {}]
  /\ last' = <<None, None>> /\ UNCHANGED <<setup, memory, file, calls, parted>>

Next ==
  \E a \in Adapters :
    \/ \E docs \in setup.batches : IF Len(docs) = 1 THEN Index(a, docs[1]) ELSE IndexMany(a, docs)
    \/ \E id \in Ids : RemoveDoc(a, id)
    \/ \E q \in setup.queries : Search(a, q)
    \/ Reopen(a)

Spec == Init /\ [][Next]_searchVars

--------------------
(* Properties *)

(* Every row and every document has the fields of its collection, and rows
   have rowids of their own. *)
TypeOK ==
  /\ calls \in 0 .. setup.calls /\ parted \in BOOLEAN
  /\ \A id \in Ids : memory.docs[id] # Missing => DOMAIN memory.docs[id].texts = memory.fields
  /\ \A id \in Stored(file) : file.tables /\ DOMAIN file.rows[id].texts = file.schema
  /\ \A x, y \in Stored(file) : file.rows[x].rowid = file.rows[y].rowid => x = y

(* The counts kept in memory are those of the documents there: over
   replacements, removals and refused batches. *)
CountsAreExact ==
  LET here == {id \in Ids : memory.docs[id] # Missing} IN
  /\ \A t \in Terms : memory.df[t] = Cardinality({id \in here : t \in TermsOf(memory.docs[id].texts)})
  /\ memory.total = FoldFunction(+, 0, [id \in here |-> Length(memory.docs[id].texts)])

(* The full text index holds the postings of the rows, and of no others:
   over updates, deletions and rowids that are used again. *)
IndexIsOfRows ==
  file.index = UNION {Postings(file.rows[id]) : id \in Stored(file)}

(* Until a batch was refused after its first document, which memory keeps
   and SQLite does not, both answer every call alike: the same hits, or
   the same error. *)
SearchesAgree == ~ parted => last[1] = last[2]

(* A search finds every document with one of its tokens and the metadata
   asked for, up to its limit, and none without. *)
HitsAreWhole ==
  \A q \in setup.queries :
    "hits" \in DOMAIN MemorySearch(q) /\ q.limit >= 0 =>
      LET hits == MemorySearch(q).hits
          wanted == {id \in Ids :
            /\ memory.docs[id] # Missing /\ ToSet(q.tokens) \cap TermsOf(memory.docs[id].texts) # {}
            /\ q.where # Missing => \A k \in DOMAIN q.where : memory.docs[id].meta # Missing /\ k \in DOMAIN memory.docs[id].meta
                                                              /\ memory.docs[id].meta[k] = q.where[k]}
      IN  /\ {hits[i][1] : i \in DOMAIN hits} \subseteq wanted
          /\ Len(hits) = IF Cardinality(wanted) < q.limit THEN Cardinality(wanted) ELSE q.limit

(* An adapter that remembers tables which are not there (every later call
   of the collection fails until it is opened anew) had a batch refused:
   what it remembers is not undone with the transaction. *)
TablesAreRemembered ==
  \A a \in Adapters : ensured[a] # {} /\ ~ file.tables => parted

(* A call that SQLite refuses leaves its documents as they were, those of
   a batch before the refused one too. *)
RefusedLeavesNothing ==
  "error" \in DOMAIN last'[2] => file'.rows = file.rows /\ file'.index = file.index
===============================================================================
