------------------------------ MODULE Names_proofs ------------------------------
(***************************************************************************)
(* Theorems of what many use by name in one store, for every set of names, *)
(* processes and hashes.                                                   *)
(*                                                                         *)
(* SqliteTables: names that share a hash never share a table, however the  *)
(* statements of the processes interleave and however their transactions   *)
(* end. All rests on how a database may change: its registry gives every   *)
(* table to one name, rows are in the registered table of their name       *)
(* (Sound), nothing registered is lost, and a new table is registered by   *)
(* whoever creates it (Grows). A transaction that has not written is what  *)
(* the file once was, and one that has is what it will be, so that what a  *)
(* process has found out by looking is not undone by the others.           *)
(*                                                                         *)
(* Namespaces: no physical key belongs to two namespaces, because the part *)
(* before the first separator can be read back when it holds none itself;  *)
(* so a step of one leaves what the others see alone.                      *)
(***************************************************************************)
EXTENDS SqliteTables, SequenceTheorems, FiniteSetTheorems, TLAPS

CONSTANTS
  Hashes,      \* what a name may hash to
  RowNames,    \* whose rows a file may hold: Names, and others'
  Spaces, KeyNames, Ids, Values, Versions    \* the constants of Namespaces

VARIABLES rows, minted, receipts, given, last    \* its variables

NS == INSTANCE Namespaces WITH Names <- KeyNames

Keys == Kinds \X Names

Tables == Kinds \X Hashes \X (Nat \ {0})

Databases ==
  [registry : [Keys -> Tables \cup {Missing}], tables : SUBSET Tables,
   rows : SUBSET (Tables \X RowNames), schemas : SUBSET Names]

(* t is a table of a key's kind and of its name's hash, suffixed or not. *)
TableOf(h, k, t) == t \in Tables /\ t[1] = k[1] /\ t[2] = h[k[2]]

(* A name's rows are in its registered table, and a table is registered
   for one name; others' rows are in tables that nobody will adopt. *)
Registered(h, d) ==
  /\ \A k \in Keys : d.registry[k] # Missing => TableOf(h, k, d.registry[k])
  /\ \A k, l \in Keys : d.registry[k] # Missing /\ d.registry[k] = d.registry[l] => k = l

Placed(d) ==
  /\ \A r \in d.rows : r[1] \in d.tables
  /\ \A r \in d.rows : r[2] \in Names => d.registry[<<r[1][1], r[2]>>] = r[1]
  /\ \A r \in d.rows : r[2] \notin Names => r[1][3] # 1 /\ ~Claimed(d, r[1])
  /\ \A r, s \in d.rows : r[2] \notin Names /\ s[2] \notin Names =>
       /\ r[1] = s[1] => r[2] = s[2]
       /\ r[2] = s[2] /\ r[1][1] = s[1][1] => r[1] = s[1]

Sound(h, d) == d \in Databases /\ Registered(h, d) /\ Placed(d)

(* What others may do to a database: nothing is lost, and who creates a
   table has registered it. *)
Grows(d, e) ==
  /\ \A k \in Keys : d.registry[k] # Missing => e.registry[k] = d.registry[k]
  /\ d.tables \subseteq e.tables
  /\ \A t \in e.tables \ d.tables : Claimed(e, t)

Ops == {"put", "read", "peek", "index", "search"}

BlockRecords == [ends : {"none", "commit", "rollback"}, ops : Seq([op : Ops, name : Names])]

SetupRecords ==
  [libsql : SUBSET Processes, blocks : [Processes -> Seq(BlockRecords)],
   disk : Databases, hash : [Names -> Hashes]]

(* What is asked of the setups. The libSQL adapter is modelled where it
   works on collections. *)
WellFormed ==
  /\ Missing \notin Processes /\ Missing \notin Tables /\ Missing \notin Databases
  /\ Names \subseteq RowNames
  /\ Setups \subseteq SetupRecords
  /\ \A s \in Setups : Sound(s.hash, s.disk)
  /\ \A s \in Setups : \A p \in s.libsql : \A i \in DOMAIN s.blocks[p] :
       \A j \in DOMAIN s.blocks[p][i].ops : s.blocks[p][i].ops[j].op \in {"put", "read"}

--------------------
(* Databases. *)

LEMMA GrowsReflexive == ASSUME NEW d PROVE Grows(d, d)
BY DEF Grows

LEMMA GrowsTransitive ==
  ASSUME WellFormed, NEW d \in Databases, NEW e \in Databases, NEW f \in Databases, Grows(d, e), Grows(e, f)
  PROVE  Grows(d, f)
<1>1. ASSUME NEW t \in Tables, Claimed(e, t) PROVE Claimed(f, t)
  BY <1>1 DEF WellFormed, Claimed, Grows, Keys
<1>2. \A t \in f.tables \ d.tables : Claimed(f, t)
  BY <1>1 DEF Grows, Databases
<1> QED BY <1>2 DEF Grows, WellFormed

LEMMA ClaimsStay ==
  ASSUME WellFormed, NEW d, NEW e, Grows(d, e), NEW t \in Tables, Claimed(d, t)
  PROVE  Claimed(e, t)
BY DEF WellFormed, Claimed, Grows, Keys

LEMMA RegisterSound ==
  ASSUME WellFormed, NEW h, NEW d, Sound(h, d), NEW k \in Keys, NEW t, TableOf(h, k, t),
         d.registry[k] = Missing, ~Claimed(d, t), t[3] = 1 \/ t \notin d.tables
  PROVE  LET e == [d EXCEPT !.registry[k] = t] IN Sound(h, e) /\ Grows(d, e)
<1> DEFINE e == [d EXCEPT !.registry[k] = t]
<1>1. d \in Databases /\ t \in Tables /\ t # Missing
  BY DEF Sound, TableOf, WellFormed
<1>2. /\ e \in Databases
      /\ e.registry = [d.registry EXCEPT ![k] = t] /\ e.tables = d.tables /\ e.rows = d.rows
  BY <1>1 DEF Databases
<1> HIDE DEF e
<1>3. e.registry[k] = t /\ \A l \in Keys : l # k => e.registry[l] = d.registry[l]
  BY <1>1, <1>2 DEF Databases
<1>4. \A l \in Keys : d.registry[l] # t
  BY DEF Claimed, Keys
<1>5. Registered(h, e)
  BY <1>3, <1>4 DEF Sound, Registered
<1>6. \A u : Claimed(e, u) => u = t \/ Claimed(d, u)
  BY <1>3 DEF Claimed, Keys
<1>7. \A r \in d.rows : r \in Tables \X RowNames
  BY <1>1 DEF Databases
<1>8. \A r \in d.rows : r[2] \in Names => e.registry[<<r[1][1], r[2]>>] = r[1]
  <2> SUFFICES ASSUME NEW r \in d.rows, r[2] \in Names PROVE e.registry[<<r[1][1], r[2]>>] = r[1]
    OBVIOUS
  <2>1. r[1] \in Tables /\ <<r[1][1], r[2]>> \in Keys
    BY <1>7 DEF Tables, Keys
  <2>2. d.registry[<<r[1][1], r[2]>>] = r[1] /\ r[1] # Missing
    BY <2>1 DEF Sound, Placed, WellFormed
  <2> QED BY <2>1, <2>2, <1>3
<1>9. \A r \in d.rows : r[2] \notin Names => ~Claimed(e, r[1])
  BY <1>6 DEF Sound, Placed
<1>10. Placed(e)
  BY <1>2, <1>8, <1>9 DEF Sound, Placed
<1>11. Grows(d, e)
  BY <1>1, <1>2, <1>3 DEF Grows
<1> QED BY <1>2, <1>5, <1>10, <1>11 DEF Sound, e

(* CREATE TABLE, of a table that is registered. *)
LEMMA CreateSound ==
  ASSUME WellFormed, NEW h, NEW d, Sound(h, d), NEW t \in Tables, Claimed(d, t)
  PROVE  LET e == [d EXCEPT !.tables = @ \cup {t}] IN Sound(h, e) /\ Grows(d, e)
<1> DEFINE e == [d EXCEPT !.tables = @ \cup {t}]
<1>1. d \in Databases
  BY DEF Sound
<1>2. /\ e \in Databases
      /\ e.registry = d.registry /\ e.tables = d.tables \cup {t} /\ e.rows = d.rows
  BY <1>1 DEF Databases
<1> HIDE DEF e
<1>3. \A u : Claimed(e, u) <=> Claimed(d, u)
  BY <1>2 DEF Claimed
<1>4. Registered(h, e) /\ Placed(e)
  BY <1>2, <1>3 DEF Sound, Registered, Placed
<1>5. Grows(d, e)
  BY <1>2, <1>3 DEF Grows
<1> QED BY <1>2, <1>4, <1>5 DEF Sound, e

LEMMA SchemaSound ==
  ASSUME NEW h, NEW d, Sound(h, d), NEW n \in Names
  PROVE  LET e == [d EXCEPT !.schemas = @ \cup {n}] IN Sound(h, e) /\ Grows(d, e)
<1> DEFINE e == [d EXCEPT !.schemas = @ \cup {n}]
<1>1. d \in Databases
  BY DEF Sound
<1>2. /\ e \in Databases
      /\ e.registry = d.registry /\ e.tables = d.tables /\ e.rows = d.rows
  BY <1>1 DEF Databases
<1> HIDE DEF e
<1>3. Registered(h, e) /\ Placed(e) /\ Grows(d, e)
  BY <1>2 DEF Sound, Registered, Placed, Grows, Claimed
<1> QED BY <1>2, <1>3 DEF Sound, e

LEMMA RowSound ==
  ASSUME WellFormed, NEW h, NEW d, Sound(h, d), NEW k \in Keys, NEW t \in Tables,
         d.registry[k] = t, t \in d.tables
  PROVE  LET e == [d EXCEPT !.rows = @ \cup {<<t, k[2]>>}] IN Sound(h, e) /\ Grows(d, e)
<1> DEFINE row == <<t, k[2]>>
           e == [d EXCEPT !.rows = @ \cup {row}]
<1>1. d \in Databases /\ t # Missing
  BY DEF Sound, WellFormed
<1>2. row \in Tables \X RowNames /\ row[1] = t /\ row[2] = k[2] /\ row[2] \in Names
  BY DEF WellFormed, Keys
<1>3. d.registry[<<t[1], k[2]>>] = t
  <2>1. t[1] = k[1]
    BY <1>1 DEF Sound, Registered, TableOf
  <2>2. k = <<k[1], k[2]>>
    BY DEF Keys
  <2> QED BY <2>1, <2>2
<1> HIDE DEF row
<1>4. /\ e \in Databases
      /\ e.registry = d.registry /\ e.tables = d.tables /\ e.rows = d.rows \cup {row}
  BY <1>1, <1>2 DEF Databases
<1> HIDE DEF e
<1>5. \A u : Claimed(e, u) <=> Claimed(d, u)
  BY <1>4 DEF Claimed
<1>6. Registered(h, e)
  BY <1>4 DEF Sound, Registered
<1>7. /\ \A r \in e.rows : r[1] \in e.tables
      /\ \A r \in e.rows : r[2] \in Names => e.registry[<<r[1][1], r[2]>>] = r[1]
  BY <1>2, <1>3, <1>4 DEF Sound, Placed
<1>8. /\ \A r \in e.rows : r[2] \notin Names => r \in d.rows
  BY <1>2, <1>4
<1>9. Placed(e)
  BY <1>5, <1>7, <1>8 DEF Sound, Placed
<1>10. Grows(d, e)
  BY <1>4, <1>5 DEF Grows
<1> QED BY <1>4, <1>6, <1>9, <1>10 DEF Sound, e, row

(* Two names share no table, and a name is in one table of each kind. *)
LEMMA SoundRows ==
  ASSUME WellFormed, NEW h, NEW d, Sound(h, d), NEW r \in d.rows, NEW s \in d.rows
  PROVE  /\ r[1] = s[1] => r[2] = s[2]
         /\ r[2] = s[2] /\ r[1][1] = s[1][1] => r[1] = s[1]
<1>1. r \in Tables \X RowNames /\ s \in Tables \X RowNames
  BY DEF Sound, Databases
<1>2. r[1] \in Tables /\ s[1] \in Tables
  BY <1>1
<1>3. r[1] # Missing /\ s[1] # Missing
  BY <1>2 DEF WellFormed
<1>4. r[1][1] \in Kinds /\ s[1][1] \in Kinds
  BY <1>2 DEF Tables
<1>5. ASSUME NEW a \in d.rows, NEW b \in d.rows, a[1] = b[1], a[1] \in Tables, a[2] \in Names PROVE b[2] \in Names
  <2>1. <<a[1][1], a[2]>> \in Keys
    BY <1>5 DEF Tables, Keys
  <2>2. d.registry[<<a[1][1], a[2]>>] = b[1]
    BY <1>5 DEF Sound, Placed
  <2>3. Claimed(d, b[1])
    BY <2>1, <2>2 DEF Claimed, Keys
  <2> QED BY <2>3 DEF Sound, Placed
<1>6. CASE r[2] \in Names /\ s[2] \in Names
  <2>1. /\ <<r[1][1], r[2]>> \in Keys /\ d.registry[<<r[1][1], r[2]>>] = r[1]
        /\ <<s[1][1], s[2]>> \in Keys /\ d.registry[<<s[1][1], s[2]>>] = s[1]
    BY <1>4, <1>6 DEF Sound, Placed, Keys
  <2>2. ASSUME r[1] = s[1] PROVE r[2] = s[2]
    <3>1. <<r[1][1], r[2]>> = <<s[1][1], s[2]>>
      BY <2>1, <2>2, <1>3 DEF Sound, Registered
    <3> QED BY <3>1
  <2> QED BY <2>1, <2>2
<1>7. CASE r[2] \notin Names /\ s[2] \notin Names
  BY <1>7 DEF Sound, Placed
<1>8. CASE (r[2] \in Names) # (s[2] \in Names)
  BY <1>8, <1>5, <1>2
<1> QED BY <1>6, <1>7, <1>8

--------------------
(* The inductive invariant. *)

PCs == {"next", "look", "claim", "exists", "register", "create", "schema", "newSchema", "run"}

Results == {"done", "busy", "conflict", "constraint", "no such table"}

Progress ==
  [pc : PCs, block : Nat \ {0}, op : Nat \ {0}, candidate : Nat \ {0}, attempt : Nat \ {0},
   table : Tables \cup {Missing}, draft : Databases \cup {Missing}, base : Databases \cup {Missing},
   pending : SUBSET (Keys \X Tables), results : Seq(Results)]

Memories ==
  [resolved : [Keys -> Tables \cup {Missing}], initialized : SUBSET Tables, ensured : SUBSET Tables]

Typed ==
  /\ set \in Setups
  /\ locked \in Processes \cup {Missing}
  /\ cache \in [Processes -> Memories]
  /\ proc \in [Processes -> Progress]

(* A transaction that has written extends the file, which nobody changes
   meanwhile; one that has not is what the file once was. *)
Transacting(p) ==
  /\ InTransaction(p) =>
       /\ Sound(set.hash, proc[p].draft)
       /\ IF locked = p THEN Grows(file, proc[p].draft)
          ELSE proc[p].draft = proc[p].base /\ Grows(proc[p].draft, file)
  /\ locked = p => InTransaction(p)
  /\ Libsql(p) /\ InTransaction(p) => locked = p
  /\ proc[p].pending # {} => Libsql(p) /\ InTransaction(p)

Holds(p, d) ==
  /\ \A k \in Keys : cache[p].resolved[k] # Missing =>
       /\ d.registry[k] = cache[p].resolved[k]
       /\ Libsql(p) => cache[p].resolved[k] \in d.tables
  /\ cache[p].initialized \subseteq d.tables

(* What p remembers is in the file and in what it sees, and what it will
   remember is in its transaction. *)
Remembers(p) ==
  /\ Holds(p, file) /\ Holds(p, View(p))
  /\ \A e \in proc[p].pending :
       /\ View(p).registry[e[1]] = e[2]
       /\ e[2] \in View(p).tables \/ (proc[p].pc = "create" /\ proc[p].table = e[2])

Operating(p) ==
  /\ proc[p].block <= Len(Blocks(p)) /\ proc[p].op <= Len(Block(p).ops)
  /\ Block(p).ends # "none" => InTransaction(p)
  /\ Libsql(p) /\ Operation(p).op = "put" => InTransaction(p)

Places(p) ==
  /\ proc[p].block <= Len(Blocks(p)) + 1
  /\ proc[p].pc # "next" => Operating(p)

(* How far the search for a table has come. *)
Finds(p) ==
  /\ proc[p].pc \in {"look", "claim", "exists", "register"} => (Libsql(p) => InTransaction(p))
  /\ proc[p].pc \in {"schema", "newSchema"} => proc[p].table = Remembered(p) /\ ~Libsql(p)
  /\ proc[p].pc \in {"exists", "register"} => TableOf(set.hash, Key(p), proc[p].table)
  /\ proc[p].pc = "register" =>
       \/ proc[p].table[3] = 1 \/ proc[p].table \notin View(p).tables \/ Claimed(View(p), proc[p].table)
  /\ proc[p].pc \in {"create", "run"} => proc[p].table \in Tables /\ View(p).registry[Key(p)] = proc[p].table
  /\ proc[p].pc = "run" /\ Kind(p) = "collection" => proc[p].table \in View(p).tables

Fine(p) == Transacting(p) /\ Remembers(p) /\ Places(p) /\ Finds(p)

TablesIInv == Typed /\ Sound(set.hash, file) /\ \A p \in Processes : Fine(p)

(* What the others may rely on, of a step of p. *)
Keeps(p) ==
  /\ set' = set
  /\ locked' \in {locked, p, Missing}
  /\ cache' \in [Processes -> Memories] /\ proc' \in [Processes -> Progress]
  /\ Sound(set.hash, file') /\ Grows(file, file')
  /\ \A o \in Processes : o # p => proc'[o] = proc[o] /\ cache'[o] = cache[o]
  /\ locked \notin {p, Missing} => file' = file /\ locked' = locked

--------------------
(* Where a process is, and what it sees. *)

LEMMA SetupTyped == ASSUME WellFormed, Typed PROVE set \in SetupRecords
BY DEF WellFormed, Typed

LEMMA OperationTyped ==
  ASSUME WellFormed, Typed, NEW p \in Processes, proc[p].block <= Len(Blocks(p)), proc[p].op <= Len(Block(p).ops)
  PROVE  /\ Block(p) \in BlockRecords
         /\ Operation(p) \in [op : Ops, name : Names]
         /\ Key(p) \in Keys /\ Kind(p) \in Kinds /\ Name(p) \in Names
         /\ Key(p)[1] = Kind(p) /\ Key(p)[2] = Name(p)
         /\ Libsql(p) => Operation(p).op \in {"put", "read"}
<1>1. set \in SetupRecords /\ proc[p] \in Progress
  BY SetupTyped DEF Typed
<1>2. Blocks(p) \in Seq(BlockRecords) /\ proc[p].block \in 1 .. Len(Blocks(p))
  BY <1>1 DEF SetupRecords, Blocks, Progress
<1>3. Block(p) \in BlockRecords
  BY <1>2, ElementOfSeq DEF Block
<1>4. Block(p).ops \in Seq([op : Ops, name : Names]) /\ proc[p].op \in 1 .. Len(Block(p).ops)
  BY <1>1, <1>3 DEF BlockRecords, Progress
<1>5. Operation(p) \in [op : Ops, name : Names]
  BY <1>4, ElementOfSeq DEF Operation
<1>6. Name(p) \in Names /\ Kind(p) \in Kinds
  BY <1>5 DEF Name, Kind, KindOf, Kinds
<1>7. Libsql(p) => Operation(p).op \in {"put", "read"}
  <2> SUFFICES ASSUME Libsql(p) PROVE Operation(p).op \in {"put", "read"}
    OBVIOUS
  <2>1. set \in Setups /\ p \in set.libsql
    BY DEF Typed, Libsql
  <2>2. proc[p].block \in DOMAIN set.blocks[p]
    BY <1>2 DEF Blocks
  <2>3. proc[p].op \in DOMAIN set.blocks[p][proc[p].block].ops
    BY <1>4 DEF Block, Blocks
  <2> QED BY <2>1, <2>2, <2>3 DEF WellFormed, Operation, Block, Blocks
<1> QED BY <1>3, <1>5, <1>6, <1>7 DEF Key, Keys

LEMMA SamePlace ==
  ASSUME NEW p \in Processes, set' = set, proc'[p].block = proc[p].block
  PROVE  /\ Libsql(p)' = Libsql(p) /\ Blocks(p)' = Blocks(p) /\ Block(p)' = Block(p)
         /\ proc'[p].op = proc[p].op =>
              Operation(p)' = Operation(p) /\ Kind(p)' = Kind(p) /\ Name(p)' = Name(p) /\ Key(p)' = Key(p)
BY DEF Libsql, Blocks, Block, Operation, Kind, Name, Key

LEMMA ViewSound ==
  ASSUME WellFormed, TablesIInv, NEW p \in Processes
  PROVE  Sound(set.hash, View(p)) /\ View(p) \in Databases
BY DEF TablesIInv, Fine, Transacting, View, Sound

LEMMA SetupHash ==
  ASSUME WellFormed, TablesIInv PROVE set.hash \in [Names -> Hashes]
BY SetupTyped DEF TablesIInv, SetupRecords

(* p's place in its blocks, and what it remembers, survive growth. *)
LEMMA HoldsStays ==
  ASSUME WellFormed, NEW p \in Processes, NEW d, NEW e, Holds(p, d), Grows(d, e),
         cache[p] \in Memories
  PROVE  Holds(p, e)
<1>1. ASSUME NEW k \in Keys, cache[p].resolved[k] # Missing
      PROVE  e.registry[k] = cache[p].resolved[k] /\ (Libsql(p) => cache[p].resolved[k] \in e.tables)
  BY <1>1 DEF Holds, Grows
<1>2. cache[p].initialized \subseteq e.tables
  BY DEF Holds, Grows
<1> QED BY <1>1, <1>2 DEF Holds

(* What others do leaves p as it was. *)
LEMMA OthersStay ==
  ASSUME WellFormed, TablesIInv, NEW p \in Processes, Keeps(p), NEW o \in Processes, o # p
  PROVE  Fine(o)'
<1>1. /\ Typed /\ Fine(o) /\ Sound(set.hash, file)
      /\ set' = set /\ proc'[o] = proc[o] /\ cache'[o] = cache[o]
      /\ proc[o] \in Progress /\ cache[o] \in Memories
  BY DEF TablesIInv, Keeps, Typed
<1>2. /\ Libsql(o)' = Libsql(o) /\ Blocks(o)' = Blocks(o) /\ Block(o)' = Block(o)
      /\ Operation(o)' = Operation(o) /\ Kind(o)' = Kind(o) /\ Name(o)' = Name(o) /\ Key(o)' = Key(o)
      /\ InTransaction(o)' = InTransaction(o) /\ Remembered(o)' = Remembered(o)
  BY <1>1 DEF Libsql, Blocks, Block, Operation, Kind, Name, Key, InTransaction, Remembered
<1>3. o # Missing
  BY DEF WellFormed
<1>4. Grows(file, file') /\ Sound(set.hash, file')
  BY DEF Keeps
<1>5. file \in Databases /\ file' \in Databases
  BY <1>1, <1>4 DEF Sound
<1>6. locked = o => file' = file /\ locked' = locked
  BY <1>3 DEF Keeps
<1>7. locked # o => locked' # o
  BY <1>3 DEF Keeps
<1>8. Transacting(o)'
  <2>1. CASE locked = o
    BY <2>1, <1>1, <1>2, <1>6 DEF Fine, Transacting
  <2>2. CASE locked # o /\ InTransaction(o)
    <3>1. Sound(set.hash, proc[o].draft) /\ proc[o].draft = proc[o].base /\ Grows(proc[o].draft, file)
      BY <2>2, <1>1 DEF Fine, Transacting
    <3>2. Grows(proc[o].draft, file')
      BY <3>1, <1>4, <1>5, GrowsTransitive DEF Sound
    <3> QED BY <3>1, <3>2, <2>2, <1>1, <1>2, <1>7 DEF Fine, Transacting
  <2>3. CASE locked # o /\ ~InTransaction(o)
    BY <2>3, <1>1, <1>2, <1>7 DEF Fine, Transacting
  <2> QED BY <2>1, <2>2, <2>3
<1>9. Grows(View(o), View(o)') /\ (InTransaction(o) => View(o)' = View(o))
  BY <1>1, <1>2, <1>4, GrowsReflexive DEF View
<1>10. View(o) \in Databases
  BY ViewSound
<1>11. Holds(o, file') /\ Holds(o, View(o)')
  BY <1>1, <1>4, <1>9, HoldsStays DEF Fine, Remembers
<1>12. Holds(o, file)' /\ Holds(o, View(o))'
  BY <1>11, <1>1, <1>2 DEF Holds
<1>13. \A e \in proc[o].pending : InTransaction(o)
  BY <1>1 DEF Fine, Transacting
<1>14. Remembers(o)'
  BY <1>1, <1>9, <1>12, <1>13 DEF Fine, Remembers
<1>15. Places(o)'
  BY <1>1, <1>2 DEF Fine, Places, Operating
<1>16. Finds(o)'
  <2>1. CASE proc[o].pc \in {"next"}
    BY <2>1, <1>1 DEF Finds
  <2>2. CASE proc[o].pc # "next"
    <3>1. Key(o) \in Keys
      BY <2>2, <1>1, OperationTyped DEF Fine, Places, Operating
    <3>2. proc[o].pc = "register" =>
            proc[o].table[3] = 1 \/ proc[o].table \notin View(o)'.tables \/ Claimed(View(o)', proc[o].table)
      <4> SUFFICES ASSUME proc[o].pc = "register" PROVE
            proc[o].table[3] = 1 \/ proc[o].table \notin View(o)'.tables \/ Claimed(View(o)', proc[o].table)
        OBVIOUS
      <4>1. proc[o].table \in Tables
        BY <1>1 DEF Fine, Finds, TableOf
      <4>2. Claimed(View(o), proc[o].table) => Claimed(View(o)', proc[o].table)
        BY <4>1, <1>9, ClaimsStay
      <4>3. \A t \in View(o)'.tables \ View(o).tables : Claimed(View(o)', t)
        BY <1>9 DEF Grows
      <4> QED BY <4>2, <4>3, <1>1 DEF Fine, Finds
    <3>3. proc[o].pc \in {"create", "run"} => View(o)'.registry[Key(o)] = proc[o].table
      BY <3>1, <1>1, <1>9 DEF Fine, Finds, Grows, WellFormed
    <3>4. proc[o].pc = "run" /\ Kind(o) = "collection" => proc[o].table \in View(o)'.tables
      BY <1>1, <1>9 DEF Fine, Finds, Grows
    <3> QED BY <3>2, <3>3, <3>4, <1>1, <1>2 DEF Fine, Finds
  <2> QED BY <2>1, <2>2
<1> QED BY <1>8, <1>14, <1>15, <1>16 DEF Fine

--------------------
(* The kinds of steps: one that reads, one that writes, and the beginning
   and the end of a transaction. *)

LEMMA ReadingStep ==
  ASSUME WellFormed, TablesIInv, NEW p \in Processes, NEW q \in Progress, proc' = [proc EXCEPT ![p] = q],
         q.draft = proc[p].draft, q.base = proc[p].base, q.pending # {} => Libsql(p) /\ InTransaction(p),
         set' = set, file' = file, locked' = locked,
         cache' \in [Processes -> Memories], \A o \in Processes : o # p => cache'[o] = cache[o]
  PROVE  /\ Keeps(p) /\ Transacting(p)'
         /\ InTransaction(p)' = InTransaction(p) /\ View(p)' = View(p) /\ proc'[p] = q
<1>1. Typed /\ Sound(set.hash, file) /\ Transacting(p)
  BY DEF TablesIInv, Fine
<1>2. proc'[p] = q /\ proc' \in [Processes -> Progress] /\ \A o \in Processes : o # p => proc'[o] = proc[o]
  BY <1>1 DEF Typed
<1>3. InTransaction(p)' = InTransaction(p) /\ View(p)' = View(p) /\ Libsql(p)' = Libsql(p)
  BY <1>2 DEF InTransaction, View, Libsql
<1>4. Keeps(p)
  BY <1>1, <1>2, GrowsReflexive DEF Keeps
<1>5. Transacting(p)'
  BY <1>1, <1>2, <1>3 DEF Transacting
<1> QED BY <1>2, <1>3, <1>4, <1>5

LEMMA WritingStep ==
  ASSUME WellFormed, TablesIInv, NEW p \in Processes, NEW q \in Progress, NEW d, Write(p, d, q),
         Sound(set.hash, d), Grows(View(p), d),
         q.draft = proc[p].draft, q.base = proc[p].base, q.pending # {} => Libsql(p) /\ InTransaction(p),
         set' = set,
         cache' \in [Processes -> Memories], \A o \in Processes : o # p => cache'[o] = cache[o]
  PROVE  /\ Keeps(p) /\ Transacting(p)'
         /\ InTransaction(p)' = InTransaction(p) /\ View(p)' = d
         /\ proc'[p].pc = q.pc /\ proc'[p].block = q.block /\ proc'[p].op = q.op
         /\ proc'[p].candidate = q.candidate /\ proc'[p].attempt = q.attempt
         /\ proc'[p].table = q.table /\ proc'[p].pending = q.pending /\ proc'[p].results = q.results
<1>1. Typed /\ Sound(set.hash, file) /\ Transacting(p)
  BY DEF TablesIInv, Fine
<1>2. d \in Databases /\ d # Missing /\ file \in Databases /\ file # Missing
  BY <1>1 DEF Sound, WellFormed
<1>3. ~Stale(p) /\ MayWrite(p) /\ p # Missing
  BY DEF Write, WellFormed
<1>4. CASE InTransaction(p)
  <2>1. proc' = [proc EXCEPT ![p] = [q EXCEPT !.draft = d]] /\ locked' = p /\ file' = file
    BY <1>4 DEF Write
  <2>2. PICK r : r = [q EXCEPT !.draft = d]
    OBVIOUS
  <2>3. /\ r \in Progress /\ r.draft = d /\ r.base = q.base /\ r.pending = q.pending
        /\ r.pc = q.pc /\ r.block = q.block /\ r.op = q.op /\ r.candidate = q.candidate
        /\ r.attempt = q.attempt /\ r.table = q.table /\ r.results = q.results
    BY <2>2, <1>2 DEF Progress
  <2>4. proc'[p] = r /\ proc' \in [Processes -> Progress] /\ \A o \in Processes : o # p => proc'[o] = proc[o]
    BY <2>1, <2>2, <2>3, <1>1 DEF Typed
  <2>5. InTransaction(p)' /\ View(p)' = d /\ Libsql(p)' = Libsql(p)
    BY <2>3, <2>4, <1>2 DEF InTransaction, View, Libsql
  <2>6. Grows(file, d)
    <3>1. View(p) = proc[p].draft /\ proc[p].draft \in Databases
      BY <1>4, <1>1 DEF View, Transacting, Sound
    <3>2. CASE locked = p
      BY <3>1, <3>2, <1>1, <1>2, <1>4, GrowsTransitive DEF Transacting
    <3>3. CASE locked # p
      BY <3>1, <3>3, <1>1, <1>3, <1>4 DEF Transacting, Stale
    <3> QED BY <3>2, <3>3
  <2>7. Keeps(p)
    BY <2>1, <2>4, <1>1, <1>3, GrowsReflexive DEF Keeps, MayWrite
  <2>8. Transacting(p)'
    BY <2>1, <2>3, <2>4, <2>5, <2>6, <1>4 DEF Transacting
  <2> QED BY <2>3, <2>4, <2>5, <2>7, <2>8, <1>4
<1>5. CASE ~InTransaction(p)
  <2>1. proc' = [proc EXCEPT ![p] = q] /\ file' = d /\ locked' = locked
    BY <1>5 DEF Write
  <2>2. proc'[p] = q /\ proc' \in [Processes -> Progress] /\ \A o \in Processes : o # p => proc'[o] = proc[o]
    BY <2>1, <1>1 DEF Typed
  <2>3. /\ ~InTransaction(p)' /\ InTransaction(p)' = InTransaction(p)
        /\ View(p)' = d /\ Libsql(p)' = Libsql(p)
    BY <2>1, <2>2, <1>5 DEF InTransaction, View, Libsql
  <2>4. Grows(file, d) /\ locked = Missing
    BY <1>1, <1>3, <1>5 DEF View, Transacting, MayWrite
  <2>5. Keeps(p)
    BY <2>1, <2>2, <2>4 DEF Keeps
  <2>6. Transacting(p)'
    BY <2>1, <2>2, <2>3, <2>4, <1>3, <1>5 DEF Transacting
  <2> QED BY <2>2, <2>3, <2>5, <2>6, <1>5
<1> QED BY <1>4, <1>5

LEMMA BeginningStep ==
  ASSUME WellFormed, TablesIInv, NEW p \in Processes, NEW q \in Progress, proc' = [proc EXCEPT ![p] = q],
         ~InTransaction(p), q.draft = file, q.base = file, q.pending = proc[p].pending,
         Libsql(p) => locked = Missing, locked' = IF Libsql(p) THEN p ELSE locked,
         set' = set, file' = file, cache' = cache
  PROVE  /\ Keeps(p) /\ Transacting(p)'
         /\ InTransaction(p)' /\ View(p)' = View(p) /\ proc'[p] = q
<1>1. Typed /\ Sound(set.hash, file) /\ Transacting(p)
  BY DEF TablesIInv, Fine
<1>2. proc'[p] = q /\ proc' \in [Processes -> Progress] /\ \A o \in Processes : o # p => proc'[o] = proc[o]
  BY <1>1 DEF Typed
<1>3. file # Missing
  BY <1>1 DEF Sound, WellFormed
<1>4. InTransaction(p)' /\ View(p)' = View(p) /\ Libsql(p)' = Libsql(p)
  BY <1>2, <1>3 DEF InTransaction, View, Libsql
<1>5. Keeps(p)
  BY <1>1, <1>2, GrowsReflexive DEF Keeps, Typed
<1>6. Transacting(p)'
  BY <1>1, <1>2, <1>4, GrowsReflexive DEF Transacting
<1> QED BY <1>2, <1>4, <1>5, <1>6

LEMMA EndingStep ==
  ASSUME WellFormed, TablesIInv, NEW p \in Processes, NEW q \in Progress, proc' = [proc EXCEPT ![p] = q],
         q.draft = Missing, q.pending = {}, locked' = Unlocked(p), set' = set,
         file' = file \/ (locked = p /\ Sound(set.hash, file') /\ Grows(file, file')),
         cache' \in [Processes -> Memories], \A o \in Processes : o # p => cache'[o] = cache[o]
  PROVE  /\ Keeps(p) /\ Transacting(p)'
         /\ ~InTransaction(p)' /\ View(p)' = file' /\ proc'[p] = q
<1>1. Typed /\ Sound(set.hash, file) /\ Transacting(p) /\ p # Missing
  BY DEF TablesIInv, Fine, WellFormed
<1>2. proc'[p] = q /\ proc' \in [Processes -> Progress] /\ \A o \in Processes : o # p => proc'[o] = proc[o]
  BY <1>1 DEF Typed
<1>3. ~InTransaction(p)' /\ View(p)' = file'
  BY <1>2 DEF InTransaction, View
<1>4. Sound(set.hash, file') /\ Grows(file, file')
  BY <1>1, GrowsReflexive
<1>5. Keeps(p)
  BY <1>1, <1>2, <1>4 DEF Keeps, Unlocked
<1>6. Transacting(p)'
  BY <1>1, <1>2, <1>3 DEF Transacting, Unlocked
<1> QED BY <1>2, <1>3, <1>5, <1>6

(* What p remembers, when its step adds nothing to it. *)
LEMMA MemoryStays ==
  ASSUME WellFormed, TablesIInv, NEW p \in Processes, Keeps(p), Grows(View(p), View(p)'),
         cache'[p].resolved = cache[p].resolved, cache'[p].initialized = cache[p].initialized,
         proc'[p].pending = proc[p].pending,
         proc[p].pc # "create" \/ proc[p].table \in View(p)'.tables \/ ~Libsql(p)
  PROVE  Remembers(p)'
<1>1. Transacting(p) /\ Remembers(p) /\ Grows(file, file') /\ cache[p] \in Memories
  BY DEF TablesIInv, Fine, Keeps, Typed
<1>2. Holds(p, file') /\ Holds(p, View(p)')
  BY <1>1, HoldsStays DEF Remembers
<1>3. Holds(p, file)' /\ Holds(p, View(p))'
  BY <1>2 DEF Holds, Libsql, Keeps
<1>4. proc[p].pending \in SUBSET (Keys \X Tables)
  BY DEF TablesIInv, Typed, Progress
<1>5. \A e \in proc[p].pending : View(p)'.registry[e[1]] = e[2] /\ e[2] \in View(p)'.tables
  <2> SUFFICES ASSUME NEW e \in proc[p].pending
               PROVE  View(p)'.registry[e[1]] = e[2] /\ e[2] \in View(p)'.tables
    OBVIOUS
  <2>1. e[1] \in Keys /\ e[2] \in Tables /\ e[2] # Missing
    BY <1>4 DEF WellFormed
  <2> QED BY <2>1, <1>1 DEF Remembers, Transacting, Grows
<1> QED BY <1>3, <1>5 DEF Remembers

(* What p remembers, when its transaction ends. *)
LEMMA MemoryAfterEnd ==
  ASSUME NEW p \in Processes, ~InTransaction(p)', proc'[p].pending = {}, Holds(p, file)'
  PROVE  Remembers(p)'
BY DEF Remembers, View

(* What was pending becomes memory when it is committed. *)
LEMMA CommittedMemory ==
  ASSUME WellFormed, TablesIInv, NEW p \in Processes, NEW e, Holds(p, e), file' = e, set' = set,
         cache' = AfterEnd(p, TRUE), Libsql(p) \/ proc[p].pending = {},
         \A t \in proc[p].pending : e.registry[t[1]] = t[2] /\ t[2] \in e.tables
  PROVE  /\ cache' \in [Processes -> Memories] /\ \A o \in Processes : o # p => cache'[o] = cache[o]
         /\ Holds(p, file)'
<1>1. cache \in [Processes -> Memories] /\ cache[p] \in Memories /\ proc[p].pending \in SUBSET (Keys \X Tables)
  BY DEF TablesIInv, Typed, Progress
<1> DEFINE resolved == [k \in Kinds \X Names |-> IF \E t \in proc[p].pending : t[1] = k
                           THEN (CHOOSE t \in proc[p].pending : t[1] = k)[2] ELSE cache[p].resolved[k]]
<1>2. cache' = [cache EXCEPT ![p].resolved = resolved]
  BY <1>1 DEF AfterEnd
<1>3. ASSUME NEW k \in Keys
      PROVE  \/ resolved[k] = cache[p].resolved[k]
             \/ \E t \in proc[p].pending : t[1] = k /\ resolved[k] = t[2]
  BY DEF Keys
<1>4. resolved \in [Keys -> Tables \cup {Missing}]
  <2>1. ASSUME NEW k \in Keys PROVE resolved[k] \in Tables \cup {Missing}
    <3> HIDE DEF resolved
    <3>1. cache[p].resolved[k] \in Tables \cup {Missing}
      BY <1>1 DEF Memories
    <3>2. \A t \in proc[p].pending : t[2] \in Tables
      BY <1>1
    <3> QED BY <3>1, <3>2, <1>3
  <2>2. resolved = [k \in Keys |-> resolved[k]]
    BY DEF Keys
  <2> HIDE DEF resolved
  <2> QED BY <2>1, <2>2
<1> HIDE DEF resolved
<1>5. /\ cache'[p].resolved = resolved /\ cache'[p].initialized = cache[p].initialized
      /\ cache'[p] \in Memories /\ \A o \in Processes : o # p => cache'[o] = cache[o]
  <2>1. PICK c : c = [cache[p] EXCEPT !.resolved = resolved]
    OBVIOUS
  <2>2. c \in Memories /\ c.resolved = resolved /\ c.initialized = cache[p].initialized
    BY <2>1, <1>1, <1>4 DEF Memories
  <2>3. cache' = [cache EXCEPT ![p] = c]
    BY <2>1, <1>2
  <2> QED BY <2>2, <2>3, <1>1
<1>6. cache' \in [Processes -> Memories]
  BY <1>1, <1>2, <1>5
<1>7. ASSUME NEW k \in Keys, resolved[k] # Missing
      PROVE  e.registry[k] = resolved[k] /\ (Libsql(p) => resolved[k] \in e.tables)
  <2>1. CASE resolved[k] = cache[p].resolved[k]
    BY <2>1, <1>7 DEF Holds
  <2>2. CASE \E t \in proc[p].pending : t[1] = k /\ resolved[k] = t[2]
    BY <2>2
  <2> QED BY <2>1, <2>2, <1>3
<1>8. cache[p].initialized \subseteq e.tables
  BY DEF Holds
<1> QED BY <1>5, <1>6, <1>7, <1>8 DEF Holds, Libsql

(* An operation that throws. *)
LEMMA ThrowFine ==
  ASSUME WellFormed, TablesIInv, NEW p \in Processes, NEW why \in Results, Throw(p, why),
         proc[p].block <= Len(Blocks(p))
  PROVE  Keeps(p) /\ Fine(p)'
<1>1. Typed /\ Fine(p) /\ proc[p] \in Progress
  BY DEF TablesIInv, Typed
<1>2. PICK q : q = AfterBlock(p, why)
  OBVIOUS
<1>3. /\ q \in Progress /\ q.draft = Missing /\ q.pending = {} /\ q.pc = "next" /\ q.block = proc[p].block + 1
  <2>1. PICK results \in Seq(Results) : results = Append(proc[p].results, why)
    BY <1>1, AppendProperties DEF Progress
  <2>2. PICK one \in Nat \ {0}, block \in Nat \ {0}, next \in PCs :
          one = 1 /\ block = proc[p].block + 1 /\ next = "next"
    <3>1. 1 \in Nat \ {0} /\ proc[p].block + 1 \in Nat \ {0} /\ "next" \in PCs
      BY <1>1 DEF Progress, PCs
    <3> QED BY <3>1
  <2>3. q = [proc[p] EXCEPT !.pc = next, !.block = block, !.op = one, !.draft = Missing, !.base = Missing,
                            !.pending = {}, !.results = results]
    BY <2>1, <2>2, <1>2 DEF AfterBlock
  <2> QED BY <2>2, <2>3, <1>1 DEF Progress
<1>4. /\ proc' = [proc EXCEPT ![p] = q] /\ locked' = Unlocked(p) /\ set' = set /\ file' = file /\ cache' = cache
  BY <1>2 DEF Throw
<1>5. /\ Keeps(p) /\ Transacting(p)' /\ ~InTransaction(p)' /\ proc'[p] = q
  <2>1. cache' \in [Processes -> Memories] /\ \A o \in Processes : o # p => cache'[o] = cache[o]
    BY <1>1, <1>4 DEF Typed
  <2> QED BY <2>1, <1>3, <1>4, EndingStep
<1>6. Holds(p, file)'
  BY <1>1, <1>4 DEF Fine, Remembers, Holds, Libsql
<1>7. Remembers(p)'
  BY <1>3, <1>5, <1>6, MemoryAfterEnd
<1>8. Places(p)'
  <2>1. Blocks(p)' = Blocks(p) /\ Len(Blocks(p)) \in Nat
    BY <1>1, <1>4, SetupTyped DEF Blocks, SetupRecords
  <2> QED BY <2>1, <1>1, <1>3, <1>5 DEF Places, Progress
<1>9. Finds(p)'
  BY <1>3, <1>5 DEF Finds
<1> QED BY <1>5, <1>7, <1>8, <1>9 DEF Fine

--------------------
(* One lemma per action. *)

LEMMA AtWork ==
  ASSUME WellFormed, TablesIInv, NEW p \in Processes, proc[p].pc # "next"
  PROVE  /\ Typed /\ Fine(p) /\ proc[p] \in Progress /\ cache[p] \in Memories
         /\ Operating(p) /\ proc[p].block <= Len(Blocks(p))
         /\ Block(p) \in BlockRecords /\ Operation(p) \in [op : Ops, name : Names]
         /\ Key(p) \in Keys /\ Kind(p) \in Kinds /\ Name(p) \in Names
         /\ Key(p)[1] = Kind(p) /\ Key(p)[2] = Name(p)
         /\ Libsql(p) => Operation(p).op \in {"put", "read"}
<1>1. Typed /\ Fine(p) /\ Operating(p) /\ proc[p] \in Progress /\ cache[p] \in Memories
  BY DEF TablesIInv, Fine, Places, Typed
<1> QED BY <1>1, OperationTyped DEF Operating

LEMMA PlacesStay ==
  ASSUME WellFormed, TablesIInv, NEW p \in Processes, proc[p].pc # "next", set' = set,
         proc'[p].block = proc[p].block,
         proc'[p].pc = "next" \/ (proc'[p].op = proc[p].op /\ InTransaction(p)' = InTransaction(p))
  PROVE  Places(p)'
<1>1. Operating(p) /\ Places(p)
  BY DEF TablesIInv, Fine, Places
<1> QED BY <1>1, SamePlace DEF Places, Operating

LEMMA BeginFine ==
  ASSUME WellFormed, TablesIInv, NEW p \in Processes, Begin(p)
  PROVE  Keeps(p) /\ Fine(p)'
<1>1. Typed /\ Fine(p) /\ proc[p] \in Progress /\ file \in Databases
  BY DEF TablesIInv, Typed, Sound
<1>2. PICK q : q = [proc[p] EXCEPT !.draft = file, !.base = file]
  OBVIOUS
<1>3. /\ q \in Progress /\ q.draft = file /\ q.base = file /\ q.pending = proc[p].pending
      /\ q.pc = "next" /\ q.block = proc[p].block
  BY <1>1, <1>2 DEF Progress, Begin
<1>4. /\ proc' = [proc EXCEPT ![p] = q] /\ ~InTransaction(p)
      /\ Libsql(p) => locked = Missing
      /\ locked' = IF Libsql(p) THEN p ELSE locked
      /\ set' = set /\ file' = file /\ cache' = cache
  BY <1>2 DEF Begin, Libsql
<1>5. Keeps(p) /\ Transacting(p)' /\ View(p)' = View(p) /\ proc'[p] = q
  BY <1>3, <1>4, BeginningStep
<1>6. Remembers(p)'
  BY <1>3, <1>4, <1>5, MemoryStays, GrowsReflexive DEF Begin
<1>7. Places(p)' /\ Finds(p)'
  BY <1>1, <1>3, <1>4, <1>5 DEF Fine, Places, Finds, Blocks
<1> QED BY <1>5, <1>6, <1>7 DEF Fine

LEMMA EndBlockFine ==
  ASSUME WellFormed, TablesIInv, NEW p \in Processes, EndBlock(p)
  PROVE  Keeps(p) /\ Fine(p)'
<1> DEFINE commits == Block(p).ends = "commit"
           wrote == commits /\ InTransaction(p) /\ locked = p
<1>1. /\ Typed /\ Fine(p) /\ proc[p] \in Progress /\ cache \in [Processes -> Memories]
      /\ Sound(set.hash, file)
  BY DEF TablesIInv, Typed
<1>2. PICK q : q = AfterBlock(p, "done")
  OBVIOUS
<1>3. /\ q \in Progress /\ q.draft = Missing /\ q.pending = {} /\ q.pc = "next" /\ q.block = proc[p].block + 1
  <2>1. PICK done \in Results : done = "done"
    BY DEF Results
  <2>2. PICK results \in Seq(Results) : results = Append(proc[p].results, done)
    BY <1>1, AppendProperties DEF Progress
  <2> HIDE DEF commits, wrote
  <2>3. PICK one \in Nat \ {0}, block \in Nat \ {0}, next \in PCs :
          one = 1 /\ block = proc[p].block + 1 /\ next = "next"
    <3>1. 1 \in Nat \ {0} /\ proc[p].block + 1 \in Nat \ {0} /\ "next" \in PCs
      BY <1>1 DEF Progress, PCs
    <3> QED BY <3>1
  <2>4. q = [proc[p] EXCEPT !.pc = next, !.block = block, !.op = one, !.draft = Missing, !.base = Missing,
                            !.pending = {}, !.results = results]
    BY <2>1, <2>2, <2>3, <1>2 DEF AfterBlock
  <2> QED BY <2>3, <2>4, <1>1 DEF Progress
<1>4. /\ proc' = [proc EXCEPT ![p] = q] /\ locked' = Unlocked(p) /\ set' = set
      /\ file' = IF wrote THEN proc[p].draft ELSE file
      /\ cache' = AfterEnd(p, commits)
      /\ proc[p].pc = "next" /\ proc[p].block <= Len(Blocks(p))
  BY <1>2 DEF EndBlock
<1>5. wrote => Sound(set.hash, file') /\ Grows(file, file')
  BY <1>1, <1>4 DEF Fine, Transacting
<1>6. \A t \in proc[p].pending : View(p).registry[t[1]] = t[2] /\ t[2] \in View(p).tables
  BY <1>1, <1>4 DEF Fine, Remembers
<1>7. Libsql(p) \/ proc[p].pending = {}
  BY <1>1 DEF Fine, Transacting
<1>8. /\ cache' \in [Processes -> Memories] /\ \A o \in Processes : o # p => cache'[o] = cache[o]
      /\ Holds(p, file)'
  <2>1. CASE wrote
    <3>1. file' = View(p) /\ cache' = AfterEnd(p, TRUE)
      BY <2>1, <1>4 DEF View
    <3>2. Holds(p, View(p))
      BY <1>1 DEF Fine, Remembers
    <3> QED BY <3>1, <3>2, <1>4, <1>6, <1>7, CommittedMemory
  <2>2. CASE ~commits
    <3>1. file' = file /\ cache' = cache
      BY <2>2, <1>4 DEF AfterEnd
    <3> QED BY <3>1, <1>1, <1>4 DEF Fine, Remembers, Holds, Libsql
  <2>3. CASE commits /\ ~wrote
    <3>1. file' = file /\ cache' = AfterEnd(p, TRUE)
      BY <2>3, <1>4
    <3>2. Holds(p, file) /\ proc[p].pending = {}
      BY <2>3, <1>1 DEF Fine, Remembers, Transacting
    <3> QED BY <3>1, <3>2, <1>4, CommittedMemory
  <2> QED BY <2>1, <2>2, <2>3
<1> HIDE DEF commits, wrote
<1>9. file' = file \/ (locked = p /\ Sound(set.hash, file') /\ Grows(file, file'))
  BY <1>4, <1>5 DEF wrote
<1>10. Keeps(p) /\ Transacting(p)' /\ ~InTransaction(p)' /\ proc'[p] = q
  BY <1>3, <1>4, <1>8, <1>9, EndingStep
<1>11. Remembers(p)'
  BY <1>3, <1>8, <1>10, MemoryAfterEnd
<1>12. Places(p)'
  <2>1. Blocks(p)' = Blocks(p) /\ Len(Blocks(p)) \in Nat
    BY <1>1, <1>4, SetupTyped DEF Blocks, SetupRecords
  <2> QED BY <2>1, <1>1, <1>3, <1>4, <1>10 DEF Places, Progress
<1>13. Finds(p)'
  BY <1>3, <1>10 DEF Finds
<1> QED BY <1>10, <1>11, <1>12, <1>13 DEF Fine

LEMMA BusyFine ==
  ASSUME WellFormed, TablesIInv, NEW p \in Processes, Busy(p)
  PROVE  Keeps(p) /\ Fine(p)'
<1>1. proc[p].pc # "next" /\ Throw(p, "busy")
  BY DEF Busy, Writes
<1>2. PICK why \in Results : why = "busy"
  BY DEF Results
<1> QED BY <1>1, <1>2, AtWork, ThrowFine

LEMMA NoSuchTableFine ==
  ASSUME WellFormed, TablesIInv, NEW p \in Processes, NoSuchTable(p)
  PROVE  Keeps(p) /\ Fine(p)'
<1>1. proc[p].pc # "next" /\ Throw(p, "no such table")
  BY DEF NoSuchTable
<1>2. PICK why \in Results : why = "no such table"
  BY DEF Results
<1> QED BY <1>1, <1>2, AtWork, ThrowFine

(* An operation starts with the table that is remembered, if any, and for
   a write in libSQL within a transaction. *)
LEMMA StartFine ==
  ASSUME WellFormed, TablesIInv, NEW p \in Processes, Start(p)
  PROVE  Keeps(p) /\ Fine(p)'
<1> DEFINE o == Operation(p)
           own == Libsql(p) /\ ~InTransaction(p) /\ (o.op = "put" \/ Remembered(p) = Missing)
<1>1. /\ Typed /\ Fine(p) /\ proc[p] \in Progress /\ cache[p] \in Memories /\ file \in Databases
      /\ cache \in [Processes -> Memories]
  BY DEF TablesIInv, Typed, Sound
<1>2. /\ proc[p].pc = "next" /\ proc[p].block <= Len(Blocks(p)) /\ proc[p].op <= Len(Block(p).ops)
      /\ Block(p).ends # "none" => InTransaction(p)
      /\ own => locked = Missing
      /\ locked' = IF own THEN p ELSE locked
      /\ set' = set /\ file' = file /\ cache' = cache
  BY DEF Start
<1>3. /\ Key(p) \in Keys /\ Kind(p) = KindOf(o) /\ (Libsql(p) => o.op \in {"put", "read"})
      /\ Remembered(p) \in Tables \cup {Missing}
  <2>1. Key(p) \in Keys /\ (Libsql(p) => o.op \in {"put", "read"})
    BY <1>1, <1>2, OperationTyped
  <2> QED BY <2>1, <1>1 DEF Kind, Remembered, Memories
<1>4. PICK one \in Nat \ {0}, next \in PCs, draft \in Databases \cup {Missing}, base \in Databases \cup {Missing} :
        /\ one = 1
        /\ next = IF KindOf(o) = "search" THEN "schema" ELSE IF Remembered(p) = Missing THEN "look" ELSE "create"
        /\ draft = (IF own THEN file ELSE proc[p].draft) /\ base = (IF own THEN file ELSE proc[p].base)
  <2>1. (IF KindOf(o) = "search" THEN "schema" ELSE IF Remembered(p) = Missing THEN "look" ELSE "create") \in PCs
    BY DEF PCs
  <2>2. /\ (IF own THEN file ELSE proc[p].draft) \in Databases \cup {Missing}
        /\ (IF own THEN file ELSE proc[p].base) \in Databases \cup {Missing}
    BY <1>1 DEF Progress
  <2> QED BY <2>1, <2>2
<1>5. PICK q : q = [proc[p] EXCEPT !.candidate = one, !.attempt = one, !.table = Remembered(p), !.draft = draft,
                                   !.base = base, !.pc = next]
  OBVIOUS
<1>6. /\ q \in Progress /\ q.draft = draft /\ q.base = base /\ q.pending = proc[p].pending
      /\ q.pc = next /\ q.block = proc[p].block /\ q.op = proc[p].op /\ q.table = Remembered(p)
  BY <1>1, <1>3, <1>5 DEF Progress
<1>7. proc' = [proc EXCEPT ![p] = q]
  <2>1. proc' = [proc EXCEPT ![p] =
          [proc[p] EXCEPT !.candidate = 1, !.attempt = 1, !.table = Remembered(p),
             !.draft = IF own THEN file ELSE proc[p].draft, !.base = IF own THEN file ELSE proc[p].base,
             !.pc = IF KindOf(o) = "search" THEN "schema" ELSE IF Remembered(p) = Missing THEN "look" ELSE "create"]]
    BY DEF Start
  <2> HIDE DEF own, o
  <2> QED BY <2>1, <1>4, <1>5
<1>8. /\ Keeps(p) /\ Transacting(p)' /\ View(p)' = View(p) /\ proc'[p] = q
      /\ own => InTransaction(p)'
      /\ ~own => InTransaction(p)' = InTransaction(p)
  <2>1. CASE own
    <3>1. /\ ~InTransaction(p) /\ Libsql(p) /\ locked = Missing /\ locked' = p
          /\ q.draft = file /\ q.base = file
      BY <2>1, <1>2, <1>4, <1>6
    <3> QED BY <3>1, <2>1, <1>2, <1>6, <1>7, BeginningStep
  <2>2. CASE ~own
    <3>1. locked' = locked /\ q.draft = proc[p].draft /\ q.base = proc[p].base
      BY <2>2, <1>2, <1>4, <1>6
    <3>2. q.pending # {} => Libsql(p) /\ InTransaction(p)
      BY <1>1, <1>6 DEF Fine, Transacting
    <3> QED BY <3>1, <3>2, <2>2, <1>1, <1>2, <1>6, <1>7, ReadingStep
  <2> QED BY <2>1, <2>2
<1> HIDE DEF own
<1>9. Remembers(p)'
  BY <1>2, <1>6, <1>8, MemoryStays, GrowsReflexive
<1>10. /\ Libsql(p)' = Libsql(p) /\ Blocks(p)' = Blocks(p) /\ Block(p)' = Block(p)
       /\ Operation(p)' = o /\ Kind(p)' = Kind(p) /\ Key(p)' = Key(p) /\ Remembered(p)' = Remembered(p)
  <2>1. proc'[p].block = proc[p].block /\ proc'[p].op = proc[p].op
    BY <1>6, <1>8
  <2> QED BY <2>1, <1>2, SamePlace DEF Remembered
<1>11. InTransaction(p) => InTransaction(p)'
  BY <1>8
<1>12. Places(p)'
  <2>1. Libsql(p) /\ o.op = "put" => InTransaction(p)'
    BY <1>8, <1>11 DEF own
  <2>2. Operating(p)'
    BY <2>1, <1>2, <1>6, <1>8, <1>10, <1>11 DEF Operating
  <2>3. Places(p)
    BY <1>1 DEF Fine
  <2> QED BY <2>2, <2>3, <1>6, <1>8, <1>10 DEF Places
<1>13. Finds(p)'
  <2>1. CASE next = "schema"
    <3>1. ~Libsql(p)
      BY <2>1, <1>3, <1>4 DEF KindOf
    <3> QED BY <2>1, <3>1, <1>6, <1>8, <1>10 DEF Finds
  <2>2. CASE next = "look"
    <3>1. Remembered(p) = Missing
      BY <2>2, <1>4
    <3>2. Libsql(p) => InTransaction(p)'
      BY <3>1, <1>8, <1>11 DEF own
    <3> QED BY <2>2, <3>2, <1>6, <1>8, <1>10 DEF Finds
  <2>3. CASE next = "create"
    <3>1. Remembered(p) # Missing
      BY <2>3, <1>4
    <3>2. View(p).registry[Key(p)] = Remembered(p) /\ Remembered(p) \in Tables
      BY <3>1, <1>1, <1>3 DEF Fine, Remembers, Holds, Remembered
    <3> QED BY <2>3, <3>2, <1>6, <1>8, <1>10 DEF Finds
  <2> QED BY <2>1, <2>2, <2>3, <1>4
<1> QED BY <1>8, <1>9, <1>12, <1>13 DEF Fine

(* What p remembers once it has resolved a name. *)
LEMMA ResolutionMemory ==
  ASSUME WellFormed, TablesIInv, NEW p \in Processes, proc[p].pc # "next", NEW t \in Tables,
         cache' = AfterResolution(p, t)
  PROVE  /\ cache' \in [Processes -> Memories] /\ \A o \in Processes : o # p => cache'[o] = cache[o]
         /\ cache'[p].initialized = cache[p].initialized
         /\ IF MayRemember(p) /\ ~Libsql(p)
            THEN cache'[p].resolved = [cache[p].resolved EXCEPT ![Key(p)] = t]
            ELSE cache'[p].resolved = cache[p].resolved
<1>1. cache \in [Processes -> Memories] /\ Key(p) \in Keys
  BY AtWork DEF Typed
<1>2. CASE MayRemember(p) /\ ~Libsql(p)
  <2>1. PICK c : c = [cache[p] EXCEPT !.resolved = [cache[p].resolved EXCEPT ![Key(p)] = t]]
    OBVIOUS
  <2>2. /\ c \in Memories /\ c.initialized = cache[p].initialized
        /\ c.resolved = [cache[p].resolved EXCEPT ![Key(p)] = t]
    BY <2>1, <1>1 DEF Memories
  <2>3. cache' = [cache EXCEPT ![p] = c]
    BY <2>1, <1>2 DEF AfterResolution
  <2> QED BY <2>2, <2>3, <1>1, <1>2
<1>3. CASE ~(MayRemember(p) /\ ~Libsql(p))
  BY <1>1, <1>3 DEF AfterResolution
<1> QED BY <1>2, <1>3

LEMMA PendingTyped ==
  ASSUME WellFormed, TablesIInv, NEW p \in Processes, proc[p].pc # "next", NEW t \in Tables,
         Libsql(p) => InTransaction(p)
  PROVE  /\ Pending(p, t) \in SUBSET (Keys \X Tables)
         /\ Pending(p, t) # {} => Libsql(p) /\ InTransaction(p)
<1>1. proc[p].pending \in SUBSET (Keys \X Tables) /\ Key(p) \in Keys /\ Transacting(p)
  BY AtWork DEF Progress, Fine
<1> QED BY <1>1 DEF Pending, Transacting

LEMMA ResolvedFine ==
  ASSUME WellFormed, TablesIInv, NEW p \in Processes, proc[p].pc \in {"look", "register"}, NEW t \in Tables,
         Keeps(p), Transacting(p)', InTransaction(p)' = InTransaction(p), Grows(View(p), View(p)'),
         View(p)'.registry[Key(p)] = t, cache' = AfterResolution(p, t),
         proc'[p].pc = "create", proc'[p].table = t, proc'[p].pending = Pending(p, t),
         proc'[p].block = proc[p].block, proc'[p].op = proc[p].op
  PROVE  Fine(p)'
<1>1. proc[p].pc # "next" /\ proc[p].pc # "create"
  OBVIOUS
<1>2. /\ Typed /\ Fine(p) /\ Key(p) \in Keys /\ set' = set /\ Grows(file, file')
      /\ proc[p].pending \in SUBSET (Keys \X Tables) /\ cache[p] \in Memories
  BY <1>1, AtWork DEF Keeps, Progress
<1>3. Libsql(p) => InTransaction(p)
  BY <1>2 DEF Fine, Finds
<1>4. /\ cache'[p].initialized = cache[p].initialized
      /\ IF ~InTransaction(p) /\ ~Libsql(p)
         THEN cache'[p].resolved = [cache[p].resolved EXCEPT ![Key(p)] = t]
         ELSE cache'[p].resolved = cache[p].resolved
  BY <1>1, ResolutionMemory DEF MayRemember
<1>5. /\ Libsql(p)' = Libsql(p) /\ Key(p)' = Key(p) /\ Kind(p)' = Kind(p)
  BY <1>2, SamePlace
<1>6. Holds(p, file') /\ Holds(p, View(p)')
  BY <1>2, HoldsStays DEF Fine, Remembers
<1>7. Holds(p, file)' /\ Holds(p, View(p))'
  <2>1. CASE ~InTransaction(p) /\ ~Libsql(p)
    <3>1. View(p)' = file'
      BY <2>1 DEF View
    <3>2. /\ cache'[p].resolved[Key(p)] = t
          /\ \A k \in Keys : k # Key(p) => cache'[p].resolved[k] = cache[p].resolved[k]
      BY <2>1, <1>2, <1>4 DEF Memories
    <3>3. \A k \in Keys : cache'[p].resolved[k] # Missing => file'.registry[k] = cache'[p].resolved[k]
      BY <3>1, <3>2, <1>6 DEF Holds
    <3> QED BY <3>1, <3>3, <2>1, <1>4, <1>5, <1>6 DEF Holds
  <2>2. CASE ~(~InTransaction(p) /\ ~Libsql(p))
    <3>1. cache'[p].resolved = cache[p].resolved
      BY <2>2, <1>4
    <3> QED BY <3>1, <1>4, <1>5, <1>6 DEF Holds
  <2> QED BY <2>1, <2>2
<1>8. \A e \in proc[p].pending : View(p)'.registry[e[1]] = e[2] /\ e[2] \in View(p)'.tables
  <2> SUFFICES ASSUME NEW e \in proc[p].pending
               PROVE  View(p)'.registry[e[1]] = e[2] /\ e[2] \in View(p)'.tables
    OBVIOUS
  <2>1. e[1] \in Keys /\ e[2] \in Tables /\ e[2] # Missing
    BY <1>2 DEF WellFormed
  <2> QED BY <2>1, <1>1, <1>2 DEF Fine, Remembers, Grows
<1>9. \A e \in proc'[p].pending : e \in proc[p].pending \/ e = <<Key(p), t>>
  BY DEF Pending
<1>10. Remembers(p)'
  BY <1>7, <1>8, <1>9 DEF Remembers
<1>11. Places(p)'
  BY <1>1, <1>2, PlacesStay
<1>12. Finds(p)'
  BY <1>3, <1>5 DEF Finds
<1> QED BY <1>10, <1>11, <1>12 DEF Fine

LEMMA LookFine ==
  ASSUME WellFormed, TablesIInv, NEW p \in Processes, Look(p)
  PROVE  Keeps(p) /\ Fine(p)'
<1> DEFINE t == View(p).registry[Key(p)]
<1>1. proc[p].pc = "look" /\ set' = set /\ file' = file /\ locked' = locked
  BY DEF Look
<1>2. /\ Typed /\ Fine(p) /\ proc[p] \in Progress /\ Key(p) \in Keys /\ cache \in [Processes -> Memories]
      /\ Libsql(p) => InTransaction(p)
  BY <1>1, AtWork DEF Typed, Fine, Finds
<1>3. t \in Tables \cup {Missing}
  BY <1>2, ViewSound DEF Databases
<1>4. CASE t = Missing
  <2>1. PICK one \in Nat \ {0}, claim \in PCs : one = 1 /\ claim = "claim"
    <3>1. 1 \in Nat \ {0} /\ "claim" \in PCs
      BY DEF PCs
    <3> QED BY <3>1
  <2>2. PICK q : q = [proc[p] EXCEPT !.pc = claim, !.candidate = one]
    OBVIOUS
  <2>3. /\ q \in Progress /\ q.draft = proc[p].draft /\ q.base = proc[p].base /\ q.pending = proc[p].pending
        /\ q.block = proc[p].block /\ q.op = proc[p].op /\ q.pc = "claim"
    BY <2>1, <2>2, <1>2 DEF Progress
  <2>4. proc' = [proc EXCEPT ![p] = q] /\ cache' = cache
    BY <2>1, <2>2, <1>4 DEF Look, At
  <2>5. q.pending # {} => Libsql(p) /\ InTransaction(p)
    BY <2>3, <1>2 DEF Fine, Transacting
  <2>6. /\ Keeps(p) /\ Transacting(p)' /\ InTransaction(p)' = InTransaction(p) /\ View(p)' = View(p) /\ proc'[p] = q
    BY <2>3, <2>4, <2>5, <1>1, <1>2, ReadingStep
  <2>7. Remembers(p)'
    BY <2>3, <2>4, <2>6, <1>1, MemoryStays, GrowsReflexive
  <2>8. Places(p)'
    BY <2>3, <2>6, <1>1, PlacesStay
  <2>9. Libsql(p)' = Libsql(p)
    BY <1>1 DEF Libsql
  <2>10. Finds(p)'
    BY <2>3, <2>6, <2>9, <1>2 DEF Finds
  <2> QED BY <2>6, <2>7, <2>8, <2>10 DEF Fine
<1>5. CASE t # Missing
  <2>1. t \in Tables
    BY <1>3, <1>5
  <2>2. PICK pending \in SUBSET (Keys \X Tables), create \in PCs : pending = Pending(p, t) /\ create = "create"
    <3>1. Pending(p, t) \in SUBSET (Keys \X Tables) /\ "create" \in PCs
      BY <2>1, <1>1, <1>2, PendingTyped DEF PCs
    <3> QED BY <3>1
  <2> HIDE DEF t
  <2>3. PICK q : q = [proc[p] EXCEPT !.pc = create, !.table = t, !.pending = pending]
    OBVIOUS
  <2>4. /\ q \in Progress /\ q.draft = proc[p].draft /\ q.base = proc[p].base /\ q.pending = pending
        /\ q.block = proc[p].block /\ q.op = proc[p].op /\ q.pc = "create" /\ q.table = t
    BY <2>1, <2>2, <2>3, <1>2 DEF Progress
  <2>5. proc' = [proc EXCEPT ![p] = q] /\ cache' = AfterResolution(p, t)
    BY <2>2, <2>3, <1>5 DEF Look, Resolved, t
  <2>6. /\ cache' \in [Processes -> Memories] /\ \A o \in Processes : o # p => cache'[o] = cache[o]
    BY <2>1, <2>5, <1>1, ResolutionMemory
  <2>7. q.pending # {} => Libsql(p) /\ InTransaction(p)
    BY <2>1, <2>2, <2>4, <1>1, <1>2, PendingTyped
  <2>8. /\ Keeps(p) /\ Transacting(p)' /\ InTransaction(p)' = InTransaction(p) /\ View(p)' = View(p) /\ proc'[p] = q
    BY <2>4, <2>5, <2>6, <2>7, <1>1, ReadingStep
  <2>9. View(p)'.registry[Key(p)] = t
    BY <2>8 DEF t
  <2> QED BY <2>1, <2>2, <2>4, <2>5, <2>8, <2>9, <1>1, ResolvedFine, GrowsReflexive
<1> QED BY <1>4, <1>5

LEMMA CandidateTyped ==
  ASSUME WellFormed, TablesIInv, NEW p \in Processes, proc[p].pc # "next"
  PROVE  LET t == Candidate(Kind(p), Name(p), proc[p].candidate) IN
         TableOf(set.hash, Key(p), t) /\ t[3] = proc[p].candidate
<1>1. /\ Kind(p) \in Kinds /\ Name(p) \in Names /\ proc[p].candidate \in Nat \ {0}
      /\ Key(p)[1] = Kind(p) /\ Key(p)[2] = Name(p)
  BY AtWork DEF Progress
<1>2. set.hash[Name(p)] \in Hashes
  BY <1>1, SetupHash
<1> QED BY <1>1, <1>2 DEF Candidate, TableOf, Tables

LEMMA ClaimFine ==
  ASSUME WellFormed, TablesIInv, NEW p \in Processes, Claim(p)
  PROVE  Keeps(p) /\ Fine(p)'
<1> DEFINE t == Candidate(Kind(p), Name(p), proc[p].candidate)
<1>1. proc[p].pc = "claim" /\ set' = set /\ file' = file /\ locked' = locked /\ cache' = cache
  BY DEF Claim
<1>2. /\ Typed /\ Fine(p) /\ proc[p] \in Progress /\ Key(p) \in Keys /\ cache \in [Processes -> Memories]
      /\ Libsql(p) => InTransaction(p)
  BY <1>1, AtWork DEF Typed, Fine, Finds
<1>3. TableOf(set.hash, Key(p), t) /\ t[3] = proc[p].candidate /\ t \in Tables
  BY <1>1, CandidateTyped DEF TableOf
<1> HIDE DEF t
<1>4. PICK more \in Nat \ {0}, exists \in PCs, register \in PCs :
        more = proc[p].candidate + 1 /\ exists = "exists" /\ register = "register"
  <2>1. proc[p].candidate + 1 \in Nat \ {0} /\ "exists" \in PCs /\ "register" \in PCs
    BY <1>2 DEF Progress, PCs
  <2> QED BY <2>1
<1>5. PICK q : q = IF Claimed(View(p), t) THEN [proc[p] EXCEPT !.candidate = more]
                   ELSE IF proc[p].candidate = 1 THEN [proc[p] EXCEPT !.pc = register, !.table = t]
                   ELSE [proc[p] EXCEPT !.pc = exists, !.table = t]
  OBVIOUS
<1>6. /\ q \in Progress /\ q.draft = proc[p].draft /\ q.base = proc[p].base /\ q.pending = proc[p].pending
      /\ q.block = proc[p].block /\ q.op = proc[p].op
      /\ \/ q.pc = "claim"
         \/ q.pc = "register" /\ q.table = t /\ proc[p].candidate = 1
         \/ q.pc = "exists" /\ q.table = t
  BY <1>1, <1>2, <1>3, <1>4, <1>5 DEF Progress
<1>7. proc' = [proc EXCEPT ![p] = q]
  BY <1>4, <1>5 DEF Claim, t
<1>8. q.pending # {} => Libsql(p) /\ InTransaction(p)
  BY <1>2, <1>6 DEF Fine, Transacting
<1>9. /\ Keeps(p) /\ Transacting(p)' /\ InTransaction(p)' = InTransaction(p) /\ View(p)' = View(p) /\ proc'[p] = q
  BY <1>1, <1>2, <1>6, <1>7, <1>8, ReadingStep
<1>10. Remembers(p)'
  BY <1>1, <1>6, <1>9, MemoryStays, GrowsReflexive
<1>11. Places(p)'
  BY <1>1, <1>6, <1>9, PlacesStay
<1>12. Libsql(p)' = Libsql(p) /\ Key(p)' = Key(p)
  BY <1>1, <1>6, <1>9, SamePlace
<1>13. Finds(p)'
  BY <1>1, <1>2, <1>3, <1>6, <1>9, <1>12 DEF Finds
<1> QED BY <1>9, <1>10, <1>11, <1>13 DEF Fine

LEMMA ExistsFine ==
  ASSUME WellFormed, TablesIInv, NEW p \in Processes, Exists(p)
  PROVE  Keeps(p) /\ Fine(p)'
<1>1. proc[p].pc = "exists" /\ set' = set /\ file' = file /\ locked' = locked /\ cache' = cache
  BY DEF Exists
<1>2. /\ Typed /\ Fine(p) /\ proc[p] \in Progress /\ cache \in [Processes -> Memories]
      /\ Libsql(p) => InTransaction(p)
      /\ TableOf(set.hash, Key(p), proc[p].table)
  BY <1>1, AtWork DEF Typed, Fine, Finds
<1>3. PICK more \in Nat \ {0}, claim \in PCs, register \in PCs :
        more = proc[p].candidate + 1 /\ claim = "claim" /\ register = "register"
  <2>1. proc[p].candidate + 1 \in Nat \ {0} /\ "claim" \in PCs /\ "register" \in PCs
    BY <1>2 DEF Progress, PCs
  <2> QED BY <2>1
<1>4. PICK q : q = IF Stray(View(p), proc[p].table) THEN [proc[p] EXCEPT !.pc = claim, !.candidate = more]
                   ELSE [proc[p] EXCEPT !.pc = register]
  OBVIOUS
<1>5. /\ q \in Progress /\ q.draft = proc[p].draft /\ q.base = proc[p].base /\ q.pending = proc[p].pending
      /\ q.block = proc[p].block /\ q.op = proc[p].op
      /\ \/ q.pc = "claim"
         \/ q.pc = "register" /\ q.table = proc[p].table /\ proc[p].table \notin View(p).tables
  BY <1>1, <1>2, <1>3, <1>4 DEF Progress, Stray
<1>6. proc' = [proc EXCEPT ![p] = q]
  BY <1>3, <1>4 DEF Exists
<1>7. q.pending # {} => Libsql(p) /\ InTransaction(p)
  BY <1>2, <1>5 DEF Fine, Transacting
<1>8. /\ Keeps(p) /\ Transacting(p)' /\ InTransaction(p)' = InTransaction(p) /\ View(p)' = View(p) /\ proc'[p] = q
  BY <1>1, <1>2, <1>5, <1>6, <1>7, ReadingStep
<1>9. Remembers(p)'
  BY <1>1, <1>5, <1>8, MemoryStays, GrowsReflexive
<1>10. Places(p)'
  BY <1>1, <1>5, <1>8, PlacesStay
<1>11. Libsql(p)' = Libsql(p) /\ Key(p)' = Key(p)
  BY <1>1, <1>5, <1>8, SamePlace
<1>12. Finds(p)'
  BY <1>1, <1>2, <1>5, <1>8, <1>11 DEF Finds
<1> QED BY <1>8, <1>9, <1>10, <1>12 DEF Fine

LEMMA RegisterFine ==
  ASSUME WellFormed, TablesIInv, NEW p \in Processes, Register(p)
  PROVE  Keeps(p) /\ Fine(p)'
<1> DEFINE t == proc[p].table
           d == [View(p) EXCEPT !.registry[Key(p)] = t]
<1>1. /\ proc[p].pc = "register" /\ set' = set /\ cache' = AfterResolution(p, t)
      /\ Write(p, d, Resolved(p, t))
      /\ View(p).registry[Key(p)] = Missing /\ ~Claimed(View(p), t)
  BY DEF Register, Conflict
<1>2. /\ Typed /\ Fine(p) /\ proc[p] \in Progress /\ Key(p) \in Keys
      /\ Libsql(p) => InTransaction(p)
      /\ TableOf(set.hash, Key(p), t) /\ t \in Tables
      /\ t[3] = 1 \/ t \notin View(p).tables
  BY <1>1, AtWork DEF Fine, Finds, TableOf
<1>3. Sound(set.hash, View(p)) /\ View(p) \in Databases
  BY ViewSound
<1>4. Sound(set.hash, d) /\ Grows(View(p), d)
  BY <1>1, <1>2, <1>3, RegisterSound
<1>5. d.registry[Key(p)] = t
  BY <1>2, <1>3 DEF Databases
<1> HIDE DEF t, d
<1>6. PICK pending \in SUBSET (Keys \X Tables), create \in PCs : pending = Pending(p, t) /\ create = "create"
  <2>1. Pending(p, t) \in SUBSET (Keys \X Tables) /\ "create" \in PCs
    BY <1>1, <1>2, PendingTyped DEF PCs
  <2> QED BY <2>1
<1>7. PICK q : q = [proc[p] EXCEPT !.pc = create, !.table = t, !.pending = pending]
  OBVIOUS
<1>8. /\ q \in Progress /\ q.draft = proc[p].draft /\ q.base = proc[p].base /\ q.pending = pending
      /\ q.block = proc[p].block /\ q.op = proc[p].op /\ q.pc = "create" /\ q.table = t
  BY <1>2, <1>6, <1>7 DEF Progress
<1>9. Write(p, d, q)
  BY <1>1, <1>6, <1>7 DEF Resolved
<1>10. /\ cache' \in [Processes -> Memories] /\ \A o \in Processes : o # p => cache'[o] = cache[o]
  BY <1>1, <1>2, ResolutionMemory
<1>11. q.pending # {} => Libsql(p) /\ InTransaction(p)
  BY <1>1, <1>2, <1>6, <1>8, PendingTyped
<1>12. /\ Keeps(p) /\ Transacting(p)' /\ InTransaction(p)' = InTransaction(p) /\ View(p)' = d
       /\ proc'[p].pc = "create" /\ proc'[p].block = proc[p].block /\ proc'[p].op = proc[p].op
       /\ proc'[p].table = t /\ proc'[p].pending = Pending(p, t)
  BY <1>1, <1>4, <1>6, <1>8, <1>9, <1>10, <1>11, WritingStep
<1>13. View(p)'.registry[Key(p)] = t /\ Grows(View(p), View(p)')
  BY <1>4, <1>5, <1>12
<1> QED BY <1>1, <1>2, <1>12, <1>13, ResolvedFine

LEMMA RestartFine ==
  ASSUME WellFormed, TablesIInv, NEW p \in Processes, Restart(p)
  PROVE  Keeps(p) /\ Fine(p)'
<1>1. proc[p].pc = "register"
  BY DEF Restart
<1>2. /\ Typed /\ Fine(p) /\ proc[p] \in Progress /\ cache \in [Processes -> Memories]
      /\ Libsql(p) => InTransaction(p)
      /\ proc[p].block <= Len(Blocks(p))
  BY <1>1, AtWork DEF Typed, Fine, Finds
<1>3. CASE proc[p].attempt >= Attempts
  <2>1. PICK why \in Results : why = "conflict"
    BY DEF Results
  <2> QED BY <2>1, <1>2, <1>3, ThrowFine DEF Restart
<1>4. CASE ~(proc[p].attempt >= Attempts)
  <2>1. PICK one \in Nat \ {0}, more \in Nat \ {0}, look \in PCs :
          one = 1 /\ more = proc[p].attempt + 1 /\ look = "look"
    <3>1. 1 \in Nat \ {0} /\ proc[p].attempt + 1 \in Nat \ {0} /\ "look" \in PCs
      BY <1>2 DEF Progress, PCs
    <3> QED BY <3>1
  <2>2. PICK q : q = [proc[p] EXCEPT !.pc = look, !.candidate = one, !.attempt = more]
    OBVIOUS
  <2>3. /\ q \in Progress /\ q.draft = proc[p].draft /\ q.base = proc[p].base /\ q.pending = proc[p].pending
        /\ q.block = proc[p].block /\ q.op = proc[p].op /\ q.pc = "look"
    BY <2>1, <2>2, <1>2 DEF Progress
  <2>4. proc' = [proc EXCEPT ![p] = q] /\ set' = set /\ file' = file /\ locked' = locked /\ cache' = cache
    <3>1. [FromTheStart(p) EXCEPT !.attempt = @ + 1] = q
      BY <2>1, <2>2, <1>2 DEF FromTheStart, At, Progress
    <3> QED BY <3>1, <1>4 DEF Restart
  <2>5. q.pending # {} => Libsql(p) /\ InTransaction(p)
    BY <2>3, <1>2 DEF Fine, Transacting
  <2>6. /\ Keeps(p) /\ Transacting(p)' /\ InTransaction(p)' = InTransaction(p) /\ View(p)' = View(p) /\ proc'[p] = q
    BY <2>3, <2>4, <2>5, <1>2, ReadingStep
  <2>7. Remembers(p)'
    BY <2>3, <2>4, <2>6, <1>1, MemoryStays, GrowsReflexive
  <2>8. Places(p)'
    BY <2>3, <2>4, <2>6, <1>1, PlacesStay
  <2>9. Finds(p)'
    BY <2>3, <2>4, <2>6, <1>2 DEF Finds, Libsql
  <2> QED BY <2>6, <2>7, <2>8, <2>9 DEF Fine
<1> QED BY <1>3, <1>4

(* The table of a name is there, or a search's was remembered to be. *)
LEMMA CreatedFine ==
  ASSUME WellFormed, TablesIInv, NEW p \in Processes, proc[p].pc = "create",
         Keeps(p), Transacting(p)', InTransaction(p)' = InTransaction(p), Grows(View(p), View(p)'),
         proc[p].table \in View(p)'.tables \/ Kind(p) = "search",
         cache'[p].resolved = cache[p].resolved,
         \/ cache'[p].initialized = cache[p].initialized
         \/ /\ ~InTransaction(p) /\ proc[p].table \in View(p)'.tables
            /\ cache'[p].initialized = cache[p].initialized \cup {proc[p].table},
         proc'[p].pc = "run", proc'[p].table = proc[p].table, proc'[p].pending = proc[p].pending,
         proc'[p].block = proc[p].block, proc'[p].op = proc[p].op
  PROVE  Fine(p)'
<1>1. /\ Typed /\ Fine(p) /\ Key(p) \in Keys /\ set' = set /\ Grows(file, file') /\ cache[p] \in Memories
      /\ proc[p].pending \in SUBSET (Keys \X Tables)
      /\ Libsql(p) => Operation(p).op \in {"put", "read"}
  BY AtWork DEF Keeps, Progress
<1>2. /\ Libsql(p)' = Libsql(p) /\ Key(p)' = Key(p) /\ Kind(p)' = Kind(p)
  BY <1>1, SamePlace
<1>3. Kind(p) = "search" => ~Libsql(p)
  BY <1>1 DEF Kind, KindOf
<1>4. Holds(p, file') /\ Holds(p, View(p)')
  BY <1>1, HoldsStays DEF Fine, Remembers
<1>5. Holds(p, file)' /\ Holds(p, View(p))'
  <2>1. CASE cache'[p].initialized = cache[p].initialized
    BY <2>1, <1>2, <1>4 DEF Holds
  <2>2. CASE /\ ~InTransaction(p) /\ proc[p].table \in View(p)'.tables
             /\ cache'[p].initialized = cache[p].initialized \cup {proc[p].table}
    <3>1. View(p)' = file'
      BY <2>2 DEF View
    <3> QED BY <3>1, <2>2, <1>2, <1>4 DEF Holds
  <2> QED BY <2>1, <2>2
<1>6. \A e \in proc[p].pending : View(p)'.registry[e[1]] = e[2] /\ e[2] \in View(p)'.tables
  <2> SUFFICES ASSUME NEW e \in proc[p].pending
               PROVE  View(p)'.registry[e[1]] = e[2] /\ e[2] \in View(p)'.tables
    OBVIOUS
  <2>1. e[1] \in Keys /\ e[2] \in Tables /\ e[2] # Missing
    BY <1>1 DEF WellFormed
  <2>2. proc[p].table \in View(p)'.tables
    BY <1>1, <1>3 DEF Fine, Transacting
  <2> QED BY <2>1, <2>2, <1>1 DEF Fine, Remembers, Grows
<1>7. Remembers(p)'
  BY <1>5, <1>6 DEF Remembers
<1>8. Places(p)'
  BY <1>1, PlacesStay
<1>9. proc[p].table \in Tables /\ View(p)'.registry[Key(p)] = proc[p].table
  <2>1. proc[p].table \in Tables /\ View(p).registry[Key(p)] = proc[p].table
    BY <1>1 DEF Fine, Finds
  <2> QED BY <2>1, <1>1 DEF Grows, WellFormed
<1>10. Finds(p)'
  <2>1. Kind(p) = "collection" => proc[p].table \in View(p)'.tables
    OBVIOUS
  <2> QED BY <2>1, <1>2, <1>9 DEF Finds
<1> QED BY <1>7, <1>8, <1>10 DEF Fine

(* The processes that go from one statement to the next. *)
LEMMA MoveTyped ==
  ASSUME WellFormed, TablesIInv, NEW p \in Processes, NEW pc \in PCs
  PROVE  LET q == At(p, pc) IN
         /\ q \in Progress /\ q.draft = proc[p].draft /\ q.base = proc[p].base /\ q.pending = proc[p].pending
         /\ q.block = proc[p].block /\ q.op = proc[p].op /\ q.pc = pc /\ q.table = proc[p].table
         /\ q.pending # {} => Libsql(p) /\ InTransaction(p)
<1>1. proc[p] \in Progress /\ Transacting(p)
  BY DEF TablesIInv, Typed, Fine
<1> QED BY <1>1 DEF At, Progress, Transacting

LEMMA NextOperationTyped ==
  ASSUME WellFormed, TablesIInv, NEW p \in Processes
  PROVE  LET q == [At(p, "next") EXCEPT !.op = @ + 1] IN
         /\ q \in Progress /\ q.draft = proc[p].draft /\ q.base = proc[p].base /\ q.pending = proc[p].pending
         /\ q.block = proc[p].block /\ q.pc = "next"
         /\ q.pending # {} => Libsql(p) /\ InTransaction(p)
<1>1. proc[p] \in Progress /\ Transacting(p)
  BY DEF TablesIInv, Typed, Fine
<1>2. PICK more \in Nat \ {0}, next \in PCs : more = proc[p].op + 1 /\ next = "next"
  <2>1. proc[p].op + 1 \in Nat \ {0} /\ "next" \in PCs
    BY <1>1 DEF Progress, PCs
  <2> QED BY <2>1
<1>3. [At(p, "next") EXCEPT !.op = @ + 1] = [proc[p] EXCEPT !.pc = next, !.op = more]
  BY <1>1, <1>2 DEF At, Progress
<1> QED BY <1>1, <1>2, <1>3 DEF Progress, Transacting

(* What becomes of the table that p finds or makes. *)
LEMMA CreatedSound ==
  ASSUME WellFormed, TablesIInv, NEW p \in Processes, proc[p].pc \in {"create", "run"}
  PROVE  /\ proc[p].table \in Tables /\ Claimed(View(p), proc[p].table)
         /\ Sound(set.hash, Created(p)) /\ Grows(View(p), Created(p))
         /\ proc[p].table \in Created(p).tables
<1>1. proc[p].pc # "next"
  OBVIOUS
<1>2. /\ proc[p].table \in Tables /\ View(p).registry[Key(p)] = proc[p].table /\ Key(p) \in Keys
  BY <1>1, AtWork DEF Fine, Finds
<1>3. Claimed(View(p), proc[p].table)
  BY <1>2 DEF Claimed, Keys
<1>4. Sound(set.hash, View(p)) /\ View(p) \in Databases
  BY ViewSound
<1>5. Sound(set.hash, Created(p)) /\ Grows(View(p), Created(p))
  BY <1>2, <1>3, <1>4, CreateSound DEF Created
<1>6. proc[p].table \in Created(p).tables
  BY <1>4 DEF Created, Databases
<1> QED BY <1>2, <1>3, <1>5, <1>6

(* libSQL commits what it found for a read. *)
LEMMA LookedFine ==
  ASSUME WellFormed, TablesIInv, NEW p \in Processes, Create(p), ~Known(p, proc[p].table), Looked(p)
  PROVE  Keeps(p) /\ Fine(p)'
<1>1. proc[p].pc = "create"
  BY DEF Create
<1>2. /\ Typed /\ Fine(p) /\ proc[p] \in Progress /\ Operating(p) /\ cache[p] \in Memories
      /\ Libsql(p) /\ InTransaction(p) /\ Block(p).ends = "none" /\ Operation(p).op # "put"
      /\ View(p).registry[Key(p)] = proc[p].table /\ Key(p) \in Keys
  BY <1>1, AtWork DEF Looked, Fine, Finds
<1>3. /\ proc[p].table \in Tables /\ proc[p].table \in Created(p).tables
      /\ Sound(set.hash, Created(p)) /\ Grows(View(p), Created(p))
  BY <1>1, CreatedSound
<1>4. locked = p /\ Grows(file, View(p))
  BY <1>2 DEF Fine, Transacting, View
<1>5. file \in Databases /\ View(p) \in Databases /\ Created(p) \in Databases
  BY <1>3, ViewSound DEF TablesIInv, Sound
<1>6. Grows(file, Created(p))
  BY <1>3, <1>4, <1>5, GrowsTransitive
<1>7. PICK run \in PCs, none \in SUBSET (Keys \X Tables) : run = "run" /\ none = {}
  <2>1. "run" \in PCs /\ {} \in SUBSET (Keys \X Tables)
    BY DEF PCs
  <2> QED BY <2>1
<1>8. PICK q : q = [proc[p] EXCEPT !.pc = run, !.draft = Missing, !.base = Missing, !.pending = none]
  OBVIOUS
<1>9. /\ q \in Progress /\ q.draft = Missing /\ q.pending = {} /\ q.pc = "run" /\ q.table = proc[p].table
      /\ q.block = proc[p].block /\ q.op = proc[p].op
  BY <1>2, <1>7, <1>8 DEF Progress
<1>10. /\ proc' = [proc EXCEPT ![p] = q] /\ file' = Created(p) /\ locked' = Unlocked(p) /\ set' = set
       /\ cache' = AfterEnd(p, TRUE)
  <2>1. proc' = [proc EXCEPT ![p] = [At(p, "run") EXCEPT !.draft = Missing, !.base = Missing, !.pending = {}]]
    BY DEF Create
  <2>2. [At(p, "run") EXCEPT !.draft = Missing, !.base = Missing, !.pending = {}] = q
    BY <1>7, <1>8 DEF At
  <2> QED BY <2>1, <2>2 DEF Create
<1>11. Holds(p, Created(p))
  BY <1>2, <1>3, HoldsStays DEF Fine, Remembers
<1>12. \A e \in proc[p].pending : Created(p).registry[e[1]] = e[2] /\ e[2] \in Created(p).tables
  <2> SUFFICES ASSUME NEW e \in proc[p].pending
               PROVE  Created(p).registry[e[1]] = e[2] /\ e[2] \in Created(p).tables
    OBVIOUS
  <2>1. e[1] \in Keys /\ e[2] \in Tables /\ e[2] # Missing
    BY <1>2 DEF WellFormed, Progress
  <2> QED BY <2>1, <1>2, <1>3 DEF Fine, Remembers, Grows
<1>13. /\ cache' \in [Processes -> Memories] /\ \A o \in Processes : o # p => cache'[o] = cache[o]
       /\ Holds(p, file)'
  BY <1>2, <1>10, <1>11, <1>12, CommittedMemory
<1>14. Keeps(p) /\ Transacting(p)' /\ ~InTransaction(p)' /\ View(p)' = file' /\ proc'[p] = q
  BY <1>3, <1>4, <1>6, <1>9, <1>10, <1>13, EndingStep
<1>15. Remembers(p)'
  BY <1>9, <1>13, <1>14, MemoryAfterEnd
<1>16. /\ Libsql(p)' = Libsql(p) /\ Blocks(p)' = Blocks(p) /\ Block(p)' = Block(p)
       /\ Operation(p)' = Operation(p) /\ Kind(p)' = Kind(p) /\ Key(p)' = Key(p)
  BY <1>9, <1>10, <1>14, SamePlace
<1>17. Places(p)'
  BY <1>2, <1>9, <1>14, <1>16 DEF Fine, Places, Operating
<1>18. View(p)'.registry[Key(p)] = proc[p].table
  BY <1>2, <1>3, <1>10, <1>14 DEF Grows, WellFormed
<1>19. Finds(p)'
  BY <1>3, <1>9, <1>10, <1>14, <1>16, <1>18 DEF Finds
<1> QED BY <1>14, <1>15, <1>17, <1>19 DEF Fine

(* What p knows to be there is there. *)
LEMMA KnownIsThere ==
  ASSUME WellFormed, TablesIInv, NEW p \in Processes, proc[p].pc = "create", Known(p, proc[p].table)
  PROVE  proc[p].table \in View(p).tables
<1>1. Fine(p) /\ proc[p].table \in Tables /\ Key(p) \in Keys
  BY AtWork DEF Fine, Finds
<1>2. CASE Libsql(p)
  BY <1>1, <1>2 DEF Known, Remembered, Fine, Remembers, Holds, WellFormed
<1>3. CASE ~Libsql(p)
  BY <1>1, <1>3 DEF Known, Fine, Remembers, Holds
<1> QED BY <1>2, <1>3

LEMMA CreateFine ==
  ASSUME WellFormed, TablesIInv, NEW p \in Processes, Create(p)
  PROVE  Keeps(p) /\ Fine(p)'
<1> DEFINE t == proc[p].table
<1>1. proc[p].pc = "create" /\ set' = set
  BY DEF Create
<1>2. Typed /\ Fine(p) /\ cache \in [Processes -> Memories] /\ t \in Tables
  BY <1>1, AtWork DEF Typed, Fine, Finds
<1>3. PICK run \in PCs : run = "run"
  BY DEF PCs
<1>4. PICK q : q = At(p, run)
  OBVIOUS
<1>5. /\ q \in Progress /\ q.draft = proc[p].draft /\ q.base = proc[p].base /\ q.pending = proc[p].pending
      /\ q.block = proc[p].block /\ q.op = proc[p].op /\ q.pc = "run" /\ q.table = t
      /\ q.pending # {} => Libsql(p) /\ InTransaction(p)
  BY <1>3, <1>4, MoveTyped
<1>6. [proc[p] EXCEPT !.pc = "run"] = q
  BY <1>3, <1>4 DEF At
<1>7. CASE Known(p, t)
  <2>1. proc' = [proc EXCEPT ![p] = q] /\ file' = file /\ locked' = locked /\ cache' = cache
    <3>1. proc' = [proc EXCEPT ![p].pc = "run"] /\ file' = file /\ locked' = locked /\ cache' = cache
      BY <1>7 DEF Create
    <3> QED BY <3>1, <1>6
  <2>2. /\ Keeps(p) /\ Transacting(p)' /\ InTransaction(p)' = InTransaction(p) /\ View(p)' = View(p) /\ proc'[p] = q
    BY <2>1, <1>1, <1>2, <1>5, ReadingStep
  <2>3. t \in View(p)'.tables /\ Grows(View(p), View(p)')
    BY <2>2, <1>1, <1>7, KnownIsThere, GrowsReflexive
  <2> QED BY <2>1, <2>2, <2>3, <1>1, <1>5, CreatedFine
<1>8. CASE ~Known(p, t) /\ Looked(p)
  BY <1>8, LookedFine
<1>9. CASE ~Known(p, t) /\ ~Looked(p)
  <2>1. /\ cache' = AfterCreate(p, t)
        /\ IF t \in View(p).tables
           THEN proc' = [proc EXCEPT ![p].pc = "run"] /\ file' = file /\ locked' = locked
           ELSE Write(p, Created(p), At(p, "run"))
    BY <1>9 DEF Create
  <2>2. /\ cache' \in [Processes -> Memories] /\ \A o \in Processes : o # p => cache'[o] = cache[o]
        /\ cache'[p].resolved = cache[p].resolved
        /\ \/ cache'[p].initialized = cache[p].initialized
           \/ ~InTransaction(p) /\ cache'[p].initialized = cache[p].initialized \cup {t}
    <3>1. CASE Libsql(p) \/ ~MayRemember(p)
      BY <3>1, <2>1, <1>2 DEF AfterCreate
    <3>2. CASE ~(Libsql(p) \/ ~MayRemember(p))
      <4>1. PICK c : c = [cache[p] EXCEPT !.initialized = cache[p].initialized \cup {t}]
        OBVIOUS
      <4>2. /\ c \in Memories /\ c.resolved = cache[p].resolved
            /\ c.initialized = cache[p].initialized \cup {t}
        BY <4>1, <1>2 DEF Memories
      <4>3. cache' = [cache EXCEPT ![p] = c]
        BY <4>1, <3>2, <2>1 DEF AfterCreate
      <4> QED BY <4>2, <4>3, <3>2, <1>2 DEF MayRemember
    <3> QED BY <3>1, <3>2
  <2>3. CASE t \in View(p).tables
    <3>1. proc' = [proc EXCEPT ![p] = q] /\ file' = file /\ locked' = locked
      BY <2>1, <2>3, <1>6
    <3>2. /\ Keeps(p) /\ Transacting(p)' /\ InTransaction(p)' = InTransaction(p) /\ View(p)' = View(p) /\ proc'[p] = q
      BY <3>1, <2>2, <1>1, <1>5, ReadingStep
    <3>3. t \in View(p)'.tables /\ Grows(View(p), View(p)')
      BY <3>2, <2>3, GrowsReflexive
    <3> QED BY <3>2, <3>3, <2>2, <1>1, <1>5, CreatedFine
  <2>4. CASE t \notin View(p).tables
    <3>1. Write(p, Created(p), q)
      BY <2>1, <2>4, <1>3, <1>4
    <3>2. /\ Sound(set.hash, Created(p)) /\ Grows(View(p), Created(p)) /\ t \in Created(p).tables
      BY <1>1, CreatedSound
    <3>3. /\ Keeps(p) /\ Transacting(p)' /\ InTransaction(p)' = InTransaction(p) /\ View(p)' = Created(p)
          /\ proc'[p].pc = "run" /\ proc'[p].block = proc[p].block /\ proc'[p].op = proc[p].op
          /\ proc'[p].table = t /\ proc'[p].pending = proc[p].pending
      BY <3>1, <3>2, <2>2, <1>1, <1>5, WritingStep
    <3>4. t \in View(p)'.tables /\ Grows(View(p), View(p)')
      BY <3>2, <3>3
    <3> QED BY <3>3, <3>4, <2>2, <1>1, CreatedFine
  <2> QED BY <2>3, <2>4
<1> QED BY <1>7, <1>8, <1>9

LEMMA PeekFine ==
  ASSUME WellFormed, TablesIInv, NEW p \in Processes, Peek(p)
  PROVE  Keeps(p) /\ Fine(p)'
<1> DEFINE t == proc[p].table
<1>1. /\ proc[p].pc = "create" /\ ~Libsql(p)
      /\ set' = set /\ file' = file /\ locked' = locked /\ cache' = cache
  BY DEF Peek
<1>2. Typed /\ Fine(p) /\ cache \in [Processes -> Memories]
  BY <1>1, AtWork DEF Typed
<1>3. CASE t \in cache[p].initialized \/ t \in View(p).tables
  <2>1. PICK run \in PCs : run = "run"
    BY DEF PCs
  <2>2. PICK q : q = At(p, run)
    OBVIOUS
  <2>3. /\ q \in Progress /\ q.draft = proc[p].draft /\ q.base = proc[p].base /\ q.pending = proc[p].pending
        /\ q.block = proc[p].block /\ q.op = proc[p].op /\ q.pc = "run" /\ q.table = t
        /\ q.pending # {} => Libsql(p) /\ InTransaction(p)
    BY <2>1, <2>2, MoveTyped
  <2>4. proc' = [proc EXCEPT ![p] = q]
    BY <2>1, <2>2, <1>3 DEF Peek
  <2>5. /\ Keeps(p) /\ Transacting(p)' /\ InTransaction(p)' = InTransaction(p) /\ View(p)' = View(p) /\ proc'[p] = q
    BY <2>3, <2>4, <1>1, <1>2, ReadingStep
  <2>6. t \in View(p)'.tables /\ Grows(View(p), View(p)')
    BY <2>5, <1>2, <1>3, GrowsReflexive DEF Fine, Remembers, Holds
  <2> QED BY <2>3, <2>5, <2>6, <1>1, CreatedFine
<1>4. CASE ~(t \in cache[p].initialized \/ t \in View(p).tables)
  <2>1. PICK q : q = [At(p, "next") EXCEPT !.op = @ + 1]
    OBVIOUS
  <2>2. /\ q \in Progress /\ q.draft = proc[p].draft /\ q.base = proc[p].base /\ q.pending = proc[p].pending
        /\ q.block = proc[p].block /\ q.pc = "next"
        /\ q.pending # {} => Libsql(p) /\ InTransaction(p)
    BY <2>1, NextOperationTyped
  <2>3. proc' = [proc EXCEPT ![p] = q]
    BY <2>1, <1>4 DEF Peek
  <2>4. /\ Keeps(p) /\ Transacting(p)' /\ InTransaction(p)' = InTransaction(p) /\ View(p)' = View(p) /\ proc'[p] = q
    BY <2>2, <2>3, <1>1, <1>2, ReadingStep
  <2>5. Remembers(p)'
    BY <2>2, <2>4, <1>1, MemoryStays, GrowsReflexive
  <2>6. Places(p)' /\ Finds(p)'
    BY <2>2, <2>4, <1>1, PlacesStay DEF Finds
  <2> QED BY <2>4, <2>5, <2>6 DEF Fine
<1> QED BY <1>3, <1>4

(* From the schema of an index to its table. *)
LEMMA ToTable ==
  ASSUME WellFormed, TablesIInv, NEW p \in Processes, proc[p].pc \in {"schema", "newSchema"},
         Keeps(p), Transacting(p)', InTransaction(p)' = InTransaction(p), Grows(View(p), View(p)'),
         cache' = cache, proc'[p].table = proc[p].table, proc'[p].pending = proc[p].pending,
         proc'[p].block = proc[p].block, proc'[p].op = proc[p].op,
         \/ proc'[p].pc = "look" /\ Remembered(p) = Missing
         \/ proc'[p].pc = "create" /\ Remembered(p) # Missing
         \/ proc'[p].pc = "newSchema"
  PROVE  Fine(p)'
<1>1. proc[p].pc # "next" /\ proc[p].pc # "create"
  OBVIOUS
<1>2. /\ Typed /\ Fine(p) /\ Key(p) \in Keys /\ set' = set /\ cache[p] \in Memories
      /\ proc[p].table = Remembered(p) /\ ~Libsql(p)
  BY <1>1, AtWork DEF Keeps, Fine, Finds
<1>3. /\ Libsql(p)' = Libsql(p) /\ Key(p)' = Key(p) /\ Remembered(p)' = Remembered(p)
  BY <1>2, SamePlace DEF Remembered
<1>4. Remembers(p)'
  BY <1>1, MemoryStays
<1>5. Places(p)'
  BY <1>1, <1>2, PlacesStay
<1>6. Remembered(p) # Missing => Remembered(p) \in Tables /\ View(p)'.registry[Key(p)] = Remembered(p)
  <2> SUFFICES ASSUME Remembered(p) # Missing
               PROVE  Remembered(p) \in Tables /\ View(p)'.registry[Key(p)] = Remembered(p)
    OBVIOUS
  <2>1. Remembered(p) \in Tables /\ View(p).registry[Key(p)] = Remembered(p)
    BY <1>2 DEF Remembered, Memories, Fine, Remembers, Holds
  <2> QED BY <2>1, <1>2 DEF Grows
<1>7. Finds(p)'
  BY <1>2, <1>3, <1>6 DEF Finds
<1> QED BY <1>4, <1>5, <1>7 DEF Fine

LEMMA SchemaFine ==
  ASSUME WellFormed, TablesIInv, NEW p \in Processes, Schema(p)
  PROVE  Keeps(p) /\ Fine(p)'
<1>1. /\ proc[p].pc = "schema" /\ set' = set /\ file' = file /\ locked' = locked /\ cache' = cache
  BY DEF Schema
<1>2. Typed /\ Fine(p) /\ cache \in [Processes -> Memories]
  BY <1>1, AtWork DEF Typed
<1>3. CASE Name(p) \in View(p).schemas \/ Operation(p).op = "index"
  <2>1. PICK pc \in PCs :
          /\ proc' = [proc EXCEPT ![p].pc = pc]
          /\ \/ pc = "look" /\ Remembered(p) = Missing
             \/ pc = "create" /\ Remembered(p) # Missing
             \/ pc = "newSchema"
    BY <1>3 DEF Schema, PCs
  <2>2. PICK q : q = At(p, pc)
    OBVIOUS
  <2>3. /\ q \in Progress /\ q.draft = proc[p].draft /\ q.base = proc[p].base /\ q.pending = proc[p].pending
        /\ q.block = proc[p].block /\ q.op = proc[p].op /\ q.pc = pc /\ q.table = proc[p].table
        /\ q.pending # {} => Libsql(p) /\ InTransaction(p)
    BY <2>2, MoveTyped
  <2>4. proc' = [proc EXCEPT ![p] = q]
    BY <2>1, <2>2 DEF At
  <2>5. /\ Keeps(p) /\ Transacting(p)' /\ InTransaction(p)' = InTransaction(p) /\ View(p)' = View(p) /\ proc'[p] = q
    BY <2>3, <2>4, <1>1, <1>2, ReadingStep
  <2> QED BY <2>1, <2>3, <2>5, <1>1, ToTable, GrowsReflexive
<1>4. CASE ~(Name(p) \in View(p).schemas \/ Operation(p).op = "index")
  <2>1. PICK q : q = [At(p, "next") EXCEPT !.op = @ + 1]
    OBVIOUS
  <2>2. /\ q \in Progress /\ q.draft = proc[p].draft /\ q.base = proc[p].base /\ q.pending = proc[p].pending
        /\ q.block = proc[p].block /\ q.pc = "next"
        /\ q.pending # {} => Libsql(p) /\ InTransaction(p)
    BY <2>1, NextOperationTyped
  <2>3. proc' = [proc EXCEPT ![p] = q]
    BY <2>1, <1>4 DEF Schema
  <2>4. /\ Keeps(p) /\ Transacting(p)' /\ InTransaction(p)' = InTransaction(p) /\ View(p)' = View(p) /\ proc'[p] = q
    BY <2>2, <2>3, <1>1, <1>2, ReadingStep
  <2>5. Remembers(p)'
    BY <2>2, <2>4, <1>1, MemoryStays, GrowsReflexive
  <2>6. Places(p)' /\ Finds(p)'
    BY <2>2, <2>4, <1>1, PlacesStay DEF Finds
  <2> QED BY <2>4, <2>5, <2>6 DEF Fine
<1> QED BY <1>3, <1>4

LEMMA NewSchemaFine ==
  ASSUME WellFormed, TablesIInv, NEW p \in Processes, NewSchema(p)
  PROVE  Keeps(p) /\ Fine(p)'
<1> DEFINE d == [View(p) EXCEPT !.schemas = @ \cup {Name(p)}]
<1>1. proc[p].pc = "newSchema"
  BY DEF NewSchema
<1>2. Typed /\ Fine(p) /\ cache \in [Processes -> Memories] /\ Name(p) \in Names /\ proc[p].block <= Len(Blocks(p))
  BY <1>1, AtWork DEF Typed
<1>3. CASE Name(p) \in View(p).schemas
  <2>1. PICK why \in Results : why = "constraint"
    BY DEF Results
  <2> QED BY <2>1, <1>2, <1>3, ThrowFine DEF NewSchema
<1>4. CASE Name(p) \notin View(p).schemas
  <2>1. Sound(set.hash, d) /\ Grows(View(p), d)
    BY <1>2, ViewSound, SchemaSound
  <2> HIDE DEF d
  <2>2. PICK pc \in PCs : pc = IF Remembered(p) = Missing THEN "look" ELSE "create"
    BY DEF PCs
  <2>3. PICK q : q = At(p, pc)
    OBVIOUS
  <2>4. /\ q \in Progress /\ q.draft = proc[p].draft /\ q.base = proc[p].base /\ q.pending = proc[p].pending
        /\ q.block = proc[p].block /\ q.op = proc[p].op /\ q.pc = pc /\ q.table = proc[p].table
        /\ q.pending # {} => Libsql(p) /\ InTransaction(p)
    BY <2>3, MoveTyped
  <2>5. Write(p, d, q) /\ set' = set /\ cache' = cache
    BY <2>2, <2>3, <1>4 DEF NewSchema, d
  <2>6. /\ Keeps(p) /\ Transacting(p)' /\ InTransaction(p)' = InTransaction(p) /\ View(p)' = d
        /\ proc'[p].pc = pc /\ proc'[p].block = proc[p].block /\ proc'[p].op = proc[p].op
        /\ proc'[p].table = proc[p].table /\ proc'[p].pending = proc[p].pending
    BY <2>1, <2>4, <2>5, <1>2, WritingStep
  <2> QED BY <2>1, <2>2, <2>5, <2>6, <1>1, ToTable
<1> QED BY <1>3, <1>4

LEMMA EnsureFine ==
  ASSUME WellFormed, TablesIInv, NEW p \in Processes, Ensure(p)
  PROVE  Keeps(p) /\ Fine(p)'
<1> DEFINE t == proc[p].table
<1>1. proc[p].pc = "create" /\ Kind(p) = "search" /\ set' = set
  BY DEF Ensure
<1>2. Typed /\ Fine(p) /\ cache \in [Processes -> Memories] /\ t \in Tables
  BY <1>1, AtWork DEF Typed, Fine, Finds
<1>3. /\ cache' \in [Processes -> Memories] /\ \A o \in Processes : o # p => cache'[o] = cache[o]
      /\ cache'[p].resolved = cache[p].resolved /\ cache'[p].initialized = cache[p].initialized
  <2>1. PICK c : c = [cache[p] EXCEPT !.ensured = cache[p].ensured \cup {t}]
    OBVIOUS
  <2>2. c \in Memories /\ c.resolved = cache[p].resolved /\ c.initialized = cache[p].initialized
    BY <2>1, <1>2 DEF Memories
  <2>3. cache' = [cache EXCEPT ![p] = c]
    BY <2>1 DEF Ensure
  <2> QED BY <2>2, <2>3, <1>2
<1>4. PICK run \in PCs : run = "run"
  BY DEF PCs
<1>5. PICK q : q = At(p, run)
  OBVIOUS
<1>6. /\ q \in Progress /\ q.draft = proc[p].draft /\ q.base = proc[p].base /\ q.pending = proc[p].pending
      /\ q.block = proc[p].block /\ q.op = proc[p].op /\ q.pc = "run" /\ q.table = t
      /\ q.pending # {} => Libsql(p) /\ InTransaction(p)
  BY <1>4, <1>5, MoveTyped
<1>7. CASE t \in cache[p].ensured \/ t \in View(p).tables
  <2>1. proc' = [proc EXCEPT ![p] = q] /\ file' = file /\ locked' = locked
    BY <1>4, <1>5, <1>7 DEF Ensure, At
  <2>2. /\ Keeps(p) /\ Transacting(p)' /\ InTransaction(p)' = InTransaction(p) /\ View(p)' = View(p) /\ proc'[p] = q
    BY <2>1, <1>1, <1>3, <1>6, ReadingStep
  <2> QED BY <2>2, <1>1, <1>3, <1>6, CreatedFine, GrowsReflexive
<1>8. CASE ~(t \in cache[p].ensured \/ t \in View(p).tables)
  <2>1. Write(p, Created(p), q)
    BY <1>4, <1>5, <1>8 DEF Ensure
  <2>2. /\ Sound(set.hash, Created(p)) /\ Grows(View(p), Created(p))
    BY <1>1, CreatedSound
  <2>3. /\ Keeps(p) /\ Transacting(p)' /\ InTransaction(p)' = InTransaction(p) /\ View(p)' = Created(p)
        /\ proc'[p].pc = "run" /\ proc'[p].block = proc[p].block /\ proc'[p].op = proc[p].op
        /\ proc'[p].table = t /\ proc'[p].pending = proc[p].pending
    BY <2>1, <2>2, <1>1, <1>3, <1>6, WritingStep
  <2> QED BY <2>2, <2>3, <1>1, <1>3, CreatedFine
<1> QED BY <1>7, <1>8

(* A step of p that ends an operation. *)
LEMMA DoneFine ==
  ASSUME WellFormed, TablesIInv, NEW p \in Processes, proc[p].pc = "run",
         Keeps(p), Transacting(p)', Grows(View(p), View(p)'), cache' = cache,
         proc'[p].pc = "next", proc'[p].pending = proc[p].pending, proc'[p].block = proc[p].block
  PROVE  Fine(p)'
<1>1. Remembers(p)'
  BY MemoryStays
<1>2. Places(p)'
  BY PlacesStay DEF Keeps
<1>3. Finds(p)'
  BY DEF Finds
<1> QED BY <1>1, <1>2, <1>3 DEF Fine

LEMMA RunFine ==
  ASSUME WellFormed, TablesIInv, NEW p \in Processes, Run(p)
  PROVE  Keeps(p) /\ Fine(p)'
<1> DEFINE t == proc[p].table
           d == [View(p) EXCEPT !.rows = @ \cup {Row(p)}]
           writes == Operation(p).op \in {"put", "index"}
<1>1. proc[p].pc = "run" /\ t \in View(p).tables /\ set' = set
  BY DEF Run
<1>2. /\ Typed /\ Fine(p) /\ proc[p] \in Progress /\ cache \in [Processes -> Memories] /\ cache[p] \in Memories
      /\ Operating(p) /\ Key(p) \in Keys /\ Key(p)[2] = Name(p)
      /\ t \in Tables /\ View(p).registry[Key(p)] = t
      /\ Libsql(p) => Operation(p).op \in {"put", "read"}
  BY <1>1, AtWork DEF Typed, Fine, Finds
<1>3. Sound(set.hash, d) /\ Grows(View(p), d)
  <2>1. Row(p) = <<t, Key(p)[2]>>
    BY <1>2 DEF Row
  <2> QED BY <2>1, <1>1, <1>2, ViewSound, RowSound
<1> HIDE DEF d
<1>4. PICK q : q = [At(p, "next") EXCEPT !.op = @ + 1]
  OBVIOUS
<1>5. /\ q \in Progress /\ q.draft = proc[p].draft /\ q.base = proc[p].base /\ q.pending = proc[p].pending
      /\ q.block = proc[p].block /\ q.pc = "next"
      /\ q.pending # {} => Libsql(p) /\ InTransaction(p)
  BY <1>4, NextOperationTyped
<1>6. CASE ~writes
  <2>1. proc' = [proc EXCEPT ![p] = q] /\ file' = file /\ locked' = locked /\ cache' = cache
    BY <1>4, <1>6 DEF Run
  <2>2. /\ Keeps(p) /\ Transacting(p)' /\ View(p)' = View(p) /\ proc'[p] = q
    BY <2>1, <1>1, <1>2, <1>5, ReadingStep
  <2> QED BY <2>1, <2>2, <1>1, <1>5, DoneFine, GrowsReflexive
<1>7. CASE writes /\ ~(Libsql(p) /\ Block(p).ends = "none")
  <2>1. Write(p, d, q) /\ cache' = cache
    BY <1>4, <1>7 DEF Run, d
  <2>2. /\ Keeps(p) /\ Transacting(p)' /\ View(p)' = d
        /\ proc'[p].pc = "next" /\ proc'[p].block = proc[p].block /\ proc'[p].pending = proc[p].pending
    BY <2>1, <1>1, <1>2, <1>3, <1>5, WritingStep
  <2> QED BY <2>1, <2>2, <1>1, <1>3, DoneFine
<1>8. CASE writes /\ Libsql(p) /\ Block(p).ends = "none"
  <2>1. PICK none \in SUBSET (Keys \X Tables) : none = {}
    OBVIOUS
  <2>2. PICK r : r = [q EXCEPT !.draft = Missing, !.base = Missing, !.pending = none]
    OBVIOUS
  <2>3. /\ r \in Progress /\ r.draft = Missing /\ r.pending = {} /\ r.pc = "next" /\ r.block = proc[p].block
    BY <2>1, <2>2, <1>5 DEF Progress
  <2>4. /\ proc' = [proc EXCEPT ![p] = r] /\ file' = d /\ locked' = Missing /\ cache' = AfterEnd(p, TRUE)
    BY <2>1, <2>2, <1>4, <1>8 DEF Run, d
  <2>5. InTransaction(p) /\ locked = p /\ Grows(file, View(p))
    BY <1>2, <1>8 DEF Operating, Fine, Transacting, View
  <2>6. locked' = Unlocked(p)
    BY <2>4, <2>5 DEF Unlocked
  <2>7. Grows(file, d)
    <3>1. file \in Databases /\ View(p) \in Databases /\ d \in Databases
      BY <1>3, ViewSound DEF TablesIInv, Sound
    <3> QED BY <3>1, <2>5, <1>3, GrowsTransitive
  <2>8. Holds(p, d)
    BY <1>2, <1>3, HoldsStays DEF Fine, Remembers
  <2>9. \A e \in proc[p].pending : d.registry[e[1]] = e[2] /\ e[2] \in d.tables
    <3> SUFFICES ASSUME NEW e \in proc[p].pending PROVE d.registry[e[1]] = e[2] /\ e[2] \in d.tables
      OBVIOUS
    <3>1. e[1] \in Keys /\ e[2] \in Tables /\ e[2] # Missing
      BY <1>2 DEF WellFormed, Progress
    <3> QED BY <3>1, <1>1, <1>2, <1>3 DEF Fine, Remembers, Grows
  <2>10. /\ cache' \in [Processes -> Memories] /\ \A o \in Processes : o # p => cache'[o] = cache[o]
         /\ Holds(p, file)'
    BY <2>4, <2>8, <2>9, <1>1, <1>8, CommittedMemory
  <2>11. Keeps(p) /\ Transacting(p)' /\ ~InTransaction(p)' /\ proc'[p] = r
    BY <2>3, <2>4, <2>5, <2>6, <2>7, <2>10, <1>1, <1>3, EndingStep
  <2>12. Remembers(p)'
    BY <2>3, <2>10, <2>11, MemoryAfterEnd
  <2>13. Places(p)' /\ Finds(p)'
    BY <2>3, <2>11, <1>1, PlacesStay DEF Finds
  <2> QED BY <2>11, <2>12, <2>13 DEF Fine
<1> QED BY <1>6, <1>7, <1>8

--------------------
LEMMA StepFine ==
  ASSUME WellFormed, TablesIInv, NEW p \in Processes, Step(p)
  PROVE  Keeps(p) /\ Fine(p)'
BY BeginFine, EndBlockFine, BusyFine, StartFine, LookFine, ClaimFine, ExistsFine, RegisterFine, RestartFine,
   CreateFine, PeekFine, SchemaFine, NewSchemaFine, EnsureFine, RunFine, NoSuchTableFine
   DEF Step

LEMMA TablesInit ==
  ASSUME WellFormed, Init PROVE TablesIInv
<1>1. set \in Setups /\ set \in SetupRecords /\ file = set.disk /\ locked = Missing
  BY DEF Init, WellFormed
<1>2. Sound(set.hash, file)
  BY <1>1 DEF WellFormed
<1>3. cache \in [Processes -> Memories]
  BY DEF Init, Memories, Keys
<1>4. ASSUME NEW p \in Processes
      PROVE  /\ proc[p] \in Progress /\ proc[p].pc = "next" /\ proc[p].block = 1 /\ proc[p].draft = Missing
             /\ proc[p].pending = {}
  <2>1. <<>> \in Seq(Results)
    OBVIOUS
  <2>2. PICK one \in Nat \ {0}, next \in PCs, none \in SUBSET (Keys \X Tables), results \in Seq(Results) :
          one = 1 /\ next = "next" /\ none = {} /\ results = <<>>
    <3>1. 1 \in Nat \ {0} /\ "next" \in PCs /\ {} \in SUBSET (Keys \X Tables)
      BY DEF PCs
    <3> QED BY <3>1, <2>1
  <2>3. proc[p] = [pc |-> next, block |-> one, op |-> one, candidate |-> one, attempt |-> one,
                   table |-> Missing, draft |-> Missing, base |-> Missing, pending |-> none, results |-> results]
    BY <2>2 DEF Init
  <2> QED BY <2>2, <2>3 DEF Progress
<1>5. proc \in [Processes -> Progress]
  <2>1. proc = [p \in Processes |-> proc[p]]
    BY DEF Init
  <2> QED BY <2>1, <1>4
<1>6. Typed
  BY <1>1, <1>3, <1>5 DEF Typed
<1>7. ASSUME NEW p \in Processes PROVE Fine(p)
  <2>1. ~InTransaction(p) /\ locked # p
    BY <1>1, <1>4 DEF InTransaction, WellFormed
  <2>2. Transacting(p)
    BY <2>1, <1>4 DEF Transacting
  <2>3. \A k \in Keys : cache[p].resolved[k] = Missing
    BY DEF Init, Keys
  <2>4. cache[p].initialized = {}
    BY DEF Init
  <2>5. Remembers(p)
    BY <2>3, <2>4, <1>4 DEF Remembers, Holds
  <2>6. Blocks(p) \in Seq(BlockRecords)
    BY <1>1 DEF Blocks, SetupRecords
  <2>7. Places(p)
    BY <2>6, <1>4 DEF Places
  <2>8. Finds(p)
    BY <1>4 DEF Finds
  <2> QED BY <2>2, <2>5, <2>7, <2>8 DEF Fine
<1> QED BY <1>2, <1>6, <1>7 DEF TablesIInv

LEMMA TablesNext ==
  ASSUME WellFormed, TablesIInv, [Next]_tablesVars PROVE TablesIInv'
<1>1. CASE UNCHANGED tablesVars
  <2>1. set' = set /\ file' = file /\ locked' = locked /\ cache' = cache /\ proc' = proc
    BY <1>1 DEF tablesVars
  <2>2. Typed' /\ Sound(set.hash, file)'
    BY <2>1 DEF TablesIInv, Typed
  <2>3. ASSUME NEW p \in Processes PROVE Fine(p)'
    <3>1. Fine(p)
      BY DEF TablesIInv
    <3>2. /\ Libsql(p)' = Libsql(p) /\ InTransaction(p)' = InTransaction(p) /\ View(p)' = View(p)
          /\ Blocks(p)' = Blocks(p) /\ Block(p)' = Block(p) /\ Operation(p)' = Operation(p)
          /\ Kind(p)' = Kind(p) /\ Key(p)' = Key(p) /\ Remembered(p)' = Remembered(p)
      BY <2>1 DEF Libsql, InTransaction, View, Blocks, Block, Operation, Kind, Name, Key, Remembered
    <3>3. Transacting(p)'
      BY <2>1, <3>1, <3>2 DEF Fine, Transacting
    <3>4. Remembers(p)'
      BY <2>1, <3>1, <3>2 DEF Fine, Remembers, Holds
    <3>5. Places(p)'
      BY <2>1, <3>1, <3>2 DEF Fine, Places, Operating
    <3>6. Finds(p)'
      BY <2>1, <3>1, <3>2 DEF Fine, Finds
    <3> QED BY <3>3, <3>4, <3>5, <3>6 DEF Fine
  <2> QED BY <2>2, <2>3 DEF TablesIInv
<1>2. CASE Next
  <2>1. PICK p \in Processes : Step(p)
    BY <1>2 DEF Next
  <2>2. Keeps(p) /\ Fine(p)'
    BY <2>1, StepFine
  <2>3. \A o \in Processes : Fine(o)'
    BY <2>2, OthersStay
  <2>4. Typed' /\ Sound(set.hash, file)'
    BY <2>2 DEF TablesIInv, Typed, Keeps
  <2> QED BY <2>3, <2>4 DEF TablesIInv
<1> QED BY <1>1, <1>2

(* A process that has written holds the lock, and what another sees is the
   file as it was when its transaction began. *)
THEOREM TransactionsAreIsolated ==
  ASSUME WellFormed PROVE Spec => []TypeOK
<1>1. Init => TablesIInv
  BY TablesInit
<1>2. TablesIInv /\ [Next]_tablesVars => TablesIInv'
  BY TablesNext
<1>3. TablesIInv => TypeOK
  <2> SUFFICES ASSUME TablesIInv PROVE TypeOK
    OBVIOUS
  <2>1. locked \in Processes \cup {Missing} /\ \A p \in Processes : Transacting(p) /\ Places(p)
    BY DEF TablesIInv, Typed, Fine
  <2> QED BY <2>1 DEF TypeOK, Transacting, Places
<1> QED BY <1>1, <1>2, <1>3, PTL DEF Spec

(* Names that share a hash never share a table, however their first uses
   overlap, and a name's rows are all in one. *)
THEOREM RowsStayTheirsHolds ==
  ASSUME WellFormed PROVE Spec => []RowsStayTheirs
<1>1. Init => TablesIInv
  BY TablesInit
<1>2. TablesIInv /\ [Next]_tablesVars => TablesIInv'
  BY TablesNext
<1>3. TablesIInv => RowsStayTheirs
  BY SoundRows DEF TablesIInv, RowsStayTheirs
<1> QED BY <1>1, <1>2, <1>3, PTL DEF Spec

(* No rollback leaves a table remembered that is not there. *)
THEOREM CachesAreDurableHolds ==
  ASSUME WellFormed PROVE Spec => []CachesAreDurable
<1>1. Init => TablesIInv
  BY TablesInit
<1>2. TablesIInv /\ [Next]_tablesVars => TablesIInv'
  BY TablesNext
<1>3. TablesIInv => CachesAreDurable
  BY DEF TablesIInv, Fine, Remembers, Holds, Keys, CachesAreDurable
<1> QED BY <1>1, <1>2, <1>3, PTL DEF Spec

(* An operation on a collection finds its table. *)
THEOREM TablesAreFoundHolds ==
  ASSUME WellFormed PROVE Spec => []TablesAreFound
<1>1. Init => TablesIInv
  BY TablesInit
<1>2. TablesIInv /\ [Next]_tablesVars => TablesIInv'
  BY TablesNext
<1>3. TablesIInv => TablesAreFound
  BY DEF TablesIInv, Fine, Finds, TablesAreFound
<1> QED BY <1>1, <1>2, <1>3, PTL DEF Spec

--------------------
(* Whoever starts again has seen another name with its hash registered, so
   that the attempts are no more than the names of a hash. *)

FewShareAHash ==
  /\ IsFiniteSet(Names) /\ Attempts \in Nat
  /\ \A s \in Setups : \A n \in Names : Cardinality({m \in Names : s.hash[m] = s.hash[n]}) < Attempts

Namesakes(h, k, d) == {m \in Names : h[m] = h[k[2]] /\ d.registry[<<k[1], m>>] # Missing}

Count(h, k, d) == Cardinality(Namesakes(h, k, d))

Trial(h, k, d, q) ==
  /\ q.pc \in {"schema", "newSchema", "look", "claim", "exists", "register"} => q.attempt <= Count(h, k, d) + 1
  /\ q.pc \in {"claim", "exists", "register"} /\ d.registry[k] # Missing => q.attempt <= Count(h, k, d)
  /\ q.pc \in {"exists", "register"} /\ Claimed(d, q.table) => q.attempt <= Count(h, k, d)

Tried(p) == proc[p].pc # "next" => Trial(set.hash, Key(p), View(p), proc[p])

Succeeds(p) == \A i \in DOMAIN proc[p].results : proc[p].results[i] # "conflict"

TrialsIInv == TablesIInv /\ \A p \in Processes : Tried(p) /\ Succeeds(p)

LEMMA CountTyped ==
  ASSUME FewShareAHash, NEW h, NEW k, NEW d
  PROVE  IsFiniteSet(Namesakes(h, k, d)) /\ Count(h, k, d) \in Nat
<1>1. Namesakes(h, k, d) \subseteq Names
  BY DEF Namesakes
<1>2. IsFiniteSet(Namesakes(h, k, d))
  BY <1>1, FS_Subset DEF FewShareAHash
<1> QED BY <1>2, FS_CardinalityType DEF Count

LEMMA CountGrows ==
  ASSUME FewShareAHash, NEW h, NEW k \in Keys, NEW d, NEW e, Grows(d, e)
  PROVE  /\ Count(h, k, d) <= Count(h, k, e)
         /\ \A m \in Names : h[m] = h[k[2]] /\ d.registry[<<k[1], m>>] = Missing /\ e.registry[<<k[1], m>>] # Missing
              => Count(h, k, d) + 1 <= Count(h, k, e)
<1>1. /\ IsFiniteSet(Namesakes(h, k, d)) /\ IsFiniteSet(Namesakes(h, k, e))
      /\ Count(h, k, d) \in Nat /\ Count(h, k, e) \in Nat
  BY CountTyped
<1>2. Namesakes(h, k, d) \subseteq Namesakes(h, k, e)
  <2>1. \A m \in Names : <<k[1], m>> \in Keys
    BY DEF Keys
  <2> QED BY <2>1 DEF Namesakes, Grows
<1>3. Count(h, k, d) <= Count(h, k, e)
  BY <1>1, <1>2, FS_Subset DEF Count
<1>4. ASSUME NEW m \in Names, h[m] = h[k[2]], d.registry[<<k[1], m>>] = Missing, e.registry[<<k[1], m>>] # Missing
      PROVE  Count(h, k, d) + 1 <= Count(h, k, e)
  <2>1. m \in Namesakes(h, k, e) /\ m \notin Namesakes(h, k, d)
    BY <1>4 DEF Namesakes
  <2>2. Cardinality(Namesakes(h, k, d)) # Cardinality(Namesakes(h, k, e))
    BY <2>1, <1>1, <1>2, FS_Subset
  <2> QED BY <2>2, <1>1, <1>3 DEF Count
<1> QED BY <1>3, <1>4

LEMMA CountBounded ==
  ASSUME WellFormed, FewShareAHash, NEW s \in Setups, NEW k \in Keys, NEW d
  PROVE  Count(s.hash, k, d) < Attempts
<1> DEFINE class == {m \in Names : s.hash[m] = s.hash[k[2]]}
<1>1. k[2] \in Names
  BY DEF Keys
<1>2. IsFiniteSet(class) /\ Cardinality(class) < Attempts
  BY <1>1, FS_Subset DEF FewShareAHash
<1>3. Namesakes(s.hash, k, d) \subseteq class
  BY DEF Namesakes
<1> HIDE DEF class
<1>4. Cardinality(Namesakes(s.hash, k, d)) <= Cardinality(class)
  BY <1>2, <1>3, FS_Subset
<1>5. Cardinality(class) \in Nat /\ Count(s.hash, k, d) \in Nat /\ Attempts \in Nat
  BY <1>2, FS_CardinalityType, CountTyped DEF FewShareAHash
<1> QED BY <1>2, <1>4, <1>5 DEF Count

(* A search for a table is as far as before when its file grows. *)
LEMMA TrialStays ==
  ASSUME WellFormed, FewShareAHash, NEW h, NEW k \in Keys, NEW d, NEW e, Sound(h, d), Sound(h, e), Grows(d, e),
         NEW q \in Progress, Trial(h, k, d, q), q.pc \in {"exists", "register"} => TableOf(h, k, q.table)
  PROVE  Trial(h, k, e, q)
<1>1. /\ Count(h, k, d) \in Nat /\ Count(h, k, e) \in Nat /\ q.attempt \in Nat
      /\ Count(h, k, d) <= Count(h, k, e)
  BY CountTyped, CountGrows DEF Progress
<1>2. k = <<k[1], k[2]>> /\ k[2] \in Names
  BY DEF Keys
<1>3. q.pc \in {"schema", "newSchema", "look", "claim", "exists", "register"} => q.attempt <= Count(h, k, e) + 1
  BY <1>1 DEF Trial
<1>4. ASSUME q.pc \in {"claim", "exists", "register"}, e.registry[k] # Missing
      PROVE  q.attempt <= Count(h, k, e)
  <2>1. CASE d.registry[k] # Missing
    BY <2>1, <1>1, <1>4 DEF Trial
  <2>2. CASE d.registry[k] = Missing
    <3>1. Count(h, k, d) + 1 <= Count(h, k, e)
      BY <2>2, <1>2, <1>4, CountGrows
    <3> QED BY <3>1, <1>1, <1>4 DEF Trial
  <2> QED BY <2>1, <2>2
<1>5. ASSUME q.pc \in {"exists", "register"}, Claimed(e, q.table)
      PROVE  q.attempt <= Count(h, k, e)
  <2>1. CASE Claimed(d, q.table)
    BY <2>1, <1>1, <1>5 DEF Trial
  <2>2. CASE ~Claimed(d, q.table)
    <3>1. PICK l \in Keys : e.registry[l] = q.table
      BY <1>5 DEF Claimed, Keys
    <3>2. TableOf(h, k, q.table) /\ q.table # Missing
      BY <1>5 DEF TableOf, WellFormed
    <3>3. TableOf(h, l, q.table)
      BY <3>1, <3>2 DEF Sound, Registered
    <3>4. l = <<k[1], l[2]>> /\ l[2] \in Names /\ h[l[2]] = h[k[2]]
      BY <3>2, <3>3 DEF TableOf, Keys
    <3>5. d.registry[l] = Missing
      BY <2>2, <3>1 DEF Claimed, Grows, Keys
    <3>6. Count(h, k, d) + 1 <= Count(h, k, e)
      BY <3>1, <3>2, <3>4, <3>5, CountGrows
    <3> QED BY <3>6, <1>1, <1>5 DEF Trial
  <2> QED BY <2>1, <2>2
<1> QED BY <1>3, <1>4, <1>5 DEF Trial

LEMMA OthersTry ==
  ASSUME WellFormed, FewShareAHash, TrialsIInv, TablesIInv', NEW p \in Processes, Keeps(p),
         NEW o \in Processes, o # p
  PROVE  Tried(o)' /\ Succeeds(o)'
<1>1. /\ TablesIInv /\ Tried(o) /\ Succeeds(o) /\ proc[o] \in Progress
      /\ set' = set /\ proc'[o] = proc[o] /\ Grows(file, file')
  BY DEF TrialsIInv, TablesIInv, Typed, Keeps
<1>2. Succeeds(o)'
  BY <1>1 DEF Succeeds
<1>3. ASSUME proc[o].pc # "next" PROVE Trial(set.hash, Key(o), View(o)', proc[o])
  <2>1. Key(o) \in Keys /\ Trial(set.hash, Key(o), View(o), proc[o]) /\ Fine(o)
    BY <1>1, <1>3, AtWork DEF Tried
  <2>2. Grows(View(o), View(o)')
    BY <1>1, GrowsReflexive DEF View, InTransaction
  <2>3. Sound(set.hash, View(o)) /\ Sound(set.hash, View(o)')
    <3>1. Sound(set.hash, View(o))
      BY <1>1, ViewSound
    <3>2. Sound(set.hash, file')
      BY DEF Keeps
    <3> QED BY <3>1, <3>2, <1>1 DEF View, InTransaction
  <2>4. proc[o].pc \in {"exists", "register"} => TableOf(set.hash, Key(o), proc[o].table)
    BY <2>1 DEF Fine, Finds
  <2> QED BY <2>1, <2>2, <2>3, <2>4, <1>1, TrialStays
<1>4. Key(o)' = Key(o)
  BY <1>1, SamePlace
<1> QED BY <1>1, <1>2, <1>3, <1>4 DEF Tried

LEMMA Appended ==
  ASSUME TrialsIInv, NEW p \in Processes, NEW why, why # "conflict", why \in Results,
         proc'[p].results = Append(proc[p].results, why)
  PROVE  Succeeds(p)'
<1>1. proc[p].results \in Seq(Results) /\ Succeeds(p)
  BY DEF TrialsIInv, TablesIInv, Typed, Progress
<1> QED BY <1>1, AppendProperties DEF Succeeds

(* Once a process has found its table, or is done, it tries no more. *)
LEMMA NoTrial ==
  ASSUME NEW p \in Processes, proc'[p].pc \in {"next", "create", "run"} PROVE Tried(p)'
BY DEF Tried, Trial

LEMMA ThrowTried ==
  ASSUME TrialsIInv, NEW p \in Processes, NEW why, why # "conflict", why \in Results, Throw(p, why)
  PROVE  Tried(p)' /\ Succeeds(p)'
<1>1. proc \in [Processes -> Progress]
  BY DEF TrialsIInv, TablesIInv, Typed
<1>2. proc'[p] = AfterBlock(p, why)
  BY <1>1 DEF Throw
<1>3. proc'[p].pc = "next" /\ proc'[p].results = Append(proc[p].results, why)
  BY <1>1, <1>2 DEF AfterBlock, Progress
<1> QED BY <1>3, Appended, NoTrial

LEMMA WriteKeeps ==
  ASSUME TrialsIInv, NEW p \in Processes, NEW q \in Progress, NEW d, Write(p, d, q)
  PROVE  /\ proc'[p].pc = q.pc /\ proc'[p].results = q.results /\ proc'[p].attempt = q.attempt
         /\ proc'[p].block = q.block /\ proc'[p].op = q.op
<1>1. proc \in [Processes -> Progress]
  BY DEF TrialsIInv, TablesIInv, Typed
<1>2. proc'[p] = q \/ proc'[p] = [q EXCEPT !.draft = d]
  BY <1>1 DEF Write
<1> QED BY <1>2 DEF Progress

LEMMA BlockTried ==
  ASSUME TrialsIInv, NEW p \in Processes, Begin(p) \/ EndBlock(p) \/ Busy(p) \/ NoSuchTable(p)
  PROVE  Tried(p)' /\ Succeeds(p)'
<1>1. proc \in [Processes -> Progress] /\ proc[p] \in Progress /\ Succeeds(p)
  BY DEF TrialsIInv, TablesIInv, Typed
<1>2. CASE Begin(p)
  <2>1. proc'[p].pc = "next" /\ proc'[p].results = proc[p].results
    BY <1>1, <1>2 DEF Begin, Progress
  <2> QED BY <2>1, <1>1, NoTrial DEF Succeeds
<1>3. CASE EndBlock(p)
  <2>1. proc'[p] = AfterBlock(p, "done")
    BY <1>1, <1>3 DEF EndBlock
  <2>2. proc'[p].pc = "next" /\ proc'[p].results = Append(proc[p].results, "done")
    BY <2>1, <1>1 DEF AfterBlock, Progress
  <2> QED BY <2>2, Appended, NoTrial DEF Results
<1>4. CASE Busy(p)
  BY <1>4, ThrowTried DEF Busy, Results
<1>5. CASE NoSuchTable(p)
  BY <1>5, ThrowTried DEF NoSuchTable, Results
<1> QED BY <1>2, <1>3, <1>4, <1>5

LEMMA TableTried ==
  ASSUME WellFormed, TrialsIInv, NEW p \in Processes, Register(p) \/ Create(p) \/ Peek(p) \/ Ensure(p) \/ Run(p)
  PROVE  Tried(p)' /\ Succeeds(p)'
<1>1. TablesIInv /\ proc \in [Processes -> Progress] /\ proc[p] \in Progress /\ Succeeds(p)
  BY DEF TrialsIInv, TablesIInv, Typed
<1> SUFFICES proc'[p].pc \in {"next", "create", "run"} /\ proc'[p].results = proc[p].results
  BY <1>1, NoTrial DEF Succeeds
<1>2. PICK run : run = At(p, "run")
  OBVIOUS
<1>3. run \in Progress /\ run.pc = "run" /\ run.results = proc[p].results
  BY <1>1, <1>2 DEF At, Progress, PCs
<1>4. PICK after : after = [At(p, "next") EXCEPT !.op = @ + 1]
  OBVIOUS
<1>5. after \in Progress /\ after.pc = "next" /\ after.results = proc[p].results
  <2>1. after \in Progress /\ after.pc = "next"
    BY <1>1, <1>4, NextOperationTyped
  <2> QED BY <2>1, <1>1, <1>4 DEF At, Progress
<1>6. CASE Register(p)
  <2>1. proc[p].pc = "register" /\ proc[p].table \in Tables /\ (Libsql(p) => InTransaction(p))
    BY <1>1, <1>6 DEF Register, TablesIInv, Fine, Finds, TableOf
  <2>2. Pending(p, proc[p].table) \in SUBSET (Keys \X Tables)
    BY <2>1, <1>1, PendingTyped
  <2>3. PICK q : q = Resolved(p, proc[p].table)
    OBVIOUS
  <2>4. q \in Progress /\ q.pc = "create" /\ q.results = proc[p].results
    BY <2>1, <2>2, <2>3, <1>1 DEF Resolved, Progress, PCs
  <2>5. Write(p, [View(p) EXCEPT !.registry[Key(p)] = proc[p].table], q)
    BY <2>3, <1>6 DEF Register
  <2> QED BY <2>4, <2>5, WriteKeeps
<1>7. [proc[p] EXCEPT !.pc = "run"] = run
  BY <1>2 DEF At
<1>8. CASE Create(p)
  <2>1. \/ proc' = [proc EXCEPT ![p].pc = "run"]
        \/ proc' = [proc EXCEPT ![p] = [At(p, "run") EXCEPT !.draft = Missing, !.base = Missing, !.pending = {}]]
        \/ Write(p, Created(p), At(p, "run"))
    BY <1>8 DEF Create
  <2>2. CASE proc' = [proc EXCEPT ![p].pc = "run"]
    BY <2>2, <1>1, <1>3, <1>7
  <2>3. CASE proc' = [proc EXCEPT ![p] = [At(p, "run") EXCEPT !.draft = Missing, !.base = Missing, !.pending = {}]]
    <3>1. proc'[p] = [run EXCEPT !.draft = Missing, !.base = Missing, !.pending = {}]
      BY <2>3, <1>1, <1>2
    <3> QED BY <3>1, <1>3 DEF Progress
  <2>4. CASE Write(p, Created(p), At(p, "run"))
    BY <2>4, <1>2, <1>3, WriteKeeps
  <2> QED BY <2>1, <2>2, <2>3, <2>4
<1>9. CASE Peek(p)
  <2>1. proc'[p] = run \/ proc'[p] = after
    BY <1>1, <1>2, <1>4, <1>9 DEF Peek
  <2> QED BY <2>1, <1>3, <1>5
<1>10. CASE Ensure(p)
  <2>1. proc' = [proc EXCEPT ![p].pc = "run"] \/ Write(p, Created(p), At(p, "run"))
    BY <1>10 DEF Ensure
  <2>2. CASE proc' = [proc EXCEPT ![p].pc = "run"]
    BY <2>2, <1>1, <1>3, <1>7
  <2>3. CASE Write(p, Created(p), At(p, "run"))
    BY <2>3, <1>2, <1>3, WriteKeeps
  <2> QED BY <2>1, <2>2, <2>3
<1>11. CASE Run(p)
  <2>1. PICK d : \/ proc' = [proc EXCEPT ![p] = after]
                 \/ proc' = [proc EXCEPT ![p] = [after EXCEPT !.draft = Missing, !.base = Missing, !.pending = {}]]
                 \/ Write(p, d, after)
    BY <1>4, <1>11 DEF Run
  <2>2. CASE proc' = [proc EXCEPT ![p] = after]
    BY <2>2, <1>1, <1>5
  <2>3. CASE proc' = [proc EXCEPT ![p] = [after EXCEPT !.draft = Missing, !.base = Missing, !.pending = {}]]
    <3>1. proc'[p] = [after EXCEPT !.draft = Missing, !.base = Missing, !.pending = {}]
      BY <2>3, <1>1
    <3> QED BY <3>1, <1>5 DEF Progress
  <2>4. CASE Write(p, d, after)
    BY <2>4, <1>5, WriteKeeps
  <2> QED BY <2>1, <2>2, <2>3, <2>4
<1> QED BY <1>6, <1>8, <1>9, <1>10, <1>11

LEMMA StartTried ==
  ASSUME WellFormed, FewShareAHash, TrialsIInv, NEW p \in Processes, Start(p)
  PROVE  Tried(p)' /\ Succeeds(p)'
<1>1. proc \in [Processes -> Progress] /\ proc[p] \in Progress /\ Succeeds(p)
  BY DEF TrialsIInv, TablesIInv, Typed
<1>2. /\ proc'[p].attempt = 1 /\ proc'[p].results = proc[p].results
      /\ proc'[p].pc \in {"schema", "look", "create"}
  BY <1>1 DEF Start, Progress
<1>3. Count(set.hash, Key(p), View(p))' \in Nat
  BY CountTyped
<1>4. Tried(p)'
  BY <1>2, <1>3 DEF Tried, Trial
<1> QED BY <1>1, <1>2, <1>4 DEF Succeeds

(* Looking, claiming and starting again, in an unchanged file. *)
LEMMA TriesInPlace ==
  ASSUME NEW p \in Processes, set' = set, file' = file, proc'[p].draft = proc[p].draft,
         proc'[p].block = proc[p].block, proc'[p].op = proc[p].op,
         Trial(set.hash, Key(p), View(p), proc'[p]), proc'[p].results = proc[p].results, Succeeds(p)
  PROVE  Tried(p)' /\ Succeeds(p)'
<1>1. Key(p)' = Key(p)
  BY SamePlace
<1>2. View(p)' = View(p)
  BY DEF View, InTransaction
<1> QED BY <1>1, <1>2 DEF Tried, Succeeds

LEMMA SearchTried ==
  ASSUME WellFormed, FewShareAHash, TrialsIInv, NEW p \in Processes, Look(p) \/ Claim(p) \/ Exists(p)
  PROVE  Tried(p)' /\ Succeeds(p)'
<1>1. /\ TablesIInv /\ proc \in [Processes -> Progress] /\ proc[p] \in Progress /\ Succeeds(p)
      /\ set' = set /\ file' = file
  BY DEF TrialsIInv, TablesIInv, Typed, Look, Claim, Exists
<1>2. proc[p].pc # "next" /\ Trial(set.hash, Key(p), View(p), proc[p])
  BY DEF TrialsIInv, Tried, Look, Claim, Exists
<1>3. CASE Look(p)
  <2>1. CASE View(p).registry[Key(p)] = Missing
    <3>1. proc'[p] = [At(p, "claim") EXCEPT !.candidate = 1]
      BY <2>1, <1>1, <1>3 DEF Look
    <3>2. /\ proc'[p].pc = "claim" /\ proc'[p].draft = proc[p].draft /\ proc'[p].block = proc[p].block
          /\ proc'[p].op = proc[p].op /\ proc'[p].attempt = proc[p].attempt /\ proc'[p].results = proc[p].results
      BY <3>1, <1>1 DEF At, Progress
    <3>3. Trial(set.hash, Key(p), View(p), proc'[p])
      BY <3>2, <2>1, <1>2, <1>3 DEF Trial, Look
    <3> QED BY <3>2, <3>3, <1>1, TriesInPlace
  <2>2. CASE View(p).registry[Key(p)] # Missing
    <3>1. proc'[p] = Resolved(p, View(p).registry[Key(p)])
      BY <2>2, <1>1, <1>3 DEF Look
    <3>2. proc'[p].pc = "create" /\ proc'[p].results = proc[p].results
      BY <3>1, <1>1 DEF Resolved, Progress
    <3> QED BY <3>2, <1>1, NoTrial DEF Succeeds
  <2> QED BY <2>1, <2>2
<1>4. CASE Claim(p)
  <2> DEFINE t == Candidate(Kind(p), Name(p), proc[p].candidate)
  <2>1. proc'[p] = IF Claimed(View(p), t) THEN [proc[p] EXCEPT !.candidate = @ + 1]
                   ELSE IF proc[p].candidate = 1 THEN [proc[p] EXCEPT !.pc = "register", !.table = t]
                   ELSE [proc[p] EXCEPT !.pc = "exists", !.table = t]
    BY <1>1, <1>4 DEF Claim
  <2> HIDE DEF t
  <2>2. /\ proc'[p].draft = proc[p].draft /\ proc'[p].block = proc[p].block /\ proc'[p].op = proc[p].op
        /\ proc'[p].attempt = proc[p].attempt /\ proc'[p].results = proc[p].results
        /\ proc'[p].pc = "claim" \/ (proc'[p].pc \in {"exists", "register"} /\ proc'[p].table = t /\ ~Claimed(View(p), t))
    BY <2>1, <1>1, <1>4 DEF Progress, Claim
  <2>3. Trial(set.hash, Key(p), View(p), proc'[p])
    BY <2>2, <1>2, <1>4 DEF Trial, Claim
  <2> QED BY <2>2, <2>3, <1>1, TriesInPlace
<1>5. CASE Exists(p)
  <2>1. proc'[p] = IF Stray(View(p), proc[p].table) THEN [proc[p] EXCEPT !.pc = "claim", !.candidate = @ + 1]
                   ELSE [proc[p] EXCEPT !.pc = "register"]
    BY <1>1, <1>5 DEF Exists
  <2>2. /\ proc'[p].draft = proc[p].draft /\ proc'[p].block = proc[p].block /\ proc'[p].op = proc[p].op
        /\ proc'[p].attempt = proc[p].attempt /\ proc'[p].results = proc[p].results
        /\ proc'[p].table = proc[p].table /\ proc'[p].pc \in {"claim", "register"}
    BY <2>1, <1>1 DEF Progress
  <2>3. Trial(set.hash, Key(p), View(p), proc'[p])
    BY <2>2, <1>2, <1>5 DEF Trial, Exists
  <2> QED BY <2>2, <2>3, <1>1, TriesInPlace
<1> QED BY <1>3, <1>4, <1>5

(* A conflict: someone has registered the name, or its table for another. *)
LEMMA RestartTried ==
  ASSUME WellFormed, FewShareAHash, TrialsIInv, NEW p \in Processes, Restart(p)
  PROVE  Tried(p)' /\ Succeeds(p)'
<1>1. /\ TablesIInv /\ proc \in [Processes -> Progress] /\ proc[p] \in Progress /\ Succeeds(p)
      /\ set \in Setups /\ proc[p].pc = "register" /\ Conflict(p, proc[p].table)
  BY DEF TrialsIInv, TablesIInv, Typed, Restart
<1>2. proc[p].pc # "next" /\ Key(p) \in Keys /\ Trial(set.hash, Key(p), View(p), proc[p])
  BY <1>1, AtWork DEF TrialsIInv, Tried
<1>3. /\ proc[p].attempt <= Count(set.hash, Key(p), View(p)) /\ proc[p].attempt \in Nat /\ Attempts \in Nat
      /\ Count(set.hash, Key(p), View(p)) \in Nat
  BY <1>1, <1>2, CountTyped DEF Trial, Conflict, Progress, FewShareAHash
<1>4. Count(set.hash, Key(p), View(p)) < Attempts
  BY <1>1, <1>2, CountBounded
<1>5. ~(proc[p].attempt >= Attempts)
  BY <1>3, <1>4
<1>6. set' = set /\ file' = file /\ proc' = [proc EXCEPT ![p] = [FromTheStart(p) EXCEPT !.attempt = @ + 1]]
  BY <1>5 DEF Restart
<1>7. proc'[p] = [FromTheStart(p) EXCEPT !.attempt = @ + 1]
  BY <1>1, <1>6
<1>8. /\ proc'[p].pc = "look" /\ proc'[p].draft = proc[p].draft /\ proc'[p].block = proc[p].block
      /\ proc'[p].op = proc[p].op /\ proc'[p].attempt = proc[p].attempt + 1 /\ proc'[p].results = proc[p].results
  BY <1>1, <1>7 DEF FromTheStart, At, Progress
<1>9. Trial(set.hash, Key(p), View(p), proc'[p])
  BY <1>3, <1>8 DEF Trial
<1> QED BY <1>1, <1>6, <1>8, <1>9, TriesInPlace

LEMMA SchemaTried ==
  ASSUME WellFormed, FewShareAHash, TrialsIInv, TablesIInv', NEW p \in Processes, Schema(p) \/ NewSchema(p)
  PROVE  Tried(p)' /\ Succeeds(p)'
<1>1. /\ TablesIInv /\ proc \in [Processes -> Progress] /\ proc[p] \in Progress /\ Succeeds(p)
  BY DEF TrialsIInv, TablesIInv, Typed
<1>2. proc[p].pc \in {"schema", "newSchema"} /\ Trial(set.hash, Key(p), View(p), proc[p])
  BY DEF TrialsIInv, Tried, Schema, NewSchema
<1>3. CASE Schema(p)
  <2>1. set' = set /\ file' = file
    BY <1>3 DEF Schema
  <2>2. CASE proc'[p].pc = "next"
    <3>1. \/ \E pc : proc' = [proc EXCEPT ![p].pc = pc]
          \/ proc' = [proc EXCEPT ![p] = [At(p, "next") EXCEPT !.op = @ + 1]]
      BY <1>3 DEF Schema
    <3>2. CASE \E pc : proc' = [proc EXCEPT ![p].pc = pc]
      BY <3>2, <2>2, <1>1, NoTrial DEF Succeeds, Progress
    <3>3. CASE proc' = [proc EXCEPT ![p] = [At(p, "next") EXCEPT !.op = @ + 1]]
      <4>1. proc'[p] = [At(p, "next") EXCEPT !.op = @ + 1]
        BY <3>3, <1>1
      <4>2. proc'[p].results = proc[p].results
        BY <4>1, <1>1 DEF At, Progress
      <4> QED BY <4>2, <2>2, <1>1, NoTrial DEF Succeeds
    <3> QED BY <3>1, <3>2, <3>3
  <2>3. CASE proc'[p].pc # "next"
    <3>1. PICK pc : proc' = [proc EXCEPT ![p].pc = pc] /\ pc \in {"look", "create", "newSchema"}
      <4>1. Name(p) \in View(p).schemas \/ Operation(p).op = "index"
        <5> SUFFICES ASSUME ~(Name(p) \in View(p).schemas \/ Operation(p).op = "index") PROVE FALSE
          OBVIOUS
        <5>1. proc'[p] = [At(p, "next") EXCEPT !.op = @ + 1]
          BY <1>1, <1>3 DEF Schema
        <5> QED BY <5>1, <2>3, <1>1 DEF At, Progress
      <4> QED BY <4>1, <1>3 DEF Schema
    <3>2. /\ proc'[p].pc = pc /\ proc'[p].draft = proc[p].draft /\ proc'[p].block = proc[p].block
          /\ proc'[p].op = proc[p].op /\ proc'[p].attempt = proc[p].attempt /\ proc'[p].results = proc[p].results
      BY <3>1, <1>1 DEF Progress
    <3>3. Trial(set.hash, Key(p), View(p), proc'[p])
      BY <3>1, <3>2, <1>2 DEF Trial
    <3> QED BY <3>2, <3>3, <2>1, <1>1, TriesInPlace
  <2> QED BY <2>2, <2>3
<1>4. CASE NewSchema(p)
  <2>1. CASE Name(p) \in View(p).schemas
    BY <2>1, <1>4, ThrowTried DEF NewSchema, Results
  <2>2. CASE Name(p) \notin View(p).schemas
    <3> DEFINE d == [View(p) EXCEPT !.schemas = @ \cup {Name(p)}]
    <3>1. Sound(set.hash, d) /\ Grows(View(p), d)
      BY <1>1, <1>2, AtWork, ViewSound, SchemaSound
    <3> HIDE DEF d
    <3>2. PICK pc \in PCs : pc = (IF Remembered(p) = Missing THEN "look" ELSE "create")
      BY DEF PCs
    <3>3. PICK q : q = At(p, pc)
      OBVIOUS
    <3>4. /\ q \in Progress /\ q.draft = proc[p].draft /\ q.base = proc[p].base
          /\ q.block = proc[p].block /\ q.op = proc[p].op /\ q.pc = pc
          /\ q.pending # {} => Libsql(p) /\ InTransaction(p)
      BY <3>3, <1>1, MoveTyped
    <3>5. q.attempt = proc[p].attempt /\ q.results = proc[p].results
      BY <3>3, <1>1 DEF At, Progress
    <3>6. Write(p, d, q) /\ set' = set /\ cache' = cache
      BY <3>2, <3>3, <2>2, <1>4 DEF NewSchema, d
    <3>7. View(p)' = d
      <4>1. cache' \in [Processes -> Memories] /\ \A o \in Processes : o # p => cache'[o] = cache[o]
        BY <3>6, <1>1 DEF TablesIInv, Typed
      <4> QED BY <3>1, <3>4, <3>6, <4>1, <1>1, WritingStep
    <3>8. /\ proc'[p].pc = pc /\ proc'[p].results = proc[p].results /\ proc'[p].attempt = proc[p].attempt
          /\ proc'[p].block = proc[p].block /\ proc'[p].op = proc[p].op
      BY <3>4, <3>5, <3>6, WriteKeeps
    <3>9. Key(p)' = Key(p) /\ Key(p) \in Keys
      BY <3>6, <3>8, <1>1, <1>2, SamePlace, AtWork
    <3>10. /\ Count(set.hash, Key(p), View(p)) <= Count(set.hash, Key(p), d)
           /\ Count(set.hash, Key(p), View(p)) \in Nat /\ Count(set.hash, Key(p), d) \in Nat
           /\ proc[p].attempt \in Nat
      BY <3>1, <3>9, <1>1, CountGrows, CountTyped DEF Progress
    <3>11. Trial(set.hash, Key(p), d, proc'[p])
      BY <3>2, <3>8, <3>10, <1>2 DEF Trial
    <3> QED BY <3>6, <3>7, <3>8, <3>9, <3>11, <1>1 DEF Tried, Succeeds
  <2> QED BY <2>1, <2>2
<1> QED BY <1>3, <1>4

LEMMA TrialsInit ==
  ASSUME WellFormed, FewShareAHash, Init PROVE TrialsIInv
<1>1. TablesIInv
  BY TablesInit
<1>2. ASSUME NEW p \in Processes PROVE proc[p].pc = "next" /\ proc[p].results = <<>>
  BY DEF Init
<1> QED BY <1>1, <1>2 DEF TrialsIInv, Tried, Succeeds

LEMMA TrialsNext ==
  ASSUME WellFormed, FewShareAHash, TrialsIInv, [Next]_tablesVars PROVE TrialsIInv'
<1>1. TablesIInv /\ TablesIInv'
  BY TablesNext DEF TrialsIInv
<1>2. CASE UNCHANGED tablesVars
  <2> SUFFICES ASSUME NEW p \in Processes PROVE Tried(p)' /\ Succeeds(p)'
    BY <1>1 DEF TrialsIInv
  <2>1. set' = set /\ file' = file /\ proc' = proc
    BY <1>2 DEF tablesVars
  <2>2. Key(p)' = Key(p) /\ View(p)' = View(p)
    BY <2>1, SamePlace DEF View, InTransaction
  <2> QED BY <2>1, <2>2 DEF TrialsIInv, Tried, Succeeds
<1>3. CASE Next
  <2>1. PICK p \in Processes : Step(p)
    BY <1>3 DEF Next
  <2>2. Keeps(p)
    BY <2>1, <1>1, StepFine
  <2>3. Tried(p)' /\ Succeeds(p)'
    BY <2>1, <1>1, BlockTried, TableTried, StartTried, SearchTried, RestartTried, SchemaTried DEF Step
  <2>4. \A o \in Processes : Tried(o)' /\ Succeeds(o)'
    BY <2>2, <2>3, <1>1, OthersTry
  <2> QED BY <2>4, <1>1 DEF TrialsIInv
<1> QED BY <1>2, <1>3

(* A name gets its table within the attempts there are, however often the
   others are first, when fewer names have one hash. *)
THEOREM ResolutionEndsHolds ==
  ASSUME WellFormed, FewShareAHash PROVE Spec => []ResolutionEnds
<1>1. Init => TrialsIInv
  BY TrialsInit
<1>2. TrialsIInv /\ [Next]_tablesVars => TrialsIInv'
  BY TrialsNext
<1>3. TrialsIInv => ResolutionEnds
  BY DEF TrialsIInv, Succeeds, ResolutionEnds
<1> QED BY <1>1, <1>2, <1>3, PTL DEF Spec

--------------------
(* Namespaces *)

(* A joined string is its left part, the unit, and the rest. *)
LEMMA JoinedParts ==
  ASSUME NEW l \in NS!String, NEW r \in NS!String, NEW u \in Nat
  PROVE  /\ NS!Joined(l, u, r)[Len(l) + 1] = u
         /\ \A i \in 1 .. Len(l) : NS!Joined(l, u, r)[i] = l[i]
BY DEF NS!Joined, NS!String

(* What stands before a unit that it does not hold can be read back. *)
LEMMA JoinedIsInjective ==
  ASSUME NEW l1 \in NS!String, NEW l2 \in NS!String, NEW r1 \in NS!String, NEW r2 \in NS!String, NEW u \in Nat,
         \A i \in 1 .. Len(l1) : l1[i] # u, \A i \in 1 .. Len(l2) : l2[i] # u,
         NS!Joined(l1, u, r1) = NS!Joined(l2, u, r2)
  PROVE  l1 = l2
<1> DEFINE whole == NS!Joined(l1, u, r1)
<1>1. /\ whole[Len(l1) + 1] = u
      /\ \A i \in 1 .. Len(l1) : whole[i] = l1[i]
  BY JoinedParts
<1>2. /\ whole[Len(l2) + 1] = u
      /\ \A i \in 1 .. Len(l2) : whole[i] = l2[i]
  BY JoinedParts
<1> HIDE DEF whole
<1>3. Len(l1) \in Nat /\ Len(l2) \in Nat
  BY DEF NS!String
<1>4. ~ Len(l1) < Len(l2)
  <2> SUFFICES ASSUME Len(l1) < Len(l2) PROVE FALSE
    OBVIOUS
  <2>1. Len(l1) + 1 \in 1 .. Len(l2)
    BY <1>3
  <2> QED BY <2>1, <1>1, <1>2
<1>5. ~ Len(l2) < Len(l1)
  <2> SUFFICES ASSUME Len(l2) < Len(l1) PROVE FALSE
    OBVIOUS
  <2>1. Len(l2) + 1 \in 1 .. Len(l1)
    BY <1>3
  <2> QED BY <2>1, <1>1, <1>2
<1>6. Len(l1) = Len(l2)
  BY <1>3, <1>4, <1>5
<1>7. \A i \in 1 .. Len(l1) : l1[i] = l2[i]
  BY <1>1, <1>2, <1>6
<1> QED BY <1>6, <1>7, SeqEqual DEF NS!String

(* No physical key belongs to two namespaces. *)
LEMMA PrefixesAreApart ==
  ASSUME NS!WellNamed, NEW n1 \in Spaces, NEW n2 \in Spaces, NEW k1 \in KeyNames, NEW k2 \in KeyNames,
         NS!Prefix(n1, k1) = NS!Prefix(n2, k2)
  PROVE  n1 = n2
<1>1. n1 \in NS!String /\ n2 \in NS!String /\ k1 \in NS!String /\ k2 \in NS!String
  BY DEF NS!WellNamed
<1>2. NS!SEPARATOR \in Nat
  BY DEF NS!SEPARATOR
<1>3. /\ \A i \in 1 .. Len(n1) : n1[i] # NS!SEPARATOR
      /\ \A i \in 1 .. Len(n2) : n2[i] # NS!SEPARATOR
  BY DEF NS!WellNamed, NS!IsNamespace
<1> QED BY <1>1, <1>2, <1>3, JoinedIsInjective DEF NS!Prefix

(* Receipts are kept per physical key, as rows are. *)
SpacesIInv == NS!TypeOK /\ receipts = [p \in NS!Physical |-> receipts[p]]

LEMMA InitIInv == NS!WellNamed /\ NS!Init => SpacesIInv
<1> SUFFICES ASSUME NS!WellNamed, NS!Init PROVE SpacesIInv
  OBVIOUS
<1>1. Len(Versions) \in Nat
  BY DEF NS!WellNamed, NS!String
<1> QED BY <1>1 DEF NS!Init, SpacesIInv, NS!TypeOK

(* What was minted stays so. *)
LEMMA MintedGrows ==
  ASSUME NS!WellNamed, NS!TypeOK, minted < Len(Versions), minted' = minted + 1
  PROVE  /\ minted' \in 0 .. Len(Versions)
         /\ NS!Minted \subseteq NS!Minted' /\ Versions[minted + 1] \in NS!Minted'
<1>1. minted \in Nat /\ Len(Versions) \in Nat
  BY DEF NS!TypeOK, NS!WellNamed, NS!String
<1>2. \A i \in 1 .. minted : i \in 1 .. minted'
  BY <1>1
<1>3. minted + 1 \in 1 .. minted'
  BY <1>1
<1> QED BY <1>1, <1>2, <1>3 DEF NS!Minted

(* A row that is written holds the version that was minted for it. *)
LEMMA WriteTyped ==
  ASSUME NS!WellNamed, NS!TypeOK, NEW p \in NS!Physical, NEW v \in Values,
         minted < Len(Versions), minted' = minted + 1, NS!Write(p, v)
  PROVE  rows' \in [NS!Physical -> [value : Values, version : NS!Minted'] \cup {Missing}]
<1>1. NS!Minted \subseteq NS!Minted' /\ Versions[minted + 1] \in NS!Minted'
  BY MintedGrows
<1>2. [value |-> v, version |-> Versions[minted + 1]] \in [value : Values, version : NS!Minted']
  BY <1>1
<1>3. rows \in [NS!Physical -> [value : Values, version : NS!Minted'] \cup {Missing}]
  BY <1>1 DEF NS!TypeOK
<1> QED BY <1>2, <1>3 DEF NS!Write

LEMMA SetIInv ==
  ASSUME NS!WellNamed, SpacesIInv, NEW ns \in Spaces, NEW k \in KeyNames, NEW v \in Values, NS!Set(ns, k, v)
  PROVE  SpacesIInv'
<1>1. NS!Prefix(ns, k) \in NS!Physical
  BY DEF NS!Physical
<1>2. rows' \in [NS!Physical -> [value : Values, version : NS!Minted'] \cup {Missing}]
  BY <1>1, WriteTyped DEF NS!Set, SpacesIInv
<1>3. minted' \in 0 .. Len(Versions) /\ NS!Minted \subseteq NS!Minted'
  BY MintedGrows DEF NS!Set, SpacesIInv
<1> QED BY <1>2, <1>3 DEF NS!Set, SpacesIInv, NS!TypeOK

(* Steps that write nothing. *)
LEMMA ReadIInv ==
  ASSUME SpacesIInv, UNCHANGED <<rows, minted, receipts>>
  PROVE  SpacesIInv'
BY DEF SpacesIInv, NS!TypeOK, NS!Minted

LEMMA DeleteIInv ==
  ASSUME NS!WellNamed, SpacesIInv, NEW ns \in Spaces, NEW k \in KeyNames, NS!Delete(ns, k)
  PROVE  SpacesIInv'
<1>1. rows' \in [NS!Physical -> [value : Values, version : NS!Minted] \cup {Missing}]
  BY DEF NS!Delete, SpacesIInv, NS!TypeOK
<1>2. UNCHANGED <<minted, receipts>>
  BY DEF NS!Delete
<1> QED BY <1>1, <1>2 DEF SpacesIInv, NS!TypeOK, NS!Minted

LEMMA ApplyIInv ==
  ASSUME NS!WellNamed, SpacesIInv, NEW ns \in Spaces, NEW k \in KeyNames, NEW v \in Values, NEW token,
         NEW id \in Ids \cup {Missing}, NS!Apply(ns, k, token, v, id)
  PROVE  SpacesIInv'
<1> DEFINE request == NS!Bound(ns, k, token, v)
<1>1. /\ minted < Len(Versions) /\ minted' = minted + 1
      /\ NS!Write(request.key, v)
      /\ receipts' = IF id = Missing THEN receipts
                     ELSE [receipts EXCEPT ![NS!Prefix(ns, id)] = [request |-> request, version |-> Versions[minted + 1]]]
  BY DEF NS!Apply
<1>2. request.key = NS!Prefix(ns, k) /\ NS!Prefix(ns, k) \in NS!Physical
  BY DEF NS!Bound, NS!Physical
<1> HIDE DEF request
<1>3. minted' \in 0 .. Len(Versions) /\ NS!Minted \subseteq NS!Minted' /\ Versions[minted + 1] \in NS!Minted'
  BY <1>1, MintedGrows DEF SpacesIInv
<1>4. rows' \in [NS!Physical -> [value : Values, version : NS!Minted'] \cup {Missing}]
  BY <1>1, <1>2, WriteTyped DEF SpacesIInv
<1>5. /\ receipts' = [p \in NS!Physical |-> receipts'[p]]
      /\ \A p \in NS!Physical : receipts'[p] # Missing => receipts'[p].version \in NS!Minted'
  <2>1. CASE id = Missing
    BY <2>1, <1>1, <1>3 DEF SpacesIInv, NS!TypeOK
  <2>2. CASE id # Missing
    <3>1. NS!Prefix(ns, id) \in NS!Physical
      BY <2>2 DEF NS!Physical, NS!WellNamed
    <3> QED BY <3>1, <2>2, <1>1, <1>3 DEF SpacesIInv, NS!TypeOK
  <2> QED BY <2>1, <2>2
<1> QED BY <1>3, <1>4, <1>5 DEF SpacesIInv, NS!TypeOK

LEMMA NextIInv == NS!WellNamed /\ SpacesIInv /\ [NS!Next]_(NS!spaceVars) => SpacesIInv'
<1> SUFFICES ASSUME NS!WellNamed, SpacesIInv, [NS!Next]_(NS!spaceVars) PROVE SpacesIInv'
  OBVIOUS
<1>1. CASE UNCHANGED NS!spaceVars
  BY <1>1, ReadIInv DEF NS!spaceVars
<1>2. CASE NS!Next
  <2> SUFFICES ASSUME NEW ns \in Spaces, NEW k \in KeyNames,
                      \/ \E v \in Values : NS!Set(ns, k, v)
                      \/ NS!Delete(ns, k)
                      \/ NS!GetVersioned(ns, k)
                      \/ NS!Keys(ns, k)
                      \/ \E token \in {g.token : g \in given} \cup {Missing}, v \in Values, id \in Ids \cup {Missing} :
                           NS!Mutate(ns, k, token, v, id)
               PROVE  SpacesIInv'
    BY <1>2 DEF NS!Next
  <2>1. ASSUME NEW v \in Values, NS!Set(ns, k, v) PROVE SpacesIInv'
    BY <2>1, SetIInv
  <2>2. CASE NS!Delete(ns, k)
    BY <2>2, DeleteIInv
  <2>3. CASE NS!GetVersioned(ns, k) \/ NS!Keys(ns, k)
    BY <2>3, ReadIInv DEF NS!GetVersioned, NS!Keys
  <2>4. ASSUME NEW token \in {g.token : g \in given} \cup {Missing}, NEW v \in Values, NEW id \in Ids \cup {Missing},
               NS!Mutate(ns, k, token, v, id)
        PROVE  SpacesIInv'
    <3>1. CASE NS!Apply(ns, k, token, v, id)
      BY <3>1, ApplyIInv
    <3>2. CASE NS!Refuse(ns, k, token) \/ NS!Replay(ns, k, token, v, id) \/ NS!Conflict(ns, k, token, v, id)
      BY <3>2, ReadIInv DEF NS!Refuse, NS!Replay, NS!Conflict
    <3> QED BY <2>4, <3>1, <3>2 DEF NS!Mutate
  <2> QED BY <2>1, <2>2, <2>3, <2>4
<1> QED BY <1>1, <1>2

(* Rows and receipts are where the namespaces put them, and hold versions
   that the store minted. *)
THEOREM TypesHold == NS!WellNamed => (NS!Spec => []NS!TypeOK)
<1> SUFFICES ASSUME NS!WellNamed PROVE NS!Spec => []NS!TypeOK
  OBVIOUS
<1>1. NS!Init => SpacesIInv
  BY InitIInv
<1>2. SpacesIInv /\ [NS!Next]_(NS!spaceVars) => SpacesIInv'
  BY NextIInv
<1>3. SpacesIInv => NS!TypeOK
  BY DEF SpacesIInv
<1> QED BY <1>1, <1>2, <1>3, PTL DEF NS!Spec

(* The step of a handle leaves alone what is not under its own prefix. *)
LEMMA SetStays ==
  ASSUME NS!WellNamed, SpacesIInv, NEW ns \in Spaces, NEW k \in KeyNames, NEW p \in NS!Physical, p # NS!Prefix(ns, k),
         NEW v \in Values, NS!Set(ns, k, v)
  PROVE  rows'[p] = rows[p] /\ receipts' = receipts /\ last'.ns = ns
BY DEF NS!Set, NS!Write, NS!Call, SpacesIInv, NS!TypeOK

LEMMA DeleteStays ==
  ASSUME NS!WellNamed, SpacesIInv, NEW ns \in Spaces, NEW k \in KeyNames, NEW p \in NS!Physical, p # NS!Prefix(ns, k),
         NS!Delete(ns, k)
  PROVE  rows'[p] = rows[p] /\ receipts' = receipts /\ last'.ns = ns
BY DEF NS!Delete, NS!Call, SpacesIInv, NS!TypeOK

LEMMA ApplyStays ==
  ASSUME NS!WellNamed, SpacesIInv, NEW ns \in Spaces, NEW k \in KeyNames, NEW p \in NS!Physical, p # NS!Prefix(ns, k),
         NEW v \in Values, NEW token, NEW id \in Ids \cup {Missing}, NS!Apply(ns, k, token, v, id),
         id # Missing => p # NS!Prefix(ns, id)
  PROVE  rows'[p] = rows[p] /\ receipts'[p] = receipts[p] /\ last'.ns = ns
<1> DEFINE request == NS!Bound(ns, k, token, v)
<1>1. /\ NS!Write(request.key, v)
      /\ receipts' = IF id = Missing THEN receipts
                     ELSE [receipts EXCEPT ![NS!Prefix(ns, id)] = [request |-> request, version |-> Versions[minted + 1]]]
      /\ last'.ns = ns
  BY DEF NS!Apply, NS!HandOut, NS!Call
<1>2. request.key = NS!Prefix(ns, k)
  BY DEF NS!Bound
<1> HIDE DEF request
<1> QED BY <1>1, <1>2 DEF NS!Write, SpacesIInv, NS!TypeOK

LEMMA ReadStays ==
  ASSUME NEW ns \in Spaces, NEW k \in KeyNames,
         \/ NS!GetVersioned(ns, k)
         \/ NS!Keys(ns, k)
         \/ \E token \in {g.token : g \in given} \cup {Missing}, v \in Values, id \in Ids \cup {Missing} :
              NS!Refuse(ns, k, token) \/ NS!Replay(ns, k, token, v, id) \/ NS!Conflict(ns, k, token, v, id)
  PROVE  rows' = rows /\ receipts' = receipts /\ last'.ns = ns
<1>1. CASE NS!GetVersioned(ns, k)
  BY <1>1 DEF NS!GetVersioned, NS!HandOut, NS!Call
<1>2. CASE NS!Keys(ns, k)
  BY <1>2 DEF NS!Keys, NS!Call
<1>3. ASSUME NEW token \in {g.token : g \in given} \cup {Missing}, NEW v \in Values, NEW id \in Ids \cup {Missing},
             NS!Refuse(ns, k, token) \/ NS!Replay(ns, k, token, v, id) \/ NS!Conflict(ns, k, token, v, id)
      PROVE  rows' = rows /\ receipts' = receipts /\ last'.ns = ns
  <2>1. CASE NS!Refuse(ns, k, token)
    BY <2>1 DEF NS!Refuse, NS!Call
  <2>2. CASE NS!Replay(ns, k, token, v, id)
    BY <2>2 DEF NS!Replay, NS!HandOut, NS!Call
  <2>3. CASE NS!Conflict(ns, k, token, v, id)
    BY <2>3 DEF NS!Conflict, NS!HandOut, NS!Call
  <2> QED BY <1>3, <2>1, <2>2, <2>3
<1> QED BY <1>1, <1>2, <1>3

LEMMA StepIsolates ==
  ASSUME NS!WellNamed, SpacesIInv, NS!Next, NEW n \in Spaces, n # last'.ns
  PROVE  NS!View(n)' = NS!View(n) /\ NS!Answered(n)' = NS!Answered(n)
<1>1. PICK ns \in Spaces, k \in KeyNames :
        \/ \E v \in Values : NS!Set(ns, k, v)
        \/ NS!Delete(ns, k)
        \/ NS!GetVersioned(ns, k)
        \/ NS!Keys(ns, k)
        \/ \E token \in {g.token : g \in given} \cup {Missing}, v \in Values, id \in Ids \cup {Missing} :
             NS!Mutate(ns, k, token, v, id)
  BY DEF NS!Next
<1>2. last'.ns = ns
  <2>1. CASE \E v \in Values : NS!Set(ns, k, v)
    BY <2>1 DEF NS!Set, NS!Call
  <2>2. CASE NS!Delete(ns, k)
    BY <2>2 DEF NS!Delete, NS!Call
  <2>3. ASSUME NEW token, NEW v, NEW id, NS!Apply(ns, k, token, v, id)
        PROVE  last'.ns = ns
    BY <2>3 DEF NS!Apply, NS!HandOut, NS!Call
  <2> QED BY <1>1, <2>1, <2>2, <2>3, ReadStays DEF NS!Mutate
<1>3. ASSUME NEW m \in KeyNames
      PROVE  rows'[NS!Prefix(n, m)] = rows[NS!Prefix(n, m)] /\ receipts'[NS!Prefix(n, m)] = receipts[NS!Prefix(n, m)]
  <2>1. NS!Prefix(n, m) \in NS!Physical
    BY DEF NS!Physical
  <2>2. \A j \in KeyNames : NS!Prefix(n, m) # NS!Prefix(ns, j)
    BY <1>2, PrefixesAreApart
  <2>3. CASE \E v \in Values : NS!Set(ns, k, v)
    BY <2>1, <2>2, <2>3, SetStays
  <2>4. CASE NS!Delete(ns, k)
    BY <2>1, <2>2, <2>4, DeleteStays
  <2>5. ASSUME NEW token \in {g.token : g \in given} \cup {Missing}, NEW v \in Values, NEW id \in Ids \cup {Missing},
               NS!Apply(ns, k, token, v, id)
        PROVE  rows'[NS!Prefix(n, m)] = rows[NS!Prefix(n, m)] /\ receipts'[NS!Prefix(n, m)] = receipts[NS!Prefix(n, m)]
    <3>1. id # Missing => id \in KeyNames
      BY DEF NS!WellNamed
    <3> QED BY <2>1, <2>2, <2>5, <3>1, ApplyStays
  <2> QED BY <1>1, <2>3, <2>4, <2>5, ReadStays DEF NS!Mutate
<1> QED BY <1>3 DEF NS!View, NS!Answered

(* What is done through one namespace's handle changes nothing that
   another sees, whatever the namespaces and keys are called. *)
THEOREM NamespacesAreIsolated == NS!WellNamed => (NS!Spec => NS!Isolation)
<1> SUFFICES ASSUME NS!WellNamed PROVE NS!Spec => NS!Isolation
  OBVIOUS
<1>1. NS!Init => SpacesIInv
  BY InitIInv
<1>2. SpacesIInv /\ [NS!Next]_(NS!spaceVars) => SpacesIInv'
  BY NextIInv
<1>3. SpacesIInv /\ [NS!Next]_(NS!spaceVars) => [NS!StaysWithin]_(NS!spaceVars)
  BY StepIsolates DEF NS!StaysWithin
<1> QED BY <1>1, <1>2, <1>3, PTL DEF NS!Spec, NS!Isolation
================================================================================
