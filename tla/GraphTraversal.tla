---------------------------- MODULE GraphTraversal ----------------------------
(***************************************************************************)
(* Walking edges (packages/store/src/graph.ts): neighbors, traverse, which *)
(* loads every eligible edge at once, and traverseFrontierBatched, which   *)
(* asks at each hop for the edges at its frontier, while edges are put and *)
(* removed. Over a graph configured in SurrealDB                           *)
(* (packages/surreal/src/graph.ts) the database walks, and a put is a      *)
(* deletion and a relation, one statement after the other.                 *)
(*                                                                         *)
(* An ask is [way, start, depth, direction, types, where]: a depth is in   *)
(* halves; where gives fields values. A walk ends with sets, which the     *)
(* code sorts by id.                                                       *)
(***************************************************************************)
EXTENDS Naturals, Integers, FiniteSets

CONSTANTS
  Setups,      \* [store, edges, asks]: "plain", "listing" (it has listWhereIn) or "surreal";
               \* per id an edge or Missing; the asks
  Nodes, EdgeIds,
  NewEdges,    \* the edges that are put: [from, to, type, live]
  Edits,       \* bounds what is put and removed
  MaxHops,     \* no ask goes deeper
  Missing      \* no edge, no answer yet

VARIABLES
  setup,
  edges,       \* per id: the edge, or Missing
  relating,    \* the put between its statements: [id, edge]
  walk,        \* [pc, ask, hop, visited, frontier, passed, outs, ins]
  witness,     \* the edges there always, and at some time, since the walk began
  edits

graphVars == <<setup, edges, relating, walk, witness, edits>>

Content == {[id |-> i, edge |-> edges[i]] : i \in {j \in EdgeIds : edges[j] # Missing}}

Unasked == [pc |-> "idle", ask |-> Missing, hop |-> 0, visited |-> {}, frontier |-> {}, passed |-> {},
            outs |-> {}, ins |-> {}]

Init ==
  /\ setup \in Setups
  /\ edges = setup.edges /\ relating = Missing /\ walk = Unasked
  /\ witness = [always |-> {}, once |-> {}] /\ edits = 0

--------------------
(* Edges *)

Put(i, e) ==
  /\ edits < Edits /\ edits' = edits + 1
  /\ IF setup.store = "surreal"
     THEN /\ relating = Missing /\ relating' = [id |-> i, edge |-> e]
          /\ edges' = [edges EXCEPT ![i] = Missing]
     ELSE edges' = [edges EXCEPT ![i] = e] /\ UNCHANGED relating

Relate ==
  /\ relating # Missing
  /\ edges' = [edges EXCEPT ![relating.id] = relating.edge] /\ relating' = Missing
  /\ UNCHANGED edits

Unlink(i) ==
  /\ edits < Edits /\ edits' = edits + 1
  /\ edges[i] # Missing /\ edges' = [edges EXCEPT ![i] = Missing]
  /\ UNCHANGED relating

--------------------
(* Which edges an ask is about *)

Holds(e, where) == \A f \in DOMAIN where : e[f] = where[f]

OfType(e, types) == types = {} \/ e.type \in types

Eligible(ask, E) == {x \in E : Holds(x.edge, ask.where) /\ OfType(x.edge, ask.types)}

Without(where, field) == [f \in DOMAIN where \ {field} |-> where[f]]

Outward(ask) == ask.direction \in {"out", "both"}

Inward(ask) == ask.direction \in {"in", "both"}

(* listWhereIn: the frontier's field takes the place of a filter on it. *)
Leaving(ask, E, frontier) ==
  {x \in E : Outward(ask) /\ x.edge.from \in frontier /\ Holds(x.edge, Without(ask.where, "from"))}

Entering(ask, E, frontier) ==
  {x \in E : Inward(ask) /\ x.edge.to \in frontier /\ Holds(x.edge, Without(ask.where, "to"))}

(* Bug: an edge that changed in between is two. *)
Joined(outs, ins) == outs \cup ins

(* Of two versions of an edge, the one that leaves was seen first. *)
Dedup(outs, ins) == outs \cup {x \in ins : \A y \in outs : y.id # x.id}

Adjacent(ask, e, n) == (Outward(ask) /\ e.from = n) \/ (Inward(ask) /\ e.to = n)

Far(e, n) == IF e.from = n THEN e.to ELSE e.from

--------------------
(* Walks *)

Hops(depth) == (depth + 1) \div 2

Start(ask) ==
  [Unasked EXCEPT !.pc = "walking", !.ask = ask, !.visited = {ask.start}, !.frontier = {ask.start}]

(* One hop over E: a node is expanded once. *)
Expand(w, E) ==
  LET met == {x \in E : \E n \in w.frontier : Adjacent(w.ask, x.edge, n)}
      next == {Far(x.edge, n) : <<x, n>> \in {p \in met \X w.frontier : Adjacent(w.ask, p[1].edge, p[2])}} \ w.visited IN
  [w EXCEPT !.hop = @ + 1, !.visited = @ \cup next, !.frontier = next,
            !.passed = Dedup(@, met), !.outs = {}, !.ins = {}]

Goes(w) == w.hop < Hops(w.ask.depth) /\ w.frontier # {}

(* traverse's loop, over the edges it loaded. *)
Walked(ask, E) ==
  LET w[h \in 0 .. MaxHops] == IF h = 0 THEN Start(ask) ELSE IF Goes(w[h - 1]) THEN Expand(w[h - 1], E) ELSE w[h - 1] IN
  w[MaxHops]

End(w) == [w EXCEPT !.pc = "ended"]

Native == setup.store = "surreal"

Way(ask) ==
  IF ask.way = "neighbors" THEN "neighbors"
  ELSE IF Native THEN "native" ELSE IF setup.store = "plain" THEN "traverse" ELSE ask.way

Nothing(ask) == End([Start(ask) EXCEPT !.frontier = {}])

Ask(ask) ==
  /\ walk.pc = "idle"
  /\ walk' = IF Way(ask) # "neighbors" /\ ask.depth <= 0 THEN Nothing(ask) ELSE Start(ask)

Asking(way) == walk.pc = "walking" /\ Way(walk.ask) = way

(* traverse: one list, and the rest in memory. *)
Load ==
  /\ Asking("traverse")
  /\ walk' = End(Walked(walk.ask, Eligible(walk.ask, Content)))

(* neighbors and each hop of the batched walk: two lists of edges at once,
   for "both". *)
Lists == Asking("batched") \/ Asking("neighbors")

ListLeaving ==
  /\ Lists /\ walk' = [walk EXCEPT !.outs = Leaving(walk.ask, Content, walk.frontier), !.pc = "left"]

ListEntering ==
  /\ walk.pc = "left"
  /\ LET ask == walk.ask
         ins == Entering(ask, Content, walk.frontier)
         pulled == {x \in Dedup(walk.outs, ins) : OfType(x.edge, ask.types)}
         next == [Expand(walk, pulled) EXCEPT !.pc = "walking"] IN
     walk' = IF Way(ask) = "neighbors" THEN [End(walk) EXCEPT !.passed = pulled]
             ELSE IF Goes(next) THEN next ELSE End(next)

--------------------
(* The walk of SurrealDB *)

(* Every node within floor(depth) hops, along edges of any kind. *)
Collected(ask, E) ==
  Walked([ask EXCEPT !.depth = 2 * (@ \div 2)], E).visited \ {ask.start}

CollectNodes ==
  /\ Asking("native")
  /\ walk' = [walk EXCEPT !.pc = "collected", !.visited = {walk.ask.start} \cup Collected(walk.ask, Content)]

IsConditioned(ask) == ask.types # {} \/ DOMAIN ask.where # {}

(* Eligible edges between the nodes. The clause goes on with AND, which
   says something else to a statement without a condition. *)
Between(ask, x, reached) ==
  LET near == reached \cup {ask.start} IN
  \/ Outward(ask) /\ x.edge.from \in near /\ x.edge.to \in reached
  \/ Inward(ask) /\ x.edge.to \in near /\ x.edge.from \in reached

SelectEdges ==
  /\ walk.pc = "collected"
  /\ LET ask == walk.ask
         selected == {x \in Eligible(ask, Content) : Between(ask, x, walk.visited \ {ask.start})} IN
     \/ IsConditioned(ask) /\ walk' = [End(walk) EXCEPT !.passed = selected]
     \/ ~IsConditioned(ask) /\ walk' \in {End(walk), [walk EXCEPT !.pc = "refused"]}

--------------------

Watch ==
  LET now == {[id |-> i, edge |-> edges'[i]] : i \in {j \in EdgeIds : edges'[j] # Missing}} IN
  witness' = CASE walk'.pc = "idle" \/ walk.pc \in {"ended", "refused"} -> witness
               [] walk.pc = "idle" /\ walk'.pc # "idle" -> [always |-> now, once |-> now]
               [] OTHER -> [always |-> witness.always \cap now, once |-> witness.once \cup now]

Walks ==
  /\ Load \/ ListLeaving \/ ListEntering \/ CollectNodes \/ SelectEdges \/ \E ask \in setup.asks : Ask(ask)
  /\ UNCHANGED <<edges, relating, edits>>

Edit ==
  /\ Relate \/ \E i \in EdgeIds : Unlink(i) \/ \E e \in NewEdges : Put(i, e)
  /\ UNCHANGED walk

Next == (Walks \/ Edit) /\ Watch /\ UNCHANGED setup

Spec == Init /\ [][Next]_graphVars

--------------------
(* Properties *)

Reached == walk.visited \ {walk.ask.start}

(* A step along an edge, for a walk that drops filters its hops replace. *)
Leads(ask, x, n, m) ==
  LET passes(field) == Holds(x.edge, IF Way(ask) = "batched" THEN Without(ask.where, field) ELSE ask.where) IN
  /\ OfType(x.edge, ask.types)
  /\ \/ Outward(ask) /\ x.edge.from = n /\ x.edge.to = m /\ passes("from")
     \/ Inward(ask) /\ x.edge.to = n /\ x.edge.from = m /\ passes("to")

(* The nodes at the end of a path of at most so many hops. *)
Within(ask, E, hops) ==
  {n \in Nodes : \E k \in 0 .. hops : \E path \in [0 .. k -> Nodes] :
     /\ path[0] = ask.start /\ path[k] = n
     /\ \A i \in 1 .. k : \E x \in E : Leads(ask, x, path[i - 1], path[i])}

(* Edges that a walk of so many hops passes. *)
Passed(ask, E, hops) ==
  {x \in E : \E n \in Within(ask, E, hops - 1), m \in Nodes : Leads(ask, x, n, m)}

TypeOK ==
  /\ \A i \in EdgeIds : edges[i] # Missing => edges[i].from \in Nodes /\ edges[i].to \in Nodes
  /\ walk.pc # "idle" => walk.visited \subseteq Nodes /\ walk.frontier \subseteq walk.visited
  /\ witness.always \subseteq witness.once

(* A walk finds what a path of edges that were there all the while leads
   to, and nothing that no path of edges of its time leads to: whatever is
   put and removed between its hops. If nothing is, it is exact. *)
WalksAreOfTheirTime ==
  walk.pc = "ended" /\ Way(walk.ask) \in {"traverse", "batched"} =>
    LET ask == walk.ask
        hops == IF ask.depth <= 0 THEN 0 ELSE Hops(ask.depth) IN
    /\ Within(ask, witness.always, hops) \subseteq walk.visited
    /\ walk.visited \subseteq Within(ask, witness.once, hops)
    /\ walk.passed \subseteq witness.once
    /\ hops > 0 => Passed(ask, witness.always, hops) \subseteq walk.passed
    /\ witness.always = witness.once => walk.passed = (IF hops = 0 THEN {} ELSE Passed(ask, witness.once, hops))

(* What is next to a node was next to it at some time of the question, and
   nothing that was there all the while is left out. *)
NeighborsAreNext ==
  walk.pc = "ended" /\ Way(walk.ask) = "neighbors" =>
    LET next(E) == {x \in E : OfType(x.edge, walk.ask.types) /\ Adjacent(walk.ask, x.edge, walk.ask.start)} IN
    next(witness.always) \subseteq walk.passed /\ walk.passed \subseteq next(witness.once)

(* An edge's id is passed once, although "both" asks for its two ends at
   two times. *)
PassedOnce == \A x, y \in walk.passed : x.id = y.id => x = y

(* Of a whole number of hops, the database finds what the reference would,
   and of its edges only eligible ones. *)
NativeWalksMissNothing ==
  walk.pc = "ended" /\ Way(walk.ask) = "native" /\ walk.ask.depth % 2 = 0 /\ walk.ask.depth > 0 =>
    /\ Within(walk.ask, witness.always, Hops(walk.ask.depth)) \subseteq walk.visited
    /\ walk.passed = Eligible(walk.ask, walk.passed)
===============================================================================
