------------------------------ MODULE Ranking ------------------------------
(***************************************************************************)
(* The columns of a drawing: which edges rank (runtime_ranking_graph in    *)
(* validation.rs), the topological order of the components of what is left *)
(* and the ranks derived from it (topology.rs).  A component is the set of *)
(* its nodes; StrongComponents is the algorithm that computes it.          *)
(***************************************************************************)
EXTENDS Digraph, Integers, FiniteSets, Sequences, SequencesExt

CONSTANTS
  Nodes,        \* node ids
  Graphs,       \* the graphs and boundary constraints a caller may give
  SmallGraph,   \* bound: 1_000 in the code
  WideNet,      \* bound: 100 in the code
  None          \* no latest ranks

Graph ==
  [edges : SUBSET [id : Nat, source : Nodes, target : Nodes, ranks : BOOLEAN, net : Nat],
   breakers : SUBSET Nodes, inputs : SUBSET Nodes, outputs : SUBSET Nodes]

ASSUME NodesAssumption == Nodes \subseteq Nat /\ IsFiniteSet(Nodes)
ASSUME GraphsAssumption == Graphs \subseteq Graph
ASSUME NoneAssumption == None \notin [Nodes -> Nat]
ASSUME BoundsAssumption == SmallGraph \in Nat /\ WideNet \in Nat

VARIABLES
  graph,        \* the graph of the call
  stage,        \* the loop that runs
  component,    \* component of each node, a set of nodes
  out,          \* component_out: successors of each component
  indegree,     \* predecessors of each component that are not ordered yet
  ready,        \* components that may be ordered next
  topological,  \* components in topological order
  cursor,       \* position of a loop over topological
  rank,         \* component_rank
  earliest,     \* the earliest rank of each node
  distance,     \* distance_to_sink of each component
  latest        \* the latest ranks, if they are a candidate

vars == <<graph, stage, component, out, indegree, ready, topological, cursor, rank,
          earliest, distance, latest>>
ordering == <<component, out, indegree, ready, topological>>

-----------------------------------------------------------------------------
(* Which edges rank.                                                       *)

Pairs(edges) == {<<e.source, e.target>> : e \in edges}

Participating(g) == {e \in g.edges : e.ranks}

\* What validate_constraints and validate_constraint_structure let through.
WellConstrained(g) ==
  /\ g.inputs \cap g.outputs = {}
  /\ \A e \in Participating(g) : e.target \notin g.inputs /\ e.source \notin g.outputs

\* Plausible slip: an edge back into a breaker counts as feedback only if it
\* is a self-loop.
IsFeedbackLoop(g, e) == e.target \in g.breakers /\ e.source = e.target

\* "Only an edge that participates in an actual cycle is a feedback boundary."
IsFeedback(g, e) ==
  /\ e.target \in g.breakers
  /\ Connected(Nodes, Pairs(Participating(g)), e.source, e.target)

RankEdges(g) == {e \in Participating(g) : ~IsFeedback(g, e)}

RankPairs == Pairs(RankEdges(graph))

-----------------------------------------------------------------------------
(* Components in topological order.                                        *)

ComponentOf(n) == {m \in Nodes : Connected(Nodes, RankPairs, n, m)}

Components == {component[n] : n \in Nodes}

Predecessors(d) == {c \in Components : d \in out[c]}

ComponentGraph ==
  /\ stage = "graph"
  /\ component' = [n \in Nodes |-> ComponentOf(n)]
  /\ out' = [c \in Components' |->
               {d \in Components' : d # c /\ \E p \in RankPairs : p[1] \in c /\ p[2] \in d}]
  /\ indegree' = [d \in Components' |-> Cardinality(Predecessors(d)')]
  /\ ready' = {d \in Components' : indegree'[d] = 0}
  /\ stage' = "order"
  /\ UNCHANGED <<graph, topological, cursor, rank, earliest, distance, latest>>

\* component_key: a component sorts by its least node id.
KeyBefore(c, d) == \E n \in c : \A m \in d : n <= m

\* Plausible slip: a component is ready as soon as one predecessor is ordered.
BecomesReadyEarly(current, d) == d \in out[current]

BecomesReady(current, d) == d \in out[current] /\ indegree[d] = 1

TakeReady ==
  /\ stage = "order"
  /\ \E current \in ready :
       /\ \A d \in ready : KeyBefore(current, d)
       /\ topological' = Append(topological, current)
       /\ indegree' = [d \in Components |->
                         IF d \in out[current] THEN indegree[d] - 1 ELSE indegree[d]]
       /\ ready' = (ready \ {current}) \cup {d \in Components : BecomesReady(current, d)}
  /\ UNCHANGED <<graph, stage, component, out, cursor, rank, earliest, distance, latest>>

-----------------------------------------------------------------------------
(* Earliest ranks.                                                         *)

\* Plausible slip: a component is kept off the first rank only without inputs.
FirstRankAnywhere(c) == 0

\* Once a node is a boundary input, only inputs start at the leftmost rank.
FirstRank(c) == IF graph.inputs # {} /\ ~(c \subseteq graph.inputs) THEN 1 ELSE 0

StartRanks ==
  /\ stage = "order"
  /\ ready = {}
  /\ rank' = [c \in Components |-> FirstRank(c)]
  /\ cursor' = 1
  /\ stage' = "relax"
  /\ UNCHANGED <<graph, ordering, earliest, distance, latest>>

\* Plausible slip: one is added after the maximum is taken.
RaisedByEach(c, d) == (IF rank[c] > rank[d] THEN rank[c] ELSE rank[d]) + 1

Raised(c, d) == IF rank[c] + 1 > rank[d] THEN rank[c] + 1 ELSE rank[d]

Relax ==
  /\ stage = "relax"
  /\ cursor \in DOMAIN topological
  /\ LET current == topological[cursor] IN
       rank' = [d \in Components |-> IF d \in out[current] THEN Raised(current, d) ELSE rank[d]]
  /\ cursor' = cursor + 1
  /\ UNCHANGED <<graph, stage, ordering, earliest, distance, latest>>

InteriorRanks == {rank[component[n]] : n \in Nodes \ graph.outputs}

OutputRank == IF InteriorRanks = {} THEN 0 ELSE Max(InteriorRanks) + 1

\* The end of earliest_ranks; a constrained graph has no other candidate.
PlaceOutputs ==
  /\ stage = "relax"
  /\ cursor \notin DOMAIN topological
  /\ earliest' = [n \in Nodes |->
                    IF n \in graph.outputs THEN OutputRank ELSE rank[component[n]]]
  /\ stage' = IF graph.inputs # {} \/ graph.outputs # {} THEN "done" ELSE "distance"
  /\ cursor' = Len(topological)
  /\ distance' = [c \in Components |-> 0]
  /\ UNCHANGED <<graph, ordering, rank, latest>>

-----------------------------------------------------------------------------
(* Latest ranks.                                                           *)

\* Plausible slip: the nearest sink counts instead of the farthest.
FarthestNearest(c) ==
  IF out[c] = {} THEN 0 ELSE Min({distance[d] + 1 : d \in out[c]})

Farthest(c) == IF out[c] = {} THEN 0 ELSE Max({distance[d] + 1 : d \in out[c]})

MeasureDistance ==
  /\ stage = "distance"
  /\ cursor > 0
  /\ distance' = [distance EXCEPT ![topological[cursor]] = Farthest(topological[cursor])]
  /\ cursor' = cursor - 1
  /\ UNCHANGED <<graph, stage, ordering, rank, earliest, latest>>

Horizon == IF Nodes = {} THEN 0 ELSE Max({earliest[n] : n \in Nodes})

\* horizon.saturating_sub
LatestRank(c) == IF distance[c] <= Horizon THEN Horizon - distance[c] ELSE 0

Candidate == [n \in Nodes |-> LatestRank(component[n])]

TotalSpan(ranks) ==
  MapThenSumSet(LAMBDA e : ranks[e.target] - ranks[e.source], RankEdges(graph))

CeilDiv(a, b) == (a + b - 1) \div b

\* accept_latest_rank_candidate, and the guard before it
AcceptLatest(moved, baseline, candidate, wide) ==
  /\ candidate <= baseline
  /\ \/ moved <= CeilDiv(Cardinality(Nodes), 100) /\ candidate < baseline
     \/ /\ moved >= CeilDiv(2 * Cardinality(Nodes), 5)
        /\ candidate <= baseline - CeilDiv(baseline, 10)
     \/ wide /\ Cardinality(Nodes) < SmallGraph

HasWideNet ==
  \E e \in RankEdges(graph) :
    Cardinality({f \in RankEdges(graph) : f.net = e.net}) >= WideNet

ChooseLatest ==
  /\ stage = "distance"
  /\ cursor = 0
  /\ latest' = IF /\ Candidate # earliest
                  /\ AcceptLatest(Cardinality({n \in Nodes : Candidate[n] # earliest[n]}),
                                  TotalSpan(earliest), TotalSpan(Candidate), HasWideNet)
               THEN Candidate ELSE None
  /\ stage' = "done"
  /\ UNCHANGED <<graph, ordering, cursor, rank, earliest, distance>>

-----------------------------------------------------------------------------
Init ==
  /\ graph \in {g \in Graphs : WellConstrained(g)}
  /\ stage = "graph"
  /\ component = [n \in Nodes |-> {}]
  /\ out = <<>>
  /\ indegree = <<>>
  /\ ready = {}
  /\ topological = <<>>
  /\ cursor = 0
  /\ rank = <<>>
  /\ earliest = [n \in Nodes |-> 0]
  /\ distance = <<>>
  /\ latest = None

Next ==
  \/ ComponentGraph
  \/ TakeReady
  \/ StartRanks
  \/ Relax
  \/ PlaceOutputs
  \/ MeasureDistance
  \/ ChooseLatest

Spec == Init /\ [][Next]_vars

-----------------------------------------------------------------------------
(* Properties.                                                             *)

TypeOK ==
  /\ graph \in Graph
  /\ stage \in {"graph", "order", "relax", "distance", "done"}
  /\ component \in [Nodes -> SUBSET Nodes]
  /\ topological \in Seq(SUBSET Nodes)
  /\ ready \subseteq SUBSET Nodes
  /\ cursor \in Nat
  /\ earliest \in [Nodes -> Nat]
  /\ latest \in [Nodes -> Nat] \cup {None}
  /\ stage # "graph" => /\ out \in [Components -> SUBSET Components]
                        /\ indegree \in [Components -> Nat]
  /\ stage \notin {"graph", "order"} => rank \in [Components -> Nat]

\* Every component is ordered, once, whatever the graph: component_graph does
\* not look for a cycle among what is left, and a component it missed would
\* keep rank 0.
EveryComponentOrdered ==
  stage \notin {"graph", "order"} =>
    /\ {topological[i] : i \in DOMAIN topological} = Components
    /\ \A i, j \in DOMAIN topological : topological[i] = topological[j] => i = j

\* A component comes after all its predecessors.
PredecessorsFirst ==
  \A i \in DOMAIN topological : \A c \in Predecessors(topological[i]) :
    \E j \in DOMAIN topological : j < i /\ topological[j] = c

HasEarliest == stage \in {"distance", "done"}

\* An edge that ranks and lies on no cycle leads to a higher rank, whatever
\* cycles, cycle breakers and boundaries there are ("only actual feedback
\* edges lose their ranking constraint", USAGE.md); the subtraction in
\* total_span never underflows.
RanksIncrease ==
  HasEarliest =>
    /\ \A e \in Participating(graph) :
         \/ earliest[e.source] < earliest[e.target]
         \/ Connected(Nodes, Pairs(Participating(graph)), e.source, e.target)
    /\ \A e \in RankEdges(graph) : earliest[e.source] <= earliest[e.target]

\* Earliest ranks are the least that increase along the edges: a component is
\* on its first rank or directly right of a predecessor.
EarliestIsLeast ==
  HasEarliest =>
    \A c \in Components :
      \/ rank[c] = FirstRank(c)
      \/ \E b \in Predecessors(c) : rank[c] = rank[b] + 1

\* Boundary inputs have the leftmost rank to themselves, boundary outputs
\* share the rank right of every other node (lib.rs, LayoutConstraints).
BoundariesOutermost ==
  HasEarliest =>
    /\ graph.inputs # {} => \A n \in Nodes : earliest[n] = 0 <=> n \in graph.inputs
    /\ \A n, m \in graph.outputs : earliest[n] = earliest[m]
    /\ \A n \in graph.outputs, m \in Nodes \ graph.outputs : earliest[m] < earliest[n]

\* Cutting feedback takes every cycle breaker out of every cycle it was on.
BreakersOpenCycles ==
  stage # "graph" => \A b \in graph.breakers : component[b] = {b} /\ <<b, b>> \notin RankPairs

\* The latest ranks keep the order of the earliest ones: none is left of it,
\* none right of the last, and they increase along the same edges.
LatestKeepsOrder ==
  latest # None =>
    /\ \A n \in Nodes : earliest[n] <= latest[n] /\ latest[n] <= Horizon
    /\ \A e \in RankEdges(graph) :
         IF component[e.source] = component[e.target]
         THEN latest[e.source] = latest[e.target]
         ELSE latest[e.source] < latest[e.target]

\* The earliest ranks are right in both directions: edges off the cycles lead
\* to higher ranks, and no ranks that do are lower (earliest_ranks).
RanksAreTight == RanksIncrease /\ EarliestIsLeast
=============================================================================
