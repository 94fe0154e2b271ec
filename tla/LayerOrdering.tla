--------------------------- MODULE LayerOrdering ---------------------------
(***************************************************************************)
(* The order of the nodes within each column (topology.rs,                 *)
(* order_layer_candidates_inner): sweeps from several seeds that keep the  *)
(* order with the fewest crossings, and the bounded sift of the best one.  *)
(* An edge over several columns passes a virtual item in each column       *)
(* between, one per net.  An item is its own stable key.                   *)
(***************************************************************************)
EXTENDS Integers, FiniteSets, Sequences, SequencesExt

CONSTANTS
  Nodes,          \* node ids
  Graphs,         \* ranked graphs, and the sweeps asked for
  Passes,         \* bound: 4 in the code
  MediumFanout,   \* bound: 16 in the code
  WideFanout,     \* bound: 65 in the code
  BroadFanout,    \* bound: 100 in the code
  WidestFanout,   \* bound: 300 in the code
  ManyNodes,      \* bound: 1_000 in the code
  SiftLayerItems, \* MAX_SIFT_LAYER_ITEMS
  SiftWorkLimit,  \* MAX_SIFT_WORK_LIMIT
  CrossingsPerEdge, \* MIN_MAX_SIFT_CROSSINGS_PER_EDGE
  None

Graph ==
  [rank : [Nodes -> Nat], sweeps : Nat,
   edges : SUBSET [id : Nat, source : Nodes, target : Nodes, port : Nat, net : Nat, ranks : BOOLEAN]]

ASSUME NodesAssumption == Nodes \subseteq Nat /\ IsFiniteSet(Nodes) /\ Nodes # {}
ASSUME GraphsAssumption == Graphs \subseteq Graph /\ \A g \in Graphs : IsFiniteSet(g.edges)
ASSUME BoundsAssumption ==
  {Passes, MediumFanout, WideFanout, BroadFanout, WidestFanout, ManyNodes,
   SiftLayerItems, SiftWorkLimit, CrossingsPerEdge} \subseteq Nat

VARIABLES
  graph,        \* the ranked graph of the call
  stage,        \* the loop that runs
  seed,         \* the seed being optimized
  sweep,        \* sweeps begun
  down,         \* the half of the sweep: from the first column on, or back
  column,       \* column to be sorted, transposed or sifted next
  index,        \* pair or item of that column
  pass,         \* transposition pass
  changed,      \* the pass swapped a pair
  layers,       \* the items of each column, in order
  positions,    \* positions of the items
  best,         \* (edge_layers, edge_crossings)
  alternative,  \* the order with the fewest crossings of net representatives
  results,      \* what each seed came to
  waiting,      \* items of the column that are still to be sifted
  work          \* work of the sift

vars == <<graph, stage, seed, sweep, down, column, index, pass, changed, layers, positions,
          best, alternative, results, waiting, work>>
sweeping == <<seed, sweep, down>>
sifting == <<waiting, work>>

-----------------------------------------------------------------------------
(* expanded_ordering_graph                                                 *)

RealItem(n) == <<0, n, 0>>
VirtualItem(net, r) == <<1, net, r>>

KeyBefore(a, b) ==
  \/ a[1] < b[1]
  \/ a[1] = b[1] /\ a[2] < b[2]
  \/ a[1] = b[1] /\ a[2] = b[2] /\ a[3] < b[3]

LastColumn(g) == Max({g.rank[n] : n \in Nodes})
Columns(g) == 0..LastColumn(g)

RankEdges(g) == {e \in g.edges : e.ranks}

\* An edge that leads left or stays in its column is not ordered by.
OrderingEdges(g) == {e \in RankEdges(g) : g.rank[e.source] < g.rank[e.target]}

Waypoint(g, e, r) ==
  CASE r = g.rank[e.source] -> RealItem(e.source)
    [] r = g.rank[e.target] -> RealItem(e.target)
    [] OTHER -> VirtualItem(e.net, r)

ArcsOf(g, e) ==
  {[from |-> Waypoint(g, e, r), to |-> Waypoint(g, e, r + 1), net |-> e.net] :
     r \in g.rank[e.source] .. g.rank[e.target] - 1}

Arcs(g) == UNION {ArcsOf(g, e) : e \in OrderingEdges(g)}

ColumnItems(g, r) ==
  {RealItem(n) : n \in {m \in Nodes : g.rank[m] = r}}
    \cup {VirtualItem(e.net, r) :
            e \in {f \in OrderingEdges(g) : g.rank[f.source] < r /\ r < g.rank[f.target]}}

Items(g) == UNION {ColumnItems(g, r) : r \in Columns(g)}

Incoming(item) == {a.from : a \in {b \in Arcs(graph) : b.to = item}}
Outgoing(item) == {a.to : a \in {b \in Arcs(graph) : b.from = item}}

-----------------------------------------------------------------------------
(* Crossings.                                                              *)

Orders(set) == {order \in [1..Cardinality(set) -> set] : IsInjective(order)}

PositionsIn(g, ls) ==
  [item \in Items(g) |->
     LET r == CHOOSE r \in Columns(g) : item \in ColumnItems(g, r)
     IN  CHOOSE i \in DOMAIN ls[r] : ls[r][i] = item]

Crossing(a, b) == a[1] < b[1] /\ a[2] > b[2]

\* Pairs of connections that cross, given the connections that leave each column.
CrossingPairs(ends) ==
  UNION {{<<r, p>> : p \in {q \in ends[r] \X ends[r] : Crossing(q[1], q[2])}} : r \in DOMAIN ends}

ArcsFrom(g, r) == {a \in Arcs(g) : a.from \in ColumnItems(g, r)}

\* crossing_count: connections between positions, each pair of items once.
CrossingCount(g, ls) ==
  LET at == PositionsIn(g, ls)
  IN  Cardinality(CrossingPairs(
        [r \in Columns(g) |-> {<<at[a.from], at[a.to]>> : a \in ArcsFrom(g, r)}]))

\* sources[sources.len() / 2] of the sorted positions
Middle(set) == CHOOSE p \in set : Cardinality({q \in set : q < p}) = Cardinality(set) \div 2

\* net_representative_crossing_count: one connection for each net and column.
NetCrossingCount(g, ls) ==
  LET at == PositionsIn(g, ls)
      of(r, net) == {a \in ArcsFrom(g, r) : a.net = net}
  IN  Cardinality(CrossingPairs(
        [r \in Columns(g) |->
           {<<Middle({at[a.from] : a \in of(r, net)}), Middle({at[a.to] : a \in of(r, net)}), net>> :
              net \in {a.net : a \in ArcsFrom(g, r)}}]))

\* pair_crossing_gain
GainAmong(left, right) ==
  Cardinality({p \in left \X right : positions[p[1]] > positions[p[2]]})
    - Cardinality({p \in left \X right : positions[p[1]] < positions[p[2]]})

\* Plausible slip: the edges to the next column are forgotten.
GainBefore(left, right) == GainAmong(Incoming(left), Incoming(right))

\* pair_item_crossing_gain: what swapping neighbours saves.
Gain(left, right) ==
  GainAmong(Incoming(left), Incoming(right)) + GainAmong(Outgoing(left), Outgoing(right))

-----------------------------------------------------------------------------
(* alternative_ordering_candidate                                          *)

\* The two largest of some numbers, one for each net.
Largest(count) == IF DOMAIN count = {} THEN 0 ELSE Max({count[net] : net \in DOMAIN count})
SecondLargest(count) ==
  IF \E n, m \in DOMAIN count : n # m /\ count[n] = Largest(count) /\ count[m] = Largest(count)
  THEN Largest(count)
  ELSE Max({0} \cup {count[net] : net \in {n \in DOMAIN count : count[n] # Largest(count)}})

Alternative(g) ==
  LET fanout == [net \in {e.net : e \in RankEdges(g)} |->
                   Cardinality({e \in RankEdges(g) : e.net = net})]
      sinks == [net \in {n \in DOMAIN fanout : fanout[n] >= WideFanout} |->
                  Cardinality({<<e.target, e.port>> : e \in {f \in RankEdges(g) : f.net = net}})]
  IN  CASE Largest(fanout) \in MediumFanout .. WideFanout - 1 -> "net representative"
        [] /\ SecondLargest(fanout) >= WideFanout
           /\ Largest(sinks) <= WidestFanout
           /\ \/ SecondLargest(sinks) \in WideFanout .. BroadFanout
              \/ /\ Cardinality(Nodes) >= ManyNodes
                 /\ SecondLargest(sinks) \in BroadFanout + 1 .. WidestFanout
           -> "reverse median"
        [] OTHER -> "none"

Scored == seed = "forward" /\ Alternative(graph) = "net representative"

-----------------------------------------------------------------------------
(* optimize_ordering_seed                                                  *)

SeedOrder(set) ==
  CHOOSE order \in Orders(set) :
    \A i, j \in DOMAIN order :
      i < j => IF seed = "forward" THEN KeyBefore(order[i], order[j])
               ELSE KeyBefore(order[j], order[i])

StartSeed ==
  /\ stage = "start"
  /\ layers' = [r \in Columns(graph) |-> SeedOrder(ColumnItems(graph, r))]
  /\ positions' = PositionsIn(graph, layers')
  /\ best' = [layers |-> layers', crossings |-> CrossingCount(graph, layers')]
  /\ alternative' = IF Scored
                    THEN [layers |-> layers', crossings |-> NetCrossingCount(graph, layers'),
                          edgeCrossings |-> CrossingCount(graph, layers')]
                    ELSE alternative
  /\ sweep' = 0
  /\ stage' = "swept"
  /\ UNCHANGED <<graph, seed, down, column, index, pass, changed, results, sifting>>

SweepLimit == IF seed = "median" /\ graph.sweeps > 2 THEN 2 ELSE graph.sweeps

BeginSweep ==
  /\ stage = "swept"
  /\ sweep < SweepLimit
  /\ sweep' = sweep + 1
  /\ down' = TRUE
  /\ column' = 1
  /\ stage' = "sort"
  /\ UNCHANGED <<graph, seed, index, pass, changed, layers, positions, best, alternative,
                 results, sifting>>

\* barycenter and median, as fractions
Mean(item, near) ==
  <<MapThenSumSet(LAMBDA n : positions[n], near), Cardinality(near)>>

Median(item, near) ==
  LET at == SetToSortSeq(near, LAMBDA n, m : positions[n] < positions[m])
      half == Len(at) \div 2
  IN  IF Len(at) % 2 = 0 THEN <<positions[at[half]] + positions[at[half + 1]], 2>>
      ELSE <<positions[at[half + 1]], 1>>

Score(item) ==
  LET near == IF down THEN Incoming(item) ELSE Outgoing(item)
  IN  CASE near = {} -> <<positions[item], 1>>
        [] seed = "median" -> Median(item, near)
        [] OTHER -> Mean(item, near)

ScoreBefore(a, b) ==
  LET s == Score(a)
      t == Score(b)
  IN  s[1] * t[2] < t[1] * s[2] \/ (s[1] * t[2] = t[1] * s[2] /\ KeyBefore(a, b))

\* Plausible slip: the positions are left as they were.
RefreshedLate(r, order) == positions

\* refresh_layer
Refreshed(r, order) ==
  [item \in Items(graph) |->
     IF item \in ColumnItems(graph, r) THEN CHOOSE i \in DOMAIN order : order[i] = item
     ELSE positions[item]]

\* sort_layer and refresh_layer
SortLayer ==
  /\ stage = "sort"
  /\ column \in Columns(graph)
  /\ \E order \in Orders(ColumnItems(graph, column)) :
       /\ \A i, j \in DOMAIN order : i < j => ScoreBefore(order[i], order[j])
       /\ layers' = [layers EXCEPT ![column] = order]
       /\ positions' = Refreshed(column, order)
  /\ column' = IF down THEN column + 1 ELSE column - 1
  /\ UNCHANGED <<graph, stage, sweeping, index, pass, changed, best, alternative, results, sifting>>

BeginPass(p) ==
  /\ stage' = "transpose"
  /\ pass' = p
  /\ changed' = FALSE
  /\ column' = 0
  /\ index' = 1

Transpose ==
  /\ stage = "sort"
  /\ column \notin Columns(graph)
  /\ BeginPass(1)
  /\ UNCHANGED <<graph, sweeping, layers, positions, best, alternative, results, sifting>>

TransposePair ==
  /\ stage = "transpose"
  /\ column \in Columns(graph)
  /\ index < Len(layers[column])
  /\ LET left == layers[column][index]
         right == layers[column][index + 1]
     IN  IF Gain(left, right) > 0
         THEN /\ layers' = [layers EXCEPT ![column] =
                              [@ EXCEPT ![index] = right, ![index + 1] = left]]
              /\ positions' = [positions EXCEPT ![left] = index + 1, ![right] = index]
              /\ changed' = TRUE
         ELSE UNCHANGED <<layers, positions, changed>>
  /\ index' = index + 1
  /\ UNCHANGED <<graph, stage, sweeping, column, pass, best, alternative, results, sifting>>

TransposeNext ==
  /\ stage = "transpose"
  /\ column \in Columns(graph)
  /\ index >= Len(layers[column])
  /\ column' = column + 1
  /\ index' = 1
  /\ UNCHANGED <<graph, stage, sweeping, pass, changed, layers, positions, best, alternative,
                 results, sifting>>

TransposeAgain ==
  /\ stage = "transpose"
  /\ column \notin Columns(graph)
  /\ changed /\ pass < Passes
  /\ BeginPass(pass + 1)
  /\ UNCHANGED <<graph, sweeping, layers, positions, best, alternative, results, sifting>>

\* retain_best_edge
ImprovesEdge(crossings) == crossings < best.crossings

\* retain_best_alternative
ImprovesAlternative(netCrossings, crossings) ==
  \/ netCrossings < alternative.crossings
  \/ netCrossings = alternative.crossings /\ crossings < alternative.edgeCrossings

Retain ==
  /\ stage = "transpose"
  /\ column \notin Columns(graph)
  /\ ~ (changed /\ pass < Passes)
  /\ LET crossings == CrossingCount(graph, layers)
         netCrossings == NetCrossingCount(graph, layers)
     IN  /\ best' = IF ImprovesEdge(crossings)
                    THEN [layers |-> layers, crossings |-> crossings] ELSE best
         /\ alternative' =
              IF Scored /\ ImprovesAlternative(netCrossings, crossings)
              THEN [layers |-> layers, crossings |-> netCrossings, edgeCrossings |-> crossings]
              ELSE alternative
  /\ IF down
     THEN down' = FALSE /\ column' = LastColumn(graph) - 1 /\ stage' = "sort"
     ELSE stage' = "swept" /\ UNCHANGED <<down, column>>
  /\ positions' = PositionsIn(graph, layers)
  /\ UNCHANGED <<graph, seed, sweep, index, pass, changed, layers, results, sifting>>

NextSeed ==
  CASE seed = "forward" -> "reverse"
    [] seed = "reverse" /\ graph.sweeps > 0 /\ Alternative(graph) = "reverse median" -> "median"
    [] OTHER -> "sifted"

FinishSeed ==
  /\ stage = "swept"
  /\ sweep = SweepLimit
  /\ results' = [results EXCEPT ![seed] = best]
  /\ seed' = NextSeed
  /\ stage' = IF NextSeed = "sifted" THEN "choose" ELSE "start"
  /\ UNCHANGED <<graph, sweep, down, column, index, pass, changed, layers, positions, best,
                 alternative, sifting>>

-----------------------------------------------------------------------------
(* max_sift_ordering_candidate                                             *)

Chosen ==
  IF results["reverse"].crossings < results["forward"].crossings
  THEN results["reverse"] ELSE results["forward"]

\* max_sift_seed_is_admitted
SeedAdmitted ==
  /\ Chosen.crossings > 0
  /\ Chosen.crossings >= Cardinality(RankEdges(graph)) * CrossingsPerEdge
  /\ \A r \in Columns(graph) : Cardinality(ColumnItems(graph, r)) <= SiftLayerItems

SkipSift ==
  /\ stage = "choose"
  /\ ~ SeedAdmitted
  /\ stage' = "done"
  /\ UNCHANGED <<graph, sweeping, column, index, pass, changed, layers, positions, best,
                 alternative, results, sifting>>

BeginSift ==
  /\ stage = "choose"
  /\ SeedAdmitted
  /\ layers' = Chosen.layers
  /\ positions' = PositionsIn(graph, layers')
  /\ work' = 0
  /\ column' = 0
  /\ index' = 1
  /\ waiting' = layers'[0]
  /\ stage' = "sift"
  /\ UNCHANGED <<graph, sweeping, pass, changed, best, alternative, results>>

\* charge_pair_work
PairWork(left, right) ==
  1 + Cardinality(Incoming(left)) * Cardinality(Incoming(right))
    + Cardinality(Outgoing(left)) * Cardinality(Outgoing(right))

ItemWork(item) ==
  MapThenSumSet(LAMBDA other : PairWork(item, other), ColumnItems(graph, column) \ {item})

\* What moving the item to position p saves.
MoveGain(item, p) ==
  LET layer == layers[column]
      current == positions[item]
  IN  IF p < current
      THEN MapThenSumSet(LAMBDA i : Gain(layer[i], item), p .. current - 1)
      ELSE MapThenSumSet(LAMBDA i : Gain(item, layer[i]), current + 1 .. p)

BestGain(item) == Max({MoveGain(item, p) : p \in DOMAIN layers[column]})

\* Positions are tried from the item's left neighbour down, then to its right.
Turn(item, p) ==
  CASE p = positions[item] -> 0
    [] p < positions[item] -> positions[item] - p
    [] OTHER -> p - 1

IsBestPosition(item, p) ==
  /\ MoveGain(item, p) = BestGain(item)
  /\ \A q \in DOMAIN layers[column] :
       MoveGain(item, q) = BestGain(item) => Turn(item, p) <= Turn(item, q)

SiftItem ==
  /\ stage = "sift"
  /\ index \in DOMAIN waiting
  /\ LET item == waiting[index] IN
       /\ work + ItemWork(item) <= SiftWorkLimit
       /\ work' = work + ItemWork(item)
       /\ \E p \in DOMAIN layers[column] :
            /\ IsBestPosition(item, p)
            /\ layers' = [layers EXCEPT ![column] =
                            InsertAt(RemoveAt(@, positions[item]), p, item)]
       /\ positions' = Refreshed(column, layers'[column])
  /\ index' = index + 1
  /\ UNCHANGED <<graph, stage, sweeping, column, pass, changed, best, alternative, results, waiting>>

\* An exhausted sift is no candidate, whatever it moved before.
ExhaustSift ==
  /\ stage = "sift"
  /\ index \in DOMAIN waiting
  /\ work + ItemWork(waiting[index]) > SiftWorkLimit
  /\ stage' = "done"
  /\ UNCHANGED <<graph, sweeping, column, index, pass, changed, layers, positions, best,
                 alternative, results, sifting>>

SiftNext ==
  /\ stage = "sift"
  /\ index \notin DOMAIN waiting
  /\ column < LastColumn(graph)
  /\ column' = column + 1
  /\ index' = 1
  /\ waiting' = layers[column + 1]
  /\ UNCHANGED <<graph, stage, sweeping, pass, changed, layers, positions, best, alternative,
                 results, work>>

RealOrder(g, ls) == [r \in Columns(g) |-> SelectSeq(ls[r], LAMBDA item : item[1] = 0)]

MinimumGain == (Chosen.crossings + 99) \div 100

\* Plausible slip: a sift that moves nothing but virtual items is a candidate, too.
SiftHelpsVirtually(crossings) == Chosen.crossings - crossings >= MinimumGain

SiftHelps(crossings) ==
  /\ Chosen.crossings - crossings >= MinimumGain
  /\ RealOrder(graph, layers) # RealOrder(graph, Chosen.layers)

FinishSift ==
  /\ stage = "sift"
  /\ index \notin DOMAIN waiting
  /\ column = LastColumn(graph)
  /\ LET crossings == CrossingCount(graph, layers) IN
       results' = IF SiftHelps(crossings)
                  THEN [results EXCEPT !["sifted"] = [layers |-> layers, crossings |-> crossings]]
                  ELSE results
  /\ positions' = PositionsIn(graph, layers)
  /\ stage' = "done"
  /\ UNCHANGED <<graph, sweeping, column, index, pass, changed, layers, best, alternative, sifting>>

-----------------------------------------------------------------------------
Seeds == {"forward", "reverse", "median", "sifted"}

Init ==
  /\ graph \in Graphs
  /\ stage = "start"
  /\ seed = "forward"
  /\ sweep = 0 /\ down = TRUE
  /\ column = 0 /\ index = 1
  /\ pass = 0 /\ changed = FALSE
  /\ layers = [r \in Columns(graph) |-> <<>>]
  /\ positions = [item \in Items(graph) |-> 0]
  /\ best = None /\ alternative = None
  /\ results = [s \in Seeds |-> None]
  /\ waiting = <<>> /\ work = 0

Next ==
  \/ StartSeed
  \/ BeginSweep
  \/ SortLayer
  \/ Transpose
  \/ TransposePair
  \/ TransposeNext
  \/ TransposeAgain
  \/ Retain
  \/ FinishSeed
  \/ SkipSift
  \/ BeginSift
  \/ SiftItem
  \/ ExhaustSift
  \/ SiftNext
  \/ FinishSift

Spec == Init /\ [][Next]_vars

-----------------------------------------------------------------------------
(* Properties.                                                             *)

\* Whatever was sorted, swapped or moved, a column holds its own items, each
\* once, and the positions the next comparison reads are their positions: no
\* swap, sort or move leaves one behind (refresh_layer, transpose_layers).
PositionsDescribeLayers ==
  layers[0] # <<>> =>
    /\ \A r \in Columns(graph) : layers[r] \in Orders(ColumnItems(graph, r))
    /\ positions = PositionsIn(graph, layers)

\* What pair_crossing_gain promises of a swap or a move, comparing only edges
\* of the items that change places, is true of the whole drawing: every swap
\* and every move takes crossings away.
MovesReduceCrossings ==
  [][layers' # layers /\ stage \in {"transpose", "sift"} =>
       CrossingCount(graph, layers') < CrossingCount(graph, layers)]_vars

\* An order is handed out with its own crossings, and it has no more than the
\* order of its seed and the one the sweeps ended with.
OrdersAreMeasured ==
  /\ \A s \in Seeds : results[s] # None =>
       /\ \A r \in Columns(graph) : results[s].layers[r] \in Orders(ColumnItems(graph, r))
       /\ results[s].crossings = CrossingCount(graph, results[s].layers)
  /\ stage = "swept" => best.crossings <= CrossingCount(graph, layers)
  /\ alternative # None =>
       /\ alternative.crossings = NetCrossingCount(graph, alternative.layers)
       /\ alternative.edgeCrossings = CrossingCount(graph, alternative.layers)
       /\ seed = "forward" /\ stage = "swept"
            => alternative.crossings <= NetCrossingCount(graph, layers)

\* A sift is a candidate only if it ended within its work, draws the nodes in
\* another order and saves at least a hundredth of the crossings of both
\* seeds.
SiftedIsBetter ==
  /\ work <= SiftWorkLimit
  /\ results["sifted"] # None =>
       \A s \in {"forward", "reverse"} :
         /\ 100 * results["sifted"].crossings <= 99 * results[s].crossings
         /\ RealOrder(graph, results["sifted"].layers) # RealOrder(graph, Chosen.layers)

\* What is kept beside the layers is true of them, step by step and in the
\* orders handed out: positions as well as crossings (refresh_layer,
\* retain_best_edge, retain_best_alternative).
RecordsMatchLayers == PositionsDescribeLayers /\ OrdersAreMeasured
=============================================================================
