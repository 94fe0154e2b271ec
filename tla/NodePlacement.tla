--------------------------- MODULE NodePlacement ---------------------------
(* Where the nodes go (placement.rs): the gaps that wires and bundles need  *)
(* between layers and between the nodes of a layer, the centred start, the  *)
(* rounds that pull connected ports to one height layer by layer, and the   *)
(* alternative in which whole chains of nodes are straight.                 *)
(*                                                                          *)
(* Coordinates are integers: a quotient is rounded down to the grid, as the *)
(* code's floating point rounds it. Weights are counted in quarters.        *)
EXTENDS RouteSegments

CONSTANTS Netlists,            \* the calls: a graph, its layers and options
          Unit, PreferredWeight, ChainWeight,   \* weights, in quarters
          MaxChainNodes, InteractiveNodes

ASSUME WeightsArePositive == {Unit, PreferredWeight, ChainWeight} \subseteq Nat \ {0}

(* A graph whose nodes are numbered, in layers without gaps: every node is  *)
(* once in the layer of its rank, and no layer is empty. The wires and the  *)
(* bundles are at nodes of the graph, and every measure is a number.        *)
IsNetlist(c) ==
    LET nodes == DOMAIN c.rank
    IN /\ c.rank \in Seq(Nat) /\ c.layers \in Seq(Seq(nodes))
       /\ \A l \in DOMAIN c.layers :
             /\ c.layers[l] # <<>> /\ IsInjective(c.layers[l])
             /\ \A p \in DOMAIN c.layers[l] : c.rank[c.layers[l][p]] = l - 1
       /\ \A n \in nodes : c.rank[n] + 1 \in DOMAIN c.layers /\ n \in Range(c.layers[c.rank[n] + 1])
       /\ DOMAIN c.edges = 1..Len(c.edges) /\ Len(c.edges) \in Nat
       /\ \A e \in DOMAIN c.edges :
             /\ c.edges[e].source \in nodes /\ c.edges[e].target \in nodes
             /\ c.edges[e].inOffset \in Int /\ c.edges[e].outOffset \in Int
       /\ c.width \in [nodes -> Int] /\ c.height \in [nodes -> Int]
       /\ c.options \in [layerGap : Int, nodeGap : Int, stub : Int, laneGap : Int, clearance : Int,
                          spacing : Int]
       /\ DOMAIN c.bundles = 1..Len(c.bundles) /\ Len(c.bundles) \in Nat
       /\ \A b \in DOMAIN c.bundles :
             /\ c.bundles[b].node \in nodes
             /\ {c.bundles[b].lanes, c.bundles[b].depth, c.bundles[b].offset} \subseteq Int
       /\ c.rounds \in Nat /\ c.stability \in Nat \ {0} /\ c.demandAware \in BOOLEAN

ASSUME NetlistsAssumption == \A c \in Netlists : IsNetlist(c)

VARIABLES netlist,
          layerGaps,    \* between the layers, by the left one
          nodeGaps,     \* below every node of a layer but the last
          placed,       \* the position of every node
          turn,         \* how many layers have been aligned so far
          straight      \* the alternative with straight chains, None without one

placementVars == <<netlist, layerGaps, nodeGaps, placed, turn, straight>>

Edges == netlist.edges
Layers == netlist.layers
Rank(n) == netlist.rank[n]
Nodes == DOMAIN netlist.rank
Options == netlist.options

\* effective_layout_options.
LaneGap == Most(Options.laneGap, Options.spacing)
LayerGap == IF Options.clearance > 0
            THEN Most(Options.layerGap, 2 * Options.clearance + LaneGap) ELSE Options.layerGap

\* A wire that leaves to the right and arrives from the left, in that order.
Forward(e) == e.out = "East" /\ e.in = "West" /\ Rank(e.source) < Rank(e.target)
ForwardEdges == {e \in DOMAIN Edges : Forward(Edges[e])}
Adjacent(e) == e.out = "East" /\ e.in = "West" /\ Rank(e.source) + 1 = Rank(e.target)

---------------------------------------------------------------------------
(* Gaps between layers                                                      *)

\* Merged spans of a net, so that a gap counts its nets and not their wires.
SpansOf(net) ==
    {<<Rank(Edges[e].source), Rank(Edges[e].target)>> :
        e \in {f \in ForwardEdges : Edges[f].net = net /\ Edges[f].ranking}}
Covered(spans) == UNION {s[1]..(s[2] - 1) : s \in spans}

\* (mutant) two wires of one net that overlap are counted twice.
UnmergedBounds(spans) == [starts |-> {s[1] : s \in spans}, ends |-> {s[2] : s \in spans}]

\* Spans that touch are one: the starts and ends that are left of them.
MergedBounds(spans) ==
    LET ranks == Covered(spans)
    IN [starts |-> {r \in ranks : r - 1 \notin ranks},
        ends |-> {r + 1 : r \in {q \in ranks : q + 1 \notin ranks}}]

\* demand_aware_layer_gaps: starts and ends of spans, added up from the left.
Difference(rank) ==
    LET nets == {Edges[e].net : e \in ForwardEdges}
    IN Cardinality({n \in nets : rank \in MergedBounds(SpansOf(n)).starts})
         - Cardinality({n \in nets : rank \in MergedBounds(SpansOf(n)).ends})
Active(gap) == Total([i \in 1..(gap + 1) |-> Difference(i - 1)])
DemandAwareLayerGap(gap) ==
    Most(LayerGap, 2 * Most(Options.stub, Options.clearance) + LaneGap * (Active(gap) + 1))

\* The room in which a boundary node's bundle is gathered.
RailDepth == IF Options.clearance > 0 THEN Options.clearance ELSE Options.stub + LaneGap
Width(rank) == Largest({0} \cup {netlist.width[n] : n \in {m \in Nodes : Rank(m) = rank}})
Corridor(b) ==
    RailDepth + b.depth + b.lanes * LaneGap + Most(Most(Options.clearance, Options.spacing), LaneGap)
      - (Width(Rank(b.node)) - netlist.width[b.node])
BundleGap(b) == IF b.role = "Input" THEN Rank(b.node) ELSE Rank(b.node) - 1

\* reserve_boundary_bundle_corridors.
ReserveCorridors(gaps) ==
    [g \in DOMAIN gaps |->
       Largest({gaps[g]} \cup {Corridor(netlist.bundles[b]) :
                   b \in {c \in DOMAIN netlist.bundles : BundleGap(netlist.bundles[c]) = g}})]

---------------------------------------------------------------------------
(* Gaps between the nodes of a layer                                        *)

\* reserve_boundary_bundle_vertical_envelopes: what a node's bundles take above and below it.
HalfSpan(b) == (Most(b.lanes - 1, 0) * LaneGap) \div 2
BundlesOf(n) == {b \in DOMAIN netlist.bundles : netlist.bundles[b].node = n}
Above(n) == Largest({0} \cup {HalfSpan(netlist.bundles[b]) - netlist.bundles[b].offset : b \in BundlesOf(n)})
Below(n) == Largest({0} \cup {netlist.bundles[b].offset + HalfSpan(netlist.bundles[b])
                                 - netlist.height[n] : b \in BundlesOf(n)})
Envelope(upper, lower) ==
    Most(Options.nodeGap, Below(upper) + Above(lower) + Most(Options.clearance, Options.spacing))

BaseGap == Most(Options.nodeGap, Options.clearance + LaneGap)
WideGap == Most(Options.nodeGap, 2 * Options.clearance + LaneGap)

Escapes(n, side) ==
    \E e \in DOMAIN Edges : \/ Edges[e].source = n /\ Edges[e].out = side
                            \/ Edges[e].target = n /\ Edges[e].in = side

PositionIn(layer, n) == CHOOSE i \in DOMAIN layer : layer[i] = n

(* Which gap of a layer on its way a wire is expected to pass: the straight *)
(* line between the two ends, as shares of their layers, rounded.           *)
Boundary(e, rank) ==
    LET from == Layers[Rank(e.source) + 1]
        to == Layers[Rank(e.target) + 1]
        steps == Rank(e.target) - Rank(e.source)
        done == rank - Rank(e.source)
        layer == Layers[rank + 1]
        num == Len(layer) * ((2 * PositionIn(from, e.source) - 1) * Len(to) * (steps - done)
                              + (2 * PositionIn(to, e.target) - 1) * Len(from) * done)
        den == 2 * Len(from) * Len(to) * steps
    IN Least(Most((2 * num + den) \div (2 * den), 1), Len(layer) - 1)
Transit(rank, position) ==
    \E e \in ForwardEdges : /\ Rank(Edges[e].source) < rank /\ rank < Rank(Edges[e].target)
                            /\ Boundary(Edges[e], rank) = position

\* clearance_aware_node_gaps; with a clearance, a passed gap is given its own width.
NodeGap(rank, position) ==
    LET layer == Layers[rank + 1]
        reserved == Most(BaseGap, Envelope(layer[position], layer[position + 1]))
    IN IF /\ Options.clearance > 0
          /\ \/ Escapes(layer[position], "South") \/ Escapes(layer[position + 1], "North")
             \/ Transit(rank, position)
       THEN WideGap ELSE reserved

---------------------------------------------------------------------------
(* Placing the layers                                                       *)

PlacementInit ==
    /\ netlist \in Netlists
    /\ layerGaps = None /\ nodeGaps = None /\ placed = None /\ turn = 0 /\ straight = None

Measure ==
    /\ netlist.job = "place" /\ nodeGaps = None
    /\ nodeGaps' = [l \in DOMAIN Layers |->
                       [p \in 1..(Len(Layers[l]) - 1) |-> NodeGap(l - 1, p)]]
    /\ layerGaps' = ReserveCorridors([g \in 0..(Len(Layers) - 2) |->
                        IF netlist.demandAware THEN DemandAwareLayerGap(g) ELSE LayerGap])
    /\ UNCHANGED <<netlist, placed, turn, straight>>

\* The heights of the nodes above a position of a layer, and the gaps below them.
OffsetIn(l, position) ==
    Total([p \in 1..(position - 1) |-> netlist.height[Layers[l][p]] + nodeGaps[l][p]])
Height(l) == OffsetIn(l, Len(Layers[l])) + netlist.height[Layers[l][Len(Layers[l])]]
CanvasHeight == Largest({Height(l) : l \in DOMAIN Layers})
LayerX(rank) == Total([r \in 1..rank |-> Width(r - 1) + layerGaps[r - 1]])

\* Every layer is centred; an output node stands at the right edge of its layer.
Centre ==
    /\ netlist.job = "place" /\ nodeGaps # None /\ placed = None
    /\ \E canvas \in {CanvasHeight} :
         placed' = [n \in Nodes |->
            LET l == Rank(n) + 1
            IN [x |-> LayerX(Rank(n)) + (IF n \in netlist.outputs
                                         THEN Width(Rank(n)) - netlist.width[n] ELSE 0),
                y |-> (canvas - Height(l)) \div 2 + OffsetIn(l, PositionIn(Layers[l], n))]]
    /\ UNCHANGED <<netlist, layerGaps, nodeGaps, turn, straight>>

---------------------------------------------------------------------------
(* Alignment                                                                *)

\* preferred_edges: wires of the least connected nodes first, one each way for a node.
AdjacentEdges == {e \in DOMAIN Edges : Adjacent(Edges[e])}
Outgoing(n) == Cardinality({e \in AdjacentEdges : Edges[e].source = n})
Incoming(n) == Cardinality({e \in AdjacentEdges : Edges[e].target = n})
PreferenceKey(e) ==
    LET out == Outgoing(Edges[e].source)
        in == Incoming(Edges[e].target)
    IN <<out * in, out + in, Edges[e].source, Edges[e].target, e>>
PreferredEdges ==
    LET key == [e \in AdjacentEdges |-> PreferenceKey(e)]
        order == InOrder(AdjacentEdges, LAMBDA a, b : LexLess(key[a], key[b]))
        taken[i \in 0..Len(order)] ==
            IF i = 0 THEN {}
            ELSE IF \E e \in taken[i - 1] : \/ Edges[e].source = Edges[order[i]].source
                                            \/ Edges[e].target = Edges[order[i]].target
                 THEN taken[i - 1] ELSE taken[i - 1] \cup {order[i]}
    IN taken[Len(order)]

\* A block of neighbours that move as one, its weight and weighted sum of targets.
Block(first, last, weight, sum) == [first |-> first, last |-> last, weight |-> weight, sum |-> sum]
Exceeds(left, right) == left.sum * right.weight > right.sum * left.weight

\* (mutant) only one pair is merged for a new block.
PoolOnce(blocks) ==
    LET n == Len(blocks)
    IN IF n > 1 /\ Exceeds(blocks[n - 1], blocks[n])
       THEN Append(SubSeq(blocks, 1, n - 2),
                   Block(blocks[n - 1].first, blocks[n].last, blocks[n - 1].weight + blocks[n].weight,
                         blocks[n - 1].sum + blocks[n].sum))
       ELSE blocks
\* The last block is merged into its left neighbours for as long as they lie lower.
Pool(blocks) ==
    LET merged[k \in 0..Len(blocks)] == IF k = 0 THEN blocks ELSE PoolOnce(merged[k - 1])
    IN merged[Len(blocks)]

\* isotonic_projection of sums / weights: the nearest values that do not decrease.
IsotonicProjection(sums, weights) ==
    LET blocks[i \in 0..Len(sums)] ==
            IF i = 0 THEN <<>>
            ELSE Pool(Append(blocks[i - 1], Block(i, i, weights[i], sums[i])))
        final == blocks[Len(sums)]
        of(i) == CHOOSE b \in Range(final) : b.first <= i /\ i <= b.last
    IN [i \in 1..Len(sums) |-> of(i).sum \div of(i).weight]

\* The wires that pull at a node, and where they pull it to.
WeightOf(e, preferred) == IF e \in preferred THEN PreferredWeight ELSE Unit
Pulls(n) == InOrder({e \in ForwardEdges : n \in {Edges[e].source, Edges[e].target}},
                    LAMBDA a, b : a < b)
PulledTo(e, n) ==
    IF Edges[e].source = n
    THEN placed[Edges[e].target].y + Edges[e].inOffset - Edges[e].outOffset
    ELSE placed[Edges[e].source].y + Edges[e].outOffset - Edges[e].inOffset

Pull(n, preferred) ==
    LET es == Pulls(n)
        weight == netlist.stability + Total([i \in DOMAIN es |-> WeightOf(es[i], preferred)])
    IN [weight |-> weight,
        sum |-> netlist.stability * placed[n].y
                  + Total([i \in DOMAIN es |-> WeightOf(es[i], preferred) * PulledTo(es[i], n)])]

\* The sums and weights of a layer, less what stands above each node.
Targets(l, pull) ==
    [sums |-> [p \in DOMAIN Layers[l] |-> pull[p].sum - pull[p].weight * OffsetIn(l, p)],
     weights |-> [p \in DOMAIN Layers[l] |-> pull[p].weight]]
Shifted(nodes, l, ys) ==
    [n \in DOMAIN nodes |->
       IF Rank(n) + 1 # l THEN nodes[n]
       ELSE [nodes[n] EXCEPT !.y = ys[PositionIn(Layers[l], n)]
                                     + OffsetIn(l, PositionIn(Layers[l], n))]]

\* align_connected_ports: down to the last layer and back up to the first.
Turns == 2 * (Len(Layers) - 1)
LayerOfTurn(t) == LET k == t % Turns IN IF k < Len(Layers) - 1 THEN k + 2 ELSE Turns - k

AlignLayer ==
    /\ netlist.job = "place" /\ placed # None /\ turn < netlist.rounds * Turns
    /\ LET l == LayerOfTurn(turn)
       IN \E preferred \in {IF netlist.backbones THEN PreferredEdges ELSE {}} :
          \E targets \in {Targets(l, [p \in DOMAIN Layers[l] |-> Pull(Layers[l][p], preferred)])} :
            placed' = Shifted(placed, l, IsotonicProjection(targets.sums, targets.weights))
    /\ turn' = turn + 1
    /\ UNCHANGED <<netlist, layerGaps, nodeGaps, straight>>

Aligned == netlist.job = "place" /\ placed # None /\ turn = netlist.rounds * Turns

---------------------------------------------------------------------------
(* Straight chains                                                          *)

\* The chain of preferred wires that begins at a node.
Chain(preferred, start) ==
    LET next(n) == {e \in preferred : Edges[e].source = n}
        grown[k \in 0..Len(Layers)] ==
            IF k = 0 THEN <<[node |-> start, y |-> 0, edge |-> 0]>>
            ELSE LET c == grown[k - 1]
                     from == next(c[Len(c)].node)
                 IN IF from = {} THEN c
                    ELSE LET e == CHOOSE f \in from : TRUE
                         IN Append(c, [node |-> Edges[e].target, edge |-> e,
                                       y |-> c[Len(c)].y + Edges[e].outOffset - Edges[e].inOffset])
    IN grown[Len(Layers)]

\* preferred_chain_targets: chains of three nodes or more, each at its mean height.
Chains(preferred) ==
    {c \in {Chain(preferred, n) :
               n \in {m \in Nodes : \A e \in preferred : Edges[e].target # m}} : Len(c) > 2}
Anchor(c) == Total([i \in DOMAIN c |-> placed[c[i].node].y - c[i].y]) \div Len(c)

ChainTargets(chains) ==
    [n \in UNION {{c[i].node : i \in DOMAIN c} : c \in chains} |->
       LET c == CHOOSE d \in chains : \E i \in DOMAIN d : d[i].node = n
       IN Anchor(c) + c[CHOOSE i \in DOMAIN c : c[i].node = n].y]
ChainEdges(chains) == UNION {{c[i].edge : i \in 2..Len(c)} : c \in chains}

Straightened(targets, l) ==
    LET at(p) == Layers[l][p]
        weight(p) == IF at(p) \in DOMAIN targets THEN ChainWeight ELSE Unit
        wanted(p) == IF at(p) \in DOMAIN targets THEN targets[at(p)] ELSE placed[at(p)].y
    IN IsotonicProjection([p \in DOMAIN Layers[l] |-> weight(p) * (wanted(p) - OffsetIn(l, p))],
                          [p \in DOMAIN Layers[l] |-> weight(p)])
Candidate(targets) ==
    LET after[l \in 0..Len(Layers)] ==
            IF l = 0 THEN placed ELSE Shifted(after[l - 1], l, Straightened(targets, l))
    IN after[Len(Layers)]

Bent(nodes, e) ==
    nodes[Edges[e].source].y + Edges[e].outOffset # nodes[Edges[e].target].y + Edges[e].inOffset
Span(nodes) ==
    Largest({nodes[n].y + netlist.height[n] : n \in Nodes})
      - (0 - Largest({0 - nodes[n].y : n \in Nodes}))

\* straight_chain_is_eligible: worth another drawing, and not much higher.
WorthStraightening(candidate, edges) ==
    LET newly == Cardinality({e \in edges : Bent(placed, e) /\ ~Bent(candidate, e)})
    IN /\ newly >= 2 /\ Cardinality(Nodes) <= MaxChainNodes
       /\ Cardinality(Nodes) <= InteractiveNodes \/ 5 * newly >= Cardinality(edges)
       /\ 10 * Span(candidate) <= 11 * CanvasHeight

StraightenChains ==
    /\ Aligned /\ straight = None
    /\ \E chains \in {Chains(PreferredEdges)} :
       \E candidate \in {IF chains = {} THEN placed ELSE Candidate(ChainTargets(chains))} :
         straight' = IF chains # {} /\ WorthStraightening(candidate, ChainEdges(chains))
                     THEN [nodes |-> candidate, edges |-> ChainEdges(chains)]
                     ELSE [nodes |-> placed, edges |-> {}]
    /\ UNCHANGED <<netlist, layerGaps, nodeGaps, placed, turn>>

PlacementDone == straight # None /\ UNCHANGED placementVars

PlacementNext ==
    Measure \/ Centre \/ AlignLayer \/ StraightenChains \/ PlacementDone

PlacementSpec == PlacementInit /\ [][PlacementNext]_placementVars

---------------------------------------------------------------------------
(* What a placement promises                                                *)

InLayers(nodes) ==
    \A l \in DOMAIN Layers : \A p \in 1..(Len(Layers[l]) - 1) :
        nodes[Layers[l][p]].y + netlist.height[Layers[l][p]] + nodeGaps[l][p]
          <= nodes[Layers[l][p + 1]].y

(* However often the nodes are pulled at, and in the alternative with the   *)
(* straight chains, a layer keeps its order and the gaps that were measured *)
(* for its wires (align_layer_with_gaps, place_straight_chain_nodes).       *)
LayersKeepTheirGaps ==
    /\ placed # None => InLayers(placed)
    /\ straight # None => InLayers(straight.nodes)

(* The projection of the targets is what its definition says, the greatest  *)
(* of the least means of the runs around a node, so no node is further from *)
(* where its wires pull it than the others force (isotonic_projection).     *)
Mean(t, j, k) ==
    Total([i \in 1..(k - j + 1) |-> t.sums[j + i - 1]])
      \div Total([i \in 1..(k - j + 1) |-> t.weights[j + i - 1]])
ProjectionIsNearest ==
    (netlist.job = "place" /\ placed # None /\ turn < netlist.rounds * Turns) =>
        LET l == LayerOfTurn(turn)
            size == Len(Layers[l])
            preferred == IF netlist.backbones THEN PreferredEdges ELSE {}
            t == Targets(l, [p \in DOMAIN Layers[l] |-> Pull(Layers[l][p], preferred)])
            y == IsotonicProjection(t.sums, t.weights)
        IN \A i \in 1..size :
             y[i] = Largest({0 - Largest({0 - Mean(t, j, k) : k \in i..size}) : j \in 1..i})

(* A gap between layers is as wide as the options ask for, as the bundles   *)
(* gathered in it need, and, on demand, with a lane for every net on its    *)
(* way through, however many wires of the net overlap, and no wider         *)
(* (demand_aware_layer_gaps, reserve_boundary_bundle_corridors).            *)
Passes(e, g) == Rank(e.source) <= g /\ g < Rank(e.target)
GapsHoldTheirNets ==
    layerGaps # None =>
        \A g \in DOMAIN layerGaps :
            LET nets == {Edges[e].net :
                           e \in {f \in ForwardEdges : Edges[f].ranking /\ Passes(Edges[f], g)}}
                gathered == {b \in DOMAIN netlist.bundles : BundleGap(netlist.bundles[b]) = g}
            IN layerGaps[g] =
                 Largest({LayerGap}
                         \cup {Corridor(netlist.bundles[b]) : b \in gathered}
                         \cup {2 * Most(Options.stub, Options.clearance)
                                  + LaneGap * (Cardinality(nets) + 1) : x \in {netlist.demandAware} \ {FALSE}})

(* Moving nodes toward their wires costs no room: every layer keeps its     *)
(* gaps, and what the gaps forbid is given up where it costs least.         *)
AlignmentKeepsGaps == LayersKeepTheirGaps /\ ProjectionIsNearest
=============================================================================
