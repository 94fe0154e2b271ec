--------------------------- MODULE ChannelGeometry ---------------------------
(* What routes are drawn from (routing.rs): ports and the stubs in front of *)
(* them, the free stretches of a layer, which wires pass gap by gap and     *)
(* which go around the whole drawing, the tracks of the first in a gap, and *)
(* the channels in which the others leave and arrive.                       *)
(*                                                                          *)
(* A port is <<node, number>>. Coordinates are integers; the instances take *)
(* widths that the fractions of the code divide.                            *)
EXTENDS RouteSegments

CONSTANTS Sheets, MaxSparseNetEdges

VARIABLES sheet,     \* the placed graph and the options
          survey     \* what is measured on it, None before

Links == DOMAIN sheet.wires
Link(e) == sheet.wires[e]
Cells == DOMAIN sheet.cells
CellOf(port) == sheet.cells[port[1]]
SideOf(port) == sheet.ports[port].side
Knobs == sheet.knobs

\* outward_obstacle_clearance_stub.
OutwardStub == Most(Knobs.stub, Knobs.clearance)

PortPoint(port) ==
    LET cell == CellOf(port)
        offset == sheet.ports[port].offset
    IN CASE SideOf(port) = "North" -> <<cell.x + offset, cell.y>>
         [] SideOf(port) = "South" -> <<cell.x + offset, cell.y + cell.height>>
         [] SideOf(port) = "East" -> <<cell.x + cell.width, cell.y + offset>>
         [] SideOf(port) = "West" -> <<cell.x, cell.y + offset>>

Outward(side) == CASE side = "North" -> <<0, -1>> [] side = "South" -> <<0, 1>>
                   [] side = "East" -> <<1, 0>> [] side = "West" -> <<-1, 0>>
StubPoint(port) ==
    LET p == PortPoint(port)
        out == Outward(SideOf(port))
    IN <<p[1] + out[1] * OutwardStub, p[2] + out[2] * OutwardStub>>

---------------------------------------------------------------------------
(* The layers                                                               *)

LastRank == Largest({sheet.cells[n].rank : n \in Cells})
Layer(rank) == {n \in Cells : sheet.cells[n].rank = rank}
LayerLeft == [r \in 0..LastRank |-> Smallest({sheet.cells[n].x : n \in Layer(r)})]
LayerRight == [r \in 0..LastRank |->
                 Largest({sheet.cells[n].x + sheet.cells[n].width : n \in Layer(r)})]
Top == Smallest({0} \cup {sheet.cells[n].y : n \in Cells})
Bottom == Largest({0} \cup {sheet.cells[n].y + sheet.cells[n].height : n \in Cells})

\* free_intervals: the stretches of a layer that keep clear of its nodes.
FreeIntervals(rank) ==
    LET order == InOrder(Layer(rank), LAMBDA a, b :
                            LexLess(<<sheet.cells[a].y, a>>, <<sheet.cells[b].y, b>>))
        cell(i) == sheet.cells[order[i]]
        cursor[i \in 0..Len(order)] ==
            IF i = 0 THEN Top
            ELSE Most(cursor[i - 1], cell(i).y + cell(i).height + Knobs.clearance)
        between == {<<cursor[i - 1], cell(i).y - Knobs.clearance>> : i \in DOMAIN order}
    IN {f \in between \cup {<<cursor[Len(order)], Bottom>>} : f[1] < f[2]}

NetLinks(net) == {e \in Links : Link(e).net = net}

\* The wires that go from gap to gap: their layers, None for those that go around.
SparseSpan(e, free) ==
    LET from == CellOf(Link(e).source).rank
        to == CellOf(Link(e).target).rank
    IN IF /\ SideOf(Link(e).source) = "East" /\ SideOf(Link(e).target) = "West"
          /\ from < to
          /\ Cardinality(NetLinks(Link(e).net)) <= MaxSparseNetEdges
          /\ \A r \in (from + 1)..(to - 1) : free[r] # {}
       THEN <<from, to>> ELSE None

\* Where the straight line of a wire is in a gap.
Passage(e, span, gap) ==
    LET from == PortPoint(Link(e).source)[2]
        to == PortPoint(Link(e).target)[2]
    IN from + ((to - from) * (gap - span[1])) \div (span[2] - span[1])

\* preferred_lane_indices: nets by the median of where their wires are.
PreferredOrder(wires, spans, at) ==
    LET nets == {Link(e).net : e \in wires}
        median == [net \in nets |->
            LET mine == InOrder({e \in wires : Link(e).net = net}, LAMBDA a, b :
                    LexLess(<<Passage(a, spans[a], at), a>>, <<Passage(b, spans[b], at), b>>))
                middle == mine[Len(mine) \div 2 + 1]
            IN Passage(middle, spans[middle], at)]
    IN [net \in nets |->
          Cardinality({m \in nets : LexLess(<<median[m], m>>, <<median[net], net>>)})]
Through(spans, gap) == {e \in Links : spans[e] # None /\ spans[e][1] <= gap /\ gap < spans[e][2]}
Across(spans, rank) == {e \in Links : spans[e] # None /\ spans[e][1] < rank /\ rank < spans[e][2]}

Survey ==
    LET free == [r \in 0..LastRank |-> FreeIntervals(r)]
    IN [left |-> LayerLeft, right |-> LayerRight, top |-> Top, bottom |-> Bottom,
        free |-> free, spans |-> [e \in Links |-> SparseSpan(e, free)]]

Outer == {e \in Links : survey.spans[e] = None}
OuterNets == {Link(e).net : e \in Outer}
Sparse == Links \ Outer

---------------------------------------------------------------------------
(* Tracks and channels                                                      *)

Clamp(x, low, high) == Least(Most(x, low), high)
GapLeft(gap) == survey.right[gap]
GapRight(gap) == survey.left[gap + 1]
GapWidth(gap) == GapRight(gap) - GapLeft(gap)

\* A gap is wider than asked for where wires or bundles needed the room.
Widened(gap) == GapWidth(gap) > Knobs.layerGap

\* A band of tracks around the middle of the right part of a gap, as wide as it may be.
BandTrack(gap, from, to, lane, count) ==
    LET width == Least(Knobs.laneGap * (count + 1), Most(to - from, 0))
        left == Clamp(GapLeft(gap) + (5 * GapWidth(gap)) \div 8 - width \div 2, from, to - width)
    IN left + (width * (lane + 1)) \div (count + 1)

CompactTrack(gap, lane, count) ==
    IF Widened(gap)
    THEN BandTrack(gap, GapLeft(gap) + Knobs.stub, GapRight(gap) - Knobs.stub, lane, count)
    ELSE GapLeft(gap) + (GapWidth(gap) * (55 * (count + 1) + 15 * (lane + 1))) \div (100 * (count + 1))

\* With a clearance, the left part of what is clear of the nodes, however the tracks are spaced.
ClearTrack(gap, lane, count) ==
    GapLeft(gap) + Knobs.clearance
      + ((GapWidth(gap) - 2 * Knobs.clearance) * 55 * (lane + 1)) \div (100 * (count + 1))

\* sparse_gap_x: adaptive tracks keep to the right part, expanded ones take the whole gap.
SparseGapX(gap, lane, count, spacing) ==
    LET from == IF spacing = "expanded" THEN GapLeft(gap) + Knobs.stub
                ELSE GapLeft(gap) + (55 * GapWidth(gap)) \div 100
        to == GapRight(gap) - Knobs.stub
    IN CASE Knobs.clearance > 0 -> ClearTrack(gap, lane, count)
         [] Knobs.clearance = 0 /\ \/ spacing = "compact"
                                   \/ 100 * (to - from) <= 15 * GapWidth(gap) ->
              CompactTrack(gap, lane, count)
         [] OTHER -> BandTrack(gap, from, to, lane, count)

TrackX(net, gap, lanes, spacing) ==
    SparseGapX(gap, lanes[gap][net], Cardinality(DOMAIN lanes[gap]), spacing)

\* channel_point: the lane beside a layer of a wire that goes around.
ChannelShare(width, index, count) ==
    IF Knobs.clearance > 0
    THEN Knobs.clearance + ((width - 2 * Knobs.clearance) * (55 * (count + 1) + 45 * (index + 1)))
                              \div (100 * (count + 1))
    ELSE (width * (35 * (count + 1) + 15 * (index + 1))) \div (100 * (count + 1))

WestLimit(rank) == IF rank = 0 THEN survey.left[0] - Knobs.layerGap ELSE survey.right[rank - 1]
EastLimit(rank) == IF rank = LastRank THEN survey.right[rank] + Knobs.layerGap
                   ELSE survey.left[rank + 1]
WestChannel(rank, index, count) ==
    WestLimit(rank) + ChannelShare(survey.left[rank] - WestLimit(rank), index, count)
EastChannel(rank, index, count) ==
    survey.right[rank] + ChannelShare(EastLimit(rank) - survey.right[rank], index, count)

\* A port above or below takes the nearer side of its node.
LeavesWest(port) ==
    \/ SideOf(port) = "West"
    \/ /\ SideOf(port) \in {"North", "South"}
       /\ 2 * StubPoint(port)[1] <= 2 * CellOf(port).x + CellOf(port).width
ChannelX(port, index, count) ==
    IF LeavesWest(port) THEN WestChannel(CellOf(port).rank, index, count)
    ELSE EastChannel(CellOf(port).rank, index, count)
=============================================================================
