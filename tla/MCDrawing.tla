------------------------------ MODULE MCDrawing -----------------------------
(* The stages that turn an order of nodes into a drawing: nodes are placed, *)
(* nets are given lanes in the gaps between the layers, wires are led       *)
(* through and around the layers, and open groups get their frames. Every   *)
(* stage is a pure function of its input in the code, so a behaviour is one *)
(* call of one stage on inputs of its own, while the others rest.           *)
EXTENDS MCChannelRoutes, NodePlacement, GapLanes, ExpandedGroups

-----------------------------------------------------------------------------
(* Placements.                                                              *)

\* Three layers: two nodes, three nodes, one node.
Wire(net, source, target) ==
    [net |-> net, source |-> source, target |-> target, out |-> "East", in |-> "West",
     outOffset |-> 2, inOffset |-> 1, ranking |-> TRUE]
Wirings == {<<Wire(1, 1, 3), Wire(1, 1, 6)>>, <<Wire(1, 1, 3), Wire(2, 3, 6)>>,
          <<Wire(1, 2, 3), Wire(2, 3, 6), Wire(3, 1, 6)>>,
          <<Wire(1, 1, 5), Wire(2, 2, 3), Wire(3, 5, 6)>>,
          <<Wire(1, 2, 4), Wire(1, 2, 6), Wire(2, 1, 6), Wire(3, 4, 6)>>,
          <<[Wire(1, 1, 5) EXCEPT !.out = "South"], Wire(2, 5, 6), Wire(3, 2, 4)>>,
          <<Wire(1, 1, 3), [Wire(2, 6, 2) EXCEPT !.in = "North", !.ranking = FALSE], Wire(2, 6, 3)>>}

Bundle(node, role, count) == [node |-> node, role |-> role, lanes |-> count, depth |-> 0, offset |-> 2]
Setting(clearance, apart, room) ==
    [layerGap |-> room, nodeGap |-> 4, stub |-> 2, laneGap |-> 2, clearance |-> clearance,
     spacing |-> apart]

Policies == {[rounds |-> 2, stability |-> 16, backbones |-> FALSE],
             [rounds |-> 3, stability |-> 1, backbones |-> TRUE]}

MCNetlists ==
    {[job |-> "place", edges |-> wires, layers |-> <<<<1, 2>>, <<3, 4, 5>>, <<6>>>>,
      rank |-> <<0, 0, 1, 1, 1, 2>>, width |-> <<6, 6, 8, 6, 8, 6>>,
      height |-> heights, outputs |-> {6}, bundles |-> bundles, options |-> setting,
      demandAware |-> demand, backbones |-> policy.backbones,
      rounds |-> policy.rounds, stability |-> policy.stability] :
        wires \in Wirings, heights \in {<<4, 4, 4, 4, 4, 4>>, <<10, 4, 6, 20, 4, 8>>},
        bundles \in {<<>>, <<Bundle(1, "Input", 3)>>, <<Bundle(2, "Input", 2), Bundle(6, "Output", 4)>>},
        setting \in {Setting(0, 0, 10), Setting(3, 4, 6)}, demand \in BOOLEAN, policy \in Policies}

-----------------------------------------------------------------------------
(* Lanes.                                                                   *)

\* Ways a net passes a gap: by the levels at which its wires enter and leave.
Shapes == {<<<<1, 5>>>>, <<<<4, 2>>>>, <<<<3, 3>>>>, <<<<2, 6>>, <<2, 1>>>>}
FewShapes == {<<<<1, 5>>>>, <<<<4, 2>>>>, <<<<2, 6>>, <<2, 1>>>>}

GapOf(crossings) ==
    LET legs == [n \in DOMAIN crossings |->
                   [i \in DOMAIN crossings[n] |->
                      [id |-> <<n, i>>, net |-> n, from |-> 1, levels |-> crossings[n][i]]]]
    IN [lanes |-> [n \in DOMAIN crossings |-> n - 1],
        access |-> Access(FlattenSeq(legs), 1)]

Ordering(gaps, rounds, large, refined) ==
    [job |-> "lanes", gaps |-> gaps, rounds |-> rounds, global |-> TRUE,
     large |-> large, refined |-> refined]

SmallGaps == UNION {{GapOf(c) : c \in [1..n -> Shapes]} : n \in 1..3}
\* Two gaps in which a second round of insertion still finds something.
Restless == {GapOf(<<<<<<7, 7>>, <<2, 1>>>>, <<<<1, 5>>, <<6, 2>>>>, <<<<7, 2>>>>, <<<<7, 7>>>>,
                       <<<<3, 1>>, <<6, 5>>>>>>),
             GapOf(<<<<<<2, 2>>, <<2, 5>>>>, <<<<7, 3>>>>, <<<<2, 3>>>>, <<<<5, 2>>, <<1, 6>>>>,
                       <<<<3, 7>>>>>>)}
LargeGaps == Restless \cup {GapOf(c) : c \in [1..5 -> FewShapes]}
TooLarge == {GapOf([n \in 1..6 |-> <<<<n, 7 - n>>>>])}
Steep == GapOf(<<<<<<1, 5>>>>, <<<<4, 2>>>>>>)

OrderingProblems ==
    {Ordering(<<g>>, r, l, FALSE) : g \in SmallGaps, r \in {1, 3}, l \in BOOLEAN}
    \cup {Ordering(<<g>>, 2, TRUE, f) : g \in LargeGaps \cup TooLarge, f \in BOOLEAN}
    \cup {Ordering(<<Steep, g>>, 1, TRUE, TRUE) : g \in LargeGaps}
    \cup {[Ordering(<<g>>, 2, FALSE, FALSE) EXCEPT !.global = b] :
              g \in {GapOf([n \in 1..5 |-> <<<<n, 6 - n>>>>])}, b \in BOOLEAN}

\* Tracks of two parts of two nets and one of a third, on up to three wires.
TrackKeys == {<<1, 0>>, <<1, 1>>, <<2, 0>>, <<2, 1>>, <<3, 0>>}
Track(low, high, edges) == [vertical |-> <<<<low, high>>>>, edges |-> edges]
PitchGaps ==
    {[lanes |-> l, access |-> a] :
        l \in {[t \in TrackKeys |-> IF t[2] = 0 THEN t[1] - 1 ELSE t[1] + 2],
               [t \in TrackKeys |-> IF t[2] = 0 THEN 4 - t[1] ELSE t[1] - 1]},
        a \in [TrackKeys -> {Track(0, 1, {1}), Track(1, 3, {2}), Track(2, 4, {3})}]}
OneTrack == [lanes |-> <<1, 0>> :> 0, access |-> <<1, 0>> :> Track(0, 1, {1})]

PitchProblems ==
    {[job |-> "pitch", gaps |-> <<g>>] : g \in PitchGaps}
    \cup {[job |-> "pitch", gaps |-> g] :
             g \in {<<OneTrack>>} \cup {<<OneTrack, h, h>> : h \in PitchGaps}}

RepairGaps == {[lanes |-> l] : l \in {<<0, 1, 2, 3>>, <<3, 1, 0, 2>>, <<1, 0, 3, 2>>}}
RepairProblems ==
    {[job |-> "repair", gaps |-> <<g, h>>, total |-> t, crossings |-> c, limit |-> m] :
        g, h \in RepairGaps, t \in {2, 9}, c \in [1..4 -> {1, 2, 3}], m \in {2, 4}}

MCProblems == OrderingProblems \cup PitchProblems \cup RepairProblems

-----------------------------------------------------------------------------
(* Open groups.                                                             *)

Rect(x, y, width, height) == [x |-> x, y |-> y, width |-> width, height |-> height]
Group(id, members, reference, padding) ==
    [id |-> id, members |-> members, reference |-> reference, padding |-> padding]
Joined(source, target, points) == [source |-> source, target |-> target, points |-> points]

\* Four nodes that may be members, with strangers right of them and below.
Standing(x, y) ==
    {<<Rect(x, y, 4, 4), Rect(x, y + 6, 4, 4), Rect(x, y + 12, 4, 4), Rect(x + 8, y, 4, 4),
       Rect(x + a, y + 8, 6, b), Rect(x + c, y + 18, 14, 3), Rect(x + 16, y + 6, 4, 12)>> :
        a \in {6, 8}, b \in {3, 8}, c \in {0, 7}}
Wiring == {<<>>, <<Joined(1, 2, <<<<4, 2>>, <<6, 2>>, <<6, 8>>, <<4, 8>>>>)>>,
           <<Joined(1, 4, <<<<4, 2>>, <<8, 2>>>>), Joined(2, 3, <<<<0, 9>>, <<-3, 9>>, <<-3, 14>>, <<0, 14>>>>)>>}

Lone == {<<Group(1, m, r, p)>> :
            m \in {<<1, 2>>, <<2, 1, 3>>, <<1, 2, 3, 4>>}, r \in {4, 12}, p \in {0, 2}}
Pairs2 == {<<Group(2, m, 4, 1), Group(1, n, 12, 1)>> :
             m \in {<<1, 2>>, <<1>>}, n \in {<<3, 4>>, <<7>>, <<5, 6>>}}
Faulty == {<<>>, <<Group(1, <<>>, 4, 0)>>, <<Group(1, <<1>>, 0, 0)>>, <<Group(1, <<1>>, 4, -1)>>,
           <<Group(1, <<1, 2, 1>>, 4, 0)>>, <<Group(1, <<1, 9>>, 4, 0)>>,
           <<Group(2, <<1, 2>>, 4, 0), Group(1, <<2>>, 4, 0)>>,
           <<Group(1, <<1, 9>>, 4, 0), Group(1, <<2, 2>>, 4, 0)>>,
           <<Group(1, <<1>>, 4, 0), Group(2, <<2>>, 4, 0), Group(3, <<3>>, 4, 0)>>,
           <<Group(1, <<1, 2, 3, 4, 5>>, 4, 0)>>}

Asking(rects, wires, groups) ==
    [job |-> "groups", rects |-> rects, wires |-> wires, groups |-> groups,
     memberGap |-> 3, nodeGap |-> 2]

MCOpenings ==
    {Asking(r, w, g) : r \in Standing(0, 0), w \in Wiring, g \in Lone \cup Pairs2}
    \cup {Asking(r, <<>>, g) : r \in Standing(10, 5), g \in Lone \cup Pairs2 \cup Faulty}

-----------------------------------------------------------------------------
(* One call at a time.                                                      *)

Rest == [job |-> "none"]

PlacementRests ==
    netlist = Rest /\ layerGaps = None /\ nodeGaps = None /\ placed = None /\ turn = 0 /\ straight = None

LanesRest ==
    /\ problem = Rest /\ admitted = None /\ gap = 1 /\ work = None /\ ordered = <<>>
    /\ visits = None /\ outcome = None

ChannelsRest ==
    /\ sheet = Rest /\ survey = None /\ lanes = <<>> /\ around = <<>> /\ tracks = <<>> /\ paths = <<>>
    /\ stage = "survey" /\ spacing = None /\ drawn = None /\ redrawn = {}

GroupsRest == opening = Rest /\ plans = None /\ standing = None /\ settled = 0 /\ answer = None

Init ==
    \/ PlacementInit /\ LanesRest /\ ChannelsRest /\ GroupsRest
    \/ LaneInit /\ PlacementRests /\ ChannelsRest /\ GroupsRest
    \/ ChannelsInit /\ PlacementRests /\ LanesRest /\ GroupsRest
    \/ GroupsInit /\ PlacementRests /\ LanesRest /\ ChannelsRest

Next ==
    \/ PlacementNext /\ UNCHANGED <<laneVars, routeVars, groupVars>>
    \/ LaneNext /\ UNCHANGED <<placementVars, routeVars, groupVars>>
    \/ ChannelsNext /\ UNCHANGED <<placementVars, laneVars, groupVars>>
    \/ GroupsNext /\ UNCHANGED <<placementVars, laneVars, routeVars>>

Spec == Init /\ [][Next]_<<placementVars, laneVars, routeVars, groupVars>>
=============================================================================
