---------------------------- MODULE ChannelRoutes ----------------------------
(* How routes are drawn (routing.rs): the wires that go around get a side   *)
(* and an order beyond the drawing, the ends that would leave their ports   *)
(* on one line get tracks of their own, and the routes are put together     *)
(* leg by leg. Nets whose feedback is split are brought to one side, and    *)
(* nets whose arms cross too much change the side, and are drawn again.     *)
(*                                                                          *)
(* Through which free stretch of a layer a wire passes is a free choice.    *)
EXTENDS ChannelGeometry

CONSTANTS RowTolerance,                       \* how far heights of one row may be apart
          MinRouteSegment,                    \* no step of a route is as small as that
          MinChannelEdges, MinOuterBranches,  \* nets that fan out
          MinSideGain, MaxBatchedSides

ASSUME RowsAssumption ==
    /\ RowTolerance \in Nat /\ MinRouteSegment \in Nat
    /\ RowTolerance <= MinRouteSegment

VARIABLES lanes,      \* the order of the nets in every gap
          around,     \* of the wires that go around: side, order beyond it, channel
          stage,      \* what is done next
          tracks,     \* of the ends that share a row with others
          paths,      \* the heights at which a wire passes the layers between
          spacing,    \* how the tracks of the gaps are spaced
          drawn,      \* the routes, None before
          redrawn     \* what the routes have been drawn again for: "coherent", "sides"

routeVars == <<sheet, survey, lanes, around, stage, tracks, paths, spacing, drawn, redrawn>>

---------------------------------------------------------------------------
(* Wires that go around                                                     *)

LaneIndices(nets) == [n \in nets |-> Cardinality({m \in nets : m < n})]

\* A net fans out when all of its wires that go around leave from one port.
OuterLinks(net) == {e \in Outer : Link(e).net = net}
Fanout(net) ==
    IF /\ Cardinality({Link(e).source : e \in OuterLinks(net)}) = 1
       /\ Cardinality(OuterLinks(net)) >= MinChannelEdges
    THEN Cardinality(OuterLinks(net)) ELSE 0

\* fanout_outer_channel_lane_indices: such nets are last, None when they are few.
FanoutLanes ==
    LET order == InOrder(OuterNets, <)
    IN IF Total([i \in DOMAIN order |-> Fanout(order[i])]) < MinOuterBranches THEN None
       ELSE [n \in OuterNets |->
               Cardinality({m \in OuterNets : LexLess(<<Fanout(m), m>>, <<Fanout(n), n>>)})]

\* The nearer side of a wire, and the one of a net with feedback, each port of it once.
Ends(e) == {Link(e).source, Link(e).target}
ToTop(port) == PortPoint(port)[2] - survey.top
ToBottom(port) == survey.bottom - PortPoint(port)[2]
Nearer(top, bottom) == IF bottom < top THEN "Bottom" ELSE "Top"
NearerForWire(e) ==
    Nearer(ToTop(Link(e).source) + ToTop(Link(e).target),
           ToBottom(Link(e).source) + ToBottom(Link(e).target))
NearerForNet(net) ==
    LET ports == InOrder(UNION {Ends(e) : e \in OuterLinks(net)}, LexLess)
    IN Nearer(Total([i \in DOMAIN ports |-> ToTop(ports[i])]),
              Total([i \in DOMAIN ports |-> ToBottom(ports[i])]))

FeedbackNets == {Link(e).net : e \in {f \in Links : ~Link(f).ranking}}

\* outer_lane_assignments: a net with feedback is kept together when that is asked for.
SideFor(e, coherent) ==
    IF coherent /\ Link(e).net \in FeedbackNets THEN NearerForNet(Link(e).net) ELSE NearerForWire(e)

Assigned(channels, coherent) ==
    [e \in Outer |-> [side |-> SideFor(e, coherent), index |-> 0, channel |-> channels[Link(e).net]]]

\* Where the two ends of a wire run to and from beyond the drawing.
ArmX(assigned, e, port) == ChannelX(port, assigned[e].channel, Cardinality(OuterNets))
SourceX(assigned, e) == ArmX(assigned, e, Link(e).source)
TargetX(assigned, e) == ArmX(assigned, e, Link(e).target)

\* outer_pair_crossings: arms of the outer net that pass through trunks of the inner one.
OuterPairCrossings(x, inner, outer) ==
    Cardinality({<<i, j, k>> \in inner \X outer \X {1, 2} :
                    Least(x[i][1], x[i][2]) < x[j][k] /\ x[j][k] < Most(x[i][1], x[i][2])})

Exchanged(cost, a, b) == cost[<<b, a>>] < cost[<<a, b>>]

\* One pass over neighbours, from the innermost outwards.
OuterPass(order, cost) ==
    LET after[i \in 0..(Len(order) - 1)] ==
            IF i = 0 THEN order
            ELSE LET o == after[i - 1]
                 IN IF Exchanged(cost, o[i], o[i + 1])
                    THEN [o EXCEPT ![i] = o[i + 1], ![i + 1] = o[i]] ELSE o
    IN after[Len(order) - 1]

\* crossing_aware_outer_lane_indices_with_rounds, by the order of the nets at first.
OuterOrder(nets, cost, rounds) ==
    LET after[k \in 0..rounds] == IF k = 0 THEN InOrder(nets, <) ELSE OuterPass(after[k - 1], cost)
    IN IF nets = {} THEN <<>> ELSE after[rounds]

OnSide(assigned, side) == {e \in Outer : assigned[e].side = side}
NetsOnSide(assigned, side) == {Link(e).net : e \in OnSide(assigned, side)}
CostsOnSide(assigned, side) ==
    LET x == [e \in Outer |-> <<SourceX(assigned, e), TargetX(assigned, e)>>]
        mine(net) == {e \in OnSide(assigned, side) : Link(e).net = net}
        nets == NetsOnSide(assigned, side)
    IN [pair \in nets \X nets |-> OuterPairCrossings(x, mine(pair[1]), mine(pair[2]))]
OrderCostOf(order, cost) ==
    Total([i \in DOMAIN order |->
             Total([j \in 1..(Len(order) - i) |-> cost[<<order[i], order[i + j]>>]])])

\* reindex_outer_lane_assignments.
Reindexed(assigned) ==
    LET orders == [side \in {"Top", "Bottom"} |->
                     OuterOrder(NetsOnSide(assigned, side), CostsOnSide(assigned, side), sheet.rounds)]
        place(e) == LET o == orders[assigned[e].side]
                    IN CHOOSE i \in DOMAIN o : o[i] = Link(e).net
    IN [e \in Outer |-> [assigned[e] EXCEPT !.index = place(e) - 1]]

---------------------------------------------------------------------------
(* Tracks of the ends on one row                                            *)

\* Where an end runs to from its stub: to its track in the gap, or to its channel.
SpanOf(e) == survey.spans[e]
RunsTo(e, role, gaps, assigned, spaced) ==
    CASE e \in Outer /\ role = 0 -> SourceX(assigned, e)
      [] e \in Outer /\ role = 1 -> TargetX(assigned, e)
      [] e \in Sparse /\ role = 0 -> TrackX(Link(e).net, SpanOf(e)[1], gaps, spaced)
      [] e \in Sparse /\ role = 1 -> TrackX(Link(e).net, SpanOf(e)[2] - 1, gaps, spaced)
EndAt(e, role) == IF role = 0 THEN Link(e).source ELSE Link(e).target

\* The ends beside a node, as <<node, port, role>>.
EndKeys ==
    {<<EndAt(c[1], c[2])[1], EndAt(c[1], c[2])[2], c[2]>> :
        c \in {d \in Links \X {0, 1} : SideOf(EndAt(d[1], d[2])) \in {"East", "West"}}}
PortOf(key) == <<key[1], key[2]>>
LinksAt(key) == {e \in Links : EndAt(e, key[3]) = PortOf(key)}

\* An end is of the net of its first wire and as wide as all of them.
Reach(key, gaps, assigned, spaced) ==
    LET xs == {StubPoint(PortOf(key))[1]} \cup {RunsTo(e, key[3], gaps, assigned, spaced) : e \in LinksAt(key)}
    IN [key |-> key, net |-> Link(Smallest(LinksAt(key))).net, y |-> PortPoint(PortOf(key))[2],
        low |-> Smallest(xs), high |-> Largest(xs)]

\* Rows of heights that follow each other closely.
Tolerance == IF Knobs.clearance > 0 THEN RowTolerance ELSE 0
RowsOf(reaches) ==
    LET heights == {a.y : a \in reaches}
        begin(y) == Largest({z \in heights : /\ z <= y
                                             /\ \A w \in heights : w < z => z - w > Tolerance})
    IN {{a \in reaches : begin(a.y) = z} : z \in {begin(y) : y \in heights}}

\* (mutant) ends are never together.
EachAlone(row) == {{a} : a \in row}

\* The parts of a row that overlap, wherever a first one is clear of all before it.
PartsOf(row) ==
    LET before(a, b) == LexLess(<<a.low, a.high>> \o a.key, <<b.low, b.high>> \o b.key)
        starts == {a \in row : \A b \in row : before(b, a) => b.high < a.low}
        start(a) == CHOOSE s \in starts :
                       /\ s = a \/ before(s, a)
                       /\ \A t \in starts : (t = a \/ before(t, a)) => (t = s \/ before(t, s))
    IN {{a \in row : start(a) = s} : s \in starts}

ByHeight(reaches) ==
    InOrder(reaches, LAMBDA a, b : LexLess(<<a.y>> \o a.key, <<b.y>> \o b.key))

(* approximate_component_offsets: lanes around the middle of ends that are  *)
(* not quite at one height, None when they would not fit or not be apart.   *)
ApproximateOffsets(part) ==
    LET order == ByHeight(part)
        count == Len(order)
        offset == [i \in DOMAIN order |-> ((2 * i - 1 - count) * Knobs.laneGap) \div 2]
    IN IF \/ count < 2 \/ (count - 1) * Knobs.laneGap > 2 * OutwardStub
          \/ \E i \in 2..count : order[i].y + offset[i] - order[i - 1].y - offset[i - 1] < Knobs.laneGap
       THEN None ELSE offset

\* endpoint_tracks_from_accesses: parts of several nets share the lanes of their row.
TracksOf(reaches) ==
    LET crowded(row) == {p \in PartsOf(row) : Cardinality({a.net : a \in p}) > 1}
        tracked(row) == UNION crowded(row)
        of(row, a) == CHOOSE p \in crowded(row) : a \in p
        offset(part, a) ==
            IF Cardinality({b.y : b \in part}) = 1 \/ ApproximateOffsets(part) = None THEN None
            ELSE ApproximateOffsets(part)[CHOOSE i \in 1..Cardinality(part) : ByHeight(part)[i] = a]
        laneOf(row, a) == CHOOSE i \in 1..Cardinality(tracked(row)) : ByHeight(tracked(row))[i] = a
        all == UNION {{<<row, a>> : a \in tracked(row)} : row \in RowsOf(reaches)}
    IN [k \in {t[2].key : t \in all} |->
          LET t == CHOOSE u \in all : u[2].key = k
          IN [lane |-> laneOf(t[1], t[2]) - 1, count |-> Cardinality(tracked(t[1])),
              offset |-> offset(of(t[1], t[2]), t[2])]]

\* build_endpoint_tracks.
BuiltTracks(gaps, assigned, spaced) ==
    TracksOf({Reach(k, gaps, assigned, spaced) : k \in EndKeys})

\* endpoint_escape_y.
EscapeY(e, role) ==
    LET port == EndAt(e, role)
        key == <<port[1], port[2], role>>
        y == PortPoint(port)[2]
    IN IF key \notin DOMAIN tracks THEN y
       ELSE LET t == tracks[key]
            IN IF t.offset # None THEN y + t.offset
               ELSE y + (Knobs.stub * (2 * (t.lane + 1) - (t.count + 1))) \div (2 * (t.count + 1))

---------------------------------------------------------------------------
(* Routes                                                                   *)

\* push_point: no point twice, and none in the middle of a straight leg.
PushPoint(points, p) ==
    LET n == Len(points)
        straightOn == n >= 2 /\ \E axis \in {1, 2} :
            points[n - 1][axis] = points[n][axis] /\ points[n][axis] = p[axis]
    IN CASE n > 0 /\ points[n] = p -> points
         [] (n = 0 \/ points[n] # p) /\ straightOn -> [points EXCEPT ![n] = p]
         [] OTHER -> Append(points, p)
Pushed(list) ==
    LET after[i \in 0..Len(list)] == IF i = 0 THEN <<>> ELSE PushPoint(after[i - 1], list[i])
    IN after[Len(list)]

\* Beyond the drawing, a lane further for every net.
LaneY(lane) ==
    LET away == OutwardStub + (lane.index + 1) * Knobs.laneGap
    IN IF lane.side = "Top" THEN survey.top - away ELSE survey.bottom + away

\* emit_routes: around the drawing.
OutwardEscape(e, role) ==
    LET port == EndAt(e, role)
    IN IF SideOf(port) \in {"East", "West"} THEN EscapeY(e, role) ELSE StubPoint(port)[2]
OuterRoute(e) ==
    LET from == Link(e).source
        to == Link(e).target
        leave == OutwardEscape(e, 0)
        arrive == OutwardEscape(e, 1)
        y == LaneY(around[e])
    IN Pushed(<<PortPoint(from), StubPoint(from), <<StubPoint(from)[1], leave>>,
                <<SourceX(around, e), leave>>, <<SourceX(around, e), y>>,
                <<TargetX(around, e), y>>, <<TargetX(around, e), arrive>>,
                <<StubPoint(to)[1], arrive>>, StubPoint(to), PortPoint(to)>>)

\* The height at which a wire comes to its last gap, and the row it goes on to
\* its target: a stub lower when that is all but the height it is on already.
LastHeight(e) ==
    LET passed == SpanOf(e)[2] - SpanOf(e)[1] - 1
    IN IF passed = 0 THEN EscapeY(e, 0) ELSE paths[e][passed]
ArrivalRow(e) ==
    LET step == EscapeY(e, 1) - LastHeight(e)
    IN IF step # 0 /\ Most(step, 0 - step) <= MinRouteSegment THEN LastHeight(e) + Knobs.stub
       ELSE EscapeY(e, 1)

\* sparse_channel_route: from gap to gap.
SparseRoute(e, spaced) ==
    LET from == Link(e).source
        to == Link(e).target
        x(gap) == TrackX(Link(e).net, gap, lanes, spaced)
        first == SpanOf(e)[1]
        last == SpanOf(e)[2] - 1
        leave == EscapeY(e, 0)
        row == ArrivalRow(e)
        through == [i \in 1..(2 * (last - first)) |->
                      LET rank == first + (i + 1) \div 2
                      IN <<x(IF i % 2 = 1 THEN rank - 1 ELSE rank), paths[e][rank - first]>>]
    IN Pushed(<<PortPoint(from), StubPoint(from), <<StubPoint(from)[1], leave>>, <<x(first), leave>>>>
              \o through
              \o <<<<x(last), row>>, <<StubPoint(to)[1], row>>,
                   <<StubPoint(to)[1], EscapeY(e, 1)>>, StubPoint(to), PortPoint(to)>>)

Routes(spaced) == [e \in Links |-> IF e \in Outer THEN OuterRoute(e) ELSE SparseRoute(e, spaced)]

---------------------------------------------------------------------------
(* Other sides                                                              *)

Net(e) == Link(e).net
NetEdges == [e \in Links |-> [id |-> e, net |-> Net(e), source |-> Link(e).source, target |-> Link(e).target]]
\* physical_route_segments.
Physical(routes) ==
    MergeSorted(SortedUnmerged(NetEdges, [e \in Links |-> [id |-> e, points |-> routes[e]]]))
Horizontals == {s \in Range(Physical(drawn)) : s.horizontal}

\* has_split_feedback_net.
SplitNets == {n \in FeedbackNets : \E d, e \in Outer : /\ Net(d) = n /\ Net(e) = n
                                                     /\ around[d].side # around[e].side}

\* outer_arm_segments: from the ends of the wires to the border, joined net by net.
ArmsToward(sides) ==
    LET order == InOrder(Outer, <)
        border(e) == IF sides[e] = "Top" THEN survey.top ELSE survey.bottom
        arm(e, role) == Segment(NetEdges[e], <<ArmX(around, e, EndAt(e, role)), EscapeY(e, role)>>,
                                <<ArmX(around, e, EndAt(e, role)), border(e)>>)
        arms == [i \in 1..(2 * Len(order)) |-> arm(order[(i + 1) \div 2], (i + 1) % 2)]
    IN MergeSorted(SortSeq(SelectSeq(arms, LAMBDA a : a.start < a.end),
                           LAMBDA a, b : LexLess(SegmentKey(a), SegmentKey(b))))

\* physical_crossing_sweep_lines: with what is not of the net, nor at a port it shares.
Crosses(arm, h) ==
    /\ h.start < arm.fixed /\ arm.fixed < h.end /\ arm.start < h.fixed /\ h.fixed < arm.end
    /\ h.net # arm.net
    /\ {h.source, h.target} \cap {arm.source, arm.target} \cap SharedEndpoints(NetEdges) = {}

\* outer_arm_crossing_profiles.
ArmCrossings(sides) ==
    LET arms == Range(ArmsToward(sides))
        lines == Horizontals
    IN [n \in OuterNets |-> Cardinality({c \in {a \in arms : a.net = n} \X lines : Crosses(c[1], c[2])})]
OneSide(side) == [e \in Outer |-> side]

\* select_outer_side_repairs: of the nets that gain enough the best few, the other side for each.
WorthMoving(profile) ==
    LET better(n) == IF profile.top[n] < profile.bottom[n] THEN "Top" ELSE "Bottom"
        gain(n) == profile.current[n] - Least(profile.top[n], profile.bottom[n])
        nets == {n \in OuterNets : /\ profile.top[n] # profile.bottom[n] /\ gain(n) >= MinSideGain
                                   /\ \E e \in OuterLinks(n) : around[e].side # better(n)}
        best == {n \in nets : Cardinality({m \in nets : LexLess(<<0 - gain(m), m>>, <<0 - gain(n), n>>)})
                                 < MaxBatchedSides}
    IN [n \in best |-> better(n)]

---------------------------------------------------------------------------
(* Drawing                                                                  *)

ChannelsInit ==
    /\ sheet \in Sheets
    /\ survey = None /\ lanes = <<>> /\ around = <<>> /\ tracks = <<>> /\ paths = <<>>
    /\ stage = "survey" /\ spacing = None /\ drawn = None /\ redrawn = {}

At(now) == sheet.job = "route" /\ stage = now

SurveySheet ==
    /\ At("survey") /\ stage' = "lanes"
    /\ survey' = Survey
    /\ UNCHANGED <<sheet, lanes, around, tracks, paths, spacing, drawn, redrawn>>

\* The lanes at first; the wires that go around get a side and a channel of their net.
AssignLanes ==
    /\ At("lanes") /\ stage' = "order"
    /\ lanes' = [gap \in 0..(LastRank - 1) |-> 
                 PreferredOrder(Through(survey.spans, gap), survey.spans, gap)]
    /\ \E channels \in {LaneIndices(OuterNets)} \cup ({FanoutLanes} \ {None}) :
          around' = Assigned(channels, FALSE)
    /\ UNCHANGED <<sheet, survey, tracks, paths, spacing, drawn, redrawn>>

OrderOuter ==
    /\ At("order") /\ stage' = "tracks"
    /\ around' = Reindexed(around)
    /\ UNCHANGED <<sheet, survey, lanes, tracks, paths, spacing, drawn, redrawn>>

\* The nets of a gap may be ordered anew (GapLanes) before the tracks are built.
LaneOrders(gap) ==
    {f \in [DOMAIN lanes[gap] -> 0..(Cardinality(DOMAIN lanes[gap]) - 1)] :
        \A m, n \in DOMAIN f : f[m] = f[n] => m = n}
BuildTracks ==
    /\ At("tracks") /\ spacing = None /\ stage' = "paths"
    /\ lanes' \in {orders \in [DOMAIN lanes -> UNION {LaneOrders(k) : k \in DOMAIN lanes}] :
                     \A k \in DOMAIN lanes : orders[k] \in LaneOrders(k)}
    /\ tracks' = BuiltTracks(lanes', around, "compact")
    /\ UNCHANGED <<sheet, survey, around, paths, spacing, drawn, redrawn>>

\* route_quality: crossings first, then bends, then length.
RouteQuality(routes) ==
    LET physical == Physical(routes)
    IN <<Cardinality({c \in Range(physical) \X Range(physical) :
                        /\ ~c[1].horizontal /\ c[2].horizontal /\ Crosses(c[1], c[2])}),
         Cardinality(Bends(NetEdges, [e \in Links |-> [id |-> e, points |-> routes[e]]])),
         RouteLength(physical)>>

(* Other spacings than compact only when a gap has two lanes: adaptive if   *)
(* it is better, expanded also if it only makes less congestion, which is a *)
(* free choice.                                                             *)
Spacings ==
    LET compact == RouteQuality(Routes("compact"))
        better(spaced) == LexLess(RouteQuality(Routes(spaced)), compact)
        alike(spaced) == \A i \in 1..2 : RouteQuality(Routes(spaced))[i] = compact[i]
    IN IF \A k \in DOMAIN lanes : Cardinality(DOMAIN lanes[k]) <= 1 THEN {"compact"}
       ELSE {"compact"} \cup {s \in {"adaptive"} : better(s)}
                       \cup {s \in {"expanded"} : Outer = {} /\ (better(s) \/ alike(s))}

\* crossing_track_y: in a free stretch every net has a lane of its own.
CrossingTrack(e, rank, interval) ==
    LET order == PreferredOrder(Across(survey.spans, rank), survey.spans, rank)
    IN interval[1] + ((interval[2] - interval[1]) * (order[Net(e)] + 1)) \div (Cardinality(DOMAIN order) + 1)

Passages == {p \in Sparse \X (0..LastRank) : p[1] \in Across(survey.spans, p[2])}
ChoosePaths ==
    /\ At("paths") /\ stage' = "emit"
    /\ \E taken \in [Passages -> UNION {survey.free[r] : r \in 0..LastRank}] :
         /\ \A p \in Passages : taken[p] \in survey.free[p[2]]
         /\ paths' = [e \in Sparse |-> [i \in 1..(SpanOf(e)[2] - SpanOf(e)[1] - 1) |->
                        CrossingTrack(e, SpanOf(e)[1] + i, taken[<<e, SpanOf(e)[1] + i>>])]]
    /\ UNCHANGED <<sheet, survey, lanes, around, tracks, spacing, drawn, redrawn>>

\* The first drawing chooses a spacing; the others keep it.
Emit ==
    /\ At("emit") /\ stage' = "drawn"
    /\ spacing' \in IF spacing = None THEN Spacings ELSE {spacing}
    /\ drawn' = Routes(spacing')
    /\ UNCHANGED <<sheet, survey, lanes, around, tracks, paths, redrawn>>

\* Nets with feedback on both sides are drawn on one; their channels stay, and so do the tracks.
MakeCoherent ==
    /\ At("drawn") /\ redrawn = {} /\ SplitNets # {}
    /\ stage' = "order" /\ redrawn' = {"coherent"}
    /\ around' = [e \in Outer |-> [around[e] EXCEPT !.side = SideFor(e, TRUE)]]
    /\ UNCHANGED <<sheet, survey, lanes, tracks, paths, spacing, drawn>>
KeepTracks ==
    /\ At("tracks") /\ redrawn = {"coherent"} /\ stage' = "emit"
    /\ UNCHANGED <<sheet, survey, lanes, around, tracks, paths, spacing, drawn, redrawn>>

\* (mutant) only the first wire of a net is looked up.
MovedInPart(chosen) ==
    [e \in Outer |-> IF Net(e) \in DOMAIN chosen /\ e = Smallest(OuterLinks(Net(e)))
                     THEN [around[e] EXCEPT !.side = chosen[Net(e)]] ELSE around[e]]
\* Nets whose arms cross too much are moved as a whole.
Moved(chosen) ==
    [e \in Outer |-> IF Net(e) \in DOMAIN chosen
                     THEN [around[e] EXCEPT !.side = chosen[Net(e)]] ELSE around[e]]
MoveSides ==
    /\ At("drawn") /\ "sides" \notin redrawn /\ Outer # {}
    /\ \E profile \in {[current |-> ArmCrossings([e \in Outer |-> around[e].side]),
                        top |-> ArmCrossings(OneSide("Top")),
                        bottom |-> ArmCrossings(OneSide("Bottom"))]} :
       \E chosen \in {WorthMoving(profile)} :
         DOMAIN chosen # {} /\ around' = Moved(chosen)
    /\ stage' = "order" /\ redrawn' = redrawn \cup {"sides"}
    /\ UNCHANGED <<sheet, survey, lanes, tracks, paths, spacing, drawn>>
RebuildTracks ==
    /\ At("tracks") /\ "sides" \in redrawn /\ stage' = "paths"
    /\ tracks' = BuiltTracks(lanes, around, spacing)
    /\ UNCHANGED <<sheet, survey, lanes, around, paths, spacing, drawn, redrawn>>

ChannelsDone == sheet.job = "route" /\ stage = "drawn" /\ UNCHANGED routeVars

ChannelsNext ==
    \/ SurveySheet \/ AssignLanes \/ OrderOuter \/ BuildTracks \/ ChoosePaths \/ Emit
    \/ MakeCoherent \/ KeepTracks \/ MoveSides \/ RebuildTracks \/ ChannelsDone

ChannelsSpec == ChannelsInit /\ [][ChannelsNext]_routeVars

---------------------------------------------------------------------------
(* What the routes are                                                      *)

Drawn == stage = "drawn"
\* The tracks are built for compact spacing: see TracksDescribeSpacing.
SpacingIsSafe == spacing = "compact" \/ Outer = {} \/ \A k \in DOMAIN lanes : ~Widened(k)

\* The piece of row a wire runs along to leave or reach a port.
Escape(e, role) ==
    LET xs == {StubPoint(EndAt(e, role))[1], RunsTo(e, role, lanes, around, spacing)}
        y == IF e \in Sparse /\ role = 1 THEN ArrivalRow(e) ELSE EscapeY(e, role)
    IN [y |-> y, low |-> Smallest(xs), high |-> Largest(xs)]
Besides == {c \in Links \X {0, 1} : SideOf(EndAt(c[1], c[2])) \in {"East", "West"}}

\* The way from one point to the next leads straight away from a node.
Leaves(side, p, q) ==
    LET out == Outward(side)
        way == <<q[1] - p[1], q[2] - p[2]>>
    IN way[1] * out[2] = 0 /\ way[2] * out[1] = 0 /\ way[1] * out[1] + way[2] * out[2] > 0

\* Ports whose heights are taken for one row.
InOneRow(p, q) ==
    LET step == PortPoint(p)[2] - PortPoint(q)[2] IN Most(step, 0 - step) <= Tolerance

(* Wires of different nets never leave or reach their nodes on top of each  *)
(* other: of two whose ports are in one row and that meet, each runs along  *)
(* a line of its own, a track or the way around a step that would be too    *)
(* small, also after sides and orders have changed                          *)
(* (endpoint_tracks_from_accesses, sparse_channel_route, and the tracks     *)
(* that the coherent alternative keeps). Every route runs from its source   *)
(* to its target, leaves both outward, and never slants or stands still,    *)
(* whatever points push_point has left out.                                 *)
EscapesKeepApart ==
    Drawn =>
      /\ SpacingIsSafe => \A c, d \in Besides :
            LET a == Escape(c[1], c[2])
                b == Escape(d[1], d[2])
                from == EndAt(c[1], c[2])
                to == EndAt(d[1], d[2])
            IN /\ Net(c[1]) # Net(d[1]) /\ from # to /\ InOneRow(from, to)
               /\ a.low <= b.high /\ b.low <= a.high
               => a.y # b.y
      /\ \A e \in Links :
            LET p == drawn[e]
            IN /\ Head(p) = PortPoint(Link(e).source) /\ Last(p) = PortPoint(Link(e).target)
               /\ \A i \in 1..(Len(p) - 1) : Straight(p[i], p[i + 1])
               /\ Leaves(SideOf(Link(e).source), p[1], p[2])
               /\ Leaves(SideOf(Link(e).target), p[Len(p)], p[Len(p) - 1])

\* Where the nets run up and down, as <<net, x>>.
Uprights ==
    {<<Net(e), ArmX(around, e, port)>> : <<e, port>> \in {c \in Outer \X DOMAIN sheet.ports : c[2] \in Ends(c[1])}}
    \cup UNION {{<<n, TrackX(n, k, lanes, spacing)>> : n \in DOMAIN lanes[k]} : k \in DOMAIN lanes}

(* Beyond the drawing every net has a lane of its own that no other leg     *)
(* reaches, whatever was moved to its side later, and between the layers a  *)
(* line of its own unless room was made there, whose tracks take up what    *)
(* the wires around use (outer_lane_assignments, channel_point,             *)
(* sparse_gap_x).                                                           *)
LanesKeepApart ==
    Drawn =>
      /\ \A d, e \in Outer : Net(d) # Net(e) => LaneY(around[d]) # LaneY(around[e])
      /\ \A d \in Outer, e \in Links : \A p \in Range(drawn[e]) :
            \/ e \in Outer /\ p[2] = LaneY(around[e])
            \/ around[d].side = "Top" /\ LaneY(around[d]) < p[2]
            \/ around[d].side = "Bottom" /\ p[2] < LaneY(around[d])
      /\ (Knobs.clearance > 0 \/ \A k \in DOMAIN lanes : ~Widened(k)) =>
            \A u, v \in Uprights : u[1] # v[1] => u[2] # v[2]

(* A net with feedback is on one side once that was asked for, whatever is  *)
(* moved later; and the order of the nets beyond a side never has more arms *)
(* through trunks than the order it began with (the descent of              *)
(* crossing_aware_outer_lane_indices_with_rounds).                          *)
FeedbackStaysTogether ==
    /\ Drawn /\ "coherent" \in redrawn => SplitNets = {}
    /\ stage \in {"tracks", "drawn"} => \A side \in {"Top", "Bottom"} :
          LET nets == NetsOnSide(around, side)
              cost == CostsOnSide(around, side)
              index(n) == around[CHOOSE e \in OnSide(around, side) : Net(e) = n].index
          IN OrderCostOf(InOrder(nets, LAMBDA m, n : index(m) < index(n)), cost)
               <= OrderCostOf(InOrder(nets, <), cost)

(* "The shared endpoint tracks must describe the baseline repair family"    *)
(* (the assertion at routing.rs:4045): tracks built for compact spacing are *)
(* those of the spacing the routes are drawn in.                            *)
TracksDescribeSpacing ==
    Drawn /\ Outer # {} /\ "sides" \notin redrawn => tracks = BuiltTracks(lanes, around, spacing)

\* A net that goes around on one side is never split over both again.
SidesOf(net) == {around[e].side : e \in OuterLinks(net)}
SidesStayTogether ==
    stage \notin {"survey", "lanes"} =>
      \A n \in OuterNets : Cardinality(SidesOf(n)) = 1 => Cardinality(SidesOf(n)') = 1

(* Wires around the drawing have lanes of their own, and what is on one     *)
(* side of it, the feedback of a net that was asked to be in the first      *)
(* place, is not torn apart when nets are moved later                       *)
(* (outer_lane_assignments, repair_crossing_heavy_net).                     *)
OuterLanesAreOwn ==
    [](LanesKeepApart /\ FeedbackStaysTogether) /\ [][SidesStayTogether]_routeVars
=============================================================================
