--------------------------- MODULE GroupExpansion ---------------------------
(***************************************************************************)
(* A group of a drawing is opened in place (incremental.rs,                *)
(* expand_group_in_place): the compact node gives way to its members.      *)
(* A corridor is opened to its right, then one below it; member positions  *)
(* are tried around it as far as the work budget allows, first in the      *)
(* drawing with both corridors (the reflow), then in that with only the    *)
(* first.  Coordinates are integers; of a route only its two ends are      *)
(* kept.  Edges leave a node on its east side and enter on its west.       *)
(***************************************************************************)
EXTENDS GroupContract

CONSTANTS
  Calls,        \* what the caller may ask for, in families
  NodeGap,      \* options.node_gap, even
  Budget,       \* candidate_work_budget, by effort
  Radius        \* of the offsets tried, by effort

\* Of a node its rectangle is known, of the layout of the members its size; the
\* drawing has the nodes of the compact graph, and a candidate costs at least 1.
\* Nodes have a size and lie within the bounds (validate_and_index of the graph,
\* index_node_geometry and validate_layout_bounds of its drawing).
Box == [x : Int, y : Int, width : Int, height : Int]

IsPlaced(box, width) ==
  /\ box.x >= 0 /\ box.y >= 0 /\ box.width > 0 /\ box.height > 0
  /\ box.x + box.width <= width

IsCall(c) ==
  /\ IsGraph(c.compact) /\ IsGraph(c.expanded) /\ IsMapping(c.x) /\ AreGroups(c.groups)
  /\ c.layout.width \in Int /\ c.layout.height \in Int
  /\ c.layout.nodes \in [DOMAIN c.compact.nodes -> Box]
  /\ \A n \in DOMAIN c.compact.nodes : IsPlaced(c.layout.nodes[n], c.layout.width)
  /\ c.frame \in [width : Int, height : Int] /\ c.frame.width > 0 /\ c.frame.height > 0
  /\ c.effort \in DOMAIN Budget
  /\ c.work \in Nat \ {0} /\ c.reflowWork \in Nat \ {0}
  /\ c.preferred \in Seq(Int)
  /\ c.verdicts \subseteq [admitted : BOOLEAN, quality : Int, cost : Nat]

ASSUME SettingsAssumption ==
  /\ NodeGap \in Nat
  /\ \A effort \in DOMAIN Budget : Budget[effort] \in Nat /\ Radius[effort] \in Nat

SearchErrors ==
  {"InvalidEdgeGeometry", "InvalidCompactHardGeometry", "ExpansionWorkLimitExceeded",
   "NeedsFullRelayout"}

ASSUME SearchErrorsAssumption == None \notin SearchErrors

ASSUME CallsAssumption == \A calls \in Calls : \A c \in calls : IsCall(c)

SafetyCandidates == 2
LocalReflowCandidates == 2
Margin == NodeGap \div 2
PortOffset == 1

VARIABLES
  call,
  stage,
  widened,      \* the drawing after the horizontal corridor, or as it was
  reflow,       \* that with the vertical corridor too, or None
  work,         \* work_per_candidate
  positions,    \* still to be tried
  direct,       \* prefer_direct_boundary_routes
  attempts,     \* candidate_attempts_remaining
  used,         \* hard_budget.used
  best,         \* the score of the best candidate, or None
  error,
  tried         \* candidates evaluated, in order

vars == <<call, stage, widened, reflow, work, positions, direct, attempts, used, best, error, tried>>

-----------------------------------------------------------------------------
(* Rectangles.                                                             *)

FromNode(node) == [left |-> node.x, top |-> node.y,
                   right |-> node.x + node.width, bottom |-> node.y + node.height]

Expanded(rect, gap) == [left |-> rect.left - gap, top |-> rect.top - gap,
                        right |-> rect.right + gap, bottom |-> rect.bottom + gap]

Overlap(a, b) == /\ a.left < b.right /\ b.left < a.right
                 /\ a.top < b.bottom /\ b.top < a.bottom

Greater(a, b) == IF a > b THEN a ELSE b

\* Of equal elements the first is kept.
FirstPlaces(seq) == {i \in DOMAIN seq : \A j \in 1 .. i - 1 : seq[j] # seq[i]}

CountUpTo(places, i) == Cardinality(places \cap (1 .. i))

Distinct(seq) ==
  LET places == FirstPlaces(seq)
  IN  [k \in 1 .. Cardinality(places) |-> seq[CHOOSE i \in places : CountUpTo(places, i) = k]]

Truncate(seq, limit) == SubSeq(seq, 1, IF limit < Len(seq) THEN limit ELSE Len(seq))

-----------------------------------------------------------------------------
(* Drawings: the rectangle of every node, the ends of every route, the     *)
(* frames of the open groups, and the bounds.                              *)

Members(group) == ToSet(group.members)

Owner(c, node) == {g \in DOMAIN c.groups : node \in Members(c.groups[g])}

\* The open group an edge runs inside of.
Home(c, edge) == Owner(c, c.compact.edges[edge].source[1]) \cap Owner(c, c.compact.edges[edge].target[1])

Others(c) == DOMAIN c.compact.nodes \ {c.x.anchor}

ProtectedFrame(nodes, group) ==
  Expanded([left |-> Min({nodes[n].x : n \in Members(group)}),
            top |-> Min({nodes[n].y : n \in Members(group)}),
            right |-> Max({nodes[n].x + nodes[n].width : n \in Members(group)}),
            bottom |-> Max({nodes[n].y + nodes[n].height : n \in Members(group)})],
           group.padding)

Protected(c) == [g \in DOMAIN c.groups |-> ProtectedFrame(c.layout.nodes, c.groups[g])]

East(node) == <<node.x + node.width, node.y + PortOffset>>
West(node) == <<node.x, node.y + PortOffset>>

\* Every route ends at its ports (index_edge_geometry).
Attached(c, layout) ==
  \A e \in DOMAIN c.compact.edges :
    /\ layout.ends[e].source = East(layout.nodes[c.compact.edges[e].source[1]])
    /\ layout.ends[e].target = West(layout.nodes[c.compact.edges[e].target[1]])

-----------------------------------------------------------------------------
(* insert_horizontal_expansion_corridor                                    *)

Additional(c) == c.frame.width - c.layout.nodes[c.x.anchor].width

Cut(c) ==
  LET right == FromNode(c.layout.nodes[c.x.anchor]).right
      beyond == {c.layout.nodes[n].x : n \in Others(c)} \cap {x \in 0 .. c.layout.width : x >= right}
  IN  IF beyond = {} THEN right ELSE (right + Min(beyond)) \div 2

CanWiden(c) ==
  /\ Additional(c) > 0
  /\ \A n \in Others(c) :
       LET rect == FromNode(c.layout.nodes[n]) IN ~ (rect.left < Cut(c) /\ rect.right > Cut(c))
  /\ \A g \in DOMAIN c.groups :
       Protected(c)[g].right <= Cut(c) \/ Protected(c)[g].left >= Cut(c)

GroupShifts(c, g) == Protected(c)[g].right > Cut(c)

ShiftPoint(c, point) == IF point[1] >= Cut(c) THEN <<point[1] + Additional(c), point[2]>> ELSE point

NodeShifts(c, node) ==
  /\ node # c.x.anchor
  /\ IF Owner(c, node) = {} THEN c.layout.nodes[node].x >= Cut(c)
     ELSE \E g \in Owner(c, node) : GroupShifts(c, g)

Widen(c) ==
  LET by == Additional(c)
      route(e, point) ==
        IF Home(c, e) = {} THEN ShiftPoint(c, point)
        ELSE IF \E g \in Home(c, e) : GroupShifts(c, g) THEN <<point[1] + by, point[2]>>
        ELSE point
  IN  [nodes |-> [n \in DOMAIN c.layout.nodes |->
                    IF NodeShifts(c, n) THEN [c.layout.nodes[n] EXCEPT !.x = @ + by]
                    ELSE c.layout.nodes[n]],
       ends |-> [e \in DOMAIN c.layout.ends |->
                   [source |-> route(e, c.layout.ends[e].source),
                    target |-> route(e, c.layout.ends[e].target)]],
       frames |-> [g \in DOMAIN c.groups |->
                     IF GroupShifts(c, g)
                     THEN [Protected(c)[g] EXCEPT !.left = @ + by, !.right = @ + by]
                     ELSE Protected(c)[g]],
       width |-> c.layout.width + by,
       height |-> c.layout.height]

AsGiven(c) == [nodes |-> c.layout.nodes, ends |-> c.layout.ends, frames |-> Protected(c),
               width |-> c.layout.width, height |-> c.layout.height]

-----------------------------------------------------------------------------
(* insert_local_vertical_expansion_corridor                                *)

FrameAt(c, x, y) == [left |-> x, top |-> y, right |-> x + c.frame.width, bottom |-> y + c.frame.height]

AnchorFrame(c, layout) ==
  LET anchor == layout.nodes[c.x.anchor] IN FrameAt(c, anchor.x, anchor.y)

Floor(c, layout) == FromNode(layout.nodes[c.x.anchor]).bottom

Below(c, layout) == {n \in Others(c) : layout.nodes[n].y >= Floor(c, layout)}

Blockers(c, layout) ==
  {n \in Below(c, layout) :
     Overlap(FromNode(layout.nodes[n]), Expanded(AnchorFrame(c, layout), Margin))}

Delta(c, layout) ==
  AnchorFrame(c, layout).bottom + Margin - Min({layout.nodes[n].y : n \in Blockers(c, layout)})

Seed(c, layout) ==
  <<Greater(AnchorFrame(c, layout).left - Margin, 0), AnchorFrame(c, layout).right + Margin>>

LowFrames(c, layout) == {g \in DOMAIN c.groups : layout.frames[g].bottom >= Floor(c, layout)}

\* Plausible slip: the frames take no part in the slab.
FrameIntervalsForgotten(c, layout) == {}

FrameIntervals(c, layout) ==
  {<<Greater(layout.frames[g].left, 0), layout.frames[g].right>> : g \in LowFrames(c, layout)}

Intervals(c, layout) ==
  {<<Greater(layout.nodes[n].x - Margin, 0), layout.nodes[n].x + layout.nodes[n].width + Margin>> :
     n \in Below(c, layout)}
    \cup FrameIntervals(c, layout)
    \cup {Seed(c, layout)}

\* The merged interval that contains the seed: the smallest that takes in
\* every interval it touches.
Slab(c, layout) ==
  LET intervals == Intervals(c, layout)
      closed == {s \in {i[1] : i \in intervals} \X {i[2] : i \in intervals} :
                   /\ s[1] <= Seed(c, layout)[1] /\ Seed(c, layout)[2] <= s[2]
                   /\ \A i \in intervals : i[1] <= s[2] /\ s[1] <= i[2]
                                             => s[1] <= i[1] /\ i[2] <= s[2]}
  IN  CHOOSE s \in closed : \A t \in closed : s[2] - s[1] <= t[2] - t[1]

Spans(rect, slab) == rect.right > slab[1] /\ rect.left < slab[2]

GroupSinks(c, layout, g) ==
  Spans(layout.frames[g], Slab(c, layout)) /\ layout.frames[g].bottom >= Floor(c, layout)

NodeSinks(c, layout, n) ==
  IF Owner(c, n) # {} THEN \E g \in Owner(c, n) : GroupSinks(c, layout, g)
  ELSE LET rect == FromNode(layout.nodes[n])
       IN  n \in Below(c, layout) /\ rect.left >= Slab(c, layout)[1] /\ rect.right <= Slab(c, layout)[2]

CanDeepen(c, layout) ==
  /\ c.frame.height > layout.nodes[c.x.anchor].height
  /\ Blockers(c, layout) # {}
  /\ Delta(c, layout) > 0
  /\ \A n \in Others(c) :
       LET rect == FromNode(layout.nodes[n])
           floor == Floor(c, layout)
       IN  Spans(rect, Slab(c, layout)) /\ rect.top < floor /\ rect.bottom > floor
             => \E g \in Owner(c, n) : GroupSinks(c, layout, g)
  /\ \E n \in DOMAIN layout.nodes : NodeSinks(c, layout, n)

WarpPoint(c, layout, point) ==
  IF /\ point[1] > Slab(c, layout)[1] /\ point[1] < Slab(c, layout)[2]
     /\ point[2] >= Floor(c, layout)
  THEN <<point[1], point[2] + Delta(c, layout)>>
  ELSE point

Deepen(c, layout) ==
  LET by == Delta(c, layout)
      sinking == {n \in DOMAIN layout.nodes : NodeSinks(c, layout, n)}
      route(e, point) ==
        IF Home(c, e) = {} THEN WarpPoint(c, layout, point)
        ELSE IF \E g \in Home(c, e) : GroupSinks(c, layout, g) THEN <<point[1], point[2] + by>>
        ELSE point
      nodes == [n \in DOMAIN layout.nodes |->
                  IF n \in sinking THEN [layout.nodes[n] EXCEPT !.y = @ + by] ELSE layout.nodes[n]]
      lowest == Max({FromNode(nodes[n]).bottom : n \in DOMAIN nodes})
  IN  [nodes |-> nodes,
       ends |-> [e \in DOMAIN layout.ends |-> [source |-> route(e, layout.ends[e].source),
                                               target |-> route(e, layout.ends[e].target)]],
       frames |-> [g \in DOMAIN c.groups |->
                     IF GroupSinks(c, layout, g)
                     THEN [layout.frames[g] EXCEPT !.top = @ + by, !.bottom = @ + by]
                     ELSE layout.frames[g]],
       width |-> layout.width,
       height |-> Greater(layout.height, lowest)]

-----------------------------------------------------------------------------
(* candidate_positions and prioritize_constraint_positions                 *)

Affordable(c, cost, reserved) == cost * (reserved + SafetyCandidates + 1) <= Budget[c.effort]

CandidateLimit(c, cost, reserved) == Budget[c.effort] \div cost - (reserved + SafetyCandidates)

Abs(n) == IF n < 0 THEN -n ELSE n

Away(offset) == Abs(offset[1]) + Abs(offset[2])

OffsetBefore(a, b) ==
  \/ Away(a) < Away(b)
  \/ Away(a) = Away(b) /\ a[1] < b[1]
  \/ Away(a) = Away(b) /\ a[1] = b[1] /\ a[2] < b[2]

Offsets(radius) ==
  LET all == (-radius .. radius) \X (-radius .. radius)
  IN  [i \in 1 .. Cardinality(all) |->
         CHOOSE o \in all : Cardinality({p \in all : OffsetBefore(p, o)}) = i - 1]

CandidatePositions(c, layout, cost, reserved) ==
  LET anchor == layout.nodes[c.x.anchor]
      centered == <<anchor.x + (anchor.width - c.frame.width) \div 2,
                    anchor.y + (anchor.height - c.frame.height) \div 2>>
      inside(v) == Greater(v, Margin)
      at(offset) == <<inside(centered[1] + offset[1] * (c.frame.width + NodeGap * 2)),
                      inside(centered[2] + offset[2] * (c.frame.height + NodeGap * 2))>>
      offsets == Truncate(Offsets(Radius[c.effort]), CandidateLimit(c, cost, reserved))
      around == Distinct(<<<<anchor.x, anchor.y>>>> \o [i \in DOMAIN offsets |-> at(offsets[i])])
      safety == <<<<layout.width + NodeGap, inside(centered[2])>>,
                  <<inside(centered[1]), layout.height + NodeGap>>>>
  IN  Distinct(Truncate(around, Len(offsets)) \o safety)

\* c.preferred: where a constrained member would be in the column of a node
\* under the same constraint.
Prioritized(c, seq) ==
  IF c.preferred = <<>> \/ Len(seq) < SafetyCandidates THEN seq
  ELSE LET count == Len(seq) - SafetyCandidates
           heights == Distinct([i \in DOMAIN seq |-> seq[i][2]])
           columns == [k \in 1 .. Len(c.preferred) * Len(heights) |->
                         <<c.preferred[((k - 1) \div Len(heights)) + 1],
                           heights[((k - 1) % Len(heights)) + 1]>>]
           first == Truncate(Distinct(columns \o SubSeq(seq, 1, count)), count)
       IN  Distinct(first \o SubSeq(seq, count + 1, Len(seq)))

Vacant(c, layout, frame) ==
  /\ \A n \in Others(c) : ~ Overlap(frame, FromNode(layout.nodes[n]))
  /\ \A g \in DOMAIN c.groups : ~ Overlap(frame, layout.frames[g])

-----------------------------------------------------------------------------
(* Candidates.                                                             *)

Square(n) == n * n

Score(c, layout, at, quality) ==
  LET anchor == layout.nodes[c.x.anchor]
      frame == FrameAt(c, at[1], at[2])
  IN  <<quality,
        Square(at[1] - anchor.x) + Square(at[2] - anchor.y),
        Greater(layout.width, frame.right + Margin) * Greater(layout.height, frame.bottom + Margin),
        at[1], at[2]>>

\* CandidateScore::cmp
Less(a, b) ==
  \E i \in DOMAIN a : a[i] < b[i] /\ \A j \in 1 .. i - 1 : a[j] = b[j]

\* Plausible slip: a later candidate wins a tie.
BeatsOrTies(a, b) == ~ Less(b, a)

Beats(a, b) == Less(a, b)

-----------------------------------------------------------------------------
Init ==
  /\ \E calls \in Calls : call \in calls
  /\ stage = "check"
  /\ widened = None /\ reflow = None
  /\ work = 0 /\ positions = <<>> /\ direct = TRUE /\ attempts = 0 /\ used = 0
  /\ best = 0 /\ error = None /\ tried = <<>>

Fail(e) ==
  /\ stage' = "done" /\ error' = e
  /\ UNCHANGED <<call, widened, reflow, work, positions, direct, attempts, used, best, tried>>

Fault(c) ==
  FirstError(<<ContractError(c.compact, c.expanded, c.x),
               If(~ Attached(c, c.layout), "InvalidEdgeGeometry"),
               ProtectedError(c.compact, c.expanded, c.x, c.groups)>>)

\* Up to the layout of the members, whose size is c.frame.
Check ==
  /\ stage = "check"
  /\ IF Fault(call) # None THEN Fail(Fault(call))
     ELSE /\ stage' = "widen"
          /\ UNCHANGED <<call, widened, reflow, work, positions, direct, attempts, used, best, error, tried>>

\* The routes of groups that moved whole may touch others; then the call ends.
OpenHorizontal ==
  /\ stage = "widen"
  /\ LET opens == CanWiden(call)
         layout == IF opens THEN Widen(call) ELSE AsGiven(call)
     IN  \/ ~ Attached(call, layout) /\ Fail("InvalidEdgeGeometry")
         \/ /\ Attached(call, layout) /\ opens /\ call.groups # <<>>
            /\ Fail("InvalidCompactHardGeometry")
         \/ /\ Attached(call, layout)
            /\ widened' = layout
            /\ stage' = "deepen"
            /\ UNCHANGED <<call, reflow, work, positions, direct, attempts, used, best, error, tried>>

\* Routes, bundles and the number of segments, which are not kept, may rule
\* the reflow out.
OpenVertical ==
  /\ stage = "deepen"
  /\ stage' = "plan"
  /\ \/ reflow' = None
     \/ /\ CanDeepen(call, widened)
        /\ Attached(call, Deepen(call, widened))
        /\ reflow' = Deepen(call, widened)
  /\ UNCHANGED <<call, widened, work, positions, direct, attempts, used, best, error, tried>>

Plan(cost, reserved, layout) ==
  LET seq == Prioritized(call, CandidatePositions(call, widened, cost, reserved))
  IN  /\ positions' = seq
      /\ attempts' = Len(seq) + reserved
      /\ work' = cost
      /\ reflow' = layout
      /\ stage' = IF layout # None /\ Vacant(call, layout, AnchorFrame(call, layout))
                  THEN "reflow" ELSE "place"
      /\ UNCHANGED <<call, widened, direct, used, best, error, tried>>

ReflowAffordable == reflow # None /\ Affordable(call, call.reflowWork, LocalReflowCandidates)

PlanWithReflow ==
  /\ stage = "plan" /\ ReflowAffordable
  /\ Plan(call.reflowWork, LocalReflowCandidates, reflow)

\* Without a reflow, or once more without the one that is too much.
PlanWithout ==
  /\ stage = "plan" /\ ~ ReflowAffordable
  /\ Affordable(call, call.work, 0)
  /\ Plan(call.work, 0, None)

PlanFails ==
  /\ stage = "plan" /\ ~ ReflowAffordable
  /\ ~ Affordable(call, call.work, 0)
  /\ Fail("ExpansionWorkLimitExceeded")

\* A candidate was evaluated: what the router and the checks make of it is
\* one of call.verdicts, and its work is charged to the one budget.
Evaluated(layout, at, verdict) ==
  LET score == IF verdict.admitted THEN Score(call, layout, at, verdict.quality) ELSE None
  IN  /\ used + verdict.cost <= Budget[call.effort]
      /\ used' = used + verdict.cost
      /\ attempts' = attempts - 1
      /\ tried' = Append(tried, [at |-> at, reflow |-> stage = "reflow", direct |-> direct,
                                 score |-> score])
      /\ best' = IF score # None /\ (best = 0 \/ Beats(score, tried[best].score))
                 THEN Len(tried) + 1 ELSE best

OutOfWork(verdict) ==
  /\ used + verdict.cost > Budget[call.effort]
  /\ Fail("ExpansionWorkLimitExceeded")

AnchorOrigin(layout) == <<layout.nodes[call.x.anchor].x, layout.nodes[call.x.anchor].y>>

TryReflow ==
  /\ stage = "reflow"
  /\ \E verdict \in call.verdicts :
       \/ OutOfWork(verdict)
       \/ /\ Evaluated(reflow, AnchorOrigin(reflow), verdict)
          /\ direct' = (verdict.admitted \/ ~ direct)
          /\ stage' = IF verdict.admitted \/ ~ direct THEN "place" ELSE "reflow"
          /\ UNCHANGED <<call, widened, reflow, work, positions, error>>

Result(index) == IF index = 0 THEN "NeedsFullRelayout" ELSE None

PlaceHere ==
  /\ stage = "place" /\ positions # <<>>
  /\ LET at == Head(positions)
     IN  /\ Vacant(call, widened, FrameAt(call, at[1], at[2]))
         /\ \E verdict \in call.verdicts :
              \/ OutOfWork(verdict)
              \/ /\ Evaluated(widened, at, verdict)
                 /\ LET next == verdict.admitted \/ ~ direct
                    IN  /\ direct' = next
                        /\ positions' = IF next THEN Tail(positions) ELSE positions
                 /\ stage' = IF attempts' = 0 THEN "done" ELSE stage
                 /\ error' = IF attempts' = 0 THEN Result(best') ELSE error
                 /\ UNCHANGED <<call, widened, reflow, work>>

PassOver ==
  /\ stage = "place" /\ positions # <<>>
  /\ ~ Vacant(call, widened, FrameAt(call, Head(positions)[1], Head(positions)[2]))
  /\ positions' = Tail(positions)
  /\ UNCHANGED <<call, stage, widened, reflow, work, direct, attempts, used, best, error, tried>>

Exhausted ==
  /\ stage = "place" /\ positions = <<>>
  /\ stage' = "done" /\ error' = Result(best)
  /\ UNCHANGED <<call, widened, reflow, work, positions, direct, attempts, used, best, tried>>

Next == \/ Check \/ OpenHorizontal \/ OpenVertical
        \/ PlanWithReflow \/ PlanWithout \/ PlanFails
        \/ TryReflow \/ PlaceHere \/ PassOver \/ Exhausted

Spec == Init /\ [][Next]_vars

-----------------------------------------------------------------------------
(* Properties.                                                             *)

\* What validate_graph_contract and validate_protected_groups let through,
\* check by check, is exactly a quotient of the expanded graph and open groups
\* of other nodes.
AcceptsQuotients ==
  /\ ContractError(call.compact, call.expanded, call.x) = None
       <=> IsQuotient(call.compact, call.expanded, call.x) /\ Len(call.x.members) <= MaxMembers
  /\ IsQuotient(call.compact, call.expanded, call.x)
       => (ProtectedError(call.compact, call.expanded, call.x, call.groups) = None
             <=> /\ ArePeers(call.compact, call.expanded, call.x, call.groups)
                 /\ Len(call.groups) <= MaxGroups
                 /\ ~ (SumLengths(call.groups) > MaxGroupMembers))

\* Nodes are apart and only members are in the frame of a group.
Tidy(c, nodes, frames) ==
  /\ \A m, n \in DOMAIN nodes : m # n => ~ Overlap(FromNode(nodes[m]), FromNode(nodes[n]))
  /\ \A g \in DOMAIN frames : \A n \in DOMAIN nodes \ Members(c.groups[g]) :
       ~ Overlap(frames[g], FromNode(nodes[n]))
  /\ \A g, h \in DOMAIN frames : g # h => ~ Overlap(frames[g], frames[h])

\* A corridor moves an open group whole, with its frame, and brings no node
\* upon another or into a group, although groups reach across the cut.
CorridorsKeepGroups ==
  \A layout \in {widened, reflow} \ {None} :
    /\ \A g \in DOMAIN call.groups :
         /\ layout.frames[g] = ProtectedFrame(layout.nodes, call.groups[g])
         /\ \A m, n \in Members(call.groups[g]) :
              /\ layout.nodes[m].x - call.layout.nodes[m].x = layout.nodes[n].x - call.layout.nodes[n].x
              /\ layout.nodes[m].y - call.layout.nodes[m].y = layout.nodes[n].y - call.layout.nodes[n].y
    /\ Tidy(call, call.layout.nodes, Protected(call)) => Tidy(call, layout.nodes, layout.frames)

\* Where both corridors were opened the members fit at the place of the anchor,
\* unless the frame of an open group reaches over other nodes: such a group
\* sinks whole, with members that lay above the anchor.
RoomIsMade ==
    /\ reflow # None /\ (CanWiden(call) \/ Additional(call) <= 0)
    /\ Tidy(call, call.layout.nodes, Protected(call))
  => \A n \in Others(call) : ~ Overlap(AnchorFrame(call, reflow), FromNode(reflow.nodes[n]))

\* Candidates the search may still try, with those it tried, cost no more
\* than the budget by the estimate the positions were planned with, and none
\* is counted that is not left.
AttemptsAffordable ==
  attempts >= 0 /\ (Len(tried) + attempts) * work <= Budget[call.effort]

\* The drawing returned is the best of those admitted, the earliest of equals;
\* a full relayout is asked for only when none was.
BestIsReturned ==
  LET admitted == {i \in DOMAIN tried : tried[i].score # None}
  IN  stage = "done" =>
        /\ error = "NeedsFullRelayout" => admitted = {}
        /\ error = None =>
             /\ best \in admitted
             /\ \A i \in admitted : ~ Less(tried[i].score, tried[best].score)
             /\ \A i \in admitted : i < best => Less(tried[best].score, tried[i].score)


\* The two corridors make room for the members and disturb nothing else
\* (insert_horizontal_expansion_corridor, insert_local_vertical_expansion_corridor).
CorridorsMakeRoom == CorridorsKeepGroups /\ RoomIsMade

\* The search returns the best it admitted, within the work it planned
\* (candidate_positions, expand_group_in_place_with_reference_height).
SearchIsBestAffordable == AttemptsAffordable /\ BestIsReturned

\* "compact layout has invalid edge geometry" (incremental.rs:155) is said of
\* the layout the caller gave.
BlamesTheCaller ==
  error = "InvalidEdgeGeometry" => ~ Attached(call, call.layout)

=============================================================================
