------------------------------ MODULE GapLanes ------------------------------
(* The order of the vertical lanes between two layers (routing.rs,          *)
(* crossing_aware_gap_lanes and what it calls). In a gap every net that     *)
(* passes has one lane. Which net stands left of which decides how often    *)
(* the vertical part of one crosses the horizontal parts of the other: the  *)
(* orders tried are judged by that alone, and the drawings made from them   *)
(* by their real crossings later (RouteFamilies).                           *)
(*                                                                          *)
(* A behaviour is one call: of the ordering of all gaps, of the assignment  *)
(* of physical tracks for a wanted pitch, or of the choice and move of nets *)
(* to the outer edge of their gaps for a repair.                            *)
EXTENDS RouteSegments

CONSTANTS MaxGlobalGapLanes, MaxLargeGlobalGapLanes,
          LargeHotNets, PreservedHotNets, RefinedHotNets,   \* nets inserted anew
          PreservedRounds, RefinedRounds, MinGlobalGapOrderGain,
          MaxPairs, MaxLargePairs, MaxAccessWork, MaxLargeAccessWork, MaxRefinedLaneWork,
          MaxPitchedNets, MaxPitchedPairs, MaxPitchedVisits, MaxPitchedRefinements,
          MinRepairTotal, MinRepairNet,
          Problems

ASSUME LaneLimits ==
    /\ {MaxGlobalGapLanes, MaxLargeGlobalGapLanes, LargeHotNets, PreservedHotNets,
         RefinedHotNets, MinGlobalGapOrderGain} \subseteq Nat
    /\ MaxGlobalGapLanes < MaxLargeGlobalGapLanes
    /\ LargeHotNets <= PreservedHotNets /\ PreservedHotNets <= RefinedHotNets
    /\ PreservedRounds > 1 /\ RefinedRounds > 1

(* Nets are numbers and have one lane in each gap they pass; their wires    *)
(* enter and leave it at levels. A track is one net's part of the lane.     *)
IsGap(keys, g) ==
    DOMAIN g.lanes \subseteq keys /\ IsFiniteSet(DOMAIN g.lanes) /\ g.lanes \in [DOMAIN g.lanes -> Nat]
IsMeasured(access) ==
    access.vertical \in Seq(Int \X Int) /\ access.leftY \in Seq(Int) /\ access.rightY \in Seq(Int)
LanesOf(p) == [DOMAIN p.gaps -> UNION {[DOMAIN p.gaps[k].lanes -> Int] : k \in DOMAIN p.gaps}]
IsProblem(p) ==
    /\ DOMAIN p.gaps = 1..Len(p.gaps) /\ Len(p.gaps) \in Nat
    /\ p.job = "lanes" =>
          /\ p.rounds \in Nat
          /\ \A k \in DOMAIN p.gaps :
                IsGap(Nat, p.gaps[k]) /\ \A n \in DOMAIN p.gaps[k].lanes : IsMeasured(p.gaps[k].access[n])
    /\ p.job = "pitch" => \A k \in DOMAIN p.gaps : IsGap(Nat \X Int, p.gaps[k])
    /\ p.job = "repair" =>
          /\ IsFiniteSet(DOMAIN p.crossings) /\ DOMAIN p.crossings \subseteq Nat
          /\ p.crossings \in [DOMAIN p.crossings -> Nat] /\ p.limit \in Nat
          /\ \A k \in DOMAIN p.gaps :
                /\ IsGap(Nat, p.gaps[k]) /\ IsInjective(p.gaps[k].lanes)
                /\ Range(p.gaps[k].lanes) = 0..(Cardinality(DOMAIN p.gaps[k].lanes) - 1)
          /\ None \notin LanesOf(p)

ASSUME ProblemsAssumption == \A p \in Problems : IsProblem(p)

VARIABLES problem,
          admitted,  \* which candidates the work limits allow, None before that is known
          gap,       \* the gap in work, one more than the gaps when all are done
          work,      \* what is known of the gap in work, None between two gaps
          ordered,   \* the orders found for the gaps before it
          visits,    \* work counted against the limits of the pitch
          outcome

laneVars == <<problem, admitted, gap, work, ordered, visits, outcome>>

Gap == problem.gaps[gap]
Working(job) == problem.job = job /\ outcome = None /\ gap <= Len(problem.gaps)

---------------------------------------------------------------------------
(* Crossings of two lanes                                                   *)

\* What has a key, in the order of the keys.
ByKey(key) == InOrder(DOMAIN key, LAMBDA a, b : LexLess(key[a], key[b]))

\* The sum of a function over part of its domain.
SumOver(f, set) ==
    LET order == ByKey([n \in set |-> <<n>>]) IN Total([i \in DOMAIN order |-> f[order[i]]])

(* gap_net_accesses: a wire comes into a gap at one level and leaves it at  *)
(* another; levels[i] is where it leaves the gap before from + i - 1.       *)
Passing(edges, k) ==
    SelectSeq(edges, LAMBDA e : e.from <= k /\ k < e.from + Len(e.levels) - 1)
Access(edges, k) ==
    LET here == Passing(edges, k)
        level(e, at) == e.levels[at - e.from + 1]
        of(net) == SelectSeq(here, LAMBDA e : e.net = net)
    IN [net \in {here[i].net : i \in DOMAIN here} |->
          [vertical |-> [i \in DOMAIN of(net) |->
                            <<Least(level(of(net)[i], k), level(of(net)[i], k + 1)),
                              Most(level(of(net)[i], k), level(of(net)[i], k + 1))>>],
           leftY  |-> [i \in DOMAIN of(net) |-> level(of(net)[i], k)],
           rightY |-> [i \in DOMAIN of(net) |-> level(of(net)[i], k + 1)],
           edges  |-> {of(net)[i].id : i \in DOMAIN of(net)}]]

\* vertical_horizontal_crossings: levels strictly inside the vertical parts.
VerticalHorizontal(vertical, levels) ==
    Cardinality({ik \in (DOMAIN vertical) \X (DOMAIN levels) :
                    /\ vertical[ik[1]][1] < levels[ik[2]]
                    /\ levels[ik[2]] < vertical[ik[1]][2]})

(* gap_pair_crossings: the left one's verticals meet what the right one     *)
(* brings from the left, and the right one's what the left one takes on.    *)
PairCrossings(left, right) ==
    VerticalHorizontal(left.vertical, right.leftY)
      + VerticalHorizontal(right.vertical, left.rightY)

\* The lanes of a gap are 0, 1, ...; an order lists the nets by their lanes.
OrderOf(lanes) == ByKey([n \in DOMAIN lanes |-> <<lanes[n], n>>])

\* gap_lane_order_cost.
OrderCost(cost, order) ==
    Total([i \in DOMAIN order |->
             Total([j \in 1..(Len(order) - i) |-> cost[<<order[i], order[i + j]>>]])])

---------------------------------------------------------------------------
(* Beginning a gap                                                          *)

\* DenseGapPairCosts: what it costs to have one net left of another.
PairCosts(g) ==
    [p \in (DOMAIN g.lanes) \X (DOMAIN g.lanes) |-> PairCrossings(g.access[p[1]], g.access[p[2]])]

Found(order, gain) == [order |-> order, gain |-> gain]

EnterGap ==
    /\ Working("lanes") /\ admitted # None /\ work = None
    /\ \E cost \in {PairCosts(Gap)} :
         work' = [phase |-> "local", cost |-> cost, order |-> OrderOf(Gap.lanes), gain |-> 0,
                  rounds |-> problem.rounds, changed |-> TRUE, hot |-> <<>>, at |-> 0, to |-> 0,
                  local |-> None, global |-> None, half |-> None, preserved |-> None]
    /\ UNCHANGED <<problem, admitted, gap, ordered, visits, outcome>>

In(phase) == Working("lanes") /\ work # None /\ work.phase = phase
Step(next) == work' = next /\ UNCHANGED <<problem, admitted, gap, ordered, visits, outcome>>

---------------------------------------------------------------------------
(* Descent by neighbours                                                    *)

Swapped(order, i) == [order EXCEPT ![i] = order[i + 1], ![i + 1] = order[i]]

\* One pass of refine_gap_lane_order: neighbours change places where that is better.
DescentPass(cost, order) ==
    LET after[i \in 1..Most(1, Len(order))] ==
            IF i = 1 THEN order
            ELSE LET o == after[i - 1]
                 IN IF cost[<<o[i], o[i - 1]>>] < cost[<<o[i - 1], o[i]>>] THEN Swapped(o, i - 1) ELSE o
    IN after[Most(1, Len(order))]

\* The passes end with their number or with one that changes nothing.
Descend ==
    /\ In("local") \/ In("seed")
    /\ work.rounds > 0 /\ work.changed
    /\ \E order \in {DescentPass(work.cost, work.order)} :
         Step([work EXCEPT !.order = order, !.rounds = @ - 1, !.changed = order # work.order])
Descended(phase) == In(phase) /\ ~(work.rounds > 0 /\ work.changed)

---------------------------------------------------------------------------
(* A seed from all pairs, in small gaps                                     *)

\* global_gap_order_seed: by how much a net would rather stand right than left.
Balance(cost, net, nets) ==
    SumOver([other \in nets |-> cost[<<net, other>>] - cost[<<other, net>>]], nets \ {net})
GlobalSeed(cost, lanes) ==
    ByKey([net \in DOMAIN lanes |-> <<Balance(cost, net, DOMAIN lanes), lanes[net], net>>])

---------------------------------------------------------------------------
(* Insertion of the hottest nets, in large gaps                             *)

\* large_gap_hot_nets_with_limit: most wires first, then longest, then id.
Hottest(g, limit) ==
    LET length(v) == Total([i \in DOMAIN v |-> v[i][2] - v[i][1]])
        key == [n \in DOMAIN g.lanes |-> <<0 - Len(g.access[n].vertical),
                                          0 - length(g.access[n].vertical), n>>]
    IN SubSeq(ByKey(key), 1, Least(limit, Len(ByKey(key))))

\* (mutant) the cost of the place it passes is forgotten.
StaleInsertionCost(cost, net, others) ==
    LET at[i \in 0..Len(others)] ==
            IF i = 0 THEN Total([k \in DOMAIN others |-> cost[<<net, others[k]>>]])
            ELSE at[i - 1] - cost[<<net, others[i]>>]
    IN at

(* One net is taken out and put where it costs least, the leftmost such     *)
(* place; walking to the right, the nets passed come to stand before it.    *)
InsertionCost(cost, net, others) ==
    LET at[i \in 0..Len(others)] ==
            IF i = 0 THEN Total([k \in DOMAIN others |-> cost[<<net, others[k]>>]])
            ELSE at[i - 1] - cost[<<net, others[i]>>] + cost[<<others[i], net>>]
    IN at

PlaceOf(order, net) == CHOOSE i \in DOMAIN order : order[i] = net
PutAt(others, net, i) == SubSeq(others, 1, i) \o <<net>> \o SubSeq(others, i + 1, Len(others))

\* run_large_gap_hot_insertion_range, one net of it.
InsertNet ==
    /\ \E phase \in {"global", "half", "preserved", "rest", "refined"} : In(phase)
    /\ work.at < work.to
    /\ LET net == work.hot[work.at + 1]
           now == PlaceOf(work.order, net)
           others == RemoveAt(work.order, now)
       IN \E at \in {InsertionCost(work.cost, net, others)} :
            \E best \in DOMAIN at :
              /\ \A j \in DOMAIN at : at[best] <= at[j] /\ (at[j] = at[best] => best <= j)
              /\ Step(IF at[best] < at[now - 1]
                      THEN [work EXCEPT !.order = PutAt(others, net, best),
                                        !.gain = @ + at[now - 1] - at[best],
                                        !.changed = TRUE, !.at = @ + 1]
                      ELSE [work EXCEPT !.at = @ + 1])

Insert(phase, from, to, found) ==
    [work EXCEPT !.phase = phase, !.at = from, !.to = to, !.order = found.order,
                 !.gain = found.gain, !.changed = FALSE]
AllIn(phase) == In(phase) /\ work.at = work.to
FoundNow == Found(work.order, work.gain)
More == Least(PreservedHotNets, Len(work.hot))

---------------------------------------------------------------------------
(* Work limits                                                              *)

Size(g) == Cardinality(DOMAIN g.lanes)
Wires(g, nets) == SumOver([n \in DOMAIN g.access |-> Len(g.access[n].vertical)], nets)

\* large_gap_hot_access_work_from_counts.
HotAccessWork(g, limit) ==
    LET hot == Range(Hottest(g, limit))
        hotWires == Wires(g, hot)
    IN 2 * ((Size(g) - 1) * hotWires
              + Cardinality(hot) * (Wires(g, DOMAIN g.lanes) - hotWires)
              + (Cardinality(hot) - 1) * hotWires)

Large(g) == Size(g) > MaxGlobalGapLanes /\ Size(g) <= MaxLargeGlobalGapLanes
Eligible(g) == Size(g) >= 2 /\ (Size(g) <= MaxGlobalGapLanes \/ (problem.large /\ Large(g)))
SumOfGaps(f(_), p(_)) ==
    Total([k \in DOMAIN problem.gaps |-> IF p(problem.gaps[k]) THEN f(problem.gaps[k]) ELSE 0])

\* global_gap_candidate_work_within_budget.
GlobalWithinBudget ==
    /\ SumOfGaps(LAMBDA g : IF Large(g) THEN 2 * Size(g) * Least(LargeHotNets, Size(g))
                            ELSE (Size(g) * (Size(g) - 1)) \div 2, Eligible)
         <= (IF problem.large THEN MaxLargePairs ELSE MaxPairs)
    /\ SumOfGaps(LAMBDA g : IF Large(g) THEN HotAccessWork(g, LargeHotNets)
                            ELSE 2 * (Size(g) - 1) * Wires(g, DOMAIN g.lanes), Eligible)
         <= (IF problem.large THEN MaxLargeAccessWork ELSE MaxAccessWork)

\* refined_large_gap_candidate_work_within_budget.
RefinedWithinBudget ==
    /\ SumOfGaps(LAMBDA g : Size(g) * Least(RefinedHotNets, Size(g)) * (2 + 6 * RefinedRounds), Large)
         <= MaxRefinedLaneWork
    /\ SumOfGaps(LAMBDA g : HotAccessWork(g, RefinedHotNets), Large) <= MaxLargeAccessWork

\* Of what is asked for, what can be paid for; decided before the first gap.
Admit ==
    /\ Working("lanes") /\ admitted = None
    /\ \E global \in {problem.global /\ GlobalWithinBudget} :
         admitted' = [global |-> global,
                      refined |-> /\ global /\ problem.large /\ problem.refined
                                  /\ RefinedWithinBudget]
    /\ UNCHANGED <<problem, gap, work, ordered, visits, outcome>>

---------------------------------------------------------------------------
(* Ordering the gaps                                                        *)

LaneInit ==
    /\ problem \in Problems
    /\ admitted = None /\ gap = 1 /\ work = None /\ ordered = <<>> /\ outcome = None
    /\ visits = [pairs |-> 0, intervals |-> 0, refinements |-> 0]

Ordered(local, global, preserved, refined) ==
    /\ ordered' = Append(ordered, [local |-> Found(local, 0), global |-> global,
                                   preserved |-> preserved, refined |-> refined])
    /\ gap' = gap + 1 /\ work' = None /\ UNCHANGED <<problem, admitted, visits, outcome>>

\* An order is offered with what it saves over the local one, when it saves anything.
OrLocal(found) == IF found.gain > 0 THEN found ELSE Found(work.local, 0)

\* Without further candidates, and in gaps too large for them, the local order stays.
KeepLocal ==
    /\ Descended("local")
    /\ \/ ~admitted.global
       \/ Size(Gap) < 2
       \/ Size(Gap) > MaxLargeGlobalGapLanes
       \/ Size(Gap) > MaxGlobalGapLanes /\ ~problem.large
    /\ \E local \in {Found(work.order, 0)} : Ordered(work.order, local, local, local)

SeedSmallGap ==
    /\ Descended("local") /\ admitted.global
    /\ Size(Gap) >= 2 /\ Size(Gap) <= MaxGlobalGapLanes
    /\ Step([work EXCEPT !.phase = "seed", !.local = work.order,
                         !.order = GlobalSeed(work.cost, Gap.lanes),
                         !.rounds = problem.rounds, !.changed = TRUE])

\* A small gap; the refined orders, if any, take the global one over at no gain.
OrderSmallGap ==
    /\ Descended("seed")
    /\ \E saved \in {OrderCost(work.cost, work.local) - OrderCost(work.cost, work.order)} :
       \E global \in {OrLocal(Found(work.order, saved))} :
          Ordered(work.local, global, Found(global.order, 0), Found(global.order, 0))

(* The first round of a long refinement passes the one-round order and the  *)
(* preserved one on its way, and each of the three goes on from there by    *)
(* itself (refined_large_gap_hot_insertion_orders).                         *)
StartInsertion ==
    /\ Descended("local") /\ admitted.global /\ problem.large /\ Large(Gap)
    /\ \E hot \in {Hottest(Gap, IF admitted.refined THEN RefinedHotNets ELSE LargeHotNets)} :
         Step([Insert("global", 0, Least(LargeHotNets, Len(hot)), Found(work.order, 0))
                  EXCEPT !.hot = hot, !.local = work.order])

OrderLargeGap ==
    /\ AllIn("global") /\ ~admitted.refined
    /\ \E global \in {OrLocal(FoundNow)} :
         Ordered(work.local, global, Found(work.local, 0), Found(work.local, 0))

PassGlobal ==
    /\ AllIn("global") /\ admitted.refined
    /\ Step([Insert("half", work.at, More, FoundNow) EXCEPT !.global = FoundNow])

PassHalf ==
    /\ AllIn("half")
    /\ Step([Insert("preserved", 0, More, FoundNow)
               EXCEPT !.half = FoundNow, !.rounds = PreservedRounds - 1])

\* Another round, while there are rounds left and the last one changed something.
RepeatRound ==
    /\ AllIn("preserved") \/ AllIn("refined")
    /\ work.rounds > 1 /\ work.changed
    /\ Step([Insert(work.phase, 0, work.to, FoundNow) EXCEPT !.rounds = @ - 1])

PassPreserved ==
    /\ AllIn("preserved") /\ ~(work.rounds > 1 /\ work.changed)
    /\ Step([Insert("rest", More, Len(work.hot), work.half) EXCEPT !.preserved = FoundNow])

RefineFurther ==
    /\ AllIn("rest") /\ work.gain > 0
    /\ Step([Insert("refined", 0, Len(work.hot), FoundNow) EXCEPT !.rounds = RefinedRounds - 1])

RefineLargeGap ==
    /\ \/ AllIn("rest") /\ work.gain = 0
       \/ AllIn("refined") /\ ~(work.rounds > 1 /\ work.changed)
    /\ Ordered(work.local, OrLocal(work.global), OrLocal(work.preserved), OrLocal(FoundNow))

Orders(kind) == [k \in DOMAIN ordered |-> ordered[k][kind].order]
Gain(kind) == Total([k \in DOMAIN ordered |-> ordered[k][kind].gain])

(* The candidates are offered that differ, save enough over all gaps, and   *)
(* are not yet among the offered.                                           *)
OfferOrders ==
    /\ problem.job = "lanes" /\ outcome = None /\ gap > Len(problem.gaps)
    /\ \E global \in {IF /\ admitted.global /\ \E k \in DOMAIN ordered : ordered[k].global.gain > 0
                         /\ Gain("global") >= MinGlobalGapOrderGain
                      THEN Orders("global") ELSE None} :
       \E preserved \in {IF /\ admitted.refined /\ Orders("preserved") # Orders("global")
                            /\ Gain("preserved") >= MinGlobalGapOrderGain
                            /\ Orders("preserved") # global
                         THEN Orders("preserved") ELSE None} :
          outcome' = [local |-> Orders("local"), global |-> global, preserved |-> preserved,
                     refined |-> IF /\ admitted.refined /\ Orders("refined") # Orders("preserved")
                                    /\ Gain("refined") >= MinGlobalGapOrderGain
                                    /\ Orders("refined") \notin {global, preserved}
                                 THEN Orders("refined") ELSE None]
    /\ UNCHANGED <<problem, admitted, gap, work, ordered, visits>>

---------------------------------------------------------------------------
(* Physical tracks for a wanted pitch                                       *)

(* A track is one net's part of the lane, <<net, part>>. Two of them need   *)
(* tracks of their own when one wire uses both, or when they are of         *)
(* different nets and meet anywhere along the gap.                          *)
ShareWire(a, b) == Gap.access[a].edges \cap Gap.access[b].edges # {}
\* (mutant) tracks that only touch may share a slot.
VerticalsOverlap(a, b) ==
    \E i \in DOMAIN Gap.access[a].vertical, k \in DOMAIN Gap.access[b].vertical :
        /\ Gap.access[a].vertical[i][1] < Gap.access[b].vertical[k][2]
        /\ Gap.access[b].vertical[k][1] < Gap.access[a].vertical[i][2]
VerticalsMeet(a, b) ==
    \E i \in DOMAIN Gap.access[a].vertical, k \in DOMAIN Gap.access[b].vertical :
        /\ Gap.access[a].vertical[i][1] <= Gap.access[b].vertical[k][2]
        /\ Gap.access[b].vertical[k][1] <= Gap.access[a].vertical[i][2]
Conflict(a, b) == ShareWire(a, b) \/ (a[1] # b[1] /\ VerticalsMeet(a, b))

LaneKeys == [t \in DOMAIN Gap.lanes |-> <<Gap.lanes[t], t[1], t[2]>>]
ByLane(a, b) == LexLess(LaneKeys[a], LaneKeys[b])

\* The members of a colour that are looked at before a conflict shows.
Inspected(members, track) ==
    LET hits == {i \in DOMAIN members : Conflict(members[i], track)}
    IN IF hits = {} THEN Len(members) ELSE Smallest(hits)

ByColour(members, f(_)) == Total([c \in DOMAIN members |-> f(c)])

\* Colours become slots by their leftmost tracks.
FirstOf(members) == CHOOSE m \in Range(members) : \A o \in Range(members) : o = m \/ ByLane(m, o)
Slots(members) ==
    LET first == [c \in DOMAIN members |-> FirstOf(members[c])]
        mine(track) == CHOOSE c \in DOMAIN members : track \in Range(members[c])
    IN [track \in DOMAIN Gap.lanes |->
          Cardinality({c \in DOMAIN members : ByLane(first[c], first[mine(track)])})]

Pairs == (Size(Gap) * (Size(Gap) - 1)) \div 2
IntervalVisits ==
    LET pieces(t) == {<<t, i>> : i \in DOMAIN Gap.access[t].vertical}
        all == UNION {pieces(t) : t \in DOMAIN Gap.lanes}
    IN Cardinality({pq \in all \X all : LexLess(pq[1][1], pq[2][1])})

\* pitched_gap_track_assignment; a limit reached in one gap gives up on all of them.
EnterPitchGap ==
    /\ Working("pitch") /\ work = None /\ Size(Gap) >= 2
    /\ IF \/ Size(Gap) > MaxPitchedNets
          \/ visits.pairs + Pairs > MaxPitchedPairs
          \/ visits.intervals + IntervalVisits > MaxPitchedVisits
       THEN outcome' = <<>> /\ UNCHANGED <<work, visits>>
       ELSE /\ work' = [members |-> <<>>, left |-> ByKey(LaneKeys)]
            /\ visits' = [visits EXCEPT !.pairs = @ + Pairs, !.intervals = @ + IntervalVisits]
            /\ UNCHANGED outcome
    /\ UNCHANGED <<problem, admitted, gap, ordered>>

(* First fit, in the order of the lanes: the first colour without a         *)
(* conflict, right of every track so far that one of its own wires uses.    *)
ColourTrack ==
    /\ Working("pitch") /\ work # None /\ work.left # <<>>
    /\ LET track == Head(work.left)
           members == work.members
           shared == {c \in DOMAIN members : \E m \in Range(members[c]) : ShareWire(m, track)}
           first == IF shared = {} THEN 1 ELSE Largest(shared) + 1
           free == {c \in first..Len(members) : \A m \in Range(members[c]) : ~Conflict(m, track)}
       IN \E colour \in {IF free = {} THEN Len(members) + 1 ELSE Smallest(free)} :
          \E seen \in {visits.refinements
                        + ByColour(members, LAMBDA c : Len(members[c]))
                        + ByColour(members, LAMBDA c : IF c < first \/ c > colour THEN 0
                                                       ELSE Inspected(members[c], track))} :
            IF seen > MaxPitchedRefinements
            THEN outcome' = <<>> /\ UNCHANGED <<work, visits>>
            ELSE /\ work' = [members |-> IF free = {} THEN Append(members, <<track>>)
                                         ELSE [members EXCEPT ![colour] = Append(@, track)],
                             left |-> Tail(work.left)]
                 /\ visits' = [visits EXCEPT !.refinements = seen] /\ UNCHANGED outcome
    /\ UNCHANGED <<problem, admitted, gap, ordered>>

SlotGap ==
    /\ Working("pitch") /\ work # None /\ work.left = <<>>
    /\ ordered' = Append(ordered, [slots |-> Slots(work.members), count |-> Len(work.members)])
    /\ gap' = gap + 1 /\ work' = None /\ UNCHANGED <<problem, admitted, visits, outcome>>

LeaveGap ==
    /\ Working("pitch") /\ work = None /\ Size(Gap) < 2
    /\ ordered' = Append(ordered, None) /\ gap' = gap + 1
    /\ UNCHANGED <<problem, admitted, work, visits, outcome>>

\* The assignments, unless no gap has any.
OfferTracks ==
    /\ problem.job = "pitch" /\ outcome = None /\ gap > Len(problem.gaps)
    /\ outcome' = IF \A k \in DOMAIN ordered : ordered[k] = None THEN <<>> ELSE ordered
    /\ UNCHANGED <<problem, admitted, gap, work, ordered, visits>>

---------------------------------------------------------------------------
(* Nets moved for a repair                                                  *)

Movable(net) == \E k \in DOMAIN problem.gaps :
                    /\ net \in DOMAIN problem.gaps[k].lanes
                    /\ problem.gaps[k].lanes[net] + 1 < Size(problem.gaps[k])

\* select_crossing_repair_nets: the most crossed nets that can still move.
RepairNets ==
    IF problem.total < MinRepairTotal THEN <<>>
    ELSE LET nets == {n \in DOMAIN problem.crossings :
                         problem.crossings[n] >= MinRepairNet /\ Movable(n)}
             all == ByKey([n \in nets |-> <<0 - problem.crossings[n], n>>])
         IN SubSeq(all, 1, Least(problem.limit, Len(all)))

\* move_nets_to_outer_lanes: where a net of the gap goes when these move.
MovedLane(lanes, nets, net) ==
    LET here == Range(nets) \cap DOMAIN lanes
    IN IF net \in here
       THEN Cardinality(DOMAIN lanes) - Cardinality(here)
              + Cardinality({n \in here : PlaceOf(nets, n) < PlaceOf(nets, net)})
       ELSE lanes[net] - Cardinality({n \in here : lanes[n] < lanes[net]})

MovedLanes(nets) ==
    [k \in DOMAIN problem.gaps |->
        [net \in DOMAIN problem.gaps[k].lanes |-> MovedLane(problem.gaps[k].lanes, nets, net)]]

MoveForRepair ==
    /\ problem.job = "repair" /\ outcome = None
    /\ \E nets \in {RepairNets} :
         outcome' = [nets |-> nets,
                    lanes |-> IF \A k \in DOMAIN problem.gaps :
                                   MovedLanes(nets)[k] = problem.gaps[k].lanes
                              THEN None ELSE MovedLanes(nets)]
    /\ UNCHANGED <<problem, admitted, gap, work, ordered, visits>>

LanesDone == outcome # None /\ UNCHANGED laneVars

LaneNext ==
    \/ Admit \/ EnterGap \/ Descend \/ KeepLocal \/ SeedSmallGap \/ OrderSmallGap
    \/ StartInsertion \/ InsertNet \/ OrderLargeGap \/ PassGlobal \/ PassHalf
    \/ RepeatRound \/ PassPreserved \/ RefineFurther \/ RefineLargeGap \/ OfferOrders
    \/ EnterPitchGap \/ ColourTrack \/ SlotGap \/ LeaveGap \/ OfferTracks
    \/ MoveForRepair \/ LanesDone

LaneSpec == LaneInit /\ [][LaneNext]_laneVars

---------------------------------------------------------------------------
(* What the orders are worth                                                *)

Kinds == {"global", "preserved", "refined"}
CostIn(k, order) == OrderCost(PairCosts(problem.gaps[k]), order)
Saved(k, order) == CostIn(k, ordered[k].local.order) - CostIn(k, order)

(* The adjacent descent never makes a gap worse than it was, and the gain   *)
(* that is claimed for an order, kept up to date while nets are taken out   *)
(* and put in one after another, is what it saves over the local order: so  *)
(* an order is only drawn when it keeps every net in a lane of its own,     *)
(* saves what a drawing is worth and is not drawn already                   *)
(* (crossing_aware_gap_lanes).                                              *)
OrdersEarnTheirDrawing ==
    problem.job = "lanes" =>
        /\ \A k \in DOMAIN ordered :
             /\ CostIn(k, ordered[k].local.order) <= CostIn(k, OrderOf(problem.gaps[k].lanes))
             /\ \A kind \in Kinds :
                  \/ ordered[k][kind].gain = Saved(k, ordered[k][kind].order)
                  \/ kind # "global" /\ ~Large(problem.gaps[k])
        /\ outcome # None =>
             /\ \A kind \in Kinds : outcome[kind] # None =>
                  /\ \A k \in DOMAIN problem.gaps :
                        /\ Range(outcome[kind][k]) = DOMAIN problem.gaps[k].lanes
                        /\ Len(outcome[kind][k]) = Size(problem.gaps[k])
                  /\ Total([k \in DOMAIN problem.gaps |-> Saved(k, outcome[kind][k])])
                       >= MinGlobalGapOrderGain
                  /\ \A other \in Kinds \ {kind} : outcome[other] # outcome[kind]

(* Tracks that meet are given different slots, and the tracks of one wire   *)
(* stand in the order of its lanes, although slots are used again           *)
(* (pitched_gap_track_assignment).                                          *)
TracksKeepApart ==
    problem.job = "pitch" /\ outcome \notin {None, <<>>} =>
        \A k \in DOMAIN outcome : outcome[k] # None =>
            LET g == problem.gaps[k]
                shares(a, b) == g.access[a].edges \cap g.access[b].edges # {}
                meet(a, b) == \E i \in DOMAIN g.access[a].vertical, j \in DOMAIN g.access[b].vertical :
                                 g.access[a].vertical[i][1] <= g.access[b].vertical[j][2]
                                   /\ g.access[b].vertical[j][1] <= g.access[a].vertical[i][2]
            IN /\ {outcome[k].slots[t] : t \in DOMAIN g.lanes} = 0..(outcome[k].count - 1)
               /\ \A a, b \in DOMAIN g.lanes : a # b =>
                    /\ a[1] # b[1] /\ meet(a, b) => outcome[k].slots[a] # outcome[k].slots[b]
                    /\ shares(a, b) /\ g.lanes[a] < g.lanes[b] =>
                          outcome[k].slots[a] < outcome[k].slots[b]

(* The lanes after a repair are those of moving one net after another to    *)
(* the outer edge, as the comment at routing.rs:4314 has it; and when there *)
(* are nets to move, the drawing is not the same again.                     *)
ToOuterEdge(order, net) ==
    IF net \in Range(order) THEN Append(RemoveAt(order, PlaceOf(order, net)), net) ELSE order
InTurn(order, nets) ==
    LET after[i \in 0..Len(nets)] == IF i = 0 THEN order ELSE ToOuterEdge(after[i - 1], nets[i])
    IN after[Len(nets)]
MovedInTurn ==
    problem.job = "repair" /\ outcome # None =>
        /\ outcome.nets # <<>> => outcome.lanes # None
        /\ outcome.lanes # None =>
             \A k \in DOMAIN problem.gaps :
                OrderOf(outcome.lanes[k]) = InTurn(OrderOf(problem.gaps[k].lanes), outcome.nets)

(* Lanes are given to nets so that the nets can be drawn: tracks that would *)
(* meet have lanes of their own, and a repair moves nets one by one.        *)
LanesServeTheirNets == TracksKeepApart /\ MovedInTurn
=============================================================================
