-------------------------- MODULE RouteInspection --------------------------
(* The inspections of a drawing: do wires touch that have nothing to do     *)
(* with each other, do parallel wires keep their distance, how much wire    *)
(* runs close to another, how often do wires cross, how near do they pass   *)
(* to nodes. Each is a sweep over sorted events, or over a tree, that pays  *)
(* for what it looks at from a work budget and gives up when that is spent. *)
(*                                                                          *)
(* One behaviour is one call of one of them: a step is one event, or one    *)
(* visit of a subtree.                                                      *)
EXTENDS SweepIndexes

CONSTANT Calls

VARIABLES call,      \* the inspection asked for, with its arguments
          phase,        \* "read", "sweep" or "done"
          agenda,    \* the sweeps still to run
          sweep,     \* the sweep that runs, with its segments
          events,    \* what is left of it: sorted events, or a stack of subtrees
          active,    \* the segments the sweep line stands on
          tree,      \* the tree of active nets
          left,      \* work that may still be done
          tally,     \* what has been measured so far
          outcome

inspectionVars == <<call, phase, agenda, sweep, events, active, tree, left, tally, outcome>>

---------------------------------------------------------------------------
(* What each inspection sweeps over                                         *)

LineKeys(segments) == {<<IF s.horizontal THEN 1 ELSE 0, s.fixed>> : s \in Range(segments)}

OnLine(segments, key) ==
    SelectSeq(segments, LAMBDA s : <<IF s.horizontal THEN 1 ELSE 0, s.fixed>> = key)

Oriented(segments, horizontal) == SelectSeq(segments, LAMBDA s : s.horizontal = horizontal)

\* The lines with at least two segments, each a sweep of its own.
LineSweeps(kind, segments) ==
    LET keys == {k \in LineKeys(segments) : Len(OnLine(segments, k)) >= 2}
    IN [i \in 1..Cardinality(keys) |->
          [kind |-> kind, queries |-> <<>>,
           members |-> OnLine(segments, InOrder(keys, LexLess)[i])]]

\* Segments of the other orientation with an end on the line of this key.
EndingOn(segments, key) ==
    SelectSeq(segments, LAMBDA s : /\ (IF s.horizontal THEN 1 ELSE 0) # key[1]
                                   /\ key[2] \in {s.start, s.end})

CrossSweeps(segments) ==
    LET keys == {k \in LineKeys(segments) : Len(EndingOn(segments, k)) > 0}
    IN [i \in 1..Cardinality(keys) |->
          [kind |-> "perpendicular",
           members |-> OnLine(segments, InOrder(keys, LexLess)[i]),
           queries |-> EndingOn(segments, InOrder(keys, LexLess)[i])]]

\* measure_parallel_separation_bounded sorts by line; congestion does not.
SeparationKey(s) == <<s.fixed, s.start, s.end, s.net>>

ParallelSweeps(kind, segments) ==
    SelectSeq([i \in 1..2 |->
                 [kind |-> kind, queries |-> <<>>,
                  members |-> IF kind = "separation"
                              THEN SortSeq(Oriented(segments, i = 1),
                                           LAMBDA a, b : LexLess(SeparationKey(a), SeparationKey(b)))
                              ELSE Oriented(segments, i = 1)]],
              LAMBDA s : Len(s.members) >= 2)

\* physical_crossing_sweep: the lines across, and the wires they may cross.
CrossingSweep(segments, transpose) ==
    [kind |-> "crossing", members |-> Oriented(segments, ~transpose),
     queries |-> Oriented(segments, transpose)]

SweepsOf(segments) ==
    CASE call.check = "contact"    -> LineSweeps("collinear", segments) \o CrossSweeps(segments)
      [] call.check = "spacing"    -> ParallelSweeps("separation", segments)
      [] call.check = "congestion" -> ParallelSweeps("congestion", segments)
      [] call.check = "crossings"  -> <<CrossingSweep(segments, call.transpose)>>
      [] call.check = "busiest"    -> <<CrossingSweep(segments, FALSE), CrossingSweep(segments, TRUE)>>
      [] call.check = "clearance"  ->
            [i \in 1..Len(segments) |->
               [kind |-> "clearance", members |-> <<segments[i]>>, queries |-> <<>>]]

(* The events of a sweep in order: at one place, ends come before starts    *)
(* where mere meeting shall not count, and after them where it shall.       *)
StartRank(kind) == CASE kind \in {"collinear", "perpendicular"} -> 0
                     [] kind \in {"overlap", "separation", "congestion"} -> 1
                     [] kind = "crossing" -> 2
QueryRank == 1
EndRank(kind) == CASE kind = "collinear" -> 1 [] kind = "perpendicular" -> 2
                   [] OTHER -> 0

EventsOf(s) ==
    IF s.kind = "clearance" THEN <<call.nodes>>
    ELSE InOrder(
           {<<s.members[i].start, StartRank(s.kind), i>> : i \in 1..Len(s.members)}
             \cup {<<s.members[i].end, EndRank(s.kind), i>> : i \in 1..Len(s.members)}
             \cup {<<s.queries[i].fixed, QueryRank, i>> : i \in 1..Len(s.queries)},
           LexLess)

\* The lines of a sweep, numbered from 0, for the tree of active nets.
Lines(s) == InOrder({m.fixed : m \in Range(s.members)}, LAMBDA a, b : a < b)
LineOf(s, segment) == CHOOSE i \in 0..(Len(Lines(s)) - 1) : Lines(s)[i + 1] = segment.fixed
Leaves(s) == LeafCount(Len(Lines(s)))

---------------------------------------------------------------------------
(* Beginning and ending a call                                              *)

NothingMeasured ==
    [minimum |-> None, positive |-> None, violations |-> 0,
     congested |-> 0, pairs |-> 0, peak |-> 0, crossings |-> 0, most |-> 0,
     byNet |-> [n \in {e.net : e \in Range(call.edges)} |-> 0],
     close |-> <<>>, congestedActive |-> 0, closePairs |-> 0, previous |-> 0]

InspectionInit ==
    /\ call \in Calls
    /\ phase = "read" /\ agenda = <<>> /\ sweep = None /\ events = <<>> /\ active = {}
    /\ tree = <<>> /\ left = call.budget /\ tally = None /\ outcome = None

End(result) == phase' = "done" /\ outcome' = result
Fail(error) == End([error |-> error, value |-> None])
Answer(value) == End([error |-> None, value |-> value])

Start(segments) ==
    /\ phase' = "sweep" /\ agenda' = SweepsOf(segments) /\ tally' = NothingMeasured
    /\ UNCHANGED <<call, sweep, events, active, tree, left, outcome>>

StopReading == UNCHANGED <<call, agenda, sweep, events, active, tree, left, tally>>

\* route_family_has_unrelated_contact_with_budget and the parallel spacing
\* check cut the routes as they are drawn; a spacing of nothing is refused.
ReadRaw ==
    /\ phase = "read" /\ call.check \in {"contact", "spacing"}
    /\ \E read \in {RawRouteSegments(call.edges, call.routes, call.limit, call.escape)} :
         CASE call.check = "spacing" /\ call.spacing <= 0 -> Fail("invalid") /\ StopReading
           [] (call.check = "contact" \/ call.spacing > 0) /\ read.error # None ->
                  Fail(read.error) /\ StopReading
           [] OTHER -> Start(read.segments)

\* The other measures take the segments of each net joined.
ReadJoined ==
    /\ phase = "read" /\ call.check \in {"congestion", "crossings", "busiest"}
    /\ \E joined \in {MergeSorted(SortedUnmerged(call.edges, call.routes))} :
         IF call.check = "congestion" /\ (joined = <<>> \/ call.cutoff <= 0)
         THEN Answer(NothingMeasured) /\ StopReading
         ELSE Start(joined)

\* measure_edge_node_clearance_bounded.
ReadClearance ==
    /\ phase = "read" /\ call.check = "clearance"
    /\ \E joined \in {MergeSorted(SortedUnmerged(call.edges, call.routes))} :
         CASE call.threshold < 0 \/ (\E n \in call.nodes : n.width <= 0 \/ n.height <= 0) ->
                  Fail("invalid") /\ StopReading
           [] call.threshold >= 0 /\ (\A n \in call.nodes : n.width > 0 /\ n.height > 0)
                /\ (joined = <<>> \/ call.nodes = {}) -> Answer(NothingMeasured) /\ StopReading
           [] OTHER -> Start(joined)

\* Begin the next sweep; separation asks beforehand whether its segments are too many.
Open ==
    /\ phase = "sweep" /\ events = <<>> /\ agenda # <<>>
    /\ \E next \in {Head(agenda)} :
         /\ agenda' = Tail(agenda) /\ sweep' = next /\ active' = {}
         /\ IF next.kind = "separation" /\ Len(next.members) > left
            THEN Fail("work") /\ UNCHANGED <<events, tree, tally>>
            ELSE /\ events' = EventsOf(next)
                 /\ tree' = IF next.kind = "separation" THEN EmptyTree(Leaves(next)) ELSE <<>>
                 /\ tally' = IF next.kind # "congestion" THEN tally ELSE
                       [tally EXCEPT !.close = [i \in 1..Len(next.members) |-> 0],
                                     !.previous = Head(EventsOf(next))[1]]
                 /\ UNCHANGED <<phase, outcome>>
    /\ UNCHANGED <<call, left>>

(* The spacing check, with all sweeps done: wires on one line are looked at *)
(* once more, with a budget of their own, for what they need to leave a     *)
(* common port.                                                             *)
LookForOverlap ==
    /\ phase = "sweep" /\ events = <<>> /\ agenda = <<>>
    /\ call.check = "spacing" /\ tally.minimum = 0 /\ sweep.kind # "overlap"
    /\ \E read \in {RawRouteSegments(call.edges, call.routes, call.limit, call.escape)} :
         agenda' = LineSweeps("overlap", read.segments)
    /\ left' = call.budget
    /\ sweep' = [sweep EXCEPT !.kind = "overlap"]
    /\ UNCHANGED <<call, phase, events, active, tree, tally, outcome>>

Conclude ==
    /\ phase = "sweep" /\ events = <<>> /\ agenda = <<>>
    /\ CASE call.check = "contact" -> Answer(FALSE)
         [] call.check = "spacing" ->
              /\ tally.minimum # 0 \/ sweep.kind = "overlap"
              /\ \E m \in {IF tally.minimum = 0 THEN tally.positive ELSE tally.minimum} :
                    Answer(IF m = None THEN TRUE ELSE m >= call.spacing)
         [] OTHER -> Answer(tally)
    /\ UNCHANGED <<call, agenda, sweep, events, active, tree, left, tally>>

---------------------------------------------------------------------------
(* Events                                                                   *)

At(kind, rank) ==
    /\ phase = "sweep" /\ events # <<>> /\ sweep.kind = kind /\ Head(events)[2] = rank

Index == Head(events)[3]
Member == sweep.members[Index]
Query == sweep.queries[Index]

Advance == events' = Tail(events)
Stay == UNCHANGED <<call, agenda, sweep, tree>>
NoVerdict == UNCHANGED <<phase, outcome>>

\* charge_negotiated_work: pay for all that is looked at, or give up before.
Pays(work) == work <= left /\ left' = left - work
GivesUp(work) ==
    /\ work > left /\ Fail("work")
    /\ Stay /\ UNCHANGED <<events, active, left, tally>>

Forget ==
    /\ \E kind \in {"collinear", "perpendicular", "overlap"} : At(kind, EndRank(kind))
    /\ active' = active \ {Index} /\ Advance
    /\ Stay /\ NoVerdict /\ UNCHANGED <<left, tally>>

\* (mutant) every wire is compared with selected ones only.
CandidatesSelectedOnly(segment) == {i \in active : sweep.members[i].net \in call.selected}

\* A wire not selected is compared with selected ones only.
Candidates(segment) ==
    IF segment.net \in call.selected THEN active
    ELSE {i \in active : sweep.members[i].net \in call.selected}

\* Compare with the candidates and go on when none of them is a hit.
Compare(candidates, hit(_), result) ==
    \/ GivesUp(Cardinality(candidates))
    \/ /\ Pays(Cardinality(candidates)) /\ Stay /\ UNCHANGED tally
       /\ IF \E i \in candidates : hit(sweep.members[i])
          THEN Answer(result) /\ UNCHANGED <<events, active>>
          ELSE /\ NoVerdict /\ Advance
               /\ active' = IF Head(events)[2] = StartRank(sweep.kind)
                            THEN active \cup {Index} ELSE active

CollinearStart ==
    /\ At("collinear", StartRank("collinear"))
    /\ Compare(Candidates(Member), LAMBDA other : UnrelatedContact(Member, other), TRUE)

PerpendicularStart ==
    /\ At("perpendicular", StartRank("perpendicular"))
    /\ active' = active \cup {Index} /\ Advance
    /\ Stay /\ NoVerdict /\ UNCHANGED <<left, tally>>

PerpendicularQuery ==
    /\ At("perpendicular", QueryRank)
    /\ Compare(Candidates(Query), LAMBDA other : UnrelatedContact(Query, other), TRUE)

\* Wires of two nets on one line may only share what they need to leave a port.
OverlapStart ==
    /\ At("overlap", StartRank("overlap"))
    /\ Compare(active,
               LAMBDA other : other.net # Member.net /\ ~ShareMandatoryEscape(other, Member),
               FALSE)

---------------------------------------------------------------------------
(* parallel_separation_for_orientation                                      *)

NetsOnLine(members) == {sweep.members[i].net : i \in {i \in members :
                                        sweep.members[i].fixed = Member.fixed}}

\* The tree after the nets of the line have changed; each node on the way is paid.
Summarise(members) ==
    tree' = SetLine(tree, Leaves(sweep), LineOf(sweep, Member), NetsOnLine(members))

SeparationEnd ==
    /\ At("separation", EndRank("separation"))
    /\ \/ /\ PathLength(Leaves(sweep)) > left /\ Fail("work")
          /\ UNCHANGED <<call, agenda, sweep, tree, events, active, left, tally>>
       \/ /\ Pays(PathLength(Leaves(sweep))) /\ Advance
          /\ active' = active \ {Index} /\ Summarise(active \ {Index})
          /\ NoVerdict /\ UNCHANGED <<call, agenda, sweep, tally>>

SeparationStart ==
    /\ At("separation", StartRank("separation"))
    /\ \E line \in {LineOf(sweep, Member)} :
       \E right \in {LeftmostOther(tree, Leaves(sweep), line + 1, Member.net)},
          before \in {RightmostOther(tree, Leaves(sweep), line, Member.net)},
          same \in {HasOther(tree[Leaves(sweep) + line], Member.net)} :
       \E near \in {MinimumOption(
                       IF before.line = None THEN None
                       ELSE Member.fixed - Lines(sweep)[before.line + 1],
                       IF right.line = None THEN None
                       ELSE Lines(sweep)[right.line + 1] - Member.fixed)},
          work \in {1 + before.visits + right.visits + PathLength(Leaves(sweep))} :
          \/ /\ work > left /\ Fail("work")
             /\ UNCHANGED <<call, agenda, sweep, tree, events, active, left, tally>>
          \/ /\ Pays(work) /\ Advance
             /\ active' = active \cup {Index} /\ Summarise(active \cup {Index})
             /\ tally' = [tally EXCEPT
                    !.minimum = IF same THEN 0 ELSE MinimumOption(@, near),
                    !.positive = MinimumOption(@, near)]
             /\ NoVerdict /\ UNCHANGED <<call, agenda, sweep>>

---------------------------------------------------------------------------
(* congested_length_for_orientation                                         *)

\* (mutant) a wire at the cutoff itself is close, too.
CloseInclusive == {i \in active : /\ sweep.members[i].fixed >= Member.fixed - call.cutoff
                                  /\ sweep.members[i].fixed <= Member.fixed + call.cutoff}

\* The active segments on lines nearer than the cutoff; each of them is paid.
Close == {i \in active : /\ sweep.members[i].fixed > Member.fixed - call.cutoff
                         /\ sweep.members[i].fixed < Member.fixed + call.cutoff}
Neighbors == {i \in Close : sweep.members[i].net # Member.net}

\* What has become of the stretch since the event before.
Elapsed(measured) ==
    [measured EXCEPT
        !.congested = @ + measured.congestedActive * (Head(events)[1] - measured.previous),
        !.pairs = IF call.density
                  THEN @ + measured.closePairs * (Head(events)[1] - measured.previous) ELSE @,
        !.previous = Head(events)[1],
        !.positive = FoldSet(LAMBDA i, m : MinimumOption(m, LET d == sweep.members[i].fixed - Member.fixed
                                                   IN IF d = 0 THEN None ELSE IF d > 0 THEN d ELSE 0 - d),
                             @, Neighbors)]

CountOf(p(_), set) == Cardinality({i \in set : p(i)})

CongestionEnd ==
    /\ At("congestion", EndRank("congestion"))
    /\ \/ GivesUp(Cardinality(Close))
       \/ /\ Pays(Cardinality(Close)) /\ Advance /\ active' = active \ {Index}
          /\ \E close \in {[i \in DOMAIN tally.close |->
                               IF i = Index THEN 0
                               ELSE IF i \in Neighbors THEN tally.close[i] - 1
                               ELSE tally.close[i]]} :
               tally' = [Elapsed(tally) EXCEPT
                   !.close = close,
                   !.congestedActive = @ - (IF tally.close[Index] # 0 THEN 1 ELSE 0)
                                         - CountOf(LAMBDA i : close[i] = 0, Neighbors),
                   !.closePairs = IF call.density THEN @ - Cardinality(Neighbors) ELSE @]
          /\ Stay /\ NoVerdict

CongestionStart ==
    /\ At("congestion", StartRank("congestion"))
    /\ \/ GivesUp(Cardinality(Close))
       \/ /\ Pays(Cardinality(Close)) /\ Advance /\ active' = active \cup {Index}
          /\ \E close \in {[i \in DOMAIN tally.close |->
                               IF i = Index THEN Cardinality(Neighbors)
                               ELSE IF i \in Neighbors THEN tally.close[i] + 1
                               ELSE tally.close[i]]} :
               tally' = [Elapsed(tally) EXCEPT
                   !.close = close,
                   !.congestedActive = @ + (IF Neighbors # {} THEN 1 ELSE 0)
                                         + CountOf(LAMBDA i : tally.close[i] = 0, Neighbors),
                   !.closePairs = IF call.density THEN @ + Cardinality(Neighbors) ELSE @,
                   !.peak = IF ~call.density THEN @
                            ELSE FoldSet(LAMBDA i, m : Most(m, close[i]), @, Neighbors \cup {Index})]
          /\ Stay /\ NoVerdict

---------------------------------------------------------------------------
(* physical_crossing_sweep_lines                                            *)

CrossingAdd ==
    /\ At("crossing", StartRank("crossing"))
    /\ active' = active \cup {Index} /\ Advance
    /\ Stay /\ NoVerdict /\ UNCHANGED <<left, tally>>

CrossingRemove ==
    /\ At("crossing", EndRank("crossing"))
    /\ active' = active \ {Index} /\ Advance
    /\ Stay /\ NoVerdict /\ UNCHANGED <<left, tally>>

\* The active segments between the ends of the query, which only meet it there.
Crossed == {i \in active : /\ sweep.members[i].fixed > Query.start
                           /\ sweep.members[i].fixed < Query.end}

\* Segments of the net, or at a port of the query that several nets share.
RelatedToQuery ==
    {i \in 1..Len(sweep.members) :
        \/ sweep.members[i].net = Query.net
        \/ {sweep.members[i].source, sweep.members[i].target}
             \cap {Query.source, Query.target} \cap SharedEndpoints(call.edges) # {}}

CrossingQuery ==
    /\ At("crossing", QueryRank)
    /\ \E count \in {Cardinality(Crossed) - Cardinality(RelatedToQuery \cap Crossed)} :
         tally' = [tally EXCEPT !.crossings = @ + count,
                                !.byNet[Query.net] = @ + count,
                                !.most = Most(@, count)]
    /\ Advance
    /\ Stay /\ NoVerdict /\ UNCHANGED <<active, left>>

---------------------------------------------------------------------------
(* visit_segment_candidates                                                 *)

Top == Head(events)
From == SegmentBounds(sweep.members[1])
Visiting == phase = "sweep" /\ events # <<>> /\ sweep.kind = "clearance"
Promising == CanContribute(Distance(From, Bounds(Top)), call.threshold, tally.minimum)

Prune ==
    /\ Visiting /\ ~Promising
    /\ Advance /\ Stay /\ NoVerdict /\ UNCHANGED <<active, left, tally>>

VisitBranch ==
    /\ Visiting /\ Promising /\ Cardinality(Top) > 1
    /\ events' = ByDistance(From, Top) \o Tail(events)
    /\ Stay /\ NoVerdict /\ UNCHANGED <<active, left, tally>>

\* A node the net is connected to is paid for, and left out.
VisitLeaf ==
    /\ Visiting /\ Promising /\ Cardinality(Top) = 1
    /\ \/ GivesUp(1)
       \/ /\ Pays(1) /\ Advance
          /\ \E node \in Top : \E distance \in {Distance(From, Bounds({node}))} :
               tally' = IF <<sweep.members[1].net, node.id>> \in call.relations THEN tally
                        ELSE [tally EXCEPT !.minimum = MinimumOption(@, distance),
                                           !.violations = IF distance < call.threshold
                                                          THEN @ + 1 ELSE @]
          /\ Stay /\ NoVerdict /\ UNCHANGED active

Ended == phase = "done" /\ UNCHANGED inspectionVars

InspectionNext ==
    \/ ReadRaw \/ ReadJoined \/ ReadClearance \/ Open \/ LookForOverlap \/ Conclude
    \/ Forget \/ CollinearStart \/ PerpendicularStart \/ PerpendicularQuery \/ OverlapStart
    \/ SeparationStart \/ SeparationEnd \/ CongestionStart \/ CongestionEnd
    \/ CrossingAdd \/ CrossingRemove \/ CrossingQuery
    \/ Prune \/ VisitBranch \/ VisitLeaf \/ Ended

InspectionSpec == InspectionInit /\ [][InspectionNext]_inspectionVars

---------------------------------------------------------------------------
(* What the answers mean                                                    *)

Answered(check) == phase = "done" /\ call.check = check /\ outcome.error = None

Pieces == Range(RawRouteSegments(call.edges, call.routes, call.limit, call.escape).segments)
Joined == Range(MergeSorted(SortedUnmerged(call.edges, call.routes)))

Apart(a, b) == IF a.fixed < b.fixed THEN b.fixed - a.fixed ELSE a.fixed - b.fixed
Parallel(a, b) == a.net # b.net /\ a.horizontal = b.horizontal /\ Overlaps(a, b)
Crosses(a, b) ==
    /\ a.horizontal # b.horizontal /\ a.net # b.net
    /\ a.start < b.fixed /\ b.fixed < a.end /\ b.start < a.fixed /\ a.fixed < b.end
    /\ {a.source, a.target} \cap {b.source, b.target} \cap SharedEndpoints(call.edges) = {}
Sum(f(_), set) == FoldSet(LAMBDA x, sum : sum + f(x), 0, set)

(* The two contact sweeps together find a contact of a selected wire with   *)
(* an unrelated one exactly when the pairwise rule has one: sorting by      *)
(* lines and by ends loses none, of corners, ends and stretches alike       *)
(* (raw_route_family_has_unrelated_contact). A spent budget is an error     *)
(* and never an answer.                                                     *)
ContactsAreExact ==
    Answered("contact") =>
        outcome.value = \E a, b \in Pieces : /\ {a.net, b.net} \cap call.selected # {}
                                            /\ UnrelatedContact(a, b)

(* Parallel wires of different nets are found to keep the spacing exactly   *)
(* when every pair of them does, although the tree remembers two nets a     *)
(* subtree; on one line they may only share what both need to leave a       *)
(* common port (route_edges_satisfy_parallel_spacing_bounded).              *)
SpacingIsExact ==
    Answered("spacing") =>
        outcome.value = \A a, b \in Pieces : Parallel(a, b) =>
            IF a.fixed = b.fixed THEN ShareMandatoryEscape(a, b) ELSE Apart(a, b) >= call.spacing

(* Of the wire the measure counts as congested every unit next to a close   *)
(* wire of another net counts once, every close pair for the stretch they   *)
(* share, and the peak is the largest number of wires close at one place:   *)
(* the counts that are kept through starts and ends never drift             *)
(* (congested_length_for_orientation).                                      *)
CloseAt(s, unit) == {o \in Joined : /\ Parallel(s, o) /\ Apart(s, o) < call.cutoff
                                    /\ o.start <= unit /\ unit < o.end}
Units(s) == s.start..(s.end - 1)
CongestionIsExact ==
    Answered("congestion") /\ call.cutoff > 0 =>
        /\ outcome.value.congested =
               Sum(LAMBDA s : Cardinality({u \in Units(s) : CloseAt(s, u) # {}}), Joined)
        /\ call.density =>
             /\ 2 * outcome.value.pairs =
                  Sum(LAMBDA s : Sum(LAMBDA u : Cardinality(CloseAt(s, u)), Units(s)), Joined)
             /\ \A s \in Joined : \A u \in Units(s) :
                  Cardinality(CloseAt(s, u)) <= outcome.value.peak
             /\ outcome.value.peak = 0 \/ \E s \in Joined : \E u \in Units(s) :
                  Cardinality(CloseAt(s, u)) = outcome.value.peak
        /\ \A s, o \in Joined :
             Parallel(s, o) /\ Apart(s, o) \in 1..(call.cutoff - 1) =>
                 outcome.value.positive # None /\ outcome.value.positive <= Apart(s, o)

(* The crossings counted by a sweep in either direction are the proper      *)
(* crossings of unrelated wires, each once, though related ones are only    *)
(* taken off afterwards; what is charged to the nets adds up to them, and   *)
(* the busiest segment has as many as its own line                          *)
(* (physical_crossing_sweep, maximum_crossings_on_physical_segment).        *)
CrossingsAreExact ==
    /\ Answered("crossings") =>
         /\ 2 * outcome.value.crossings =
              Sum(LAMBDA s : Cardinality({o \in Joined : Crosses(s, o)}), Joined)
         /\ outcome.value.crossings =
              Sum(LAMBDA n : outcome.value.byNet[n], DOMAIN outcome.value.byNet)
         /\ RouteLength(MergeSorted(SortedUnmerged(call.edges, call.routes))) =
              Cardinality(UNION {{<<s.net, s.horizontal, s.fixed, u>> : u \in Units(s)} : s \in Pieces})
    /\ Answered("busiest") =>
         /\ \A s \in Joined : Cardinality({o \in Joined : Crosses(s, o)}) <= outcome.value.most
         /\ outcome.value.most = 0 \/ \E s \in Joined :
              Cardinality({o \in Joined : Crosses(s, o)}) = outcome.value.most

(* The clearance measured with subtrees left out is that of all pairs of a  *)
(* wire and a node it is not connected to, and so is the number of pairs    *)
(* below the threshold (measure_edge_node_clearance_bounded).               *)
ClearanceIsExact ==
    Answered("clearance") =>
        LET pairs == {<<s, n>> \in Joined \X call.nodes : <<s.net, n.id>> \notin call.relations}
            gap(p) == Distance(SegmentBounds(p[1]), Bounds({p[2]}))
        IN /\ outcome.value.violations = Cardinality({p \in pairs : gap(p) < call.threshold})
           /\ IF pairs = {} THEN outcome.value.minimum = None
              ELSE /\ \E p \in pairs : outcome.value.minimum = gap(p)
                   /\ \A p \in pairs : outcome.value.minimum <= gap(p)

(* Distances, between wires and from wires to nodes, are those of all pairs; *)
(* and what is only measured, never refused, is exact as well: the           *)
(* comparison of layouts rests on it.                                        *)
MeasuresAreExact == SpacingIsExact /\ ClearanceIsExact /\ CongestionIsExact /\ CrossingsAreExact
=============================================================================
