# Verification of schemweave

schemweave is a deterministic layered layout engine for schematics (Rust, crate
`crates/schemweave`), with a WebAssembly binding, an evaluation command line and a browser page
that compares its drawings with those of ELK. This directory holds TLA+ models of it, TLC
configurations that check them on small instances, and TLAPS proofs of what matters most. Paths
below are relative to the repository's root.

## 1. The system

| Component | State | Operations | Where |
|---|---|---|---|
| Validation and index | none; builds `IndexedGraph` | `validate_and_index_with_constraints`: ids, endpoints, options, boundary constraints, bundles; `runtime_ranking_graph` cuts feedback into cycle breakers | `validation.rs` |
| Ranking | working arrays of one call | strongly connected components, topological order, earliest ranks, the latest-rank alternative and its acceptance | `topology.rs` 32-279 |
| Ordering | layers, crossing count, sift work | barycentre sweeps, alternative orders, bounded max-sift, transposition | `topology.rs` 281-1076 |
| Placement | rectangles per layer, straight chains, regional shifts | initial placement, port alignment, chain straightening, spacing | `placement.rs` |
| Routing | lanes, dogleg and track plans | corridor planning, lane assignment, route construction, several alternatives per call, track spacing, pitch families | `routing.rs` |
| Candidate selection | `best`, `CandidateAdmissionState`, `best_uses_primary_ranks`, the selected layout | offer, admit, retain, fail, refine, roll back | `lib.rs` 551-1746 |
| Readability checks | bounded work counters | unrelated contact, node clearance and parallel spacing sweeps | `readability.rs` |
| Boundary bundles | geometry of each bundle, a visit budget | draw bundles over a layout, normalise, verify | `boundary_bundles.rs` |
| Expanded groups | keep-out boxes | apply group constraints after layout, verify keep-outs | `groups.rs` |
| Incremental mutation | a `WorkBudget`, candidate scores | expand and collapse a group in an existing layout without a full relayout | `incremental.rs` |
| Staged scheduler | active and pending request, refine timer, generation | `submit`, `supersedeActiveLarge`, `receive`, `workerFailed`, refine | `tools/visual-review/src/latestRequest.ts` |
| Review page | selection, dirty flag, debounce, canvas, status | load data, choose a fixture, change a control, dispatch, display | `main.ts` |
| Layout worker | wasm state, retained request, score cache | `layout` and `refine` messages | `layout.worker.ts`, `datasetCache.ts` |
| Bindings and tools | none that outlives a call | wasm entry points, evaluation metrics, benches | `crates/schemweave-wasm`, `crates/schemweave-eval`, `benches` |

**How they interact.** `layout_with_config` validates, ranks, orders, places and routes several
candidates in one call, `layout_indexed` chooses and refines one, and the expanded-group pass works
on its result; these are calls in one thread, so what is hard is order, not interleaving: a dozen
optional stages share one slot `best`, one set of rejection flags and one plan, work limits cut
stages short, and a refinement may have to be rolled back. The browser side is concurrent: the page
and its worker are event loops that exchange messages, timers fire in between, and the page
terminates a worker to cancel a large layout.

**What makes each part correct** is listed with its module in section 3, and the places where it is
hard to test are the `hazards` of `PROJECT.json`.

## 2. Plan

Done, in this order:

1. `StagedRequests`, `UnreliableWorker`: the scheduler against any worker, proved.
2. `LatestLayout`, `LayoutReview`: the page, the scheduler and the worker composed; refines the
   abstract canvas; proved but for liveness.
3. `CandidateAdmission`, `LayoutSelection`: the engine's pipeline, proved.
4. `Validation`, `Digraph`, `StrongComponents`, `Ranking`: requests, components, feedback cuts, order,
   earliest and latest ranks; composed by `MCRanking`, proved.
5. `LayerOrdering`: sweeps, alternative orders, sift, transposition; proved.
6. `GroupContract`, `GroupExpansion`: the expansion of a group in an existing drawing; contract and
   search proved.
7. `BundleGeometry`, `CollectorPlanning`, `BundleApplication`: boundary bundles drawn over routes;
   proved but for `TapsMeetRoutes`.
8. `RouteSegments`, `RouteFamilies`: one call of the router, which drawings it makes, compares,
   reuses and offers; all three properties proved.
9. `SweepIndexes`, `RouteInspection`: the inspections of a drawing against their pairwise definitions.
10. `NodePlacement`, `GapLanes`, `ChannelGeometry`, `ChannelRoutes`: from the order of the nodes to
    the points of the routes; both properties of `NodePlacement` proved.
11. `MemberArrangement`, `ExpandedGroups`: groups that are open when the graph is drawn; proved.

Next:

12. `DatasetLoading`: the acceptance of files by the review page (`dataset.ts`).
13. `GroupCollapse` and the composition of one expansion candidate (splicing the members' layout in,
    rerouting what is affected, keeping or replanning bundles): abstract specification: a mutation
    either returns a drawing that meets the contract or an error that is true.
14. Negotiated crossing paths, staircase alignment and the pitch families of `routing.rs`, which
    `RouteFamilies` takes as features a drawing may have.

Theorems planned: `TapsMeetRoutes` of `BundleApplication` (a shared route clears the taps drawn
before it).

## 3. Modules

There are eight runs that pass and four, listed in section 6, that must be violated. The engine is one
thread of pure calls, so four runs check several components at once: `ranking`, `groups`, `routes` and
`drawing` start a call of one of their components and let the variables of the others rest. Nothing is lost by
that, the calls share no state in the code either.

### The scheduler: `StagedRequests`, `UnreliableWorker`

`StagedRequests` is the class `StagedLayoutRequests`, one operator per method; `armed` are the
timers the host has armed, `inbox` the messages the current worker has not read and `epoch` counts
workers. `UnreliableWorker` closes it with a client that submits and supersedes at any time and a
worker that answers any request it was ever sent, with any phase, as often and as late as it likes,
or fails. Run `scheduler`, at most `MaxSubmissions` = 4 submissions: enough for one request active,
one pending, one that replaces the pending one and one more after a cancellation, so that every pair
of generations meets. A timer is armed only for a request that waits for its refinement
(`TimerOnlyWhileWaiting`); submissions wait behind small requests only and are dispatched in their
order (`SubmissionsKeepTheirTurn`); deliveries advance; the pending submission is never lost.

### The review page: `LatestLayout`, `LayoutReview`

`LayoutReview` composes the scheduler with `main.ts` and `layout.worker.ts`. An action is one event
handler, run to its end with every call it makes. Events posted by a worker stay in the `mail` of its
epoch and can be delivered after its termination; the page ignores those (the listener belongs to the
old worker object).

Run `review`: four inputs over three datasets (the second may be without fixtures), two fixtures (one small,
one large) and two efforts; fetched or chosen files may be rejected at any time, the wasm module may be
rejected and the worker script may fail to load. `CanvasKeepsToSelection`: the canvas and the score next to it
are of the selection, and the step with which the page comes to rest shows the newest or says that it failed.
A word on rejected files then takes the status line, and the status line only. `NothingAwaitedInVain`: one
thing is under way for each active request, and a refinement finds its request retained. Liveness `Settles`
and the refinement `ShowsLatest` of `LatestLayout`.

Fairness is weak and only of the environment's own duties: a timer fires, a loaded worker reads its
messages, an event of the current worker is handled. Nothing obliges the user. Deadlock is allowed:
the page stops when the inputs are spent.

### Candidate selection: `CandidateAdmission`, `LayoutSelection`

`CandidateAdmission` holds the pure decisions: the order of candidates, the budgets, the hard geometry
contract and the report of a failed call. `LayoutSelection` is `layout_indexed`, one action per stage.
What a router draws is a free choice from `Drawings`, whether an optional stage is worth its cost is a
free choice too; `offered` and the fields `primary` and `vetted` are ghosts. Congestion, which only
narrows some refinements, is left out.

Run `selection` checks every effort, constraint and budget: the candidate taken is the best of those
admitted (`BestIsLeast`), a call fails only if none was, for the reason it gives (`FailuresAreTruthful`),
quality, plan and bundles are those of the layout returned (`SelectedIsAsDescribed`), and a refinement
is never worse nor beyond the area it was allowed (`RefinementsKeepWithinBounds`). Two runs are
violations, see section 6. The requests and drawings are in `MCLayoutSelection.tla`; quality and area
values are chosen at either side of every threshold the code compares with. `MaxRouted` = 2 bounds the
drawings of one routing call, and the state constraint `Scenario` lets most requests meet one drawing
per routing call, out of seven, and requests for rejection two, out of every mixture of rejections and
limits. A call ends, so deadlock is allowed.

### Requests: `Validation`

`validate_and_index_with_constraints`, check by check in the order of the code: options, nodes with
their ports, edges, boundaries, then each bundle with its members, their slots and the lanes they are
given. The first thing found ends the call with its error. An action is one check, of a part of the
request or of one node, edge, bundle or member; equal ids come in any order, as the unstable sort
leaves them. Numbers are integers or `NotFinite`. Part of run `ranking`: a request of three nodes, four
wires and two bundles, with its slots given in every way, and about a hundred requests with one or two
faults; the limits are scaled down (`MaxOption` = 8, `MaxSweeps` = 8, `MaxDimension` = 9,
`MaxBundleWidth` = 8, `MaxBundleWork` = 18, and `One` = 2 is the number 1.0) so that each can be
exceeded by one. `AcceptedIsConsistent`: in what is accepted ids name one thing, wires end on ports,
nothing leads into an input or out of an output, no wire is in two bundles at one end, and members of
a bundle share a lane exactly when they share a slot.

### Ranking: `Digraph`, `StrongComponents`, `Ranking`

`Digraph` states reachability without recursion: v is reached from u if every set that is closed under
the edges and contains u contains v. `StrongComponents` is `strongly_connected_components`, the two
depth-first passes with their stacks; edges are listed by id, so the next neighbour of a node may be
any of them. `Ranking` is `runtime_ranking_graph`, `component_graph`, `earliest_ranks` and
`rank_candidates`, one action per loop iteration. It takes a component as the set of its nodes, which
`ComponentsAreMutual` shows to be what the search numbers alike; its precondition `WellConstrained` is
what `BoundariesAreFree` of `Validation` says of every accepted request.

Run `ranking` makes the call of ranking as a whole: `MCRanking` lets the search run in the pairs that
rank, and the loops over components continue when it is done. Graphs: every loop-free graph of four
nodes with at most one cycle breaker and no boundaries (enough for two cycles joined by one-way edges,
the smallest graphs on which a wrong finish order merges components); graphs with inputs, outputs and up
to two breakers; parallel edges, one of which does not rank. The two sizes of the latest-rank acceptance
are constants (1,000 nodes and 100 edges of a net in the code), scaled to `SmallGraph` = 5 and `WideNet`
= 2. Deadlock is checked: only a call that has returned may rest, so no loop waits for a component that
never becomes ready.

### Layer ordering: `LayerOrdering`

`LayerOrdering` is the part of `topology.rs` that orders the items of each layer: edges across several
layers become chains of virtual items, shared by a net at high fanout; sweeps place an item at the median
of its neighbours; alternative orders compete; a bounded sift and a transposition improve what came out.
An action is one sweep, one sift move or one swap. Run `ordering`: small layered graphs with long edges and
shared nets. Scaled down from the code: two passes, the fanouts at which items are shared (2 and 3, 3 and
4), `ManyNodes` = 7, `SiftLayerItems` = 4, `SiftWorkLimit` = 80 (a sift is cut short in some graphs and not in
others), `CrossingsPerEdge` = 0. Positions always describe the layers and an order is handed out with the
crossings it has (`RecordsMatchLayers`), a sift cut short hands out nothing worse (`SiftedIsBetter`), and
every swap and every move of a sift removes at least one crossing (`MovesReduceCrossings`), which is why
transposition ends. A call ends, so deadlock is allowed.

### Placement: `NodePlacement`

The gaps between layers and between nodes of a layer, from the demand of the nets, the corridors and
envelopes of bundles and the clearance; the centred start; one action per layer that is aligned, by
pooling neighbouring nodes that would come too close; and the alternative in which chains of nodes are
straight. Coordinates are integers, a quotient is rounded down, weights are counted in quarters. The
alignment error, which only decides whether a preferred placement is worth routing, is left out.
Part of run `drawing`: three layers of two, three and one nodes, seven wirings, bundles at either side,
with and without clearance, wire spacing and demand, two or three rounds; `MaxChainNodes` = 6 and
`InteractiveNodes` = 5 put the graph at either side of the limits. `GapsHoldTheirNets`: a gap is as wide as
what passes it at once needs. `AlignmentKeepsGaps`: no round squeezes two nodes, and a layer ends where the
gaps cost least.

### Lanes: `GapLanes`

Which net stands left of which in the gap between two layers: the local descent, the insertion of the
nets that cross most and their retries in three passes, each paid from a work limit; the colouring of
tracks into slots for a wanted pitch; and the nets a repair moves to the edge of their gaps. Run `drawing`:
one to six nets a gap and up to three gaps; the limits are scaled so that a gap is small, large or
too large and work may run out in each pass. `OrdersEarnTheirDrawing`: the gain that is claimed for an
order, kept up to date while nets are taken out and put in, is what it saves, so an order is drawn
only if it is worth it. `LanesServeTheirNets`: tracks that meet never get one slot, the tracks of
a wire keep the order of its lanes, and the lanes after a repair are those of moving its nets one by one.

### Routes: `ChannelGeometry`, `ChannelRoutes`

`ChannelGeometry` has ports and stubs, the free stretches of a layer, which wires pass gap by gap and which go
around the drawing, and the tracks and channels of both. `ChannelRoutes` draws: survey, lanes, sides and
orders of the wires that go around, tracks of the ends that would share a row, the heights of the wires that
pass a layer, the points leg by leg; then the coherent alternative, in which the feedback of a net is brought
to one side, and the moves of nets whose arms cross too much. Free choices: the order of lanes (judged in
`GapLanes`), the free stretch a wire passes, whether the expanded spacing wins by congestion, and whether an
alternative is accepted. Adaptive spacing is used where its routes are measured to be better. Coordinates are
integers whose multiples the fractions of the code divide; what 4 ulps are for the code is `RowTolerance` = 6,
and the 1e-7 below which a route takes no step is `MinRouteSegment` = 12: instead of the step, a wire goes on
a stub lower (`ArrivalRow`), on a row for which no track exists. The nudge of crossing tracks is left out, and
lane gaps are positive. Run `drawing`: five nodes in three layers with ports on all sides, nine sets of wires
(facing each other, feedback above and below, feedback that moves once it is together, fanning out, past a
layer, trunks within trunks) and a crowded one, gaps as wide as asked for or twice as wide, with and without
clearance. `EscapesKeepApart`: wires of different nets do not leave or reach ports of one row on top of each
other, also after sides and orders have changed, and a route runs from its source to its target. It is stated
where the tracks are those of the spacing in use; where they are not is finding `tracks`. `OuterLanesAreOwn`:
beyond the drawing a net has a lane of its own, feedback that was brought together stays together, also when
nets are moved later, and no net that is on one side is split by a move.

### The router's choice: `RouteSegments`, `RouteFamilies`

`RouteSegments` has what every inspection needs: cutting routes into segments, joining those of a net,
related wires, contacts. `RouteFamilies` is one call of `route_planned_candidates_with_horizontal_overrides`:
spacings, orders of lanes, repairs, stable and fanned channels, coherent sides, negotiated corridors, the
drawing without straight runs, and what is kept between them (endpoint tracks, crossing paths, crossing
profiles). A drawing is known by what it was made from; what the geometry decides is a `world`, chosen
once. Run `routes`: the calls the engine makes and worlds in which up to two features of a drawing cost or
save crossings, bends or length. Two are enough, for every comparison is of two drawings. Node counts are
in the six classes the limits tell apart. `ReuseIsSound`: a drawing is handed on with the quality of its own
routes, and repairs use paths of their own tracks. `ExactOffersAll`: of what is drawn for exact admission
nothing is lost. `DrawingsEarnTheirPlace`: what takes the place of a drawing is better, in the order the
comparison has at that place, and the primary is never worse than the compact drawing.

### Inspections: `SweepIndexes`, `RouteInspection`

The sweeps for unrelated contact, parallel spacing, crossings, congestion and the busiest net, and the
walk through the tree of nodes for clearance, event by event, each paid from a work budget.
`SweepIndexes` has the tree of active nets, which remembers two nets a subtree, and the bounding-volume
tree. Run `routes`: three wires on a small grid in three wirings, drawings that lie on one line, end on
each other, double back or have legs of no length; drawings that are refused; twelve wires that leave
one port; three level wires in every order and height. Budgets are spent at the first, a middle and no
event. `ContactsAreExact` and `MeasuresAreExact` (clearance, spacing, congestion, crossings and bends):
an inspection answers what its pairwise definition says, or gives up.

### Expanded groups: `MemberArrangement`, `ExpandedGroups`

`MemberArrangement` sets out the members of a group, part by part. `ExpandedGroups` is
`apply_expanded_group_constraints`: the checks of the request in their order, room to the right, the frames
from the top down with all that is in the way pushed below, and the verification of the frames. Whether
the router finds a drawing afterwards is a free choice. Run `drawing`: four nodes that may be members and
three strangers around them, one or two groups, ten requests with faults and with two at once; `MaxGroups` = 2,
`MaxMembers` = 4. `FramesAreTheirOwn`: once a single group is settled, no other node stands in its frame and
what was moved out lies on nothing near it; the parts of a group are set out apart, by the gap their wires
need.

### Group expansion: `GroupContract`, `GroupExpansion`

`GroupContract` decides whether two graphs, a group and a mapping of edges fit
(`validate_graph_contract`, `validate_protected_groups`), with the error each misfit is reported as.
`GroupExpansion` is `expand_group_in_place`: the contract, the horizontal and the vertical corridor, the
planning of positions against the budget, the reflow and the search over positions with two routings
each. What composing, routing and checking a candidate comes to is a free choice of outcome and cost.
Graphs have their edges between their own nodes, as both are validated before. Coordinates are integers
and of the routes only the ends are kept. Run `groups`: an anchor, two outer nodes, protected groups,
with every error of the contract among the inputs; `NodeGap` = 4, budgets 6 (fast) and 9 (quality)
attempts, radius 0 or 1 around the anchor, at most `MaxMembers` = 2, `MaxGroups` = 2 and
`MaxGroupMembers` = 3. What passes the contract is a quotient (`AcceptsQuotients`), a corridor moves a
protected group as a whole and makes the room the members need (`CorridorsMakeRoom`; that nodes stay
apart and the room is free is said of drawings in which they were apart and groups held only their
members, for a group whose frame reaches over the anchor sinks as a whole and can bring a member from
above the anchor into the room), the search stays within its estimate and returns the best of the
candidates admitted (`SearchIsBestAffordable`). A call ends, so deadlock is allowed.

### Boundary bundles: `BundleGeometry`, `CollectorPlanning`, `BundleApplication`

`BundleGeometry` has the collector of a bundle, the taps of its members and the splicing of their routes,
contacts, and the structure a drawn bundle must have. `CollectorPlanning` is `plan_interior_collectors` and
the candidates for promotion. `BundleApplication` is `apply_bundle_geometry`, one action per step of one
bundle: draw, check, fall back, promote, share, and the verification at the end. Routes are point lists with
integer coordinates; the midpoint between collectors is rounded down, the translation to the origin and
the early return for a drawing that already is sound are left out. Contacts of bundles with routes and
with bundles are computed; nodes in the way, contacts of routes with routes, and every work limit but that
of the planning, which is assumed to suffice, are free choices, so every step may also be refused or cut
short. Run `groups`: six graphs of two to four edges and one or two bundles (one bundle; parallel edges
of one net and of two; a bundle at both ends of the same edges; an output that has two of three edges of
an input; two inputs that want the same lane), four routes for an edge, drawn for the first time with or
without wire spacing, refined, or redrawn around a bundle that is kept. Two bundles are enough for each
property: they relate one drawn before with one drawn after. `MaxSegments` = 12 lets the limit refuse a
shared route; `MaxCollectorBundles` = 2 and `MaxPromotions` = 2 are both 32 in the code. Whatever was tried
and dropped, the segments are counted (`SegmentsCounted`), taps meet their routes (`TapsMeetRoutes`) and
collectors of a role are a pitch apart (`LanesApart`).

## 4. What is proved

All proofs hold for every value of the constants that satisfies the modules' assumptions; those are
the types of the constants, that null values are none of the values they stand beside, and the few
named below. The type invariants are part of the inductive invariants.

- `VisualReview_proofs`, first about `UnreliableWorker`: `SchedulerSafety` (type correctness and the
  safety invariants), `SubmissionsTakeTurns` (what waits does so behind a small request, and dispatches
  are in the order of submissions), `SchedulerDeliversInOrder` (results reach the page in the order of
  their requests) and `PendingIsNeverLost` (the pending submission is only replaced, dispatched or
  dropped by a cancellation). The inductive invariant `UnreliableInv` adds to the checked ones that the
  last delivery is not ahead of the generation (`DeliveryLags`), and that ids of dispatched, pending and
  submitted requests are ordered (`IdsOrdered`): without them a late answer could be that of a newer
  generation.
- `VisualReview_proofs`, then about `LayoutReview`: `CanvasIsOfSelection`, `NobodyWaitsInVain`, and the
  refinement `CanvasImplementsLatest` (every step of the page, its scheduler and the worker is a step of
  the abstract canvas or leaves it alone). What the runs check is not inductive: that an answer is
  listened to depends on what it says, and that on what the worker read, kept and scored. `Flow` names
  the one place in which the active request can be (`AtWorker`, `Answered`, `Quiet`; a worker that could
  not be loaded is `Dead`) and `Newest` the request that is the selection's: the debounce, the pending
  one, the active one, or the canvas itself (files may have been rejected since). The step into rest is only
  an answer or a failure that finds nothing pending (`RestsOnNewest`, proved of every step). Everything but the page is closed under its own steps
  (`MInv`), the page adds `PInv`. `NothingAssumption`: `Nothing` is no fixture, selection or display.
- `Candidates_proofs`, first about `LayoutSelection`: `SelectionCorrect` (type correctness, no admitted
  drawing beats the chosen one, a call fails only if none was admitted, the retained quality is the
  layout's own, the contract of the layout without bundles, the plan follows best), `SelectionImproves`
  (best is only replaced by something better), `FailuresCorrect`, `SelectedCorrect` and
  `RefinementsCorrect`. The inductive invariant `IInv` adds what each stage may assume of the slots
  (`Phases`), that every retained candidate measures itself (`AllSound`), which ranks best came from
  before the latest ranks are merged (`Lead`), that a drawing that was offered and admitted is no better
  than `best` or `local` (`NothingLost`), and that a reported failure was earned (`FailureEarned`).
  `JInv` adds that the flags are exactly those of what was offered as long as nothing was admitted
  (`FlagsOfOffered`), that every slot has the quality and the bundles it was asked for (`AsAsked`), that
  the selected layout is no worse than best (`NoWorse`), and that a baseline is kept only where it can
  be rolled back to (`PitchFromBaseline`). It rests on lemmas that the candidate order is a strict weak
  order. The two factors of a request are at least 1.0 (`Factors`), as `validate_options` demands: with
  a smaller one a layout would exceed the budget it is itself the measure of, and `RefinementsCorrect`
  would be false.
- `Candidates_proofs`, then about `RouteFamilies`: `WhatIsReusedIsTrue` (`ReuseIsSound`),
  `NoDrawingIsLost` (`ExactOffersAll`) and `DrawingsAreWorthIt` (`DrawingsEarnTheirPlace`), for every
  call and every set of worlds, whichever features have whichever effects. The inductive invariant
  `FamiliesInOrder` has five parts. `StagesInOrder` says who may call which stage. `PiecesInOrder` says
  what each stage may rely on: every drawing kept anywhere is measured on its own routes, a crossing
  profile kept beside a drawing is its own, but only in the stages that read it (`DrawingInOrder`), and
  a quality is known where one is compared. `RepairsFit`: plans that were drawn use paths of their own
  tracks or the paths of the first. `NothingIsLost` says where each drawing made so far is (`OnHand`):
  in the family at hand, the lane drawing kept beside it, the stable family set aside for the fanned
  one, the offers, the first pass. `NeverWorse` follows the compact drawing through each replacement;
  what may be 5 % longer is a spacious one, once, for the comparison by readability comes before all
  others and happens in one stage (`SpaciousIsNotWorse`). `WorldsAssumption` says what the code relies
  on when it takes crossings over from another spacing: without outer lanes and with as many bends, the
  spacing does not change them, for tracks keep their order.
- `Ranking_proofs`, first about `StrongComponents`: `ComponentsAreStrong`. For every graph and whichever
  neighbour is entered next, the two passes end with the classes of mutual reachability. `SearchInv`
  says for the first pass that the stack is a path (`StackLeadsOn`) and that an edge out of what has
  been left leads to what was left before, or to what still leads to the node left last
  (`LeavingOrder`); for the second, that closed components are whole and that the open one has a root,
  the last node left that is in no closed one (`OpenHasRoot`). `LastOfComponent`: a node that leads to
  one that was left is connected with one that was left then or later, so what the second pass collects,
  looking back from the root, is connected with it.
- `Ranking_proofs`, then about `Ranking` (on `DigraphFacts`: finite sets have a smallest member set and
  a greatest number, reachability is transitive, monotone and arrives by a last edge):
  `ComponentsAreOrdered`, `RanksAreEarliest` (`RanksAreTight`), `BoundariesAreOutermost`,
  `BreakersLeaveCycles`, `LatestRanksKeepOrder` and `RankingTypes`, for every finite set of nodes and
  every graph. The inductive invariant is `Structure` (what the condensation is), `Order` (indegrees
  count the predecessors that wait; without it one cannot know that the loop misses none), `Ranks`
  (edges of the components passed so far increase) and `Distances` (rank and distance together stay
  within the horizon, so that the saturating subtraction never saturates). That some component is always
  ready is `SomeComponentIsNext`: among those left, one whose set of ancestors is smallest has no
  predecessor left.
- `Ranking_proofs`, last about `Validation`: `AcceptedRequestsAreConsistent`, for every request a caller
  can hand over, with lists of any length, any ids and numbers that are not finite
  (`SubmittedAreRequests`), and every limit. The inductive invariant `VInv` says of the part that is
  behind what acceptance will say of the whole: nodes and edges looked at so far (`NodesAreApart`,
  `EdgesAreSound`), bundles and members (`CheckedFit`, `CheckedAreApart`), lanes (`DoneAreServed`). A
  member shares only the newest lane; that members with the same slots nevertheless never get two is
  `ServedInOrder`: they are taken in an order by slots, and that order is asymmetric.
- `LayerOrdering_proofs`: `OrdersAreRecorded` (`RecordsMatchLayers`), `SiftsImprove` (`SiftedIsBetter`)
  and the action property `MovesLowerCrossings` (`MovesReduceCrossings`), for every finite ranked graph
  and every bound. In the inductive invariant `IInv`, `ColumnsAreListed` is what every sort, swap and
  move must restore: a column lists its own items once each, and the positions that were patched are
  those a fresh count would give. This is `RelistedColumn`, of which a sort (`RefreshedColumn`), a swap
  (`SwappedColumn`) and a sifted item (`MovedIsOrder`) are cases; it rests on the columns having no item
  in common (`ColumnsAreApart`). `BestIsMeasured`, `AlternativeIsScored` and `ResultsAreMeasured` say
  what is true of the records in each stage, above all that nothing is in the slot of the sift before it
  ends and that a best and an alternative exist where they are compared with. That a seed has an order
  at all is `OrderExists` (the keys of items are totally ordered, `KeysAreOrdered`), and that crossings
  are numbers is `CrossingsAreCounted` (the arcs of a finite graph are finite). The hundredth of
  `SiftedIsBetter` is that of both seeds because the better of them is sifted (`ChosenIsMeasured`).
  `GraphsAssumption`: the rank of every node is a natural number and a graph has finitely many edges
  between its own nodes. For `MovesLowerCrossings`, the crossings of a drawing, counted there with one
  number for all arcs between two places, are those of pairs of links (`CountIsOfLinks`). If two
  neighbours change places, only links of the one with links of the other change (`CrossingsLost`,
  `ExchangeSaves`), and the gain compares exactly these, though it merges the neighbours of an item and
  the edges between two (`GainIsSaving`). What an exchange saves does not depend on where the two stand
  in their column (`SavingElsewhere`), so moving an item is a row of exchanges whose savings add up to
  the sum the sift takes (`StepSaves`, `MoveSaves`). An item that leaves its place has a positive gain,
  for staying gains 0 and a place no better than it is not taken (`MoveLowers`); a swap is made only for
  a positive gain (`SwapLowers`).
- `Drawing_proofs`, first about `NodePlacement`: `GapsAreAsWide` (`GapsHoldTheirNets`) and
  `LayersKeepTheirOrder` (`AlignmentKeepsGaps`), for every netlist. The inductive invariant
  `PlacementInv` says that the gaps are those of the netlist once measured and that every layer has its
  order and its gaps from the moment it is placed. That a gap has a lane for each net is counted along
  the gaps: the wires of a net are merged into runs, each run adds one at its first gap and takes one
  off behind its last, and the sum up to a gap is the number of nets on their way through it, because
  merged runs of one net have no gap in common. The projection works on blocks of neighbours with one
  target each. Means do not compare by adding up, so the proof looks at the levels sum - v * weight
  instead, for each value v: a block has no part with a greater mean at its right end nor a smaller one
  at its left (`IsBlock`), merging two of which the first exceeds the second gives a block again, and
  blocks that rise leave every node the greatest of the least means of the runs around it (`RowSplits`,
  `MeansOfTargets`), whatever was merged when. From that the targets rise along the layer, and the
  nodes, set apart by the offsets, keep their gaps (`ShiftedKeeps`). `NetlistsAssumption`: nodes are
  numbered, each is once in the layer of its rank and no layer is empty, wires and bundles are at nodes
  of the graph, and measures are numbers; this is what ordering hands over.
- `Drawing_proofs`, then about `ExpandedGroups`: `FramesHoldTheirPlace` (`FramesAreTheirOwn`), for every drawing
  and any groups. The inductive invariant `GroupsInv` says that there are plans only for groups that passed
  the checks, that they are those of the drawing (`Plans`), and where its nodes stand before the first frame
  is settled and after. Parts lie in cells of a grid whose columns and rows are as wide and as high
  as their greatest part, so two parts are a gap apart in the direction in which their cells differ
  (`MembersAreSetOut`, `PartsAreApart`). Making room to the right moves a node no less than one left of it,
  so nodes apart remain apart (`SpreadApart`). Below a frame, what was in it or in the way is stacked with the
  node gap between (`StackedFacts`), and what then stands there later is below the stack, which is as high as
  the shift makes room for (`LoneGroupSettles`). `OpeningsAssumption`: nodes have a size and do not overlap,
  as placed, gaps and the points of wires are numbers, and the gap between members is positive; nothing is
  assumed of the groups but the types of their fields.
- `Lanes_proofs`, about `GapLanes`: `LanesServeNets` (`LanesServeTheirNets`), for every gap, every set of
  tracks and every limit. For the tracks, `PitchInv` says that the colours made so far are a colouring of the
  tracks behind (`IsColouring`): no two of a colour meet or share a wire, the first track of a colour is its
  leftmost, and of two tracks of one wire the one whose lane is left has the smaller colour. The last is why
  first fit starts right of every colour with a track of one of its wires; it does not hold of the slots by
  itself, which are given by the leftmost tracks of the colours and not by their numbers: a colour is opened
  after all those before it, so it begins right of them (`TrackIsColoured`, `SlotsServe`). For a repair there
  is nothing to keep between steps, but the lanes are computed for all nets at once: `TurnsAgree` goes through
  the nets and shows that after the first of them the moved nets stand last in their order and the others first
  in theirs (`MovedTo`), which is what the computed lanes say (`GapIsMoved`); the last net that moves was not
  in the last lane, so something moved (`RepairMoves`).
  `OrdersAreWorthIt` (`OrdersEarnTheirDrawing`) is about a number that is kept up to date instead of being
  counted anew, so it needs the difference of two sums over all pairs of an order. Exchanging neighbours
  changes the cost by the two costs of that pair (`ExchangeCosts`), so the descent never rises
  (`DescentHelps`). The costs of the places of a net that is put in anew are each that of the place before,
  changed by the two costs of the net it passes (`PlaceCosts`), so the costs of two places differ as those of
  the two orders (`PlacesCompare`, `MovedNet`). The inductive invariant `LaneInv` says of a gap in work, for
  each phase, that its orders hold every net once and that the gain so far is the cost of the local order
  less that of the order reached (`IsWork`), and of the gaps behind that they earn what they claim
  (`IsEntry`). In a small gap the preserved and the refined order may claim less than they save
  (`EarnsEnough`), which is why the property asks for equality only where the code counts the gain; that is
  enough for the sum over all gaps to exceed the limit for a drawing.
  `LaneLimits`: the limits are natural numbers, the small limit of lanes is below the large one, the hot
  nets grow from large to refined, and a preserved or refined order has more than one round.
  `ProblemsAssumption`: a net has one lane in a gap it passes, for a repair the lanes are 0, 1, ..., and
  the absent value is no assignment of lanes.
- `Groups_proofs`, first about `GroupExpansion`: `QuotientsAreAccepted` (the checks made one after
  another let through exactly the quotients, and beside one exactly the groups of other nodes within the
  limits), `CorridorsAreClear` and `SearchReturnsBest`. The first goes check by check: a least faulty
  element is none exactly when no element is faulty (`NoErrorOf`), and what all elements pass is then
  shown to be the quotient, both ways (`AgreeingIsQuotient`, `QuotientAgrees`). The second has the
  inductive invariant `IInv`: drawings are of the graph of the call and have numbers for coordinates
  (`DrawingsAreOfCall`), what was tried and what may still be tried are paid for (`PlannedWork`), a
  reserved attempt is left for each position in work (`AttemptsLast`, without which the counter could
  pass zero), and the best so far is the earliest of the best (`BestSoFar`). Its lemmas say that the
  list of positions is no longer than planned (`PositionsAreFew`, `PreferredAreAsFew`), for removing
  repetitions and truncating never lengthen a list, that the quotient of budget and work leaves room for
  the reserve (`PlanIsWithinBudget`), and that scores are totally ordered (`ScoresAreOrdered`).
  `CorridorsAreClear` moves what carries others: the frames of open groups and the nodes in none
  (`MoveCarries`). Whatever moves is beyond what stays, in the direction of the move or beside it, so
  that rectangles apart remain apart (`StillApart`, `MovedIsTidy`). Beyond means for the horizontal
  corridor at the right of the cut (`CutParts`), for the vertical one in the slab and not above the
  floor (`SlabParts`), and the latter needs the slab to be closed: every interval it touches is in it
  (`SlabHolds`), frames as well as nodes. A node at the place of the members lay beside the anchor,
  which the horizontal corridor rules out (`WidenKeeps`), above it, where it overlapped before, or below
  it, whence it sinks below the members (`DeltaClears`, `DeepenMakesRoom`). The inductive invariant
  `CorridorsAreOfCall` says that what is drawn is the call's drawing after one or both corridors, as
  opened and only where they can be. `CallsAssumption`: the two graphs have their edges between their
  own nodes, coordinates are numbers, nodes have a size and lie within the borders of their drawing, the
  members have a size, and a candidate costs at least 1; `SettingsAssumption`: the gap, the budgets and
  the radii are natural numbers.
- `Groups_proofs`, then about `BundleApplication`: `BundlesTypeCorrect`, `SegmentsAreCounted`
  (`SegmentsCounted`) and `LanesAreApart` (`LanesApart`), for any jobs. `Counted`: between two bundles
  the count is that of the routes; while one is under way, `count` without what its wires had `before`
  is what the other wires have, in the routes as they are and in those kept to go back to, so that
  accepting, restoring and sharing all add up. It rests on sums over finite sets coming out the same in
  whichever order they are taken (`SumOfParts`, `SumOfEqual`). `Parted`: whatever is tried keeps off
  what is taken, and every place given to a preserved bundle or drawn before is taken; a bundle is in
  the order or among the drawn ones, once. Both need `BundlesTyped`, whose hard part is that what
  `plan_interior_collectors` plans are numbers or nothing (`PlanIsOfNumbers`): places are greatest or
  least elements, of sets that have one because only bundles of several members are planned
  (`WideHasMembers`, `DivergenceIsNumber`) and the inputs and outputs settled together are never none
  (`SettledIsPlacing`). The joining of routes, the corridors and the separation of places are folds;
  each is shown to be the last of its stages, one for each element (`JoinedInSteps`,
  `OffsetsAreNumbers`, `SeparatedAreNumbers`). `JobsAssumption`: a job has finitely many wires, routes
  with at least one point, bundles in the order of their ids whose members are different wires with
  routes, and what is given belongs to its bundles.

Only model-checked: the liveness property `Settles`, for liveness and ENABLED are beyond TLAPS;
`TapsMeetRoutes` of `BundleApplication`; and all of `ChannelRoutes` and `RouteInspection`. Of
`TapsMeetRoutes`, the hard case is a route that the members of an output share: it must begin at the tap
of each of them on an input drawn before. `ClearOfPrior` says so of a route with two different points,
whose first leg touches the collector where it begins, but a route that stands still touches nothing.
That no route shrinks to a point holds because routes run from port to port and do not turn back on
themselves, which every splice and every join has to keep; that geometry is not proved.
`RouteInspection` and `RouteSegments` build on folds and recursive functions over data, whose values for
every input need induction over data; the geometry of `ChannelRoutes` needs orders and extrema over
lists of the same kind.

## 5. Not modelled, and why

Coordinates are integers in every model. This hides rounding: the tolerance of 1e-7 for comparing points
is equality, except for the smallest step of a route, and `clamp` at `routing.rs:10635`, which panics if rounding leaves a widened gap narrower than
two stubs, cannot fail in the models. Of routing, the search for negotiated crossing paths, staircase
alignment, the pitch families and the measure of dogleg congestion are free choices of what they may
change; of placement, the alignment error and the normalisation are left out. Group collapse and the
composition of one expansion candidate are planned. The wasm binding, the evaluation crate and the binding
of the review page convert and call. The hash in the location of the page is one that the page has written:
`decodeURIComponent` (`main.ts:210`) of a malformed one would throw after the dataset has been replaced. `canvasView.ts`, `graph.ts` and `layoutControls.ts` draw and format.
Each has its entry in `PROJECT.json` with its reason.

## 6. Disagreements found

Each is a run that TLC must find violated.

- `selection_bundles` (`NeverWeakened`): with a positive wire spacing, `refine_selected_layout` hands back
  the raw layout; it can win for having fewer bends and is returned without its boundary bundles.
- `selection_budget` (`AreaBudgetKept`): the demand-aware refinement accepts 1.85 times the area whatever
  `max_quality_area_factor` says.
- `expansion_blame` (`BlamesTheCaller`): with nothing to the right of the anchor, the horizontal
  corridor moves the ends of the anchor's own routes; the contract is then checked again and the error
  says that the caller's layout does not fit the graph, although it did.
- `tracks` (`TracksDescribeSpacing`): the tracks of the ports are built for compact spacing and handed on with
  whichever spacing wins; an assertion says they describe the spacing of the routes. In a gap that was
  widened they do not, and two nets are drawn on one line.

Some observations are no runs, for no line says what should happen, or the difference has no effect on what is
modelled: an interior collector with coincident taps can make the final verification refuse a drawing whose
local collector was sound (`boundary_bundles.rs:2068`); a work limit in a later candidate of an expansion
ends the call although an earlier one was admitted (`incremental.rs:975`; `docs/ARCHITECTURE.md` lines 59-60
keep the candidate without reflow available when the reflow is over budget, which can be read as being about
its planning only); `!seenNodes.add(id)` of `dataset.ts:69` never rejects, for `Set.add` returns the set; a node
gap needed by the envelope of a bundle is overwritten by that of an escape (`placement.rs:253`); a group whose
members are all connected is left where it stands, wherever that is (`groups.rs:160`); a wire that avoids a
tiny step goes on a stub lower (`routing.rs:10584`) without a look at the ports that leave there. The last
three are modelled as written.
