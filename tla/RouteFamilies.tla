--------------------------- MODULE RouteFamilies ---------------------------
(* One call of the router for one placement (routing.rs,                    *)
(* route_planned_candidates_with_horizontal_overrides): which drawings of   *)
(* the wires are made, which of them becomes the primary, which are offered *)
(* as repair or alternatives, and what is reused between them: endpoint     *)
(* tracks, crossing paths and crossing profiles.                            *)
(*                                                                          *)
(* A drawing is known by what it was made from. What the geometry of the    *)
(* graph decides (does a tag of the drawing cost crossings, do the tracks   *)
(* depend on the lanes, is there a net to repair) is the `world`, chosen    *)
(* once; everything after it is the code's control, which is deterministic. *)
EXTENDS RouteSegments, TLC

CONSTANTS Routings,   \* the calls: records of the flags of the call
          Worlds      \* the placements the calls are made for

(* Without outer lanes and with as many bends, another spacing keeps the    *)
(* order of the tracks and with it the crossings: what the code relies on   *)
(* when it takes the crossings over (spacing_score_reuse_is_eligible).      *)
SpacingKeepsCrossings(w) ==
    w.outer = "none" /\ w.sameBends =>
        \A f \in {"compact", "adaptive", "expanded"} : w.effect[f] \notin {"fewer", "more", "bent"}

LaneOrders == {"global", "preserved", "refined"}

ASSUME WorldsAssumption ==
    \A w \in Worlds : w.orders \subseteq LaneOrders /\ SpacingKeepsCrossings(w)

VARIABLES pc, routing, world,
          pass,      \* "legacy", without straight runs, or "main"
          drawing,   \* the drawing in work, with what is known of it
          caller,    \* for whom the family of the drawing is made
          lane,      \* the drawing all alternatives of the pass start from
          todo,      \* the orders of the gap lanes still to be drawn
          offers,    \* the alternatives of the pass so far
          stable,    \* the finished family of the stable channels
          result,
          legacy,    \* what the first of two passes came to
          drawn      \* every plan drawn so far (observed only)

familiesVars == <<pc, routing, world, pass, drawing, caller, lane, todo, offers, stable, result, legacy, drawn>>

(* Node counts in the classes the limits tell apart: 1 is at most 256       *)
(* nodes, 2 and 3 at most 400 (3 is 400 itself), 4 at most 500, 5 at least  *)
(* 1000 and at most 2000, 6 more.                                           *)
MaxStraightRunNodes == 1
MaxExpandedNodes == 3
MinNegotiatedFallback == 3
MaxNegotiatedFallback == 4
MinFanoutNodes == 5
MaxRepairNodes == 5
MaxBatchedRepairNets == 2
MaxDeepRepairNets == 4

---------------------------------------------------------------------------
(* Drawings                                                                 *)

\* The outer lanes of the wires that cannot run through the layers.
StableOuter == [channels |-> "stable", coherent |-> FALSE, resided |-> FALSE]
ChannelsMatch(a, b) == a.channels = b.channels \/ world.fan = "same"

(* Endpoint tracks depend on the lanes, the outer channels and the spacing; *)
(* the world says on which of them their value really depends, so that two  *)
(* track sets are equal exactly when the code finds them equal.             *)
BuildEndpointTracks(lanes, outer, spacing) ==
    [lanes    |-> IF "lanes" \in world.sensitive THEN lanes ELSE None,
     channels |-> IF "channels" \in world.sensitive /\ world.fan # "same"
                  THEN outer.channels ELSE None,
     spacing  |-> IF "spacing" \in world.sensitive THEN spacing ELSE None]

CrossingPaths(tracks, straight) ==
    [tracks |-> tracks, straight |-> straight, shape |-> "found"]

Plan(lanes, tracks, paths, outer, spacing) ==
    [lanes |-> lanes, tracks |-> tracks, paths |-> paths,
     outer |-> outer, spacing |-> spacing]

\* What distinguishes a drawing from the plainest one.
Features(plan) ==
    {plan.spacing, plan.lanes.order, plan.lanes.moved, plan.paths.shape,
     IF plan.paths.straight THEN "straight" ELSE "found",
     IF plan.outer.coherent THEN "coherent" ELSE "found",
     IF plan.outer.resided THEN "resided" ELSE "found",
     IF plan.outer.channels = "fanned" /\ world.fan # "same"
     THEN "fanned" ELSE "found"}

(* emit_routes: the same plan gives the same routes, and features without   *)
(* an effect on the geometry (inert ones) leave no trace in them.           *)
EmitRoutes(plan) ==
    [features |-> {f \in Features(plan) : world.effect[f] # "inert"},
     tracks   |-> plan.tracks,
     through  |-> plan.paths.tracks]

Count(routes, effect) ==
    Cardinality({f \in routes.features : world.effect[f] = effect})

\* route_quality_for_plan: the crossings, bends and length of the routes themselves.
RouteQualityForPlan(routes) ==
    [crossings |-> 5 + Count(routes, "more") - Count(routes, "fewer"),
     bends     |-> 5 + Count(routes, "bent"),
     length    |-> 20 + Count(routes, "longer") - Count(routes, "shorter")]

\* route_quality_cmp as a strict order: crossings, then bends, then length.
Shorter(a, b) ==
    \/ a.crossings < b.crossings
    \/ a.crossings = b.crossings /\ a.bends < b.bends
    \/ a.crossings = b.crossings /\ a.bends = b.bends /\ a.length < b.length

Offer(routes) == [quality |-> RouteQualityForPlan(routes), routes |-> routes]

\* push_distinct_route_candidate and its repeated use.
PushDistinct(all, offer) ==
    IF \E o \in all : o.routes = offer.routes THEN all ELSE all \cup {offer}

PushAll(all, more) ==
    all \cup {o \in more : \A x \in all : x.routes # o.routes}

---------------------------------------------------------------------------
(* Budgets                                                                  *)

\* route_family_candidate_shape_within_budget, and the same of drawn routes.
ShapeWithinBudget == routing.nodes <= MaxRepairNodes /\ world.shape
RoutesWithinBudget == routing.nodes <= MaxRepairNodes /\ ~world.over

\* crossing_repair_within_budget: also the lane memberships and path states.
RepairWithinBudget == RoutesWithinBudget /\ world.repairable

Adaptive == routing.adaptive /\ ShapeWithinBudget
SparseGlobal == routing.global /\ ShapeWithinBudget

StraightRunRoutingIsEligible == routing.adaptive /\ routing.nodes <= MaxStraightRunNodes

ExpandedGapSpacingEnabled ==
    /\ Adaptive
    /\ world.outer = "none"
    /\ \/ routing.nodes <= MaxExpandedNodes
       \/ routing.deeper /\ routing.nodes <= MaxRepairNodes

---------------------------------------------------------------------------
(* Crossing profiles: a set of routes with the quality measured on it       *)

Measured(routes) == [routes |-> routes, quality |-> RouteQualityForPlan(routes)]

\* Mutant: any retained profile will do.
ApplicableToAny(profile, routes) == profile # None

\* retained_crossing_profile_is_applicable: only for the very same routes.
Applicable(profile, routes) == profile # None /\ profile.routes = routes

\* retained_spacing_route_profile.
RetainedSpacingProfile(profile, routes) ==
    IF Applicable(profile, routes) THEN profile ELSE Measured(routes)

(* spacing_score_reuse_is_eligible: on large route sets without outer lanes *)
(* and with the same bends, a sibling spacing keeps the crossings.          *)
SpacingScoreReuseIsEligible == world.many /\ world.outer = "none" /\ world.sameBends

\* reused_spacing_route_profile: crossings and bends of the base, its own length.
ReusedSpacingProfile(base, sibling) ==
    [routes  |-> sibling,
     quality |-> [base.quality EXCEPT !.length = RouteQualityForPlan(sibling).length]]

\* prepare_repair_crossing_profile.
PrepareRepairProfile(retained, routes, rebuild) ==
    IF Applicable(retained, routes) THEN retained
    ELSE IF rebuild THEN Measured(routes) ELSE None

\* Mutant: a looser drawing may cross more.
LooserIsBetter(base, expanded) == world.looser /\ 20 * expanded.length <= 21 * base.length

\* expanded_spacing_readability_is_better.
ExpandedReadabilityIsBetter(base, expanded) ==
    /\ world.looser
    /\ expanded.crossings = base.crossings
    /\ expanded.bends = base.bends
    /\ 20 * expanded.length <= 21 * base.length

---------------------------------------------------------------------------
(* Choosing the spacing of the gap tracks                                   *)

(* select_gap_spacing_candidate: the drawing in work against its sibling in *)
(* another spacing. A large drawing keeps the winner's profile; below the   *)
(* threshold both are measured unless the quality is known already.         *)
BaseProfile ==
    IF world.many THEN RetainedSpacingProfile(drawing.profile, drawing.routes)
    ELSE IF drawing.quality # None
    THEN [routes |-> drawing.routes, quality |-> drawing.quality]
    ELSE Measured(drawing.routes)

SiblingProfile(base, sibling) ==
    IF SpacingScoreReuseIsEligible THEN ReusedSpacingProfile(base, sibling) ELSE Measured(sibling)

WithSpacing(plan, accepted, winner, loser) ==
    [drawing EXCEPT !.plan    = IF accepted THEN plan ELSE @,
                    !.routes  = winner.routes,
                    !.quality = winner.quality,
                    !.profile = IF world.many THEN winner ELSE None,
                    !.offers  = IF routing.exact /\ loser.routes # winner.routes
                                THEN @ \cup {loser} ELSE @]

SelectGapSpacing(spacing) ==
    LET plan == [drawing.plan EXCEPT !.spacing = spacing]
    IN  \E base \in {BaseProfile} :
        \E other \in {SiblingProfile(base, EmitRoutes(plan))} :
        \E accepted \in {\/ Shorter(other.quality, base.quality)
                         \/ /\ spacing = "expanded"
                            /\ ExpandedReadabilityIsBetter(base.quality, other.quality)} :
        \E winner \in {IF accepted THEN other ELSE base},
           loser \in {IF accepted THEN base ELSE other} :
           /\ drawing' = WithSpacing(plan, accepted, winner, loser)
           /\ drawn' = drawn \cup {plan}

\* A drawing about which nothing is known yet.
Fresh(plan, match) ==
    [plan |-> plan, match |-> match, routes |-> EmitRoutes(plan), quality |-> None,
     profile |-> None, offers |-> {}, repair |-> {}, deeper |-> {},
     from |-> {}]

InitialLanes == [order |-> "initial", moved |-> "found"]

(* crossing_aware_gap_lanes: which orders of whole gaps are offered besides *)
(* the refined baseline (the world says which of them are worth it).        *)
LaneCandidates ==
    LET global  == SparseGlobal /\ (world.outer = "none" \/ routing.large)
        refined == global /\ routing.large /\ routing.refined
    IN  {c \in world.orders : IF c = "global" THEN global ELSE refined}

(* emit_routes_with_outer_lanes, first half: endpoint tracks for the        *)
(* preferred lanes, crossing paths from these tracks, lanes from these      *)
(* paths, and the tracks again if the lanes have changed.                   *)
EmitLanes(straight) ==
    LET first  == BuildEndpointTracks(InitialLanes, StableOuter, "compact")
        lanes  == IF world.reordered THEN [InitialLanes EXCEPT !.order = "found"]
                  ELSE InitialLanes
        tracks == IF lanes = InitialLanes THEN first
                  ELSE BuildEndpointTracks(lanes, StableOuter, "compact")
    IN  [plan  |-> Plan(lanes, tracks, CrossingPaths(first, straight), StableOuter, "compact"),
         match |-> tracks = first]

---------------------------------------------------------------------------
(* Negotiated corridors and repairs of nets that cross much                 *)

\* negotiated_corridor_quality_is_better.
NegotiatedQualityIsBetter(base, candidate) ==
    /\ candidate.crossings < base.crossings
    /\ candidate.bends <= base.bends
    /\ 20 * candidate.length <= 21 * base.length

(* negotiated_corridor_candidate: the crossing paths of the nets that cross *)
(* most, found again against the drawing. None or the plan drawn with them. *)
NegotiatedPlan(plan) == [plan EXCEPT !.paths.shape = "negotiated"]

NegotiatedIsOffered(plan, profile) ==
    /\ RoutesWithinBudget
    /\ world.negotiable
    /\ \/ routing.exact
       \/ NegotiatedQualityIsBetter(
             IF profile # None THEN profile.quality ELSE RouteQualityForPlan(EmitRoutes(plan)),
             RouteQualityForPlan(EmitRoutes(NegotiatedPlan(plan))))

\* repair_selection_adds_new_nets.
RepairSelectionAddsNewNets(maxNets, nets) ==
    maxNets <= MaxBatchedRepairNets \/ nets > MaxBatchedRepairNets

\* select_outer_side_repairs: needs outer lanes to move.
OuterSideRepairs == world.outer # "none" /\ world.resides

(* The plan of a repair: the hot nets moved to the outer edge of their      *)
(* gaps, outer nets to the other side, the tracks built for the result, and *)
(* the paths kept only if they were found for the very same tracks.         *)
RepairPlan(lanes, outer) ==
    LET tracks == BuildEndpointTracks(lanes, outer, drawing.plan.spacing)
        reuse  == drawing.match /\ tracks = drawing.plan.tracks
    IN  Plan(lanes, tracks,
             IF reuse THEN drawing.plan.paths ELSE CrossingPaths(tracks, TRUE),
             outer, drawing.plan.spacing)

HotNets(maxNets) == IF world.hot > maxNets THEN maxNets ELSE world.hot

(* repair_crossing_heavy_net, up to the drawing: the plans it draws, none   *)
(* or one, for at most maxNets hot nets.                                    *)
RepairPlans(maxNets) ==
    {RepairPlan(IF nets = 0 THEN drawing.plan.lanes
                ELSE [drawing.plan.lanes EXCEPT
                         !.moved = IF nets > MaxBatchedRepairNets THEN "deep" ELSE "moved"],
                [drawing.plan.outer EXCEPT !.resided = OuterSideRepairs]) :
        nets \in {n \in {HotNets(maxNets)} :
                     /\ RepairWithinBudget
                     /\ RepairSelectionAddsNewNets(maxNets, n)
                     /\ n > 0 \/ OuterSideRepairs
                     /\ world.shape
                     /\ n = 0 \/ world.movable}}

Offers(plans) == {Offer(EmitRoutes(p)) : p \in plans}

\* The quality a repair reports of the routes it started from.
RepairBaseline(profile) ==
    IF RepairWithinBudget /\ profile # None THEN profile.quality
    ELSE RouteQualityForPlan(drawing.routes)

---------------------------------------------------------------------------
(* Families: a primary drawing with its coherent, repaired and deeper kin   *)

(* The coherent drawing puts the wires of a feedback net on one side. Its   *)
(* channels are the old ones, so the endpoint tracks are taken over.        *)
CoherentPlan(plan) ==
    LET outer == [plan.outer EXCEPT !.coherent = TRUE]
    IN  [plan EXCEPT
            !.outer  = outer,
            !.tracks = IF ChannelsMatch(outer, plan.outer) THEN @
                       ELSE BuildEndpointTracks(plan.lanes, outer, plan.spacing)]

FeedbackWithinBudget == world.outer = "split" /\ RepairWithinBudget

WithFeedback(plan, better, winner, loser, profiled) ==
    [drawing EXCEPT !.plan    = IF better THEN plan ELSE @,
                    !.match   = @ /\ (~better \/ plan.tracks = drawing.plan.tracks),
                    !.routes  = winner.routes,
                    !.quality = winner.quality,
                    !.profile = IF profiled THEN winner ELSE @,
                    !.offers  = IF routing.exact /\ loser.routes # winner.routes
                                THEN @ \cup {loser} ELSE @]

(* The feedback stage: the coherent drawing replaces the routes when it is  *)
(* better; the one left behind is offered if admission is exact. `base` is  *)
(* the quality the routes are compared by.                                  *)
CoherentFeedback(base, profiled) ==
    \E plan \in {CoherentPlan(drawing.plan)} :
    \E candidate \in {Offer(EmitRoutes(plan))},
       old \in {[quality |-> base, routes |-> drawing.routes]} :
    \E better \in {Shorter(candidate.quality, base)} :
    \E winner \in {IF better THEN candidate ELSE old}, loser \in {IF better THEN old ELSE candidate} :
       /\ drawing' = WithFeedback(plan, better, winner, loser, profiled)
       /\ drawn' = drawn \cup {plan}

(* finish_route_family, feedback: against the family's own profile.         *)
FeedbackOfFamily ==
    /\ pc = "feedback"
    /\ caller # "primary"
    /\ IF FeedbackWithinBudget
       THEN CoherentFeedback(IF drawing.profile # None THEN drawing.profile.quality
                             ELSE RouteQualityForPlan(drawing.routes), TRUE)
       ELSE UNCHANGED <<drawing, drawn>>
    /\ pc' = "repair"
    /\ UNCHANGED <<routing, world, pass, caller, lane, todo, offers, stable, result, legacy>>

DeeperRepairWithinBudget(deeper) == routing.supplemental /\ deeper /\ RepairWithinBudget

\* Families in large gaps are made without a deeper repair.
Deeper == routing.deeper /\ caller # "sparse"

(* finish_route_family, repairs: of two nets, of four, and nothing          *)
(* negotiated.                                                              *)
RepairsOfFamily ==
    /\ pc = "repair"
    /\ caller # "primary"
    /\ \E profile \in {IF drawing.profile = None /\ DeeperRepairWithinBudget(Deeper)
                       THEN Measured(drawing.routes) ELSE drawing.profile},
          repair \in {IF routing.supplemental THEN RepairPlans(MaxBatchedRepairNets) ELSE {}},
          deep \in {IF DeeperRepairWithinBudget(Deeper) THEN RepairPlans(MaxDeepRepairNets) ELSE {}} :
          /\ drawing' = [drawing EXCEPT
                            !.quality = IF routing.supplemental THEN RepairBaseline(profile)
                                        ELSE IF profile # None THEN profile.quality
                                        ELSE RouteQualityForPlan(drawing.routes),
                            !.repair  = Offers(repair),
                            !.deeper  = Offers(deep) \ Offers(repair)]
          /\ drawn' = drawn \cup repair \cup deep
    /\ pc' = "finish"
    /\ UNCHANGED <<routing, world, pass, caller, lane, todo, offers, stable, result, legacy>>

\* A drawing as an offer.
Primary(d) == [quality |-> d.quality, routes |-> d.routes]
\* Mutant: the deeper repair is forgotten.
FamilyOffersShallow(d) == {[quality |-> d.quality, routes |-> d.routes]} \cup d.repair \cup d.offers

\* Everything a family has to offer.
FamilyOffers(d) == {Primary(d)} \cup d.repair \cup d.deeper \cup d.offers

---------------------------------------------------------------------------
(* The lanes and the alternatives that share the crossing paths             *)

FamiliesInit ==
    /\ routing \in Routings
    /\ world \in Worlds
    /\ pass = IF StraightRunRoutingIsEligible THEN "legacy" ELSE "main"
    /\ pc = "lanes"
    /\ caller = "none"
    /\ todo = {} /\ offers = {} /\ drawn = {}
    /\ drawing = None /\ lane = None /\ stable = None /\ result = None
    /\ legacy = {}

(* emit_routes_with_outer_lanes, to the compact drawing. *)
DrawLanes ==
    /\ pc = "lanes"
    /\ \E emitted \in {EmitLanes(pass = "main" /\ StraightRunRoutingIsEligible)} :
          /\ drawing' = Fresh(emitted.plan, emitted.match)
          /\ drawn' = drawn \cup {emitted.plan}
    /\ pc' = "adaptive"
    /\ caller' = "none"
    /\ UNCHANGED <<routing, world, pass, lane, todo, offers, stable, result, legacy>>

\* The spacings of the gap tracks are tried where some gap has two lanes.
TryAdaptive ==
    /\ pc = "adaptive"
    /\ IF Adaptive /\ world.wide THEN SelectGapSpacing("adaptive") ELSE UNCHANGED <<drawing, drawn>>
    /\ pc' = "expanded"
    /\ UNCHANGED <<routing, world, pass, caller, lane, todo, offers, stable, result, legacy>>

TryExpanded ==
    /\ pc = "expanded"
    /\ IF ExpandedGapSpacingEnabled /\ world.wide THEN SelectGapSpacing("expanded")
       ELSE UNCHANGED <<drawing, drawn>>
    /\ pc' = IF caller = "sparse" THEN "sparse" ELSE "staircase"
    /\ UNCHANGED <<routing, world, pass, caller, lane, todo, offers, stable, result, legacy>>

(* build_staircase_alignment_alternative: the crossing paths with their     *)
(* stair steps aligned, drawn with tracks built for the chosen spacing.     *)
StaircaseOffers(plan, base) ==
    {offer \in Offers({plan}) :
        \/ routing.exact
        \/ /\ offer.quality.crossings <= base.crossings
           /\ Shorter(offer.quality, base)}

StaircaseAlternative ==
    /\ pc = "staircase"
    /\ lane' = drawing
    /\ \E plan \in {[drawing.plan EXCEPT
                        !.paths.shape = "aligned",
                        !.tracks = BuildEndpointTracks(drawing.plan.lanes, StableOuter,
                                                       drawing.plan.spacing)]} :
          IF Adaptive /\ SparseGlobal /\ world.aligned
          THEN /\ offers' = drawing.offers \cup
                            StaircaseOffers(plan, IF drawing.quality # None THEN drawing.quality
                                                  ELSE RouteQualityForPlan(drawing.routes))
               /\ drawn' = drawn \cup {plan}
          ELSE offers' = drawing.offers /\ UNCHANGED drawn
    /\ todo' = LaneCandidates
    /\ pc' = "orders"
    /\ UNCHANGED <<routing, world, pass, drawing, caller, stable, result, legacy>>

(* build_sparse_alternative, first half: the same paths and outer lanes     *)
(* drawn with another order of the lanes of every gap, in every spacing.    *)
DrawSparseCandidate ==
    /\ pc = "orders"
    /\ todo # {}
    /\ \E order \in {CHOOSE c \in todo : TRUE} :
       \E lanes \in {[InitialLanes EXCEPT !.order = order]} :
       \E tracks \in {BuildEndpointTracks(lanes, StableOuter, "compact")} :
       \E plan \in {Plan(lanes, tracks, lane.plan.paths, StableOuter, "compact")} :
          /\ todo' = todo \ {order}
          /\ IF RoutesWithinBudget
             THEN /\ drawing' = Fresh(plan, lane.match /\ tracks = lane.plan.tracks)
                  /\ drawn' = drawn \cup {plan}
                  /\ pc' = "adaptive"
             ELSE UNCHANGED <<drawing, drawn, pc>>
    /\ caller' = "sparse"
    /\ UNCHANGED <<routing, world, pass, lane, offers, stable, result, legacy>>

(* build_sparse_alternative, second half: in a large gap the candidate is   *)
(* made a family of its own, otherwise it is offered as it is.              *)
FinishSparseCandidate ==
    /\ pc = "sparse"
    /\ IF world.huge
       THEN /\ drawing' = [drawing EXCEPT
                              !.profile = IF Applicable(@, drawing.routes) THEN @ ELSE None,
                              !.offers = {}]
            /\ offers' = offers \cup drawing.offers
            /\ pc' = "feedback"
       ELSE /\ offers' = offers \cup PushDistinct(drawing.offers,
                            [Primary(drawing) EXCEPT
                                !.quality = IF @ # None THEN @
                                            ELSE RouteQualityForPlan(drawing.routes)])
            /\ pc' = "orders"
            /\ UNCHANGED drawing
    /\ UNCHANGED <<routing, world, pass, caller, lane, todo, stable, result, legacy, drawn>>

(* The family of a sparse candidate offers its best member, or for exact    *)
(* admission all of them.                                                   *)
OfferSparseFamily ==
    /\ pc = "finish"
    /\ caller = "sparse"
    /\ \E repaired \in {{r \in drawing.repair : Shorter(r.quality, drawing.quality)}} :
          offers' = PushAll(offers, IF routing.exact THEN FamilyOffers(drawing)
                                    ELSE IF repaired # {} THEN repaired ELSE {Primary(drawing)})
    /\ pc' = "orders"
    /\ UNCHANGED <<routing, world, pass, drawing, caller, lane, todo, stable, result, legacy, drawn>>

---------------------------------------------------------------------------
(* The end of a pass for large fanouts                                      *)

FanoutWithinBudget ==
    /\ routing.supplemental
    /\ routing.nodes >= MinFanoutNodes
    /\ RoutesWithinBudget
    /\ world.fan # "none"

(* finish_fanout_route_families begins with the family of the stable        *)
(* channels, which is made whatever the comparison says.                    *)
FinishStableFamily ==
    /\ pc = "orders"
    /\ todo = {}
    /\ FanoutWithinBudget
    /\ drawing' = [lane EXCEPT !.profile = IF Applicable(@, lane.routes) THEN @
                                           ELSE Measured(lane.routes),
                               !.offers = {}]
    /\ caller' = "stable"
    /\ pc' = "feedback"
    /\ UNCHANGED <<routing, world, pass, lane, todo, offers, stable, result, legacy, drawn>>

(* The outer channels ordered for the fanouts, drawn on the same lanes and  *)
(* paths; the tracks are taken over if the channels come out the same.      *)
FannedPlan ==
    LET outer == [StableOuter EXCEPT !.channels = "fanned"]
    IN  [lane.plan EXCEPT
            !.outer  = outer,
            !.tracks = IF ChannelsMatch(outer, StableOuter) THEN @
                       ELSE BuildEndpointTracks(lane.plan.lanes, outer, lane.plan.spacing)]

(* The fanned drawing is made a family when it is better than the stable    *)
(* one; if not, it is an alternative for exact admission.                   *)
CompareFanned ==
    /\ pc = "finish"
    /\ caller = "stable"
    /\ stable' = drawing
    /\ \E plan \in {FannedPlan} :
       \E profile \in {Measured(EmitRoutes(plan))},
          base \in {RetainedSpacingProfile(lane.profile, lane.routes)} :
          /\ drawn' = drawn \cup {plan}
          /\ IF Shorter(profile.quality, base.quality)
             THEN /\ drawing' = [Fresh(plan, lane.match /\ plan.tracks = lane.plan.tracks) EXCEPT
                                    !.profile = profile]
                  /\ caller' = "fanned"
                  /\ pc' = "feedback"
                  /\ UNCHANGED offers
             ELSE /\ offers' = IF routing.exact /\ profile.routes # drawing.routes
                               THEN offers \cup {profile} ELSE offers
                  /\ pc' = "fanout"
                  /\ UNCHANGED <<drawing, caller>>
    /\ UNCHANGED <<routing, world, pass, lane, todo, result, legacy>>

FinishFannedFamily ==
    /\ pc = "finish"
    /\ caller = "fanned"
    /\ offers' = offers \cup FamilyOffers(stable)
    /\ pc' = "fanout"
    /\ UNCHANGED <<routing, world, pass, drawing, caller, lane, todo, stable, result, legacy, drawn>>

(* The selected family is returned with all the other offers, without       *)
(* repetitions.                                                             *)
FinishFanoutRouteFamilies ==
    /\ pc = "fanout"
    /\ result' = [primary |-> Primary(drawing), repair |-> drawing.repair,
                  alternatives |-> PushAll({}, offers \cup drawing.deeper \cup drawing.offers)]
    /\ pc' = "deliver"
    /\ UNCHANGED <<routing, world, pass, drawing, caller, lane, todo, offers, stable, legacy, drawn>>

---------------------------------------------------------------------------
(* The ordinary end of a pass                                               *)

StartPrimary ==
    /\ pc = "orders"
    /\ todo = {}
    /\ ~FanoutWithinBudget
    /\ caller' = "primary"
    /\ pc' = "coherent"
    /\ drawing' = [lane EXCEPT !.offers = {}]
    /\ UNCHANGED <<routing, world, pass, lane, todo, offers, stable, result, legacy, drawn>>

(* Feedback: the coherent drawing against the measured routes; the profile  *)
(* retained from the spacings is not touched.                               *)
CoherentPrimary ==
    /\ pc = "coherent"
    /\ IF FeedbackWithinBudget
       THEN CoherentFeedback(RouteQualityForPlan(drawing.routes), FALSE)
       ELSE UNCHANGED <<drawing, drawn>>
    /\ pc' = "repair"
    /\ UNCHANGED <<routing, world, pass, caller, lane, todo, offers, stable, result, legacy>>

RepairProfile ==
    IF routing.supplemental
    THEN PrepareRepairProfile(drawing.profile, drawing.routes,
                              DeeperRepairWithinBudget(routing.deeper))
    ELSE None

(* Repairs: of two nets, and of four where a third or fourth is hot.        *)
RepairsOfPrimary ==
    /\ pc = "repair"
    /\ caller = "primary"
    /\ \E profile \in {RepairProfile},
          repair \in {IF routing.supplemental THEN RepairPlans(MaxBatchedRepairNets) ELSE {}},
          deep \in {IF DeeperRepairWithinBudget(routing.deeper)
                    THEN RepairPlans(MaxDeepRepairNets) ELSE {}} :
          /\ drawing' = [drawing EXCEPT
                            !.profile = profile,
                            !.quality = IF routing.supplemental THEN RepairBaseline(profile) ELSE @,
                            !.repair  = Offers(repair),
                            !.deeper  = Offers(deep) \ Offers(repair),
                            !.from    = deep]
          /\ drawn' = drawn \cup repair \cup deep
    /\ pc' = "negotiate"
    /\ UNCHANGED <<routing, world, pass, caller, lane, todo, offers, stable, result, legacy>>

(* Negotiated corridors: from the deeper repair, measured anew, or else     *)
(* from the primary drawing with its profile.                               *)
Negotiates == ~routing.supplemental \/ routing.nodes >= MinNegotiatedFallback

NegotiatedFromRepair == {p \in drawing.from : Negotiates /\ NegotiatedIsOffered(p, None)}

NegotiatedFromPrimary ==
    {p \in {drawing.plan} : /\ NegotiatedFromRepair = {}
                            /\ routing.deeper
                            /\ Negotiates
                            /\ routing.nodes <= MaxNegotiatedFallback
                            /\ NegotiatedIsOffered(p, drawing.profile)}

Negotiate ==
    /\ pc = "negotiate"
    /\ \E plans \in {{NegotiatedPlan(p) : p \in NegotiatedFromRepair \cup NegotiatedFromPrimary}} :
          /\ result' = [primary |-> Primary(drawing), repair |-> drawing.repair,
                        alternatives |-> offers \cup drawing.offers \cup drawing.deeper
                                                \cup Offers(plans)]
          /\ drawn' = drawn \cup plans
    /\ pc' = "deliver"
    /\ UNCHANGED <<routing, world, pass, drawing, caller, lane, todo, offers, stable, legacy>>

---------------------------------------------------------------------------
(* The end of the call                                                      *)

\* The pass without straight runs is kept for comparison, then the main pass begins.
KeepLegacy ==
    /\ pc = "deliver"
    /\ pass = "legacy"
    /\ legacy' = {result}
    /\ pass' = "main"
    /\ pc' = "lanes"
    /\ offers' = {}
    /\ UNCHANGED <<routing, world, drawing, caller, lane, todo, stable, result, drawn>>

WithQuality(primary) ==
    IF primary.quality # None THEN primary
    ELSE [primary EXCEPT !.quality = RouteQualityForPlan(primary.routes)]

(* What the legacy pass made and the main pass has not selected becomes an  *)
(* alternative, and the primary has its quality.                            *)
Deliver ==
    /\ pc = "deliver"
    /\ pass = "main"
    /\ LET selected == {result.primary.routes} \cup {r.routes : r \in result.repair}
           old      == UNION {l.alternatives \cup {WithQuality(l.primary)} \cup l.repair : l \in legacy}
       IN  result' = [result EXCEPT
                         !.primary = WithQuality(@),
                         !.alternatives = PushAll(@, {o \in old : o.routes \notin selected})]
    /\ pc' = "done"
    /\ UNCHANGED <<routing, world, pass, drawing, caller, lane, todo, offers, stable, legacy, drawn>>

Done == pc = "done" /\ UNCHANGED familiesVars

FamiliesNext ==
    \/ DrawLanes \/ TryAdaptive \/ TryExpanded
    \/ StaircaseAlternative \/ DrawSparseCandidate \/ FinishSparseCandidate \/ OfferSparseFamily
    \/ FeedbackOfFamily \/ RepairsOfFamily
    \/ FinishStableFamily \/ CompareFanned \/ FinishFannedFamily \/ FinishFanoutRouteFamilies
    \/ StartPrimary \/ CoherentPrimary \/ RepairsOfPrimary \/ Negotiate
    \/ KeepLegacy \/ Deliver \/ Done

FamiliesSpec == FamiliesInit /\ [][FamiliesNext]_familiesVars

---------------------------------------------------------------------------
(* Properties                                                               *)

Offered == {result.primary} \cup result.repair \cup result.alternatives

(* Whatever is offered carries the quality of its own routes, although      *)
(* crossings are taken over between spacings and profiles between stages:   *)
(* the layout comparison trusts these numbers.                              *)
QualityIsOwn ==
    pc = "done" => \A o \in Offered : o.quality = RouteQualityForPlan(o.routes)

(* With a clearance or a spacing to keep, a drawing may be the only one     *)
(* that passes admission: then every drawing that was made is offered.      *)
ExactOffersAll ==
    pc = "done" /\ routing.exact =>
        \A plan \in drawn : \E o \in Offered : o.routes = EmitRoutes(plan)

(* A repair is drawn through crossing paths that were found for its own     *)
(* endpoint tracks, never through paths kept from other tracks.             *)
RepairsFitTheirTracks ==
    pc = "done" =>
        \A plan \in drawn :
            (plan.lanes.moved # "found" \/ plan.outer.resided) /\ plan.paths.shape = "found"
                => plan.paths.tracks = plan.tracks

(* The primary never has more crossings, nor with as many more bends, than  *)
(* the compact drawing of its own pass, and is longer by a twentieth at     *)
(* most when it has as many.                                                *)
PrimaryNeverWorse ==
    pc = "done" =>
        LET compact == RouteQualityForPlan(EmitRoutes(EmitLanes(StraightRunRoutingIsEligible).plan))
            primary == RouteQualityForPlan(result.primary.routes)
        IN  \/ primary.crossings < compact.crossings
            \/ /\ primary.crossings = compact.crossings
               /\ primary.bends < compact.bends
            \/ /\ primary.crossings = compact.crossings
               /\ primary.bends = compact.bends
               /\ 20 * primary.length <= 21 * compact.length

(* Without exact admission an aligned or a negotiated drawing is offered    *)
(* only when it beats the drawing it was made from.                         *)
ShapedDrawingsEarnTheirPlace ==
    pc = "done" /\ ~routing.exact =>
        \A o \in Offered :
            LET plain == [o.routes EXCEPT !.features = @ \ {"aligned", "negotiated"}]
            IN  o.routes # plain => Shorter(o.quality, RouteQualityForPlan(plain))

(* What is taken over from an earlier drawing, crossings between spacings,  *)
(* profiles between stages and paths between plans, is what would be found  *)
(* anew.                                                                    *)
ReuseIsSound == QualityIsOwn /\ RepairsFitTheirTracks

(* Every refinement of a drawing is offered for a gain, and the primary,    *)
(* after all of them, is never worse than the plain drawing.                *)
DrawingsEarnTheirPlace == PrimaryNeverWorse /\ ShapedDrawingsEarnTheirPlace
=============================================================================
