------------------------- MODULE BundleApplication -------------------------
(***************************************************************************)
(* The boundary bundles of a graph are drawn over its routes, one after    *)
(* the other (boundary_bundles.rs, apply_bundle_geometry).  Each gets the  *)
(* interior collector planned for it if that is clean, else a local one,   *)
(* which may be promoted to an interior one after all; then members with   *)
(* the same far end may share one route.  What is tried and dropped is     *)
(* taken back.  At the end everything is verified.                         *)
(*                                                                         *)
(* Whether nodes are in the way, and whether a work limit is met, are free *)
(* choices; contacts of bundles with routes and bundles are computed.      *)
(***************************************************************************)
EXTENDS CollectorPlanning

CONSTANT Jobs   \* what may be asked for: graph, routes, entry, spacing, bundles to preserve

(* Bundles in the order of their ids, with members that have routes, one   *)
(* wire end each, and points for routes, ports and given collectors.       *)
ASSUME JobsAssumption ==
  \A j \in Jobs :
    LET g == j.graph
    IN  /\ IsFiniteSet(DOMAIN j.routes)
        /\ DOMAIN j.routes \subseteq Int
        /\ j.routes \in [DOMAIN j.routes -> Seq(Int \X Int)]
        /\ \A e \in DOMAIN j.routes : Len(j.routes[e]) >= 1
        /\ Len(g.bundles) \in Nat /\ DOMAIN g.bundles = 1 .. Len(g.bundles)
        /\ \A i, k \in DOMAIN g.bundles : i < k => g.bundles[i].id < g.bundles[k].id
        /\ \A i \in DOMAIN g.bundles :
             LET b == g.bundles[i]
             IN  /\ b.id \in Int /\ b.port \in Int /\ b.role \in Roles /\ At(g, b) \in Int \X Int
                 /\ b.nodeWidth \in Int
                 /\ Len(b.members) \in Nat /\ DOMAIN b.members = 1 .. Len(b.members)
                 /\ \A k \in DOMAIN b.members : b.members[k].edge \in DOMAIN j.routes
                 /\ \A k, l \in DOMAIN b.members : b.members[k].edge = b.members[l].edge => k = l
        /\ DOMAIN j.given \subseteq DOMAIN g.bundles

VARIABLES
  job,
  step,
  plan,          \* interior_collectors
  order,         \* bundles still to be drawn
  routes,
  drawn,         \* geometry of the bundles drawn so far
  prior,         \* those bundles, in that order
  taken,         \* used_input_collectors and used_output_collectors
  count,         \* route_segments
  before,        \* previous_member_segments
  saved,         \* routes to go back to
  promotions     \* promoted_collectors left to try

drawing == <<job, plan, order, routes, drawn, prior, taken, count, before, saved, promotions>>

bundleVars == <<drawing, step>>

-----------------------------------------------------------------------------
InteriorAllowed(c) == c.spacing = 0 /\ Len(c.graph.bundles) <= MaxCollectorBundles

\* Lines may cross once drawings are final: in the refinement, or around preserved bundles.
Crossings(c) == c.entry = "refine" \/ c.preserved # {}

ProcessedBefore(g, i, j) ==
  LET rank(k) == IF g.bundles[k].role = "input" THEN 0 ELSE 1
      b == g.bundles[i]
      c == g.bundles[j]
  IN  \/ rank(i) < rank(j)
      \/ rank(i) = rank(j) /\ (b.port < c.port \/ (b.port = c.port /\ b.id < c.id))

ProcessingOrder(g) ==
  CHOOSE listing \in [DOMAIN g.bundles -> DOMAIN g.bundles] :
    \A i, j \in DOMAIN listing : i < j => ProcessedBefore(g, listing[i], listing[j])

\* Mutant: only what has been drawn takes a lane.
TakenByNone(c) == [r \in Roles |-> {}]

\* Collectors of preserved bundles are taken before any other is placed.
TakenByPreserved(c) ==
  [r \in Roles |->
     IF InteriorAllowed(c)
     THEN {c.given[i].x : i \in {j \in DOMAIN c.given : c.graph.bundles[j].role = r}}
     ELSE {}]

SumOf(edges, rs) == MapThenSumSet(LAMBDA e : SegmentCount(rs[e]), edges)

\* A bundle that is to be preserved has to be there.
Preservable(c) == c.preserved = DOMAIN c.given

BundlesInit ==
  /\ job \in Jobs
  /\ step = IF Preservable(job) THEN "next" ELSE "failed"
  /\ plan = IF InteriorAllowed(job)
            THEN PlanInteriorCollectors(job.graph, job.routes, Crossings(job))
            ELSE [i \in DOMAIN job.graph.bundles |-> Nothing]
  /\ order = ProcessingOrder(job.graph)
  /\ routes = job.routes
  /\ drawn = [i \in DOMAIN job.graph.bundles |-> Nothing]
  /\ prior = <<>>
  /\ taken = TakenByPreserved(job)
  /\ count = SumOf(DOMAIN job.routes, job.routes)
  /\ before = 0
  /\ saved = job.routes
  /\ promotions = {}

-----------------------------------------------------------------------------
(* The bundle under way.                                                   *)

Graph == job.graph
Current == Head(order)
Bundle == Graph.bundles[Current]
Geometry == drawn[Current]

Separated(xs) == {x \in xs : InteriorAllowed(job) => LaneSeparated(x, taken[Bundle.role])}

PlannedX == IF plan[Current] # Nothing /\ plan[Current] \in Separated({plan[Current]})
            THEN plan[Current] ELSE Nothing

Local(d) == SpineLength(Graph, Bundle, d) <= RailDepth

Draw(d, rs) == /\ drawn' = [drawn EXCEPT ![Current] = d]
               /\ routes' = rs

Abandon == step' = "failed" /\ UNCHANGED drawing

\* partial_geometry_is_clean, as far as it is about contacts
CleanSoFar(d, rs) ==
  /\ \A e \in DOMAIN rs : ~ RouteContact(Graph, Bundle, d, e, rs[e], Crossings(job), job.spacing)
  /\ \A p \in ToSet(prior) :
       /\ \A e \in MemberEdges(Bundle) :
            ~ RouteContact(Graph, Graph.bundles[p], drawn[p], e, rs[e], Crossings(job), job.spacing)
       /\ ~ BundleContact(Graph, Bundle, d, Graph.bundles[p], drawn[p], Crossings(job), job.spacing)

TakePreserved ==
  /\ step = "next" /\ order # <<>> /\ Current \in job.preserved
  /\ drawn' = [drawn EXCEPT ![Current] = job.given[Current]]
  /\ prior' = Append(prior, Current)
  /\ order' = Tail(order)
  /\ UNCHANGED <<job, step, plan, routes, taken, count, before, saved, promotions>>

DrawBundle ==
  LET d == BuildGeometry(Graph, Bundle, routes, PlannedX)
  IN  /\ step = "next" /\ order # <<>> /\ Current \notin job.preserved
      /\ IF Unled(Graph, Current, d, routes) # {} THEN Abandon
         ELSE /\ Draw(d, RewriteMemberRoutes(Graph, Current, d, routes))
              /\ saved' = routes
              /\ before' = SumOf(MemberEdges(Bundle), routes)
              /\ step' = IF PlannedX # Nothing THEN "check" ELSE "settle"
              /\ UNCHANGED <<job, plan, order, prior, taken, count, promotions>>

KeepPlanned ==
  /\ step = "check" /\ CleanSoFar(Geometry, routes)
  /\ step' = "settle"
  /\ UNCHANGED drawing

\* The planned collector is not clean: from the routes as they were, a local one.
FallBack ==
  LET d == BuildGeometry(Graph, Bundle, saved, Nothing)
  IN  /\ step = "check"
      /\ IF Unled(Graph, Current, d, saved) # {} THEN Abandon
         ELSE /\ Draw(d, RewriteMemberRoutes(Graph, Current, d, saved))
              /\ step' = "settle"
              /\ UNCHANGED <<job, plan, order, prior, taken, count, before, saved, promotions>>

\* A work limit while the planned collector is checked ends the call.
CheckLimit == step = "check" /\ Abandon

FindPromotions ==
  /\ step = "settle"
  /\ promotions' = IF InteriorAllowed(job) /\ Local(Geometry)
                   THEN Separated(PromotionCandidates(Graph, routes, Current)) ELSE {}
  /\ saved' = routes
  /\ step' = IF promotions' = {} THEN "share" ELSE "promote"
  /\ UNCHANGED <<job, plan, order, routes, drawn, prior, taken, count, before>>

-----------------------------------------------------------------------------
(* Promotion: interior collectors are tried from the routes of the local   *)
(* one, which stays unless one of them is clean.                           *)

FallbackGeometry == LocalGeometry(Graph, Bundle)

Tried == Deepest(Bundle.role, promotions)

Promoted == BuildGeometry(Graph, Bundle, saved, Tried)

\* What the drawing is left with when a candidate does not work out.
Attempted ==
  IF Local(Promoted) THEN Draw(FallbackGeometry, saved)
  ELSE IF Unled(Graph, Current, Promoted, saved) # {}
  THEN Draw(FallbackGeometry, RewriteMemberRoutes(Graph, Current, Promoted, saved))
  ELSE Draw(Promoted, RewriteMemberRoutes(Graph, Current, Promoted, saved))

Restore == Draw(FallbackGeometry, saved)

\* A candidate does not work out; after the last one all is as it was.
RejectPromotion ==
  /\ step = "promote" /\ promotions # {}
  /\ promotions' = promotions \ {Tried}
  /\ Attempted
  /\ UNCHANGED <<job, step, plan, order, prior, taken, count, before, saved>>

AcceptPromotion ==
  LET rs == RewriteMemberRoutes(Graph, Current, Promoted, saved)
  IN  /\ step = "promote" /\ promotions # {}
      /\ ~ Local(Promoted) /\ Unled(Graph, Current, Promoted, saved) = {}
      /\ CleanSoFar(Promoted, rs)
      /\ Draw(Promoted, rs)
      /\ step' = "share" /\ promotions' = {}
      /\ UNCHANGED <<job, plan, order, prior, taken, count, before, saved>>

\* No candidate is left, or there is no work left to try one.
EndPromotions ==
  /\ step = "promote"
  /\ Restore
  /\ step' = "share" /\ promotions' = {}
  /\ UNCHANGED <<job, plan, order, prior, taken, count, before, saved>>

\* Only the limit on segments ends the call.
PromotionLimit == step = "promote" /\ promotions # {} /\ Abandon

-----------------------------------------------------------------------------
(* same_endpoint_shared_route_candidate: members with the same far end     *)
(* take the route of the one tapped nearest to the spine.                  *)

Representative ==
  LET off(e) == LET y == Geometry.taps[e][2] - At(Graph, Bundle)[2] IN IF y < 0 THEN -y ELSE y
  IN  CHOOSE e \in MemberEdges(Bundle) :
        \A f \in MemberEdges(Bundle) : off(e) < off(f) \/ (off(e) = off(f) /\ e <= f)

AlreadyShared ==
  \A e, f \in MemberEdges(Bundle) : routes[e] = routes[f] /\ Geometry.taps[e] = Geometry.taps[f]

\* Edges that may touch the members: at a port, or in their net if they have one.
Related(e) ==
  LET first == Graph.edges[Bundle.members[1].edge]
  IN  \/ {first.source, first.target} \cap {Graph.edges[e].source, Graph.edges[e].target} # {}
      \/ \A f \in MemberEdges(Bundle) : Graph.edges[f].net = Graph.edges[e].net

ClearOfRoutes(route) ==
  \A e \in DOMAIN routes \ MemberEdges(Bundle) :
    Related(e) \/ \A s \in Segments(route), r \in Segments(routes[e]) : ~ RoutesTouch(s, r)

\* Mutant: the shared route has to suit the edge it is taken from.
ClearOfPriorForOne(route) ==
  \A p \in ToSet(prior) :
    \A bus \in SegmentsOf(Graph, Graph.bundles[p], drawn[p]), s \in Segments(route) :
      ~ DisallowedContact(bus, s, TapOf(drawn[p], Representative), FALSE)

\* The shared route has to suit every member where it meets an earlier bundle.
ClearOfPrior(route) ==
  \A p \in ToSet(prior) :
    \A bus \in SegmentsOf(Graph, Graph.bundles[p], drawn[p]), s \in Segments(route),
       e \in MemberEdges(Bundle) :
      /\ DisallowedContact(bus, s, Nothing, FALSE)
      => ~ DisallowedContact(bus, s, TapOf(drawn[p], e), FALSE)

\* Mutant: what is replaced is what the routes were before the last try.
CountWithSaved(segments) == count - SumOf(MemberEdges(Bundle), saved) + segments

CountWith(segments) == count - before + segments

SharedSegments == SegmentCount(routes[Representative]) * Len(Bundle.members)

Shareable ==
  LET route == routes[Representative]
  IN  /\ MaySharePlaces(Graph, job.spacing) /\ Bundle.width > 1
      /\ ~ AlreadyShared
      /\ ShareOpposite(Graph, Bundle)
      /\ Geometry.taps[Representative][1] = Geometry.x
      /\ ClearOfRoutes(route) /\ ClearOfPrior(route)
      /\ SharedSegments <= SumOf(MemberEdges(Bundle), routes)
      /\ CountWith(SharedSegments) <= MaxSegments

SharedGeometry ==
  Extent(Graph, Bundle, Geometry.x,
         [e \in MemberEdges(Bundle) |-> Geometry.taps[Representative]])

\* The bundle is done: its collector is taken and its segments are counted.
Close(d, rs, segments) ==
  /\ Draw(d, rs)
  /\ count' = segments
  /\ taken' = IF InteriorAllowed(job) THEN [taken EXCEPT ![Bundle.role] = @ \cup {d.x}] ELSE taken
  /\ prior' = Append(prior, Current)
  /\ order' = Tail(order)
  /\ step' = "next"
  /\ UNCHANGED <<job, plan, before, saved, promotions>>

ShareRoute ==
  LET route == routes[Representative]
  IN  /\ step = "share" /\ Shareable
      /\ Close(SharedGeometry,
               [e \in DOMAIN routes |-> IF e \in MemberEdges(Bundle) THEN route ELSE routes[e]],
               CountWith(SharedSegments))

\* There is nothing to share, or no work left to find out.
KeepRoutes ==
  /\ step = "share"
  /\ Close(Geometry, routes, CountWith(SumOf(MemberEdges(Bundle), routes)))

-----------------------------------------------------------------------------
CleanTogether ==
  LET bundles == DOMAIN Graph.bundles
  IN  /\ \A i \in bundles, e \in DOMAIN routes :
           ~ RouteContact(Graph, Graph.bundles[i], drawn[i], e, routes[e], Crossings(job), job.spacing)
      /\ \A i, j \in bundles :
           i # j => ~ BundleContact(Graph, Graph.bundles[i], drawn[i], Graph.bundles[j], drawn[j],
                                   Crossings(job), job.spacing)

Sound(i) == SoundStructure(Graph, Graph.bundles[i], drawn[i], routes, job.spacing)

Finish == /\ step = "next" /\ order = <<>>

Verify ==
  /\ Finish
  /\ (\A i \in DOMAIN Graph.bundles : Sound(i)) /\ CleanTogether
  /\ step' = "returned"
  /\ UNCHANGED drawing

\* Something touches, a node is in the way, or the verification meets its limit.
Refuse == Finish /\ Abandon

BundlesNext == \/ TakePreserved \/ DrawBundle \/ KeepPlanned \/ FallBack \/ CheckLimit
        \/ FindPromotions \/ RejectPromotion \/ AcceptPromotion \/ EndPromotions \/ PromotionLimit
        \/ ShareRoute \/ KeepRoutes \/ Verify \/ Refuse

BundlesSpec == BundlesInit /\ [][BundlesNext]_bundleVars
-----------------------------------------------------------------------------
(* Properties.                                                             *)

\* The running count of segments, which the limit on shared routes goes by, is what the routes
\* have, after plans that were dropped, promotions that were taken back and routes that were
\* shared (the debug_assert_eq of apply_bundle_geometry).
SegmentsCounted ==
  step = "next" => count = SumOf(DOMAIN routes, routes)

\* Whatever is drawn later, the route of a member still ends at the tap of its edge on every
\* collector drawn here, and the collector still reaches exactly from the spine to the taps.
TapsMeetRoutes ==
  step = "next" =>
    \A i \in ToSet(prior) \ job.preserved :
      LET b == Graph.bundles[i]
      IN  /\ \A e \in MemberEdges(b) : RouteEnd(routes[e], b.role) = drawn[i].taps[e]
          /\ Extent(Graph, b, drawn[i].x, drawn[i].taps) = drawn[i]

\* An interior collector stands a pitch off every collector of its role that was drawn before
\* it, and off every preserved one, drawn before it or not.
LanesApart ==
  \A n \in DOMAIN prior :
    LET i == prior[n]
        b == Graph.bundles[i]
        others == {j \in DOMAIN Graph.bundles \ {i} :
                     Graph.bundles[j].role = b.role
                     /\ (j \in DOMAIN job.given \/ \E k \in 1 .. n - 1 : prior[k] = j)}
    IN  i \notin job.preserved /\ Interior(Graph, b, drawn[i]) =>
          LaneSeparated(drawn[i].x, {IF j \in DOMAIN job.given THEN job.given[j].x
                                                               ELSE drawn[j].x : j \in others})
=============================================================================
