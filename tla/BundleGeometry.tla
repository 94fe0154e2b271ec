-------------------------- MODULE BundleGeometry --------------------------
(***************************************************************************)
(* How the members of a boundary bundle share a collector                  *)
(* (boundary_bundles.rs).  The spine of a bundle leaves its port at the    *)
(* height of the port and ends at x, where the collector crosses it from   *)
(* low to high; the route of a member begins (input) or ends (output) at   *)
(* its tap on the collector.  The collector is local, RailDepth off the    *)
(* port, or interior, at an x where every member runs level.               *)
(*                                                                         *)
(* Coordinates are integers.  A graph has bundles in the order of their    *)
(* ids, edges with two ports and a net, and ports with a position; the     *)
(* members of a bundle are in the order of their slots.                    *)
(***************************************************************************)
EXTENDS Integers, FiniteSets, SequencesExt

CONSTANTS
  Pitch,          \* the distance of lanes, even
  RailDepth,      \* boundary_bundle_rail_depth
  Reserve,        \* outward_obstacle_clearance_stub, kept at the far end
  MaxCollectorBundles,   \* MAX_INTERIOR_COLLECTOR_BUNDLES
  MaxPromotions,         \* MAX_INTERIOR_PROMOTION_CANDIDATES
  MaxSegments,           \* MAX_LAYOUT_ROUTE_CONTACT_SEGMENTS
  Nothing

ASSUME BundleAssumption ==
  /\ Pitch \in Nat \ {0} /\ Pitch % 2 = 0
  /\ RailDepth \in Nat /\ Reserve \in Nat

Roles == {"input", "output"}

\* Beyond every coordinate: the infinities of the code.
Far == 1000

-----------------------------------------------------------------------------
(* Bundles.                                                                *)

MembersOf(b) == ToSet(b.members)
MemberEdges(b) == {m.edge : m \in MembersOf(b)}
At(g, b) == g.ports[b.port]
Outward(b) == IF b.role = "input" THEN 1 ELSE -1

\* Edges with the same slots share a lane.
Lane(b, m) == Cardinality({n.slots : n \in {k \in MembersOf(b) : Min(k.slots) < Min(m.slots)}})
Lanes(b) == Cardinality({m.slots : m \in MembersOf(b)})

\* The depths of the bundles of a role do not overlap, whatever the widths of their nodes.
CorridorOffsets(g) ==
  LET Reserved(sofar, b) ==
        LET depth == b.nodeWidth + RailDepth
            furthest == sofar.furthest[b.role]
            offset == IF furthest = Nothing THEN 0 ELSE Max({furthest - depth, 0})
            last == depth + offset + Lanes(b) * Pitch
        IN  [furthest |-> [sofar.furthest EXCEPT
                             ![b.role] = IF @ = Nothing THEN last ELSE Max({@, last})],
             offsets |-> Append(sofar.offsets, offset)]
  IN  FoldLeft(Reserved, [furthest |-> [r \in Roles |-> Nothing], offsets |-> <<>>], g.bundles).offsets

\* Where the route of a member turns off to a local collector.
CorridorX(g, offsets, i, m) ==
  LET b == g.bundles[i]
  IN  At(g, b)[1] + Outward(b) * (RailDepth + offsets[i] + (Lane(b, m) + 1) * Pitch)

FallbackCorridors(g, offsets, role, edge) ==
  UNION {{CorridorX(g, offsets, i, m) : m \in {n \in MembersOf(g.bundles[i]) : n.edge = edge}} :
            i \in {j \in DOMAIN g.bundles : g.bundles[j].role = role}}

Opposite(g, b, edge) == IF b.role = "input" THEN g.edges[edge].target ELSE g.edges[edge].source

ShareOpposite(g, b) ==
  /\ Len(b.members) >= 2
  /\ \A e, f \in MemberEdges(b) : Opposite(g, b, e) = Opposite(g, b, f)

-----------------------------------------------------------------------------
(* Routes: points, joined by segments that are level or upright.           *)

Segment(route, i) == <<route[i], route[i + 1]>>
Segments(route) == {Segment(route, i) : i \in 1 .. Len(route) - 1}
SegmentCount(route) == Len(route) - 1

Level(s) == s[1][2] = s[2][2]
Low(s, k) == Min({s[1][k], s[2][k]})
High(s, k) == Max({s[1][k], s[2][k]})

PushPoint(points, point) ==
  LET n == Len(points)
  IN  IF n > 0 /\ points[n] = point THEN points
      ELSE IF n > 1 /\ \E k \in 1..2 : points[n - 1][k] = points[n][k] /\ points[n][k] = point[k]
      THEN [points EXCEPT ![n] = point]
      ELSE Append(points, point)

Joined(points) == FoldLeft(PushPoint, <<>>, points)

\* A level stretch of at least a pitch that can be tapped at x.
Trunk(s, role, x) ==
  /\ Level(s) /\ s[1][1] < s[2][1]
  /\ IF role = "input" THEN s[1][1] <= x /\ x <= s[2][1] - Pitch
                       ELSE s[1][1] + Pitch <= x /\ x <= s[2][1]

\* The segment nearest to the bundle, or 0.
Nearest(role, is) == IF is = {} THEN 0 ELSE IF role = "input" THEN Min(is) ELSE Max(is)

TrunkSegment(route, role, x) ==
  Nearest(role, {i \in 1 .. Len(route) - 1 : Trunk(Segment(route, i), role, x)})

MeetsUpright(s, x) == IF Level(s) THEN Low(s, 1) <= x /\ x <= High(s, 1) ELSE s[1][1] = x /\ s[2][1] = x

CorridorSegment(route, role, x) ==
  Nearest(role, {i \in 1 .. Len(route) - 1 : MeetsUpright(Segment(route, i), x)})

CorridorPoint(route, role, i, x) ==
  IF route[i][2] = route[i + 1][2] THEN <<x, route[i][2]>>
  ELSE IF role = "input" THEN route[i] ELSE route[i + 1]

\* The route of a member from point via on, at segment i, tapped where `approach` says.
Spliced(route, role, i, approach) ==
  IF role = "input" THEN Joined(approach \o SubSeq(route, i + 1, Len(route)))
                    ELSE Joined(SubSeq(route, 1, i) \o Reverse(approach))

RouteEnd(route, role) == IF role = "input" THEN route[1] ELSE route[Len(route)]

-----------------------------------------------------------------------------
(* Drawing one bundle: x of its collector, its extent and its taps.        *)

\* The collector reaches from the spine to every tap.
Extent(g, b, x, taps) ==
  LET heights == {At(g, b)[2]} \cup {taps[e][2] : e \in MemberEdges(b)}
  IN  [x |-> x, taps |-> taps, low |-> Min(heights), high |-> Max(heights)]

LocalX(g, b) == At(g, b)[1] + Outward(b) * RailDepth

LocalTap(g, b, m) ==
  <<LocalX(g, b), At(g, b)[2] + (2 * Lane(b, m) - (Lanes(b) - 1)) * (Pitch \div 2)>>

LocalGeometry(g, b) ==
  Extent(g, b, LocalX(g, b),
         [e \in MemberEdges(b) |-> LocalTap(g, b, CHOOSE m \in MembersOf(b) : m.edge = e)])

\* build_geometry: interior at x if every member can be tapped there.
BuildGeometry(g, b, routes, x) ==
  IF x # Nothing /\ \A e \in MemberEdges(b) : TrunkSegment(routes[e], b.role, x) # 0
  THEN Extent(g, b, x, [e \in MemberEdges(b) |->
                          <<x, routes[e][TrunkSegment(routes[e], b.role, x)][2]>>])
  ELSE LocalGeometry(g, b)

SpineLength(g, b, d) == IF b.role = "input" THEN d.x - At(g, b)[1] ELSE At(g, b)[1] - d.x

Interior(g, b, d) == SpineLength(g, b, d) >= RailDepth + Pitch

\* The route of a member from its trunk, or from where it turns off at x, or Nothing.
TappedTrunk(route, role, tap, trunk) ==
  IF trunk = 0 \/ route[trunk][2] # tap[2] THEN Nothing ELSE Spliced(route, role, trunk, <<tap>>)

TappedCorridor(route, role, tap, x, turn) ==
  IF turn = 0 THEN Nothing
  ELSE Spliced(route, role, turn, <<tap, <<x, tap[2]>>, CorridorPoint(route, role, turn, x)>>)

TappedAt(route, role, tap, x) ==
  TappedCorridor(route, role, tap, x, CorridorSegment(route, role, x))

\* The route of a member led to its tap, or Nothing.
Rewritten(g, i, d, route, m) ==
  LET b == g.bundles[i]
      tap == d.taps[m.edge]
  IN  IF Interior(g, b, d) THEN TappedTrunk(route, b.role, tap, TrunkSegment(route, b.role, tap[1]))
      ELSE TappedAt(route, b.role, tap, CorridorX(g, CorridorOffsets(g), i, m))

\* rewrite_member_routes: the first member that cannot be led to its tap ends it.
Unled(g, i, d, routes) ==
  {k \in DOMAIN g.bundles[i].members :
     LET m == g.bundles[i].members[k] IN Rewritten(g, i, d, routes[m.edge], m) = Nothing}

RewrittenBefore(g, i, d, routes, unled) ==
  LET members == g.bundles[i].members
      led == {members[k] : k \in {k \in DOMAIN members : \A j \in unled : k < j}}
  IN  [e \in DOMAIN routes |->
         IF \E m \in led : m.edge = e
         THEN Rewritten(g, i, d, routes[e], CHOOSE m \in led : m.edge = e)
         ELSE routes[e]]

RewriteMemberRoutes(g, i, d, routes) ==
  RewrittenBefore(g, i, d, routes, Unled(g, i, d, routes))

-----------------------------------------------------------------------------
(* Contacts.                                                               *)

SegmentsOf(g, b, d) == {<<<<d.x, d.low>>, <<d.x, d.high>>>>, <<At(g, b), <<d.x, At(g, b)[2]>>>>}

\* What two segments have in common, as the corners of a box that may be empty.
Common(s, r) == <<<<Max({Low(s, 1), Low(r, 1)}), Max({Low(s, 2), Low(r, 2)})>>,
                  <<Min({High(s, 1), High(r, 1)}), Min({High(s, 2), High(r, 2)})>>>>
Meets(s, r) == LET box == Common(s, r) IN box[1][1] <= box[2][1] /\ box[1][2] <= box[2][2]

Ends(s) == {s[1], s[2]}

\* Routes touch where they run together or end on one another; a crossing is no contact.
RoutesTouch(s, r) ==
  /\ Meets(s, r)
  /\ Level(s) # Level(r) => Common(s, r)[1] \in Ends(s) \cup Ends(r)

\* segments_have_disallowed_contact
DisallowedContact(bus, s, tap, crossings) ==
  LET box == Common(bus, s)
      point == box[1]
  IN  /\ s[1] # s[2]
      /\ Meets(bus, s)
      /\ \/ box[1] # box[2]
         \/ /\ ~ (crossings /\ Level(bus) # Level(s) /\ point \notin Ends(bus) \cup Ends(s))
            /\ ~ (tap = point /\ point \in Ends(s))

\* parallel_segments_are_too_close
TooClose(s, r, spacing) ==
  LET k == IF Level(s) THEN 1 ELSE 2
  IN  /\ spacing > 0 /\ Level(s) = Level(r)
      /\ Low(s, k) < High(r, k) /\ Low(r, k) < High(s, k)
      /\ s[1][3 - k] - r[1][3 - k] \in 1 - spacing .. spacing - 1

TapOf(d, e) == IF e \in DOMAIN d.taps THEN d.taps[e] ELSE Nothing

\* A bundle touches a route other than at its tap, or another bundle.
RouteContact(g, b, d, e, route, crossings, spacing) ==
  \E bus \in SegmentsOf(g, b, d), s \in Segments(route) :
    DisallowedContact(bus, s, TapOf(d, e), crossings) \/ TooClose(bus, s, spacing)

BundleContact(g, b, d, c, f, crossings, spacing) ==
  \E bus \in SegmentsOf(g, b, d), s \in SegmentsOf(g, c, f) :
    DisallowedContact(bus, s, Nothing, crossings) \/ TooClose(bus, s, spacing)

-----------------------------------------------------------------------------
(* verify_preserved_geometry_structure: what a drawn bundle has to be.     *)

Coincident(b, d) == Len(b.members) > 1 /\ \A e, f \in MemberEdges(b) : d.taps[e] = d.taps[f]

OneCohort(g, b) == Lanes(b) = 1 /\ \A e, f \in MemberEdges(b) : g.edges[e].net = g.edges[f].net

MaySharePlaces(g, spacing) == spacing = 0 /\ Len(g.bundles) <= MaxCollectorBundles

RoutesShared(g, b, d, routes, spacing) ==
  /\ Coincident(b, d) /\ MaySharePlaces(g, spacing) /\ b.width > 1
  /\ ShareOpposite(g, b)
  /\ \A e, f \in MemberEdges(b) : routes[e] = routes[f]

SoundStructure(g, b, d, routes, spacing) ==
  LET interior == MaySharePlaces(g, spacing) /\ Interior(g, b, d)
      shared == RoutesShared(g, b, d, routes, spacing)
  IN  /\ Coincident(b, d) /\ ShareOpposite(g, b) => OneCohort(g, b) \/ shared
      /\ interior \/ d.x = LocalX(g, b)
      /\ \A m \in MembersOf(b) :
           /\ IF interior \/ shared THEN d.taps[m.edge][1] = d.x
                                   ELSE d.taps[m.edge] = LocalTap(g, b, m)
           /\ RouteEnd(routes[m.edge], b.role) = d.taps[m.edge]
      /\ Extent(g, b, d.x, d.taps) = d
=============================================================================
