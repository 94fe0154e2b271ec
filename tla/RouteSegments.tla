--------------------------- MODULE RouteSegments ---------------------------
(* The pieces of drawn wires that every inspection of a drawing works on    *)
(* (routing.rs and readability.rs): how a route is cut into axis-parallel   *)
(* segments, how the segments of one net are joined, which wires count as   *)
(* related, and when two segments touch.                                    *)
(*                                                                          *)
(* A point is <<x, y>> of integers. An edge is a record of id, net, source  *)
(* and target; a route is the sequence of its points with the id it claims. *)
EXTENDS Integers, FiniteSets, Sequences, SequencesExt

CONSTANT None

Least(a, b) == IF a < b THEN a ELSE b
Most(a, b) == IF a < b THEN b ELSE a

Largest(set) == CHOOSE x \in set : \A y \in set : y <= x
Smallest(set) == CHOOSE x \in set : \A y \in set : x <= y
Total(s) ==
    LET sum[i \in 0..Len(s)] == IF i = 0 THEN 0 ELSE sum[i - 1] + s[i] IN sum[Len(s)]

\* The order of tuples of numbers.
LexLess(s, t) ==
    \E i \in 1..Len(s) : s[i] < t[i] /\ \A j \in 1..(i - 1) : s[j] = t[j]

\* The members of a set in the order of less.
InOrder(set, less(_, _)) ==
    [i \in 1..Cardinality(set) |->
       CHOOSE x \in set : Cardinality({y \in set : less(y, x)}) = i - 1]

\* An option's minimum: the absent value is no bound.
MinimumOption(a, b) ==
    CASE a = None -> b [] b = None -> a [] OTHER -> Least(a, b)

---------------------------------------------------------------------------
(* Cutting a route                                                          *)

Straight(p, q) == p # q /\ (p[1] = q[1] \/ p[2] = q[2])
Diagonal(p, q) == p[1] # q[1] /\ p[2] # q[2]

\* One leg of a route, from p to q, without direction.
Segment(edge, p, q) ==
    LET h == p[2] = q[2]
        axis == IF h THEN 1 ELSE 2
    IN [edge |-> edge.id, net |-> edge.net, source |-> edge.source, target |-> edge.target,
        horizontal |-> h, fixed |-> p[3 - axis],
        start |-> Least(p[axis], q[axis]), end |-> Most(p[axis], q[axis]),
        sourceEscape |-> None, targetEscape |-> None]

(* mandatory_escape_interval: the part of the first or last segment that a  *)
(* wire needs to leave its port, whose coordinate along the segment is axis.*)
MandatoryEscapeInterval(segment, axis, length) ==
    CASE length <= 0 -> None
      [] length > 0 /\ axis = segment.start ->
             <<segment.start, Least(segment.start + length, segment.end)>>
      [] length > 0 /\ axis # segment.start /\ axis = segment.end ->
             <<Most(segment.end - length, segment.start), segment.end>>
      [] OTHER -> None

AxisOf(segment, p) == IF segment.horizontal THEN p[1] ELSE p[2]

\* The legs of one route that have a length, as pairs of consecutive points.
Legs(points) ==
    SelectSeq([i \in 1..(Len(points) - 1) |-> <<points[i], points[i + 1]>>],
              LAMBDA leg : leg[1] # leg[2])

RouteSegments(edge, points, escape) ==
    LET legs == Legs(points)
        cut(i) == Segment(edge, legs[i][1], legs[i][2])
    IN [i \in 1..Len(legs) |->
          [cut(i) EXCEPT
             !.sourceEscape = IF i # 1 THEN None ELSE
                 MandatoryEscapeInterval(cut(i), AxisOf(cut(i), Head(points)), escape),
             !.targetEscape = IF i # Len(legs) THEN None ELSE
                 MandatoryEscapeInterval(cut(i), AxisOf(cut(i), Last(points)), escape)]]

\* A route that is not drawn for its edge, or has no extent to speak of.
Misdrawn(edge, route) == route.id # edge.id \/ Len(route.points) < 2
HasDiagonal(route) == \E leg \in Range(Legs(route.points)) : Diagonal(leg[1], leg[2])

(* raw_route_segments_bounded: the segments of all routes in order, or the  *)
(* error of the first route that is misdrawn, has a diagonal leg, or takes  *)
(* the count over the limit; of the last two, whichever leg comes first.    *)
LegsBeforeDiagonal(route) ==
    LET legs == Legs(route.points)
        at == {i \in 1..Len(legs) : Diagonal(legs[i][1], legs[i][2])}
    IN IF at = {} THEN Len(legs) ELSE (CHOOSE i \in at : \A j \in at : i <= j) - 1

RawRouteSegments(edges, routes, limit, escape) ==
    IF Len(edges) # Len(routes) THEN [error |-> "invalid", segments |-> <<>>]
    ELSE FoldLeft(
        LAMBDA read, i :
            CASE read.error # None -> read
              [] read.error = None /\ Misdrawn(edges[i], routes[i]) ->
                     [read EXCEPT !.error = "invalid"]
              [] OTHER ->
                     IF Len(read.segments) + LegsBeforeDiagonal(routes[i]) > limit
                     THEN [read EXCEPT !.error = "segments"]
                     ELSE IF HasDiagonal(routes[i]) THEN [read EXCEPT !.error = "invalid"]
                     ELSE [read EXCEPT !.segments =
                             @ \o RouteSegments(edges[i], routes[i].points, escape)],
        [error |-> None, segments |-> <<>>],
        [i \in 1..Len(edges) |-> i])

---------------------------------------------------------------------------
(* Joining the segments of a net                                            *)

(* sorted_unmerged_physical_route_segments and its merge: segments of one   *)
(* net on one line that overlap or meet become one, which keeps the source  *)
(* and target of the first of them.                                         *)
SegmentKey(s) == <<s.net, IF s.horizontal THEN 1 ELSE 0, s.fixed, s.start, s.end, s.edge>>

SortedUnmerged(edges, routes) ==
    SortSeq(FlattenSeq([i \in 1..Len(edges) |->
                            RouteSegments(edges[i], routes[i].points, 0)]),
            LAMBDA a, b : LexLess(SegmentKey(a), SegmentKey(b)))

Continues(prior, s) ==
    /\ prior.net = s.net /\ prior.horizontal = s.horizontal /\ prior.fixed = s.fixed
    /\ s.start <= prior.end

MergeSorted(segments) ==
    FoldLeft(LAMBDA merged, s :
                IF merged # <<>> /\ Continues(Last(merged), s)
                THEN [merged EXCEPT ![Len(merged)].end = Most(@, s.end)]
                ELSE Append(merged, s),
             <<>>, segments)

\* A net bends where two legs of a route that follow each other turn; once a point.
Bends(edges, routes) ==
    UNION {{<<edges[i].net, routes[i].points[k]>> :
              k \in {k \in 2..(Len(routes[i].points) - 1) :
                        (routes[i].points[k - 1][2] = routes[i].points[k][2])
                          # (routes[i].points[k][2] = routes[i].points[k + 1][2])}} :
           i \in 1..Len(edges)}

RouteLength(merged) == FoldLeft(LAMBDA sum, s : sum + s.end - s.start, 0, merged)

\* shared_endpoints: ports used by wires of more than one net.
SharedEndpoints(edges) ==
    {p \in UNION {{e.source, e.target} : e \in Range(edges)} :
        \E d, e \in Range(edges) :
            d.net # e.net /\ p \in {d.source, d.target} /\ p \in {e.source, e.target}}

---------------------------------------------------------------------------
(* Relations of segments                                                    *)

Overlaps(a, b) == a.start < b.end /\ b.start < a.end

\* route_segment_geometry_has_contact: a proper crossing is not a contact.
Touches(a, b) ==
    \/ /\ a.horizontal = b.horizontal /\ a.fixed = b.fixed
       /\ a.start <= b.end /\ b.start <= a.end
    \/ /\ a.horizontal # b.horizontal
       /\ b.fixed \in a.start..a.end /\ a.fixed \in b.start..b.end
       /\ b.fixed \in {a.start, a.end} \/ a.fixed \in {b.start, b.end}

Unrelated(a, b) ==
    /\ a.edge # b.edge /\ a.net # b.net
    /\ {a.source, a.target} \cap {b.source, b.target} = {}

\* raw_route_segments_have_unrelated_contact.
UnrelatedContact(a, b) == Unrelated(a, b) /\ Touches(a, b)

(* raw_route_segments_share_mandatory_escape: both wires need the whole of  *)
(* what they overlap in to leave a port they have in common.                *)
ShareMandatoryEscape(a, b) ==
    LET covers(e, f) ==
            /\ e # None /\ f # None
            /\ Most(e[1], f[1]) <= Most(a.start, b.start)
            /\ Least(e[2], f[2]) >= Least(a.end, b.end)
    IN \/ a.source = b.source /\ covers(a.sourceEscape, b.sourceEscape)
       \/ a.source = b.target /\ covers(a.sourceEscape, b.targetEscape)
       \/ a.target = b.source /\ covers(a.targetEscape, b.sourceEscape)
       \/ a.target = b.target /\ covers(a.targetEscape, b.targetEscape)
=============================================================================
