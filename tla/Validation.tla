----------------------------- MODULE Validation -----------------------------
(* What a request must be before a layout of it is tried (validation.rs,    *)
(* validate_and_index_with_constraints): options, nodes with their ports,   *)
(* edges, boundaries and boundary bundles are checked in this order, and    *)
(* the first thing found ends the call with its error. The members of a     *)
(* bundle are given their tap lanes on the way.                             *)
(*                                                                          *)
(* Numbers are integers or NotFinite. Nodes, edges and bundles are looked   *)
(* at by id; equal ids are in any order, as an unstable sort leaves them.   *)
EXTENDS Integers, FiniteSets, Sequences

CONSTANTS Submitted,                       \* the requests
          NotFinite,
          MaxOption, One, MaxSweeps, MaxDimension, MaxBundleWidth, MaxBundleWork

ASSUME ValidationLimits ==
    /\ {MaxOption, One, MaxSweeps, MaxDimension, MaxBundleWidth, MaxBundleWork} \subseteq Nat
    /\ One > 0

(* What a caller can hand over: numbers that need not be finite, ids of any  *)
(* value, and lists of any length with anything repeated.                   *)
Number == Int \cup {NotFinite}
Endpoint == Nat \X Nat                    \* a node and one of its ports
Port == [id : Nat, side : {"North", "East", "South", "West"}, offset : Number]
Node == [id : Nat, width : Number, height : Number, ports : Seq(Port)]
Edge == [id : Nat, source : Endpoint, target : Endpoint, ranks : BOOLEAN, net : Nat]
Member == [edge : Nat, slots : Seq(Nat)]
Bundle == [id : Nat, endpoint : Endpoint, width : Nat, members : Seq(Member)]

ASSUME SubmittedAreRequests ==
    \A r \in Submitted :
        /\ r.nodes \in Seq(Node) /\ r.edges \in Seq(Edge)
        /\ r.inputs \in Seq(Nat) /\ r.outputs \in Seq(Nat)
        /\ r.bundles \in Seq(Bundle)

VARIABLES request,
          part,       \* what is looked at: a part of the request, or its end
          left,       \* of that part, what has not been looked at
          bundle,     \* the bundle in work
          bundled,    \* the members of the bundles so far, each with the role
          work,       \* charged for bundles, members and slots
          cohorts,    \* of the bundle in work: slots and net of every lane
          lanes,      \* the lane of every member that has one, by bundle and member
          fault       \* the error, or NoFault

validationVars == <<request, part, left, bundle, bundled, work, cohorts, lanes, fault>>

NoFault == <<>>

Asked == request.options
GivenNodes == request.nodes
GivenEdges == request.edges
GivenBundles == request.bundles
Positions(s) == 1..Len(s)
Repeated(s) == {s[i] : i \in {i \in Positions(s) : \E j \in Positions(s) : j # i /\ s[j] = s[i]}}
LeastOf(set) == CHOOSE x \in set : \A y \in set : x <= y

\* The positions in left that come next by the key.
NextBy(key(_)) == {i \in left : \A j \in left : key(i) <= key(j)}

---------------------------------------------------------------------------
(* Options, nodes and edges                                                 *)

InRange(v, low, high) == v # NotFinite /\ low <= v /\ v <= high

PositiveOptions == <<"layer_gap", "node_gap", "port_stub", "route_lane_gap",
                     "max_quality_area_factor", "max_quality_route_length_factor">>

\* The sum of clearance and lane gap that is checked as well is finite by then.
OptionChecks ==
    [i \in 1..6 |-> <<PositiveOptions[i], InRange(Asked[PositiveOptions[i]], 1, MaxOption)>>]
    \o <<<<"max_quality_area_factor", InRange(Asked.max_quality_area_factor, One, MaxOption)>>,
         <<"max_quality_route_length_factor",
           InRange(Asked.max_quality_route_length_factor, One, MaxOption)>>,
         <<"edge_node_clearance", InRange(Asked.edge_node_clearance, 0, MaxOption)>>,
         <<"minimum_parallel_wire_spacing",
           InRange(Asked.minimum_parallel_wire_spacing, 0, MaxOption)>>,
         <<"node_gap", \/ NotFinite \in {Asked.node_gap, Asked.port_stub}
                       \/ Asked.node_gap >= 2 * Asked.port_stub>>,
         <<"ordering_sweeps", Asked.ordering_sweeps <= MaxSweeps>>>>

OptionFault ==
    LET failed == {i \in DOMAIN OptionChecks : ~OptionChecks[i][2]}
    IN CASE failed = {} -> NoFault
         [] failed = {Len(OptionChecks)} -> <<"TooManyOrderingSweeps">>
         [] OTHER -> <<"InvalidOption", OptionChecks[LeastOf(failed)][1]>>

PortLimit(n, port) == IF port.side \in {"East", "West"} THEN n.height ELSE n.width

PortIsSound(n, k) ==
    /\ \A j \in 1..(k - 1) : n.ports[j].id # n.ports[k].id
    /\ InRange(n.ports[k].offset, 0, PortLimit(n, n.ports[k]))

PortFault(n) ==
    LET wrong == {k \in Positions(n.ports) : ~PortIsSound(n, k)}
        k == LeastOf(wrong)
    IN IF wrong = {} THEN NoFault
       ELSE IF \E j \in 1..(k - 1) : n.ports[j].id = n.ports[k].id
            THEN <<"DuplicatePort", n.id, n.ports[k].id>>
            ELSE <<"InvalidPortOffset", n.id, n.ports[k].id>>

SeenIds(records) == {records[i].id : i \in Positions(records) \ left}

NodeFault(n) ==
    IF n.id \in SeenIds(GivenNodes) THEN <<"DuplicateNode", n.id>>
    ELSE IF ~InRange(n.width, 1, MaxDimension) THEN <<"InvalidNodeDimension", n.id, "width">>
    ELSE IF ~InRange(n.height, 1, MaxDimension) THEN <<"InvalidNodeDimension", n.id, "height">>
    ELSE PortFault(n)

NodeIds == {GivenNodes[i].id : i \in Positions(GivenNodes)}
NodeOf(id) == GivenNodes[CHOOSE i \in Positions(GivenNodes) : GivenNodes[i].id = id]
PortIds(id) == {NodeOf(id).ports[k].id : k \in Positions(NodeOf(id).ports)}

\* An end is a node with one of its ports.
EndFault(edge, end) ==
    IF end[1] \notin NodeIds THEN <<"UnknownEndpointNode", edge, end[1]>>
    ELSE IF end[2] \notin PortIds(end[1]) THEN <<"UnknownEndpointPort", edge, end[1]>>
    ELSE NoFault

EdgeFault(e) ==
    IF e.id \in SeenIds(GivenEdges) THEN <<"DuplicateEdge", e.id>>
    ELSE IF EndFault(e.id, e.source) # NoFault THEN EndFault(e.id, e.source)
    ELSE EndFault(e.id, e.target)

---------------------------------------------------------------------------
(* Boundaries                                                               *)

InputIds == {request.inputs[i] : i \in Positions(request.inputs)}
OutputIds == {request.outputs[i] : i \in Positions(request.outputs)}

BoundaryFault(boundary, ids) ==
    IF Repeated(ids) # {} THEN <<"DuplicateConstraintNode", boundary, LeastOf(Repeated(ids))>>
    ELSE LET unknown == {ids[i] : i \in Positions(ids)} \ NodeIds
         IN IF unknown = {} THEN NoFault ELSE <<"UnknownConstraintNode", boundary, LeastOf(unknown)>>

RankingEdges == {GivenEdges[i] : i \in {i \in Positions(GivenEdges) : GivenEdges[i].ranks}}
Fed == {n \in InputIds : \E e \in RankingEdges : e.target[1] = n}
Feeding == {n \in OutputIds : \E e \in RankingEdges : e.source[1] = n}

\* Neither set has members in the other by then.
StructureFault ==
    LET least == LeastOf(Fed \cup Feeding)
    IN IF Fed \cup Feeding = {} THEN NoFault
       ELSE <<IF least \in Fed THEN "ConstrainedInputHasIncomingEdge"
              ELSE "ConstrainedOutputHasOutgoingEdge", least>>

ConstraintFault ==
    IF BoundaryFault("input", request.inputs) # NoFault THEN BoundaryFault("input", request.inputs)
    ELSE IF BoundaryFault("output", request.outputs) # NoFault
         THEN BoundaryFault("output", request.outputs)
    ELSE IF InputIds \cap OutputIds # {}
         THEN <<"OverlappingConstraintNode", LeastOf(InputIds \cap OutputIds)>>
    ELSE StructureFault

---------------------------------------------------------------------------
(* Bundles                                                                  *)

BundleIds == [i \in Positions(GivenBundles) |-> GivenBundles[i].id]
BundleIdFault ==
    IF Repeated(BundleIds) = {} THEN NoFault
    ELSE <<"DuplicateBoundaryBundle", LeastOf(Repeated(BundleIds))>>

RoleOf(b) == IF b.endpoint[1] \in InputIds THEN "input" ELSE "output"
SideFor(role) == IF role = "input" THEN "East" ELSE "West"
SideOf(end) ==
    LET n == NodeOf(end[1])
    IN n.ports[CHOOSE k \in Positions(n.ports) : n.ports[k].id = end[2]].side
MemberEdges(b) == [k \in Positions(b.members) |-> b.members[k].edge]

BundleFault(b) ==
    IF b.width \notin 1..MaxBundleWidth THEN <<"InvalidBoundaryBundleWidth", b.id>>
    ELSE IF b.members = <<>> THEN <<"EmptyBoundaryBundle", b.id>>
    ELSE IF b.endpoint[1] \notin NodeIds THEN <<"UnknownBoundaryBundleEndpointNode", b.id>>
    ELSE IF b.endpoint[2] \notin PortIds(b.endpoint[1])
         THEN <<"UnknownBoundaryBundleEndpointPort", b.id>>
    ELSE IF b.endpoint[1] \notin InputIds \cup OutputIds
         THEN <<"UnconstrainedBoundaryBundleEndpoint", b.id>>
    ELSE IF SideOf(b.endpoint) # SideFor(RoleOf(b))
         THEN <<"InvalidBoundaryBundleEndpointSide", b.id>>
    ELSE IF Repeated(MemberEdges(b)) # {}
         THEN <<"DuplicateBoundaryBundleMember", b.id, LeastOf(Repeated(MemberEdges(b)))>>
    ELSE IF work + Len(b.members) > MaxBundleWork THEN <<"BoundaryBundleWorkLimitExceeded">>
    ELSE NoFault

InWork == GivenBundles[bundle]
MemberAt(k) == InWork.members[k]
EdgeIds == {GivenEdges[i].id : i \in Positions(GivenEdges)}
EdgeOf(id) == GivenEdges[CHOOSE i \in Positions(GivenEdges) : GivenEdges[i].id = id]
SlotsOf(m) == {m.slots[i] : i \in Positions(m.slots)}
NetOf(m) == EdgeOf(m.edge).net

\* The end of a member that must be the bundle's own.
EndAtBundle(b, edge) == IF RoleOf(b) = "input" THEN edge.source ELSE edge.target

\* Slots are looked at in order, so those out of range come last.
SlotFault(b, m) ==
    LET wrong == Repeated(m.slots) \cup {s \in SlotsOf(m) : s >= b.width}
    IN IF wrong = {} THEN NoFault
       ELSE IF LeastOf(wrong) >= b.width
            THEN <<"BoundaryBundleSlotOutOfRange", b.id, m.edge, LeastOf(wrong)>>
            ELSE <<"DuplicateBoundaryBundleSlot", b.id, LeastOf(wrong)>>

MemberFault(b, m) ==
    IF m.edge \notin EdgeIds THEN <<"UnknownBoundaryBundleMember", b.id, m.edge>>
    ELSE IF <<m.edge, RoleOf(b)>> \in bundled
         THEN <<"BoundaryBundleMemberInMultipleBundles", m.edge>>
    ELSE IF EndAtBundle(b, EdgeOf(m.edge)) # b.endpoint
         THEN <<"BoundaryBundleMemberEndpointMismatch", b.id, m.edge>>
    ELSE IF m.slots = <<>> THEN <<"EmptyBoundaryBundleMemberSlots", b.id, m.edge>>
    ELSE IF work + Len(m.slots) > MaxBundleWork THEN <<"BoundaryBundleWorkLimitExceeded">>
    ELSE SlotFault(b, m)

\* The order of sorted lists of slots, a list before its continuations.
SlotsBefore(s, t) ==
    /\ s # t
    /\ LET least == LeastOf((s \cup t) \ (s \cap t))
       IN IF least \in s THEN \E x \in t : x > least ELSE \A x \in s : x < least

MemberBefore(m, o) ==
    \/ SlotsBefore(SlotsOf(m), SlotsOf(o))
    \/ SlotsOf(m) = SlotsOf(o) /\ m.edge < o.edge

\* A member shares the newest lane when it has its very slots.
LaneFor(m) ==
    IF cohorts # <<>> /\ cohorts[Len(cohorts)].slots = SlotsOf(m) THEN Len(cohorts)
    ELSE Len(cohorts) + 1

Occupied(slot) == {c \in Positions(cohorts) : slot \in cohorts[c].slots}

\* Plausible slip: nets are not compared.
ConflictsInSlots(m) ==
    {s \in SlotsOf(m) : Occupied(s) # {} /\ cohorts[LeastOf(Occupied(s))].slots # SlotsOf(m)}

\* The first lane of a slot must be the member's own, or one just like it.
ConflictsAt(m) ==
    {s \in SlotsOf(m) : /\ Occupied(s) # {}
                        /\ cohorts[LeastOf(Occupied(s))] # [slots |-> SlotsOf(m), net |-> NetOf(m)]}

---------------------------------------------------------------------------
(* The call                                                                 *)

Refuse(error) ==
    /\ part' = "refused"
    /\ fault' = error
    /\ UNCHANGED <<request, left, bundle, bundled, work, cohorts, lanes>>

Enter(next, rest) == part' = next /\ left' = rest

CheckOptions ==
    /\ part = "options"
    /\ IF OptionFault # NoFault THEN Refuse(OptionFault)
       ELSE /\ Enter("nodes", Positions(GivenNodes))
            /\ UNCHANGED <<request, bundle, bundled, work, cohorts, lanes, fault>>

CheckNode ==
    /\ part = "nodes" /\ left # {}
    /\ \E i \in NextBy(LAMBDA k : GivenNodes[k].id) :
          IF NodeFault(GivenNodes[i]) # NoFault THEN Refuse(NodeFault(GivenNodes[i]))
          ELSE /\ left' = left \ {i}
               /\ UNCHANGED <<request, part, bundle, bundled, work, cohorts, lanes, fault>>

CheckEdge ==
    /\ part = "edges" /\ left # {}
    /\ \E i \in NextBy(LAMBDA k : GivenEdges[k].id) :
          IF EdgeFault(GivenEdges[i]) # NoFault THEN Refuse(EdgeFault(GivenEdges[i]))
          ELSE /\ left' = left \ {i}
               /\ UNCHANGED <<request, part, bundle, bundled, work, cohorts, lanes, fault>>

FinishNodes ==
    /\ part = "nodes" /\ left = {}
    /\ Enter("edges", Positions(GivenEdges))
    /\ UNCHANGED <<request, bundle, bundled, work, cohorts, lanes, fault>>

FinishEdges ==
    /\ part = "edges" /\ left = {}
    /\ Enter("boundaries", {})
    /\ UNCHANGED <<request, bundle, bundled, work, cohorts, lanes, fault>>

\* validate_constraints, validate_constraint_structure and the ids of bundles.
CheckBoundaries ==
    /\ part = "boundaries"
    /\ IF ConstraintFault # NoFault THEN Refuse(ConstraintFault)
       ELSE IF BundleIdFault # NoFault THEN Refuse(BundleIdFault)
       ELSE /\ Enter("bundles", Positions(GivenBundles))
            /\ work' = Len(GivenBundles)
            /\ UNCHANGED <<request, bundle, bundled, cohorts, lanes, fault>>

OpenBundle ==
    /\ part = "bundles" /\ left # {}
    /\ \E i \in NextBy(LAMBDA k : GivenBundles[k].id) :
          IF BundleFault(GivenBundles[i]) # NoFault THEN Refuse(BundleFault(GivenBundles[i]))
          ELSE /\ bundle' = i
               /\ work' = work + Len(GivenBundles[i].members)
               /\ Enter("members", Positions(GivenBundles[i].members))
               /\ UNCHANGED <<request, bundled, cohorts, lanes, fault>>

CheckMember ==
    /\ part = "members" /\ left # {}
    /\ \E k \in NextBy(LAMBDA j : MemberAt(j).edge) :
          IF MemberFault(InWork, MemberAt(k)) # NoFault THEN Refuse(MemberFault(InWork, MemberAt(k)))
          ELSE /\ left' = left \ {k}
               /\ bundled' = bundled \cup {<<MemberAt(k).edge, RoleOf(InWork)>>}
               /\ work' = work + Len(MemberAt(k).slots)
               /\ UNCHANGED <<request, part, bundle, cohorts, lanes, fault>>

FinishMembers ==
    /\ part = "members" /\ left = {}
    /\ Enter("lanes", Positions(InWork.members))
    /\ cohorts' = <<>>
    /\ UNCHANGED <<request, bundle, bundled, work, lanes, fault>>

\* Members by their slots: one that is like the last shares its lane.
AssignLane ==
    /\ part = "lanes"
    /\ \E k \in left :
          LET m == MemberAt(k) IN
          /\ \A j \in left \ {k} : MemberBefore(m, MemberAt(j))
          /\ IF ConflictsAt(m) # {}
             THEN Refuse(<<"BoundaryBundleSlotConflict", InWork.id, LeastOf(ConflictsAt(m))>>)
             ELSE /\ left' = left \ {k}
                  /\ cohorts' = IF LaneFor(m) \in DOMAIN cohorts THEN cohorts
                                ELSE Append(cohorts, [slots |-> SlotsOf(m), net |-> NetOf(m)])
                  /\ lanes' = [lanes EXCEPT ![bundle][k] = LaneFor(m)]
                  /\ UNCHANGED <<request, part, bundle, bundled, work, fault>>

\* The next bundle by id.
CloseBundle ==
    /\ part = "lanes" /\ left = {}
    /\ Enter("bundles", {i \in Positions(GivenBundles) : GivenBundles[i].id > InWork.id})
    /\ UNCHANGED <<request, bundle, bundled, work, cohorts, lanes, fault>>

Accept ==
    /\ part = "bundles" /\ left = {}
    /\ Enter("accepted", {})
    /\ UNCHANGED <<request, bundle, bundled, work, cohorts, lanes, fault>>

ValidationInit ==
    /\ request \in Submitted
    /\ part = "options"
    /\ left = {}
    /\ bundle = 0
    /\ bundled = {}
    /\ work = 0
    /\ cohorts = <<>>
    /\ lanes = [i \in Positions(GivenBundles) |-> [k \in Positions(GivenBundles[i].members) |-> 0]]
    /\ fault = NoFault

ValidationNext ==
    \/ CheckOptions \/ CheckNode \/ FinishNodes \/ CheckEdge \/ FinishEdges
    \/ CheckBoundaries \/ OpenBundle \/ CheckMember \/ FinishMembers
    \/ AssignLane \/ CloseBundle \/ Accept

ValidationSpec == ValidationInit /\ [][ValidationNext]_validationVars

---------------------------------------------------------------------------
(* What the stages after it rely on                                         *)

Accepted == part = "accepted"

\* Ids name one thing and every wire ends on ports there are.
IndexIsSound ==
    /\ \A i, j \in Positions(GivenNodes) : GivenNodes[i].id = GivenNodes[j].id => i = j
    /\ \A i, j \in Positions(GivenEdges) : GivenEdges[i].id = GivenEdges[j].id => i = j
    /\ \A i \in Positions(GivenEdges) : \A end \in {GivenEdges[i].source, GivenEdges[i].target} :
          end[1] \in NodeIds /\ end[2] \in PortIds(end[1])

\* What ranking takes for granted (WellConstrained of Ranking).
BoundariesAreFree ==
    /\ InputIds \cap OutputIds = {} /\ InputIds \cup OutputIds \subseteq NodeIds
    /\ \A e \in RankingEdges : e.target[1] \notin InputIds /\ e.source[1] \notin OutputIds

MembersOf(i) == {GivenBundles[i].members[k] : k \in Positions(GivenBundles[i].members)}

\* No wire is in two bundles at one of its ends, and all of a bundle's wires
\* are at its port.
BundlesKeepTheirWires ==
    /\ \A i, j \in Positions(GivenBundles) : \A m \in MembersOf(i), o \in MembersOf(j) :
          i # j /\ RoleOf(GivenBundles[i]) = RoleOf(GivenBundles[j]) => m.edge # o.edge
    /\ \A i \in Positions(GivenBundles) : \A m \in MembersOf(i) :
          /\ m.edge \in EdgeIds
          /\ EndAtBundle(GivenBundles[i], EdgeOf(m.edge)) = GivenBundles[i].endpoint

\* Members of a bundle have the same lane exactly when they have a slot in
\* common, and then they have the same slots and net.
LanesFollowSlots ==
    \A i \in Positions(GivenBundles) : \A k, l \in Positions(GivenBundles[i].members) :
        LET m == GivenBundles[i].members[k]
            o == GivenBundles[i].members[l]
        IN /\ lanes[i][k] = lanes[i][l] <=> SlotsOf(m) \cap SlotsOf(o) # {}
           /\ lanes[i][k] = lanes[i][l] => SlotsOf(m) = SlotsOf(o) /\ NetOf(m) = NetOf(o)

(* A request that is accepted is all that ranking, placement and bundles    *)
(* take for granted, whatever order ids are listed in: checked one by one,  *)
(* ids, ends, boundaries and slots fit together, and lanes are shared by    *)
(* those members alone that are drawn as one                                *)
(* (validate_and_index_with_constraints).                                   *)
AcceptedIsConsistent ==
    Accepted => IndexIsSound /\ BoundariesAreFree /\ BundlesKeepTheirWires /\ LanesFollowSlots
=============================================================================
