--------------------------- MODULE GroupContract ---------------------------
(***************************************************************************)
(* What a compact graph, an expanded graph and the mapping between them    *)
(* must be for a group to be expanded or collapsed (incremental.rs,        *)
(* validate_graph_contract and validate_protected_groups).  Every check    *)
(* returns at the first fault it meets; faults are met in the order of ids.*)
(***************************************************************************)
EXTENDS Integers, FiniteSets, Sequences, SequencesExt, FiniteSetsExt

CONSTANTS
  MaxMembers,      \* MAX_EXPANSION_MEMBERS
  MaxGroups,       \* MAX_PROTECTED_GROUPS
  MaxGroupMembers, \* MAX_PROTECTED_GROUP_MEMBERS
  None

ASSUME LimitsAssumption == {MaxMembers, MaxGroups, MaxGroupMembers} \subseteq Nat

ContractErrors ==
  {"EmptyMembers", "TooManyMembers", "DuplicateMember", "MissingAnchor", "RetainedAnchor",
   "MissingMember", "ExistingMember", "MissingRetainedNode", "ChangedRetainedNode",
   "UnexpectedNode", "MissingRetainedEdge", "ChangedRetainedEdge", "InvalidBoundaryEdge",
   "InvalidCompactTrunk", "DuplicateBoundaryTrunk", "IncompatibleBoundaryTrunk",
   "MissingBoundaryTrunk", "UnusedCompactTrunk"}

GroupErrors ==
  {"TooManyProtectedGroups", "TooManyProtectedGroupMembers", "DuplicateProtectedGroup",
   "ProtectedCurrentGroup", "EmptyProtectedGroup", "InvalidProtectedGroupPadding",
   "DuplicateProtectedGroupMember", "ProtectedCurrentMember", "MissingProtectedGroupMember",
   "OverlappingProtectedGroups"}

ASSUME NoneAssumption == None \notin ContractErrors \cup GroupErrors

-----------------------------------------------------------------------------
(* A graph has its nodes, as they are, by id and its edges by id; an end   *)
(* of an edge is a node and a port.  Both graphs were validated before     *)
(* (validate_and_index): ids are numbers and edges end at nodes.           *)

IsGraph(graph) ==
  /\ DOMAIN graph.nodes \subseteq Nat /\ IsFiniteSet(DOMAIN graph.nodes)
  /\ DOMAIN graph.edges \subseteq Nat /\ IsFiniteSet(DOMAIN graph.edges)
  /\ \A e \in DOMAIN graph.edges :
       graph.edges[e] \in [source : (DOMAIN graph.nodes) \X Nat, target : (DOMAIN graph.nodes) \X Nat]

\* The group to open: its compact node, its members, and which edge of the
\* compact graph stands for each of those at the border of the group.
IsMapping(x) ==
  /\ x.members \in Seq(Nat)
  /\ x.trunks \in Seq([expanded : Nat, compact : Nat])

AreGroups(groups) == groups \in Seq([id : Nat, members : Seq(Nat), padding : Int])

FirstError(errors) ==
  LET faulty == {i \in DOMAIN errors : errors[i] # None}
  IN  IF faulty = {} THEN None ELSE errors[Min(faulty)]

LeastError(ids, Error(_)) == FirstError([id \in ids |-> Error(id)])

If(fault, error) == IF fault THEN error ELSE None

HasRepeats(seq) == \E i, j \in DOMAIN seq : i # j /\ seq[i] = seq[j]

Touches(edge, nodes) == edge.source[1] \in nodes \/ edge.target[1] \in nodes

Internal(edge, nodes) == edge.source[1] \in nodes /\ edge.target[1] \in nodes

\* Edges with one end on a member.
BoundaryEdges(expanded, members) ==
  {id \in DOMAIN expanded.edges :
     Touches(expanded.edges[id], members) /\ ~ Internal(expanded.edges[id], members)}

CompactTrunks(compact, anchor) ==
  {id \in DOMAIN compact.edges : Touches(compact.edges[id], {anchor})}

Compatible(edge, trunk, members, anchor) ==
  IF edge.source[1] \in members
  THEN trunk.source[1] = anchor /\ trunk.target = edge.target
  ELSE trunk.target[1] = anchor /\ trunk.source = edge.source

\* The loop over expansion.boundary_trunks.
MappingError(compact, expanded, x, i) ==
  LET mapping == x.trunks[i]
      members == ToSet(x.members)
      known == /\ mapping.expanded \in BoundaryEdges(expanded, members)
               /\ mapping.compact \in CompactTrunks(compact, x.anchor)
  IN  FirstError(<<
        If(mapping.expanded \notin BoundaryEdges(expanded, members), "InvalidBoundaryEdge"),
        If(mapping.compact \notin CompactTrunks(compact, x.anchor), "InvalidCompactTrunk"),
        If(\E j \in 1 .. i - 1 : x.trunks[j].expanded = mapping.expanded, "DuplicateBoundaryTrunk"),
        If(known /\ ~ Compatible(expanded.edges[mapping.expanded], compact.edges[mapping.compact],
                                 members, x.anchor),
           "IncompatibleBoundaryTrunk")>>)

\* Plausible slip: a trunk nothing maps to is left behind.
NeverUnused(compact, x) == FALSE

TrunksUnused(compact, x) ==
  CompactTrunks(compact, x.anchor) \ {x.trunks[i].compact : i \in DOMAIN x.trunks} # {}

ContractError(compact, expanded, x) ==
  LET members == ToSet(x.members)
      retained == DOMAIN compact.nodes \ {x.anchor}
      bystanders == {id \in DOMAIN compact.edges : ~ Touches(compact.edges[id], {x.anchor})}
      Member(m) == FirstError(<<If(m \notin DOMAIN expanded.nodes, "MissingMember"),
                                If(m \in DOMAIN compact.nodes, "ExistingMember")>>)
      Retained(n) == IF n \notin DOMAIN expanded.nodes THEN "MissingRetainedNode"
                     ELSE If(expanded.nodes[n] # compact.nodes[n], "ChangedRetainedNode")
      Bystander(id) == IF id \notin DOMAIN expanded.edges THEN "MissingRetainedEdge"
                       ELSE If(expanded.edges[id] # compact.edges[id], "ChangedRetainedEdge")
      Outsider(id) == If(~ Touches(expanded.edges[id], members)
                           /\ (id \notin DOMAIN compact.edges \/ compact.edges[id] # expanded.edges[id]),
                         "ChangedRetainedEdge")
  IN  FirstError(<<
        If(x.members = <<>>, "EmptyMembers"),
        If(Len(x.members) > MaxMembers, "TooManyMembers"),
        If(HasRepeats(x.members), "DuplicateMember"),
        If(x.anchor \notin DOMAIN compact.nodes, "MissingAnchor"),
        If(x.anchor \in DOMAIN expanded.nodes, "RetainedAnchor"),
        LeastError(members, Member),
        LeastError(retained, Retained),
        If(DOMAIN expanded.nodes \ (members \cup DOMAIN compact.nodes) # {}, "UnexpectedNode"),
        LeastError(bystanders, Bystander),
        LeastError(DOMAIN expanded.edges, Outsider),
        LeastError(DOMAIN x.trunks, LAMBDA i : MappingError(compact, expanded, x, i)),
        If(BoundaryEdges(expanded, members)
             \ {x.trunks[i].expanded : i \in DOMAIN x.trunks} # {}, "MissingBoundaryTrunk"),
        If(TrunksUnused(compact, x), "UnusedCompactTrunk")>>)

-----------------------------------------------------------------------------
(* Groups that are open already and must stay as they are.                 *)

\* Groups are taken by id; the sequence of a call is in that order.
GroupError(compact, expanded, x, groups, i) ==
  LET group == groups[i]
      Member(m) == FirstError(<<
        If(m \in ToSet(x.members), "ProtectedCurrentMember"),
        If(\/ m \notin DOMAIN compact.nodes
           \/ m \notin DOMAIN expanded.nodes
           \/ compact.nodes[m] # expanded.nodes[m], "MissingProtectedGroupMember"),
        If(\E j \in 1 .. i - 1 : m \in ToSet(groups[j].members), "OverlappingProtectedGroups")>>)
  IN  FirstError(<<
        If(\E j \in 1 .. i - 1 : groups[j].id = group.id, "DuplicateProtectedGroup"),
        If(group.id = x.anchor, "ProtectedCurrentGroup"),
        If(group.members = <<>>, "EmptyProtectedGroup"),
        If(group.padding < 0, "InvalidProtectedGroupPadding"),
        If(HasRepeats(group.members), "DuplicateProtectedGroupMember"),
        LeastError(ToSet(group.members), Member)>>)

SumLengths(groups) == FoldLeft(LAMBDA n, g : n + Len(g.members), 0, groups)

ProtectedError(compact, expanded, x, groups) ==
  FirstError(<<
    If(Len(groups) > MaxGroups, "TooManyProtectedGroups"),
    If(SumLengths(groups) > MaxGroupMembers, "TooManyProtectedGroupMembers"),
    LeastError(DOMAIN groups, LAMBDA i : GroupError(compact, expanded, x, groups, i))>>)

-----------------------------------------------------------------------------
(* The same, said at once.                                                 *)

\* The compact graph is the expanded one with the members contracted to the
\* anchor: what does not touch them is the same in both, a boundary edge has
\* one trunk that ends where it ends, and every edge of the anchor is a trunk.
IsQuotient(compact, expanded, x) ==
  LET members == ToSet(x.members)
      retained == DOMAIN expanded.nodes \ members
      boundary == BoundaryEdges(expanded, members)
      outside == {id \in DOMAIN expanded.edges : ~ Touches(expanded.edges[id], members)}
      image(end) == IF end[1] \in members THEN <<x.anchor>> ELSE end
      trunkEnd(end) == IF end[1] = x.anchor THEN <<x.anchor>> ELSE end
  IN  /\ ~ HasRepeats(x.members)
      /\ members # {} /\ members \subseteq DOMAIN expanded.nodes \ DOMAIN compact.nodes
      /\ x.anchor \notin DOMAIN expanded.nodes
      /\ DOMAIN compact.nodes = retained \cup {x.anchor}
      /\ \A n \in retained : compact.nodes[n] = expanded.nodes[n]
      /\ {x.trunks[i].expanded : i \in DOMAIN x.trunks} = boundary
      /\ ~ HasRepeats([i \in DOMAIN x.trunks |-> x.trunks[i].expanded])
      /\ DOMAIN compact.edges = outside \cup {x.trunks[i].compact : i \in DOMAIN x.trunks}
      /\ \A id \in outside : compact.edges[id] = expanded.edges[id]
      /\ \A i \in DOMAIN x.trunks :
           LET edge == expanded.edges[x.trunks[i].expanded]
               trunk == compact.edges[x.trunks[i].compact]
           IN  /\ image(edge.source) = trunkEnd(trunk.source)
               /\ image(edge.target) = trunkEnd(trunk.target)

\* Open groups are other groups, of retained nodes, with no node in common.
ArePeers(compact, expanded, x, groups) ==
  /\ ~ HasRepeats([i \in DOMAIN groups |-> groups[i].id])
  /\ \A i, j \in DOMAIN groups :
       i # j => ToSet(groups[i].members) \cap ToSet(groups[j].members) = {}
  /\ \A i \in DOMAIN groups :
       /\ groups[i].id # x.anchor /\ groups[i].padding >= 0
       /\ groups[i].members # <<>> /\ ~ HasRepeats(groups[i].members)
       /\ ToSet(groups[i].members) \subseteq DOMAIN compact.nodes \ {x.anchor}
=============================================================================
