--------------------------- MODULE Groups_proofs ----------------------------
(* What holds of things that belong together.                              *)
(*                                                                         *)
(* A group is opened for exactly the requests that fit, the corridors      *)
(* opened for it make room and keep every open group whole, and the search *)
(* for its place returns the best drawing it admitted, within the work it  *)
(* planned: for every pair of graphs, every mapping, drawing and budget.   *)
(*                                                                         *)
(* While bundles are drawn over routes, for every set of jobs, their       *)
(* segments are counted and their lanes keep apart.  The properties are    *)
(* not inductive.  The count of segments is only right between two         *)
(* bundles; while one is worked on, it lags behind by what that one        *)
(* replaces, and neither the routes as they are nor the ones kept to go    *)
(* back to may differ from it elsewhere (Counted).  That lanes keep apart  *)
(* needs that whatever is tried keeps off what is taken, and that every    *)
(* place given or drawn before is taken (Parted).  Both rest on the types  *)
(* of routes and geometry (BundlesTyped), and those on what the plan of    *)
(* the interior collectors consists of.                                    *)
(*                                                                         *)
(* SumOf, Joined, CorridorOffsets and SeparatedPlaces are folds: each is   *)
(* shown to be the end of a row of stages, one for each element.           *)
EXTENDS GroupExpansion, BundleApplication, DigraphFacts, SequenceTheorems

-----------------------------------------------------------------------------
(* The first fault of several checks.                                      *)

LEMMA LeastIsMember ==
  ASSUME NEW S \in SUBSET Int, IsFiniteSet(S), S # {}
  PROVE  Min(S) \in S
<1>1. PICK f \in [S -> Int] : \A x \in S : f[x] = -x
  <2>1. [x \in S |-> -x] \in [S -> Int]
    OBVIOUS
  <2> QED BY <2>1
<1>a. PICK M : M = {f[x] : x \in S}
  OBVIOUS
<1>2. Max(M) \in M /\ \A y \in M : Max(M) >= y
  BY <1>a, GreatestValue
<1>3. PICK x \in S : Max(M) = -x
  BY <1>1, <1>a, <1>2
<1>4. \A y \in S : x <= y
  <2>1. ASSUME NEW y \in S PROVE x <= y
    <3>1. Max(M) >= -y
      BY <1>1, <1>a, <1>2
    <3>2. x \in Int /\ y \in Int
      OBVIOUS
    <3> QED BY <1>3, <3>1, <3>2
  <2> QED BY <2>1
<1>5. \E y \in S : \A z \in S : y =< z
  BY <1>4
<1> QED BY <1>5 DEF Min

LEMMA NoFirstError ==
  ASSUME NEW errors, DOMAIN errors \in SUBSET Int, IsFiniteSet(DOMAIN errors)
  PROVE  FirstError(errors) = None <=> \A i \in DOMAIN errors : errors[i] = None
<1> DEFINE faulty == {i \in DOMAIN errors : errors[i] # None}
<1>1. CASE faulty = {}
  BY <1>1 DEF FirstError
<1>2. CASE faulty # {}
  <2>1. faulty \in SUBSET Int /\ IsFiniteSet(faulty)
    BY FS_Subset
  <2>2. Min(faulty) \in faulty
    BY <1>2, <2>1, LeastIsMember
  <2>3. FirstError(errors) = errors[Min(faulty)]
    BY <1>2 DEF FirstError
  <2> QED BY <1>2, <2>2, <2>3
<1> QED BY <1>1, <1>2

LEMMA NoErrorOfMany ==
  ASSUME NEW n \in Nat, NEW errors, DOMAIN errors = 1 .. n
  PROVE  FirstError(errors) = None <=> \A i \in 1 .. n : errors[i] = None
<1>1. 1 .. n \in SUBSET Int /\ IsFiniteSet(1 .. n)
  BY FS_Interval
<1> QED BY <1>1, NoFirstError

LEMMA NoErrorOf ==
  /\ \A a, b : FirstError(<<a, b>>) = None <=> a = None /\ b = None
  /\ \A a, b, c : FirstError(<<a, b, c>>) = None <=> a = None /\ b = None /\ c = None
  /\ \A a, b, c, d : FirstError(<<a, b, c, d>>) = None
                       <=> a = None /\ b = None /\ c = None /\ d = None
  /\ \A a, b, c, d, e, f : FirstError(<<a, b, c, d, e, f>>) = None
                       <=> a = None /\ b = None /\ c = None /\ d = None /\ e = None /\ f = None
  /\ \A a, b, c, d, e, f, g, h, i, j, k, l, m :
       FirstError(<<a, b, c, d, e, f, g, h, i, j, k, l, m>>) = None
         <=> /\ a = None /\ b = None /\ c = None /\ d = None /\ e = None /\ f = None
             /\ g = None /\ h = None /\ i = None /\ j = None /\ k = None /\ l = None /\ m = None
<1>1. ASSUME NEW a, NEW b
      PROVE  FirstError(<<a, b>>) = None <=> a = None /\ b = None
  <2>1. PICK s : s = <<a, b>>
    OBVIOUS
  <2>2. DOMAIN s = 1 .. 2 /\ s[1] = a /\ s[2] = b
    BY <2>1
  <2>3. FirstError(s) = None <=> \A q \in 1 .. 2 : s[q] = None
    BY <2>2, NoErrorOfMany, 2 \in Nat
  <2>4. (\A q \in 1 .. 2 : s[q] = None) <=> s[1] = None /\ s[2] = None
    OBVIOUS
  <2> QED BY <2>1, <2>2, <2>3, <2>4
<1>2. ASSUME NEW a, NEW b, NEW c
      PROVE  FirstError(<<a, b, c>>) = None <=> a = None /\ b = None /\ c = None
  <2>1. PICK s : s = <<a, b, c>>
    OBVIOUS
  <2>2. DOMAIN s = 1 .. 3 /\ s[1] = a /\ s[2] = b /\ s[3] = c
    BY <2>1
  <2>3. FirstError(s) = None <=> \A q \in 1 .. 3 : s[q] = None
    BY <2>2, NoErrorOfMany, 3 \in Nat
  <2>4. (\A q \in 1 .. 3 : s[q] = None) <=> s[1] = None /\ s[2] = None /\ s[3] = None
    OBVIOUS
  <2> QED BY <2>1, <2>2, <2>3, <2>4
<1>3. ASSUME NEW a, NEW b, NEW c, NEW d
      PROVE  FirstError(<<a, b, c, d>>) = None <=> a = None /\ b = None /\ c = None /\ d = None
  <2>1. PICK s : s = <<a, b, c, d>>
    OBVIOUS
  <2>2. DOMAIN s = 1 .. 4 /\ s[1] = a /\ s[2] = b /\ s[3] = c /\ s[4] = d
    BY <2>1
  <2>3. FirstError(s) = None <=> \A q \in 1 .. 4 : s[q] = None
    BY <2>2, NoErrorOfMany, 4 \in Nat
  <2>4. (\A q \in 1 .. 4 : s[q] = None) <=> s[1] = None /\ s[2] = None /\ s[3] = None /\ s[4] = None
    OBVIOUS
  <2> QED BY <2>1, <2>2, <2>3, <2>4
<1>4. ASSUME NEW a, NEW b, NEW c, NEW d, NEW e, NEW f
      PROVE  FirstError(<<a, b, c, d, e, f>>) = None
               <=> a = None /\ b = None /\ c = None /\ d = None /\ e = None /\ f = None
  <2>1. PICK s : s = <<a, b, c, d, e, f>>
    OBVIOUS
  <2>2. DOMAIN s = 1 .. 6 /\ s[1] = a /\ s[2] = b /\ s[3] = c /\ s[4] = d /\ s[5] = e /\ s[6] = f
    BY <2>1
  <2>3. FirstError(s) = None <=> \A q \in 1 .. 6 : s[q] = None
    BY <2>2, NoErrorOfMany, 6 \in Nat
  <2>4. (\A q \in 1 .. 6 : s[q] = None)
          <=> /\ s[1] = None /\ s[2] = None /\ s[3] = None /\ s[4] = None /\ s[5] = None
              /\ s[6] = None
    OBVIOUS
  <2> QED BY <2>1, <2>2, <2>3, <2>4
<1>5. ASSUME NEW a, NEW b, NEW c, NEW d, NEW e, NEW f, NEW g, NEW h, NEW i, NEW j, NEW k, NEW l, NEW m
      PROVE  FirstError(<<a, b, c, d, e, f, g, h, i, j, k, l, m>>) = None
               <=> /\ a = None /\ b = None /\ c = None /\ d = None /\ e = None /\ f = None
                   /\ g = None /\ h = None /\ i = None /\ j = None /\ k = None /\ l = None /\ m = None
  <2>1. PICK s : s = <<a, b, c, d, e, f, g, h, i, j, k, l, m>>
    OBVIOUS
  <2>2. /\ DOMAIN s = 1 .. 13 /\ s[1] = a /\ s[2] = b /\ s[3] = c /\ s[4] = d
        /\ s[5] = e /\ s[6] = f /\ s[7] = g /\ s[8] = h /\ s[9] = i
        /\ s[10] = j /\ s[11] = k /\ s[12] = l /\ s[13] = m
    BY <2>1
  <2>3. FirstError(s) = None <=> \A q \in 1 .. 13 : s[q] = None
    BY <2>2, NoErrorOfMany, 13 \in Nat
  <2>4. (\A q \in 1 .. 13 : s[q] = None)
          <=> /\ s[1] = None /\ s[2] = None /\ s[3] = None /\ s[4] = None /\ s[5] = None
              /\ s[6] = None /\ s[7] = None /\ s[8] = None /\ s[9] = None /\ s[10] = None
              /\ s[11] = None /\ s[12] = None /\ s[13] = None
    OBVIOUS
  <2> QED BY <2>1, <2>2, <2>3, <2>4
<1> QED BY <1>1, <1>2, <1>3, <1>4, <1>5

-----------------------------------------------------------------------------
(* The contract.                                                           *)

\* What is checked of the graphs and the mapping, without the errors.
NodesAgree(compact, expanded, x) ==
  LET members == ToSet(x.members)
  IN  /\ x.members # <<>> /\ ~ HasRepeats(x.members)
      /\ x.anchor \in DOMAIN compact.nodes
      /\ x.anchor \notin DOMAIN expanded.nodes
      /\ members \subseteq DOMAIN expanded.nodes \ DOMAIN compact.nodes
      /\ \A n \in DOMAIN compact.nodes \ {x.anchor} :
           n \in DOMAIN expanded.nodes /\ expanded.nodes[n] = compact.nodes[n]
      /\ DOMAIN expanded.nodes \subseteq members \cup DOMAIN compact.nodes

EdgesAgree(compact, expanded, x) ==
  LET members == ToSet(x.members)
  IN  /\ \A id \in DOMAIN compact.edges :
           ~ Touches(compact.edges[id], {x.anchor})
             => id \in DOMAIN expanded.edges /\ expanded.edges[id] = compact.edges[id]
      /\ \A id \in DOMAIN expanded.edges :
           ~ Touches(expanded.edges[id], members)
             => id \in DOMAIN compact.edges /\ compact.edges[id] = expanded.edges[id]

TrunkFits(compact, expanded, x, i) ==
  LET members == ToSet(x.members)
      mapping == x.trunks[i]
  IN  /\ mapping.expanded \in BoundaryEdges(expanded, members)
      /\ mapping.compact \in CompactTrunks(compact, x.anchor)
      /\ \A j \in 1 .. i - 1 : x.trunks[j].expanded # mapping.expanded
      /\ Compatible(expanded.edges[mapping.expanded], compact.edges[mapping.compact], members, x.anchor)

TrunksAgree(compact, expanded, x) ==
  /\ \A i \in DOMAIN x.trunks : TrunkFits(compact, expanded, x, i)
  /\ BoundaryEdges(expanded, ToSet(x.members)) \subseteq {x.trunks[i].expanded : i \in DOMAIN x.trunks}
  /\ CompactTrunks(compact, x.anchor) \subseteq {x.trunks[i].compact : i \in DOMAIN x.trunks}

LEMMA ErrorsAreSome ==
  \A fault, e : e \in ContractErrors \cup GroupErrors => (If(fault, e) = None <=> ~ fault)
BY NoneAssumption DEF If

LEMMA TrunkErrorMeans ==
  ASSUME NEW compact, NEW expanded, NEW x, NEW i
  PROVE  MappingError(compact, expanded, x, i) = None <=> TrunkFits(compact, expanded, x, i)
<1> DEFINE members == ToSet(x.members)
           e == x.trunks[i].expanded
           t == x.trunks[i].compact
           unknown == e \notin BoundaryEdges(expanded, members)
           alien == t \notin CompactTrunks(compact, x.anchor)
           again == \E j \in 1 .. i - 1 : x.trunks[j].expanded = e
           unlike == /\ e \in BoundaryEdges(expanded, members)
                     /\ t \in CompactTrunks(compact, x.anchor)
                     /\ ~ Compatible(expanded.edges[e], compact.edges[t], members, x.anchor)
<1>1. MappingError(compact, expanded, x, i)
        = FirstError(<<If(unknown, "InvalidBoundaryEdge"), If(alien, "InvalidCompactTrunk"),
                       If(again, "DuplicateBoundaryTrunk"), If(unlike, "IncompatibleBoundaryTrunk")>>)
  BY DEF MappingError
<1>2. /\ If(unknown, "InvalidBoundaryEdge") = None <=> ~ unknown
      /\ If(alien, "InvalidCompactTrunk") = None <=> ~ alien
      /\ If(again, "DuplicateBoundaryTrunk") = None <=> ~ again
      /\ If(unlike, "IncompatibleBoundaryTrunk") = None <=> ~ unlike
  <2> HIDE DEF members, e, t, unknown, alien, again, unlike
  <2> QED BY ErrorsAreSome DEF ContractErrors
<1>3. TrunkFits(compact, expanded, x, i) <=> ~ unknown /\ ~ alien /\ ~ again /\ ~ unlike
  BY DEF TrunkFits
<1> HIDE DEF members, e, t, unknown, alien, again, unlike
<1> QED BY <1>1, <1>2, <1>3, NoErrorOf

LEMMA ElementsAreFinite ==
  ASSUME NEW S, NEW seq \in Seq(S)
  PROVE  IsFiniteSet(ToSet(seq)) /\ ToSet(seq) \subseteq S
<1>1. seq \in Surjection(1 .. Len(seq), ToSet(seq))
  BY DEF Surjection, ToSet
<1>2. IsFiniteSet(1 .. Len(seq))
  BY FS_Interval
<1> QED BY <1>1, <1>2, FS_Surjection DEF ToSet

\* An error of one of many is met by the loop over them.
LEMMA NoErrorAmong ==
  ASSUME NEW ids \in SUBSET Int, IsFiniteSet(ids), NEW errors, DOMAIN errors = ids
  PROVE  FirstError(errors) = None <=> \A id \in ids : errors[id] = None
BY NoFirstError

LEMMA ContractMeans ==
  ASSUME NEW compact, NEW expanded, NEW x,
         IsGraph(compact), IsGraph(expanded), IsMapping(x)
  PROVE  ContractError(compact, expanded, x) = None
           <=> /\ NodesAgree(compact, expanded, x)
               /\ EdgesAgree(compact, expanded, x)
               /\ TrunksAgree(compact, expanded, x)
               /\ Len(x.members) <= MaxMembers
<1> DEFINE members == ToSet(x.members)
           retained == DOMAIN compact.nodes \ {x.anchor}
           bystanders == {id \in DOMAIN compact.edges : ~ Touches(compact.edges[id], {x.anchor})}
           strange(m) == FirstError(<<If(m \notin DOMAIN expanded.nodes, "MissingMember"),
                                      If(m \in DOMAIN compact.nodes, "ExistingMember")>>)
           gone(n) == IF n \notin DOMAIN expanded.nodes THEN "MissingRetainedNode"
                      ELSE If(expanded.nodes[n] # compact.nodes[n], "ChangedRetainedNode")
           cut(id) == IF id \notin DOMAIN expanded.edges THEN "MissingRetainedEdge"
                      ELSE If(expanded.edges[id] # compact.edges[id], "ChangedRetainedEdge")
           foreign(id) == If(~ Touches(expanded.edges[id], members)
                               /\ (id \notin DOMAIN compact.edges \/ compact.edges[id] # expanded.edges[id]),
                             "ChangedRetainedEdge")
           strangers == [m \in members |-> strange(m)]
           goners == [n \in retained |-> gone(n)]
           cuts == [id \in bystanders |-> cut(id)]
           foreigners == [id \in DOMAIN expanded.edges |-> foreign(id)]
           misfits == [i \in DOMAIN x.trunks |-> MappingError(compact, expanded, x, i)]
           new == DOMAIN expanded.nodes \ (members \cup DOMAIN compact.nodes) # {}
           unmapped == BoundaryEdges(expanded, members)
                         \ {x.trunks[i].expanded : i \in DOMAIN x.trunks} # {}
<1>1. ContractError(compact, expanded, x) =
        FirstError(<<
          If(x.members = <<>>, "EmptyMembers"),
          If(Len(x.members) > MaxMembers, "TooManyMembers"),
          If(HasRepeats(x.members), "DuplicateMember"),
          If(x.anchor \notin DOMAIN compact.nodes, "MissingAnchor"),
          If(x.anchor \in DOMAIN expanded.nodes, "RetainedAnchor"),
          FirstError(strangers),
          FirstError(goners),
          If(new, "UnexpectedNode"),
          FirstError(cuts),
          FirstError(foreigners),
          FirstError(misfits),
          If(unmapped, "MissingBoundaryTrunk"),
          If(TrunksUnused(compact, x), "UnusedCompactTrunk")>>)
  BY DEF ContractError, LeastError
<1>2. /\ If(x.members = <<>>, "EmptyMembers") = None <=> x.members # <<>>
      /\ If(Len(x.members) > MaxMembers, "TooManyMembers") = None <=> ~ (Len(x.members) > MaxMembers)
      /\ If(HasRepeats(x.members), "DuplicateMember") = None <=> ~ HasRepeats(x.members)
      /\ If(x.anchor \notin DOMAIN compact.nodes, "MissingAnchor") = None <=> x.anchor \in DOMAIN compact.nodes
      /\ If(x.anchor \in DOMAIN expanded.nodes, "RetainedAnchor") = None <=> x.anchor \notin DOMAIN expanded.nodes
      /\ If(new, "UnexpectedNode") = None <=> ~ new
      /\ If(unmapped, "MissingBoundaryTrunk") = None <=> ~ unmapped
      /\ If(TrunksUnused(compact, x), "UnusedCompactTrunk") = None <=> ~ TrunksUnused(compact, x)
  <2> HIDE DEF new, unmapped
  <2> QED BY ErrorsAreSome DEF ContractErrors
<1>3. FirstError(strangers) = None
        <=> \A m \in members : m \in DOMAIN expanded.nodes /\ m \notin DOMAIN compact.nodes
  <2>1. members \in SUBSET Int /\ IsFiniteSet(members)
    BY ElementsAreFinite DEF IsMapping
  <2>2. DOMAIN strangers = members /\ \A m \in members : strangers[m] = strange(m)
    OBVIOUS
  <2>3. ASSUME NEW m PROVE strange(m) = None <=> m \in DOMAIN expanded.nodes /\ m \notin DOMAIN compact.nodes
    <3>1. /\ If(m \notin DOMAIN expanded.nodes, "MissingMember") = None <=> m \in DOMAIN expanded.nodes
          /\ If(m \in DOMAIN compact.nodes, "ExistingMember") = None <=> m \notin DOMAIN compact.nodes
      BY ErrorsAreSome DEF ContractErrors
    <3> QED BY <3>1, NoErrorOf
  <2> HIDE DEF strangers, members, strange
  <2> QED BY <2>1, <2>2, <2>3, NoErrorAmong
<1>4. FirstError(goners) = None
        <=> \A n \in retained : n \in DOMAIN expanded.nodes /\ expanded.nodes[n] = compact.nodes[n]
  <2>1. retained \in SUBSET Int /\ IsFiniteSet(retained)
    BY FS_Subset DEF IsGraph
  <2>2. DOMAIN goners = retained /\ \A n \in retained : goners[n] = gone(n)
    OBVIOUS
  <2>3. ASSUME NEW n
        PROVE  gone(n) = None <=> n \in DOMAIN expanded.nodes /\ expanded.nodes[n] = compact.nodes[n]
    BY ErrorsAreSome, NoneAssumption DEF ContractErrors
  <2> HIDE DEF goners, retained, gone
  <2> QED BY <2>1, <2>2, <2>3, NoErrorAmong
<1>5. FirstError(cuts) = None
        <=> \A id \in bystanders : id \in DOMAIN expanded.edges /\ expanded.edges[id] = compact.edges[id]
  <2>1. bystanders \in SUBSET Int /\ IsFiniteSet(bystanders)
    BY FS_Subset DEF IsGraph
  <2>2. DOMAIN cuts = bystanders /\ \A id \in bystanders : cuts[id] = cut(id)
    OBVIOUS
  <2>3. ASSUME NEW id
        PROVE  cut(id) = None <=> id \in DOMAIN expanded.edges /\ expanded.edges[id] = compact.edges[id]
    BY ErrorsAreSome, NoneAssumption DEF ContractErrors
  <2> HIDE DEF cuts, bystanders, cut
  <2> QED BY <2>1, <2>2, <2>3, NoErrorAmong
<1>6. FirstError(foreigners) = None
        <=> \A id \in DOMAIN expanded.edges :
              ~ Touches(expanded.edges[id], members)
                => id \in DOMAIN compact.edges /\ compact.edges[id] = expanded.edges[id]
  <2>1. DOMAIN expanded.edges \in SUBSET Int /\ IsFiniteSet(DOMAIN expanded.edges)
    BY DEF IsGraph
  <2>2. DOMAIN foreigners = DOMAIN expanded.edges
        /\ \A id \in DOMAIN expanded.edges : foreigners[id] = foreign(id)
    OBVIOUS
  <2>3. ASSUME NEW id
        PROVE  foreign(id) = None
                 <=> (~ Touches(expanded.edges[id], members)
                       => id \in DOMAIN compact.edges /\ compact.edges[id] = expanded.edges[id])
    BY ErrorsAreSome DEF ContractErrors
  <2> HIDE DEF foreigners, foreign
  <2> QED BY <2>1, <2>2, <2>3, NoErrorAmong
<1>7. FirstError(misfits) = None <=> \A i \in DOMAIN x.trunks : TrunkFits(compact, expanded, x, i)
  <2>1. DOMAIN x.trunks \in SUBSET Int /\ IsFiniteSet(DOMAIN x.trunks)
    BY FS_Interval DEF IsMapping
  <2>2. DOMAIN misfits = DOMAIN x.trunks
        /\ \A i \in DOMAIN x.trunks : misfits[i] = MappingError(compact, expanded, x, i)
    OBVIOUS
  <2> HIDE DEF misfits
  <2> QED BY <2>1, <2>2, TrunkErrorMeans, NoErrorAmong
<1>8. ~ (Len(x.members) > MaxMembers) <=> Len(x.members) <= MaxMembers
  BY LimitsAssumption DEF IsMapping
<1>9. NodesAgree(compact, expanded, x)
        <=> /\ x.members # <<>> /\ ~ HasRepeats(x.members)
            /\ x.anchor \in DOMAIN compact.nodes /\ x.anchor \notin DOMAIN expanded.nodes
            /\ \A m \in members : m \in DOMAIN expanded.nodes /\ m \notin DOMAIN compact.nodes
            /\ \A n \in retained : n \in DOMAIN expanded.nodes /\ expanded.nodes[n] = compact.nodes[n]
            /\ ~ new
  BY DEF NodesAgree
<1>10. EdgesAgree(compact, expanded, x)
        <=> /\ \A id \in bystanders : id \in DOMAIN expanded.edges /\ expanded.edges[id] = compact.edges[id]
            /\ \A id \in DOMAIN expanded.edges :
                 ~ Touches(expanded.edges[id], members)
                   => id \in DOMAIN compact.edges /\ compact.edges[id] = expanded.edges[id]
  BY DEF EdgesAgree
<1>11. TrunksAgree(compact, expanded, x)
        <=> /\ \A i \in DOMAIN x.trunks : TrunkFits(compact, expanded, x, i)
            /\ ~ unmapped /\ ~ TrunksUnused(compact, x)
  BY DEF TrunksAgree, TrunksUnused
<1> HIDE DEF members, retained, bystanders, strangers, goners, cuts, foreigners, misfits, new, unmapped
<1>12. FirstError(<<
          If(x.members = <<>>, "EmptyMembers"),
          If(Len(x.members) > MaxMembers, "TooManyMembers"),
          If(HasRepeats(x.members), "DuplicateMember"),
          If(x.anchor \notin DOMAIN compact.nodes, "MissingAnchor"),
          If(x.anchor \in DOMAIN expanded.nodes, "RetainedAnchor"),
          FirstError(strangers),
          FirstError(goners),
          If(new, "UnexpectedNode"),
          FirstError(cuts),
          FirstError(foreigners),
          FirstError(misfits),
          If(unmapped, "MissingBoundaryTrunk"),
          If(TrunksUnused(compact, x), "UnusedCompactTrunk")>>) = None
        <=> /\ If(x.members = <<>>, "EmptyMembers") = None
            /\ If(Len(x.members) > MaxMembers, "TooManyMembers") = None
            /\ If(HasRepeats(x.members), "DuplicateMember") = None
            /\ If(x.anchor \notin DOMAIN compact.nodes, "MissingAnchor") = None
            /\ If(x.anchor \in DOMAIN expanded.nodes, "RetainedAnchor") = None
            /\ FirstError(strangers) = None
            /\ FirstError(goners) = None
            /\ If(new, "UnexpectedNode") = None
            /\ FirstError(cuts) = None
            /\ FirstError(foreigners) = None
            /\ FirstError(misfits) = None
            /\ If(unmapped, "MissingBoundaryTrunk") = None
            /\ If(TrunksUnused(compact, x), "UnusedCompactTrunk") = None
  BY NoErrorOf
<1>13. ContractError(compact, expanded, x) = None
        <=> /\ x.members # <<>> /\ ~ (Len(x.members) > MaxMembers) /\ ~ HasRepeats(x.members)
            /\ x.anchor \in DOMAIN compact.nodes /\ x.anchor \notin DOMAIN expanded.nodes
            /\ FirstError(strangers) = None
            /\ FirstError(goners) = None
            /\ ~ new
            /\ FirstError(cuts) = None
            /\ FirstError(foreigners) = None
            /\ FirstError(misfits) = None
            /\ ~ unmapped
            /\ ~ TrunksUnused(compact, x)
  BY <1>1, <1>2, <1>12
<1> QED BY <1>3, <1>4, <1>5, <1>6, <1>7, <1>8, <1>9, <1>10, <1>11, <1>13

\* What every edge of a graph is, and where the ends of a border edge are.
LEMMA EdgesEnd ==
  ASSUME NEW graph, IsGraph(graph), NEW e \in DOMAIN graph.edges
  PROVE  /\ graph.edges[e].source[1] \in DOMAIN graph.nodes
         /\ graph.edges[e].target[1] \in DOMAIN graph.nodes
         /\ graph.edges[e].source = <<graph.edges[e].source[1], graph.edges[e].source[2]>>
         /\ graph.edges[e].target = <<graph.edges[e].target[1], graph.edges[e].target[2]>>
         /\ graph.edges[e] = [source |-> graph.edges[e].source, target |-> graph.edges[e].target]
BY DEF IsGraph

LEMMA AgreeingIsQuotient ==
  ASSUME NEW compact, NEW expanded, NEW x,
         IsGraph(compact), IsGraph(expanded), IsMapping(x),
         NodesAgree(compact, expanded, x), EdgesAgree(compact, expanded, x),
         TrunksAgree(compact, expanded, x)
  PROVE  IsQuotient(compact, expanded, x)
<1> DEFINE members == ToSet(x.members)
           retained == DOMAIN expanded.nodes \ members
           boundary == BoundaryEdges(expanded, members)
           outside == {id \in DOMAIN expanded.edges : ~ Touches(expanded.edges[id], members)}
           image(end) == IF end[1] \in members THEN <<x.anchor>> ELSE end
           trunkEnd(end) == IF end[1] = x.anchor THEN <<x.anchor>> ELSE end
           E(i) == expanded.edges[x.trunks[i].expanded]
           T(i) == compact.edges[x.trunks[i].compact]
<1>1. /\ members # {} /\ members \subseteq DOMAIN expanded.nodes \ DOMAIN compact.nodes
      /\ x.anchor \notin DOMAIN expanded.nodes /\ ~ HasRepeats(x.members)
  <2>1. members # {}
    <3>1. x.members \in Seq(Nat) /\ x.members # <<>>
      BY DEF NodesAgree, IsMapping
    <3>2. x.members[1] \in ToSet(x.members)
      BY <3>1 DEF ToSet
    <3> QED BY <3>2
  <2> QED BY <2>1 DEF NodesAgree
<1>2. DOMAIN compact.nodes = retained \cup {x.anchor}
  BY <1>1 DEF NodesAgree
<1>3. \A n \in retained : compact.nodes[n] = expanded.nodes[n]
  BY <1>1 DEF NodesAgree
<1>4. {x.trunks[i].expanded : i \in DOMAIN x.trunks} = boundary
  BY DEF TrunksAgree, TrunkFits
<1>5. ~ HasRepeats([i \in DOMAIN x.trunks |-> x.trunks[i].expanded])
  <2>1. ASSUME NEW i \in DOMAIN x.trunks, NEW j \in DOMAIN x.trunks, i # j
        PROVE  x.trunks[i].expanded # x.trunks[j].expanded
    <3>1. i \in 1 .. j - 1 \/ j \in 1 .. i - 1
      BY <2>1 DEF IsMapping
    <3>2. TrunkFits(compact, expanded, x, i) /\ TrunkFits(compact, expanded, x, j)
      BY DEF TrunksAgree
    <3>3. /\ \A k \in 1 .. i - 1 : x.trunks[k].expanded # x.trunks[i].expanded
          /\ \A k \in 1 .. j - 1 : x.trunks[k].expanded # x.trunks[j].expanded
      BY <3>2 DEF TrunkFits
    <3> QED BY <3>1, <3>3
  <2> QED BY <2>1 DEF HasRepeats
<1>6. \A id \in outside : id \in DOMAIN compact.edges /\ compact.edges[id] = expanded.edges[id]
  BY DEF EdgesAgree
<1>7. DOMAIN compact.edges = outside \cup {x.trunks[i].compact : i \in DOMAIN x.trunks}
  <2>1. ASSUME NEW id \in DOMAIN compact.edges, ~ Touches(compact.edges[id], {x.anchor})
        PROVE  id \in outside
    <3>1. id \in DOMAIN expanded.edges /\ expanded.edges[id] = compact.edges[id]
      BY <2>1 DEF EdgesAgree
    <3>2. compact.edges[id].source[1] \notin members /\ compact.edges[id].target[1] \notin members
      BY <1>1, EdgesEnd
    <3> QED BY <3>1, <3>2 DEF Touches
  <2>2. \A i \in DOMAIN x.trunks : x.trunks[i].compact \in DOMAIN compact.edges
    BY DEF TrunksAgree, TrunkFits, CompactTrunks
  <2>3. \A id \in DOMAIN compact.edges : Touches(compact.edges[id], {x.anchor})
            => id \in {x.trunks[i].compact : i \in DOMAIN x.trunks}
    BY DEF TrunksAgree, CompactTrunks
  <2> QED BY <1>6, <2>1, <2>2, <2>3
<1>8. ASSUME NEW i \in DOMAIN x.trunks
      PROVE  image(E(i).source) = trunkEnd(T(i).source) /\ image(E(i).target) = trunkEnd(T(i).target)
  <2>1. /\ x.trunks[i].expanded \in boundary
        /\ x.trunks[i].compact \in DOMAIN compact.edges
        /\ Compatible(E(i), T(i), members, x.anchor)
    BY DEF TrunksAgree, TrunkFits, CompactTrunks
  <2>2. /\ x.trunks[i].expanded \in DOMAIN expanded.edges
        /\ E(i).source[1] \in members \/ E(i).target[1] \in members
        /\ ~ (E(i).source[1] \in members /\ E(i).target[1] \in members)
    BY <2>1 DEF BoundaryEdges, Touches, Internal
  <2>3. E(i).source[1] # x.anchor /\ E(i).target[1] # x.anchor
    BY <2>2, <1>1, EdgesEnd
  <2>4. CASE E(i).source[1] \in members
    <3>1. T(i).source[1] = x.anchor /\ T(i).target = E(i).target /\ E(i).target[1] \notin members
      BY <2>1, <2>2, <2>4 DEF Compatible
    <3> QED BY <2>3, <2>4, <3>1
  <2>5. CASE E(i).source[1] \notin members
    <3>1. T(i).target[1] = x.anchor /\ T(i).source = E(i).source /\ E(i).target[1] \in members
      BY <2>1, <2>2, <2>5 DEF Compatible
    <3> QED BY <2>3, <2>5, <3>1
  <2> QED BY <2>4, <2>5
<1> QED
  <2> HIDE DEF members, retained, boundary
  <2>1. ASSUME NEW i \in DOMAIN x.trunks
        PROVE  LET edge == expanded.edges[x.trunks[i].expanded]
                   trunk == compact.edges[x.trunks[i].compact]
               IN  /\ image(edge.source) = trunkEnd(trunk.source)
                   /\ image(edge.target) = trunkEnd(trunk.target)
    BY <1>8
  <2> HIDE DEF outside, image, trunkEnd
  <2> QED
    BY <1>1, <1>2, <1>3, <1>4, <1>5, <1>6, <1>7, <2>1
       DEF IsQuotient, members, retained, boundary, outside, image, trunkEnd

LEMMA QuotientAgrees ==
  ASSUME NEW compact, NEW expanded, NEW x,
         IsGraph(compact), IsGraph(expanded), IsMapping(x), IsQuotient(compact, expanded, x)
  PROVE  /\ NodesAgree(compact, expanded, x)
         /\ EdgesAgree(compact, expanded, x)
         /\ TrunksAgree(compact, expanded, x)
<1> DEFINE members == ToSet(x.members)
           retained == DOMAIN expanded.nodes \ members
           boundary == BoundaryEdges(expanded, members)
           outside == {id \in DOMAIN expanded.edges : ~ Touches(expanded.edges[id], members)}
           image(end) == IF end[1] \in members THEN <<x.anchor>> ELSE end
           trunkEnd(end) == IF end[1] = x.anchor THEN <<x.anchor>> ELSE end
           E(i) == expanded.edges[x.trunks[i].expanded]
           T(i) == compact.edges[x.trunks[i].compact]
<1>1. /\ members # {} /\ members \subseteq DOMAIN expanded.nodes \ DOMAIN compact.nodes
      /\ x.anchor \notin DOMAIN expanded.nodes /\ ~ HasRepeats(x.members)
      /\ DOMAIN compact.nodes = retained \cup {x.anchor}
      /\ \A n \in retained : compact.nodes[n] = expanded.nodes[n]
  BY DEF IsQuotient
<1>2. /\ {x.trunks[i].expanded : i \in DOMAIN x.trunks} = boundary
      /\ ~ HasRepeats([i \in DOMAIN x.trunks |-> x.trunks[i].expanded])
      /\ DOMAIN compact.edges = outside \cup {x.trunks[i].compact : i \in DOMAIN x.trunks}
      /\ \A id \in outside : compact.edges[id] = expanded.edges[id]
  BY DEF IsQuotient
<1>3. \A i \in DOMAIN x.trunks :
        image(E(i).source) = trunkEnd(T(i).source) /\ image(E(i).target) = trunkEnd(T(i).target)
  BY DEF IsQuotient
<1>4. NodesAgree(compact, expanded, x)
  <2>1. x.members # <<>>
    BY <1>1 DEF ToSet
  <2> QED BY <1>1, <2>1 DEF NodesAgree
<1>5. ASSUME NEW i \in DOMAIN x.trunks
      PROVE  /\ x.trunks[i].compact \in CompactTrunks(compact, x.anchor)
             /\ Compatible(E(i), T(i), members, x.anchor)
  <2>1. /\ x.trunks[i].expanded \in boundary
        /\ x.trunks[i].compact \in DOMAIN compact.edges
    BY <1>2
  <2>2. /\ x.trunks[i].expanded \in DOMAIN expanded.edges
        /\ E(i).source[1] \in members \/ E(i).target[1] \in members
        /\ ~ (E(i).source[1] \in members /\ E(i).target[1] \in members)
    BY <2>1 DEF BoundaryEdges, Touches, Internal
  <2>3. E(i).source[1] # x.anchor /\ E(i).target[1] # x.anchor
    BY <2>2, <1>1, EdgesEnd
  <2>a. <<x.anchor>>[1] = x.anchor
    OBVIOUS
  <2>4. ASSUME NEW end, trunkEnd(end) = <<x.anchor>> PROVE end[1] = x.anchor
    BY <2>4, <2>a
  <2>5. ASSUME NEW end, NEW e, e[1] # x.anchor, trunkEnd(end) = e PROVE end = e
    BY <2>5, <2>a
  <2>6. CASE E(i).source[1] \in members
    <3>1. trunkEnd(T(i).source) = <<x.anchor>> /\ trunkEnd(T(i).target) = E(i).target
      BY <1>3, <2>2, <2>6
    <3>2. T(i).source[1] = x.anchor /\ T(i).target = E(i).target
      BY <2>3, <2>4, <2>5, <3>1
    <3> QED BY <2>1, <2>6, <3>2 DEF Compatible, CompactTrunks, Touches
  <2>7. CASE E(i).source[1] \notin members
    <3>1. trunkEnd(T(i).target) = <<x.anchor>> /\ trunkEnd(T(i).source) = E(i).source
      BY <1>3, <2>2, <2>7
    <3>2. T(i).target[1] = x.anchor /\ T(i).source = E(i).source
      BY <2>3, <2>4, <2>5, <3>1
    <3> QED BY <2>1, <2>7, <3>2 DEF Compatible, CompactTrunks, Touches
  <2> QED BY <2>6, <2>7
<1>6. EdgesAgree(compact, expanded, x)
  <2>1. ASSUME NEW id \in DOMAIN compact.edges, ~ Touches(compact.edges[id], {x.anchor})
        PROVE  id \in DOMAIN expanded.edges /\ expanded.edges[id] = compact.edges[id]
    <3>1. \A i \in DOMAIN x.trunks : x.trunks[i].compact # id
      BY <1>5, <2>1 DEF CompactTrunks
    <3>2. id \in outside
      BY <1>2, <3>1
    <3> QED BY <1>2, <3>2
  <2> QED BY <1>2, <2>1 DEF EdgesAgree
<1>7. TrunksAgree(compact, expanded, x)
  <2>1. ASSUME NEW i \in DOMAIN x.trunks, NEW j \in 1 .. i - 1
        PROVE  x.trunks[j].expanded # x.trunks[i].expanded
    <3>1. j \in DOMAIN x.trunks /\ j # i
      BY DEF IsMapping
    <3> QED BY <1>2, <3>1 DEF HasRepeats
  <2>2. ASSUME NEW id \in CompactTrunks(compact, x.anchor)
        PROVE  id \in {x.trunks[i].compact : i \in DOMAIN x.trunks}
    <3>1. id \in DOMAIN compact.edges /\ Touches(compact.edges[id], {x.anchor})
      BY DEF CompactTrunks
    <3>2. id \notin outside
      <4>1. SUFFICES ASSUME id \in outside PROVE FALSE
        OBVIOUS
      <4>2. id \in DOMAIN expanded.edges /\ Touches(expanded.edges[id], {x.anchor})
        BY <1>2, <3>1, <4>1
      <4> QED BY <1>1, <4>2, EdgesEnd DEF Touches
    <3> QED BY <1>2, <3>1, <3>2
  <2>3. ASSUME NEW i \in DOMAIN x.trunks PROVE x.trunks[i].expanded \in boundary
    BY <1>2
  <2>4. ASSUME NEW i \in DOMAIN x.trunks PROVE TrunkFits(compact, expanded, x, i)
    BY <1>5, <2>1, <2>3 DEF TrunkFits
  <2> QED BY <1>2, <2>2, <2>4 DEF TrunksAgree
<1> QED BY <1>4, <1>6, <1>7

-----------------------------------------------------------------------------
(* Groups that are open already.                                           *)

GroupFits(compact, expanded, x, groups, i) ==
  /\ \A j \in 1 .. i - 1 : groups[j].id # groups[i].id
  /\ groups[i].id # x.anchor /\ groups[i].members # <<>> /\ groups[i].padding >= 0
  /\ ~ HasRepeats(groups[i].members)
  /\ \A m \in ToSet(groups[i].members) :
       /\ m \notin ToSet(x.members)
       /\ m \in DOMAIN compact.nodes /\ m \in DOMAIN expanded.nodes
       /\ compact.nodes[m] = expanded.nodes[m]
       /\ \A j \in 1 .. i - 1 : m \notin ToSet(groups[j].members)

LEMMA GroupErrorMeans ==
  ASSUME NEW compact, NEW expanded, NEW x, NEW groups, AreGroups(groups), NEW i \in DOMAIN groups
  PROVE  GroupError(compact, expanded, x, groups, i) = None <=> GroupFits(compact, expanded, x, groups, i)
<1> DEFINE members == ToSet(groups[i].members)
           again == \E j \in 1 .. i - 1 : groups[j].id = groups[i].id
           missing(m) == \/ m \notin DOMAIN compact.nodes
                         \/ m \notin DOMAIN expanded.nodes
                         \/ compact.nodes[m] # expanded.nodes[m]
           protected(m) == \E j \in 1 .. i - 1 : m \in ToSet(groups[j].members)
           bad(m) == FirstError(<<If(m \in ToSet(x.members), "ProtectedCurrentMember"),
                                  If(missing(m), "MissingProtectedGroupMember"),
                                  If(protected(m), "OverlappingProtectedGroups")>>)
           bads == [m \in members |-> bad(m)]
<1>a. groups[i].members \in Seq(Nat) /\ groups[i].padding \in Int
  <2>1. groups[i] \in [id : Nat, members : Seq(Nat), padding : Int]
    <3>1. PICK G : G = [id : Nat, members : Seq(Nat), padding : Int]
      OBVIOUS
    <3>2. groups \in Seq(G)
      BY <3>1 DEF AreGroups
    <3>3. groups[i] \in G
      BY <3>2
    <3> QED BY <3>1, <3>3
  <2> QED BY <2>1
<1>1. GroupError(compact, expanded, x, groups, i) =
        FirstError(<<If(again, "DuplicateProtectedGroup"),
                     If(groups[i].id = x.anchor, "ProtectedCurrentGroup"),
                     If(groups[i].members = <<>>, "EmptyProtectedGroup"),
                     If(groups[i].padding < 0, "InvalidProtectedGroupPadding"),
                     If(HasRepeats(groups[i].members), "DuplicateProtectedGroupMember"),
                     FirstError(bads)>>)
  BY DEF GroupError, LeastError
<1>2. /\ If(again, "DuplicateProtectedGroup") = None <=> ~ again
      /\ If(groups[i].id = x.anchor, "ProtectedCurrentGroup") = None <=> groups[i].id # x.anchor
      /\ If(groups[i].members = <<>>, "EmptyProtectedGroup") = None <=> groups[i].members # <<>>
      /\ If(groups[i].padding < 0, "InvalidProtectedGroupPadding") = None <=> ~ (groups[i].padding < 0)
      /\ If(HasRepeats(groups[i].members), "DuplicateProtectedGroupMember") = None
           <=> ~ HasRepeats(groups[i].members)
  <2> HIDE DEF again
  <2> QED BY ErrorsAreSome DEF GroupErrors
<1>3. FirstError(bads) = None
        <=> \A m \in members : m \notin ToSet(x.members) /\ ~ missing(m) /\ ~ protected(m)
  <2>1. members \in SUBSET Int /\ IsFiniteSet(members)
    BY <1>a, ElementsAreFinite
  <2>2. DOMAIN bads = members /\ \A m \in members : bads[m] = bad(m)
    OBVIOUS
  <2>3. ASSUME NEW m
        PROVE  bad(m) = None <=> m \notin ToSet(x.members) /\ ~ missing(m) /\ ~ protected(m)
    <3>1. /\ If(m \in ToSet(x.members), "ProtectedCurrentMember") = None <=> m \notin ToSet(x.members)
          /\ If(missing(m), "MissingProtectedGroupMember") = None <=> ~ missing(m)
          /\ If(protected(m), "OverlappingProtectedGroups") = None <=> ~ protected(m)
      <4> HIDE DEF missing, protected
      <4> QED BY ErrorsAreSome DEF GroupErrors
    <3> HIDE DEF missing, protected
    <3> QED BY <3>1, NoErrorOf
  <2> HIDE DEF bads, members, bad, missing, protected
  <2> QED BY <2>1, <2>2, <2>3, NoErrorAmong
<1>4. ~ (groups[i].padding < 0) <=> groups[i].padding >= 0
  BY <1>a
<1>5. GroupFits(compact, expanded, x, groups, i)
        <=> /\ ~ again /\ groups[i].id # x.anchor /\ groups[i].members # <<>>
            /\ groups[i].padding >= 0 /\ ~ HasRepeats(groups[i].members)
            /\ \A m \in members : m \notin ToSet(x.members) /\ ~ missing(m) /\ ~ protected(m)
  BY DEF GroupFits
<1> HIDE DEF members, again, missing, protected, bads
<1>6. FirstError(<<If(again, "DuplicateProtectedGroup"),
                   If(groups[i].id = x.anchor, "ProtectedCurrentGroup"),
                   If(groups[i].members = <<>>, "EmptyProtectedGroup"),
                   If(groups[i].padding < 0, "InvalidProtectedGroupPadding"),
                   If(HasRepeats(groups[i].members), "DuplicateProtectedGroupMember"),
                   FirstError(bads)>>) = None
        <=> /\ If(again, "DuplicateProtectedGroup") = None
            /\ If(groups[i].id = x.anchor, "ProtectedCurrentGroup") = None
            /\ If(groups[i].members = <<>>, "EmptyProtectedGroup") = None
            /\ If(groups[i].padding < 0, "InvalidProtectedGroupPadding") = None
            /\ If(HasRepeats(groups[i].members), "DuplicateProtectedGroupMember") = None
            /\ FirstError(bads) = None
  BY NoErrorOf
<1> QED BY <1>1, <1>2, <1>3, <1>4, <1>5, <1>6

LEMMA ProtectedErrorMeans ==
  ASSUME NEW compact, NEW expanded, NEW x, NEW groups, AreGroups(groups)
  PROVE  ProtectedError(compact, expanded, x, groups) = None
           <=> /\ Len(groups) <= MaxGroups
               /\ ~ (SumLengths(groups) > MaxGroupMembers)
               /\ \A i \in DOMAIN groups : GroupFits(compact, expanded, x, groups, i)
<1> DEFINE misfits == [i \in DOMAIN groups |-> GroupError(compact, expanded, x, groups, i)]
<1>1. ProtectedError(compact, expanded, x, groups) =
        FirstError(<<If(Len(groups) > MaxGroups, "TooManyProtectedGroups"),
                     If(SumLengths(groups) > MaxGroupMembers, "TooManyProtectedGroupMembers"),
                     FirstError(misfits)>>)
  BY DEF ProtectedError, LeastError
<1>2. /\ If(Len(groups) > MaxGroups, "TooManyProtectedGroups") = None <=> ~ (Len(groups) > MaxGroups)
      /\ If(SumLengths(groups) > MaxGroupMembers, "TooManyProtectedGroupMembers") = None
           <=> ~ (SumLengths(groups) > MaxGroupMembers)
  BY ErrorsAreSome DEF GroupErrors
<1>3. ~ (Len(groups) > MaxGroups) <=> Len(groups) <= MaxGroups
  BY LimitsAssumption DEF AreGroups
<1>4. FirstError(misfits) = None <=> \A i \in DOMAIN groups : GroupFits(compact, expanded, x, groups, i)
  <2>1. DOMAIN groups \in SUBSET Int /\ IsFiniteSet(DOMAIN groups)
    BY FS_Interval DEF AreGroups
  <2>2. DOMAIN misfits = DOMAIN groups
        /\ \A i \in DOMAIN groups : misfits[i] = GroupError(compact, expanded, x, groups, i)
    OBVIOUS
  <2> HIDE DEF misfits
  <2> QED BY <2>1, <2>2, GroupErrorMeans, NoErrorAmong
<1> HIDE DEF misfits
<1> QED BY <1>1, <1>2, <1>3, <1>4, NoErrorOf

LEMMA FittingArePeers ==
  ASSUME NEW compact, NEW expanded, NEW x, NEW groups, AreGroups(groups),
         IsQuotient(compact, expanded, x)
  PROVE  (\A i \in DOMAIN groups : GroupFits(compact, expanded, x, groups, i))
           <=> ArePeers(compact, expanded, x, groups)
<1>1. ASSUME NEW m
      PROVE  /\ m \notin ToSet(x.members)
             /\ m \in DOMAIN compact.nodes /\ m \in DOMAIN expanded.nodes
             /\ compact.nodes[m] = expanded.nodes[m]
             <=> m \in DOMAIN compact.nodes \ {x.anchor}
  BY DEF IsQuotient
<1>2. ASSUME \A i \in DOMAIN groups : GroupFits(compact, expanded, x, groups, i)
      PROVE  ArePeers(compact, expanded, x, groups)
  <2>1. ASSUME NEW i \in DOMAIN groups, NEW j \in DOMAIN groups, i # j
        PROVE  /\ groups[i].id # groups[j].id
               /\ ToSet(groups[i].members) \cap ToSet(groups[j].members) = {}
    <3>1. i \in 1 .. j - 1 \/ j \in 1 .. i - 1
      BY <2>1 DEF AreGroups
    <3>2. GroupFits(compact, expanded, x, groups, i) /\ GroupFits(compact, expanded, x, groups, j)
      BY <1>2
    <3>3. /\ \A k \in 1 .. i - 1 : groups[k].id # groups[i].id
          /\ \A k \in 1 .. j - 1 : groups[k].id # groups[j].id
          /\ \A m \in ToSet(groups[i].members) : \A k \in 1 .. i - 1 : m \notin ToSet(groups[k].members)
          /\ \A m \in ToSet(groups[j].members) : \A k \in 1 .. j - 1 : m \notin ToSet(groups[k].members)
      BY <3>2 DEF GroupFits
    <3> QED BY <3>1, <3>3
  <2>2. ~ HasRepeats([i \in DOMAIN groups |-> groups[i].id])
    BY <2>1 DEF HasRepeats
  <2>3. ASSUME NEW i \in DOMAIN groups
        PROVE  /\ groups[i].id # x.anchor /\ groups[i].padding >= 0
               /\ groups[i].members # <<>> /\ ~ HasRepeats(groups[i].members)
               /\ ToSet(groups[i].members) \subseteq DOMAIN compact.nodes \ {x.anchor}
    BY <1>1, <1>2 DEF GroupFits
  <2> QED BY <2>1, <2>2, <2>3 DEF ArePeers
<1>3. ASSUME ArePeers(compact, expanded, x, groups), NEW i \in DOMAIN groups
      PROVE  GroupFits(compact, expanded, x, groups, i)
  <2>1. ASSUME NEW j \in 1 .. i - 1
        PROVE  /\ groups[j].id # groups[i].id
               /\ ToSet(groups[j].members) \cap ToSet(groups[i].members) = {}
    <3>1. j \in DOMAIN groups /\ j # i
      BY DEF AreGroups
    <3> QED BY <1>3, <3>1 DEF ArePeers, HasRepeats
  <2>2. /\ groups[i].id # x.anchor /\ groups[i].padding >= 0
        /\ groups[i].members # <<>> /\ ~ HasRepeats(groups[i].members)
        /\ ToSet(groups[i].members) \subseteq DOMAIN compact.nodes \ {x.anchor}
    BY <1>3 DEF ArePeers
  <2> QED BY <1>1, <2>1, <2>2 DEF GroupFits
<1> QED BY <1>2, <1>3

-----------------------------------------------------------------------------
(* Requests are those of callers.                                          *)

LEMMA CallsStay == Spec => []IsCall(call)
<1>1. Init => IsCall(call)
  BY CallsAssumption DEF Init
<1>2. IsCall(call) /\ [Next]_vars => IsCall(call)'
  <2> SUFFICES ASSUME IsCall(call), [Next]_vars PROVE IsCall(call)'
    OBVIOUS
  <2>1. call' = call
    BY DEF Next, vars, Check, OpenHorizontal, OpenVertical, PlanWithReflow, PlanWithout, PlanFails,
           Plan, TryReflow, PlaceHere, PassOver, Exhausted, Fail, OutOfWork
  <2> QED BY <2>1 DEF IsCall
<1> QED BY <1>1, <1>2, PTL DEF Spec

\* The checks of a request let through exactly the quotients of the expanded
\* graph and open groups of other nodes (validate_graph_contract,
\* validate_protected_groups), for all graphs, mappings and groups.
THEOREM QuotientsAreAccepted == Spec => []AcceptsQuotients
<1>1. IsCall(call) => AcceptsQuotients
  <2> SUFFICES ASSUME IsCall(call) PROVE AcceptsQuotients
    OBVIOUS
  <2>1. PICK compact, expanded, x, groups :
          compact = call.compact /\ expanded = call.expanded /\ x = call.x /\ groups = call.groups
    OBVIOUS
  <2>2. IsGraph(compact) /\ IsGraph(expanded) /\ IsMapping(x) /\ AreGroups(groups)
    BY <2>1 DEF IsCall
  <2>3. ContractError(compact, expanded, x) = None
          <=> IsQuotient(compact, expanded, x) /\ Len(x.members) <= MaxMembers
    BY <2>2, ContractMeans, AgreeingIsQuotient, QuotientAgrees
  <2>4. IsQuotient(compact, expanded, x)
          => (ProtectedError(compact, expanded, x, groups) = None
                <=> /\ ArePeers(compact, expanded, x, groups)
                    /\ Len(groups) <= MaxGroups
                    /\ ~ (SumLengths(groups) > MaxGroupMembers))
    BY <2>2, ProtectedErrorMeans, FittingArePeers
  <2> QED BY <2>1, <2>3, <2>4 DEF AcceptsQuotients
<1> QED BY <1>1, CallsStay, PTL

-----------------------------------------------------------------------------
(* Lists of positions.                                                     *)

\* Different ranks of as many elements as there are ranks leave none out.
LEMMA RanksAreTaken ==
  ASSUME NEW S, IsFiniteSet(S), NEW rank \in [S -> 1 .. Cardinality(S)],
         \A a, b \in S : rank[a] = rank[b] => a = b
  PROVE  \A k \in 1 .. Cardinality(S) : \E a \in S : rank[a] = k
<1>1. Cardinality(S) \in Nat
  BY FS_CardinalityType
<1>2. PICK n : n = Cardinality(S)
  OBVIOUS
<1>3. IsFiniteSet(1 .. n) /\ Cardinality(1 .. n) = n
  BY <1>1, <1>2, FS_Interval
<1>4. rank \in Injection(S, 1 .. n)
  BY <1>2 DEF Injection, IsInjective
<1>5. rank \in Surjection(S, 1 .. n)
  BY <1>2, <1>3, <1>4, FS_Injection
<1> QED BY <1>2, <1>5 DEF Surjection

LEMMA SmallerCount ==
  ASSUME NEW S, IsFiniteSet(S), NEW T \in SUBSET S, NEW x \in S, x \notin T
  PROVE  Cardinality(T) \in Nat /\ Cardinality(S) \in Nat /\ Cardinality(T) < Cardinality(S)
<1>1. IsFiniteSet(T) /\ Cardinality(T) <= Cardinality(S) /\ Cardinality(T) # Cardinality(S)
  BY FS_Subset
<1>2. Cardinality(T) \in Nat /\ Cardinality(S) \in Nat
  BY <1>1, FS_CardinalityType
<1> QED BY <1>1, <1>2

LEMMA PlacesAreCounted ==
  ASSUME NEW n \in Nat, NEW places \in SUBSET (1 .. n)
  PROVE  /\ IsFiniteSet(places) /\ Cardinality(places) \in Nat /\ Cardinality(places) <= n
         /\ \A k \in 1 .. Cardinality(places) : \E i \in places : CountUpTo(places, i) = k
<1>1. IsFiniteSet(1 .. n) /\ Cardinality(1 .. n) = n
  BY FS_Interval
<1>2. IsFiniteSet(places) /\ Cardinality(places) <= n
  BY <1>1, FS_Subset
<1>3. Cardinality(places) \in Nat
  BY <1>2, FS_CardinalityType
<1>4. ASSUME NEW i \in places
      PROVE  /\ IsFiniteSet(places \cap (1 .. i))
             /\ CountUpTo(places, i) \in 1 .. Cardinality(places)
  <2>1. places \cap (1 .. i) \in SUBSET places
    OBVIOUS
  <2>2. IsFiniteSet(places \cap (1 .. i)) /\ Cardinality(places \cap (1 .. i)) <= Cardinality(places)
    BY <1>2, <2>1, FS_Subset
  <2>3. i \in places \cap (1 .. i)
    OBVIOUS
  <2>4. Cardinality(places \cap (1 .. i)) \in Nat /\ Cardinality(places \cap (1 .. i)) # 0
    BY <2>2, <2>3, FS_CardinalityType, FS_EmptySet
  <2> QED BY <1>3, <2>2, <2>4 DEF CountUpTo
<1>5. ASSUME NEW i \in places, NEW j \in places, i < j
      PROVE  CountUpTo(places, i) < CountUpTo(places, j)
  <2>1. /\ places \cap (1 .. i) \in SUBSET (places \cap (1 .. j))
        /\ j \in places \cap (1 .. j) /\ j \notin places \cap (1 .. i)
    BY <1>5
  <2> QED BY <1>4, <2>1, SmallerCount DEF CountUpTo
<1>6. PICK rank : rank = [i \in places |-> CountUpTo(places, i)]
  OBVIOUS
<1>7. rank \in [places -> 1 .. Cardinality(places)] /\ \A i \in places : rank[i] = CountUpTo(places, i)
  BY <1>4, <1>6
<1>8. ASSUME NEW i \in places, NEW j \in places, rank[i] = rank[j]
      PROVE  i = j
  <2>1. CountUpTo(places, i) = CountUpTo(places, j) /\ CountUpTo(places, i) \in Int
    BY <1>4, <1>7, <1>8
  <2>2. ~ (i < j) /\ ~ (j < i)
    BY <1>5, <2>1
  <2>3. i \in Int /\ j \in Int
    OBVIOUS
  <2> QED BY <2>2, <2>3
<1>9. \A k \in 1 .. Cardinality(places) : \E i \in places : rank[i] = k
  BY <1>2, <1>7, <1>8, RanksAreTaken
<1> QED BY <1>2, <1>3, <1>7, <1>9

\* What is left of a sequence without repeated elements is of the same elements,
\* and not longer.
LEMMA DistinctIsShorter ==
  ASSUME NEW S, NEW seq \in Seq(S)
  PROVE  Distinct(seq) \in Seq(S) /\ Len(Distinct(seq)) <= Len(seq)
<1>1. PICK places : places = FirstPlaces(seq)
  OBVIOUS
<1>2. places \in SUBSET (1 .. Len(seq)) /\ Len(seq) \in Nat
  BY <1>1 DEF FirstPlaces
<1>3. PICK n : n = Cardinality(places)
  OBVIOUS
<1>4. n \in Nat /\ n <= Len(seq) /\ \A k \in 1 .. n : \E i \in places : CountUpTo(places, i) = k
  <2>1. PICK length : length = Len(seq)
    OBVIOUS
  <2> QED BY <1>2, <1>3, <2>1, PlacesAreCounted
<1>5. Distinct(seq) = [k \in 1 .. n |-> seq[CHOOSE i \in places : CountUpTo(places, i) = k]]
  BY <1>1, <1>3 DEF Distinct
<1>6. \A k \in 1 .. n : (CHOOSE i \in places : CountUpTo(places, i) = k) \in places
  BY <1>4
<1>7. \A k \in 1 .. n : seq[CHOOSE i \in places : CountUpTo(places, i) = k] \in S
  <2>1. \A i \in places : seq[i] \in S
    BY <1>2
  <2> QED BY <1>6, <2>1
<1>8. Distinct(seq) \in [1 .. n -> S]
  BY <1>5, <1>7
<1>9. Distinct(seq) \in Seq(S) /\ Len(Distinct(seq)) = n
  BY <1>4, <1>8
<1> QED BY <1>4, <1>9

LEMMA TruncateIsShorter ==
  ASSUME NEW S, NEW seq \in Seq(S), NEW limit \in Nat
  PROVE  /\ Truncate(seq, limit) \in Seq(S)
         /\ Len(Truncate(seq, limit)) <= limit /\ Len(Truncate(seq, limit)) <= Len(seq)
<1>1. PICK m : m = IF limit < Len(seq) THEN limit ELSE Len(seq)
  OBVIOUS
<1>2. m \in Nat /\ m <= limit /\ m <= Len(seq)
  BY <1>1
<1>3. Truncate(seq, limit) = SubSeq(seq, 1, m)
  BY <1>1 DEF Truncate
<1>4. SubSeq(seq, 1, m) \in Seq(S) /\ Len(SubSeq(seq, 1, m)) = m
  BY <1>2
<1> QED BY <1>2, <1>3, <1>4

Coordinates == Int \X Int

LEMMA OffsetsAreOrdered ==
  /\ \A a \in Coordinates : ~ OffsetBefore(a, a)
  /\ \A a, b, c \in Coordinates : OffsetBefore(a, b) /\ OffsetBefore(b, c) => OffsetBefore(a, c)
  /\ \A a, b \in Coordinates : a # b => OffsetBefore(a, b) \/ OffsetBefore(b, a)
<1>1. \A a \in Coordinates : a[1] \in Int /\ a[2] \in Int /\ Away(a) \in Int
  BY DEF Coordinates, Away, Abs
<1>2. \A a, b \in Coordinates : a[1] = b[1] /\ a[2] = b[2] => a = b
  BY DEF Coordinates
<1>3. \A a \in Coordinates : ~ OffsetBefore(a, a)
  BY <1>1 DEF OffsetBefore
<1>4. \A a, b, c \in Coordinates : OffsetBefore(a, b) /\ OffsetBefore(b, c) => OffsetBefore(a, c)
  BY <1>1 DEF OffsetBefore
<1>5. \A a, b \in Coordinates : a # b => OffsetBefore(a, b) \/ OffsetBefore(b, a)
  BY <1>1, <1>2 DEF OffsetBefore
<1> QED BY <1>3, <1>4, <1>5

LEMMA OffsetsAreCoordinates ==
  ASSUME NEW radius \in Nat
  PROVE  Offsets(radius) \in Seq(Coordinates)
<1>1. PICK all : all = (-radius .. radius) \X (-radius .. radius)
  OBVIOUS
<1>2. IsFiniteSet(all)
  <2>1. IsFiniteSet(-radius .. radius)
    BY FS_Interval
  <2> QED BY <1>1, <2>1, FS_Product
<1>3. all \in SUBSET Coordinates
  BY <1>1 DEF Coordinates
<1>4. PICK earlier : earlier = [o \in all |-> {q \in all : OffsetBefore(q, o)}]
  OBVIOUS
<1>5. Cardinality(all) \in Nat
  BY <1>2, FS_CardinalityType
<1>6. ASSUME NEW o \in all
      PROVE  Cardinality(earlier[o]) \in 0 .. Cardinality(all) - 1 /\ IsFiniteSet(earlier[o])
  <2>1. earlier[o] \in SUBSET all /\ o \notin earlier[o]
    BY <1>3, <1>4, OffsetsAreOrdered
  <2>2. Cardinality(earlier[o]) < Cardinality(all) /\ Cardinality(earlier[o]) \in Nat
    BY <1>2, <2>1, SmallerCount
  <2> QED BY <1>2, <1>5, <2>1, <2>2, FS_Subset
<1>7. ASSUME NEW a \in all, NEW b \in all, OffsetBefore(a, b)
      PROVE  Cardinality(earlier[a]) < Cardinality(earlier[b])
  <2>1. earlier[a] \in SUBSET earlier[b] /\ a \in earlier[b] /\ a \notin earlier[a]
    BY <1>3, <1>4, <1>7, OffsetsAreOrdered
  <2> QED BY <1>6, <2>1, SmallerCount
<1>8. PICK rank : rank = [o \in all |-> Cardinality(earlier[o]) + 1]
  OBVIOUS
<1>9. rank \in [all -> 1 .. Cardinality(all)] /\ \A o \in all : rank[o] = Cardinality(earlier[o]) + 1
  BY <1>5, <1>6, <1>8
<1>10. ASSUME NEW a \in all, NEW b \in all, rank[a] = rank[b]
       PROVE  a = b
  <2>1. Cardinality(earlier[a]) = Cardinality(earlier[b]) /\ Cardinality(earlier[a]) \in Int
    BY <1>6, <1>9, <1>10
  <2>2. ~ OffsetBefore(a, b) /\ ~ OffsetBefore(b, a)
    BY <1>7, <2>1
  <2> QED BY <1>3, <2>2, OffsetsAreOrdered
<1>11. \A k \in 1 .. Cardinality(all) : \E o \in all : rank[o] = k
  BY <1>2, <1>9, <1>10, RanksAreTaken
<1>12. ASSUME NEW k \in 1 .. Cardinality(all)
       PROVE  \E o \in all : Cardinality({q \in all : OffsetBefore(q, o)}) = k - 1
  <2>1. PICK o \in all : rank[o] = k
    BY <1>11
  <2>2. Cardinality(earlier[o]) = k - 1
    BY <1>6, <1>9, <2>1
  <2> QED BY <1>4, <2>2
<1>13. PICK n : n = Cardinality(all)
  OBVIOUS
<1>14. Offsets(radius) = [i \in 1 .. n |->
            CHOOSE o \in all : Cardinality({q \in all : OffsetBefore(q, o)}) = i - 1]
  BY <1>1, <1>13 DEF Offsets
<1>15. \A i \in 1 .. n :
         (CHOOSE o \in all : Cardinality({q \in all : OffsetBefore(q, o)}) = i - 1) \in Coordinates
  BY <1>3, <1>12, <1>13
<1>16. Offsets(radius) \in [1 .. n -> Coordinates]
  BY <1>14, <1>15
<1> QED BY <1>5, <1>13, <1>16

-----------------------------------------------------------------------------
(* The positions that are planned.                                         *)

LEMMA QuotientOf ==
  ASSUME NEW a \in Nat, NEW b \in Nat \ {0}
  PROVE  a \div b \in Nat /\ (a \div b) * b <= a /\ a < (a \div b + 1) * b
OBVIOUS

LEMMA ProductGrows ==
  ASSUME NEW a \in Int, NEW b \in Int, NEW c \in Nat, a <= b
  PROVE  a * c <= b * c
OBVIOUS

LEMMA RowOfPlace ==
  ASSUME NEW p \in Nat, NEW h \in Nat, NEW k \in 1 .. p * h
  PROVE  h # 0 /\ (k - 1) \div h + 1 \in 1 .. p /\ ((k - 1) % h) + 1 \in 1 .. h
<1>1. h # 0
  <2>1. SUFFICES ASSUME h = 0 PROVE FALSE
    OBVIOUS
  <2>2. p * h = 0
    BY <2>1
  <2> QED BY <2>2
<1>2. PICK q : q = (k - 1) \div h
  OBVIOUS
<1>3. q \in Nat /\ q * h <= k - 1
  BY <1>1, <1>2, QuotientOf
<1>4. q < p
  <2>1. SUFFICES ASSUME p <= q PROVE FALSE
    BY <1>3
  <2>2. p * h <= q * h
    BY <1>3, <2>1, ProductGrows
  <2>3. p * h \in Int /\ q * h \in Int /\ k <= p * h
    BY <1>3
  <2> QED BY <1>3, <2>2, <2>3
<1>5. (k - 1) % h \in 0 .. h - 1
  BY <1>1
<1> QED BY <1>1, <1>2, <1>3, <1>4, <1>5

LEMMA PlanIsWithinBudget ==
  ASSUME NEW c, c.effort \in DOMAIN Budget, NEW cost \in Nat \ {0}, NEW reserved \in Nat,
         Affordable(c, cost, reserved)
  PROVE  /\ CandidateLimit(c, cost, reserved) \in Nat
         /\ \A n \in Int : n <= CandidateLimit(c, cost, reserved) + SafetyCandidates
                            => (n + reserved) * cost <= Budget[c.effort]
<1>1. PICK b : b = Budget[c.effort]
  OBVIOUS
<1>2. b \in Nat /\ cost * (reserved + 3) <= b
  BY <1>1, SettingsAssumption DEF Affordable, SafetyCandidates
<1>3. PICK q : q = b \div cost
  OBVIOUS
<1>4. q \in Nat /\ q * cost <= b /\ b < (q + 1) * cost
  BY <1>2, <1>3, QuotientOf
<1>5. reserved + 3 <= q
  <2>1. SUFFICES ASSUME q + 1 <= reserved + 3 PROVE FALSE
    BY <1>4
  <2>2. (q + 1) * cost <= (reserved + 3) * cost
    BY <1>4, <2>1, ProductGrows
  <2>3. (reserved + 3) * cost = cost * (reserved + 3)
    OBVIOUS
  <2>4. (q + 1) * cost \in Int /\ (reserved + 3) * cost \in Int
    BY <1>4
  <2> QED BY <1>2, <1>4, <2>2, <2>3, <2>4
<1>6. CandidateLimit(c, cost, reserved) = q - (reserved + 2)
  BY <1>1, <1>3 DEF CandidateLimit, SafetyCandidates
<1>7. ASSUME NEW n \in Int, n <= q - (reserved + 2) + 2
      PROVE  (n + reserved) * cost <= b
  <2>1. n + reserved <= q
    BY <1>4, <1>7
  <2>2. (n + reserved) * cost <= q * cost
    BY <1>4, <2>1, ProductGrows
  <2>3. (n + reserved) * cost \in Int /\ q * cost \in Int
    BY <1>4
  <2> QED BY <1>2, <1>4, <2>2, <2>3
<1> QED BY <1>1, <1>4, <1>5, <1>6, <1>7 DEF SafetyCandidates

LEMMA Concatenated ==
  ASSUME NEW S, NEW s \in Seq(S), NEW t \in Seq(S)
  PROVE  s \o t \in Seq(S) /\ Len(s \o t) = Len(s) + Len(t)
OBVIOUS

IsDrawn(c, layout) ==
  /\ layout.nodes \in [DOMAIN c.compact.nodes -> Box]
  /\ layout.width \in Int /\ layout.height \in Int

LEMMA MarginIsNumber == Margin \in Int /\ NodeGap \in Int
BY SettingsAssumption DEF Margin

LEMMA BoxesAreNumbers ==
  ASSUME NEW S, NEW nodes \in [S -> Box], NEW n \in S
  PROVE  /\ nodes[n].x \in Int /\ nodes[n].y \in Int
         /\ nodes[n].width \in Int /\ nodes[n].height \in Int
<1>1. nodes[n] \in Box
  OBVIOUS
<1> QED BY <1>1 DEF Box

LEMMA FrameIsNumbers ==
  ASSUME NEW c, IsCall(c)
  PROVE  c.frame.width \in Int /\ c.frame.height \in Int
<1>1. c.frame \in [width : Int, height : Int]
  BY DEF IsCall
<1> QED BY <1>1

LEMMA PositionsAreFew ==
  ASSUME NEW c, IsCall(c), NEW layout, IsDrawn(c, layout), c.x.anchor \in DOMAIN c.compact.nodes,
         NEW cost, NEW reserved, CandidateLimit(c, cost, reserved) \in Nat
  PROVE  /\ CandidatePositions(c, layout, cost, reserved) \in Seq(Coordinates)
         /\ Len(CandidatePositions(c, layout, cost, reserved))
              <= CandidateLimit(c, cost, reserved) + SafetyCandidates
<1> DEFINE anchor == layout.nodes[c.x.anchor]
           centered == <<anchor.x + (anchor.width - c.frame.width) \div 2,
                         anchor.y + (anchor.height - c.frame.height) \div 2>>
           inside(v) == Greater(v, Margin)
           at(offset) == <<inside(centered[1] + offset[1] * (c.frame.width + NodeGap * 2)),
                           inside(centered[2] + offset[2] * (c.frame.height + NodeGap * 2))>>
           limit == CandidateLimit(c, cost, reserved)
           offsets == Truncate(Offsets(Radius[c.effort]), limit)
           places == [i \in DOMAIN offsets |-> at(offsets[i])]
           around == Distinct(<<<<anchor.x, anchor.y>>>> \o places)
           near == Truncate(around, Len(offsets))
           safety == <<<<layout.width + NodeGap, inside(centered[2])>>,
                       <<inside(centered[1]), layout.height + NodeGap>>>>
<1>1. /\ anchor.x \in Int /\ anchor.y \in Int /\ anchor.width \in Int /\ anchor.height \in Int
      /\ c.frame.width \in Int /\ c.frame.height \in Int
      /\ layout.width \in Int /\ layout.height \in Int
  BY BoxesAreNumbers, FrameIsNumbers DEF IsDrawn
<1>2. centered[1] \in Int /\ centered[2] \in Int
  <2> HIDE DEF anchor
  <2> QED BY <1>1
<1>3. \A v \in Int : inside(v) \in Int
  BY MarginIsNumber DEF Greater
<1>4. safety \in Seq(Coordinates) /\ Len(safety) = 2
  <2> HIDE DEF centered, inside
  <2>1. /\ <<layout.width + NodeGap, inside(centered[2])>> \in Coordinates
        /\ <<inside(centered[1]), layout.height + NodeGap>> \in Coordinates
    BY <1>1, <1>2, <1>3, MarginIsNumber DEF Coordinates
  <2> QED BY <2>1
<1>5. \A offset \in Coordinates : at(offset) \in Coordinates
  <2> HIDE DEF centered, inside
  <2>1. ASSUME NEW offset \in Coordinates PROVE at(offset) \in Coordinates
    <3>1. offset[1] \in Int /\ offset[2] \in Int
      BY DEF Coordinates
    <3>2. PICK w, h : w = c.frame.width + NodeGap * 2 /\ h = c.frame.height + NodeGap * 2
      OBVIOUS
    <3>3. w \in Int /\ h \in Int
      BY <1>1, <3>2, MarginIsNumber
    <3>4. offset[1] * w \in Int /\ offset[2] * h \in Int
      BY <3>1, <3>3
    <3>5. centered[1] + offset[1] * w \in Int /\ centered[2] + offset[2] * h \in Int
      BY <1>2, <3>4
    <3> QED BY <1>3, <3>2, <3>5 DEF Coordinates
  <2> QED BY <2>1
<1>6. offsets \in Seq(Coordinates) /\ Len(offsets) \in Nat /\ Len(offsets) <= limit
  <2>1. Radius[c.effort] \in Nat
    BY SettingsAssumption DEF IsCall
  <2>2. Offsets(Radius[c.effort]) \in Seq(Coordinates)
    BY <2>1, OffsetsAreCoordinates
  <2> HIDE DEF limit
  <2>3. limit \in Nat
    BY DEF limit
  <2> QED BY <2>2, <2>3, TruncateIsShorter
<1>7. places \in Seq(Coordinates)
  <2> HIDE DEF at, offsets
  <2>1. \A i \in DOMAIN offsets : offsets[i] \in Coordinates
    BY <1>6
  <2>2. \A i \in 1 .. Len(offsets) : at(offsets[i]) \in Coordinates
    BY <1>5, <1>6, <2>1
  <2>3. places \in [1 .. Len(offsets) -> Coordinates]
    BY <1>6, <2>2
  <2> QED BY <1>6, <2>3
<1>8. around \in Seq(Coordinates)
  <2>1. <<anchor.x, anchor.y>> \in Coordinates
    BY <1>1 DEF Coordinates
  <2> HIDE DEF places, anchor
  <2>2. <<<<anchor.x, anchor.y>>>> \o places \in Seq(Coordinates)
    BY <1>7, <2>1
  <2> QED BY <2>2, DistinctIsShorter
<1>9. near \in Seq(Coordinates) /\ Len(near) \in Nat /\ Len(near) <= limit
  <2> HIDE DEF around, offsets, limit
  <2>1. near \in Seq(Coordinates) /\ Len(near) <= Len(offsets)
    BY <1>6, <1>8, TruncateIsShorter
  <2>2. limit \in Nat
    BY DEF limit
  <2> QED BY <1>6, <2>1, <2>2
<1>10. CandidatePositions(c, layout, cost, reserved) = Distinct(near \o safety)
  BY DEF CandidatePositions
<1> HIDE DEF near, safety, limit
<1>11. near \o safety \in Seq(Coordinates) /\ Len(near \o safety) = Len(near) + 2
  BY <1>4, <1>9, Concatenated
<1>12. /\ Distinct(near \o safety) \in Seq(Coordinates)
       /\ Len(Distinct(near \o safety)) <= Len(near) + 2
  BY <1>11, DistinctIsShorter
<1>13. Len(Distinct(near \o safety)) \in Nat /\ limit \in Nat
  BY <1>12 DEF limit
<1>14. Len(Distinct(near \o safety)) <= limit + 2
  BY <1>9, <1>12, <1>13
<1> QED BY <1>10, <1>12, <1>14 DEF limit, SafetyCandidates

\* Preferred columns take the place of others; there are no more of them.
LEMMA PreferredAreAsFew ==
  ASSUME NEW c, IsCall(c), NEW seq \in Seq(Coordinates)
  PROVE  Prioritized(c, seq) \in Seq(Coordinates) /\ Len(Prioritized(c, seq)) <= Len(seq)
<1>1. CASE c.preferred = <<>> \/ Len(seq) < SafetyCandidates
  BY <1>1 DEF Prioritized
<1>2. CASE c.preferred # <<>> /\ ~ (Len(seq) < SafetyCandidates)
  <2> DEFINE kept == Len(seq) - SafetyCandidates
             list == [i \in DOMAIN seq |-> seq[i][2]]
             heights == Distinct(list)
             columns == [k \in 1 .. Len(c.preferred) * Len(heights) |->
                           <<c.preferred[((k - 1) \div Len(heights)) + 1],
                             heights[((k - 1) % Len(heights)) + 1]>>]
             first == Truncate(Distinct(columns \o SubSeq(seq, 1, kept)), kept)
             last == SubSeq(seq, kept + 1, Len(seq))
  <2>1. kept \in Nat /\ kept + 2 = Len(seq) /\ Len(seq) \in Nat
    BY <1>2 DEF SafetyCandidates
  <2>2. heights \in Seq(Int)
    <3>1. \A i \in 1 .. Len(seq) : seq[i] \in Coordinates
      OBVIOUS
    <3>2. \A i \in 1 .. Len(seq) : seq[i][2] \in Int
      BY <3>1 DEF Coordinates
    <3>3. list \in [1 .. Len(seq) -> Int]
      BY <3>2
    <3>4. list \in Seq(Int)
      BY <2>1, <3>3
    <3> HIDE DEF list
    <3> QED BY <3>4, DistinctIsShorter
  <2>3. columns \in Seq(Coordinates)
    <3> HIDE DEF heights
    <3>1. PICK p, h : p = Len(c.preferred) /\ h = Len(heights)
      OBVIOUS
    <3>2. c.preferred \in Seq(Int)
      BY DEF IsCall
    <3>3. p \in Nat /\ h \in Nat
      BY <2>2, <3>1, <3>2
    <3>4. ASSUME NEW k \in 1 .. p * h
          PROVE  <<c.preferred[((k - 1) \div h) + 1], heights[((k - 1) % h) + 1]>> \in Coordinates
      <4>1. PICK i, j : i = ((k - 1) \div h) + 1 /\ j = ((k - 1) % h) + 1
        OBVIOUS
      <4>2. i \in 1 .. p /\ j \in 1 .. h
        BY <3>3, <4>1, RowOfPlace
      <4>3. c.preferred[i] \in Int /\ heights[j] \in Int
        BY <2>2, <3>1, <3>2, <4>2
      <4> QED BY <4>1, <4>3 DEF Coordinates
    <3>5. columns = [k \in 1 .. p * h |->
                       <<c.preferred[((k - 1) \div h) + 1], heights[((k - 1) % h) + 1]>>]
      BY <3>1
    <3>6. columns \in [1 .. p * h -> Coordinates]
      BY <3>4, <3>5
    <3>7. p * h \in Nat
      BY <3>3
    <3> HIDE DEF columns
    <3> QED BY <3>6, <3>7
  <2>4. first \in Seq(Coordinates) /\ Len(first) \in Nat /\ Len(first) <= kept
    <3> HIDE DEF columns
    <3>1. SubSeq(seq, 1, kept) \in Seq(Coordinates)
      BY <2>1
    <3>2. columns \o SubSeq(seq, 1, kept) \in Seq(Coordinates)
      BY <2>3, <3>1
    <3>3. Distinct(columns \o SubSeq(seq, 1, kept)) \in Seq(Coordinates)
      BY <3>2, DistinctIsShorter
    <3>4. first \in Seq(Coordinates) /\ Len(first) <= kept
      BY <2>1, <3>3, TruncateIsShorter
    <3> HIDE DEF first
    <3> QED BY <3>4
  <2>5. last \in Seq(Coordinates) /\ Len(last) = 2
    BY <2>1
  <2>6. Prioritized(c, seq) = Distinct(first \o last)
    BY <1>2 DEF Prioritized
  <2> HIDE DEF first, last, kept
  <2>7. first \o last \in Seq(Coordinates) /\ Len(first \o last) = Len(first) + 2
    BY <2>4, <2>5, Concatenated
  <2>8. /\ Distinct(first \o last) \in Seq(Coordinates)
        /\ Len(Distinct(first \o last)) <= Len(first) + 2
    BY <2>7, DistinctIsShorter
  <2>9. Len(Distinct(first \o last)) \in Nat
    BY <2>8
  <2> QED BY <2>1, <2>4, <2>6, <2>8, <2>9
<1> QED BY <1>1, <1>2

-----------------------------------------------------------------------------
(* Drawings after the corridors, and scores.                               *)

LEMMA GivenIsDrawn ==
  ASSUME NEW c, IsCall(c)
  PROVE  IsDrawn(c, AsGiven(c))
BY DEF IsCall, IsDrawn, AsGiven

LEMMA WidenedIsDrawn ==
  ASSUME NEW c, IsCall(c), c.x.anchor \in DOMAIN c.compact.nodes
  PROVE  IsDrawn(c, Widen(c))
<1>1. PICK by : by = Additional(c)
  OBVIOUS
<1>2. c.layout.nodes \in [DOMAIN c.compact.nodes -> Box] /\ c.layout.width \in Int /\ c.layout.height \in Int
  BY DEF IsCall
<1>3. by \in Int
  BY <1>1, <1>2, BoxesAreNumbers, FrameIsNumbers DEF Additional
<1>4. ASSUME NEW n \in DOMAIN c.compact.nodes
      PROVE  [c.layout.nodes[n] EXCEPT !.x = @ + by] \in Box
  <2>1. c.layout.nodes[n] \in Box
    BY <1>2
  <2> QED BY <1>3, <2>1 DEF Box
<1>5. Widen(c).nodes = [n \in DOMAIN c.layout.nodes |->
                          IF NodeShifts(c, n) THEN [c.layout.nodes[n] EXCEPT !.x = @ + by]
                          ELSE c.layout.nodes[n]]
  BY <1>1 DEF Widen
<1>6. Widen(c).width = c.layout.width + by /\ Widen(c).height = c.layout.height
  BY <1>1 DEF Widen
<1>7. Widen(c).nodes \in [DOMAIN c.compact.nodes -> Box]
  BY <1>2, <1>4, <1>5
<1> QED BY <1>2, <1>3, <1>6, <1>7 DEF IsDrawn

LEMMA DeepenedIsDrawn ==
  ASSUME NEW c, IsCall(c), NEW layout, IsDrawn(c, layout), c.x.anchor \in DOMAIN c.compact.nodes,
         CanDeepen(c, layout)
  PROVE  IsDrawn(c, Deepen(c, layout))
<1>1. PICK by : by = Delta(c, layout)
  OBVIOUS
<1>2. layout.nodes \in [DOMAIN c.compact.nodes -> Box] /\ layout.width \in Int /\ layout.height \in Int
  BY DEF IsDrawn
<1>3. IsFiniteSet(DOMAIN c.compact.nodes)
  BY DEF IsCall, IsGraph
<1>4. by \in Int
  <2>1. PICK M : M = {layout.nodes[n].y : n \in Blockers(c, layout)}
    OBVIOUS
  <2>2. Blockers(c, layout) \in SUBSET (DOMAIN c.compact.nodes)
    BY DEF Blockers, Below, Others
  <2>3. PICK f : f = [n \in Blockers(c, layout) |-> layout.nodes[n].y]
    OBVIOUS
  <2>4. f \in [Blockers(c, layout) -> Int] /\ \A n \in Blockers(c, layout) : f[n] = layout.nodes[n].y
    BY <1>2, <2>2, <2>3, BoxesAreNumbers
  <2>5. M = {f[n] : n \in Blockers(c, layout)}
    BY <2>1, <2>4
  <2>6. Blockers(c, layout) # {}
    BY DEF CanDeepen
  <2>7. IsFiniteSet(Blockers(c, layout))
    BY <1>3, <2>2, FS_Subset
  <2>8. IsFiniteSet(M)
    BY <2>4, <2>5, <2>6, <2>7, GreatestValue
  <2>9. M \in SUBSET Int /\ M # {}
    BY <2>4, <2>5, <2>6
  <2>10. Min(M) \in Int
    BY <2>8, <2>9, LeastIsMember
  <2>11. AnchorFrame(c, layout).bottom = layout.nodes[c.x.anchor].y + c.frame.height
    BY DEF AnchorFrame, FrameAt
  <2>12. AnchorFrame(c, layout).bottom \in Int
    BY <1>2, <2>11, BoxesAreNumbers, FrameIsNumbers
  <2> QED BY <1>1, <2>1, <2>10, <2>12, MarginIsNumber DEF Delta
<1>5. PICK nodes : nodes = [n \in DOMAIN layout.nodes |->
                              IF n \in {m \in DOMAIN layout.nodes : NodeSinks(c, layout, m)}
                              THEN [layout.nodes[n] EXCEPT !.y = @ + by] ELSE layout.nodes[n]]
  OBVIOUS
<1>6. ASSUME NEW n \in DOMAIN c.compact.nodes
      PROVE  [layout.nodes[n] EXCEPT !.y = @ + by] \in Box
  <2>1. layout.nodes[n] \in Box
    BY <1>2
  <2> QED BY <1>4, <2>1 DEF Box
<1>7. nodes \in [DOMAIN c.compact.nodes -> Box]
  BY <1>2, <1>5, <1>6
<1>8. PICK M : M = {FromNode(nodes[n]).bottom : n \in DOMAIN nodes}
  OBVIOUS
<1>9. Max(M) \in Int
  <2>1. PICK f : f = [n \in DOMAIN c.compact.nodes |-> FromNode(nodes[n]).bottom]
    OBVIOUS
  <2>2. ASSUME NEW n \in DOMAIN c.compact.nodes PROVE FromNode(nodes[n]).bottom \in Int
    BY <1>7, BoxesAreNumbers DEF FromNode
  <2>3. f \in [DOMAIN c.compact.nodes -> Int] /\ M = {f[n] : n \in DOMAIN c.compact.nodes}
    BY <1>7, <1>8, <2>1, <2>2
  <2>4. DOMAIN c.compact.nodes # {}
    OBVIOUS
  <2> QED BY <1>3, <2>3, <2>4, GreatestValue
<1>10. /\ Deepen(c, layout).nodes = nodes
       /\ Deepen(c, layout).width = layout.width
       /\ Deepen(c, layout).height = Greater(layout.height, Max(M))
  BY <1>1, <1>5, <1>8 DEF Deepen
<1>11. Deepen(c, layout).height \in Int
  BY <1>2, <1>9, <1>10 DEF Greater
<1> QED BY <1>2, <1>7, <1>10, <1>11 DEF IsDrawn

Scores == Int \X Int \X Int \X Int \X Int

LEMMA ScoreIsNumbers ==
  ASSUME NEW c, IsCall(c), NEW layout, IsDrawn(c, layout), c.x.anchor \in DOMAIN c.compact.nodes,
         NEW at \in Coordinates, NEW quality \in Int
  PROVE  Score(c, layout, at, quality) \in Scores
<1> DEFINE anchor == layout.nodes[c.x.anchor]
           frame == FrameAt(c, at[1], at[2])
           far == Square(at[1] - anchor.x) + Square(at[2] - anchor.y)
           area == Greater(layout.width, frame.right + Margin) * Greater(layout.height, frame.bottom + Margin)
<1>1. at[1] \in Int /\ at[2] \in Int
  BY DEF Coordinates
<1>2. anchor.x \in Int /\ anchor.y \in Int /\ layout.width \in Int /\ layout.height \in Int
  BY BoxesAreNumbers DEF IsDrawn
<1>3. \A n \in Int : Square(n) \in Int
  BY DEF Square
<1>4. far \in Int
  <2> HIDE DEF anchor
  <2> QED BY <1>1, <1>2, <1>3
<1>5. frame.right \in Int /\ frame.bottom \in Int
  BY <1>1, FrameIsNumbers DEF FrameAt
<1>6. area \in Int
  <2> HIDE DEF frame
  <2>1. Greater(layout.width, frame.right + Margin) \in Int /\ Greater(layout.height, frame.bottom + Margin) \in Int
    BY <1>2, <1>5, MarginIsNumber DEF Greater
  <2> QED BY <2>1
<1>7. Score(c, layout, at, quality) = <<quality, far, area, at[1], at[2]>>
  BY DEF Score
<1> HIDE DEF far, area
<1> QED BY <1>1, <1>4, <1>6, <1>7 DEF Scores

\* Scores are compared number by number.
LEMMA LessMeans ==
  ASSUME NEW a \in Scores, NEW b \in Scores
  PROVE  Less(a, b) <=>
           \/ a[1] < b[1]
           \/ a[1] = b[1] /\ a[2] < b[2]
           \/ a[1] = b[1] /\ a[2] = b[2] /\ a[3] < b[3]
           \/ a[1] = b[1] /\ a[2] = b[2] /\ a[3] = b[3] /\ a[4] < b[4]
           \/ a[1] = b[1] /\ a[2] = b[2] /\ a[3] = b[3] /\ a[4] = b[4] /\ a[5] < b[5]
<1>1. DOMAIN a = 1 .. 5
  BY DEF Scores
<1>2. PICK u, v : u = a /\ v = b
  OBVIOUS
<1>3. Less(a, b) <=> \E i \in 1 .. 5 : u[i] < v[i] /\ \A j \in 1 .. i - 1 : u[j] = v[j]
  BY <1>1, <1>2 DEF Less
<1>4. (\E i \in 1 .. 5 : u[i] < v[i] /\ \A j \in 1 .. i - 1 : u[j] = v[j]) <=>
           \/ u[1] < v[1]
           \/ u[1] = v[1] /\ u[2] < v[2]
           \/ u[1] = v[1] /\ u[2] = v[2] /\ u[3] < v[3]
           \/ u[1] = v[1] /\ u[2] = v[2] /\ u[3] = v[3] /\ u[4] < v[4]
           \/ u[1] = v[1] /\ u[2] = v[2] /\ u[3] = v[3] /\ u[4] = v[4] /\ u[5] < v[5]
  OBVIOUS
<1> QED BY <1>2, <1>3, <1>4

LEMMA ScoresAreOrdered ==
  /\ \A a \in Scores : ~ Less(a, a)
  /\ \A a, b, c \in Scores : Less(a, b) /\ Less(b, c) => Less(a, c)
  /\ \A a, b, c \in Scores : Less(a, b) /\ ~ Less(c, b) => Less(a, c)
<1>1. \A a \in Scores : /\ a[1] \in Int /\ a[2] \in Int /\ a[3] \in Int
                        /\ a[4] \in Int /\ a[5] \in Int
  BY DEF Scores
<1>2. \A a \in Scores : ~ Less(a, a)
  BY <1>1, LessMeans
<1>3. \A a, b, c \in Scores : Less(a, b) /\ Less(b, c) => Less(a, c)
  BY <1>1, LessMeans
<1>4. \A a, b, c \in Scores : Less(a, b) /\ ~ Less(c, b) => Less(a, c)
  BY <1>1, LessMeans
<1> QED BY <1>2, <1>3, <1>4

LEMMA AcceptedHasAnchor ==
  ASSUME NEW c, IsCall(c), Fault(c) = None
  PROVE  c.x.anchor \in DOMAIN c.compact.nodes
<1>1. ContractError(c.compact, c.expanded, c.x) = None
  <2>1. PICK contract, ends, protected :
          /\ contract = ContractError(c.compact, c.expanded, c.x)
          /\ ends = If(~ Attached(c, c.layout), "InvalidEdgeGeometry")
          /\ protected = ProtectedError(c.compact, c.expanded, c.x, c.groups)
    OBVIOUS
  <2>2. FirstError(<<contract, ends, protected>>) = None
    BY <2>1 DEF Fault
  <2>3. contract = None
    BY <2>2, NoErrorOf
  <2> QED BY <2>1, <2>3
<1>2. PICK compact, expanded, x : compact = c.compact /\ expanded = c.expanded /\ x = c.x
  OBVIOUS
<1>3. IsGraph(compact) /\ IsGraph(expanded) /\ IsMapping(x)
  BY <1>2 DEF IsCall
<1>4. NodesAgree(compact, expanded, x)
  BY <1>1, <1>2, <1>3, ContractMeans
<1> QED BY <1>2, <1>4 DEF NodesAgree

-----------------------------------------------------------------------------
(* The best of the candidates.                                             *)

Admitted(seq) == {i \in DOMAIN seq : seq[i].score # None}

IsBest(seq, b) ==
  /\ b = 0 => Admitted(seq) = {}
  /\ b # 0 =>
       /\ b \in Admitted(seq)
       /\ \A i \in Admitted(seq) :
            /\ ~ Less(seq[i].score, seq[b].score)
            /\ i < b => Less(seq[b].score, seq[i].score)

Attempts == [at : Coordinates, reflow : BOOLEAN, direct : BOOLEAN, score : Scores \cup {None}]

\* A further candidate takes the place of the best where it is better.
LEMMA BestOfMore ==
  ASSUME NEW seq \in Seq(Attempts), NEW b \in Nat, NEW e \in Attempts, IsBest(seq, b),
         NEW more, more = Append(seq, e),
         NEW nb, nb = IF e.score # None /\ (b = 0 \/ Less(e.score, seq[b].score)) THEN Len(seq) + 1 ELSE b
  PROVE  IsBest(more, nb)
<1>1. PICK n : n = Len(seq)
  OBVIOUS
<1>2. n \in Nat /\ DOMAIN seq = 1 .. n
  BY <1>1
<1>3. DOMAIN more = 1 .. n + 1 /\ more[n + 1] = e /\ \A i \in 1 .. n : more[i] = seq[i]
  BY <1>1, <1>2
<1>4. Admitted(more) = Admitted(seq) \cup (IF e.score # None THEN {n + 1} ELSE {})
  BY <1>2, <1>3 DEF Admitted
<1>5. Admitted(seq) \subseteq 1 .. n
  BY <1>2 DEF Admitted
<1>6. \A i \in Admitted(seq) : more[i] = seq[i] /\ seq[i].score \in Scores
  <2>1. ASSUME NEW i \in 1 .. n PROVE seq[i].score \in Scores \cup {None}
    <3>1. seq[i] \in Attempts
      BY <1>2
    <3> QED BY <3>1 DEF Attempts
  <2> QED BY <1>2, <1>3, <1>5, <2>1 DEF Admitted
<1>7. e.score \in Scores \cup {None}
  BY DEF Attempts
<1>8. CASE nb = b
  <2>1. CASE b = 0
    <3>1. e.score = None
      BY <1>1, <1>2, <1>8, <2>1
    <3> QED BY <1>4, <1>8, <2>1, <3>1 DEF IsBest
  <2>2. CASE b # 0
    <3>1. b \in Admitted(seq) /\ b \in 1 .. n
      BY <1>5, <2>2 DEF IsBest
    <3>2. nb # n + 1
      BY <1>2, <1>8, <3>1
    <3>3. e.score # None => ~ Less(e.score, seq[b].score)
      BY <1>1, <3>2
    <3>4. ASSUME NEW i \in Admitted(more)
          PROVE  /\ ~ Less(more[i].score, more[b].score)
                 /\ i < b => Less(more[b].score, more[i].score)
      <4>1. CASE i \in Admitted(seq)
        BY <1>6, <2>2, <3>1, <4>1 DEF IsBest
      <4>2. CASE i = n + 1 /\ e.score # None
        BY <1>2, <1>3, <3>1, <3>3, <4>2
      <4> QED BY <1>4, <4>1, <4>2
    <3> QED BY <1>4, <1>8, <2>2, <3>1, <3>4 DEF IsBest
  <2> QED BY <2>1, <2>2
<1>9. CASE nb # b
  <2>1. nb = n + 1 /\ e.score # None /\ (b = 0 \/ Less(e.score, seq[b].score))
    BY <1>1, <1>9
  <2>2. e.score \in Scores /\ nb \in Admitted(more) /\ nb # 0
    BY <1>2, <1>4, <1>7, <2>1
  <2>3. ASSUME NEW i \in Admitted(seq)
        PROVE  ~ Less(seq[i].score, e.score) /\ Less(e.score, seq[i].score)
    <3>1. b # 0
      BY <2>3 DEF IsBest
    <3>2. b \in Admitted(seq) /\ ~ Less(seq[i].score, seq[b].score)
      BY <3>1 DEF IsBest
    <3>3. Less(e.score, seq[b].score)
      BY <2>1, <3>1
    <3>4. seq[i].score \in Scores /\ seq[b].score \in Scores
      BY <1>6, <3>2
    <3> QED BY <2>2, <3>2, <3>3, <3>4, ScoresAreOrdered
  <2>4. ASSUME NEW i \in Admitted(more)
        PROVE  /\ ~ Less(more[i].score, more[nb].score)
               /\ i < nb => Less(more[nb].score, more[i].score)
    <3>1. CASE i \in Admitted(seq)
      BY <1>3, <1>6, <2>1, <2>3, <3>1
    <3>2. CASE i = n + 1
      <4>1. ~ (i < nb)
        BY <1>2, <2>1, <3>2
      <4> QED BY <1>3, <2>1, <2>2, <3>2, <4>1, ScoresAreOrdered
    <3> QED BY <1>4, <3>1, <3>2
  <2> QED BY <2>2, <2>4 DEF IsBest
<1> QED BY <1>8, <1>9

-----------------------------------------------------------------------------
(* The inductive invariant of the search.                                  *)

Stages == {"check", "widen", "deepen", "plan", "reflow", "place", "done"}

Searching == {"reflow", "place"}

SearchTypes ==
  /\ IsCall(call) /\ stage \in Stages
  /\ work \in Nat /\ attempts \in Nat /\ best \in Nat /\ direct \in BOOLEAN
  /\ positions \in Seq(Coordinates)
  /\ tried \in Seq(Attempts)

\* Drawings are of the compact graph, which has the anchor.
DrawingsAreOfCall ==
  /\ stage \notin {"check", "done"} => call.x.anchor \in DOMAIN call.compact.nodes
  /\ stage \in {"deepen", "plan"} \cup Searching => IsDrawn(call, widened)
  /\ stage \in {"plan"} \cup Searching => reflow = None \/ IsDrawn(call, reflow)
  /\ stage = "reflow" => IsDrawn(call, reflow)

\* Before the search nothing was tried.
NothingTriedYet ==
  stage \in {"check", "widen", "deepen", "plan"} =>
    tried = <<>> /\ attempts = 0 /\ work = 0 /\ best = 0

\* The attempts on the reflow are reserved beside one for each position; each
\* position may take two, until none is left.
AttemptsLast ==
  /\ stage = "reflow" => attempts >= Len(positions) + (IF direct THEN 2 ELSE 1)
  /\ stage = "place" /\ positions # <<>> => attempts > 0

PlannedWork == (Len(tried) + attempts) * work <= Budget[call.effort]

BestSoFar == IsBest(tried, best)

ErrorIsOfOutcome ==
  /\ stage # "done" => error = None
  /\ error = "NeedsFullRelayout" => best = 0
  /\ stage = "done" /\ error = None => best # 0

IInv ==
  /\ SearchTypes /\ DrawingsAreOfCall /\ NothingTriedYet
  /\ AttemptsLast /\ PlannedWork /\ BestSoFar /\ ErrorIsOfOutcome

LEMMA InitIInv == Init => IInv
<1> SUFFICES ASSUME Init PROVE IInv
  OBVIOUS
<1>1. IsCall(call)
  BY CallsAssumption DEF Init
<1>2. /\ stage = "check" /\ work = 0 /\ positions = <<>> /\ direct = TRUE /\ attempts = 0
      /\ best = 0 /\ error = None /\ tried = <<>>
  BY DEF Init
<1>3. SearchTypes
  BY <1>1, <1>2 DEF SearchTypes, Stages
<1>4. BestSoFar
  BY <1>2 DEF BestSoFar, IsBest, Admitted
<1>5. PlannedWork
  <2>1. Budget[call.effort] \in Nat
    BY <1>1, SettingsAssumption DEF IsCall
  <2>2. Len(tried) = 0
    BY <1>2
  <2> QED BY <1>2, <2>1, <2>2 DEF PlannedWork
<1>6. ErrorIsOfOutcome
  BY <1>2, SearchErrorsAssumption DEF ErrorIsOfOutcome, SearchErrors
<1> QED BY <1>2, <1>3, <1>4, <1>5, <1>6 DEF IInv, DrawingsAreOfCall, NothingTriedYet, AttemptsLast, Searching

LEMMA FailKeeps ==
  ASSUME IInv, NEW e, Fail(e), e # None, e = "NeedsFullRelayout" => best = 0
  PROVE  IInv'
<1>1. /\ stage' = "done" /\ error' = e /\ call' = call /\ work' = work /\ positions' = positions
      /\ direct' = direct /\ attempts' = attempts /\ best' = best /\ tried' = tried
  BY DEF Fail
<1>2. SearchTypes'
  BY <1>1 DEF IInv, SearchTypes, Stages
<1>3. DrawingsAreOfCall' /\ NothingTriedYet' /\ AttemptsLast'
  BY <1>1 DEF DrawingsAreOfCall, NothingTriedYet, AttemptsLast, Searching
<1>4. PlannedWork' /\ BestSoFar'
  BY <1>1 DEF IInv, PlannedWork, BestSoFar
<1>5. ErrorIsOfOutcome'
  BY <1>1 DEF ErrorIsOfOutcome
<1> QED BY <1>2, <1>3, <1>4, <1>5 DEF IInv

LEMMA CheckKeeps == IInv /\ Check => IInv'
<1> SUFFICES ASSUME IInv, Check PROVE IInv'
  OBVIOUS
<1>1. stage = "check" /\ best = 0
  BY DEF Check, IInv, NothingTriedYet
<1>2. CASE Fault(call) # None
  <2>1. Fail(Fault(call))
    BY <1>2 DEF Check
  <2> QED BY <1>1, <1>2, <2>1, FailKeeps
<1>3. CASE Fault(call) = None
  <2>1. /\ stage' = "widen" /\ call' = call /\ work' = work /\ positions' = positions /\ error' = error
        /\ direct' = direct /\ attempts' = attempts /\ best' = best /\ tried' = tried
    BY <1>3 DEF Check
  <2>2. call.x.anchor \in DOMAIN call.compact.nodes
    BY <1>3, AcceptedHasAnchor DEF IInv, SearchTypes
  <2>3. SearchTypes'
    BY <2>1 DEF IInv, SearchTypes, Stages
  <2>4. DrawingsAreOfCall'
    BY <2>1, <2>2 DEF DrawingsAreOfCall, Searching
  <2>5. NothingTriedYet' /\ AttemptsLast'
    BY <1>1, <2>1 DEF IInv, NothingTriedYet, AttemptsLast
  <2>6. PlannedWork' /\ BestSoFar'
    BY <2>1 DEF IInv, PlannedWork, BestSoFar
  <2>7. ErrorIsOfOutcome'
    BY <1>1, <2>1 DEF IInv, ErrorIsOfOutcome
  <2> QED BY <2>3, <2>4, <2>5, <2>6, <2>7 DEF IInv
<1> QED BY <1>2, <1>3

LEMMA OpenHorizontalKeeps == IInv /\ OpenHorizontal => IInv'
<1> SUFFICES ASSUME IInv, OpenHorizontal PROVE IInv'
  OBVIOUS
<1>1. stage = "widen" /\ IsCall(call) /\ call.x.anchor \in DOMAIN call.compact.nodes
  BY DEF OpenHorizontal, IInv, DrawingsAreOfCall, SearchTypes
<1>2. PICK layout : layout = IF CanWiden(call) THEN Widen(call) ELSE AsGiven(call)
  OBVIOUS
<1>3. CASE Fail("InvalidEdgeGeometry") \/ Fail("InvalidCompactHardGeometry")
  BY <1>3, FailKeeps, SearchErrorsAssumption DEF SearchErrors
<1>4. CASE /\ widened' = layout /\ stage' = "deepen"
           /\ UNCHANGED <<call, reflow, work, positions, direct, attempts, used, best, error, tried>>
  <2>1. IsDrawn(call, layout)
    BY <1>1, <1>2, GivenIsDrawn, WidenedIsDrawn
  <2>2. /\ call' = call /\ work' = work /\ positions' = positions /\ error' = error
        /\ direct' = direct /\ attempts' = attempts /\ best' = best /\ tried' = tried
    BY <1>4
  <2>3. SearchTypes'
    BY <1>4, <2>2 DEF IInv, SearchTypes, Stages
  <2>4. DrawingsAreOfCall'
    BY <1>1, <1>4, <2>1, <2>2 DEF DrawingsAreOfCall, Searching
  <2>5. NothingTriedYet' /\ AttemptsLast'
    BY <1>1, <1>4, <2>2 DEF IInv, NothingTriedYet, AttemptsLast
  <2>6. PlannedWork' /\ BestSoFar'
    BY <2>2 DEF IInv, PlannedWork, BestSoFar
  <2>7. ErrorIsOfOutcome'
    BY <1>1, <1>4, <2>2 DEF IInv, ErrorIsOfOutcome
  <2> QED BY <2>3, <2>4, <2>5, <2>6, <2>7 DEF IInv
<1> QED BY <1>2, <1>3, <1>4 DEF OpenHorizontal

LEMMA OpenVerticalKeeps == IInv /\ OpenVertical => IInv'
<1> SUFFICES ASSUME IInv, OpenVertical PROVE IInv'
  OBVIOUS
<1>1. /\ stage = "deepen" /\ IsCall(call) /\ call.x.anchor \in DOMAIN call.compact.nodes
      /\ IsDrawn(call, widened)
  BY DEF OpenVertical, IInv, DrawingsAreOfCall, SearchTypes
<1>2. /\ stage' = "plan" /\ call' = call /\ work' = work /\ positions' = positions /\ error' = error
      /\ direct' = direct /\ attempts' = attempts /\ best' = best /\ tried' = tried /\ widened' = widened
  BY DEF OpenVertical
<1>3. reflow' = None \/ IsDrawn(call, reflow')
  <2>1. reflow' = None \/ (CanDeepen(call, widened) /\ reflow' = Deepen(call, widened))
    BY DEF OpenVertical
  <2> QED BY <1>1, <2>1, DeepenedIsDrawn
<1>4. SearchTypes'
  BY <1>2 DEF IInv, SearchTypes, Stages
<1>5. DrawingsAreOfCall'
  BY <1>1, <1>2, <1>3 DEF DrawingsAreOfCall, Searching
<1>6. NothingTriedYet' /\ AttemptsLast'
  BY <1>1, <1>2 DEF IInv, NothingTriedYet, AttemptsLast
<1>7. PlannedWork' /\ BestSoFar'
  BY <1>2 DEF IInv, PlannedWork, BestSoFar
<1>8. ErrorIsOfOutcome'
  BY <1>1, <1>2 DEF IInv, ErrorIsOfOutcome
<1> QED BY <1>4, <1>5, <1>6, <1>7, <1>8 DEF IInv

LEMMA PlanKeeps ==
  ASSUME IInv, stage = "plan", NEW cost \in Nat \ {0}, NEW reserved \in Nat, NEW layout,
         Affordable(call, cost, reserved), Plan(cost, reserved, layout),
         layout = None \/ (IsDrawn(call, layout) /\ reserved = LocalReflowCandidates)
  PROVE  IInv'
<1>1. /\ IsCall(call) /\ call.x.anchor \in DOMAIN call.compact.nodes /\ IsDrawn(call, widened)
      /\ tried = <<>> /\ best = 0
  BY DEF IInv, DrawingsAreOfCall, SearchTypes, NothingTriedYet
<1>2. PICK many : many = CandidatePositions(call, widened, cost, reserved)
  OBVIOUS
<1>3. PICK seq : seq = Prioritized(call, many)
  OBVIOUS
<1>4. /\ positions' = seq /\ attempts' = Len(seq) + reserved /\ work' = cost /\ reflow' = layout
      /\ call' = call /\ widened' = widened /\ direct' = direct /\ best' = best
      /\ error' = error /\ tried' = tried
      /\ stage' \in {"reflow", "place"} /\ (stage' = "reflow" => layout # None)
  BY <1>2, <1>3 DEF Plan
<1>5. call.effort \in DOMAIN Budget
  BY <1>1 DEF IsCall
<1>6. /\ CandidateLimit(call, cost, reserved) \in Nat
      /\ \A n \in Int : n <= CandidateLimit(call, cost, reserved) + SafetyCandidates
                         => (n + reserved) * cost <= Budget[call.effort]
  BY <1>5, PlanIsWithinBudget
<1>7. /\ many \in Seq(Coordinates)
      /\ Len(many) <= CandidateLimit(call, cost, reserved) + SafetyCandidates
  BY <1>1, <1>2, <1>6, PositionsAreFew
<1>8. seq \in Seq(Coordinates) /\ Len(seq) <= Len(many)
  BY <1>1, <1>3, <1>7, PreferredAreAsFew
<1>9. Len(seq) \in Nat /\ Len(seq) <= CandidateLimit(call, cost, reserved) + SafetyCandidates
  <2>1. Len(seq) \in Nat /\ Len(many) \in Nat
    BY <1>7, <1>8
  <2> QED BY <1>6, <1>7, <1>8, <2>1 DEF SafetyCandidates
<1>10. SearchTypes'
  <2>1. attempts' \in Nat /\ work' \in Nat
    BY <1>4, <1>9
  <2> QED BY <1>4, <1>8, <2>1 DEF IInv, SearchTypes, Stages
<1>11. DrawingsAreOfCall'
  BY <1>1, <1>4 DEF DrawingsAreOfCall, Searching
<1>12. NothingTriedYet'
  BY <1>4 DEF NothingTriedYet
<1>13. AttemptsLast'
  <2>1. stage' = "reflow" => reserved = 2
    BY <1>4 DEF LocalReflowCandidates
  <2>2. seq # <<>> => Len(seq) > 0
    BY <1>8
  <2> QED BY <1>4, <1>9, <2>1, <2>2 DEF AttemptsLast
<1>14. PlannedWork'
  <2>1. Len(tried') = 0
    BY <1>1, <1>4
  <2>2. (Len(seq) + reserved) * cost <= Budget[call.effort]
    BY <1>6, <1>9
  <2>3. Len(tried') + attempts' = Len(seq) + reserved
    BY <1>4, <1>9, <2>1
  <2> QED BY <1>4, <2>2, <2>3 DEF PlannedWork
<1>15. BestSoFar'
  BY <1>4 DEF IInv, BestSoFar
<1>16. ErrorIsOfOutcome'
  BY <1>1, <1>4 DEF IInv, ErrorIsOfOutcome
<1> QED BY <1>10, <1>11, <1>12, <1>13, <1>14, <1>15, <1>16 DEF IInv

LEMMA PlansKeep == IInv /\ (PlanWithReflow \/ PlanWithout \/ PlanFails) => IInv'
<1> SUFFICES ASSUME IInv, PlanWithReflow \/ PlanWithout \/ PlanFails PROVE IInv'
  OBVIOUS
<1>1. IsCall(call) /\ call.work \in Nat \ {0} /\ call.reflowWork \in Nat \ {0}
  BY DEF IInv, SearchTypes, IsCall
<1>2. CASE PlanWithReflow
  <2>1. /\ stage = "plan" /\ reflow # None
        /\ Affordable(call, call.reflowWork, LocalReflowCandidates)
        /\ Plan(call.reflowWork, LocalReflowCandidates, reflow)
    BY <1>2 DEF PlanWithReflow, ReflowAffordable
  <2>2. IsDrawn(call, reflow)
    BY <2>1 DEF IInv, DrawingsAreOfCall
  <2>3. LocalReflowCandidates \in Nat
    BY DEF LocalReflowCandidates
  <2> QED BY <1>1, <2>1, <2>2, <2>3, PlanKeeps
<1>3. CASE PlanWithout
  <2>1. stage = "plan" /\ Affordable(call, call.work, 0) /\ Plan(call.work, 0, None)
    BY <1>3 DEF PlanWithout
  <2> QED BY <1>1, <2>1, PlanKeeps
<1>4. CASE PlanFails
  <2>1. Fail("ExpansionWorkLimitExceeded")
    BY <1>4 DEF PlanFails
  <2> QED BY <2>1, FailKeeps, SearchErrorsAssumption DEF SearchErrors
<1> QED BY <1>2, <1>3, <1>4

\* A candidate more: the attempts it is one of, the best with it.
LEMMA EvaluatedKeeps ==
  ASSUME IInv, stage \in Searching, attempts > 0, NEW layout, IsDrawn(call, layout),
         NEW at \in Coordinates, NEW verdict \in call.verdicts, Evaluated(layout, at, verdict),
         call' = call, work' = work
  PROVE  /\ attempts' = attempts - 1 /\ attempts' \in Nat /\ best' \in Nat
         /\ tried' \in Seq(Attempts)
         /\ BestSoFar' /\ PlannedWork'
<1>1. /\ IsCall(call) /\ attempts \in Nat /\ work \in Nat /\ best \in Nat /\ direct \in BOOLEAN
      /\ tried \in Seq(Attempts) /\ IsBest(tried, best)
      /\ (Len(tried) + attempts) * work <= Budget[call.effort]
      /\ call.x.anchor \in DOMAIN call.compact.nodes
  BY DEF IInv, SearchTypes, BestSoFar, PlannedWork, DrawingsAreOfCall, Searching
<1>2. PICK score : score = IF verdict.admitted THEN Score(call, layout, at, verdict.quality) ELSE None
  OBVIOUS
<1>3. PICK e : e = [at |-> at, reflow |-> stage = "reflow", direct |-> direct, score |-> score]
  OBVIOUS
<1>4. /\ attempts' = attempts - 1
      /\ tried' = Append(tried, e)
      /\ best' = IF score # None /\ (best = 0 \/ Beats(score, tried[best].score))
                 THEN Len(tried) + 1 ELSE best
  BY <1>2, <1>3 DEF Evaluated
<1>5. attempts' \in Nat
  BY <1>1, <1>4
<1>6. e \in Attempts
  <2>1. score \in Scores \cup {None}
    BY <1>1, <1>2, ScoreIsNumbers DEF IsCall
  <2> QED BY <1>1, <1>3, <2>1 DEF Attempts
<1>7. tried' \in Seq(Attempts) /\ Len(tried') = Len(tried) + 1
  BY <1>1, <1>4, <1>6
<1>8. best' \in Nat /\ IsBest(tried', best')
  <2>1. e.score = score
    BY <1>3
  <2>2. best' = IF e.score # None /\ (best = 0 \/ Less(e.score, tried[best].score))
                THEN Len(tried) + 1 ELSE best
    BY <1>4, <2>1 DEF Beats
  <2>3. IsBest(Append(tried, e), best')
    BY <1>1, <1>6, <2>2, BestOfMore
  <2> QED BY <1>1, <1>4, <2>3
<1>9. PlannedWork'
  <2>1. Len(tried') + attempts' = Len(tried) + attempts
    BY <1>1, <1>4, <1>7
  <2> QED BY <1>1, <2>1 DEF PlannedWork
<1> QED BY <1>4, <1>5, <1>7, <1>8, <1>9 DEF BestSoFar

LEMMA OutOfWorkKeeps == \A verdict : IInv /\ OutOfWork(verdict) => IInv'
<1> SUFFICES ASSUME NEW verdict, IInv, OutOfWork(verdict) PROVE IInv'
  OBVIOUS
<1>1. Fail("ExpansionWorkLimitExceeded")
  BY DEF OutOfWork
<1> QED BY <1>1, FailKeeps, SearchErrorsAssumption DEF SearchErrors

LEMMA TryReflowKeeps == IInv /\ TryReflow => IInv'
<1> SUFFICES ASSUME IInv, TryReflow PROVE IInv'
  OBVIOUS
<1>1. /\ stage = "reflow" /\ IsCall(call) /\ call.x.anchor \in DOMAIN call.compact.nodes
      /\ IsDrawn(call, widened) /\ IsDrawn(call, reflow)
      /\ positions \in Seq(Coordinates) /\ attempts \in Nat /\ direct \in BOOLEAN /\ error = None
      /\ attempts >= Len(positions) + (IF direct THEN 2 ELSE 1)
  BY DEF TryReflow, IInv, SearchTypes, DrawingsAreOfCall, AttemptsLast, ErrorIsOfOutcome, Searching
<1>2. PICK verdict \in call.verdicts :
        \/ OutOfWork(verdict)
        \/ /\ Evaluated(reflow, AnchorOrigin(reflow), verdict)
           /\ direct' = (verdict.admitted \/ ~ direct)
           /\ stage' = IF verdict.admitted \/ ~ direct THEN "place" ELSE "reflow"
           /\ UNCHANGED <<call, widened, reflow, work, positions, error>>
  BY DEF TryReflow
<1>3. CASE OutOfWork(verdict)
  BY <1>3, OutOfWorkKeeps
<1>4. CASE ~ OutOfWork(verdict)
  <2>1. /\ Evaluated(reflow, AnchorOrigin(reflow), verdict)
        /\ direct' = (verdict.admitted \/ ~ direct)
        /\ stage' = IF verdict.admitted \/ ~ direct THEN "place" ELSE "reflow"
        /\ call' = call /\ widened' = widened /\ reflow' = reflow /\ work' = work
        /\ positions' = positions /\ error' = error
    BY <1>2, <1>4
  <2>2. verdict.admitted \in BOOLEAN
    BY <1>1 DEF IsCall
  <2>3. Len(positions) \in Nat /\ (positions # <<>> => Len(positions) > 0)
    BY <1>1
  <2>4. attempts > 0
    BY <1>1, <2>3
  <2>5. AnchorOrigin(reflow) \in Coordinates
    <3>1. reflow.nodes \in [DOMAIN call.compact.nodes -> Box]
      BY <1>1 DEF IsDrawn
    <3>2. reflow.nodes[call.x.anchor].x \in Int /\ reflow.nodes[call.x.anchor].y \in Int
      BY <1>1, <3>1, BoxesAreNumbers
    <3> QED BY <3>2 DEF AnchorOrigin, Coordinates
  <2>6. /\ attempts' = attempts - 1 /\ attempts' \in Nat /\ best' \in Nat
        /\ tried' \in Seq(Attempts)
        /\ BestSoFar' /\ PlannedWork'
    BY <1>1, <2>1, <2>4, <2>5, EvaluatedKeeps DEF Searching
  <2>7. SearchTypes'
    BY <1>1, <2>1, <2>2, <2>6 DEF IInv, SearchTypes, Stages
  <2>8. DrawingsAreOfCall'
    BY <1>1, <2>1 DEF DrawingsAreOfCall, Searching
  <2>9. NothingTriedYet' /\ ErrorIsOfOutcome'
    BY <1>1, <2>1, SearchErrorsAssumption DEF NothingTriedYet, ErrorIsOfOutcome, SearchErrors
  <2>10. AttemptsLast'
    <3>1. CASE verdict.admitted \/ ~ direct
      <4>1. stage' = "place"
        BY <2>1, <3>1
      <4>2. attempts' >= Len(positions)
        BY <1>1, <2>3, <2>6
      <4> QED BY <2>1, <2>3, <2>6, <4>1, <4>2 DEF AttemptsLast
    <3>2. CASE ~ (verdict.admitted \/ ~ direct)
      <4>1. stage' = "reflow" /\ direct' = FALSE /\ direct = TRUE
        BY <1>1, <2>1, <2>2, <3>2
      <4>2. attempts' >= Len(positions) + 1
        BY <1>1, <2>3, <2>6, <4>1
      <4> QED BY <2>1, <4>1, <4>2 DEF AttemptsLast
    <3> QED BY <3>1, <3>2
  <2> QED BY <2>6, <2>7, <2>8, <2>9, <2>10 DEF IInv
<1> QED BY <1>3, <1>4

LEMMA PlaceHereKeeps == IInv /\ PlaceHere => IInv'
<1> SUFFICES ASSUME IInv, PlaceHere PROVE IInv'
  OBVIOUS
<1>1. /\ stage = "place" /\ positions # <<>>
      /\ IsCall(call) /\ call.x.anchor \in DOMAIN call.compact.nodes
      /\ IsDrawn(call, widened) /\ (reflow = None \/ IsDrawn(call, reflow))
      /\ positions \in Seq(Coordinates) /\ attempts \in Nat /\ direct \in BOOLEAN /\ error = None
      /\ attempts > 0
  BY DEF PlaceHere, IInv, SearchTypes, DrawingsAreOfCall, AttemptsLast, ErrorIsOfOutcome, Searching
<1>2. Head(positions) \in Coordinates /\ Tail(positions) \in Seq(Coordinates)
  BY <1>1
<1>3. PICK at : at = Head(positions)
  OBVIOUS
<1>4. PICK verdict \in call.verdicts :
        \/ OutOfWork(verdict)
        \/ /\ Evaluated(widened, at, verdict)
           /\ direct' = (verdict.admitted \/ ~ direct)
           /\ positions' = IF verdict.admitted \/ ~ direct THEN Tail(positions) ELSE positions
           /\ stage' = IF attempts' = 0 THEN "done" ELSE stage
           /\ error' = IF attempts' = 0 THEN Result(best') ELSE error
           /\ UNCHANGED <<call, widened, reflow, work>>
  BY <1>3 DEF PlaceHere
<1>5. CASE OutOfWork(verdict)
  BY <1>5, OutOfWorkKeeps
<1>6. CASE ~ OutOfWork(verdict)
  <2>1. /\ Evaluated(widened, at, verdict)
        /\ direct' = (verdict.admitted \/ ~ direct)
        /\ positions' = IF verdict.admitted \/ ~ direct THEN Tail(positions) ELSE positions
        /\ stage' = IF attempts' = 0 THEN "done" ELSE stage
        /\ error' = IF attempts' = 0 THEN Result(best') ELSE error
        /\ call' = call /\ widened' = widened /\ reflow' = reflow /\ work' = work
    BY <1>4, <1>6
  <2>2. verdict.admitted \in BOOLEAN
    BY <1>1 DEF IsCall
  <2>3. at \in Coordinates
    BY <1>2, <1>3
  <2>4. /\ attempts' = attempts - 1 /\ attempts' \in Nat /\ best' \in Nat
        /\ tried' \in Seq(Attempts)
        /\ BestSoFar' /\ PlannedWork'
    BY <1>1, <2>1, <2>3, EvaluatedKeeps DEF Searching
  <2>5. stage' \in {"place", "done"} /\ (stage' = "place" => attempts' > 0)
    BY <1>1, <2>1, <2>4
  <2>6. SearchTypes'
    <3>1. positions' \in Seq(Coordinates) /\ direct' \in BOOLEAN
      BY <1>1, <1>2, <2>1, <2>2
    <3> QED BY <1>1, <2>1, <2>4, <2>5, <3>1 DEF IInv, SearchTypes, Stages
  <2>7. DrawingsAreOfCall'
    BY <1>1, <2>1, <2>5 DEF DrawingsAreOfCall, Searching
  <2>8. NothingTriedYet' /\ AttemptsLast'
    BY <2>5 DEF NothingTriedYet, AttemptsLast
  <2>9. ErrorIsOfOutcome'
    <3>1. CASE attempts' = 0
      BY <2>1, <3>1, SearchErrorsAssumption DEF ErrorIsOfOutcome, Result, SearchErrors
    <3>2. CASE attempts' # 0
      BY <1>1, <2>1, <3>2, SearchErrorsAssumption DEF ErrorIsOfOutcome, SearchErrors
    <3> QED BY <3>1, <3>2
  <2> QED BY <2>4, <2>6, <2>7, <2>8, <2>9 DEF IInv
<1> QED BY <1>5, <1>6

LEMMA PassOverKeeps == IInv /\ PassOver => IInv'
<1> SUFFICES ASSUME IInv, PassOver PROVE IInv'
  OBVIOUS
<1>1. /\ stage = "place" /\ positions # <<>> /\ positions' = Tail(positions)
      /\ call' = call /\ stage' = stage /\ widened' = widened /\ reflow' = reflow /\ work' = work
      /\ direct' = direct /\ attempts' = attempts /\ best' = best /\ error' = error /\ tried' = tried
  BY DEF PassOver
<1>2. positions \in Seq(Coordinates) /\ attempts > 0
  BY <1>1 DEF IInv, SearchTypes, AttemptsLast
<1>3. positions' \in Seq(Coordinates)
  BY <1>1, <1>2
<1>4. SearchTypes'
  BY <1>1, <1>3 DEF IInv, SearchTypes
<1>5. DrawingsAreOfCall'
  BY <1>1 DEF IInv, DrawingsAreOfCall
<1>6. NothingTriedYet' /\ AttemptsLast'
  BY <1>1, <1>2 DEF NothingTriedYet, AttemptsLast
<1>7. PlannedWork' /\ BestSoFar'
  BY <1>1 DEF IInv, PlannedWork, BestSoFar
<1>8. ErrorIsOfOutcome'
  BY <1>1 DEF IInv, ErrorIsOfOutcome
<1> QED BY <1>4, <1>5, <1>6, <1>7, <1>8 DEF IInv

LEMMA ExhaustedKeeps == IInv /\ Exhausted => IInv'
<1> SUFFICES ASSUME IInv, Exhausted PROVE IInv'
  OBVIOUS
<1>1. /\ stage = "place" /\ stage' = "done" /\ error' = Result(best)
      /\ call' = call /\ work' = work /\ positions' = positions
      /\ direct' = direct /\ attempts' = attempts /\ best' = best /\ tried' = tried
  BY DEF Exhausted
<1>2. SearchTypes'
  BY <1>1 DEF IInv, SearchTypes, Stages
<1>3. DrawingsAreOfCall' /\ NothingTriedYet' /\ AttemptsLast'
  BY <1>1 DEF DrawingsAreOfCall, NothingTriedYet, AttemptsLast, Searching
<1>4. PlannedWork' /\ BestSoFar'
  BY <1>1 DEF IInv, PlannedWork, BestSoFar
<1>5. ErrorIsOfOutcome'
  BY <1>1, SearchErrorsAssumption DEF ErrorIsOfOutcome, Result, SearchErrors
<1> QED BY <1>2, <1>3, <1>4, <1>5 DEF IInv

LEMMA StutterKeeps == IInv /\ UNCHANGED vars => IInv'
<1> SUFFICES ASSUME IInv, UNCHANGED vars PROVE IInv'
  OBVIOUS
<1>1. /\ call' = call /\ stage' = stage /\ widened' = widened /\ reflow' = reflow /\ work' = work
      /\ positions' = positions /\ direct' = direct /\ attempts' = attempts /\ best' = best
      /\ error' = error /\ tried' = tried
  BY DEF vars
<1>2. SearchTypes' /\ DrawingsAreOfCall'
  BY <1>1 DEF IInv, SearchTypes, DrawingsAreOfCall
<1>3. NothingTriedYet' /\ AttemptsLast'
  BY <1>1 DEF IInv, NothingTriedYet, AttemptsLast
<1>4. PlannedWork' /\ BestSoFar' /\ ErrorIsOfOutcome'
  BY <1>1 DEF IInv, PlannedWork, BestSoFar, ErrorIsOfOutcome
<1> QED BY <1>2, <1>3, <1>4 DEF IInv

LEMMA BestOnReturn == IInv => SearchIsBestAffordable
<1> SUFFICES ASSUME IInv PROVE SearchIsBestAffordable
  OBVIOUS
<1>1. AttemptsAffordable
  BY DEF IInv, SearchTypes, PlannedWork, AttemptsAffordable
<1>2. Admitted(tried) = {i \in DOMAIN tried : tried[i].score # None}
  BY DEF Admitted
<1>3. BestIsReturned
  BY <1>2 DEF IInv, BestSoFar, IsBest, ErrorIsOfOutcome, BestIsReturned
<1> QED BY <1>1, <1>3 DEF SearchIsBestAffordable

\* expand_group_in_place never plans for more attempts than its work budget
\* affords, nor counts below zero those that remain; it returns the best
\* candidate it admitted, the earliest of equals, and asks for a full relayout
\* only when it admitted none: for every drawing, settings and verdicts.
THEOREM SearchReturnsBest == Spec => []SearchIsBestAffordable
<1>1. Init => IInv
  BY InitIInv
<1>2. IInv /\ [Next]_vars => IInv'
  BY CheckKeeps, OpenHorizontalKeeps, OpenVerticalKeeps, PlansKeep, TryReflowKeeps, PlaceHereKeeps,
     PassOverKeeps, ExhaustedKeeps, StutterKeeps DEF Next
<1>3. IInv => SearchIsBestAffordable
  BY BestOnReturn
<1> QED BY <1>1, <1>2, <1>3, PTL DEF Spec

-----------------------------------------------------------------------------
(* Frames, and what is drawn in a layout.                                  *)

Rect == [left : Int, top : Int, right : Int, bottom : Int]

Offset(r, dx, dy) == [left |-> r.left + dx, top |-> r.top + dy,
                      right |-> r.right + dx, bottom |-> r.bottom + dy]

Inside(a, b) == b.left <= a.left /\ b.top <= a.top /\ a.right <= b.right /\ a.bottom <= b.bottom

\* What takes up room, at the right of the left border.
Solid(r) == r.left < r.right /\ r.top < r.bottom /\ r.right > 0

LEMMA RectFacts ==
  ASSUME NEW r \in Rect
  PROVE  r.left \in Int /\ r.top \in Int /\ r.right \in Int /\ r.bottom \in Int
BY DEF Rect

LEMMA OffsetIsRect ==
  ASSUME NEW r \in Rect, NEW dx \in Int, NEW dy \in Int
  PROVE  Offset(r, dx, dy) \in Rect
BY DEF Rect, Offset

LEMMA NodeIsRect ==
  ASSUME NEW box \in Box
  PROVE  FromNode(box) \in Rect
BY DEF Box, Rect, FromNode

LEMMA OffsetsOverlap ==
  ASSUME NEW r \in Rect, NEW q \in Rect, NEW dx \in Int, NEW dy \in Int
  PROVE  /\ Overlap(r, q) <=> Overlap(q, r)
         /\ Overlap(Offset(r, dx, dy), Offset(q, dx, dy)) <=> Overlap(r, q)
<1>1. /\ r.left \in Int /\ r.top \in Int /\ r.right \in Int /\ r.bottom \in Int
      /\ q.left \in Int /\ q.top \in Int /\ q.right \in Int /\ q.bottom \in Int
  BY RectFacts
<1> QED BY <1>1 DEF Overlap, Offset

\* What does not overlap does not do so in part.
LEMMA InsideOverlaps ==
  ASSUME NEW r \in Rect, NEW q \in Rect, NEW rin \in Rect, NEW qin \in Rect,
         Inside(rin, r), Inside(qin, q), NEW dx \in Int, NEW dy \in Int,
         ~ Overlap(Offset(r, dx, dy), q)
  PROVE  ~ Overlap(Offset(rin, dx, dy), qin)
<1>1. /\ r.left \in Int /\ r.top \in Int /\ r.right \in Int /\ r.bottom \in Int
      /\ q.left \in Int /\ q.top \in Int /\ q.right \in Int /\ q.bottom \in Int
      /\ rin.left \in Int /\ rin.top \in Int /\ rin.right \in Int /\ rin.bottom \in Int
      /\ qin.left \in Int /\ qin.top \in Int /\ qin.right \in Int /\ qin.bottom \in Int
  BY RectFacts
<1> QED BY <1>1 DEF Overlap, Offset, Inside

-----------------------------------------------------------------------------
(* Frames of groups.                                                       *)

\* The group is of other nodes than the anchor, and of no other group.
GroupsFit(c) ==
  /\ \A g \in DOMAIN c.groups :
       /\ c.groups[g].padding \in Nat
       /\ Members(c.groups[g]) # {}
       /\ Members(c.groups[g]) \subseteq Others(c)
  /\ \A g, h \in DOMAIN c.groups : g # h => Members(c.groups[g]) \cap Members(c.groups[h]) = {}

LEMMA ExtremesOf ==
  ASSUME NEW S \in SUBSET Int, IsFiniteSet(S), S # {}
  PROVE  /\ Min(S) \in S /\ \A y \in S : Min(S) <= y
         /\ Max(S) \in S /\ \A y \in S : Max(S) >= y
<1>1. \E x \in S : \A y \in S : x >= y
  BY GreatestOfFinite
<1>2. Max(S) \in S /\ \A y \in S : Max(S) >= y
  BY <1>1 DEF Max
<1>3. \E x \in S : \A y \in S : x <= y
  <2>1. PICK f : f = [x \in S |-> -x]
    OBVIOUS
  <2>2. f \in [S -> Int] /\ \A x \in S : f[x] = -x
    BY <2>1
  <2>3. PICK M : M = {f[x] : x \in S}
    OBVIOUS
  <2>4. Max(M) \in M /\ \A y \in M : Max(M) >= y
    BY <2>2, <2>3, GreatestValue
  <2>5. PICK x \in S : Max(M) = -x
    BY <2>2, <2>3, <2>4
  <2>6. ASSUME NEW y \in S PROVE x <= y
    <3>1. Max(M) >= -y
      BY <2>2, <2>3, <2>4
    <3> QED BY <2>5, <3>1
  <2> QED BY <2>6
<1>4. Min(S) \in S /\ \A y \in S : Min(S) <= y
  BY <1>3 DEF Min
<1> QED BY <1>2, <1>4

\* The values at some nodes.
Values(f, S) == {f[n] : n \in S}

LEMMA ExtremesAt ==
  ASSUME NEW S, IsFiniteSet(S), S # {}, NEW f \in [S -> Int]
  PROVE  /\ Min(Values(f, S)) \in Int
         /\ \E n \in S : Min(Values(f, S)) = f[n]
         /\ \A n \in S : Min(Values(f, S)) <= f[n]
         /\ Max(Values(f, S)) \in Int
         /\ \E n \in S : Max(Values(f, S)) = f[n]
         /\ \A n \in S : Max(Values(f, S)) >= f[n]
<1>1. PICK M : M = {f[n] : n \in S}
  OBVIOUS
<1>2. IsFiniteSet(M)
  BY <1>1, GreatestValue
<1>3. M \in SUBSET Int /\ M # {}
  BY <1>1
<1>4. /\ Min(M) \in M /\ \A y \in M : Min(M) <= y
      /\ Max(M) \in M /\ \A y \in M : Max(M) >= y
  BY <1>2, <1>3, ExtremesOf
<1>5. Values(f, S) = M
  BY <1>1 DEF Values
<1> QED BY <1>1, <1>4, <1>5

LEMMA ExtremesMove ==
  ASSUME NEW S, IsFiniteSet(S), S # {}, NEW f \in [S -> Int], NEW h \in [S -> Int], NEW d \in Int,
         \A n \in S : h[n] = f[n] + d
  PROVE  /\ Min(Values(h, S)) = Min(Values(f, S)) + d
         /\ Max(Values(h, S)) = Max(Values(f, S)) + d
<1>1. /\ Min(Values(f, S)) \in Int /\ Max(Values(f, S)) \in Int
      /\ Min(Values(h, S)) \in Int /\ Max(Values(h, S)) \in Int
  BY ExtremesAt
<1>2. Min(Values(h, S)) = Min(Values(f, S)) + d
  <2>1. PICK n \in S : Min(Values(f, S)) = f[n]
    BY ExtremesAt
  <2>2. PICK m \in S : Min(Values(h, S)) = h[m]
    BY ExtremesAt
  <2>3. Min(Values(h, S)) <= h[n] /\ Min(Values(f, S)) <= f[m]
    BY ExtremesAt
  <2>4. f[n] \in Int /\ f[m] \in Int /\ h[n] = f[n] + d /\ h[m] = f[m] + d
    OBVIOUS
  <2> QED BY <1>1, <2>1, <2>2, <2>3, <2>4
<1>3. Max(Values(h, S)) = Max(Values(f, S)) + d
  <2>1. PICK n \in S : Max(Values(f, S)) = f[n]
    BY ExtremesAt
  <2>2. PICK m \in S : Max(Values(h, S)) = h[m]
    BY ExtremesAt
  <2>3. Max(Values(h, S)) >= h[n] /\ Max(Values(f, S)) >= f[m]
    BY ExtremesAt
  <2>4. f[n] \in Int /\ f[m] \in Int /\ h[n] = f[n] + d /\ h[m] = f[m] + d
    OBVIOUS
  <2> QED BY <1>1, <2>1, <2>2, <2>3, <2>4
<1> QED BY <1>2, <1>3

\* The sides of the members of a group in a drawing, and its frame by them.
AreSides(nodes, group, S, l, t, r, b) ==
  /\ S = Members(group) /\ IsFiniteSet(S) /\ S # {} /\ group.padding \in Nat
  /\ l \in [S -> Int] /\ t \in [S -> Int] /\ r \in [S -> Int] /\ b \in [S -> Int]
  /\ \A n \in S : /\ l[n] = nodes[n].x /\ t[n] = nodes[n].y
                  /\ r[n] = nodes[n].x + nodes[n].width
                  /\ b[n] = nodes[n].y + nodes[n].height
  /\ ProtectedFrame(nodes, group)
       = Expanded([left |-> Min(Values(l, S)), top |-> Min(Values(t, S)),
                   right |-> Max(Values(r, S)), bottom |-> Max(Values(b, S))], group.padding)

LEMMA FrameHasSides ==
  ASSUME NEW c, IsCall(c), GroupsFit(c), NEW g \in DOMAIN c.groups,
         NEW nodes \in [DOMAIN c.compact.nodes -> Box]
  PROVE  \E S, l, t, r, b : AreSides(nodes, c.groups[g], S, l, t, r, b)
<1>1. PICK S : S = Members(c.groups[g])
  OBVIOUS
<1>2. c.groups[g].padding \in Nat /\ S # {} /\ S \subseteq DOMAIN c.compact.nodes
  BY <1>1 DEF GroupsFit, Others
<1>3. IsFiniteSet(S)
  BY <1>2, FS_Subset DEF IsCall, IsGraph
<1>4. \A n \in S : /\ nodes[n].x \in Int /\ nodes[n].y \in Int
                   /\ nodes[n].width \in Int /\ nodes[n].height \in Int
  BY <1>2, BoxesAreNumbers
<1>5. PICK l, t, r, b :
        /\ l = [n \in S |-> nodes[n].x] /\ t = [n \in S |-> nodes[n].y]
        /\ r = [n \in S |-> nodes[n].x + nodes[n].width]
        /\ b = [n \in S |-> nodes[n].y + nodes[n].height]
  OBVIOUS
<1>6. l \in [S -> Int] /\ t \in [S -> Int] /\ r \in [S -> Int] /\ b \in [S -> Int]
  BY <1>4, <1>5
<1>7. \A n \in S : /\ l[n] = nodes[n].x /\ t[n] = nodes[n].y
                   /\ r[n] = nodes[n].x + nodes[n].width
                   /\ b[n] = nodes[n].y + nodes[n].height
  BY <1>5
<1>8. {nodes[n].x : n \in S} = Values(l, S)
  BY <1>7 DEF Values
<1>9. {nodes[n].y : n \in S} = Values(t, S)
  BY <1>7 DEF Values
<1>10. {nodes[n].x + nodes[n].width : n \in S} = Values(r, S)
  BY <1>7 DEF Values
<1>11. {nodes[n].y + nodes[n].height : n \in S} = Values(b, S)
  BY <1>7 DEF Values
<1>12. ProtectedFrame(nodes, c.groups[g])
         = Expanded([left |-> Min({nodes[n].x : n \in S}), top |-> Min({nodes[n].y : n \in S}),
                     right |-> Max({nodes[n].x + nodes[n].width : n \in S}),
                     bottom |-> Max({nodes[n].y + nodes[n].height : n \in S})],
                    c.groups[g].padding)
  BY <1>1 DEF ProtectedFrame
<1>13. ProtectedFrame(nodes, c.groups[g])
         = Expanded([left |-> Min(Values(l, S)), top |-> Min(Values(t, S)),
                     right |-> Max(Values(r, S)), bottom |-> Max(Values(b, S))],
                    c.groups[g].padding)
  BY <1>8, <1>9, <1>10, <1>11, <1>12
<1>14. AreSides(nodes, c.groups[g], S, l, t, r, b)
  BY <1>1, <1>2, <1>3, <1>6, <1>7, <1>13 DEF AreSides
<1> QED BY <1>14

\* The frame of a group in a drawing encloses its members, and moves as they do.
LEMMA FrameEncloses ==
  ASSUME NEW c, IsCall(c), GroupsFit(c), NEW g \in DOMAIN c.groups,
         NEW nodes \in [DOMAIN c.compact.nodes -> Box]
  PROVE  /\ ProtectedFrame(nodes, c.groups[g]) \in Rect
         /\ \A m \in Members(c.groups[g]) :
              Inside(FromNode(nodes[m]), ProtectedFrame(nodes, c.groups[g]))
<1>1. PICK group, frame : group = c.groups[g] /\ frame = ProtectedFrame(nodes, group)
  OBVIOUS
<1>2. PICK S, l, t, r, b : AreSides(nodes, group, S, l, t, r, b)
  BY <1>1, FrameHasSides
<1>3. PICK left, top, right, bottom, pad :
        /\ left = Min(Values(l, S)) /\ top = Min(Values(t, S))
        /\ right = Max(Values(r, S)) /\ bottom = Max(Values(b, S)) /\ pad = group.padding
  OBVIOUS
<1>4. /\ IsFiniteSet(S) /\ S # {} /\ pad \in Nat
      /\ l \in [S -> Int] /\ t \in [S -> Int] /\ r \in [S -> Int] /\ b \in [S -> Int]
  BY <1>2, <1>3 DEF AreSides
<1>5. left \in Int /\ \A n \in S : left <= l[n]
  BY <1>3, <1>4, ExtremesAt
<1>6. top \in Int /\ \A n \in S : top <= t[n]
  BY <1>3, <1>4, ExtremesAt
<1>7. right \in Int /\ \A n \in S : right >= r[n]
  BY <1>3, <1>4, ExtremesAt
<1>8. bottom \in Int /\ \A n \in S : bottom >= b[n]
  BY <1>3, <1>4, ExtremesAt
<1>9. frame = [left |-> left - pad, top |-> top - pad, right |-> right + pad, bottom |-> bottom + pad]
  BY <1>1, <1>2, <1>3 DEF AreSides, Expanded
<1>10. frame \in Rect
  BY <1>4, <1>5, <1>6, <1>7, <1>8, <1>9 DEF Rect
<1>11. ASSUME NEW m \in S PROVE Inside(FromNode(nodes[m]), frame)
  <2>1. /\ left <= l[m] /\ top <= t[m] /\ right >= r[m] /\ bottom >= b[m]
        /\ l[m] \in Int /\ t[m] \in Int /\ r[m] \in Int /\ b[m] \in Int
    BY <1>4, <1>5, <1>6, <1>7, <1>8
  <2>2. PICK q : q = FromNode(nodes[m])
    OBVIOUS
  <2>3. q.left = l[m] /\ q.top = t[m] /\ q.right = r[m] /\ q.bottom = b[m]
    BY <1>2, <2>2 DEF AreSides, FromNode
  <2> QED BY <1>4, <1>5, <1>6, <1>7, <1>8, <1>9, <2>1, <2>2, <2>3 DEF Inside
<1>12. S = Members(group)
  BY <1>2 DEF AreSides
<1> QED BY <1>1, <1>10, <1>11, <1>12

LEMMA FrameMoves ==
  ASSUME NEW c, IsCall(c), GroupsFit(c), NEW g \in DOMAIN c.groups,
         NEW nodes \in [DOMAIN c.compact.nodes -> Box], NEW moved \in [DOMAIN c.compact.nodes -> Box],
         NEW dx \in Int, NEW dy \in Int,
         \A m \in Members(c.groups[g]) : FromNode(moved[m]) = Offset(FromNode(nodes[m]), dx, dy)
  PROVE  ProtectedFrame(moved, c.groups[g]) = Offset(ProtectedFrame(nodes, c.groups[g]), dx, dy)
<1>1. PICK group, pad : group = c.groups[g] /\ pad = group.padding
  OBVIOUS
<1>2. PICK S, l, t, r, b : AreSides(nodes, group, S, l, t, r, b)
  BY <1>1, FrameHasSides
<1>3. PICK T, l2, t2, r2, b2 : AreSides(moved, group, T, l2, t2, r2, b2)
  BY <1>1, FrameHasSides
<1>4. /\ T = S /\ S = Members(group) /\ IsFiniteSet(S) /\ S # {} /\ pad \in Nat
      /\ l \in [S -> Int] /\ t \in [S -> Int] /\ r \in [S -> Int] /\ b \in [S -> Int]
      /\ l2 \in [S -> Int] /\ t2 \in [S -> Int] /\ r2 \in [S -> Int] /\ b2 \in [S -> Int]
  BY <1>1, <1>2, <1>3 DEF AreSides
<1>5. ASSUME NEW n \in S
      PROVE  /\ l2[n] = l[n] + dx /\ t2[n] = t[n] + dy
             /\ r2[n] = r[n] + dx /\ b2[n] = b[n] + dy
  <2>1. PICK p, q : p = FromNode(nodes[n]) /\ q = FromNode(moved[n])
    OBVIOUS
  <2>2. p.left = l[n] /\ p.top = t[n] /\ p.right = r[n] /\ p.bottom = b[n]
    BY <1>2, <2>1 DEF AreSides, FromNode
  <2>3. q.left = l2[n] /\ q.top = t2[n] /\ q.right = r2[n] /\ q.bottom = b2[n]
    BY <1>3, <1>4, <2>1 DEF AreSides, FromNode
  <2>4. q = Offset(p, dx, dy)
    BY <1>1, <1>4, <2>1
  <2> QED BY <2>2, <2>3, <2>4 DEF Offset
<1>6. PICK left, top, right, bottom :
        /\ left = Min(Values(l, S)) /\ top = Min(Values(t, S))
        /\ right = Max(Values(r, S)) /\ bottom = Max(Values(b, S))
  OBVIOUS
<1>7. Min(Values(l2, S)) = left + dx /\ left \in Int
  BY <1>4, <1>5, <1>6, ExtremesMove, ExtremesAt
<1>8. Min(Values(t2, S)) = top + dy /\ top \in Int
  BY <1>4, <1>5, <1>6, ExtremesMove, ExtremesAt
<1>9. Max(Values(r2, S)) = right + dx /\ right \in Int
  BY <1>4, <1>5, <1>6, ExtremesMove, ExtremesAt
<1>10. Max(Values(b2, S)) = bottom + dy /\ bottom \in Int
  BY <1>4, <1>5, <1>6, ExtremesMove, ExtremesAt
<1>11. ProtectedFrame(nodes, group)
         = [left |-> left - pad, top |-> top - pad, right |-> right + pad, bottom |-> bottom + pad]
  BY <1>1, <1>2, <1>6 DEF AreSides, Expanded
<1>12. ProtectedFrame(moved, group)
         = Expanded([left |-> left + dx, top |-> top + dy,
                     right |-> right + dx, bottom |-> bottom + dy], pad)
  BY <1>1, <1>3, <1>4, <1>7, <1>8, <1>9, <1>10 DEF AreSides
<1>13. PICK rect : rect = [left |-> left + dx, top |-> top + dy,
                           right |-> right + dx, bottom |-> bottom + dy]
  OBVIOUS
<1>14. Expanded(rect, pad) = [left |-> (left - pad) + dx, top |-> (top - pad) + dy,
                              right |-> (right + pad) + dx, bottom |-> (bottom + pad) + dy]
  <2>1. /\ rect.left - pad = (left - pad) + dx /\ rect.top - pad = (top - pad) + dy
        /\ rect.right + pad = (right + pad) + dx /\ rect.bottom + pad = (bottom + pad) + dy
    BY <1>4, <1>7, <1>8, <1>9, <1>10, <1>13
  <2> QED BY <2>1 DEF Expanded
<1> QED BY <1>1, <1>11, <1>12, <1>13, <1>14 DEF Offset

-----------------------------------------------------------------------------
(* Moving some of a drawing.                                               *)

\* A drawing of the call: nodes have a size, at the right of the left border.
IsLaid(c, layout) ==
  /\ layout.nodes \in [DOMAIN c.compact.nodes -> Box]
  /\ \A n \in DOMAIN c.compact.nodes :
       LET r == FromNode(layout.nodes[n])
       IN  0 <= r.left /\ r.left < r.right /\ r.top < r.bottom
  /\ DOMAIN layout.frames = DOMAIN c.groups
  /\ \A g \in DOMAIN c.groups : layout.frames[g] = ProtectedFrame(layout.nodes, c.groups[g])

\* The other drawing is this one with some nodes and groups moved.
IsMove(c, layout, other, nodes, groups, dx, dy) ==
  /\ other.nodes \in [DOMAIN c.compact.nodes -> Box]
  /\ DOMAIN other.frames = DOMAIN c.groups
  /\ \A n \in DOMAIN c.compact.nodes :
       FromNode(other.nodes[n]) = IF n \in nodes THEN Offset(FromNode(layout.nodes[n]), dx, dy)
                                  ELSE FromNode(layout.nodes[n])
  /\ \A g \in DOMAIN c.groups :
       other.frames[g] = IF g \in groups THEN Offset(layout.frames[g], dx, dy) ELSE layout.frames[g]
  /\ \A g \in DOMAIN c.groups : \A n \in Members(c.groups[g]) : n \in nodes <=> g \in groups

\* A group has moved whole.
Together(c, layout) ==
  \A g \in DOMAIN c.groups : \A m, n \in Members(c.groups[g]) :
    /\ layout.nodes[m].x - c.layout.nodes[m].x = layout.nodes[n].x - c.layout.nodes[n].x
    /\ layout.nodes[m].y - c.layout.nodes[m].y = layout.nodes[n].y - c.layout.nodes[n].y

Loose(c) == {n \in DOMAIN c.compact.nodes : Owner(c, n) = {}}

LEMMA OwnersAgree ==
  ASSUME NEW c, GroupsFit(c), NEW n \in DOMAIN c.compact.nodes
  PROVE  /\ \A g \in DOMAIN c.groups : n \in Members(c.groups[g]) <=> Owner(c, n) = {g}
         /\ n \in Loose(c) \/ \E g \in DOMAIN c.groups : Owner(c, n) = {g} /\ n \in Members(c.groups[g])
<1>1. ASSUME NEW g \in DOMAIN c.groups, n \in Members(c.groups[g])
      PROVE  Owner(c, n) = {g}
  <2>1. ASSUME NEW h \in Owner(c, n) PROVE h = g
    BY <1>1, <2>1 DEF Owner, GroupsFit
  <2>2. g \in Owner(c, n)
    BY <1>1 DEF Owner
  <2> QED BY <2>1, <2>2
<1>2. ASSUME NEW g \in DOMAIN c.groups, Owner(c, n) = {g}
      PROVE  n \in Members(c.groups[g])
  BY <1>2 DEF Owner
<1>3. CASE Owner(c, n) = {}
  BY <1>1, <1>2, <1>3 DEF Loose
<1>4. CASE Owner(c, n) # {}
  <2>1. PICK g : g \in Owner(c, n)
    BY <1>4
  <2>2. g \in DOMAIN c.groups /\ n \in Members(c.groups[g])
    BY <2>1 DEF Owner
  <2> QED BY <1>1, <1>2, <2>2
<1> QED BY <1>3, <1>4

LEMMA MembersAreNodes ==
  ASSUME NEW c, GroupsFit(c), NEW g \in DOMAIN c.groups, NEW n \in Members(c.groups[g])
  PROVE  n \in DOMAIN c.compact.nodes
BY DEF GroupsFit, Others

LEMMA LaidIsRect ==
  ASSUME NEW c, IsCall(c), GroupsFit(c), NEW layout, IsLaid(c, layout)
  PROVE  /\ \A n \in DOMAIN c.compact.nodes :
              FromNode(layout.nodes[n]) \in Rect /\ Solid(FromNode(layout.nodes[n]))
         /\ \A g \in DOMAIN c.groups :
              /\ layout.frames[g] \in Rect /\ Solid(layout.frames[g])
              /\ \A n \in Members(c.groups[g]) : Inside(FromNode(layout.nodes[n]), layout.frames[g])
<1>1. ASSUME NEW n \in DOMAIN c.compact.nodes
      PROVE  FromNode(layout.nodes[n]) \in Rect /\ Solid(FromNode(layout.nodes[n]))
  <2>1. layout.nodes[n] \in Box
    BY DEF IsLaid
  <2>2. PICK r : r = FromNode(layout.nodes[n])
    OBVIOUS
  <2>3. r \in Rect
    BY <2>1, <2>2, NodeIsRect
  <2>4. 0 <= r.left /\ r.left < r.right /\ r.top < r.bottom
    BY <2>2 DEF IsLaid
  <2> QED BY <2>2, <2>3, <2>4, RectFacts DEF Solid
<1>2. ASSUME NEW g \in DOMAIN c.groups
      PROVE  /\ layout.frames[g] \in Rect /\ Solid(layout.frames[g])
             /\ \A n \in Members(c.groups[g]) : Inside(FromNode(layout.nodes[n]), layout.frames[g])
  <2>1. PICK q : q = layout.frames[g]
    OBVIOUS
  <2>2. q \in Rect /\ \A n \in Members(c.groups[g]) : Inside(FromNode(layout.nodes[n]), q)
    BY <2>1, FrameEncloses DEF IsLaid
  <2>3. PICK n : n \in Members(c.groups[g])
    BY DEF GroupsFit
  <2>4. PICK r : r = FromNode(layout.nodes[n])
    OBVIOUS
  <2>5. r \in Rect /\ Solid(r)
    BY <1>1, <2>3, <2>4, MembersAreNodes
  <2>6. Inside(r, q)
    BY <2>2, <2>3, <2>4
  <2>7. Solid(q)
    BY <2>2, <2>5, <2>6, RectFacts DEF Solid, Inside
  <2> QED BY <2>1, <2>2, <2>7
<1> QED BY <1>1, <1>2

LEMMA NoOffset ==
  ASSUME NEW r \in Rect
  PROVE  Offset(r, 0, 0) = r
BY DEF Rect, Offset

LEMMA MovedIsLaid ==
  ASSUME NEW c, IsCall(c), GroupsFit(c), NEW layout, IsLaid(c, layout), NEW other,
         NEW nodes, NEW groups, NEW dx \in Nat, NEW dy \in Int,
         IsMove(c, layout, other, nodes, groups, dx, dy)
  PROVE  IsLaid(c, other)
<1>1. /\ other.nodes \in [DOMAIN c.compact.nodes -> Box] /\ DOMAIN other.frames = DOMAIN c.groups
      /\ layout.nodes \in [DOMAIN c.compact.nodes -> Box]
  BY DEF IsMove, IsLaid
<1>2. ASSUME NEW n \in DOMAIN c.compact.nodes
      PROVE  LET r == FromNode(other.nodes[n])
             IN  0 <= r.left /\ r.left < r.right /\ r.top < r.bottom
  <2>1. PICK r, q : r = FromNode(layout.nodes[n]) /\ q = FromNode(other.nodes[n])
    OBVIOUS
  <2>2. r \in Rect
    BY <2>1, LaidIsRect
  <2>3. 0 <= r.left /\ r.left < r.right /\ r.top < r.bottom
    BY <2>1 DEF IsLaid
  <2>4. q = r \/ q = Offset(r, dx, dy)
    BY <2>1 DEF IsMove
  <2>5. 0 <= q.left /\ q.left < q.right /\ q.top < q.bottom
    BY <2>2, <2>3, <2>4, RectFacts DEF Offset
  <2> QED BY <2>1, <2>5
<1>3. ASSUME NEW g \in DOMAIN c.groups
      PROVE  other.frames[g] = ProtectedFrame(other.nodes, c.groups[g])
  <2>1. layout.frames[g] = ProtectedFrame(layout.nodes, c.groups[g]) /\ layout.frames[g] \in Rect
    BY LaidIsRect DEF IsLaid
  <2>2. CASE g \in groups
    <3>1. \A m \in Members(c.groups[g]) :
            FromNode(other.nodes[m]) = Offset(FromNode(layout.nodes[m]), dx, dy)
      BY <2>2, MembersAreNodes DEF IsMove
    <3>2. ProtectedFrame(other.nodes, c.groups[g])
            = Offset(ProtectedFrame(layout.nodes, c.groups[g]), dx, dy)
      BY <1>1, <3>1, FrameMoves
    <3> QED BY <2>1, <2>2, <3>2 DEF IsMove
  <2>3. CASE g \notin groups
    <3>1. \A m \in Members(c.groups[g]) :
            FromNode(other.nodes[m]) = Offset(FromNode(layout.nodes[m]), 0, 0)
      <4> TAKE m \in Members(c.groups[g])
      <4>1. m \in DOMAIN c.compact.nodes /\ m \notin nodes
        BY <2>3, MembersAreNodes DEF IsMove
      <4>2. FromNode(other.nodes[m]) = FromNode(layout.nodes[m]) /\ FromNode(layout.nodes[m]) \in Rect
        BY <4>1, LaidIsRect DEF IsMove
      <4> QED BY <4>2, NoOffset
    <3>2. ProtectedFrame(other.nodes, c.groups[g])
            = Offset(ProtectedFrame(layout.nodes, c.groups[g]), 0, 0)
      BY <1>1, <3>1, FrameMoves, 0 \in Int
    <3> QED BY <2>1, <2>3, <3>2, NoOffset DEF IsMove
  <2> QED BY <2>2, <2>3
<1> QED BY <1>1, <1>2, <1>3 DEF IsLaid

LEMMA MovedTogether ==
  ASSUME NEW c, IsCall(c), GroupsFit(c), NEW layout, IsLaid(c, layout), NEW other,
         NEW nodes, NEW groups, NEW dx \in Int, NEW dy \in Int,
         IsMove(c, layout, other, nodes, groups, dx, dy), Together(c, layout)
  PROVE  Together(c, other)
<1> SUFFICES ASSUME NEW g \in DOMAIN c.groups, NEW m \in Members(c.groups[g]), NEW n \in Members(c.groups[g])
             PROVE  /\ other.nodes[m].x - c.layout.nodes[m].x = other.nodes[n].x - c.layout.nodes[n].x
                    /\ other.nodes[m].y - c.layout.nodes[m].y = other.nodes[n].y - c.layout.nodes[n].y
  BY DEF Together
<1>1. m \in DOMAIN c.compact.nodes /\ n \in DOMAIN c.compact.nodes
  BY MembersAreNodes
<1>2. PICK a, b, a1, b1, a2, b2 :
        /\ a = c.layout.nodes[m] /\ b = c.layout.nodes[n]
        /\ a1 = layout.nodes[m] /\ b1 = layout.nodes[n]
        /\ a2 = other.nodes[m] /\ b2 = other.nodes[n]
  OBVIOUS
<1>3. /\ a.x \in Int /\ a.y \in Int /\ b.x \in Int /\ b.y \in Int
      /\ a1.x \in Int /\ a1.y \in Int /\ b1.x \in Int /\ b1.y \in Int
      /\ a2.x \in Int /\ a2.y \in Int /\ b2.x \in Int /\ b2.y \in Int
  BY <1>1, <1>2, BoxesAreNumbers DEF IsCall, IsLaid, IsMove
<1>4. a1.x - a.x = b1.x - b.x /\ a1.y - a.y = b1.y - b.y
  BY <1>2 DEF Together
<1>5. m \in nodes <=> n \in nodes
  BY DEF IsMove
<1>6. FromNode(a2) = IF m \in nodes THEN Offset(FromNode(a1), dx, dy) ELSE FromNode(a1)
  BY <1>1, <1>2 DEF IsMove
<1>7. FromNode(b2) = IF n \in nodes THEN Offset(FromNode(b1), dx, dy) ELSE FromNode(b1)
  BY <1>1, <1>2 DEF IsMove
<1>8. CASE m \in nodes
  <2>1. /\ FromNode(a2).left = FromNode(a1).left + dx /\ FromNode(a2).top = FromNode(a1).top + dy
        /\ FromNode(b2).left = FromNode(b1).left + dx /\ FromNode(b2).top = FromNode(b1).top + dy
    BY <1>5, <1>6, <1>7, <1>8 DEF Offset
  <2>2. a2.x = a1.x + dx /\ a2.y = a1.y + dy /\ b2.x = b1.x + dx /\ b2.y = b1.y + dy
    BY <2>1 DEF FromNode
  <2> QED BY <1>2, <1>3, <1>4, <2>2
<1>9. CASE m \notin nodes
  <2>1. /\ FromNode(a2).left = FromNode(a1).left /\ FromNode(a2).top = FromNode(a1).top
        /\ FromNode(b2).left = FromNode(b1).left /\ FromNode(b2).top = FromNode(b1).top
    BY <1>5, <1>6, <1>7, <1>9
  <2>2. a2.x = a1.x /\ a2.y = a1.y /\ b2.x = b1.x /\ b2.y = b1.y
    BY <2>1 DEF FromNode
  <2> QED BY <1>2, <1>3, <1>4, <2>2
<1> QED BY <1>8, <1>9

-----------------------------------------------------------------------------
(* Nothing is moved upon what stays.                                       *)

\* The outermost of what moves, and of what stays.
Moving(c, layout, nodes, groups) ==
  {FromNode(layout.nodes[n]) : n \in Loose(c) \cap nodes}
    \cup {layout.frames[g] : g \in DOMAIN c.groups \cap groups}

Resting(c, layout, nodes, groups) ==
  {FromNode(layout.nodes[n]) : n \in Loose(c) \ nodes}
    \cup {layout.frames[g] : g \in DOMAIN c.groups \ groups}

LEMMA TidyIsApart ==
  ASSUME NEW c, IsCall(c), GroupsFit(c), NEW layout, IsLaid(c, layout),
         Tidy(c, layout.nodes, layout.frames), NEW nodes, NEW groups,
         NEW r \in Moving(c, layout, nodes, groups), NEW q \in Resting(c, layout, nodes, groups)
  PROVE  r \in Rect /\ q \in Rect /\ Solid(r) /\ Solid(q) /\ ~ Overlap(r, q)
<1>1. DOMAIN layout.nodes = DOMAIN c.compact.nodes /\ DOMAIN layout.frames = DOMAIN c.groups
  BY DEF IsLaid
<1>2. Loose(c) \subseteq DOMAIN c.compact.nodes
  BY DEF Loose
<1>3. \A n \in Loose(c) : \A g \in DOMAIN c.groups :
        /\ n \notin Members(c.groups[g])
        /\ ~ Overlap(layout.frames[g], FromNode(layout.nodes[n]))
  BY <1>1, <1>2 DEF Loose, Owner, Tidy
<1>4. CASE \E n \in Loose(c) \cap nodes : r = FromNode(layout.nodes[n])
  <2>1. PICK n \in Loose(c) \cap nodes : r = FromNode(layout.nodes[n])
    BY <1>4
  <2>2. r \in Rect /\ Solid(r)
    BY <1>2, <2>1, LaidIsRect
  <2>3. CASE \E m \in Loose(c) \ nodes : q = FromNode(layout.nodes[m])
    <3>1. PICK m \in Loose(c) \ nodes : q = FromNode(layout.nodes[m])
      BY <2>3
    <3>2. m # n
      BY <2>1, <3>1
    <3>3. ~ Overlap(r, q)
      BY <1>1, <1>2, <2>1, <3>1, <3>2 DEF Tidy
    <3> QED BY <1>2, <2>2, <3>1, <3>3, LaidIsRect
  <2>4. CASE \E g \in DOMAIN c.groups \ groups : q = layout.frames[g]
    <3>1. PICK g \in DOMAIN c.groups \ groups : q = layout.frames[g]
      BY <2>4
    <3>2. ~ Overlap(q, r) /\ q \in Rect /\ Solid(q)
      BY <1>3, <2>1, <3>1, LaidIsRect
    <3> QED BY <2>2, <3>2 DEF Overlap
  <2> QED BY <2>3, <2>4 DEF Resting
<1>5. CASE \E g \in DOMAIN c.groups \cap groups : r = layout.frames[g]
  <2>1. PICK g \in DOMAIN c.groups \cap groups : r = layout.frames[g]
    BY <1>5
  <2>2. r \in Rect /\ Solid(r)
    BY <2>1, LaidIsRect
  <2>3. CASE \E m \in Loose(c) \ nodes : q = FromNode(layout.nodes[m])
    <3>1. PICK m \in Loose(c) \ nodes : q = FromNode(layout.nodes[m])
      BY <2>3
    <3> QED BY <1>2, <1>3, <2>1, <2>2, <3>1, LaidIsRect
  <2>4. CASE \E h \in DOMAIN c.groups \ groups : q = layout.frames[h]
    <3>1. PICK h \in DOMAIN c.groups \ groups : q = layout.frames[h]
      BY <2>4
    <3>2. g # h
      BY <2>1, <3>1
    <3>3. ~ Overlap(r, q)
      BY <1>1, <2>1, <3>1, <3>2 DEF Tidy
    <3> QED BY <2>2, <3>1, <3>3, LaidIsRect
  <2> QED BY <2>3, <2>4 DEF Resting
<1> QED BY <1>4, <1>5 DEF Moving

\* A rectangle in what moves is moved, one in what stays is not.
Carried(moving, resting, from, to, dx, dy) ==
  \/ to = Offset(from, dx, dy) /\ \E r \in moving : r \in Rect /\ Inside(from, r)
  \/ to = from /\ \E q \in resting : q \in Rect /\ Inside(from, q)

LEMMA StillApart ==
  ASSUME NEW moving, NEW resting, NEW dx \in Int, NEW dy \in Int,
         \A r \in moving, q \in resting : ~ Overlap(Offset(r, dx, dy), q),
         NEW a \in Rect, NEW b \in Rect, NEW a2, NEW b2, ~ Overlap(a, b),
         Carried(moving, resting, a, a2, dx, dy), Carried(moving, resting, b, b2, dx, dy)
  PROVE  ~ Overlap(a2, b2)
<1>1. CASE a2 = Offset(a, dx, dy) /\ \E r \in moving : r \in Rect /\ Inside(a, r)
  <2>1. PICK r \in moving : r \in Rect /\ Inside(a, r)
    BY <1>1
  <2>2. CASE b2 = Offset(b, dx, dy)
    BY <1>1, <2>2, OffsetsOverlap
  <2>3. CASE b2 = b /\ \E q \in resting : q \in Rect /\ Inside(b, q)
    <3>1. PICK q \in resting : q \in Rect /\ Inside(b, q)
      BY <2>3
    <3>2. ~ Overlap(Offset(r, dx, dy), q)
      OBVIOUS
    <3>3. ~ Overlap(Offset(a, dx, dy), b)
      BY <2>1, <3>1, <3>2, InsideOverlaps
    <3> QED BY <1>1, <2>3, <3>3
  <2> QED BY <2>2, <2>3 DEF Carried
<1>2. CASE a2 = a /\ \E q \in resting : q \in Rect /\ Inside(a, q)
  <2>1. PICK q \in resting : q \in Rect /\ Inside(a, q)
    BY <1>2
  <2>2. CASE b2 = b
    BY <1>2, <2>2
  <2>3. CASE b2 = Offset(b, dx, dy) /\ \E r \in moving : r \in Rect /\ Inside(b, r)
    <3>1. PICK r \in moving : r \in Rect /\ Inside(b, r)
      BY <2>3
    <3>2. ~ Overlap(Offset(r, dx, dy), q)
      OBVIOUS
    <3>3. ~ Overlap(Offset(b, dx, dy), a)
      BY <2>1, <3>1, <3>2, InsideOverlaps
    <3>4. ~ Overlap(a, Offset(b, dx, dy))
      BY <3>3 DEF Overlap
    <3> QED BY <1>2, <2>3, <3>4
  <2> QED BY <2>2, <2>3 DEF Carried
<1> QED BY <1>1, <1>2 DEF Carried

LEMMA InsideItself ==
  ASSUME NEW r \in Rect
  PROVE  Inside(r, r)
BY RectFacts DEF Inside

\* Every node and every frame is carried.
LEMMA MoveCarries ==
  ASSUME NEW c, IsCall(c), GroupsFit(c), NEW layout, IsLaid(c, layout), NEW other,
         NEW nodes, NEW groups, NEW dx \in Int, NEW dy \in Int,
         IsMove(c, layout, other, nodes, groups, dx, dy)
  PROVE  LET moving == Moving(c, layout, nodes, groups)
             resting == Resting(c, layout, nodes, groups)
         IN  /\ \A n \in DOMAIN c.compact.nodes :
                  Carried(moving, resting, FromNode(layout.nodes[n]), FromNode(other.nodes[n]), dx, dy)
             /\ \A g \in DOMAIN c.groups :
                  Carried(moving, resting, layout.frames[g], other.frames[g], dx, dy)
<1> DEFINE moving == Moving(c, layout, nodes, groups)
           resting == Resting(c, layout, nodes, groups)
<1>1. ASSUME NEW g \in DOMAIN c.groups
      PROVE  Carried(moving, resting, layout.frames[g], other.frames[g], dx, dy)
  <2>1. layout.frames[g] \in Rect /\ Inside(layout.frames[g], layout.frames[g])
    BY LaidIsRect, InsideItself
  <2>2. CASE g \in groups
    <3>1. other.frames[g] = Offset(layout.frames[g], dx, dy)
      BY <2>2 DEF IsMove
    <3>2. layout.frames[g] \in moving
      BY <2>2 DEF Moving
    <3> QED BY <2>1, <3>1, <3>2 DEF Carried
  <2>3. CASE g \notin groups
    <3>1. other.frames[g] = layout.frames[g]
      BY <2>3 DEF IsMove
    <3>2. layout.frames[g] \in resting
      BY <2>3 DEF Resting
    <3> QED BY <2>1, <3>1, <3>2 DEF Carried
  <2> QED BY <2>2, <2>3
<1>2. ASSUME NEW n \in DOMAIN c.compact.nodes
      PROVE  Carried(moving, resting, FromNode(layout.nodes[n]), FromNode(other.nodes[n]), dx, dy)
  <2>1. PICK r, r2 : r = FromNode(layout.nodes[n]) /\ r2 = FromNode(other.nodes[n])
    OBVIOUS
  <2>2. r \in Rect /\ Inside(r, r)
    BY <2>1, LaidIsRect, InsideItself
  <2>3. r2 = IF n \in nodes THEN Offset(r, dx, dy) ELSE r
    BY <2>1 DEF IsMove
  <2>4. CASE n \in Loose(c)
    <3>1. n \in nodes => r \in moving
      BY <2>1, <2>4 DEF Moving
    <3>2. n \notin nodes => r \in resting
      BY <2>1, <2>4 DEF Resting
    <3> QED BY <2>1, <2>2, <2>3, <3>1, <3>2 DEF Carried
  <2>5. CASE n \notin Loose(c)
    <3>1. PICK g \in DOMAIN c.groups : n \in Members(c.groups[g])
      BY <2>5, OwnersAgree
    <3>2. PICK q : q = layout.frames[g]
      OBVIOUS
    <3>3. q \in Rect /\ Inside(r, q)
      BY <2>1, <3>1, <3>2, LaidIsRect
    <3>4. n \in nodes <=> g \in groups
      BY <3>1 DEF IsMove
    <3>5. g \in groups => q \in moving
      BY <3>2 DEF Moving
    <3>6. g \notin groups => q \in resting
      BY <3>2 DEF Resting
    <3> QED BY <2>1, <2>3, <3>3, <3>4, <3>5, <3>6 DEF Carried
  <2> QED BY <2>4, <2>5
<1> QED BY <1>1, <1>2

LEMMA MovedIsTidy ==
  ASSUME NEW c, IsCall(c), GroupsFit(c), NEW layout, IsLaid(c, layout), NEW other,
         NEW nodes, NEW groups, NEW dx \in Int, NEW dy \in Int,
         IsMove(c, layout, other, nodes, groups, dx, dy), Tidy(c, layout.nodes, layout.frames),
         \A r \in Moving(c, layout, nodes, groups), q \in Resting(c, layout, nodes, groups) :
            ~ Overlap(Offset(r, dx, dy), q)
  PROVE  Tidy(c, other.nodes, other.frames)
<1>1. PICK moving, resting : /\ moving = Moving(c, layout, nodes, groups)
                             /\ resting = Resting(c, layout, nodes, groups)
  OBVIOUS
<1>2. \A r \in moving, q \in resting : ~ Overlap(Offset(r, dx, dy), q)
  BY <1>1
<1>3. \A n \in DOMAIN c.compact.nodes :
        /\ FromNode(layout.nodes[n]) \in Rect
        /\ Carried(moving, resting, FromNode(layout.nodes[n]), FromNode(other.nodes[n]), dx, dy)
  BY <1>1, LaidIsRect, MoveCarries
<1>4. \A g \in DOMAIN c.groups :
        /\ layout.frames[g] \in Rect
        /\ Carried(moving, resting, layout.frames[g], other.frames[g], dx, dy)
  BY <1>1, LaidIsRect, MoveCarries
<1>5. /\ DOMAIN layout.nodes = DOMAIN c.compact.nodes /\ DOMAIN layout.frames = DOMAIN c.groups
      /\ DOMAIN other.nodes = DOMAIN c.compact.nodes /\ DOMAIN other.frames = DOMAIN c.groups
  BY DEF IsLaid, IsMove
<1>6. ASSUME NEW m \in DOMAIN other.nodes, NEW n \in DOMAIN other.nodes, m # n
      PROVE  ~ Overlap(FromNode(other.nodes[m]), FromNode(other.nodes[n]))
  <2>1. ~ Overlap(FromNode(layout.nodes[m]), FromNode(layout.nodes[n]))
    BY <1>5, <1>6 DEF Tidy
  <2> QED BY <1>2, <1>3, <1>5, <2>1, StillApart
<1>7. ASSUME NEW g \in DOMAIN other.frames, NEW n \in DOMAIN other.nodes \ Members(c.groups[g])
      PROVE  ~ Overlap(other.frames[g], FromNode(other.nodes[n]))
  <2>1. ~ Overlap(layout.frames[g], FromNode(layout.nodes[n]))
    BY <1>5 DEF Tidy
  <2> QED BY <1>2, <1>3, <1>4, <1>5, <2>1, StillApart
<1>8. ASSUME NEW g \in DOMAIN other.frames, NEW h \in DOMAIN other.frames, g # h
      PROVE  ~ Overlap(other.frames[g], other.frames[h])
  <2>1. ~ Overlap(layout.frames[g], layout.frames[h])
    BY <1>5, <1>8 DEF Tidy
  <2> QED BY <1>2, <1>4, <1>5, <2>1, StillApart
<1> QED BY <1>6, <1>7, <1>8 DEF Tidy

-----------------------------------------------------------------------------
(* The horizontal corridor.                                                *)

LEMMA AnchorIsLoose ==
  ASSUME NEW c, GroupsFit(c), c.x.anchor \in DOMAIN c.compact.nodes
  PROVE  c.x.anchor \in Loose(c) /\ Owner(c, c.x.anchor) = {}
BY DEF GroupsFit, Others, Owner, Loose

LEMMA GivenIsLaid ==
  ASSUME NEW c, IsCall(c), GroupsFit(c)
  PROVE  IsLaid(c, AsGiven(c)) /\ Together(c, AsGiven(c))
<1>1. PICK layout : layout = AsGiven(c)
  OBVIOUS
<1>2. /\ layout.nodes = c.layout.nodes /\ layout.frames = Protected(c)
      /\ c.layout.nodes \in [DOMAIN c.compact.nodes -> Box]
  BY <1>1 DEF AsGiven, IsCall
<1>3. ASSUME NEW n \in DOMAIN c.compact.nodes
      PROVE  LET r == FromNode(layout.nodes[n])
             IN  0 <= r.left /\ r.left < r.right /\ r.top < r.bottom
  <2>1. PICK box : box = layout.nodes[n]
    OBVIOUS
  <2>2. box.x \in Int /\ box.y \in Int /\ box.width \in Int /\ box.height \in Int
    BY <1>2, <2>1, BoxesAreNumbers
  <2>3. box.x >= 0 /\ box.width > 0 /\ box.height > 0
    BY <1>2, <2>1 DEF IsCall, IsPlaced
  <2> QED BY <2>1, <2>2, <2>3 DEF FromNode
<1>4. /\ DOMAIN layout.frames = DOMAIN c.groups
      /\ \A g \in DOMAIN c.groups : layout.frames[g] = ProtectedFrame(layout.nodes, c.groups[g])
  BY <1>2 DEF Protected
<1>5. Together(c, layout)
  <2>1. \A g \in DOMAIN c.groups : \A n \in Members(c.groups[g]) :
          c.layout.nodes[n].x \in Int /\ c.layout.nodes[n].y \in Int
    BY <1>2, MembersAreNodes, BoxesAreNumbers
  <2>2. \A g \in DOMAIN c.groups : \A n \in Members(c.groups[g]) :
          /\ layout.nodes[n].x - c.layout.nodes[n].x = 0
          /\ layout.nodes[n].y - c.layout.nodes[n].y = 0
    BY <1>2, <2>1
  <2> QED BY <2>2 DEF Together
<1> QED BY <1>1, <1>2, <1>3, <1>4, <1>5 DEF IsLaid

LEMMA CutIsBeyond ==
  ASSUME NEW c, IsCall(c), c.x.anchor \in DOMAIN c.compact.nodes,
         NEW right, right = FromNode(c.layout.nodes[c.x.anchor]).right
  PROVE  /\ Cut(c) \in Int /\ right \in Int /\ right <= Cut(c)
         /\ \A n \in Others(c) : c.layout.nodes[n].x >= right => c.layout.nodes[n].x >= Cut(c)
<1>1. PICK beyond : beyond = {c.layout.nodes[n].x : n \in Others(c)}
                               \cap {x \in 0 .. c.layout.width : x >= right}
  OBVIOUS
<1>2. /\ c.layout.nodes \in [DOMAIN c.compact.nodes -> Box] /\ c.layout.width \in Int
      /\ \A n \in DOMAIN c.compact.nodes : IsPlaced(c.layout.nodes[n], c.layout.width)
  BY DEF IsCall
<1>3. right \in Int
  <2>1. FromNode(c.layout.nodes[c.x.anchor]) \in Rect
    BY <1>2, NodeIsRect
  <2> QED BY <2>1, RectFacts
<1>4. ASSUME NEW n \in Others(c), c.layout.nodes[n].x >= right
      PROVE  c.layout.nodes[n].x \in beyond
  <2>1. n \in DOMAIN c.compact.nodes
    BY DEF Others
  <2>2. PICK box : box = c.layout.nodes[n]
    OBVIOUS
  <2>3. box.x \in Int /\ box.width \in Int
    BY <1>2, <2>1, <2>2, BoxesAreNumbers
  <2>4. box.x >= 0 /\ box.width > 0 /\ box.x + box.width <= c.layout.width
    BY <1>2, <2>1, <2>2 DEF IsPlaced
  <2>5. box.x \in 0 .. c.layout.width
    BY <1>2, <2>3, <2>4
  <2> QED BY <1>1, <1>4, <2>2, <2>5
<1>5. Cut(c) = IF beyond = {} THEN right ELSE (right + Min(beyond)) \div 2
  BY <1>1 DEF Cut
<1>6. CASE beyond = {}
  BY <1>3, <1>4, <1>5, <1>6
<1>7. CASE beyond # {}
  <2>1. PICK width : width = c.layout.width
    OBVIOUS
  <2>2. IsFiniteSet(0 .. width) /\ 0 .. width \subseteq Int
    <3>1. 0 \in Int /\ width \in Int
      BY <1>2, <2>1
    <3> QED BY <3>1, FS_Interval
  <2>3. IsFiniteSet(beyond) /\ beyond \in SUBSET Int
    <3>1. beyond \subseteq 0 .. width
      BY <1>1, <2>1
    <3> QED BY <2>2, <3>1, FS_Subset
  <2>4. Min(beyond) \in beyond /\ \A y \in beyond : Min(beyond) <= y
    BY <1>7, <2>3, ExtremesOf
  <2>5. PICK least : least = Min(beyond)
    OBVIOUS
  <2>6. least \in Int /\ least >= right
    BY <1>1, <2>3, <2>4, <2>5
  <2>7. (right + least) \div 2 \in Int /\ right <= (right + least) \div 2 /\ (right + least) \div 2 <= least
    BY <1>3, <2>6
  <2>8. ASSUME NEW n \in Others(c), c.layout.nodes[n].x >= right
        PROVE  c.layout.nodes[n].x >= Cut(c)
    <3>1. c.layout.nodes[n].x \in beyond
      BY <1>4, <2>8
    <3>2. c.layout.nodes[n].x \in Int /\ least <= c.layout.nodes[n].x
      BY <2>3, <2>4, <2>5, <3>1
    <3> QED BY <1>5, <1>7, <2>5, <2>6, <2>7, <3>2
  <2> QED BY <1>3, <1>5, <1>7, <2>5, <2>7, <2>8
<1> QED BY <1>6, <1>7

Shifting(c) == {n \in DOMAIN c.compact.nodes : NodeShifts(c, n)}

ShiftingGroups(c) == {g \in DOMAIN c.groups : GroupShifts(c, g)}

LEMMA WidenMoves ==
  ASSUME NEW c, IsCall(c), GroupsFit(c), c.x.anchor \in DOMAIN c.compact.nodes
  PROVE  IsMove(c, AsGiven(c), Widen(c), Shifting(c), ShiftingGroups(c), Additional(c), 0)
<1>1. PICK layout, by : layout = AsGiven(c) /\ by = Additional(c)
  OBVIOUS
<1>2. /\ layout.nodes = c.layout.nodes /\ layout.frames = Protected(c)
      /\ c.layout.nodes \in [DOMAIN c.compact.nodes -> Box]
      /\ DOMAIN Protected(c) = DOMAIN c.groups
  BY <1>1 DEF AsGiven, IsCall, Protected
<1>3. by \in Int
  BY <1>1, <1>2, BoxesAreNumbers, FrameIsNumbers DEF Additional
<1>4. /\ Widen(c).nodes = [n \in DOMAIN c.layout.nodes |->
                             IF NodeShifts(c, n) THEN [c.layout.nodes[n] EXCEPT !.x = @ + by]
                             ELSE c.layout.nodes[n]]
      /\ Widen(c).frames = [g \in DOMAIN c.groups |->
                              IF GroupShifts(c, g)
                              THEN [Protected(c)[g] EXCEPT !.left = @ + by, !.right = @ + by]
                              ELSE Protected(c)[g]]
  BY <1>1 DEF Widen
<1>5. Widen(c).nodes \in [DOMAIN c.compact.nodes -> Box]
  BY WidenedIsDrawn DEF IsDrawn
<1>6. ASSUME NEW n \in DOMAIN c.compact.nodes
      PROVE  FromNode(Widen(c).nodes[n])
               = IF n \in Shifting(c) THEN Offset(FromNode(layout.nodes[n]), by, 0)
                 ELSE FromNode(layout.nodes[n])
  <2>1. PICK box : box = c.layout.nodes[n]
    OBVIOUS
  <2>2. box \in Box
    BY <1>2, <2>1
  <2>3. Widen(c).nodes[n] = IF NodeShifts(c, n) THEN [box EXCEPT !.x = @ + by] ELSE box
    BY <1>2, <1>4, <2>1
  <2>4. FromNode([box EXCEPT !.x = @ + by]) = Offset(FromNode(box), by, 0)
    <3>1. /\ box.x \in Int /\ box.y \in Int /\ box.width \in Int /\ box.height \in Int
      BY <2>2 DEF Box
    <3>2. PICK box2 : box2 = [box EXCEPT !.x = @ + by]
      OBVIOUS
    <3>3. box2.x = box.x + by /\ box2.y = box.y /\ box2.width = box.width /\ box2.height = box.height
      BY <2>2, <3>2 DEF Box
    <3>4. /\ (box.x + by) + box.width = (box.x + box.width) + by
          /\ box.y + 0 = box.y /\ (box.y + box.height) + 0 = box.y + box.height
      BY <1>3, <3>1
    <3>5. FromNode(box2) = [left |-> box.x + by, top |-> box.y,
                            right |-> (box.x + box.width) + by, bottom |-> box.y + box.height]
      BY <3>3, <3>4 DEF FromNode
    <3>6. Offset(FromNode(box), by, 0)
            = [left |-> box.x + by, top |-> box.y,
               right |-> (box.x + box.width) + by, bottom |-> box.y + box.height]
      BY <3>4 DEF FromNode, Offset
    <3> QED BY <3>2, <3>5, <3>6
  <2> QED BY <1>2, <2>1, <2>3, <2>4 DEF Shifting
<1>7. ASSUME NEW g \in DOMAIN c.groups
      PROVE  Widen(c).frames[g] = IF g \in ShiftingGroups(c) THEN Offset(layout.frames[g], by, 0)
                                  ELSE layout.frames[g]
  <2>1. PICK r : r = layout.frames[g]
    OBVIOUS
  <2>2. r \in Rect
    BY <1>1, <2>1, LaidIsRect, GivenIsLaid
  <2>3. Widen(c).frames[g] = IF GroupShifts(c, g)
                             THEN [r EXCEPT !.left = @ + by, !.right = @ + by] ELSE r
    BY <1>2, <1>4, <2>1
  <2>4. [r EXCEPT !.left = @ + by, !.right = @ + by] = Offset(r, by, 0)
    <3>1. r.top + 0 = r.top /\ r.bottom + 0 = r.bottom
      BY <2>2, RectFacts
    <3>2. r = [left |-> r.left, top |-> r.top, right |-> r.right, bottom |-> r.bottom]
      BY <2>2 DEF Rect
    <3>3. PICK e : e = [r EXCEPT !.left = @ + by]
      OBVIOUS
    <3>4. e = [left |-> r.left + by, top |-> r.top, right |-> r.right, bottom |-> r.bottom]
      BY <3>2, <3>3
    <3>5. [e EXCEPT !.right = @ + by]
            = [left |-> r.left + by, top |-> r.top, right |-> r.right + by, bottom |-> r.bottom]
      BY <3>4
    <3>6. [r EXCEPT !.left = @ + by, !.right = @ + by] = [e EXCEPT !.right = @ + by]
      BY <3>3
    <3> QED BY <3>1, <3>5, <3>6 DEF Offset
  <2> QED BY <2>1, <2>3, <2>4 DEF ShiftingGroups
<1>8. ASSUME NEW g \in DOMAIN c.groups, NEW n \in Members(c.groups[g])
      PROVE  n \in Shifting(c) <=> g \in ShiftingGroups(c)
  <2>1. n \in DOMAIN c.compact.nodes /\ n # c.x.anchor
    BY DEF GroupsFit, Others
  <2>2. Owner(c, n) = {g}
    BY <2>1, OwnersAgree
  <2> QED BY <2>1, <2>2 DEF Shifting, ShiftingGroups, NodeShifts
<1> QED BY <1>1, <1>2, <1>4, <1>5, <1>6, <1>7, <1>8 DEF IsMove

\* What shifts is at the right of the cut, what stays at its left.
LEMMA CutParts ==
  ASSUME NEW c, IsCall(c), GroupsFit(c), c.x.anchor \in DOMAIN c.compact.nodes, CanWiden(c)
  PROVE  /\ \A r \in Moving(c, AsGiven(c), Shifting(c), ShiftingGroups(c)) : r.left >= Cut(c)
         /\ \A q \in Resting(c, AsGiven(c), Shifting(c), ShiftingGroups(c)) : q.right <= Cut(c)
         /\ \A n \in Others(c) : n \in Shifting(c) <=> c.layout.nodes[n].x >= Cut(c)
<1>1. PICK layout : layout = AsGiven(c)
  OBVIOUS
<1>2. layout.nodes = c.layout.nodes /\ layout.frames = Protected(c)
  BY <1>1 DEF AsGiven
<1>3. Cut(c) \in Int /\ FromNode(c.layout.nodes[c.x.anchor]).right <= Cut(c)
  BY CutIsBeyond
<1>4. /\ \A n \in DOMAIN c.compact.nodes :
           FromNode(layout.nodes[n]) \in Rect /\ Solid(FromNode(layout.nodes[n]))
      /\ \A g \in DOMAIN c.groups :
           /\ layout.frames[g] \in Rect
           /\ \A n \in Members(c.groups[g]) : Inside(FromNode(layout.nodes[n]), layout.frames[g])
  BY <1>1, LaidIsRect, GivenIsLaid
<1>5. ASSUME NEW g \in DOMAIN c.groups
      PROVE  /\ g \in ShiftingGroups(c) => layout.frames[g].left >= Cut(c)
             /\ g \notin ShiftingGroups(c) => layout.frames[g].right <= Cut(c)
  <2>1. PICK q : q = layout.frames[g]
    OBVIOUS
  <2>2. q.right \in Int
    BY <1>4, <2>1, RectFacts
  <2>3. q.right <= Cut(c) \/ q.left >= Cut(c)
    BY <1>2, <2>1 DEF CanWiden
  <2>4. g \in ShiftingGroups(c) <=> q.right > Cut(c)
    BY <1>2, <2>1 DEF ShiftingGroups, GroupShifts
  <2> QED BY <1>3, <2>1, <2>2, <2>3, <2>4
<1>6. ASSUME NEW n \in Loose(c)
      PROVE  /\ n \in Shifting(c) => FromNode(layout.nodes[n]).left >= Cut(c)
             /\ n \notin Shifting(c) => FromNode(layout.nodes[n]).right <= Cut(c)
  <2>1. n \in DOMAIN c.compact.nodes /\ Owner(c, n) = {}
    BY DEF Loose
  <2>2. PICK r : r = FromNode(layout.nodes[n])
    OBVIOUS
  <2>3. r \in Rect /\ r.left = c.layout.nodes[n].x
    BY <1>2, <1>4, <2>1, <2>2 DEF FromNode
  <2>4. n \in Shifting(c) <=> n # c.x.anchor /\ r.left >= Cut(c)
    BY <2>1, <2>3 DEF Shifting, NodeShifts
  <2>5. n = c.x.anchor => r.right <= Cut(c)
    BY <1>2, <1>3, <2>2
  <2>6. n # c.x.anchor => ~ (r.left < Cut(c) /\ r.right > Cut(c))
    BY <1>2, <2>1, <2>2 DEF CanWiden, Others
  <2> QED BY <1>3, <2>2, <2>3, <2>4, <2>5, <2>6, RectFacts
<1>7. ASSUME NEW n \in Others(c)
      PROVE  n \in Shifting(c) <=> c.layout.nodes[n].x >= Cut(c)
  <2>1. n \in DOMAIN c.compact.nodes /\ n # c.x.anchor
    BY DEF Others
  <2>2. CASE n \in Loose(c)
    BY <2>1, <2>2 DEF Loose, Shifting, NodeShifts
  <2>3. CASE n \notin Loose(c)
    <3>1. PICK g \in DOMAIN c.groups : Owner(c, n) = {g} /\ n \in Members(c.groups[g])
      BY <2>1, <2>3, OwnersAgree
    <3>2. PICK r, q : r = FromNode(layout.nodes[n]) /\ q = layout.frames[g]
      OBVIOUS
    <3>3. r \in Rect /\ Solid(r) /\ q \in Rect /\ Inside(r, q) /\ r.left = c.layout.nodes[n].x
      BY <1>2, <1>4, <2>1, <3>1, <3>2 DEF FromNode
    <3>4. n \in Shifting(c) <=> g \in ShiftingGroups(c)
      BY <2>1, <3>1 DEF Shifting, ShiftingGroups, NodeShifts
    <3>5. g \in ShiftingGroups(c) => q.left >= Cut(c)
      BY <1>5, <3>2
    <3>6. g \notin ShiftingGroups(c) => q.right <= Cut(c)
      BY <1>5, <3>2
    <3>7. q.left <= r.left /\ r.left < r.right /\ r.right <= q.right
      BY <3>3 DEF Inside, Solid
    <3> QED BY <1>3, <3>3, <3>4, <3>5, <3>6, <3>7, RectFacts
  <2> QED BY <2>2, <2>3
<1>8. \A r \in Moving(c, layout, Shifting(c), ShiftingGroups(c)) : r.left >= Cut(c)
  BY <1>5, <1>6 DEF Moving
<1>9. \A q \in Resting(c, layout, Shifting(c), ShiftingGroups(c)) : q.right <= Cut(c)
  BY <1>5, <1>6 DEF Resting
<1> QED BY <1>1, <1>7, <1>8, <1>9

\* Of the other nodes none begins at the right of the anchor but before the
\* right side of the frame of the members.
RoomBeside(c, layout) ==
  \A n \in Others(c) :
    \/ layout.nodes[n].x >= layout.nodes[c.x.anchor].x + c.frame.width
    \/ layout.nodes[n].x < layout.nodes[c.x.anchor].x + layout.nodes[c.x.anchor].width

LEMMA WidenKeeps ==
  ASSUME NEW c, IsCall(c), GroupsFit(c), c.x.anchor \in DOMAIN c.compact.nodes, CanWiden(c)
  PROVE  /\ IsLaid(c, Widen(c)) /\ Together(c, Widen(c))
         /\ Tidy(c, c.layout.nodes, Protected(c)) => Tidy(c, Widen(c).nodes, Widen(c).frames)
         /\ RoomBeside(c, Widen(c))
<1>1. PICK layout, by : layout = AsGiven(c) /\ by = Additional(c)
  OBVIOUS
<1>2. layout.nodes = c.layout.nodes /\ layout.frames = Protected(c) /\ IsLaid(c, layout) /\ Together(c, layout)
  BY <1>1, GivenIsLaid DEF AsGiven
<1>3. by \in Nat \ {0} /\ by = c.frame.width - c.layout.nodes[c.x.anchor].width
  <2>1. c.layout.nodes[c.x.anchor].width \in Int
    BY BoxesAreNumbers DEF IsCall
  <2>2. by > 0 /\ by = c.frame.width - c.layout.nodes[c.x.anchor].width
    BY <1>1 DEF CanWiden, Additional
  <2> QED BY <2>1, <2>2, FrameIsNumbers
<1>4. IsMove(c, layout, Widen(c), Shifting(c), ShiftingGroups(c), by, 0)
  BY <1>1, WidenMoves
<1>5. IsLaid(c, Widen(c)) /\ Together(c, Widen(c))
  BY <1>2, <1>3, <1>4, MovedIsLaid, MovedTogether, 0 \in Int
<1>6. Cut(c) \in Int
  BY CutIsBeyond
<1>7. ASSUME Tidy(c, c.layout.nodes, Protected(c))
      PROVE  Tidy(c, Widen(c).nodes, Widen(c).frames)
  <2>1. Tidy(c, layout.nodes, layout.frames)
    BY <1>2, <1>7
  <2>2. ASSUME NEW r \in Moving(c, layout, Shifting(c), ShiftingGroups(c)),
               NEW q \in Resting(c, layout, Shifting(c), ShiftingGroups(c))
        PROVE  ~ Overlap(Offset(r, by, 0), q)
    <3>1. r \in Rect /\ q \in Rect
      BY <1>2, <2>1, TidyIsApart
    <3>2. r.left >= Cut(c) /\ q.right <= Cut(c)
      BY <1>1, CutParts
    <3>3. r.left \in Int /\ q.right \in Int
      BY <3>1, RectFacts
    <3> QED BY <1>3, <1>6, <3>2, <3>3 DEF Overlap, Offset
  <2> QED BY <1>2, <1>3, <1>4, <2>1, <2>2, MovedIsTidy, 0 \in Int
<1>8. RoomBeside(c, Widen(c))
  <2>1. PICK anchor, a, a2 :
          anchor = c.x.anchor /\ a = c.layout.nodes[anchor] /\ a2 = Widen(c).nodes[anchor]
    OBVIOUS
  <2>2. a.x \in Int /\ a.width \in Int
    BY <2>1, BoxesAreNumbers DEF IsCall
  <2>3. anchor \notin Shifting(c)
    BY <2>1 DEF Shifting, NodeShifts
  <2>4. a2 = a
    BY <2>1, <2>3 DEF Widen, Shifting, IsCall
  <2>5. a.x + a.width <= Cut(c)
    <3>1. FromNode(a).right <= Cut(c)
      BY <2>1, CutIsBeyond
    <3> QED BY <3>1 DEF FromNode
  <2>6. ASSUME NEW n \in Others(c)
        PROVE  Widen(c).nodes[n].x >= a.x + c.frame.width \/ Widen(c).nodes[n].x < a.x + a.width
    <3>1. PICK x, x2 : x = c.layout.nodes[n].x /\ x2 = Widen(c).nodes[n].x
      OBVIOUS
    <3>2. n \in DOMAIN c.compact.nodes
      BY DEF Others
    <3>3. x \in Int /\ x2 \in Int
      BY <1>4, <3>1, <3>2, BoxesAreNumbers DEF IsMove, IsCall
    <3>4. n \in Shifting(c) <=> x >= Cut(c)
      BY <3>1, CutParts
    <3>5. x >= a.x + a.width => x >= Cut(c)
      <4>1. FromNode(a).right = a.x + a.width
        BY DEF FromNode
      <4> QED BY <2>1, <3>1, <4>1, CutIsBeyond
    <3>6. x2 = IF n \in Shifting(c) THEN x + by ELSE x
      <4>1. FromNode(Widen(c).nodes[n]) = IF n \in Shifting(c) THEN Offset(FromNode(layout.nodes[n]), by, 0)
                                          ELSE FromNode(layout.nodes[n])
        BY <1>4, <3>2 DEF IsMove
      <4>2. FromNode(Widen(c).nodes[n]).left = x2 /\ FromNode(layout.nodes[n]).left = x
        BY <1>2, <3>1 DEF FromNode
      <4> QED BY <4>1, <4>2 DEF Offset
    <3>7. by \in Int /\ by = c.frame.width - a.width /\ c.frame.width \in Int
      BY <1>3, <2>1, FrameIsNumbers
    <3> QED BY <1>6, <2>2, <2>5, <3>1, <3>3, <3>4, <3>5, <3>6, <3>7
  <2> QED BY <2>1, <2>4, <2>6 DEF RoomBeside
<1> QED BY <1>5, <1>7, <1>8

LEMMA GivenHasRoom ==
  ASSUME NEW c, IsCall(c), c.x.anchor \in DOMAIN c.compact.nodes, Additional(c) <= 0
  PROVE  RoomBeside(c, AsGiven(c))
<1>1. PICK a : a = c.layout.nodes[c.x.anchor]
  OBVIOUS
<1>2. a.x \in Int /\ a.width \in Int /\ c.frame.width \in Int /\ c.frame.width - a.width <= 0
  BY <1>1, BoxesAreNumbers, FrameIsNumbers DEF IsCall, Additional
<1>3. \A n \in Others(c) : c.layout.nodes[n].x \in Int
  BY BoxesAreNumbers DEF IsCall, Others
<1>4. AsGiven(c).nodes = c.layout.nodes
  BY DEF AsGiven
<1> QED BY <1>1, <1>2, <1>3, <1>4 DEF RoomBeside

-----------------------------------------------------------------------------
(* The slab below the anchor.                                              *)

LEMMA ValuesAreFinite ==
  ASSUME NEW S, IsFiniteSet(S), NEW T, NEW f \in [S -> T]
  PROVE  IsFiniteSet(Values(f, S)) /\ Values(f, S) \subseteq T
<1>1. f \in Surjection(S, Values(f, S))
  BY DEF Surjection, Values
<1>2. IsFiniteSet(Values(f, S))
  BY <1>1, FS_Surjection
<1> QED BY <1>2 DEF Values

Interval == {i \in Int \X Int : i[1] >= 0}

LEMMA GreaterIsNumber ==
  ASSUME NEW a \in Int, NEW b \in Int
  PROVE  /\ Greater(a, b) \in Int /\ Greater(a, b) >= a /\ Greater(a, b) >= b
         /\ Greater(a, b) = a \/ Greater(a, b) = b
BY DEF Greater

LEMMA IntervalOf ==
  ASSUME NEW a \in Int, NEW b \in Int
  PROVE  <<Greater(a, 0), b>> \in Interval
<1>1. Greater(a, 0) \in Int /\ Greater(a, 0) >= 0
  BY GreaterIsNumber, 0 \in Int
<1> QED BY <1>1 DEF Interval

LEMMA AnchorFrameIsRect ==
  ASSUME NEW c, IsCall(c), NEW layout, layout.nodes \in [DOMAIN c.compact.nodes -> Box],
         c.x.anchor \in DOMAIN c.compact.nodes
  PROVE  /\ AnchorFrame(c, layout) \in Rect
         /\ Floor(c, layout) \in Int
         /\ Floor(c, layout) = layout.nodes[c.x.anchor].y + layout.nodes[c.x.anchor].height
<1>1. PICK a : a = layout.nodes[c.x.anchor]
  OBVIOUS
<1>2. a.x \in Int /\ a.y \in Int /\ a.width \in Int /\ a.height \in Int
  BY <1>1, BoxesAreNumbers
<1>3. c.frame.width \in Int /\ c.frame.height \in Int
  BY FrameIsNumbers
<1>4. AnchorFrame(c, layout) = [left |-> a.x, top |-> a.y,
                                right |-> a.x + c.frame.width, bottom |-> a.y + c.frame.height]
  BY <1>1 DEF AnchorFrame, FrameAt
<1>5. Floor(c, layout) = a.y + a.height
  BY <1>1 DEF Floor, FromNode
<1> QED BY <1>1, <1>2, <1>3, <1>4, <1>5 DEF Rect

LEMMA IntervalsAreFinite ==
  ASSUME NEW c, IsCall(c), GroupsFit(c), c.x.anchor \in DOMAIN c.compact.nodes,
         NEW layout, IsLaid(c, layout)
  PROVE  /\ IsFiniteSet(Intervals(c, layout)) /\ Intervals(c, layout) \subseteq Interval
         /\ Seed(c, layout) \in Intervals(c, layout)
<1>1. layout.nodes \in [DOMAIN c.compact.nodes -> Box]
  BY DEF IsLaid
<1>2. PICK below, low, seed : /\ below = Below(c, layout) /\ low = LowFrames(c, layout)
                              /\ seed = Seed(c, layout)
  OBVIOUS
<1>3. below \subseteq DOMAIN c.compact.nodes /\ low \subseteq DOMAIN c.groups
  BY <1>2 DEF Below, Others, LowFrames
<1>4. IsFiniteSet(below)
  BY <1>3, FS_Subset DEF IsCall, IsGraph
<1>5. IsFiniteSet(low)
  <2>1. PICK n \in Nat : DOMAIN c.groups = 1 .. n
    BY DEF IsCall, AreGroups
  <2>2. IsFiniteSet(1 .. n)
    BY FS_Interval
  <2> QED BY <1>3, <2>1, <2>2, FS_Subset
<1>6. seed \in Interval
  <2>1. PICK r : r = AnchorFrame(c, layout)
    OBVIOUS
  <2>2. r \in Rect
    BY <1>1, <2>1, AnchorFrameIsRect
  <2>3. r.left - Margin \in Int /\ r.right + Margin \in Int
    BY <2>2, RectFacts, MarginIsNumber
  <2>4. seed = <<Greater(r.left - Margin, 0), r.right + Margin>>
    BY <1>2, <2>1 DEF Seed
  <2> QED BY <2>3, <2>4, IntervalOf
<1>7. PICK f : f = [n \in below |-> <<Greater(layout.nodes[n].x - Margin, 0),
                                      layout.nodes[n].x + layout.nodes[n].width + Margin>>]
  OBVIOUS
<1>8. f \in [below -> Interval]
  <2>1. ASSUME NEW n \in below
        PROVE  <<Greater(layout.nodes[n].x - Margin, 0),
                 layout.nodes[n].x + layout.nodes[n].width + Margin>> \in Interval
    <3>1. layout.nodes[n].x \in Int /\ layout.nodes[n].width \in Int
      BY <1>1, <1>3, BoxesAreNumbers
    <3>2. /\ layout.nodes[n].x - Margin \in Int
          /\ layout.nodes[n].x + layout.nodes[n].width + Margin \in Int
      BY <3>1, MarginIsNumber
    <3> QED BY <3>2, IntervalOf
  <2> QED BY <1>7, <2>1
<1>9. PICK h : h = [g \in low |-> <<Greater(layout.frames[g].left, 0), layout.frames[g].right>>]
  OBVIOUS
<1>10. h \in [low -> Interval]
  <2>1. ASSUME NEW g \in low
        PROVE  <<Greater(layout.frames[g].left, 0), layout.frames[g].right>> \in Interval
    <3>1. layout.frames[g] \in Rect
      BY <1>3, LaidIsRect
    <3> QED BY <3>1, RectFacts, IntervalOf
  <2> QED BY <1>9, <2>1
<1>11. IsFiniteSet(Values(f, below)) /\ Values(f, below) \subseteq Interval
  BY <1>4, <1>8, ValuesAreFinite
<1>12. IsFiniteSet(Values(h, low)) /\ Values(h, low) \subseteq Interval
  BY <1>5, <1>10, ValuesAreFinite
<1>13. Intervals(c, layout) = Values(f, below) \cup Values(h, low) \cup {seed}
  <2>1. {<<Greater(layout.nodes[n].x - Margin, 0),
           layout.nodes[n].x + layout.nodes[n].width + Margin>> : n \in below} = Values(f, below)
    BY <1>7 DEF Values
  <2>2. {<<Greater(layout.frames[g].left, 0), layout.frames[g].right>> : g \in low} = Values(h, low)
    BY <1>9 DEF Values
  <2> QED BY <1>2, <2>1, <2>2 DEF Intervals, FrameIntervals
<1>14. IsFiniteSet({seed})
  BY FS_Singleton
<1>15. IsFiniteSet(Values(f, below) \cup Values(h, low))
  BY <1>11, <1>12, FS_Union
<1>16. IsFiniteSet(Intervals(c, layout))
  BY <1>13, <1>14, <1>15, FS_Union
<1> QED BY <1>2, <1>6, <1>11, <1>12, <1>13, <1>16

\* The slab takes in the seed, and every interval that it touches.
IsSlab(c, layout, s) ==
  /\ s \in Interval
  /\ s[1] <= Seed(c, layout)[1] /\ Seed(c, layout)[2] <= s[2]
  /\ \A i \in Intervals(c, layout) : i[1] <= s[2] /\ s[1] <= i[2] => s[1] <= i[1] /\ i[2] <= s[2]

LEMMA SlabHolds ==
  ASSUME NEW c, IsCall(c), GroupsFit(c), c.x.anchor \in DOMAIN c.compact.nodes,
         NEW layout, IsLaid(c, layout)
  PROVE  IsSlab(c, layout, Slab(c, layout))
<1>1. PICK I, seed : I = Intervals(c, layout) /\ seed = Seed(c, layout)
  OBVIOUS
<1>2. IsFiniteSet(I) /\ I \subseteq Interval /\ seed \in I /\ I # {}
  BY <1>1, IntervalsAreFinite
<1>3. PICK lo, hi : lo = [i \in I |-> i[1]] /\ hi = [i \in I |-> i[2]]
  OBVIOUS
<1>4. lo \in [I -> Int] /\ hi \in [I -> Int] /\ \A i \in I : lo[i] = i[1] /\ hi[i] = i[2] /\ i[1] >= 0
  BY <1>2, <1>3 DEF Interval
<1>5. PICK starts, ends : starts = Values(lo, I) /\ ends = Values(hi, I)
  OBVIOUS
<1>6. starts = {i[1] : i \in I} /\ ends = {i[2] : i \in I}
  BY <1>4, <1>5 DEF Values
<1>7. /\ IsFiniteSet(starts) /\ starts \subseteq Int /\ \A x \in starts : x >= 0
      /\ IsFiniteSet(ends) /\ ends \subseteq Int
  <2>1. IsFiniteSet(starts) /\ starts \subseteq Int
    BY <1>2, <1>4, <1>5, ValuesAreFinite
  <2>2. IsFiniteSet(ends) /\ ends \subseteq Int
    BY <1>2, <1>4, <1>5, ValuesAreFinite
  <2>3. \A x \in starts : x >= 0
    BY <1>4, <1>6
  <2> QED BY <2>1, <2>2, <2>3
<1>8. PICK closed : closed = {s \in starts \X ends :
                               /\ s[1] <= seed[1] /\ seed[2] <= s[2]
                               /\ \A i \in I : i[1] <= s[2] /\ s[1] <= i[2]
                                                 => s[1] <= i[1] /\ i[2] <= s[2]}
  OBVIOUS
<1>9. IsFiniteSet(closed)
  <2>1. IsFiniteSet(starts \X ends)
    BY <1>7, FS_Product
  <2> QED BY <1>8, <2>1, FS_Subset
<1>10. closed # {}
  <2>1. PICK a, b : a = Min(starts) /\ b = Max(ends)
    OBVIOUS
  <2>2. a \in starts /\ \A i \in I : a <= i[1]
    <3>1. starts # {}
      BY <1>2, <1>6
    <3>2. a \in starts /\ \A y \in starts : a <= y
      BY <1>7, <2>1, <3>1, ExtremesOf
    <3> QED BY <1>6, <3>2
  <2>3. b \in ends /\ \A i \in I : b >= i[2]
    <3>1. ends # {}
      BY <1>2, <1>6
    <3>2. b \in ends /\ \A y \in ends : b >= y
      BY <1>7, <2>1, <3>1, ExtremesOf
    <3> QED BY <1>6, <3>2
  <2>4. PICK s : s = <<a, b>>
    OBVIOUS
  <2>5. s \in starts \X ends /\ s[1] = a /\ s[2] = b
    BY <2>2, <2>3, <2>4
  <2>6. a \in Int /\ b \in Int /\ \A i \in I : i[1] \in Int /\ i[2] \in Int
    BY <1>2, <1>7, <2>2, <2>3 DEF Interval
  <2>7. /\ s[1] <= seed[1] /\ seed[2] <= s[2]
        /\ \A i \in I : s[1] <= i[1] /\ i[2] <= s[2]
    BY <1>2, <2>2, <2>3, <2>5, <2>6
  <2> QED BY <1>8, <2>5, <2>7
<1>11. PICK w : w = [s \in closed |-> s[2] - s[1]]
  OBVIOUS
<1>12. \A s \in closed : s[1] \in Int /\ s[2] \in Int
  BY <1>7, <1>8
<1>13. w \in [closed -> Int] /\ \A s \in closed : w[s] = s[2] - s[1]
  BY <1>11, <1>12
<1>14. \E s \in closed : \A t \in closed : s[2] - s[1] <= t[2] - t[1]
  <2>1. PICK s \in closed : Min(Values(w, closed)) = w[s]
    BY <1>9, <1>10, <1>13, ExtremesAt
  <2>2. \A t \in closed : w[s] <= w[t]
    BY <1>9, <1>10, <1>13, <2>1, ExtremesAt
  <2> QED BY <1>13, <2>2
<1>15. Slab(c, layout) = CHOOSE s \in closed : \A t \in closed : s[2] - s[1] <= t[2] - t[1]
  BY <1>1, <1>6, <1>8 DEF Slab
<1>16. Slab(c, layout) \in closed
  BY <1>14, <1>15
<1>17. PICK s : s = Slab(c, layout)
  OBVIOUS
<1>18. /\ s \in starts \X ends
       /\ s[1] <= seed[1] /\ seed[2] <= s[2]
       /\ \A i \in I : i[1] <= s[2] /\ s[1] <= i[2] => s[1] <= i[1] /\ i[2] <= s[2]
  BY <1>8, <1>16, <1>17
<1>19. s \in Interval
  BY <1>7, <1>18 DEF Interval
<1> QED BY <1>1, <1>17, <1>18, <1>19 DEF IsSlab

-----------------------------------------------------------------------------
(* The vertical corridor.                                                  *)

LEMMA MarginIsNatural == Margin \in Nat
BY SettingsAssumption DEF Margin

\* Every blocker sinks below the frame of the members.
LEMMA DeltaClears ==
  ASSUME NEW c, IsCall(c), c.x.anchor \in DOMAIN c.compact.nodes,
         NEW layout, layout.nodes \in [DOMAIN c.compact.nodes -> Box], CanDeepen(c, layout)
  PROVE  /\ Delta(c, layout) \in Nat
         /\ \A n \in Blockers(c, layout) :
              layout.nodes[n].y + Delta(c, layout) >= AnchorFrame(c, layout).bottom
<1>1. PICK S, f : S = Blockers(c, layout) /\ f = [n \in S |-> layout.nodes[n].y]
  OBVIOUS
<1>2. S \subseteq DOMAIN c.compact.nodes /\ S # {}
  BY <1>1 DEF Blockers, Below, Others, CanDeepen
<1>3. IsFiniteSet(S)
  BY <1>2, FS_Subset DEF IsCall, IsGraph
<1>4. f \in [S -> Int] /\ \A n \in S : f[n] = layout.nodes[n].y
  BY <1>1, <1>2, BoxesAreNumbers
<1>5. {layout.nodes[n].y : n \in S} = Values(f, S)
  BY <1>4 DEF Values
<1>6. PICK least, bottom : least = Min(Values(f, S)) /\ bottom = AnchorFrame(c, layout).bottom
  OBVIOUS
<1>7. least \in Int /\ \A n \in S : least <= f[n]
  BY <1>2, <1>3, <1>4, <1>6, ExtremesAt
<1>8. Delta(c, layout) = bottom + Margin - least
  BY <1>1, <1>5, <1>6 DEF Delta
<1>9. bottom \in Int
  BY <1>6, AnchorFrameIsRect, RectFacts
<1>10. Delta(c, layout) > 0
  BY DEF CanDeepen
<1>11. \A n \in S : f[n] \in Int /\ least <= f[n] /\ f[n] = layout.nodes[n].y
  BY <1>4, <1>7
<1> QED BY <1>1, <1>6, <1>7, <1>8, <1>9, <1>10, <1>11, MarginIsNatural

SinkingNodes(c, layout) == {n \in DOMAIN c.compact.nodes : NodeSinks(c, layout, n)}

SinkingGroups(c, layout) == {g \in DOMAIN c.groups : GroupSinks(c, layout, g)}

LEMMA DeepenMoves ==
  ASSUME NEW c, IsCall(c), GroupsFit(c), c.x.anchor \in DOMAIN c.compact.nodes,
         NEW layout, IsLaid(c, layout), CanDeepen(c, layout)
  PROVE  IsMove(c, layout, Deepen(c, layout), SinkingNodes(c, layout), SinkingGroups(c, layout),
                0, Delta(c, layout))
<1>1. PICK by, other : by = Delta(c, layout) /\ other = Deepen(c, layout)
  OBVIOUS
<1>2. layout.nodes \in [DOMAIN c.compact.nodes -> Box]
  BY DEF IsLaid
<1>3. by \in Int
  BY <1>1, <1>2, DeltaClears
<1>4. other.nodes = [n \in DOMAIN c.compact.nodes |->
                       IF NodeSinks(c, layout, n) THEN [layout.nodes[n] EXCEPT !.y = @ + by]
                       ELSE layout.nodes[n]]
  <2>1. other.nodes = [n \in DOMAIN layout.nodes |->
                         IF n \in {m \in DOMAIN layout.nodes : NodeSinks(c, layout, m)}
                         THEN [layout.nodes[n] EXCEPT !.y = @ + by] ELSE layout.nodes[n]]
    BY <1>1 DEF Deepen
  <2> QED BY <1>2, <2>1
<1>5. other.frames = [g \in DOMAIN c.groups |->
                        IF GroupSinks(c, layout, g)
                        THEN [layout.frames[g] EXCEPT !.top = @ + by, !.bottom = @ + by]
                        ELSE layout.frames[g]]
  BY <1>1 DEF Deepen
<1>6. ASSUME NEW box \in Box
      PROVE  /\ [box EXCEPT !.y = @ + by] \in Box
             /\ FromNode([box EXCEPT !.y = @ + by]) = Offset(FromNode(box), 0, by)
  <2>1. box.x \in Int /\ box.y \in Int /\ box.width \in Int /\ box.height \in Int
    BY DEF Box
  <2>2. PICK box2 : box2 = [box EXCEPT !.y = @ + by]
    OBVIOUS
  <2>3. /\ box2.x = box.x /\ box2.y = box.y + by /\ box2.width = box.width /\ box2.height = box.height
        /\ box2 \in Box
    BY <1>3, <2>2 DEF Box
  <2>4. /\ (box.y + by) + box.height = (box.y + box.height) + by
        /\ box.x + 0 = box.x /\ (box.x + box.width) + 0 = box.x + box.width
    BY <1>3, <2>1
  <2>5. FromNode(box2) = [left |-> box.x, top |-> box.y + by,
                          right |-> box.x + box.width, bottom |-> (box.y + box.height) + by]
    BY <2>3, <2>4 DEF FromNode
  <2>6. Offset(FromNode(box), 0, by)
          = [left |-> box.x, top |-> box.y + by,
             right |-> box.x + box.width, bottom |-> (box.y + box.height) + by]
    BY <2>4 DEF FromNode, Offset
  <2> QED BY <2>2, <2>3, <2>5, <2>6
<1>7. other.nodes \in [DOMAIN c.compact.nodes -> Box]
  BY <1>2, <1>4, <1>6
<1>8. ASSUME NEW n \in DOMAIN c.compact.nodes
      PROVE  FromNode(other.nodes[n])
               = IF n \in SinkingNodes(c, layout) THEN Offset(FromNode(layout.nodes[n]), 0, by)
                 ELSE FromNode(layout.nodes[n])
  <2>1. layout.nodes[n] \in Box
    BY <1>2
  <2> QED BY <1>4, <1>6, <2>1 DEF SinkingNodes
<1>9. ASSUME NEW g \in DOMAIN c.groups
      PROVE  other.frames[g] = IF g \in SinkingGroups(c, layout) THEN Offset(layout.frames[g], 0, by)
                               ELSE layout.frames[g]
  <2>1. PICK r : r = layout.frames[g]
    OBVIOUS
  <2>2. r \in Rect
    BY <2>1, LaidIsRect
  <2>3. other.frames[g] = IF GroupSinks(c, layout, g)
                          THEN [r EXCEPT !.top = @ + by, !.bottom = @ + by] ELSE r
    BY <1>5, <2>1
  <2>4. [r EXCEPT !.top = @ + by, !.bottom = @ + by] = Offset(r, 0, by)
    <3>1. r.left + 0 = r.left /\ r.right + 0 = r.right
      BY <2>2, RectFacts
    <3>2. r = [left |-> r.left, top |-> r.top, right |-> r.right, bottom |-> r.bottom]
      BY <2>2 DEF Rect
    <3>3. PICK e : e = [r EXCEPT !.top = @ + by]
      OBVIOUS
    <3>4. e = [left |-> r.left, top |-> r.top + by, right |-> r.right, bottom |-> r.bottom]
      BY <3>2, <3>3
    <3>5. [e EXCEPT !.bottom = @ + by]
            = [left |-> r.left, top |-> r.top + by, right |-> r.right, bottom |-> r.bottom + by]
      BY <3>4
    <3>6. [r EXCEPT !.top = @ + by, !.bottom = @ + by] = [e EXCEPT !.bottom = @ + by]
      BY <3>3
    <3> QED BY <3>1, <3>5, <3>6 DEF Offset
  <2> QED BY <2>1, <2>3, <2>4 DEF SinkingGroups
<1>10. ASSUME NEW g \in DOMAIN c.groups, NEW n \in Members(c.groups[g])
       PROVE  n \in SinkingNodes(c, layout) <=> g \in SinkingGroups(c, layout)
  <2>1. n \in DOMAIN c.compact.nodes
    BY MembersAreNodes
  <2>2. Owner(c, n) = {g}
    BY <2>1, OwnersAgree
  <2> QED BY <2>1, <2>2 DEF SinkingNodes, SinkingGroups, NodeSinks
<1>11. DOMAIN other.frames = DOMAIN c.groups
  BY <1>5
<1> QED BY <1>1, <1>7, <1>8, <1>9, <1>10, <1>11 DEF IsMove

\* What sinks lies in the slab and reaches below the floor; what stays lies
\* beside the slab or above the floor.
InSlab(r, s, floor) == s[1] <= Greater(r.left, 0) /\ r.right <= s[2] /\ floor <= r.bottom

OffSlab(q, s, floor) == q.right <= s[1] \/ s[2] <= q.left \/ q.bottom <= floor

LEMMA SinkingStaysApart ==
  ASSUME NEW r \in Rect, NEW q \in Rect, Solid(r), Solid(q), ~ Overlap(r, q), NEW by \in Nat,
         NEW s \in Interval, NEW floor \in Int, InSlab(r, s, floor), OffSlab(q, s, floor)
  PROVE  ~ Overlap(Offset(r, 0, by), q)
<1>1. /\ r.left \in Int /\ r.top \in Int /\ r.right \in Int /\ r.bottom \in Int
      /\ q.left \in Int /\ q.top \in Int /\ q.right \in Int /\ q.bottom \in Int
  BY RectFacts
<1>2. s[1] \in Int /\ s[2] \in Int /\ s[1] >= 0
  BY DEF Interval
<1>3. s[1] <= r.left \/ s[1] = 0
  BY <1>1, <1>2 DEF InSlab, Greater
<1> QED BY <1>1, <1>2, <1>3 DEF Solid, Overlap, Offset, InSlab, OffSlab

LEMMA SlabParts ==
  ASSUME NEW c, IsCall(c), GroupsFit(c), c.x.anchor \in DOMAIN c.compact.nodes,
         NEW layout, IsLaid(c, layout), CanDeepen(c, layout)
  PROVE  LET s == Slab(c, layout)
             floor == Floor(c, layout)
             nodes == SinkingNodes(c, layout)
             groups == SinkingGroups(c, layout)
         IN  /\ \A r \in Moving(c, layout, nodes, groups) : InSlab(r, s, floor)
             /\ \A q \in Resting(c, layout, nodes, groups) : OffSlab(q, s, floor)
<1>1. PICK s, floor : s = Slab(c, layout) /\ floor = Floor(c, layout)
  OBVIOUS
<1>2. /\ s[1] \in Int /\ s[2] \in Int /\ s[1] >= 0 /\ Seed(c, layout)[2] <= s[2]
      /\ \A i \in Intervals(c, layout) : i[1] <= s[2] /\ s[1] <= i[2] => s[1] <= i[1] /\ i[2] <= s[2]
  BY <1>1, SlabHolds DEF IsSlab, Interval
<1>3. layout.nodes \in [DOMAIN c.compact.nodes -> Box]
  BY DEF IsLaid
<1>4. floor \in Int /\ AnchorFrame(c, layout) \in Rect
  BY <1>1, <1>3, AnchorFrameIsRect
<1>5. s[2] > 0
  <2>1. PICK a : a = layout.nodes[c.x.anchor]
    OBVIOUS
  <2>2. a.x \in Int /\ a.x >= 0
    BY <1>3, <2>1, BoxesAreNumbers DEF IsLaid, FromNode
  <2>3. Seed(c, layout)[2] = a.x + c.frame.width + Margin
    BY <2>1 DEF Seed, AnchorFrame, FrameAt
  <2>4. c.frame.width \in Int /\ c.frame.width > 0
    BY FrameIsNumbers DEF IsCall
  <2> QED BY <1>2, <2>2, <2>3, <2>4, MarginIsNatural
<1>6. ASSUME NEW g \in DOMAIN c.groups
      PROVE  /\ g \in SinkingGroups(c, layout) => InSlab(layout.frames[g], s, floor)
             /\ g \notin SinkingGroups(c, layout) => OffSlab(layout.frames[g], s, floor)
  <2>1. PICK q : q = layout.frames[g]
    OBVIOUS
  <2>2. q.left \in Int /\ q.right \in Int /\ q.bottom \in Int
    BY <2>1, LaidIsRect, RectFacts
  <2>3. g \in SinkingGroups(c, layout)
          <=> q.right > s[1] /\ q.left < s[2] /\ q.bottom >= floor
    BY <1>1, <2>1 DEF SinkingGroups, GroupSinks, Spans
  <2>4. CASE g \in SinkingGroups(c, layout)
    <3>1. PICK i : i = <<Greater(q.left, 0), q.right>>
      OBVIOUS
    <3>2. i[1] = Greater(q.left, 0) /\ i[2] = q.right
      BY <3>1
    <3>3. i \in Intervals(c, layout)
      BY <1>1, <2>1, <2>3, <2>4, <3>1 DEF Intervals, FrameIntervals, LowFrames
    <3>4. i[1] <= s[2] /\ s[1] <= i[2]
      BY <1>2, <1>5, <2>2, <2>3, <2>4, <3>2 DEF Greater
    <3>5. s[1] <= i[1] /\ i[2] <= s[2]
      BY <1>2, <3>3, <3>4
    <3> QED BY <2>1, <2>3, <2>4, <3>2, <3>5 DEF InSlab
  <2>5. CASE g \notin SinkingGroups(c, layout)
    <3>1. q.right <= s[1] \/ q.left >= s[2] \/ q.bottom <= floor
      BY <1>2, <1>4, <2>2, <2>3, <2>5
    <3> QED BY <2>1, <2>5, <3>1 DEF OffSlab
  <2> QED BY <2>4, <2>5
<1>7. ASSUME NEW n \in Loose(c)
      PROVE  /\ n \in SinkingNodes(c, layout) => InSlab(FromNode(layout.nodes[n]), s, floor)
             /\ n \notin SinkingNodes(c, layout) => OffSlab(FromNode(layout.nodes[n]), s, floor)
  <2>1. n \in DOMAIN c.compact.nodes /\ Owner(c, n) = {}
    BY DEF Loose
  <2>2. PICK r : r = FromNode(layout.nodes[n])
    OBVIOUS
  <2>3. /\ r.left \in Int /\ r.top \in Int /\ r.right \in Int /\ r.bottom \in Int
        /\ 0 <= r.left /\ r.left < r.right /\ r.top < r.bottom
        /\ r.left = layout.nodes[n].x /\ r.top = layout.nodes[n].y
        /\ r.right = layout.nodes[n].x + layout.nodes[n].width
    <3>1. r \in Rect
      BY <2>1, <2>2, LaidIsRect
    <3>2. 0 <= r.left /\ r.left < r.right /\ r.top < r.bottom
      BY <2>1, <2>2 DEF IsLaid
    <3> QED BY <2>2, <3>1, <3>2, RectFacts DEF FromNode
  <2>4. n \in SinkingNodes(c, layout)
          <=> n # c.x.anchor /\ r.top >= floor /\ r.left >= s[1] /\ r.right <= s[2]
    BY <1>1, <2>1, <2>2, <2>3 DEF SinkingNodes, NodeSinks, Below, Others
  <2>5. CASE n \in SinkingNodes(c, layout)
    <3>1. s[1] <= Greater(r.left, 0) /\ floor <= r.bottom
      BY <1>2, <1>4, <2>3, <2>4, <2>5 DEF Greater
    <3> QED BY <2>2, <2>4, <2>5, <3>1 DEF InSlab
  <2>6. CASE n = c.x.anchor
    <3>1. r.bottom = floor
      BY <1>1, <2>2, <2>6 DEF Floor
    <3> QED BY <1>4, <2>2, <2>4, <2>6, <3>1 DEF OffSlab
  <2>7. CASE n \notin SinkingNodes(c, layout) /\ n # c.x.anchor /\ r.top < floor
    <3>1. n \in Others(c)
      BY <2>1, <2>7 DEF Others
    <3>2. ~ (r.right > s[1] /\ r.left < s[2] /\ r.top < floor /\ r.bottom > floor)
      BY <1>1, <2>1, <2>2, <3>1 DEF CanDeepen, Spans
    <3>3. r.right <= s[1] \/ s[2] <= r.left \/ r.bottom <= floor
      BY <1>2, <1>4, <2>3, <2>7, <3>2
    <3> QED BY <2>2, <2>7, <3>3 DEF OffSlab
  <2>8. CASE n \notin SinkingNodes(c, layout) /\ n # c.x.anchor /\ r.top >= floor
    <3>1. n \in Below(c, layout)
      BY <1>1, <2>1, <2>3, <2>8 DEF Below, Others
    <3>2. PICK i : i = <<Greater(r.left - Margin, 0), r.right + Margin>>
      OBVIOUS
    <3>3. i[1] = Greater(r.left - Margin, 0) /\ i[2] = r.right + Margin
      BY <3>2
    <3>4. i \in Intervals(c, layout)
      BY <2>3, <3>1, <3>2 DEF Intervals
    <3>5. i[1] \in Int /\ i[2] \in Int /\ i[1] <= r.left /\ r.right <= i[2]
      BY <2>3, <3>3, MarginIsNatural DEF Greater
    <3>6. i[1] > s[2] \/ s[1] > i[2]
      <4>1. SUFFICES ASSUME i[1] <= s[2], s[1] <= i[2] PROVE FALSE
        BY <1>2, <3>5
      <4>2. s[1] <= i[1] /\ i[2] <= s[2]
        BY <1>2, <3>4, <4>1
      <4>3. r.left >= s[1] /\ r.right <= s[2]
        BY <1>2, <2>3, <3>5, <4>2
      <4> QED BY <2>4, <2>8, <4>3
    <3>7. r.right <= s[1] \/ s[2] <= r.left
      BY <1>2, <2>3, <3>5, <3>6
    <3> QED BY <2>2, <2>8, <3>7 DEF OffSlab
  <2> QED BY <1>4, <2>3, <2>5, <2>6, <2>7, <2>8
<1>8. \A r \in Moving(c, layout, SinkingNodes(c, layout), SinkingGroups(c, layout)) : InSlab(r, s, floor)
  BY <1>6, <1>7 DEF Moving
<1>9. \A q \in Resting(c, layout, SinkingNodes(c, layout), SinkingGroups(c, layout)) : OffSlab(q, s, floor)
  BY <1>6, <1>7 DEF Resting
<1> QED BY <1>1, <1>8, <1>9

LEMMA DeepenKeeps ==
  ASSUME NEW c, IsCall(c), GroupsFit(c), c.x.anchor \in DOMAIN c.compact.nodes,
         NEW layout, IsLaid(c, layout), Together(c, layout), CanDeepen(c, layout)
  PROVE  /\ IsLaid(c, Deepen(c, layout)) /\ Together(c, Deepen(c, layout))
         /\ Tidy(c, layout.nodes, layout.frames)
              => Tidy(c, Deepen(c, layout).nodes, Deepen(c, layout).frames)
<1>1. PICK by, nodes, groups, other :
        /\ by = Delta(c, layout) /\ other = Deepen(c, layout)
        /\ nodes = SinkingNodes(c, layout) /\ groups = SinkingGroups(c, layout)
  OBVIOUS
<1>2. by \in Nat
  BY <1>1, DeltaClears DEF IsLaid
<1>3. IsMove(c, layout, other, nodes, groups, 0, by)
  BY <1>1, DeepenMoves
<1>4. IsLaid(c, other) /\ Together(c, other)
  BY <1>2, <1>3, MovedIsLaid, MovedTogether, 0 \in Nat
<1>5. ASSUME Tidy(c, layout.nodes, layout.frames)
      PROVE  Tidy(c, other.nodes, other.frames)
  <2>1. ASSUME NEW r \in Moving(c, layout, nodes, groups), NEW q \in Resting(c, layout, nodes, groups)
        PROVE  ~ Overlap(Offset(r, 0, by), q)
    <3>1. r \in Rect /\ q \in Rect /\ Solid(r) /\ Solid(q) /\ ~ Overlap(r, q)
      BY <1>5, TidyIsApart
    <3>2. PICK s, floor : s = Slab(c, layout) /\ floor = Floor(c, layout)
      OBVIOUS
    <3>3. InSlab(r, s, floor) /\ OffSlab(q, s, floor)
      BY <1>1, <3>2, SlabParts
    <3>4. s \in Interval /\ floor \in Int
      BY <3>2, SlabHolds, AnchorFrameIsRect DEF IsSlab, IsLaid
    <3> QED BY <1>2, <3>1, <3>3, <3>4, SinkingStaysApart
  <2> QED BY <1>2, <1>3, <1>5, <2>1, MovedIsTidy, 0 \in Int
<1> QED BY <1>1, <1>4, <1>5

-----------------------------------------------------------------------------
(* Room for the members.                                                   *)

\* A node that overlaps the place of the members lay beside the anchor, above
\* it or below it; the first is ruled out by the horizontal corridor, the
\* second does not sink, and the third sinks far enough.
LEMMA DeepenMakesRoom ==
  ASSUME NEW c, IsCall(c), GroupsFit(c), c.x.anchor \in DOMAIN c.compact.nodes,
         NEW layout, IsLaid(c, layout), CanDeepen(c, layout), RoomBeside(c, layout),
         Tidy(c, layout.nodes, layout.frames), NEW n \in Others(c)
  PROVE  ~ Overlap(AnchorFrame(c, Deepen(c, layout)), FromNode(Deepen(c, layout).nodes[n]))
<1>1. PICK by, nodes, groups, other, anchor :
        /\ by = Delta(c, layout) /\ other = Deepen(c, layout) /\ anchor = c.x.anchor
        /\ nodes = SinkingNodes(c, layout) /\ groups = SinkingGroups(c, layout)
  OBVIOUS
<1>2. layout.nodes \in [DOMAIN c.compact.nodes -> Box] /\ by \in Nat
  BY <1>1, DeltaClears DEF IsLaid
<1>3. IsMove(c, layout, other, nodes, groups, 0, by)
  BY <1>1, DeepenMoves
<1>4. n \in DOMAIN c.compact.nodes /\ n # anchor
  BY <1>1 DEF Others
<1>5. PICK a, r, q, f, s, floor :
        /\ a = FromNode(layout.nodes[anchor]) /\ r = FromNode(layout.nodes[n])
        /\ q = FromNode(other.nodes[n]) /\ f = AnchorFrame(c, layout)
        /\ s = Slab(c, layout) /\ floor = Floor(c, layout)
  OBVIOUS
<1>6. /\ a \in Rect /\ r \in Rect /\ f \in Rect /\ Solid(a) /\ Solid(r) /\ floor \in Int
      /\ a.left >= 0 /\ r.left >= 0
  <2>1. a \in Rect /\ r \in Rect /\ Solid(a) /\ Solid(r)
    BY <1>1, <1>4, <1>5, LaidIsRect
  <2>2. f \in Rect /\ floor \in Int
    BY <1>2, <1>5, AnchorFrameIsRect
  <2>3. a.left >= 0 /\ r.left >= 0
    BY <1>1, <1>4, <1>5 DEF IsLaid
  <2> QED BY <2>1, <2>2, <2>3
<1>7. /\ a.left \in Int /\ a.top \in Int /\ a.right \in Int /\ a.bottom \in Int
      /\ r.left \in Int /\ r.top \in Int /\ r.right \in Int /\ r.bottom \in Int
      /\ f.left \in Int /\ f.top \in Int /\ f.right \in Int /\ f.bottom \in Int
  BY <1>6, RectFacts
<1>8. /\ f.left = a.left /\ f.top = a.top /\ a.bottom = floor
      /\ f.right = layout.nodes[anchor].x + c.frame.width
      /\ a.right = layout.nodes[anchor].x + layout.nodes[anchor].width
      /\ r.left = layout.nodes[n].x /\ r.top = layout.nodes[n].y
  BY <1>1, <1>5 DEF AnchorFrame, FrameAt, FromNode, Floor
<1>9. AnchorFrame(c, other) = f
  <2>1. anchor \notin nodes
    BY <1>1, AnchorIsLoose DEF SinkingNodes, NodeSinks, Below, Others
  <2>2. FromNode(other.nodes[anchor]) = a
    BY <1>1, <1>3, <1>5, <2>1 DEF IsMove
  <2>3. other.nodes[anchor].x = a.left /\ other.nodes[anchor].y = a.top
    BY <2>2 DEF FromNode
  <2>4. layout.nodes[anchor].x = a.left /\ layout.nodes[anchor].y = a.top
    BY <1>5 DEF FromNode
  <2> QED BY <1>1, <1>5, <2>3, <2>4 DEF AnchorFrame
<1>10. q = IF n \in nodes THEN Offset(r, 0, by) ELSE r
  BY <1>3, <1>4, <1>5 DEF IsMove
<1>11. /\ q.left = r.left /\ q.right = r.right
       /\ n \in nodes => q.top = r.top + by /\ q.bottom = r.bottom + by
       /\ n \notin nodes => q.top = r.top /\ q.bottom = r.bottom
  BY <1>7, <1>10 DEF Offset
<1>12. ~ Overlap(a, r)
  BY <1>1, <1>2, <1>4, <1>5 DEF Tidy
<1>13. SUFFICES ASSUME Overlap(f, q) PROVE FALSE
  BY <1>1, <1>5, <1>9
<1>14. a.left < r.right /\ r.left < a.right /\ r.left < f.right
  <2>1. f.left < q.right /\ q.left < f.right
    BY <1>13 DEF Overlap
  <2>2. r.left >= f.right \/ r.left < a.right
    BY <1>1, <1>8 DEF RoomBeside
  <2> QED BY <1>7, <1>8, <1>11, <2>1, <2>2
<1>15. r.bottom <= a.top \/ r.top >= floor
  BY <1>7, <1>8, <1>12, <1>14 DEF Overlap
<1>16. /\ s[1] \in Int /\ s[2] \in Int /\ s[1] >= 0
       /\ s[1] <= Greater(f.left - Margin, 0) /\ f.right + Margin <= s[2]
       /\ \A i \in Intervals(c, layout) : i[1] <= s[2] /\ s[1] <= i[2] => s[1] <= i[1] /\ i[2] <= s[2]
  <2>1. IsSlab(c, layout, s)
    BY <1>5, SlabHolds
  <2>2. PICK seed : seed = Seed(c, layout)
    OBVIOUS
  <2>3. seed[1] = Greater(f.left - Margin, 0) /\ seed[2] = f.right + Margin
    BY <1>5, <2>2 DEF Seed
  <2> QED BY <2>1, <2>2, <2>3 DEF IsSlab, Interval
<1>17. Margin \in Nat
  BY MarginIsNatural
<1>18. s[1] < r.right /\ r.left < s[2]
  BY <1>6, <1>7, <1>8, <1>14, <1>16, <1>17 DEF Greater, Solid
<1>19. CASE r.bottom <= a.top
  <2>1. n \in nodes
    BY <1>7, <1>8, <1>11, <1>13, <1>19 DEF Overlap
  <2>2. n \notin Below(c, layout)
    BY <1>5, <1>6, <1>7, <1>8, <1>19 DEF Below, Solid
  <2>3. n \notin Loose(c)
    BY <1>1, <2>1, <2>2 DEF Loose, SinkingNodes, NodeSinks
  <2>4. PICK g \in DOMAIN c.groups : Owner(c, n) = {g} /\ n \in Members(c.groups[g])
    BY <1>4, <2>3, OwnersAgree
  <2>5. PICK h : h = layout.frames[g]
    OBVIOUS
  <2>6. h \in Rect /\ Inside(r, h)
    BY <1>5, <2>4, <2>5, LaidIsRect
  <2>7. GroupSinks(c, layout, g)
    BY <1>1, <2>1, <2>4 DEF SinkingNodes, NodeSinks
  <2>8. h.bottom >= floor
    BY <1>5, <2>5, <2>7 DEF GroupSinks
  <2>9. anchor \notin Members(c.groups[g])
    BY <1>1 DEF GroupsFit, Others
  <2>10. ~ Overlap(h, a)
    <3>1. g \in DOMAIN layout.frames /\ anchor \in DOMAIN layout.nodes
      BY <1>1, <1>2 DEF IsLaid
    <3> QED BY <1>5, <2>5, <2>9, <3>1 DEF Tidy
  <2>11. h.left \in Int /\ h.top \in Int /\ h.right \in Int /\ h.bottom \in Int
    BY <2>6, RectFacts
  <2> QED BY <1>6, <1>7, <1>8, <1>14, <1>19, <2>6, <2>8, <2>10, <2>11 DEF Overlap, Inside, Solid
<1>20. CASE r.top >= floor
  <2>1. n \in Below(c, layout)
    BY <1>5, <1>8, <1>20 DEF Below
  <2>2. n \in nodes
    <3>1. CASE n \in Loose(c)
      <4>1. PICK i : i = <<Greater(r.left - Margin, 0), r.right + Margin>>
        OBVIOUS
      <4>2. i[1] = Greater(r.left - Margin, 0) /\ i[2] = r.right + Margin
        BY <4>1
      <4>3. i \in Intervals(c, layout)
        <5>1. r.right = layout.nodes[n].x + layout.nodes[n].width
          BY <1>5 DEF FromNode
        <5> QED BY <1>8, <2>1, <4>1, <5>1 DEF Intervals
      <4>4. i[1] \in Int /\ i[2] \in Int /\ i[1] <= r.left /\ r.right <= i[2]
        BY <1>6, <1>7, <1>17, <4>2 DEF Greater
      <4>5. s[1] <= i[1] /\ i[2] <= s[2]
        BY <1>7, <1>16, <1>18, <4>3, <4>4
      <4>6. r.left >= s[1] /\ r.right <= s[2]
        BY <1>7, <1>16, <4>4, <4>5
      <4> QED BY <1>1, <1>4, <1>5, <2>1, <3>1, <4>6 DEF Loose, SinkingNodes, NodeSinks
    <3>2. CASE n \notin Loose(c)
      <4>1. PICK g \in DOMAIN c.groups : Owner(c, n) = {g} /\ n \in Members(c.groups[g])
        BY <1>4, <3>2, OwnersAgree
      <4>2. PICK h : h = layout.frames[g]
        OBVIOUS
      <4>3. h \in Rect /\ Inside(r, h)
        BY <1>5, <4>1, <4>2, LaidIsRect
      <4>4. h.left \in Int /\ h.top \in Int /\ h.right \in Int /\ h.bottom \in Int
        BY <4>3, RectFacts
      <4>5. h.right > s[1] /\ h.left < s[2] /\ h.bottom >= floor
        BY <1>6, <1>7, <1>16, <1>18, <1>20, <4>3, <4>4 DEF Inside, Solid
      <4>6. GroupSinks(c, layout, g)
        BY <1>5, <4>2, <4>5 DEF GroupSinks, Spans
      <4> QED BY <1>1, <1>4, <4>1, <4>6 DEF SinkingNodes, NodeSinks
    <3> QED BY <3>1, <3>2
  <2>3. r.top < f.bottom
    <3>1. q.top < f.bottom /\ q.top = r.top + by
      BY <1>11, <1>13, <2>2 DEF Overlap
    <3> QED BY <1>2, <1>7, <3>1
  <2>4. Overlap(r, Expanded(f, Margin))
    <3>1. PICK e : e = Expanded(f, Margin)
      OBVIOUS
    <3>2. /\ e.left = f.left - Margin /\ e.top = f.top - Margin
          /\ e.right = f.right + Margin /\ e.bottom = f.bottom + Margin
      BY <3>1 DEF Expanded
    <3>3. f.left < r.right /\ r.left < f.right /\ f.top < r.bottom
      BY <1>6, <1>7, <1>8, <1>14, <1>20 DEF Solid
    <3>4. /\ r.left < e.right /\ e.left < r.right /\ r.top < e.bottom /\ e.top < r.bottom
      BY <1>7, <1>17, <2>3, <3>2, <3>3
    <3> QED BY <3>1, <3>4 DEF Overlap
  <2>5. n \in Blockers(c, layout)
    BY <1>5, <2>1, <2>4 DEF Blockers
  <2>6. r.top + by >= f.bottom
    BY <1>1, <1>2, <1>5, <1>8, <2>5, DeltaClears
  <2> QED BY <1>2, <1>7, <1>11, <1>13, <2>2, <2>6 DEF Overlap
<1> QED BY <1>15, <1>19, <1>20

-----------------------------------------------------------------------------
(* Of every run.                                                           *)

LEMMA AcceptedGroupsFit ==
  ASSUME NEW c, IsCall(c), Fault(c) = None
  PROVE  GroupsFit(c) /\ c.x.anchor \in DOMAIN c.compact.nodes
<1>1. c.x.anchor \in DOMAIN c.compact.nodes
  BY AcceptedHasAnchor
<1>2. PICK compact, expanded, x, groups :
        compact = c.compact /\ expanded = c.expanded /\ x = c.x /\ groups = c.groups
  OBVIOUS
<1>3. IsGraph(compact) /\ IsGraph(expanded) /\ IsMapping(x) /\ AreGroups(groups)
  BY <1>2 DEF IsCall
<1>4. /\ ContractError(compact, expanded, x) = None
      /\ ProtectedError(compact, expanded, x, groups) = None
  <2>1. PICK contract, ends, protected :
          /\ contract = ContractError(compact, expanded, x)
          /\ ends = If(~ Attached(c, c.layout), "InvalidEdgeGeometry")
          /\ protected = ProtectedError(compact, expanded, x, groups)
    OBVIOUS
  <2>2. FirstError(<<contract, ends, protected>>) = None
    BY <1>2, <2>1 DEF Fault
  <2>3. contract = None /\ protected = None
    BY <2>2, NoErrorOf
  <2> QED BY <2>1, <2>3
<1>5. IsQuotient(compact, expanded, x)
  BY <1>3, <1>4, ContractMeans, AgreeingIsQuotient
<1>6. ArePeers(compact, expanded, x, groups)
  BY <1>3, <1>4, <1>5, ProtectedErrorMeans, FittingArePeers
<1>7. ASSUME NEW g \in DOMAIN groups
      PROVE  /\ groups[g].padding \in Nat /\ Members(groups[g]) # {}
             /\ Members(groups[g]) \subseteq DOMAIN compact.nodes \ {x.anchor}
  <2>1. PICK G : G = [id : Nat, members : Seq(Nat), padding : Int]
    OBVIOUS
  <2>2. groups[g] \in G
    <3>1. groups \in Seq(G)
      BY <1>3, <2>1 DEF AreGroups
    <3> QED BY <3>1
  <2>3. groups[g].members \in Seq(Nat) /\ groups[g].padding \in Int
    BY <2>1, <2>2
  <2>4. /\ groups[g].padding >= 0 /\ groups[g].members # <<>>
        /\ ToSet(groups[g].members) \subseteq DOMAIN compact.nodes \ {x.anchor}
    BY <1>6 DEF ArePeers
  <2>5. ToSet(groups[g].members) # {}
    <3>1. PICK s \in Seq(Nat) : s = groups[g].members
      BY <2>3
    <3>2. 1 \in DOMAIN s
      BY <2>4, <3>1
    <3> QED BY <3>1, <3>2 DEF ToSet
  <2> QED BY <2>3, <2>4, <2>5 DEF Members
<1>8. \A g, h \in DOMAIN groups : g # h => Members(groups[g]) \cap Members(groups[h]) = {}
  BY <1>6 DEF ArePeers, Members
<1> QED BY <1>1, <1>2, <1>7, <1>8 DEF GroupsFit, Others

\* The drawing after the horizontal corridor.
Opened(c) == IF CanWiden(c) THEN Widen(c) ELSE AsGiven(c)

LEMMA OpenedKeeps ==
  ASSUME NEW c, IsCall(c), GroupsFit(c), c.x.anchor \in DOMAIN c.compact.nodes,
         NEW layout, layout = Opened(c)
  PROVE  /\ IsLaid(c, layout) /\ Together(c, layout)
         /\ Tidy(c, c.layout.nodes, Protected(c)) => Tidy(c, layout.nodes, layout.frames)
         /\ CanWiden(c) \/ Additional(c) <= 0 => RoomBeside(c, layout)
<1>1. CASE CanWiden(c)
  BY <1>1, WidenKeeps DEF Opened
<1>2. CASE ~ CanWiden(c)
  <2>1. layout = AsGiven(c)
    BY <1>2 DEF Opened
  <2>2. layout.nodes = c.layout.nodes /\ layout.frames = Protected(c)
    BY <2>1 DEF AsGiven
  <2> QED BY <1>2, <2>1, <2>2, GivenIsLaid, GivenHasRoom
<1> QED BY <1>1, <1>2

CorridorsAreOfCall ==
  /\ IsCall(call)
  /\ stage \in {"widen", "deepen", "plan", "reflow", "place"} => Fault(call) = None
  /\ stage = "deepen" => widened = Opened(call)
  /\ widened = None \/ (Fault(call) = None /\ widened = Opened(call))
  /\ \/ reflow = None
     \/ /\ Fault(call) = None /\ widened = Opened(call)
        /\ CanDeepen(call, widened) /\ reflow = Deepen(call, widened)

LEMMA CorridorsStay == Spec => []CorridorsAreOfCall
<1>1. Init => CorridorsAreOfCall
  BY CallsAssumption DEF Init, CorridorsAreOfCall
<1>2. CorridorsAreOfCall /\ [Next]_vars => CorridorsAreOfCall'
  <2> SUFFICES ASSUME CorridorsAreOfCall, [Next]_vars PROVE CorridorsAreOfCall'
    OBVIOUS
  <2> USE DEF CorridorsAreOfCall
  <2>1. ASSUME NEW e, Fail(e) PROVE CorridorsAreOfCall'
    BY <2>1 DEF Fail
  <2>2. CASE Check
    BY <2>1, <2>2 DEF Check
  <2>3. CASE OpenHorizontal
    <3>1. PICK layout : layout = Opened(call)
      OBVIOUS
    <3>2. Fault(call) = None
      BY <2>3 DEF OpenHorizontal
    <3>3. CASE Fail("InvalidEdgeGeometry") \/ Fail("InvalidCompactHardGeometry")
      BY <2>1, <3>3
    <3>4. CASE widened' = layout /\ stage' = "deepen" /\ call' = call /\ reflow' = reflow
      <4>1. widened = layout \/ reflow = None
        BY <3>1
      <4> QED BY <3>1, <3>2, <3>4, <4>1
    <3> QED BY <2>3, <3>1, <3>3, <3>4 DEF OpenHorizontal, Opened
  <2>4. CASE OpenVertical
    <3>1. Fault(call) = None /\ widened = Opened(call)
      BY <2>4 DEF OpenVertical
    <3> QED BY <2>4, <3>1 DEF OpenVertical
  <2>5. ASSUME NEW cost, NEW reserved, NEW layout, Plan(cost, reserved, layout),
               layout = None \/ layout = reflow, Fault(call) = None
        PROVE  CorridorsAreOfCall'
    BY <2>5 DEF Plan
  <2>6. CASE PlanWithReflow
    BY <2>5, <2>6 DEF PlanWithReflow
  <2>7. CASE PlanWithout
    BY <2>5, <2>7 DEF PlanWithout
  <2>8. CASE PlanFails
    BY <2>1, <2>8 DEF PlanFails
  <2>9. CASE TryReflow
    BY <2>1, <2>9 DEF TryReflow, OutOfWork
  <2>10. CASE PlaceHere
    <3>1. CASE \E verdict \in call.verdicts : OutOfWork(verdict)
      BY <2>1, <3>1 DEF OutOfWork
    <3>2. CASE /\ UNCHANGED <<call, widened, reflow, work>> /\ stage = "place"
               /\ stage' = "done" \/ stage' = stage
      BY <3>2
    <3> QED BY <2>10, <3>1, <3>2 DEF PlaceHere
  <2>11. CASE PassOver
    BY <2>11 DEF PassOver
  <2>12. CASE Exhausted
    BY <2>12 DEF Exhausted
  <2>13. CASE UNCHANGED vars
    BY <2>13 DEF vars
  <2> QED BY <2>2, <2>3, <2>4, <2>6, <2>7, <2>8, <2>9, <2>10, <2>11, <2>12, <2>13 DEF Next
<1> QED BY <1>1, <1>2, PTL DEF Spec

LEMMA LaidKeepsGroups ==
  ASSUME NEW layout, IsLaid(call, layout), Together(call, layout),
         Tidy(call, call.layout.nodes, Protected(call)) => Tidy(call, layout.nodes, layout.frames)
  PROVE  /\ \A g \in DOMAIN call.groups :
              /\ layout.frames[g] = ProtectedFrame(layout.nodes, call.groups[g])
              /\ \A m, n \in Members(call.groups[g]) :
                   /\ layout.nodes[m].x - call.layout.nodes[m].x
                        = layout.nodes[n].x - call.layout.nodes[n].x
                   /\ layout.nodes[m].y - call.layout.nodes[m].y
                        = layout.nodes[n].y - call.layout.nodes[n].y
         /\ Tidy(call, call.layout.nodes, Protected(call)) => Tidy(call, layout.nodes, layout.frames)
BY DEF IsLaid, Together

\* The corridors move open groups whole, whatever the drawing. Where nodes were
\* apart and groups held only their members, they stay so, and where both
\* corridors were opened the place of the members is free
\* (insert_horizontal_expansion_corridor,
\* insert_local_vertical_expansion_corridor), for any nodes and groups.
THEOREM CorridorsAreClear == Spec => []CorridorsMakeRoom
<1>1. CorridorsAreOfCall => CorridorsMakeRoom
  <2> SUFFICES ASSUME CorridorsAreOfCall PROVE CorridorsMakeRoom
    OBVIOUS
  <2>1. IsCall(call)
    BY DEF CorridorsAreOfCall
  <2>2. ASSUME Fault(call) = None, widened = Opened(call)
        PROVE  /\ GroupsFit(call) /\ call.x.anchor \in DOMAIN call.compact.nodes
               /\ IsLaid(call, widened) /\ Together(call, widened)
               /\ Tidy(call, call.layout.nodes, Protected(call)) => Tidy(call, widened.nodes, widened.frames)
               /\ CanWiden(call) \/ Additional(call) <= 0 => RoomBeside(call, widened)
    BY <2>1, <2>2, AcceptedGroupsFit, OpenedKeeps
  <2>3. ASSUME Fault(call) = None, widened = Opened(call),
               CanDeepen(call, widened), reflow = Deepen(call, widened)
        PROVE  /\ IsLaid(call, reflow) /\ Together(call, reflow)
               /\ Tidy(call, call.layout.nodes, Protected(call)) => Tidy(call, reflow.nodes, reflow.frames)
    <3>1. /\ IsLaid(call, reflow) /\ Together(call, reflow)
          /\ Tidy(call, widened.nodes, widened.frames) => Tidy(call, reflow.nodes, reflow.frames)
      BY <2>1, <2>2, <2>3, DeepenKeeps
    <3> QED BY <2>2, <2>3, <3>1
  <2>4. CorridorsKeepGroups
    <3>1. ASSUME NEW layout \in {widened, reflow} \ {None}
          PROVE  /\ IsLaid(call, layout) /\ Together(call, layout)
                 /\ Tidy(call, call.layout.nodes, Protected(call)) => Tidy(call, layout.nodes, layout.frames)
      BY <2>2, <2>3, <3>1 DEF CorridorsAreOfCall
    <3> QED BY <3>1, LaidKeepsGroups DEF CorridorsKeepGroups
  <2>5. RoomIsMade
    <3>1. ASSUME reflow # None, CanWiden(call) \/ Additional(call) <= 0,
                 Tidy(call, call.layout.nodes, Protected(call)), NEW n \in Others(call)
          PROVE  ~ Overlap(AnchorFrame(call, reflow), FromNode(reflow.nodes[n]))
      <4>1. /\ Fault(call) = None /\ widened = Opened(call)
            /\ CanDeepen(call, widened) /\ reflow = Deepen(call, widened)
        BY <3>1 DEF CorridorsAreOfCall
      <4>2. /\ GroupsFit(call) /\ call.x.anchor \in DOMAIN call.compact.nodes
            /\ IsLaid(call, widened) /\ Tidy(call, widened.nodes, widened.frames)
            /\ RoomBeside(call, widened)
        BY <2>2, <3>1, <4>1
      <4> QED BY <2>1, <4>1, <4>2, DeepenMakesRoom
    <3> QED BY <3>1 DEF RoomIsMade
  <2> QED BY <2>4, <2>5 DEF CorridorsMakeRoom
<1> QED BY <1>1, CorridorsStay, PTL

-----------------------------------------------------------------------------
(* Sums of segments.                                                       *)

\* What SumOf computes on the subsets of S.
Sums(S, rs, g) ==
  g = [s \in SUBSET S |-> IF s = {} THEN 0
                         ELSE SegmentCount(rs[CHOOSE x \in s : TRUE])
                                + g[s \ {CHOOSE x \in s : TRUE}]]

\* SumOf adds up one by one.
LEMMA SumIsFold ==
  ASSUME NEW S, IsFiniteSet(S), NEW rs, \A e \in S : SegmentCount(rs[e]) \in Int
  PROVE  \E g : SumOf(S, rs) = g[S] /\ Sums(S, rs, g)
<1>1. PICK choose : choose = [s \in SUBSET S |-> CHOOSE x \in s : TRUE]
  OBVIOUS
<1>2. PICK apply : apply = [p \in S \X Int |-> SegmentCount(rs[p[1]]) + p[2]]
  OBVIOUS
<1>3. \A s \in SUBSET S : s # {} => choose[s] \in s
  BY <1>1
<1>4. \A x \in S, v \in Int : apply[<<x, v>>] = SegmentCount(rs[x]) + v /\ apply[<<x, v>>] \in Int
  BY <1>2
<1>5. PICK f \in [SUBSET S -> Int] :
           /\ f[{}] = 0
           /\ \A s \in SUBSET S : s # {} => f[s] = apply[<<choose[s], f[s \ {choose[s]}]>>]
  <2>1. 0 \in Int /\ \A x \in S : \A v \in Int : apply[<<x, v>>] \in Int
    BY <1>4
  <2>2. Recursions(S, Int, 0, choose, apply) # {}
    BY ONLY IsFiniteSet(S), <1>3, <2>1, RecursionExists
  <2> QED BY <2>2 DEF Recursions
<1>6. Sums(S, rs, f)
  <2>1. ASSUME NEW s \in SUBSET S, s # {}
        PROVE  f[s] = SegmentCount(rs[CHOOSE x \in s : TRUE]) + f[s \ {CHOOSE x \in s : TRUE}]
    <3>1. choose[s] = (CHOOSE x \in s : TRUE) /\ choose[s] \in S /\ s \ {choose[s]} \in SUBSET S
      BY <1>1, <1>3, <2>1
    <3>2. f[s] = SegmentCount(rs[choose[s]]) + f[s \ {choose[s]}]
      BY <1>4, <1>5, <2>1, <3>1
    <3> QED BY <3>1, <3>2
  <2> QED BY <1>5, <2>1 DEF Sums
<1>7. PICK g : g = CHOOSE h : Sums(S, rs, h)
  OBVIOUS
<1>8. Sums(S, rs, g)
  BY <1>6, <1>7
<1>9. SumOf(S, rs) = g[S]
  BY <1>7 DEF Sums, SumOf, MapThenSumSet, MapThenFoldSet
<1> QED BY <1>8, <1>9

\* Sums over a set and over a part of it agree on the part.
LEMMA SumsAgree ==
  ASSUME NEW S, IsFiniteSet(S), NEW T \in SUBSET S, NEW rs, NEW g, Sums(S, rs, g), NEW h, Sums(T, rs, h)
  PROVE  g[T] = h[T]
<1> DEFINE Good == {U \in SUBSET T : g[U] = h[U]}
<1>1. \A s \in SUBSET S : g[s] = IF s = {} THEN 0
                         ELSE SegmentCount(rs[CHOOSE x \in s : TRUE])
                                + g[s \ {CHOOSE x \in s : TRUE}]
  BY DEF Sums
<1>2. \A s \in SUBSET T : h[s] = IF s = {} THEN 0
                         ELSE SegmentCount(rs[CHOOSE x \in s : TRUE])
                                + h[s \ {CHOOSE x \in s : TRUE}]
  BY DEF Sums
<1>3. ASSUME NEW U \in SUBSET T, \A V \in SUBSET U : V # U => V \in Good
      PROVE  U \in Good
  <2>1. CASE U = {}
    BY <1>1, <1>2, <2>1
  <2>2. CASE U # {}
    <3>1. PICK x : x = CHOOSE u \in U : TRUE
      OBVIOUS
    <3>2. x \in U
      BY <2>2, <3>1
    <3>3. U \ {x} \in Good
      BY <1>3, <3>2
    <3>4. g[U] = SegmentCount(rs[x]) + g[U \ {x}]
      BY <1>1, <2>2, <3>1
    <3>5. h[U] = SegmentCount(rs[x]) + h[U \ {x}]
      BY <1>2, <2>2, <3>1
    <3> QED BY <3>3, <3>4, <3>5
  <2> QED BY <2>1, <2>2
<1>4. IsFiniteSet(T)
  BY FS_Subset
<1>5. T \in Good
  <2> HIDE DEF Good
  <2> QED BY <1>3, <1>4, InductionFromSmaller
<1> QED BY <1>5

\* One route at a time, whichever comes first.
LEMMA SumOfOneMore ==
  ASSUME NEW S, IsFiniteSet(S), NEW rs, \A e \in S : SegmentCount(rs[e]) \in Int
  PROVE  /\ SumOf({}, rs) = 0
         /\ SumOf(S, rs) \in Int
         /\ \A x \in S : SumOf(S, rs) = SegmentCount(rs[x]) + SumOf(S \ {x}, rs)
<1> DEFINE Good == {T \in SUBSET S :
                      /\ SumOf(T, rs) \in Int
                      /\ \A x \in T : SumOf(T, rs) = SegmentCount(rs[x]) + SumOf(T \ {x}, rs)}
<1>1. \A T \in SUBSET S : IsFiniteSet(T) /\ \A e \in T : SegmentCount(rs[e]) \in Int
  BY FS_Subset
<1>2. SumOf({}, rs) = 0
  <2>1. PICK g : SumOf({}, rs) = g[{}] /\ Sums({}, rs, g)
    BY <1>1, SumIsFold
  <2> QED BY <2>1 DEF Sums
<1>3. ASSUME NEW T \in SUBSET S, T # {}
      PROVE  \E x \in T : SumOf(T, rs) = SegmentCount(rs[x]) + SumOf(T \ {x}, rs)
  <2>1. PICK g : SumOf(T, rs) = g[T] /\ Sums(T, rs, g)
    BY <1>1, SumIsFold
  <2>2. PICK x \in T : x = CHOOSE u \in T : TRUE
    BY <1>3
  <2>3. PICK U \in SUBSET T : U = T \ {x}
    OBVIOUS
  <2>4. PICK h : SumOf(U, rs) = h[U] /\ Sums(U, rs, h)
    BY <1>1, SumIsFold
  <2>5. IsFiniteSet(T)
    BY <1>1
  <2>6. g[U] = h[U]
    BY ONLY <2>1, <2>4, <2>5, U \in SUBSET T, SumsAgree
  <2>7. g[T] = SegmentCount(rs[x]) + g[U]
    BY <1>3, <2>1, <2>2, <2>3 DEF Sums
  <2> QED BY <2>1, <2>3, <2>4, <2>6, <2>7
<1>4. ASSUME NEW T \in SUBSET S, \A U \in SUBSET T : U # T => U \in Good
      PROVE  T \in Good
  <2>1. CASE T = {}
    BY <1>2, <2>1
  <2>2. CASE T # {}
    <3>1. PICK c \in T : SumOf(T, rs) = SegmentCount(rs[c]) + SumOf(T \ {c}, rs)
      BY <1>3, <2>2
    <3>2. T \ {c} \in Good
      BY <1>4
    <3>3. SumOf(T, rs) \in Int
      BY <1>1, <3>1, <3>2
    <3>4. ASSUME NEW x \in T, x # c
          PROVE  SumOf(T, rs) = SegmentCount(rs[x]) + SumOf(T \ {x}, rs)
      <4>1. T \ {x} \in Good /\ (T \ {x}) \ {c} \in Good
        BY <1>4, <3>4
      <4>2. (T \ {x}) \ {c} = (T \ {c}) \ {x}
        OBVIOUS
      <4>3. SumOf(T \ {c}, rs) = SegmentCount(rs[x]) + SumOf((T \ {x}) \ {c}, rs)
        BY <3>2, <3>4, <4>2
      <4>4. SumOf(T \ {x}, rs) = SegmentCount(rs[c]) + SumOf((T \ {x}) \ {c}, rs)
        BY <3>4, <4>1
      <4>5. SegmentCount(rs[x]) \in Int /\ SegmentCount(rs[c]) \in Int /\ SumOf((T \ {x}) \ {c}, rs) \in Int
        BY <1>1, <4>1
      <4> QED BY <3>1, <4>3, <4>4, <4>5
    <3> QED BY <3>1, <3>3, <3>4
  <2> QED BY <2>1, <2>2
<1>5. S \in Good
  <2> HIDE DEF Good
  <2> QED BY <1>4, InductionFromSmaller
<1> QED BY <1>2, <1>5

\* A sum is that of a part and of the rest.
LEMMA SumOfParts ==
  ASSUME NEW S, IsFiniteSet(S), NEW rs, \A e \in S : SegmentCount(rs[e]) \in Int, NEW T \in SUBSET S
  PROVE  SumOf(S, rs) = SumOf(T, rs) + SumOf(S \ T, rs)
<1>1. PICK Good : Good = {U \in SUBSET S : SumOf(S, rs) = SumOf(U, rs) + SumOf(S \ U, rs)}
  OBVIOUS
<1>2. \A U \in SUBSET S : IsFiniteSet(U) /\ \A e \in U : SegmentCount(rs[e]) \in Int
  BY FS_Subset
<1>3. {} \in Good
  <2>1. SumOf(S, rs) \in Int /\ SumOf({}, rs) = 0 /\ S \ {} = S
    BY SumOfOneMore
  <2> QED BY <1>1, <2>1
<1>4. ASSUME NEW U \in SUBSET T, NEW x \in U, U \ {x} \in Good
      PROVE  U \in Good
  <2>1. SumOf(S, rs) = SumOf(U \ {x}, rs) + SumOf(S \ (U \ {x}), rs)
    BY <1>1, <1>4
  <2>2. SumOf(U, rs) = SegmentCount(rs[x]) + SumOf(U \ {x}, rs)
    BY <1>2, SumOfOneMore
  <2>3. PICK R : R = S \ (U \ {x})
    OBVIOUS
  <2>4. SumOf(R, rs) = SegmentCount(rs[x]) + SumOf(S \ U, rs)
    <3>1. x \in R /\ R \ {x} = S \ U
      BY <2>3
    <3>2. IsFiniteSet(R) /\ \A e \in R : SegmentCount(rs[e]) \in Int
      <4>1. R \in SUBSET S
        BY <2>3
      <4> QED BY <1>2, <4>1
    <3>3. \A y \in R : SumOf(R, rs) = SegmentCount(rs[y]) + SumOf(R \ {y}, rs)
      BY ONLY <3>2, SumOfOneMore
    <3> QED BY <3>1, <3>3
  <2>5. /\ SegmentCount(rs[x]) \in Int
        /\ SumOf(S \ U, rs) \in Int /\ SumOf(U \ {x}, rs) \in Int
    <3>1. S \ U \in SUBSET S /\ U \ {x} \in SUBSET S
      OBVIOUS
    <3> QED BY <1>2, <3>1, SumOfOneMore
  <2>6. SumOf(S, rs) = SumOf(U, rs) + SumOf(S \ U, rs)
    BY <2>1, <2>2, <2>3, <2>4, <2>5
  <2> QED BY <1>1, <2>6
<1>5. T \in Good
  BY <1>2, <1>3, <1>4, FiniteInduction
<1> QED BY <1>1, <1>5

\* Routes that agree on a set have the same sum over it.
LEMMA SumOfSame ==
  ASSUME NEW S, IsFiniteSet(S), NEW rs, NEW qs, \A e \in S : SegmentCount(rs[e]) \in Int /\ qs[e] = rs[e]
  PROVE  SumOf(S, rs) = SumOf(S, qs)
<1>1. PICK Good : Good = {U \in SUBSET S : SumOf(U, rs) = SumOf(U, qs)}
  OBVIOUS
<1>2. \A U \in SUBSET S : /\ IsFiniteSet(U)
                         /\ \A e \in U : SegmentCount(rs[e]) \in Int /\ SegmentCount(qs[e]) \in Int
  BY FS_Subset
<1>3. {} \in Good
  <2>1. SumOf({}, rs) = 0 /\ SumOf({}, qs) = 0
    BY <1>2, SumOfOneMore
  <2> QED BY <1>1, <2>1
<1>4. ASSUME NEW U \in SUBSET S, NEW x \in U, U \ {x} \in Good
      PROVE  U \in Good
  <2>1. SumOf(U, rs) = SegmentCount(rs[x]) + SumOf(U \ {x}, rs)
    BY <1>2, SumOfOneMore
  <2>2. SumOf(U, qs) = SegmentCount(qs[x]) + SumOf(U \ {x}, qs)
    BY <1>2, SumOfOneMore
  <2> QED BY <1>1, <1>4, <2>1, <2>2
<1>5. S \in Good
  BY <1>3, <1>4, FiniteInduction
<1> QED BY <1>1, <1>5

\* Routes of one length.
LEMMA SumOfEqual ==
  ASSUME NEW S, IsFiniteSet(S), NEW rs, NEW c \in Int, \A e \in S : SegmentCount(rs[e]) = c
  PROVE  SumOf(S, rs) = c * Cardinality(S)
<1>1. PICK Good : Good = {U \in SUBSET S : SumOf(U, rs) = c * Cardinality(U)}
  OBVIOUS
<1>2. \A U \in SUBSET S : IsFiniteSet(U) /\ Cardinality(U) \in Nat /\ \A e \in U : SegmentCount(rs[e]) \in Int
  BY FS_Subset, FS_CardinalityType
<1>3. {} \in Good
  <2>1. SumOf({}, rs) = 0
    BY <1>2, SumOfOneMore
  <2>2. Cardinality({}) = 0
    BY FS_EmptySet
  <2> QED BY <1>1, <2>1, <2>2
<1>4. ASSUME NEW U \in SUBSET S, NEW x \in U, U \ {x} \in Good
      PROVE  U \in Good
  <2>1. SumOf(U, rs) = c + SumOf(U \ {x}, rs)
    <3>1. \A y \in U : SumOf(U, rs) = SegmentCount(rs[y]) + SumOf(U \ {y}, rs)
      BY <1>2, SumOfOneMore
    <3>2. SegmentCount(rs[x]) = c
      OBVIOUS
    <3> QED BY <3>1, <3>2
  <2>2. Cardinality(U \ {x}) = Cardinality(U) - 1 /\ Cardinality(U) \in Nat
    BY <1>2, FS_RemoveElement
  <2>3. \A k \in Int : c * (k - 1) = c * k - c
    OBVIOUS
  <2>4. SumOf(U, rs) = c + (c * Cardinality(U) - c) /\ c * Cardinality(U) \in Int
    BY <1>1, <1>4, <2>1, <2>2, <2>3
  <2> QED BY <1>1, <2>4
<1>5. S \in Good
  BY <1>3, <1>4, FiniteInduction
<1> QED BY <1>1, <1>5

-----------------------------------------------------------------------------
(* Joining points.                                                         *)

LEMMA PushedPoint ==
  ASSUME NEW V, NEW points \in Seq(V), NEW point \in V
  PROVE  PushPoint(points, point) \in Seq(V) /\ Len(PushPoint(points, point)) >= 1
BY DEF PushPoint

\* What joining computes on sets of indices.
Joins(points, g) ==
  g = [s \in SUBSET DOMAIN points |-> IF s = {} THEN <<>>
                                     ELSE PushPoint(g[s \ {Max(s)}], points[Max(s)])]

\* Joined pushes the points one after the other.
LEMMA JoinedInSteps ==
  ASSUME NEW V, NEW points \in Seq(V)
  PROVE  \E h \in [0..Len(points) -> Seq(V)] :
           /\ h[0] = <<>> /\ h[Len(points)] = Joined(points)
           /\ \A i \in 1..Len(points) : h[i] = PushPoint(h[i - 1], points[i])
<1>1. PICK n \in Nat : n = Len(points) /\ DOMAIN points = 1..n
  OBVIOUS
<1>2. PICK apply : apply = [p \in (1..n) \X Seq(V) |-> PushPoint(p[2], points[p[1]])]
  OBVIOUS
<1>3. \A i \in 1..n : \A v \in Seq(V) :
        apply[<<i, v>>] = PushPoint(v, points[i]) /\ apply[<<i, v>>] \in Seq(V)
  <2> SUFFICES ASSUME NEW i \in 1..n, NEW v \in Seq(V)
               PROVE  apply[<<i, v>>] = PushPoint(v, points[i]) /\ apply[<<i, v>>] \in Seq(V)
    OBVIOUS
  <2>1. points[i] \in V
    BY <1>1
  <2>2. PushPoint(v, points[i]) \in Seq(V)
    BY <2>1, PushedPoint
  <2>3. <<i, v>> \in (1..n) \X Seq(V) /\ <<i, v>>[1] = i /\ <<i, v>>[2] = v
    OBVIOUS
  <2>4. apply[<<i, v>>] = PushPoint(v, points[i])
    BY <1>2, <2>3
  <2> QED BY <2>2, <2>4
<1>4. \A i \in 1..n : \A v \in Seq(V) : apply[<<i, v>>] \in Seq(V)
  BY <1>3
<1>5. PICK f \in [SUBSET (1..n) -> Seq(V)] :
        /\ f[{}] = <<>>
        /\ \A s \in SUBSET (1..n) : s # {} => f[s] = apply[<<Max(s), f[s \ {Max(s)}]>>]
  <2>1. <<>> \in Seq(V)
    OBVIOUS
  <2>2. Folds(n, Seq(V), <<>>, apply) # {}
    BY ONLY <1>4, <2>1, n \in Nat, FoldExists
  <2> QED BY <2>2 DEF Folds
<1>6. Joins(points, f)
  <2>1. ASSUME NEW s \in SUBSET (1..n), s # {}
        PROVE  f[s] = PushPoint(f[s \ {Max(s)}], points[Max(s)])
    <3>1. Max(s) \in 1..n /\ f[s \ {Max(s)}] \in Seq(V)
      BY <1>5, <2>1, GreatestIndex
    <3> QED BY <1>3, <1>5, <2>1, <3>1
  <2> QED BY <1>1, <1>5, <2>1 DEF Joins
<1>7. PICK g : g = CHOOSE h : Joins(points, h)
  OBVIOUS
<1>8. Joins(points, g)
  BY <1>6, <1>7
<1>9. Joined(points) = g[1..n]
  BY <1>1, <1>7 DEF Joins, Joined, FoldLeft, MapThenFoldSet
<1>10. g[{}] = <<>> /\ \A s \in SUBSET (1..n) : s # {} => g[s] = PushPoint(g[s \ {Max(s)}], points[Max(s)])
  BY <1>1, <1>8 DEF Joins
<1>13. ASSUME NEW s \in SUBSET (1..n), s # {} /\ g[s \ {Max(s)}] \in Seq(V)
       PROVE  g[s] = apply[<<Max(s), g[s \ {Max(s)}]>>]
  <2>1. Max(s) \in 1..n
    BY <1>13, GreatestIndex
  <2>2. g[s] = PushPoint(g[s \ {Max(s)}], points[Max(s)])
    BY <1>10, <1>13
  <2> QED BY <1>3, <1>13, <2>1, <2>2
<1>15. PICK h \in [0..n -> Seq(V)] :
         /\ h[0] = <<>> /\ h[n] = g[1..n]
         /\ \A i \in 1..n : h[i] = apply[<<i, h[i - 1]>>]
  <2>1. g[{}] = <<>> /\ <<>> \in Seq(V)
    BY <1>10
  <2>2. StagesOf(n, Seq(V), <<>>, apply, g[1..n]) # {}
    BY ONLY n \in Nat, <2>1, <1>13, <1>4, RecursionInSteps
  <2> QED BY <2>2 DEF StagesOf
<1>16. ASSUME NEW i \in 1..n PROVE h[i] = PushPoint(h[i - 1], points[i])
  <2>1. i - 1 \in 0..n
    OBVIOUS
  <2> QED BY <1>3, <1>15, <2>1
<1> QED BY <1>1, <1>9, <1>15, <1>16

\* Joining leaves at least one point.
LEMMA JoinedPoints ==
  ASSUME NEW V, NEW points \in Seq(V), points # <<>>
  PROVE  Joined(points) \in Seq(V) /\ Len(Joined(points)) >= 1
<1>1. PICK h \in [0..Len(points) -> Seq(V)] :
        /\ h[0] = <<>> /\ h[Len(points)] = Joined(points)
        /\ \A i \in 1..Len(points) : h[i] = PushPoint(h[i - 1], points[i])
  BY ONLY points \in Seq(V), JoinedInSteps
<1>2. PICK n \in Nat : n = Len(points) /\ n >= 1
  OBVIOUS
<1>3. h[n] = PushPoint(h[n - 1], points[n]) /\ n \in 1..n /\ n - 1 \in 0..n
  BY <1>1, <1>2
<1>4. h[n - 1] \in Seq(V) /\ points[n] \in V
  BY <1>1, <1>2, <1>3
<1>5. PushPoint(h[n - 1], points[n]) \in Seq(V) /\ Len(PushPoint(h[n - 1], points[n])) >= 1
  BY ONLY <1>4, PushedPoint
<1> QED BY <1>1, <1>2, <1>3, <1>5

LEMMA NearestIndex ==
  ASSUME NEW n \in Int, NEW role, NEW is \in SUBSET (1..n)
  PROVE  (Nearest(role, is) = 0 /\ is = {}) \/ Nearest(role, is) \in is
<1>1. IsFiniteSet(is)
  <2>1. IsFiniteSet(1..n)
    BY FS_Interval, 1 \in Int
  <2> QED BY ONLY <2>1, is \in SUBSET (1..n), FS_Subset
<1>2. is \in SUBSET Int
  OBVIOUS
<1>3. is # {} => Max(is) \in is /\ Min(is) \in is
  BY <1>1, <1>2, Extremes
<1> QED BY <1>3 DEF Nearest

\* A route that is spliced is a route.
LEMMA SplicedRoute ==
  ASSUME NEW V, NEW route \in Seq(V), NEW role, NEW i \in 1..(Len(route) - 1),
         NEW approach \in Seq(V), approach # <<>>
  PROVE  Spliced(route, role, i, approach) \in Seq(V) /\ Len(Spliced(route, role, i, approach)) >= 1
<1>1. CASE role = "input"
  <2>1. PICK rest \in Seq(V) : rest = SubSeq(route, i + 1, Len(route))
    <3>1. i + 1 \in Int /\ Len(route) \in Int /\ \A j \in (i + 1)..Len(route) : route[j] \in V
      OBVIOUS
    <3>2. SubSeq(route, i + 1, Len(route)) \in Seq(V)
      BY ONLY <3>1, SubSeqProperties
    <3> QED BY <3>2
  <2>2. approach \o rest \in Seq(V) /\ approach \o rest # <<>>
    <3>1. Len(approach) >= 1 /\ Len(approach \o rest) = Len(approach) + Len(rest)
      OBVIOUS
    <3>2. approach \o rest \in Seq(V)
      OBVIOUS
    <3> QED BY <3>1, <3>2
  <2>3. Joined(approach \o rest) \in Seq(V) /\ Len(Joined(approach \o rest)) >= 1
    BY ONLY <2>2, JoinedPoints
  <2> QED BY <1>1, <2>1, <2>3 DEF Spliced
<1>2. CASE role # "input"
  <2>1. PICK rest \in Seq(V) : rest = SubSeq(route, 1, i) /\ Len(rest) = i
    <3>1. 1 \in Int /\ i \in Int /\ 1 <= i /\ \A j \in 1..i : route[j] \in V
      OBVIOUS
    <3>2. PICK rest : rest = SubSeq(route, 1, i)
      OBVIOUS
    <3>3. rest \in Seq(V) /\ Len(rest) = i - 1 + 1
      BY ONLY <3>1, <3>2, SubSeqProperties
    <3>4. i - 1 + 1 = i
      BY <3>1
    <3> QED BY <3>2, <3>3, <3>4
  <2>2. PICK back \in Seq(V) : back = Reverse(approach)
    <3>1. PICK k \in Nat : k = Len(approach) /\ \A j \in 1..k : approach[j] \in V
      OBVIOUS
    <3>2. [j \in 1..k |-> approach[(k - j) + 1]] \in Seq(V)
      <4>1. \A j \in 1..k : approach[(k - j) + 1] \in V
        BY <3>1
      <4> QED BY <4>1
    <3> QED BY <3>1, <3>2 DEF Reverse
  <2>3. rest \o back \in Seq(V) /\ rest \o back # <<>>
    <3>1. Len(rest) >= 1 /\ Len(rest \o back) = Len(rest) + Len(back) /\ Len(back) \in Nat
      BY <2>1
    <3>2. rest \o back \in Seq(V)
      OBVIOUS
    <3> QED BY <3>1, <3>2
  <2>4. Joined(rest \o back) \in Seq(V) /\ Len(Joined(rest \o back)) >= 1
    BY ONLY <2>3, JoinedPoints
  <2> QED BY <1>2, <2>1, <2>2, <2>4 DEF Spliced
<1> QED BY <1>1, <1>2

-----------------------------------------------------------------------------
(* Bundles and routes.                                                     *)

Points == Int \X Int

RoutesOf(E) == {rs \in [E -> Seq(Points)] : \A e \in E : Len(rs[e]) >= 1}

\* A bundle whose members are wires of E.
BundleOver(E, g, b) ==
  /\ b.role \in Roles /\ At(g, b) \in Points /\ b.nodeWidth \in Int
  /\ Len(b.members) \in Nat /\ DOMAIN b.members = 1..Len(b.members)
  /\ \A k \in DOMAIN b.members : b.members[k].edge \in E
  /\ \A k, l \in DOMAIN b.members : b.members[k].edge = b.members[l].edge => k = l

GraphOver(E, g) ==
  /\ Len(g.bundles) \in Nat /\ DOMAIN g.bundles = 1..Len(g.bundles)
  /\ \A i \in DOMAIN g.bundles : BundleOver(E, g, g.bundles[i])

LEMMA MembersAreEdges ==
  ASSUME NEW E, NEW g, NEW b, BundleOver(E, g, b)
  PROVE  /\ IsFiniteSet(MembersOf(b)) /\ IsFiniteSet(MemberEdges(b))
         /\ MemberEdges(b) \in SUBSET E
         /\ Cardinality(MemberEdges(b)) = Len(b.members)
         /\ MemberEdges(b) = {b.members[k].edge : k \in 1..Len(b.members)}
<1>1. PICK n \in Nat : n = Len(b.members) /\ DOMAIN b.members = 1..n
  BY DEF BundleOver
<1>2. IsFiniteSet(1..n) /\ Cardinality(1..n) = n
  <2>1. 1 \in Int /\ n \in Int /\ (1 > n => n = 0) /\ n - 1 + 1 = n
    OBVIOUS
  <2> QED BY <2>1, FS_Interval
<1>3. MembersOf(b) = {b.members[k] : k \in 1..n}
  BY <1>1 DEF MembersOf, ToSet
<1>4. IsFiniteSet(MembersOf(b))
  BY ONLY <1>2, <1>3, ImageIsFinite
<1>5. PICK edges : edges = [k \in 1..n |-> b.members[k].edge]
  OBVIOUS
<1>6. MemberEdges(b) = {edges[k] : k \in 1..n}
  BY <1>3, <1>5 DEF MemberEdges
<1>7. \A k, l \in 1..n : edges[k] = edges[l] => k = l
  BY <1>1, <1>5 DEF BundleOver
<1>8. IsFiniteSet(MemberEdges(b)) /\ Cardinality(MemberEdges(b)) = Cardinality(1..n)
  <2>1. PICK M : M = MemberEdges(b)
    OBVIOUS
  <2>2. M = {edges[k] : k \in 1..n}
    BY <1>6, <2>1
  <2>3. /\ IsFiniteSet(M)
        /\ (\A k, l \in 1..n : edges[k] = edges[l] => k = l) => Cardinality(M) = Cardinality(1..n)
    BY ONLY <1>2, <2>2, ImageIsFinite
  <2> QED BY <1>7, <2>1, <2>3
<1>9. MemberEdges(b) \in SUBSET E
  <2>1. \A k \in 1..n : edges[k] \in E
    BY <1>1, <1>5 DEF BundleOver
  <2> QED BY <1>6, <2>1
<1> QED BY <1>1, <1>2, <1>4, <1>5, <1>6, <1>8, <1>9

LEMMA LocalPlaces ==
  ASSUME NEW E, NEW g, NEW b, BundleOver(E, g, b)
  PROVE  /\ Lanes(b) \in Nat /\ LocalX(g, b) \in Int
         /\ \A m \in MembersOf(b) : Lane(b, m) \in Nat /\ LocalTap(g, b, m) \in Points
<1>1. IsFiniteSet(MembersOf(b))
  BY MembersAreEdges
<1>2. PICK slots : slots = [m \in MembersOf(b) |-> m.slots]
  OBVIOUS
<1>3. Lanes(b) \in Nat
  <2>1. PICK T : T = {slots[m] : m \in MembersOf(b)}
    OBVIOUS
  <2>2. IsFiniteSet(T)
    BY ONLY <1>1, <2>1, ImageIsFinite
  <2>3. Cardinality(T) \in Nat
    BY ONLY <2>2, FS_CardinalityType
  <2>4. T = {m.slots : m \in MembersOf(b)}
    BY <1>2, <2>1
  <2> QED BY <2>3, <2>4 DEF Lanes
<1>4. ASSUME NEW m \in MembersOf(b) PROVE Lane(b, m) \in Nat
  <2>1. PICK S \in SUBSET MembersOf(b) : S = {k \in MembersOf(b) : Min(k.slots) < Min(m.slots)}
    OBVIOUS
  <2>2. IsFiniteSet(S)
    BY ONLY <1>1, S \in SUBSET MembersOf(b), FS_Subset
  <2>3. PICK T : T = {slots[n] : n \in S}
    OBVIOUS
  <2>4. IsFiniteSet(T)
    BY ONLY <2>2, <2>3, ImageIsFinite
  <2>5. Cardinality(T) \in Nat
    BY ONLY <2>4, FS_CardinalityType
  <2>6. T = {n.slots : n \in S}
    BY <1>2, <2>3
  <2> QED BY <2>1, <2>5, <2>6 DEF Lane
<1>5. Outward(b) \in Int /\ At(g, b)[1] \in Int /\ At(g, b)[2] \in Int
  BY DEF BundleOver, Points, Outward
<1>6. RailDepth \in Int /\ Pitch \in Int /\ Pitch \div 2 \in Int
  BY BundleAssumption
<1>7. LocalX(g, b) \in Int
  <2>1. At(g, b)[1] + RailDepth \in Int /\ At(g, b)[1] - RailDepth \in Int
    BY <1>5, <1>6
  <2> QED BY <2>1, <1>5, <1>6 DEF LocalX, Outward
<1>8. ASSUME NEW m \in MembersOf(b) PROVE LocalTap(g, b, m) \in Points
  <2>1. 2 * Lane(b, m) - (Lanes(b) - 1) \in Int
    BY <1>3, <1>4
  <2>2. \A i, j \in Int : i * j \in Int
    OBVIOUS
  <2>3. (2 * Lane(b, m) - (Lanes(b) - 1)) * (Pitch \div 2) \in Int
    BY ONLY <1>6, <2>1, <2>2
  <2>4. At(g, b)[2] + (2 * Lane(b, m) - (Lanes(b) - 1)) * (Pitch \div 2) \in Int
    BY <1>5, <2>3
  <2> QED BY <1>7, <2>4 DEF LocalTap, Points
<1> QED BY <1>3, <1>4, <1>7, <1>8

\* What is drawn has a place, and a point for each member.
IsDrawnBundle(b, d) == d.x \in Int /\ d.taps \in [MemberEdges(b) -> Points]

LEMMA LocalIsDrawn ==
  ASSUME NEW E, NEW g, NEW b, BundleOver(E, g, b)
  PROVE  /\ IsDrawnBundle(b, LocalGeometry(g, b))
         /\ LocalGeometry(g, b).x = LocalX(g, b)
         /\ ~ Interior(g, b, LocalGeometry(g, b))
<1>1. ASSUME NEW e \in MemberEdges(b)
      PROVE  LocalTap(g, b, CHOOSE m \in MembersOf(b) : m.edge = e) \in Points
  <2>1. \E m \in MembersOf(b) : m.edge = e
    BY DEF MemberEdges
  <2>2. (CHOOSE m \in MembersOf(b) : m.edge = e) \in MembersOf(b)
    BY <2>1
  <2> QED BY <2>2, LocalPlaces
<1>2. LocalX(g, b) \in Int
  BY LocalPlaces
<1>3. LocalGeometry(g, b).x = LocalX(g, b)
  BY DEF LocalGeometry, Extent
<1>4. LocalGeometry(g, b).taps = [e \in MemberEdges(b) |-> LocalTap(g, b, CHOOSE m \in MembersOf(b) : m.edge = e)]
  BY DEF LocalGeometry, Extent
<1>5. ~ Interior(g, b, LocalGeometry(g, b))
  <2>1. At(g, b)[1] \in Int
    BY DEF BundleOver, Points
  <2>2. RailDepth \in Nat /\ Pitch \in Nat \ {0}
    BY BundleAssumption
  <2> QED BY <1>3, <2>1, <2>2 DEF Interior, SpineLength, LocalX, Outward
<1> QED BY <1>1, <1>2, <1>3, <1>4, <1>5 DEF IsDrawnBundle

LEMMA TrunkIndex ==
  ASSUME NEW route \in Seq(Points), NEW role, NEW x
  PROVE  /\ TrunkSegment(route, role, x) = 0 \/ TrunkSegment(route, role, x) \in 1..(Len(route) - 1)
         /\ CorridorSegment(route, role, x) = 0 \/ CorridorSegment(route, role, x) \in 1..(Len(route) - 1)
<1>1. PICK n \in Int : n = Len(route) - 1
  OBVIOUS
<1>2. PICK trunks \in SUBSET (1..n) : trunks = {i \in 1..n : Trunk(Segment(route, i), role, x)}
  OBVIOUS
<1>3. PICK turns \in SUBSET (1..n) : turns = {i \in 1..n : MeetsUpright(Segment(route, i), x)}
  OBVIOUS
<1>4. /\ Nearest(role, trunks) = 0 \/ Nearest(role, trunks) \in trunks
      /\ Nearest(role, turns) = 0 \/ Nearest(role, turns) \in turns
  BY NearestIndex
<1> QED BY <1>1, <1>2, <1>3, <1>4 DEF TrunkSegment, CorridorSegment

LEMMA BuiltIsDrawn ==
  ASSUME NEW E, NEW g, NEW b, BundleOver(E, g, b), NEW rs \in RoutesOf(E), NEW x, x \in Int \/ x = Nothing
  PROVE  /\ IsDrawnBundle(b, BuildGeometry(g, b, rs, x))
         /\ Interior(g, b, BuildGeometry(g, b, rs, x)) => x # Nothing /\ BuildGeometry(g, b, rs, x).x = x
<1>1. CASE x # Nothing /\ \A e \in MemberEdges(b) : TrunkSegment(rs[e], b.role, x) # 0
  <2>1. PICK taps : taps = [e \in MemberEdges(b) |-> <<x, rs[e][TrunkSegment(rs[e], b.role, x)][2]>>]
    OBVIOUS
  <2>2. BuildGeometry(g, b, rs, x) = Extent(g, b, x, taps)
    BY <1>1, <2>1 DEF BuildGeometry
  <2>3. ASSUME NEW e \in MemberEdges(b) PROVE taps[e] \in Points
    <3>1. e \in E
      BY MembersAreEdges
    <3>2. rs[e] \in Seq(Points)
      BY <3>1 DEF RoutesOf
    <3>3. TrunkSegment(rs[e], b.role, x) \in 1..(Len(rs[e]) - 1)
      BY <1>1, <3>2, TrunkIndex
    <3>4. rs[e][TrunkSegment(rs[e], b.role, x)] \in Points
      BY <3>2, <3>3
    <3>5. rs[e][TrunkSegment(rs[e], b.role, x)][2] \in Int
      BY <3>4 DEF Points
    <3> QED BY <1>1, <2>1, <3>5 DEF Points
  <2>4. taps \in [MemberEdges(b) -> Points]
    BY <2>1, <2>3
  <2>5. Extent(g, b, x, taps).x = x /\ Extent(g, b, x, taps).taps = taps
    BY DEF Extent
  <2> QED BY <1>1, <2>2, <2>4, <2>5 DEF IsDrawnBundle
<1>2. CASE ~ (x # Nothing /\ \A e \in MemberEdges(b) : TrunkSegment(rs[e], b.role, x) # 0)
  <2>1. BuildGeometry(g, b, rs, x) = LocalGeometry(g, b)
    BY <1>2 DEF BuildGeometry
  <2> QED BY <2>1, LocalIsDrawn
<1> QED BY <1>1, <1>2

-----------------------------------------------------------------------------
(* Depths of the local collectors.                                         *)

OffsetStates == [furthest : [Roles -> Int \cup {Nothing}], offsets : Seq(Int)]

\* What CorridorOffsets makes of its state at one bundle.
ReservedAfter(sofar, b) ==
  LET depth == b.nodeWidth + RailDepth
      furthest == sofar.furthest[b.role]
      offset == IF furthest = Nothing THEN 0 ELSE Max({furthest - depth, 0})
      last == depth + offset + Lanes(b) * Pitch
  IN  [furthest |-> [sofar.furthest EXCEPT
                       ![b.role] = IF @ = Nothing THEN last ELSE Max({@, last})],
       offsets |-> Append(sofar.offsets, offset)]

LEMMA ReservedState ==
  ASSUME NEW E, NEW g, NEW b, BundleOver(E, g, b), NEW sofar \in OffsetStates
  PROVE  /\ ReservedAfter(sofar, b) \in OffsetStates
         /\ Len(ReservedAfter(sofar, b).offsets) = Len(sofar.offsets) + 1
<1>1. PICK depth : depth = b.nodeWidth + RailDepth
  OBVIOUS
<1>2. PICK furthest : furthest = sofar.furthest[b.role]
  OBVIOUS
<1>3. PICK offset : offset = IF furthest = Nothing THEN 0 ELSE Max({furthest - depth, 0})
  OBVIOUS
<1>4. PICK last : last = depth + offset + Lanes(b) * Pitch
  OBVIOUS
<1>5. PICK reached : reached = IF furthest = Nothing THEN last ELSE Max({furthest, last})
  OBVIOUS
<1>6. depth \in Int /\ Lanes(b) * Pitch \in Int
  <2>1. b.nodeWidth \in Int /\ RailDepth \in Int /\ Pitch \in Int /\ Lanes(b) \in Int
    <3>1. Lanes(b) \in Nat
      BY LocalPlaces
    <3>2. b.nodeWidth \in Int
      BY DEF BundleOver
    <3> QED BY <3>1, <3>2, BundleAssumption
  <2>2. \A i, j \in Int : i * j \in Int
    OBVIOUS
  <2>3. Lanes(b) * Pitch \in Int
    BY ONLY <2>1, <2>2
  <2> QED BY <1>1, <2>1, <2>3
<1>7. b.role \in Roles /\ sofar.furthest \in [Roles -> Int \cup {Nothing}] /\ sofar.offsets \in Seq(Int)
  BY DEF BundleOver, OffsetStates
<1>8. furthest = Nothing \/ furthest \in Int
  BY <1>2, <1>7
<1>9. offset \in Int
  <2>1. CASE furthest = Nothing
    BY <1>3, <2>1
  <2>2. CASE furthest # Nothing
    <3>1. furthest - depth \in Int /\ 0 \in Int
      BY <1>6, <1>8, <2>2
    <3>2. Max({furthest - depth, 0}) \in Int
      BY ONLY <3>1, ExtremesOfFew
    <3> QED BY <1>3, <2>2, <3>2
  <2> QED BY <2>1, <2>2
<1>10. last \in Int
  BY <1>4, <1>6, <1>9
<1>11. reached \in Int
  <2>1. CASE furthest = Nothing
    BY <1>5, <1>10, <2>1
  <2>2. CASE furthest # Nothing
    <3>1. furthest \in Int
      BY <1>8, <2>2
    <3>2. Max({furthest, last}) \in Int
      BY ONLY <1>10, <3>1, ExtremesOfFew
    <3> QED BY <1>5, <2>2, <3>2
  <2> QED BY <2>1, <2>2
<1>12. ReservedAfter(sofar, b) = [furthest |-> [sofar.furthest EXCEPT ![b.role] = reached],
                                  offsets |-> Append(sofar.offsets, offset)]
  BY <1>1, <1>2, <1>3, <1>4, <1>5, <1>7 DEF ReservedAfter
<1>13. [sofar.furthest EXCEPT ![b.role] = reached] \in [Roles -> Int \cup {Nothing}]
  BY <1>7, <1>11
<1>14. Append(sofar.offsets, offset) \in Seq(Int) /\ Len(Append(sofar.offsets, offset)) = Len(sofar.offsets) + 1
  BY <1>7, <1>9
<1> QED BY <1>12, <1>13, <1>14 DEF OffsetStates

Reservations(bundles, base, g) ==
  g = [s \in SUBSET DOMAIN bundles |-> IF s = {} THEN base
                                      ELSE ReservedAfter(g[s \ {Max(s)}], bundles[Max(s)])]

\* Every bundle has an offset.
LEMMA OffsetsAreNumbers ==
  ASSUME NEW E, NEW g, GraphOver(E, g)
  PROVE  CorridorOffsets(g) \in Seq(Int) /\ Len(CorridorOffsets(g)) = Len(g.bundles)
<1>1. PICK n \in Nat : n = Len(g.bundles) /\ DOMAIN g.bundles = 1..n
  BY DEF GraphOver
<1>2. PICK base : base = [furthest |-> [r \in Roles |-> Nothing], offsets |-> <<>>]
  OBVIOUS
<1>3. base \in OffsetStates
  BY <1>2 DEF OffsetStates
<1>4. PICK apply : apply = [p \in (1..n) \X OffsetStates |-> ReservedAfter(p[2], g.bundles[p[1]])]
  OBVIOUS
<1>5. ASSUME NEW i \in 1..n, NEW v \in OffsetStates
      PROVE  /\ apply[<<i, v>>] = ReservedAfter(v, g.bundles[i])
             /\ apply[<<i, v>>] \in OffsetStates
             /\ Len(apply[<<i, v>>].offsets) = Len(v.offsets) + 1
  <2>1. BundleOver(E, g, g.bundles[i])
    BY <1>1 DEF GraphOver
  <2>2. <<i, v>> \in (1..n) \X OffsetStates /\ <<i, v>>[1] = i /\ <<i, v>>[2] = v
    OBVIOUS
  <2>3. apply[<<i, v>>] = ReservedAfter(v, g.bundles[i])
    BY <1>4, <2>2
  <2> QED BY <2>1, <2>3, ReservedState
<1>6. \A i \in 1..n : \A v \in OffsetStates : apply[<<i, v>>] \in OffsetStates
  BY <1>5
<1>7. PICK f \in [SUBSET (1..n) -> OffsetStates] :
        /\ f[{}] = base
        /\ \A s \in SUBSET (1..n) : s # {} => f[s] = apply[<<Max(s), f[s \ {Max(s)}]>>]
  <2>1. Folds(n, OffsetStates, base, apply) # {}
    BY ONLY <1>3, <1>6, n \in Nat, FoldExists
  <2> QED BY <2>1 DEF Folds
<1>8. Reservations(g.bundles, base, f)
  <2>1. ASSUME NEW s \in SUBSET (1..n), s # {}
        PROVE  f[s] = ReservedAfter(f[s \ {Max(s)}], g.bundles[Max(s)])
    <3>1. Max(s) \in 1..n /\ f[s \ {Max(s)}] \in OffsetStates
      BY <1>7, <2>1, GreatestIndex
    <3> QED BY <1>5, <1>7, <2>1, <3>1
  <2> QED BY <1>1, <1>7, <2>1 DEF Reservations
<1>9. PICK h : h = CHOOSE f2 : Reservations(g.bundles, base, f2)
  OBVIOUS
<1>10. Reservations(g.bundles, base, h)
  BY <1>8, <1>9
<1>11. CorridorOffsets(g) = h[1..n].offsets
  BY <1>1, <1>2, <1>9 DEF Reservations, ReservedAfter, CorridorOffsets, FoldLeft, MapThenFoldSet
<1>12. h[{}] = base /\ \A s \in SUBSET (1..n) : s # {} => h[s] = ReservedAfter(h[s \ {Max(s)}], g.bundles[Max(s)])
  BY <1>1, <1>10 DEF Reservations
<1>13. ASSUME NEW s \in SUBSET (1..n), s # {} /\ h[s \ {Max(s)}] \in OffsetStates
       PROVE  h[s] = apply[<<Max(s), h[s \ {Max(s)}]>>]
  <2>1. Max(s) \in 1..n
    BY <1>13, GreatestIndex
  <2>2. h[s] = ReservedAfter(h[s \ {Max(s)}], g.bundles[Max(s)])
    BY <1>12, <1>13
  <2> QED BY <1>5, <1>13, <2>1, <2>2
<1>14. PICK k \in [0..n -> OffsetStates] :
         /\ k[0] = base /\ k[n] = h[1..n]
         /\ \A i \in 1..n : k[i] = apply[<<i, k[i - 1]>>]
  <2>1. h[{}] = base
    BY <1>12
  <2>2. StagesOf(n, OffsetStates, base, apply, h[1..n]) # {}
    BY ONLY n \in Nat, <2>1, <1>3, <1>13, <1>6, RecursionInSteps
  <2> QED BY <2>2 DEF StagesOf
<1>15. PICK Good : Good = {i \in Nat : i \in 0..n => Len(k[i].offsets) = i}
  OBVIOUS
<1>16. 0 \in Good
  BY <1>2, <1>14, <1>15
<1>17. ASSUME NEW i \in Nat, i \in Good PROVE i + 1 \in Good
  <2> SUFFICES ASSUME i + 1 \in 0..n PROVE Len(k[i + 1].offsets) = i + 1
    BY <1>15
  <2>1. i \in 0..n /\ i + 1 \in 1..n /\ (i + 1) - 1 = i
    OBVIOUS
  <2>2. k[i] \in OffsetStates /\ Len(k[i].offsets) = i
    BY <1>14, <1>15, <1>17, <2>1
  <2>3. k[i + 1] = apply[<<i + 1, k[i]>>]
    BY <1>14, <2>1
  <2> QED BY <1>5, <2>1, <2>2, <2>3
<1>18. \A i \in Nat : i \in Good
  BY ONLY <1>16, <1>17, CountingUp
<1>19. Len(k[n].offsets) = n /\ k[n] \in OffsetStates
  BY <1>14, <1>15, <1>18
<1> QED BY <1>1, <1>11, <1>14, <1>19 DEF OffsetStates

LEMMA CorridorIsNumber ==
  ASSUME NEW E, NEW g, GraphOver(E, g), NEW i \in DOMAIN g.bundles, NEW m \in MembersOf(g.bundles[i])
  PROVE  CorridorX(g, CorridorOffsets(g), i, m) \in Int
<1>1. PICK b : b = g.bundles[i] /\ BundleOver(E, g, b)
  BY DEF GraphOver
<1>2. PICK offsets : offsets = CorridorOffsets(g)
  OBVIOUS
<1>3. offsets[i] \in Int
  <2>1. offsets \in Seq(Int) /\ Len(offsets) = Len(g.bundles)
    BY <1>2, OffsetsAreNumbers
  <2>2. i \in 1..Len(offsets)
    BY <2>1 DEF GraphOver
  <2> QED BY <2>1, <2>2
<1>4. Lane(b, m) \in Nat
  BY <1>1, LocalPlaces
<1>5. RailDepth \in Int /\ Pitch \in Int
  BY BundleAssumption
<1>6. PICK depth \in Int : depth = RailDepth + offsets[i] + (Lane(b, m) + 1) * Pitch
  <2>1. \A k, l \in Int : k * l \in Int
    OBVIOUS
  <2>2. Lane(b, m) + 1 \in Int
    BY <1>4
  <2>3. (Lane(b, m) + 1) * Pitch \in Int
    BY ONLY <1>5, <2>1, <2>2
  <2> QED BY <1>3, <1>5, <2>3
<1>7. At(g, b)[1] \in Int /\ (Outward(b) = 1 \/ Outward(b) = -1)
  BY <1>1 DEF BundleOver, Points, Outward
<1>8. At(g, b)[1] + Outward(b) * depth \in Int
  BY <1>7
<1> QED BY <1>1, <1>2, <1>6, <1>8 DEF CorridorX

\* A member led to its tap has a route again.
IsRoute(route) == route \in Seq(Points) /\ Len(route) >= 1

LEMMA LedMemberHasRoute ==
  ASSUME NEW E, NEW g, GraphOver(E, g), NEW i \in DOMAIN g.bundles, NEW m \in MembersOf(g.bundles[i]),
         NEW d, IsDrawnBundle(g.bundles[i], d), NEW route \in Seq(Points),
         Rewritten(g, i, d, route, m) # Nothing
  PROVE  IsRoute(Rewritten(g, i, d, route, m))
<1>1. PICK b : b = g.bundles[i]
  OBVIOUS
<1>2. PICK tap : tap = d.taps[m.edge]
  OBVIOUS
<1>3. tap \in Points /\ tap[1] \in Int /\ tap[2] \in Int
  <2>1. m.edge \in MemberEdges(b)
    BY <1>1 DEF MemberEdges
  <2>2. tap \in Points
    BY <1>1, <1>2, <2>1 DEF IsDrawnBundle
  <2> QED BY <2>2 DEF Points
<1>4. CASE Interior(g, b, d)
  <2>1. PICK trunk : trunk = TrunkSegment(route, b.role, tap[1])
    OBVIOUS
  <2>2. Rewritten(g, i, d, route, m) = TappedTrunk(route, b.role, tap, trunk)
    BY <1>1, <1>2, <1>4, <2>1 DEF Rewritten
  <2>3. trunk # 0 /\ TappedTrunk(route, b.role, tap, trunk) = Spliced(route, b.role, trunk, <<tap>>)
    BY <2>2 DEF TappedTrunk
  <2>4. trunk \in 1..(Len(route) - 1)
    BY <2>1, <2>3, TrunkIndex
  <2>5. <<tap>> \in Seq(Points) /\ <<tap>> # <<>>
    BY <1>3
  <2>6. PICK spliced : spliced = Spliced(route, b.role, trunk, <<tap>>)
    OBVIOUS
  <2>7. spliced \in Seq(Points) /\ Len(spliced) >= 1
    BY ONLY <2>4, <2>5, <2>6, route \in Seq(Points), SplicedRoute
  <2> QED BY <2>2, <2>3, <2>6, <2>7 DEF IsRoute
<1>5. CASE ~ Interior(g, b, d)
  <2>1. PICK x \in Int : x = CorridorX(g, CorridorOffsets(g), i, m)
    BY CorridorIsNumber
  <2>2. PICK turn : turn = CorridorSegment(route, b.role, x)
    OBVIOUS
  <2>3. Rewritten(g, i, d, route, m) = TappedCorridor(route, b.role, tap, x, turn)
    BY <1>1, <1>2, <1>5, <2>1, <2>2 DEF Rewritten, TappedAt
  <2>4. PICK approach : approach = <<tap, <<x, tap[2]>>, CorridorPoint(route, b.role, turn, x)>>
    OBVIOUS
  <2>5. turn # 0 /\ Rewritten(g, i, d, route, m) = Spliced(route, b.role, turn, approach)
    BY <2>3, <2>4 DEF TappedCorridor
  <2>6. turn \in 1..(Len(route) - 1)
    BY <2>2, <2>5, TrunkIndex
  <2>7. CorridorPoint(route, b.role, turn, x) \in Points
    <3>1. route[turn] \in Points /\ route[turn + 1] \in Points
      BY <2>6
    <3>2. <<x, route[turn][2]>> \in Points
      BY <3>1 DEF Points
    <3> QED BY <3>1, <3>2 DEF CorridorPoint
  <2>8. <<x, tap[2]>> \in Points
    BY <1>3 DEF Points
  <2>9. approach \in Seq(Points) /\ approach # <<>>
    BY <1>3, <2>4, <2>7, <2>8
  <2>10. PICK spliced : spliced = Spliced(route, b.role, turn, approach)
    OBVIOUS
  <2>11. spliced \in Seq(Points) /\ Len(spliced) >= 1
    BY ONLY <2>6, <2>9, <2>10, route \in Seq(Points), SplicedRoute
  <2> QED BY <2>5, <2>10, <2>11 DEF IsRoute
<1> QED BY <1>4, <1>5

\* Rewriting leaves routes, and those of other wires as they are.
LEMMA RoutesAreLed ==
  ASSUME NEW E, NEW g, GraphOver(E, g), NEW i \in DOMAIN g.bundles,
         NEW d, IsDrawnBundle(g.bundles[i], d), NEW rs \in RoutesOf(E)
  PROVE  /\ RewriteMemberRoutes(g, i, d, rs) \in RoutesOf(E)
         /\ \A e \in E \ MemberEdges(g.bundles[i]) : RewriteMemberRoutes(g, i, d, rs)[e] = rs[e]
<1>1. PICK unled : unled = Unled(g, i, d, rs)
  OBVIOUS
<1>2. PICK members : members = g.bundles[i].members
  OBVIOUS
<1>3. PICK led : led = {members[k] : k \in {k \in DOMAIN members : \A j \in unled : k < j}}
  OBVIOUS
<1>4. PICK qs : qs = [e \in DOMAIN rs |->
                       IF \E m \in led : m.edge = e
                       THEN Rewritten(g, i, d, rs[e], CHOOSE m \in led : m.edge = e)
                       ELSE rs[e]]
  OBVIOUS
<1>5. RewriteMemberRoutes(g, i, d, rs) = qs
  BY <1>1, <1>2, <1>3, <1>4 DEF RewriteMemberRoutes, RewrittenBefore
<1>6. DOMAIN rs = E /\ \A e \in E : IsRoute(rs[e])
  BY DEF RoutesOf, IsRoute
<1>7. ASSUME NEW m \in led
      PROVE  /\ m \in MembersOf(g.bundles[i]) /\ m.edge \in MemberEdges(g.bundles[i])
             /\ Rewritten(g, i, d, rs[m.edge], m) # Nothing
  <2>1. PICK k \in DOMAIN members : m = members[k] /\ \A j \in unled : k < j
    BY <1>3
  <2>2. m \in MembersOf(g.bundles[i])
    BY <1>2, <2>1 DEF MembersOf, ToSet
  <2>3. k \notin unled
    <3>1. k \in Int
      BY <1>2, <2>1 DEF GraphOver, BundleOver
    <3> QED BY <2>1, <3>1
  <2>4. Rewritten(g, i, d, rs[m.edge], m) # Nothing
    BY <1>1, <1>2, <2>1, <2>3 DEF Unled
  <2> QED BY <2>2, <2>4 DEF MemberEdges
<1>8. ASSUME NEW e \in E PROVE IsRoute(qs[e])
  <2>1. CASE \E m \in led : m.edge = e
    <3>1. PICK m : m = CHOOSE n \in led : n.edge = e
      OBVIOUS
    <3>2. m \in led /\ m.edge = e
      BY <2>1, <3>1
    <3>3. qs[e] = Rewritten(g, i, d, rs[e], m)
      BY <1>4, <1>6, <2>1, <3>1
    <3>4. m \in MembersOf(g.bundles[i]) /\ Rewritten(g, i, d, rs[e], m) # Nothing
      BY <1>7, <3>2
    <3>5. rs[e] \in Seq(Points)
      BY <1>6 DEF IsRoute
    <3> QED BY <3>3, <3>4, <3>5, LedMemberHasRoute
  <2>2. CASE ~ \E m \in led : m.edge = e
    BY <1>4, <1>6, <2>2
  <2> QED BY <2>1, <2>2
<1>9. ASSUME NEW e \in E \ MemberEdges(g.bundles[i]) PROVE qs[e] = rs[e]
  <2>1. ~ \E m \in led : m.edge = e
    BY <1>7, <1>9
  <2> QED BY <1>4, <1>6, <2>1
<1>10. qs \in RoutesOf(E)
  <2>1. DOMAIN qs = E /\ qs = [e \in DOMAIN qs |-> qs[e]]
    BY <1>4, <1>6
  <2>2. \A e \in E : qs[e] \in Seq(Points) /\ Len(qs[e]) >= 1
    BY <1>8 DEF IsRoute
  <2> QED BY <2>1, <2>2 DEF RoutesOf
<1> QED BY <1>5, <1>9, <1>10

-----------------------------------------------------------------------------
(* Planned places.                                                         *)

LEMMA ImageExtremes ==
  ASSUME NEW S, IsFiniteSet(S), S # {}, NEW f \in [S -> Int], NEW M, M = {f[x] : x \in S}
  PROVE  Max(M) \in Int /\ Min(M) \in Int
<1>1. IsFiniteSet(M)
  BY ImageIsFinite
<1>2. M \in SUBSET Int /\ M # {}
  OBVIOUS
<1>3. Max(M) \in M /\ Min(M) \in M
  BY ONLY <1>1, <1>2, Extremes
<1> QED BY <1>2, <1>3

LEMMA ClampIsNumber ==
  ASSUME NEW x \in Int, NEW low \in Int, NEW high \in Int
  PROVE  Clamp(x, low, high) \in Int
<1>1. PICK y : y = Max({x, low})
  OBVIOUS
<1>2. y \in Int
  BY <1>1, ExtremesOfFew
<1>3. Min({y, high}) \in Int
  BY ONLY <1>2, high \in Int, ExtremesOfFew
<1> QED BY <1>1, <1>3 DEF Clamp

LEMMA FarEndIsNumber ==
  ASSUME NEW E, NEW g, NEW b, BundleOver(E, g, b), NEW rs \in RoutesOf(E), NEW e \in MemberEdges(b)
  PROVE  FarEnd(b, rs[e]) \in Int
<1>1. e \in E
  BY MembersAreEdges
<1>2. rs[e] \in Seq(Points) /\ Len(rs[e]) >= 1
  BY <1>1 DEF RoutesOf
<1>3. rs[e][1] \in Points /\ rs[e][Len(rs[e])] \in Points
  BY <1>2
<1>4. rs[e][1][1] \in Int /\ rs[e][Len(rs[e])][1] \in Int
  BY <1>3 DEF Points
<1>5. Reserve \in Int
  BY BundleAssumption
<1> QED BY <1>4, <1>5 DEF FarEnd, RouteEnd

LEMMA CorridorsAreNumbers ==
  ASSUME NEW E, NEW g, GraphOver(E, g), NEW role, NEW edge
  PROVE  /\ FallbackCorridors(g, CorridorOffsets(g), role, edge) \in SUBSET Int
         /\ IsFiniteSet(FallbackCorridors(g, CorridorOffsets(g), role, edge))
<1>1. PICK offsets : offsets = CorridorOffsets(g)
  OBVIOUS
<1>2. PICK n \in Nat : n = Len(g.bundles) /\ DOMAIN g.bundles = 1..n
  BY DEF GraphOver
<1>3. PICK with : with = [i \in 1..n |->
                    {CorridorX(g, offsets, i, m) : m \in {k \in MembersOf(g.bundles[i]) : k.edge = edge}}]
  OBVIOUS
<1>4. ASSUME NEW i \in 1..n PROVE with[i] \in SUBSET Int /\ IsFiniteSet(with[i])
  <2>1. BundleOver(E, g, g.bundles[i])
    BY <1>2 DEF GraphOver
  <2>2. IsFiniteSet(MembersOf(g.bundles[i]))
    BY <2>1, MembersAreEdges
  <2>3. PICK S \in SUBSET MembersOf(g.bundles[i]) : S = {k \in MembersOf(g.bundles[i]) : k.edge = edge}
    OBVIOUS
  <2>4. IsFiniteSet(S)
    BY ONLY <2>2, S \in SUBSET MembersOf(g.bundles[i]), FS_Subset
  <2>5. PICK x : x = [m \in S |-> CorridorX(g, offsets, i, m)]
    OBVIOUS
  <2>6. with[i] = {x[m] : m \in S}
    BY <1>3, <2>3, <2>5
  <2>7. IsFiniteSet(with[i])
    BY ONLY <2>4, <2>6, ImageIsFinite
  <2>8. \A m \in S : x[m] \in Int
    BY <1>1, <1>2, <2>5, CorridorIsNumber
  <2> QED BY <2>6, <2>7, <2>8
<1>5. PICK I \in SUBSET (1..n) : I = {j \in DOMAIN g.bundles : g.bundles[j].role = role}
  BY <1>2
<1>6. IsFiniteSet(I)
  <2>1. IsFiniteSet(1..n)
    BY FS_Interval, 1 \in Int, n \in Int
  <2> QED BY ONLY <2>1, I \in SUBSET (1..n), FS_Subset
<1>7. PICK all : all = {with[i] : i \in I}
  OBVIOUS
<1>8. IsFiniteSet(all)
  BY ONLY <1>6, <1>7, ImageIsFinite
<1>9. \A s \in all : IsFiniteSet(s) /\ s \in SUBSET Int
  BY <1>4, <1>5, <1>7
<1>10. IsFiniteSet(UNION all)
  BY ONLY <1>8, <1>9, FS_UNION
<1>11. UNION all \in SUBSET Int
  BY <1>9
<1>12. FallbackCorridors(g, offsets, role, edge) = UNION all
  BY <1>3, <1>5, <1>7 DEF FallbackCorridors
<1> QED BY <1>1, <1>10, <1>11, <1>12

\* A range has numbers for its ends, and for the place desired in it.
IsRange(range) == range.minimum \in Int /\ range.desired \in Int /\ range.maximum \in Int

Wide(g, i) == Len(g.bundles[i].members) > 1

LEMMA RangesAreNumbers ==
  ASSUME NEW role, NEW nearest \in Int, NEW desired \in Int, NEW lower \in Int, NEW upper \in Int
  PROVE  Ranged(role, nearest, desired, lower, upper) = Nothing
         \/ IsRange(Ranged(role, nearest, desired, lower, upper))
<1>1. ASSUME NEW minimum \in Int, NEW maximum \in Int
      PROVE  AsRange(minimum, desired, maximum) = Nothing \/ IsRange(AsRange(minimum, desired, maximum))
  <2>1. PICK inside \in Int : inside = Clamp(desired, minimum, maximum)
    BY ClampIsNumber
  <2> QED BY <2>1 DEF AsRange, IsRange
<1>2. /\ Max({nearest, lower}) \in Int /\ Min({desired, upper}) \in Int
      /\ Max({desired, lower}) \in Int /\ Min({nearest, upper}) \in Int
  BY ExtremesOfFew
<1>3. CASE role = "input"
  BY <1>1, <1>2, <1>3 DEF Ranged
<1>4. CASE role # "input"
  BY <1>1, <1>2, <1>4 DEF Ranged
<1> QED BY <1>3, <1>4

\* Only a bundle of several members has a range.
LEMMA BoundsAreNumbers ==
  ASSUME NEW E, NEW g, GraphOver(E, g), NEW rs \in RoutesOf(E), NEW i \in DOMAIN g.bundles,
         NEW lower \in Int, NEW upper \in Int
  PROVE  \/ Bounds(g, CorridorOffsets(g), rs, i, lower, upper) = Nothing
         \/ IsRange(Bounds(g, CorridorOffsets(g), rs, i, lower, upper)) /\ Wide(g, i)
<1>1. PICK offsets : offsets = CorridorOffsets(g)
  OBVIOUS
<1>2. PICK b : b = g.bundles[i] /\ BundleOver(E, g, b)
  BY DEF GraphOver
<1>3. PICK other : other = IF b.role = "input" THEN "output" ELSE "input"
  OBVIOUS
<1>4. PICK seen : seen = [e \in MemberEdges(b) |->
                           {FarEnd(b, rs[e])} \cup FallbackCorridors(g, offsets, other, e)]
  OBVIOUS
<1>5. PICK ends : ends = UNION {seen[e] : e \in MemberEdges(b)}
  OBVIOUS
<1>6. CASE b.width <= 1 \/ Len(b.members) <= 1
  BY <1>2, <1>6 DEF Bounds
<1>7. CASE ~ (b.width <= 1 \/ Len(b.members) <= 1)
  <2>1. Len(b.members) > 1
    BY <1>2, <1>7 DEF BundleOver
  <2>2. MemberEdges(b) # {} /\ IsFiniteSet(MemberEdges(b))
    <3>1. MemberEdges(b) = {b.members[k].edge : k \in 1..Len(b.members)} /\ IsFiniteSet(MemberEdges(b))
      BY <1>2, MembersAreEdges
    <3>2. 1 \in 1..Len(b.members)
      <4>1. Len(b.members) \in Nat
        BY <1>2 DEF BundleOver
      <4> QED BY <2>1, <4>1
    <3> QED BY <3>1, <3>2
  <2>3. ASSUME NEW e \in MemberEdges(b)
        PROVE  IsFiniteSet(seen[e]) /\ seen[e] \in SUBSET Int /\ seen[e] # {}
    <3>1. FarEnd(b, rs[e]) \in Int
      BY <1>2, FarEndIsNumber
    <3>2. PICK x \in Int : x = FarEnd(b, rs[e])
      BY <3>1
    <3>3. PICK more \in SUBSET Int : more = FallbackCorridors(g, offsets, other, e) /\ IsFiniteSet(more)
      BY <1>1, CorridorsAreNumbers
    <3>4. IsFiniteSet({x})
      BY FS_Singleton
    <3>5. IsFiniteSet({x} \cup more)
      BY ONLY <3>3, <3>4, FS_Union
    <3>6. seen[e] = {x} \cup more
      BY <1>4, <3>2, <3>3
    <3> QED BY <3>5, <3>6
  <2>4. PICK all : all = {seen[e] : e \in MemberEdges(b)}
    OBVIOUS
  <2>5. IsFiniteSet(all)
    BY ONLY <2>2, <2>4, ImageIsFinite
  <2>6. \A s \in all : IsFiniteSet(s) /\ s \in SUBSET Int /\ s # {}
    BY <2>3, <2>4
  <2>7. IsFiniteSet(ends)
    <3>1. IsFiniteSet(UNION all)
      BY ONLY <2>5, <2>6, FS_UNION
    <3> QED BY <1>5, <2>4, <3>1
  <2>8. ends \in SUBSET Int /\ ends # {}
    <3>1. all # {} /\ ends = UNION all
      BY <1>5, <2>2, <2>4
    <3> QED BY <2>6, <3>1
  <2>9. Max(ends) \in Int /\ Min(ends) \in Int
    BY ONLY <2>7, <2>8, Extremes
  <2>10. Deepest(other, ends) \in Int
    BY <2>9 DEF Deepest
  <2>11. PICK nearest \in Int : nearest = At(g, b)[1] + Outward(b) * (RailDepth + Pitch)
    <3>1. At(g, b)[1] \in Int
      BY <1>2 DEF BundleOver, Points
    <3>2. RailDepth \in Int /\ Pitch \in Int
      BY BundleAssumption
    <3> QED BY <3>1, <3>2 DEF Outward
  <2>12. Bounds(g, offsets, rs, i, lower, upper) = Ranged(b.role, nearest, Deepest(other, ends), lower, upper)
    BY <1>2, <1>3, <1>4, <1>5, <1>7, <2>11 DEF Bounds
  <2>13. PICK desired \in Int : desired = Deepest(other, ends)
    BY <2>10
  <2>14. \/ Ranged(b.role, nearest, desired, lower, upper) = Nothing
         \/ IsRange(Ranged(b.role, nearest, desired, lower, upper))
    BY RangesAreNumbers
  <2> QED BY <1>1, <1>2, <2>1, <2>12, <2>13, <2>14 DEF Wide
<1> QED BY <1>6, <1>7

LEMMA PlacesAreNumbers ==
  ASSUME NEW E, NEW g, GraphOver(E, g), NEW rs \in RoutesOf(E), NEW i \in DOMAIN g.bundles,
         NEW minimum \in Int, NEW desired \in Int, NEW maximum \in Int
  PROVE  /\ CommonPlaces(g, rs, i, minimum, desired, maximum) \in SUBSET Int
         /\ IsFiniteSet(CommonPlaces(g, rs, i, minimum, desired, maximum))
<1>1. PICK b : b = g.bundles[i] /\ BundleOver(E, g, b)
  BY DEF GraphOver
<1>2. PICK segments : segments = [e \in MemberEdges(b) |-> Segments(rs[e])]
  OBVIOUS
<1>3. ASSUME NEW e \in MemberEdges(b)
      PROVE  IsFiniteSet(segments[e]) /\ segments[e] \in SUBSET (Points \X Points)
  <2>1. e \in E
    BY <1>1, MembersAreEdges
  <2>2. PICK route \in Seq(Points) : route = rs[e]
    BY <2>1 DEF RoutesOf
  <2>3. PICK n \in Int : n = Len(route) - 1
    <3>1. Len(route) - 1 \in Int
      OBVIOUS
    <3> QED BY <3>1
  <2>4. PICK seg : seg = [k \in 1..n |-> Segment(route, k)]
    OBVIOUS
  <2>5. segments[e] = {seg[k] : k \in 1..n}
    BY <1>2, <2>2, <2>3, <2>4 DEF Segments
  <2>6. IsFiniteSet(1..n)
    BY FS_Interval, 1 \in Int, n \in Int
  <2>7. IsFiniteSet(segments[e])
    BY ONLY <2>5, <2>6, ImageIsFinite
  <2>8. ASSUME NEW k \in 1..n PROVE seg[k] \in Points \X Points
    <3>1. route[k] \in Points /\ route[k + 1] \in Points
      BY <2>3
    <3> QED BY <2>4, <3>1 DEF Segment
  <2> QED BY <2>5, <2>7, <2>8
<1>4. PICK all : all = {segments[e] : e \in MemberEdges(b)}
  OBVIOUS
<1>5. IsFiniteSet(UNION all) /\ UNION all \in SUBSET (Points \X Points)
  <2>1. IsFiniteSet(MemberEdges(b))
    BY <1>1, MembersAreEdges
  <2>2. IsFiniteSet(all)
    BY ONLY <1>4, <2>1, ImageIsFinite
  <2>3. \A s \in all : IsFiniteSet(s) /\ s \in SUBSET (Points \X Points)
    BY <1>3, <1>4
  <2>4. IsFiniteSet(UNION all)
    BY ONLY <2>2, <2>3, FS_UNION
  <2> QED BY <2>3, <2>4
<1>6. PICK level \in SUBSET (UNION all) : level = {s \in UNION all : Level(s)}
  OBVIOUS
<1>7. IsFiniteSet(level)
  BY ONLY <1>5, level \in SUBSET (UNION all), FS_Subset
<1>8. PICK stretch : stretch = [s \in level |->
                        IF b.role = "input" THEN [from |-> s[1][1], to |-> s[2][1] - Pitch]
                                            ELSE [from |-> s[1][1] + Pitch, to |-> s[2][1]]]
  OBVIOUS
<1>9. ASSUME NEW s \in level PROVE stretch[s].from \in Int /\ stretch[s].to \in Int
  <2>1. s \in Points \X Points
    BY <1>5
  <2>2. s[1][1] \in Int /\ s[2][1] \in Int
    BY <2>1 DEF Points
  <2>3. Pitch \in Int
    BY BundleAssumption
  <2> QED BY <1>8, <2>2, <2>3
<1>10. PICK stretches : stretches = {stretch[s] : s \in level}
  OBVIOUS
<1>11. IsFiniteSet(stretches)
  BY ONLY <1>7, <1>10, ImageIsFinite
<1>12. PICK usable \in SUBSET stretches :
         usable = {t \in stretches : t.from <= t.to /\ t.from <= maximum /\ t.to >= minimum}
  OBVIOUS
<1>13. IsFiniteSet(usable)
  BY ONLY <1>11, usable \in SUBSET stretches, FS_Subset
<1>14. PICK place : place = [t \in usable |-> IF b.role = "input" THEN Min({t.to, maximum, desired})
                                                               ELSE Max({t.from, minimum, desired})]
  OBVIOUS
<1>15. ASSUME NEW t \in usable PROVE place[t] \in Int
  <2>1. t.from \in Int /\ t.to \in Int
    BY <1>9, <1>10
  <2>2. ASSUME NEW x \in Int, NEW y \in Int, NEW z \in Int
        PROVE  Max({x, y, z}) \in Int /\ Min({x, y, z}) \in Int
    <3>1. IsFiniteSet({x}) /\ IsFiniteSet({y}) /\ IsFiniteSet({z})
      BY FS_Singleton
    <3>2. IsFiniteSet({x} \cup {y})
      BY ONLY <3>1, FS_Union
    <3>3. IsFiniteSet(({x} \cup {y}) \cup {z})
      BY ONLY <3>1, <3>2, FS_Union
    <3>4. ({x} \cup {y}) \cup {z} = {x, y, z}
      OBVIOUS
    <3>5. {x, y, z} \in SUBSET Int /\ {x, y, z} # {} /\ IsFiniteSet({x, y, z})
      BY <2>2, <3>3, <3>4
    <3>6. Max({x, y, z}) \in {x, y, z} /\ Min({x, y, z}) \in {x, y, z}
      BY ONLY <3>5, Extremes
    <3> QED BY <3>5, <3>6
  <2>3. Min({t.to, maximum, desired}) \in Int /\ Max({t.from, minimum, desired}) \in Int
    BY <2>1, <2>2
  <2> QED BY <1>14, <2>3
<1>16. PICK found : found = {place[t] : t \in usable}
  OBVIOUS
<1>17. IsFiniteSet(found)
  BY ONLY <1>13, <1>16, ImageIsFinite
<1>18. PICK candidates : candidates = {desired} \cup found
  OBVIOUS
<1>19. IsFiniteSet(candidates) /\ candidates \in SUBSET Int
  <2>1. IsFiniteSet({desired})
    BY FS_Singleton
  <2>2. IsFiniteSet({desired} \cup found)
    BY ONLY <1>17, <2>1, FS_Union
  <2>3. \A x \in found : x \in Int
    BY <1>15, <1>16
  <2> QED BY <1>18, <2>2, <2>3
<1>20. PICK places \in SUBSET candidates :
         places = {x \in candidates : \A e \in MemberEdges(b) : TrunkSegment(rs[e], b.role, x) # 0}
  OBVIOUS
<1>21. IsFiniteSet(places)
  BY ONLY <1>19, places \in SUBSET candidates, FS_Subset
<1>22. CommonPlaces(g, rs, i, minimum, desired, maximum) = places
  <2>1. level = {s \in UNION {Segments(rs[e]) : e \in MemberEdges(b)} : Level(s)}
    BY <1>2, <1>4, <1>6
  <2>2. stretches = {IF b.role = "input" THEN [from |-> s[1][1], to |-> s[2][1] - Pitch]
                                         ELSE [from |-> s[1][1] + Pitch, to |-> s[2][1]] : s \in level}
    BY <1>8, <1>10
  <2>3. found = {IF b.role = "input" THEN Min({t.to, maximum, desired})
                                     ELSE Max({t.from, minimum, desired}) : t \in usable}
    BY <1>14, <1>16
  <2>4. CommonPlaces(g, rs, i, minimum, desired, maximum) =
          {x \in {desired} \cup {IF b.role = "input" THEN Min({t.to, maximum, desired})
                                                    ELSE Max({t.from, minimum, desired}) : t \in
                    {t \in {IF b.role = "input" THEN [from |-> s[1][1], to |-> s[2][1] - Pitch]
                                                ELSE [from |-> s[1][1] + Pitch, to |-> s[2][1]] :
                               s \in {s \in UNION {Segments(rs[e]) : e \in MemberEdges(b)} : Level(s)}} :
                       t.from <= t.to /\ t.from <= maximum /\ t.to >= minimum}} :
             \A e \in MemberEdges(b) : TrunkSegment(rs[e], b.role, x) # 0}
    BY <1>1, Zenon DEF CommonPlaces
  <2> QED BY <1>12, <1>18, <1>20, <2>1, <2>2, <2>3, <2>4
<1> QED BY <1>19, <1>21, <1>22

\* A place is nothing, or a number for a bundle of several members.
IsPlace(g, i, x) == x = Nothing \/ (x \in Int /\ Wide(g, i))

LEMMA CommonIsPlace ==
  ASSUME NEW E, NEW g, GraphOver(E, g), NEW rs \in RoutesOf(E), NEW i \in DOMAIN g.bundles, Wide(g, i),
         NEW minimum \in Int, NEW desired \in Int, NEW maximum \in Int
  PROVE  IsPlace(g, i, CommonPlace(g, rs, i, minimum, desired, maximum))
<1>1. PICK places \in SUBSET Int : places = CommonPlaces(g, rs, i, minimum, desired, maximum) /\ IsFiniteSet(places)
  BY PlacesAreNumbers
<1>2. CommonPlace(g, rs, i, minimum, desired, maximum) = DeepestOrNone(g.bundles[i].role, places)
  BY <1>1 DEF CommonPlace
<1>3. places # {} => Max(places) \in Int /\ Min(places) \in Int
  <2>1. places # {} => Max(places) \in places /\ Min(places) \in places
    BY <1>1, Extremes
  <2> QED BY <2>1
<1> QED BY <1>2, <1>3 DEF DeepestOrNone, Deepest, IsPlace

LEMMA PlaceIsPlace ==
  ASSUME NEW E, NEW g, GraphOver(E, g), NEW rs \in RoutesOf(E), NEW i \in DOMAIN g.bundles,
         NEW lower \in Int, NEW upper \in Int
  PROVE  /\ IsPlace(g, i, Place(g, CorridorOffsets(g), rs, i, lower, upper))
         /\ Place(g, CorridorOffsets(g), rs, i, lower, upper) # Nothing =>
              IsRange(Bounds(g, CorridorOffsets(g), rs, i, lower, upper))
<1>1. PICK range : range = Bounds(g, CorridorOffsets(g), rs, i, lower, upper)
  OBVIOUS
<1>2. range = Nothing \/ (IsRange(range) /\ Wide(g, i))
  <2>1. \/ Bounds(g, CorridorOffsets(g), rs, i, lower, upper) = Nothing
        \/ IsRange(Bounds(g, CorridorOffsets(g), rs, i, lower, upper)) /\ Wide(g, i)
    BY BoundsAreNumbers
  <2> QED BY <1>1, <2>1
<1>3. PICK x : x = Place(g, CorridorOffsets(g), rs, i, lower, upper)
  OBVIOUS
<1>4. x = PlaceWithin(g, rs, i, range)
  BY <1>1, <1>3 DEF Place
<1>5. CASE range = Nothing
  BY <1>1, <1>3, <1>4, <1>5 DEF PlaceWithin, IsPlace
<1>6. CASE range # Nothing
  <2>1. range.minimum \in Int /\ range.desired \in Int /\ range.maximum \in Int /\ Wide(g, i)
    BY <1>2, <1>6 DEF IsRange
  <2>2. IsPlace(g, i, CommonPlace(g, rs, i, range.minimum, range.desired, range.maximum))
    BY <2>1, CommonIsPlace
  <2> QED BY <1>1, <1>2, <1>3, <1>4, <1>6, <2>2 DEF PlaceWithin
<1> QED BY <1>5, <1>6

LEMMA WideHasMembers ==
  ASSUME NEW E, NEW g, GraphOver(E, g), NEW i \in DOMAIN g.bundles, Wide(g, i)
  PROVE  MemberEdges(g.bundles[i]) # {} /\ IsFiniteSet(MemberEdges(g.bundles[i]))
<1>1. PICK b : b = g.bundles[i] /\ BundleOver(E, g, b)
  BY DEF GraphOver
<1>2. MemberEdges(b) = {b.members[k].edge : k \in 1..Len(b.members)} /\ IsFiniteSet(MemberEdges(b))
  BY <1>1, MembersAreEdges
<1>3. 1 \in 1..Len(b.members)
  <2>1. Len(b.members) \in Nat
    BY <1>1 DEF BundleOver
  <2> QED BY <1>1, <2>1 DEF Wide
<1> QED BY <1>1, <1>2, <1>3

\* Places for some of the bundles.
IsPlacing(g, place) ==
  DOMAIN place \in SUBSET (DOMAIN g.bundles) /\ \A i \in DOMAIN place : IsPlace(g, i, place[i])

LEMMA DivergenceIsNumber ==
  ASSUME NEW E, NEW g, GraphOver(E, g), NEW rs \in RoutesOf(E), NEW i \in DOMAIN g.bundles, Wide(g, i), NEW x
  PROVE  Divergence(g, rs, i, x) = Nothing \/ Divergence(g, rs, i, x) \in Int
<1>1. PICK b : b = g.bundles[i] /\ BundleOver(E, g, b)
  BY DEF GraphOver
<1>2. PICK end : end = [e \in MemberEdges(b) |-> rs[e][TrunkSegment(rs[e], "input", x) + 1][1]]
  OBVIOUS
<1>3. PICK ends : ends = {end[e] : e \in MemberEdges(b)}
  OBVIOUS
<1>4. Divergence(g, rs, i, x) = IF \A e \in MemberEdges(b) : TrunkSegment(rs[e], "input", x) # 0
                                THEN Max(ends) ELSE Nothing
  BY <1>1, <1>2, <1>3 DEF Divergence
<1>5. ASSUME \A e \in MemberEdges(b) : TrunkSegment(rs[e], "input", x) # 0
      PROVE  Max(ends) \in Int
  <2>1. ASSUME NEW e \in MemberEdges(b) PROVE end[e] \in Int
    <3>1. e \in E
      BY <1>1, MembersAreEdges
    <3>2. rs[e] \in Seq(Points)
      BY <3>1 DEF RoutesOf
    <3>3. TrunkSegment(rs[e], "input", x) \in 1..(Len(rs[e]) - 1)
      BY <1>5, <3>2, TrunkIndex
    <3>4. rs[e][TrunkSegment(rs[e], "input", x) + 1] \in Points
      BY <3>2, <3>3
    <3>5. rs[e][TrunkSegment(rs[e], "input", x) + 1][1] \in Int
      BY <3>4 DEF Points
    <3> QED BY <1>2, <3>5
  <2>2. end \in [MemberEdges(b) -> Int]
    BY <1>2, <2>1
  <2>3. MemberEdges(b) # {} /\ IsFiniteSet(MemberEdges(b))
    BY <1>1, WideHasMembers
  <2> QED BY ONLY <1>3, <2>2, <2>3, ImageExtremes
<1> QED BY <1>4, <1>5

LEMMA RequiredIsNumber ==
  ASSUME NEW E, NEW g, GraphOver(E, g), NEW rs \in RoutesOf(E), NEW place, IsPlacing(g, place)
  PROVE  RequiredOutput(g, rs, DOMAIN place, place) \in Int
<1>1. PICK n \in Nat : n = Len(g.bundles) /\ DOMAIN g.bundles = 1..n
  BY DEF GraphOver
<1>2. PICK S \in SUBSET (1..n) : S = {j \in DOMAIN place : place[j] # Nothing}
  BY <1>1 DEF IsPlacing
<1>3. PICK ends : ends = [i \in S |-> Divergence(g, rs, i, place[i])]
  OBVIOUS
<1>4. PICK T \in SUBSET (1..n) : T = {j \in DOMAIN ends : ends[j] # Nothing}
  BY <1>3
<1>5. PICK least : least = [i \in T |-> Max({place[i], ends[i]}) + Pitch]
  OBVIOUS
<1>6. ASSUME NEW i \in T PROVE least[i] \in Int
  <2>1. i \in S /\ i \in DOMAIN place /\ place[i] # Nothing /\ ends[i] # Nothing
    BY <1>2, <1>3, <1>4
  <2>2. place[i] \in Int /\ Wide(g, i) /\ i \in DOMAIN g.bundles
    BY <2>1 DEF IsPlacing, IsPlace
  <2>3. PICK x \in Int : x = place[i]
    BY <2>2
  <2>4. PICK y : y = ends[i]
    OBVIOUS
  <2>5. y = Divergence(g, rs, i, x)
    BY <1>3, <2>1, <2>3, <2>4
  <2>6. y \in Int
    BY <2>1, <2>2, <2>4, <2>5, DivergenceIsNumber
  <2>7. Max({x, y}) \in Int
    BY <2>6, ExtremesOfFew
  <2>8. Pitch \in Int
    BY BundleAssumption
  <2> QED BY <1>5, <2>3, <2>4, <2>7, <2>8
<1>7. PICK all : all = {least[i] : i \in T}
  OBVIOUS
<1>8. IsFiniteSet(all)
  <2>1. IsFiniteSet(1..n)
    BY FS_Interval, 1 \in Int, n \in Int
  <2>2. IsFiniteSet(T)
    BY ONLY <2>1, T \in SUBSET (1..n), FS_Subset
  <2> QED BY ONLY <1>7, <2>2, ImageIsFinite
<1>9. PICK most : most = {-Far} \cup all
  OBVIOUS
<1>10. IsFiniteSet(most) /\ most \in SUBSET Int /\ most # {}
  <2>1. IsFiniteSet({-Far})
    BY FS_Singleton
  <2>2. IsFiniteSet({-Far} \cup all)
    BY ONLY <1>8, <2>1, FS_Union
  <2>3. -Far \in Int
    BY DEF Far
  <2>4. \A x \in all : x \in Int
    BY <1>6, <1>7
  <2> QED BY <1>9, <2>2, <2>3, <2>4
<1>11. Max(most) \in most
  BY ONLY <1>10, Extremes
<1>12. RequiredOutput(g, rs, DOMAIN place, place) = Max(most)
  <2>1. ends = [i \in {j \in DOMAIN place : place[j] # Nothing} |-> Divergence(g, rs, i, place[i])]
    BY <1>2, <1>3
  <2>2. all = {Max({place[i], ends[i]}) + Pitch : i \in {j \in DOMAIN ends : ends[j] # Nothing}}
    BY <1>4, <1>5, <1>7
  <2> QED BY <1>9, <2>1, <2>2 DEF RequiredOutput
<1> QED BY <1>10, <1>11, <1>12

LEMMA SplitIsPlacing ==
  ASSUME NEW E, NEW g, GraphOver(E, g), NEW rs \in RoutesOf(E), NEW inputs \in SUBSET (DOMAIN g.bundles),
         NEW free, \A i \in inputs : IsPlace(g, i, free[i]),
         NEW deepest \in Int, NEW earliest \in Int, NEW low \in Int, NEW limit \in Int
  PROVE  LET place == SplitInputs(g, CorridorOffsets(g), rs, free, inputs, deepest, earliest, low, limit)
         IN  IsPlacing(g, place) /\ DOMAIN place = inputs
<1>1. PICK offsets : offsets = CorridorOffsets(g)
  OBVIOUS
<1>2. Pitch \in Int /\ -Far \in Int
  BY BundleAssumption DEF Far
<1>3. limit - Pitch \in Int /\ earliest + (deepest - earliest) \div 2 \in Int
  BY <1>2
<1>4. PICK upper \in Int : upper = Clamp(earliest + (deepest - earliest) \div 2, low, limit - Pitch)
  BY <1>3, ClampIsNumber
<1>5. PICK place : place = SplitInputs(g, offsets, rs, free, inputs, deepest, earliest, low, limit)
  OBVIOUS
<1>6. place = [i \in inputs |-> IF deepest > earliest THEN Place(g, offsets, rs, i, -Far, upper) ELSE free[i]]
  BY <1>4, <1>5 DEF SplitInputs
<1>7. ASSUME NEW i \in inputs PROVE IsPlace(g, i, place[i])
  <2>1. IsPlace(g, i, Place(g, offsets, rs, i, -Far, upper))
    BY <1>1, <1>2, PlaceIsPlace
  <2> QED BY <1>6, <2>1
<1> QED BY <1>1, <1>5, <1>6, <1>7 DEF IsPlacing

LEMMA RetreatedIsPlacing ==
  ASSUME NEW E, NEW g, GraphOver(E, g), NEW rs \in RoutesOf(E), NEW place, IsPlacing(g, place), NEW limit \in Int
  PROVE  /\ IsPlacing(g, Retreated(g, CorridorOffsets(g), rs, place, limit))
         /\ DOMAIN Retreated(g, CorridorOffsets(g), rs, place, limit) = DOMAIN place
<1>1. PICK offsets : offsets = CorridorOffsets(g)
  OBVIOUS
<1>2. PICK back : back = [i \in DOMAIN place |->
          Place(g, offsets, rs, i, -Far,
                Min({IF place[i] = Nothing THEN limit ELSE place[i], limit - Pitch}))]
  OBVIOUS
<1>3. Retreated(g, offsets, rs, place, limit) = place \/ Retreated(g, offsets, rs, place, limit) = back
  BY <1>2 DEF Retreated
<1>4. ASSUME NEW i \in DOMAIN place PROVE IsPlace(g, i, back[i]) /\ i \in DOMAIN g.bundles
  <2>1. i \in DOMAIN g.bundles /\ IsPlace(g, i, place[i])
    BY DEF IsPlacing
  <2>2. PICK x \in Int : x = IF place[i] = Nothing THEN limit ELSE place[i]
    BY <2>1 DEF IsPlace
  <2>3. PICK y \in Int : y = limit - Pitch
    BY BundleAssumption
  <2>4. PICK upper \in Int : upper = Min({x, y})
    BY ExtremesOfFew
  <2>5. back[i] = Place(g, offsets, rs, i, -Far, upper)
    BY <1>2, <2>2, <2>3, <2>4
  <2>6. -Far \in Int
    BY DEF Far
  <2>7. IsPlace(g, i, Place(g, offsets, rs, i, -Far, upper))
    BY <1>1, <2>1, <2>6, PlaceIsPlace
  <2> QED BY <2>1, <2>5, <2>7
<1>5. IsPlacing(g, back) /\ DOMAIN back = DOMAIN place
  BY <1>2, <1>4 DEF IsPlacing
<1> QED BY <1>1, <1>3, <1>5

LEMMA AgreedIsPlacing ==
  ASSUME NEW E, NEW g, GraphOver(E, g), NEW rs \in RoutesOf(E), NEW place, IsPlacing(g, place),
         NEW outputs \in SUBSET (DOMAIN g.bundles)
  PROVE  /\ IsPlacing(g, Agreed(g, CorridorOffsets(g), rs, outputs, place))
         /\ DOMAIN Agreed(g, CorridorOffsets(g), rs, outputs, place) = DOMAIN place \cup outputs
<1>1. PICK offsets : offsets = CorridorOffsets(g)
  OBVIOUS
<1>2. PICK required \in Int : required = RequiredOutput(g, rs, DOMAIN place, place)
  BY RequiredIsNumber
<1>3. PICK both : both = Followed(g, offsets, rs, place, outputs, required)
  OBVIOUS
<1>5. Agreed(g, offsets, rs, outputs, place) = both
  BY <1>2, <1>3 DEF Agreed
<1>6. /\ DOMAIN both = DOMAIN place \cup outputs
      /\ \A i \in DOMAIN place : both[i] = place[i]
      /\ \A i \in outputs : i \notin DOMAIN place => both[i] = Place(g, offsets, rs, i, required, Far)
  BY <1>3 DEF Followed
<1>7. ASSUME NEW i \in outputs PROVE IsPlace(g, i, Place(g, offsets, rs, i, required, Far))
  <2>1. Far \in Int
    BY DEF Far
  <2> QED BY <1>1, <2>1, PlaceIsPlace
<1>8. IsPlacing(g, both)
  <2>1. DOMAIN both \in SUBSET (DOMAIN g.bundles)
    BY <1>6 DEF IsPlacing
  <2>2. ASSUME NEW i \in DOMAIN both PROVE IsPlace(g, i, both[i])
    <3>1. CASE i \in DOMAIN place
      BY <1>6, <3>1 DEF IsPlacing
    <3>2. CASE i \notin DOMAIN place
      BY <1>6, <1>7, <3>2
    <3> QED BY <3>1, <3>2
  <2> QED BY <2>1, <2>2 DEF IsPlacing
<1> QED BY <1>1, <1>5, <1>6, <1>8

\* Some bundles, each with a place.
Several(g, S, free) ==
  /\ S \in SUBSET (DOMAIN g.bundles) /\ S # {}
  /\ \A i \in S : IsPlace(g, i, free[i]) /\ free[i] # Nothing

LEMMA SettledIsPlacing ==
  ASSUME NEW E, NEW g, GraphOver(E, g), NEW rs \in RoutesOf(E), NEW free,
         NEW inputs, Several(g, inputs, free), NEW outputs, Several(g, outputs, free),
         NEW component, component = inputs \cup outputs,
         NEW low \in Int, NEW limit \in Int
  PROVE  /\ IsPlacing(g, Settled(g, CorridorOffsets(g), rs, free, inputs, outputs, low, limit))
         /\ DOMAIN Settled(g, CorridorOffsets(g), rs, free, inputs, outputs, low, limit) = component
<1>1. PICK offsets : offsets = CorridorOffsets(g)
  OBVIOUS
<1>2. PICK n \in Nat : n = Len(g.bundles) /\ DOMAIN g.bundles = 1..n
  BY DEF GraphOver
<1>a. /\ inputs \in SUBSET (DOMAIN g.bundles) /\ inputs # {}
      /\ outputs \in SUBSET (DOMAIN g.bundles) /\ outputs # {}
      /\ \A i \in inputs \cup outputs : IsPlace(g, i, free[i]) /\ free[i] # Nothing
  BY DEF Several
<1>3. ASSUME NEW S \in SUBSET (inputs \cup outputs), S # {}
      PROVE  Max({free[i] : i \in S}) \in Int /\ Min({free[i] : i \in S}) \in Int
  <2>1. IsFiniteSet(S)
    <3>1. IsFiniteSet(1..n)
      BY FS_Interval, 1 \in Int, n \in Int
    <3>2. S \in SUBSET (1..n)
      BY <1>a, <1>2
    <3> QED BY ONLY <3>1, <3>2, FS_Subset
  <2>2. PICK f : f = [i \in S |-> free[i]]
    OBVIOUS
  <2>3. f \in [S -> Int]
    <3>1. \A i \in S : free[i] \in Int
      BY <1>a DEF IsPlace
    <3> QED BY <2>2, <3>1
  <2>4. PICK M : M = {f[i] : i \in S}
    OBVIOUS
  <2>5. Max(M) \in Int /\ Min(M) \in Int
    BY ONLY <1>3, <2>1, <2>3, <2>4, ImageExtremes
  <2>6. M = {free[i] : i \in S}
    BY <2>2, <2>4
  <2> QED BY <2>5, <2>6
<1>4. PICK deepest \in Int : deepest = Max({free[i] : i \in inputs})
  <2>1. inputs \in SUBSET (inputs \cup outputs)
    OBVIOUS
  <2> QED BY <1>a, <1>3, <2>1
<1>5. PICK first \in Int : first = Min({free[i] : i \in outputs})
  <2>1. outputs \in SUBSET (inputs \cup outputs)
    OBVIOUS
  <2> QED BY <1>a, <1>3, <2>1
<1>6. PICK earliest \in Int : earliest = first - Pitch
  BY BundleAssumption
<1>7. PICK split : split = SplitInputs(g, offsets, rs, free, inputs, deepest, earliest, low, limit)
  OBVIOUS
<1>8. IsPlacing(g, split) /\ DOMAIN split = inputs
  <2>1. inputs \in SUBSET (DOMAIN g.bundles) /\ \A i \in inputs : IsPlace(g, i, free[i])
    BY <1>a
  <2>2. LET place == SplitInputs(g, CorridorOffsets(g), rs, free, inputs, deepest, earliest, low, limit)
        IN  IsPlacing(g, place) /\ DOMAIN place = inputs
    BY <2>1, SplitIsPlacing
  <2> QED BY <1>1, <1>7, <2>2
<1>9. PICK back : back = Retreated(g, offsets, rs, split, limit)
  OBVIOUS
<1>10. IsPlacing(g, back) /\ DOMAIN back = inputs
  BY <1>1, <1>8, <1>9, RetreatedIsPlacing
<1>11. PICK agreed : agreed = Agreed(g, offsets, rs, outputs, back)
  OBVIOUS
<1>12. IsPlacing(g, agreed) /\ DOMAIN agreed = inputs \cup outputs
  BY <1>a, <1>1, <1>10, <1>11, AgreedIsPlacing
<1>13. PICK none : none = [i \in inputs \cup outputs |-> Nothing]
  OBVIOUS
<1>14. IsPlacing(g, none) /\ DOMAIN none = inputs \cup outputs
  BY <1>a, <1>13 DEF IsPlacing, IsPlace
<1>15. \/ Settled(g, offsets, rs, free, inputs, outputs, low, limit) = none
       \/ Settled(g, offsets, rs, free, inputs, outputs, low, limit) = agreed
  BY <1>4, <1>5, <1>6, <1>7, <1>9, <1>11, <1>13 DEF Settled
<1> QED BY <1>1, <1>12, <1>14, <1>15

\* What the bundles of a component agree on are places, one for each.
LEMMA AgreedPlacesArePlaces ==
  ASSUME NEW E, NEW g, GraphOver(E, g), NEW rs \in RoutesOf(E),
         NEW component \in SUBSET Planned(g, CorridorOffsets(g), rs)
  PROVE  /\ IsPlacing(g, AgreedPlaces(g, CorridorOffsets(g), rs, component))
         /\ DOMAIN AgreedPlaces(g, CorridorOffsets(g), rs, component) = component
<1>1. PICK offsets : offsets = CorridorOffsets(g)
  OBVIOUS
<1>2. PICK n \in Nat : n = Len(g.bundles) /\ DOMAIN g.bundles = 1..n
  BY DEF GraphOver
<1>3. -Far \in Int /\ Far \in Int
  BY DEF Far
<1>4. PICK bounds : bounds = [i \in component |-> Bounds(g, offsets, rs, i, -Far, Far)]
  OBVIOUS
<1>5. PICK free : free = [i \in component |-> PlaceWithin(g, rs, i, bounds[i])]
  OBVIOUS
<1>6. PICK inputs \in SUBSET component : inputs = {i \in component : g.bundles[i].role = "input"}
  OBVIOUS
<1>7. PICK outputs \in SUBSET component : outputs = component \ inputs
  OBVIOUS
<1>8. ASSUME NEW i \in component
      PROVE  i \in DOMAIN g.bundles /\ free[i] # Nothing /\ IsPlace(g, i, free[i]) /\ IsRange(bounds[i])
  <2>1. i \in DOMAIN g.bundles /\ Place(g, offsets, rs, i, -Far, Far) # Nothing
    BY <1>1, <1>8 DEF Planned, HasRange
  <2>2. free[i] = Place(g, offsets, rs, i, -Far, Far)
    BY <1>4, <1>5, <1>8 DEF Place
  <2>3. /\ IsPlace(g, i, Place(g, offsets, rs, i, -Far, Far))
        /\ Place(g, offsets, rs, i, -Far, Far) # Nothing => IsRange(Bounds(g, offsets, rs, i, -Far, Far))
    BY <1>1, <1>3, <2>1, PlaceIsPlace
  <2>4. bounds[i] = Bounds(g, offsets, rs, i, -Far, Far)
    BY <1>4
  <2> QED BY <2>1, <2>2, <2>3, <2>4
<1>9. IsPlacing(g, free) /\ DOMAIN free = component
  BY <1>5, <1>8 DEF IsPlacing
<1>10. PICK places : places = AgreedPlaces(g, offsets, rs, component)
  OBVIOUS
<1>11. CASE inputs = {} \/ outputs = {}
  <2>1. places = free
    BY <1>4, <1>5, <1>6, <1>7, <1>10, <1>11 DEF AgreedPlaces
  <2> QED BY <1>1, <1>9, <1>10, <2>1
<1>12. CASE ~ (inputs = {} \/ outputs = {})
  <2>1. ASSUME NEW S \in SUBSET component, S # {}
        PROVE  Max({bounds[i].minimum : i \in S}) \in Int /\ Min({bounds[i].maximum : i \in S}) \in Int
    <3>1. IsFiniteSet(S)
      <4>1. IsFiniteSet(1..n)
        BY FS_Interval, 1 \in Int, n \in Int
      <4>2. S \in SUBSET (1..n)
        BY <1>2, <1>8
      <4> QED BY ONLY <4>1, <4>2, FS_Subset
    <3>2. PICK lows : lows = [i \in S |-> bounds[i].minimum]
      OBVIOUS
    <3>3. PICK highs : highs = [i \in S |-> bounds[i].maximum]
      OBVIOUS
    <3>4. lows \in [S -> Int] /\ highs \in [S -> Int]
      BY <1>8, <3>2, <3>3 DEF IsRange
    <3>5. PICK L : L = {lows[i] : i \in S}
      OBVIOUS
    <3>6. PICK H : H = {highs[i] : i \in S}
      OBVIOUS
    <3>7. Max(L) \in Int
      BY ONLY <2>1, <3>1, <3>4, <3>5, ImageExtremes
    <3>8. Min(H) \in Int
      BY ONLY <2>1, <3>1, <3>4, <3>6, ImageExtremes
    <3>9. L = {bounds[i].minimum : i \in S} /\ H = {bounds[i].maximum : i \in S}
      BY <3>2, <3>3, <3>5, <3>6
    <3> QED BY <3>7, <3>8, <3>9
  <2>2. PICK low \in Int : low = Max({bounds[i].minimum : i \in inputs})
    BY <1>12, <2>1
  <2>3. PICK limit \in Int : limit = Min({bounds[i].maximum : i \in outputs})
    BY <1>12, <2>1
  <2>4. places = Settled(g, offsets, rs, free, inputs, outputs, low, limit)
    BY <1>4, <1>5, <1>6, <1>7, <1>10, <1>12, <2>2, <2>3 DEF AgreedPlaces
  <2>5. inputs \cup outputs = component
    BY <1>7
  <2>6. Several(g, inputs, free) /\ Several(g, outputs, free)
    BY <1>8, <1>12 DEF Several
  <2>7. /\ IsPlacing(g, Settled(g, CorridorOffsets(g), rs, free, inputs, outputs, low, limit))
        /\ DOMAIN Settled(g, CorridorOffsets(g), rs, free, inputs, outputs, low, limit) = component
    BY ONLY GraphOver(E, g), rs \in RoutesOf(E), <2>5, <2>6, low \in Int, limit \in Int, SettledIsPlacing
  <2> QED BY <1>1, <1>10, <2>4, <2>5, <2>7
<1> QED BY <1>11, <1>12

LEMMA PlannedArePlaces ==
  ASSUME NEW E, NEW g, GraphOver(E, g), NEW rs \in RoutesOf(E)
  PROVE  LET places == PlannedPlaces(g, CorridorOffsets(g), rs, Planned(g, CorridorOffsets(g), rs))
         IN  IsPlacing(g, places) /\ DOMAIN places = DOMAIN g.bundles
<1>1. PICK offsets : offsets = CorridorOffsets(g)
  OBVIOUS
<1>2. PICK planned : planned = Planned(g, offsets, rs)
  OBVIOUS
<1>3. PICK places : places = PlannedPlaces(g, offsets, rs, planned)
  OBVIOUS
<1>4. DOMAIN places = DOMAIN g.bundles
  BY <1>3 DEF PlannedPlaces
<1>5. ASSUME NEW i \in DOMAIN g.bundles PROVE IsPlace(g, i, places[i])
  <2>1. CASE i \notin planned
    BY <1>3, <2>1 DEF PlannedPlaces, IsPlace
  <2>2. CASE i \in planned
    <3>1. PICK component : component = Component(g, planned, i)
      OBVIOUS
    <3>2. component \in SUBSET planned /\ i \in component
      BY <2>2, <3>1, ReachesSelf DEF Component
    <3>3. PICK agreed : agreed = AgreedPlaces(g, offsets, rs, component)
      OBVIOUS
    <3>4. IsPlacing(g, agreed) /\ DOMAIN agreed = component
      BY <1>1, <1>2, <3>2, <3>3, AgreedPlacesArePlaces
    <3>5. places[i] = agreed[i]
      BY <1>3, <2>2, <3>1, <3>3 DEF PlannedPlaces
    <3> QED BY <3>2, <3>4, <3>5 DEF IsPlacing
  <2> QED BY <2>1, <2>2
<1> QED BY <1>1, <1>2, <1>3, <1>4, <1>5 DEF IsPlacing

LEMMA MovedIsPlace ==
  ASSUME NEW E, NEW g, GraphOver(E, g), NEW rs \in RoutesOf(E), NEW i \in DOMAIN g.bundles,
         NEW x, IsPlace(g, i, x), x # Nothing => IsRange(Bounds(g, CorridorOffsets(g), rs, i, -Far, Far)),
         NEW gone \in SUBSET Int, IsFiniteSet(gone)
  PROVE  IsPlace(g, i, Moved(g, CorridorOffsets(g), rs, i, x, gone))
<1>1. PICK offsets : offsets = CorridorOffsets(g)
  OBVIOUS
<1>2. CASE x = Nothing \/ LaneSeparated(x, gone)
  BY <1>2 DEF Moved
<1>3. CASE ~ (x = Nothing \/ LaneSeparated(x, gone))
  <2>1. x # Nothing /\ x \in Int /\ Wide(g, i)
    BY <1>3 DEF IsPlace
  <2>2. PICK range : range = Bounds(g, offsets, rs, i, -Far, Far)
    OBVIOUS
  <2>3. range.minimum \in Int /\ range.desired \in Int /\ range.maximum \in Int
    BY <1>1, <2>1, <2>2 DEF IsRange
  <2>4. PICK more : more = gone \cup {x}
    OBVIOUS
  <2>5. IsFiniteSet(more) /\ more \in SUBSET Int /\ more # {}
    <3>1. IsFiniteSet({x})
      BY FS_Singleton
    <3>2. IsFiniteSet(gone \cup {x})
      BY ONLY IsFiniteSet(gone), <3>1, FS_Union
    <3> QED BY <2>1, <2>4, <3>2
  <2>6. Min(more) \in Int /\ Max(more) \in Int
    <3>1. Max(more) \in more /\ Min(more) \in more
      BY ONLY <2>5, Extremes
    <3> QED BY <2>5, <3>1
  <2>7. PICK beyond \in Int :
          beyond = IF g.bundles[i].role = "input" THEN Min(more) - Pitch ELSE Max(more) + Pitch
    BY <2>6, BundleAssumption
  <2>8. PICK desired \in Int : desired = Clamp(beyond, range.minimum, range.maximum)
    BY <2>3, ClampIsNumber
  <2>9. PICK beside : beside = Beside(g, rs, i, range, more)
    OBVIOUS
  <2>10. beside = BesidePlace(g, rs, i, range, desired)
    BY <2>7, <2>8, <2>9 DEF Beside
  <2>11. IsPlace(g, i, beside)
    <3>1. /\ IsPlace(g, i, CommonPlace(g, rs, i, range.minimum, desired, desired))
          /\ IsPlace(g, i, CommonPlace(g, rs, i, desired, desired, range.maximum))
      BY <2>1, <2>3, CommonIsPlace
    <3> QED BY <2>10, <3>1 DEF BesidePlace
  <2>12. Moved(g, offsets, rs, i, x, gone) = OnlySeparated(beside, gone)
    BY <1>3, <2>2, <2>4, <2>9 DEF Moved
  <2>13. IsPlace(g, i, OnlySeparated(beside, gone))
    BY <2>11 DEF OnlySeparated, IsPlace
  <2> QED BY <1>1, <2>12, <2>13
<1> QED BY <1>2, <1>3

LayStates == [used : [Roles -> {S \in SUBSET Int : IsFiniteSet(S)}], places : Seq(Int \cup {Nothing})]

\* What SeparatedPlaces makes of its state at one bundle.
LaidAfter(g, offsets, rs, places, sofar, i) ==
  Lay(sofar, g.bundles[i].role, Moved(g, offsets, rs, i, places[i], sofar.used[g.bundles[i].role]))

LEMMA LaidState ==
  ASSUME NEW E, NEW g, GraphOver(E, g), NEW rs \in RoutesOf(E), NEW i \in DOMAIN g.bundles,
         NEW places, IsPlace(g, i, places[i]),
         places[i] # Nothing => IsRange(Bounds(g, CorridorOffsets(g), rs, i, -Far, Far)),
         NEW sofar \in LayStates
  PROVE  /\ LaidAfter(g, CorridorOffsets(g), rs, places, sofar, i) \in LayStates
         /\ Len(LaidAfter(g, CorridorOffsets(g), rs, places, sofar, i).places) = Len(sofar.places) + 1
<1>1. PICK role : role = g.bundles[i].role
  OBVIOUS
<1>2. role \in Roles
  BY <1>1 DEF GraphOver, BundleOver
<1>3. /\ sofar.used \in [Roles -> {S \in SUBSET Int : IsFiniteSet(S)}]
      /\ sofar.places \in Seq(Int \cup {Nothing})
  BY DEF LayStates
<1>4. PICK gone : gone = sofar.used[role]
  OBVIOUS
<1>5. gone \in SUBSET Int /\ IsFiniteSet(gone)
  BY <1>2, <1>3, <1>4
<1>6. PICK x : x = Moved(g, CorridorOffsets(g), rs, i, places[i], gone)
  OBVIOUS
<1>7. IsPlace(g, i, x)
  <2>1. PICK y : y = places[i]
    OBVIOUS
  <2>2. IsPlace(g, i, y) /\ (y # Nothing => IsRange(Bounds(g, CorridorOffsets(g), rs, i, -Far, Far)))
    BY <2>1
  <2>3. IsPlace(g, i, Moved(g, CorridorOffsets(g), rs, i, y, gone))
    BY <1>5, <2>2, MovedIsPlace
  <2> QED BY <1>6, <2>1, <2>3
<1>8. PICK more : more = IF x = Nothing THEN gone ELSE gone \cup {x}
  OBVIOUS
<1>9. more \in SUBSET Int /\ IsFiniteSet(more)
  <2>1. IsFiniteSet({x})
    BY FS_Singleton
  <2>2. IsFiniteSet(gone \cup {x})
    BY ONLY <1>5, <2>1, FS_Union
  <2>3. x = Nothing \/ x \in Int
    BY <1>7 DEF IsPlace
  <2> QED BY <1>5, <1>8, <2>2, <2>3
<1>10. LaidAfter(g, CorridorOffsets(g), rs, places, sofar, i) =
         [used |-> [sofar.used EXCEPT ![role] = more], places |-> Append(sofar.places, x)]
  <2>1. LaidAfter(g, CorridorOffsets(g), rs, places, sofar, i) = Lay(sofar, role, x)
    BY <1>1, <1>4, <1>6 DEF LaidAfter
  <2>2. [sofar.used EXCEPT ![role] = IF x = Nothing THEN @ ELSE @ \cup {x}] = [sofar.used EXCEPT ![role] = more]
    BY <1>4, <1>8
  <2> QED BY <2>1, <2>2 DEF Lay
<1>11. [sofar.used EXCEPT ![role] = more] \in [Roles -> {S \in SUBSET Int : IsFiniteSet(S)}]
  BY <1>3, <1>9
<1>12. /\ Append(sofar.places, x) \in Seq(Int \cup {Nothing})
       /\ Len(Append(sofar.places, x)) = Len(sofar.places) + 1
  <2>1. x \in Int \cup {Nothing}
    BY <1>7 DEF IsPlace
  <2> QED BY <1>3, <2>1
<1> QED BY <1>10, <1>11, <1>12 DEF LayStates

Layings(g, offsets, rs, places, base, h) ==
  h = [s \in SUBSET DOMAIN [i \in DOMAIN g.bundles |-> i] |->
         IF s = {} THEN base
         ELSE LaidAfter(g, offsets, rs, places, h[s \ {Max(s)}], [i \in DOMAIN g.bundles |-> i][Max(s)])]

\* Places that are moved off each other are places.
LEMMA SeparatedAreNumbers ==
  ASSUME NEW E, NEW g, GraphOver(E, g), NEW rs \in RoutesOf(E), NEW places,
         \A i \in DOMAIN g.bundles :
           /\ IsPlace(g, i, places[i])
           /\ places[i] # Nothing => IsRange(Bounds(g, CorridorOffsets(g), rs, i, -Far, Far))
  PROVE  SeparatedPlaces(g, CorridorOffsets(g), rs, places) \in [DOMAIN g.bundles -> Int \cup {Nothing}]
<1>1. PICK n \in Nat : n = Len(g.bundles) /\ DOMAIN g.bundles = 1..n
  BY DEF GraphOver
<1>2. PICK base : base = [used |-> [r \in Roles |-> {}], places |-> <<>>]
  OBVIOUS
<1>3. base \in LayStates
  <2>1. {} \in SUBSET Int /\ IsFiniteSet({})
    BY FS_EmptySet
  <2>2. <<>> \in Seq(Int \cup {Nothing})
    OBVIOUS
  <2> QED BY <1>2, <2>1, <2>2 DEF LayStates
<1>a. PICK offsets : offsets = CorridorOffsets(g)
  OBVIOUS
<1>4. PICK apply : apply = [p \in (1..n) \X LayStates |-> LaidAfter(g, offsets, rs, places, p[2], p[1])]
  OBVIOUS
<1>5. ASSUME NEW i \in 1..n, NEW v \in LayStates
      PROVE  /\ apply[<<i, v>>] = LaidAfter(g, offsets, rs, places, v, i)
             /\ apply[<<i, v>>] \in LayStates
             /\ Len(apply[<<i, v>>].places) = Len(v.places) + 1
  <2>1. /\ i \in DOMAIN g.bundles /\ IsPlace(g, i, places[i])
        /\ places[i] # Nothing => IsRange(Bounds(g, CorridorOffsets(g), rs, i, -Far, Far))
    BY <1>1
  <2>2. <<i, v>> \in (1..n) \X LayStates /\ <<i, v>>[1] = i /\ <<i, v>>[2] = v
    OBVIOUS
  <2>3. apply[<<i, v>>] = LaidAfter(g, offsets, rs, places, v, i)
    BY <1>4, <2>2
  <2>4. /\ LaidAfter(g, CorridorOffsets(g), rs, places, v, i) \in LayStates
        /\ Len(LaidAfter(g, CorridorOffsets(g), rs, places, v, i).places) = Len(v.places) + 1
    BY <2>1, LaidState
  <2> QED BY <1>a, <2>3, <2>4
<1>6. \A i \in 1..n : \A v \in LayStates : apply[<<i, v>>] \in LayStates
  BY <1>5
<1>7. PICK f \in [SUBSET (1..n) -> LayStates] :
        /\ f[{}] = base
        /\ \A s \in SUBSET (1..n) : s # {} => f[s] = apply[<<Max(s), f[s \ {Max(s)}]>>]
  <2>1. Folds(n, LayStates, base, apply) # {}
    BY ONLY <1>3, <1>6, n \in Nat, FoldExists
  <2> QED BY <2>1 DEF Folds
<1>b. DOMAIN [i \in DOMAIN g.bundles |-> i] = 1..n /\ \A k \in 1..n : [i \in DOMAIN g.bundles |-> i][k] = k
  BY <1>1
<1>8. Layings(g, offsets, rs, places, base, f)
  <2>1. ASSUME NEW s \in SUBSET (1..n), s # {}
        PROVE  f[s] = LaidAfter(g, offsets, rs, places, f[s \ {Max(s)}], [i \in DOMAIN g.bundles |-> i][Max(s)])
    <3>1. Max(s) \in 1..n /\ f[s \ {Max(s)}] \in LayStates
      BY <1>7, <2>1, GreatestIndex
    <3>2. f[s] = LaidAfter(g, offsets, rs, places, f[s \ {Max(s)}], Max(s))
      BY <1>5, <1>7, <2>1, <3>1
    <3>3. [i \in DOMAIN g.bundles |-> i][Max(s)] = Max(s)
      BY <1>b, <3>1
    <3> QED BY <3>2, <3>3
  <2> QED BY <1>b, <1>7, <2>1 DEF Layings
<1>9. PICK h : h = CHOOSE f2 : Layings(g, offsets, rs, places, base, f2)
  OBVIOUS
<1>10. Layings(g, offsets, rs, places, base, h)
  BY <1>8, <1>9
<1>11. SeparatedPlaces(g, offsets, rs, places) = h[DOMAIN [i \in DOMAIN g.bundles |-> i]].places
  BY <1>2, <1>9 DEF Layings, LaidAfter, SeparatedPlaces, FoldLeft, MapThenFoldSet
<1>12. /\ h[{}] = base
       /\ \A s \in SUBSET (1..n) : s # {} => h[s] = LaidAfter(g, offsets, rs, places, h[s \ {Max(s)}], Max(s))
  <2>1. h[{}] = base
    BY <1>b, <1>10 DEF Layings
  <2>2. ASSUME NEW s \in SUBSET (1..n), s # {}
        PROVE  h[s] = LaidAfter(g, offsets, rs, places, h[s \ {Max(s)}], Max(s))
    <3>1. Max(s) \in 1..n
      BY <2>2, GreatestIndex
    <3>2. [i \in DOMAIN g.bundles |-> i][Max(s)] = Max(s)
      BY <1>b, <3>1
    <3>3. h[s] = LaidAfter(g, offsets, rs, places, h[s \ {Max(s)}], [i \in DOMAIN g.bundles |-> i][Max(s)])
      BY <1>b, <1>10, <2>2 DEF Layings
    <3> QED BY <3>2, <3>3
  <2> QED BY <2>1, <2>2
<1>13. ASSUME NEW s \in SUBSET (1..n), s # {} /\ h[s \ {Max(s)}] \in LayStates
       PROVE  h[s] = apply[<<Max(s), h[s \ {Max(s)}]>>]
  <2>1. Max(s) \in 1..n
    BY <1>13, GreatestIndex
  <2>2. h[s] = LaidAfter(g, offsets, rs, places, h[s \ {Max(s)}], Max(s))
    BY <1>12, <1>13
  <2> QED BY <1>5, <1>13, <2>1, <2>2
<1>14. PICK k \in [0..n -> LayStates] :
         /\ k[0] = base /\ k[n] = h[1..n]
         /\ \A i \in 1..n : k[i] = apply[<<i, k[i - 1]>>]
  <2>1. h[{}] = base
    BY <1>12
  <2>2. StagesOf(n, LayStates, base, apply, h[1..n]) # {}
    BY ONLY n \in Nat, <2>1, <1>3, <1>13, <1>6, RecursionInSteps
  <2> QED BY <2>2 DEF StagesOf
<1>15. PICK Good : Good = {i \in Nat : i \in 0..n => Len(k[i].places) = i}
  OBVIOUS
<1>16. 0 \in Good
  BY <1>2, <1>14, <1>15
<1>17. ASSUME NEW i \in Nat, i \in Good PROVE i + 1 \in Good
  <2> SUFFICES ASSUME i + 1 \in 0..n PROVE Len(k[i + 1].places) = i + 1
    BY <1>15
  <2>1. i \in 0..n /\ i + 1 \in 1..n /\ (i + 1) - 1 = i
    OBVIOUS
  <2>2. k[i] \in LayStates /\ Len(k[i].places) = i
    BY <1>14, <1>15, <1>17, <2>1
  <2>3. k[i + 1] = apply[<<i + 1, k[i]>>]
    BY <1>14, <2>1
  <2> QED BY <1>5, <2>1, <2>2, <2>3
<1>18. \A i \in Nat : i \in Good
  BY ONLY <1>16, <1>17, CountingUp
<1>19. Len(k[n].places) = n /\ k[n] \in LayStates
  BY <1>14, <1>15, <1>18
<1>20. PICK all : all = k[n].places
  OBVIOUS
<1>21. all \in Seq(Int \cup {Nothing}) /\ Len(all) = n
  BY <1>19, <1>20 DEF LayStates
<1>22. all \in [1..n -> Int \cup {Nothing}]
  BY <1>21
<1>23. SeparatedPlaces(g, offsets, rs, places) = all
  BY <1>b, <1>11, <1>14, <1>20
<1> QED BY <1>1, <1>a, <1>22, <1>23

\* The plan has a number, or nothing, for every bundle.
LEMMA PlanIsOfNumbers ==
  ASSUME NEW E, NEW g, GraphOver(E, g), NEW rs \in RoutesOf(E), NEW separate
  PROVE  PlanInteriorCollectors(g, rs, separate) \in [DOMAIN g.bundles -> Int \cup {Nothing}]
<1>1. PICK offsets : offsets = CorridorOffsets(g)
  OBVIOUS
<1>2. PICK planned : planned = Planned(g, offsets, rs)
  OBVIOUS
<1>3. PICK places : places = PlannedPlaces(g, offsets, rs, planned)
  OBVIOUS
<1>4. IsPlacing(g, places) /\ DOMAIN places = DOMAIN g.bundles
  BY <1>1, <1>2, <1>3, PlannedArePlaces
<1>5. ASSUME NEW i \in DOMAIN g.bundles
      PROVE  /\ IsPlace(g, i, places[i])
             /\ places[i] # Nothing => IsRange(Bounds(g, CorridorOffsets(g), rs, i, -Far, Far))
  <2>1. IsPlace(g, i, places[i])
    BY <1>4 DEF IsPlacing
  <2>2. ASSUME places[i] # Nothing PROVE IsRange(Bounds(g, CorridorOffsets(g), rs, i, -Far, Far))
    <3>1. i \in planned
      BY <1>3, <2>2 DEF PlannedPlaces
    <3>2. Place(g, CorridorOffsets(g), rs, i, -Far, Far) # Nothing
      BY <1>1, <1>2, <3>1 DEF Planned, HasRange
    <3>3. -Far \in Int /\ Far \in Int
      BY DEF Far
    <3> QED BY <3>2, <3>3, PlaceIsPlace
  <2> QED BY <2>1, <2>2
<1>6. places \in [DOMAIN g.bundles -> Int \cup {Nothing}]
  <2>1. \A i \in DOMAIN g.bundles : places[i] \in Int \cup {Nothing}
    BY <1>5 DEF IsPlace
  <2>2. places = [i \in DOMAIN g.bundles |-> places[i]]
    BY <1>3 DEF PlannedPlaces
  <2> QED BY <2>1, <2>2
<1>7. SeparatedPlaces(g, CorridorOffsets(g), rs, places) \in [DOMAIN g.bundles -> Int \cup {Nothing}]
  BY <1>5, SeparatedAreNumbers
<1>8. \/ PlanInteriorCollectors(g, rs, separate) = places
      \/ PlanInteriorCollectors(g, rs, separate) = SeparatedPlaces(g, CorridorOffsets(g), rs, places)
  BY <1>1, <1>2, <1>3 DEF PlanInteriorCollectors
<1> QED BY <1>6, <1>7, <1>8

\* What is tried in a promotion are finitely many numbers.
LEMMA PromotionsAreNumbers ==
  ASSUME NEW E, NEW g, GraphOver(E, g), NEW rs \in RoutesOf(E), NEW i \in DOMAIN g.bundles
  PROVE  PromotionCandidates(g, rs, i) \in SUBSET Int /\ IsFiniteSet(PromotionCandidates(g, rs, i))
<1>1. PICK range : range = Bounds(g, CorridorOffsets(g), rs, i, -Far, Far)
  OBVIOUS
<1>2. PICK adjacent : adjacent = range.desired - Outward(g.bundles[i]) * Pitch
  OBVIOUS
<1>3. CASE range = Nothing
  <2>1. PromotionCandidates(g, rs, i) = {}
    BY <1>1, <1>3 DEF PromotionCandidates
  <2> QED BY <2>1, FS_EmptySet
<1>4. CASE range # Nothing
  <2>1. range.minimum \in Int /\ range.desired \in Int /\ range.maximum \in Int
    <3>1. -Far \in Int /\ Far \in Int
      BY DEF Far
    <3>2. \/ Bounds(g, CorridorOffsets(g), rs, i, -Far, Far) = Nothing
          \/ IsRange(Bounds(g, CorridorOffsets(g), rs, i, -Far, Far)) /\ Wide(g, i)
      BY <3>1, BoundsAreNumbers
    <3>3. IsRange(range)
      BY <1>1, <1>4, <3>2
    <3> QED BY <3>3 DEF IsRange
  <2>2. adjacent \in Int
    <3>1. Outward(g.bundles[i]) * Pitch \in Int
      BY BundleAssumption DEF Outward
    <3> QED BY <1>2, <2>1, <3>1
  <2>3. PICK first \in SUBSET Int :
          /\ first = CommonPlaces(g, rs, i, range.minimum, range.desired, range.maximum)
          /\ IsFiniteSet(first)
    BY <2>1, PlacesAreNumbers
  <2>4. PICK second \in SUBSET Int :
          /\ second = CommonPlaces(g, rs, i, range.minimum, adjacent, range.maximum)
          /\ IsFiniteSet(second)
    BY <2>1, <2>2, PlacesAreNumbers
  <2>5. IsFiniteSet(first \cup second)
    BY ONLY <2>3, <2>4, FS_Union
  <2>6. PICK found : found = first \cup IF range.minimum <= adjacent /\ adjacent <= range.maximum
                                       THEN second ELSE {}
    OBVIOUS
  <2>7. PromotionCandidates(g, rs, i) = Foremost(g.bundles[i].role, found)
    BY <1>1, <1>2, <1>4, <2>3, <2>4, <2>6 DEF PromotionCandidates, CandidatesWithin
  <2>8. Foremost(g.bundles[i].role, found) \in SUBSET (first \cup second)
    BY <2>6 DEF Foremost
  <2>9. IsFiniteSet(Foremost(g.bundles[i].role, found))
    BY ONLY <2>5, <2>8, FS_Subset
  <2> QED BY <2>3, <2>4, <2>7, <2>8, <2>9
<1> QED BY <1>3, <1>4

-----------------------------------------------------------------------------
(* What every state is made of.                                            *)

Under == {"check", "settle", "promote", "share"}

Wires == DOMAIN job.routes

BundlesTyped ==
  /\ job \in Jobs
  /\ step \in Under \cup {"next", "returned", "failed"}
  /\ plan \in [DOMAIN Graph.bundles -> Int \cup {Nothing}]
  /\ InteriorAllowed(job) \/ \A i \in DOMAIN Graph.bundles : plan[i] = Nothing
  /\ order \in Seq(DOMAIN Graph.bundles) /\ prior \in Seq(DOMAIN Graph.bundles)
  /\ routes \in RoutesOf(Wires) /\ saved \in RoutesOf(Wires)
  /\ DOMAIN drawn = DOMAIN Graph.bundles /\ DOMAIN taken = Roles
  /\ count \in Int /\ before \in Int
  /\ promotions \in SUBSET Int /\ IsFiniteSet(promotions)
  /\ step \in Under => order # <<>> /\ IsDrawnBundle(Bundle, Geometry)

LEMMA RouteSums ==
  ASSUME NEW E, IsFiniteSet(E), NEW rs \in RoutesOf(E), NEW S \in SUBSET E
  PROVE  /\ SumOf(S, rs) \in Int /\ SumOf(E \ S, rs) \in Int
         /\ SumOf(E, rs) = SumOf(S, rs) + SumOf(E \ S, rs)
<1>1. \A e \in E : SegmentCount(rs[e]) \in Int
  BY DEF RoutesOf, SegmentCount
<1>2. SumOf(E, rs) = SumOf(S, rs) + SumOf(E \ S, rs)
  BY <1>1, SumOfParts
<1>3. ASSUME NEW T \in SUBSET E PROVE SumOf(T, rs) \in Int
  <2>1. IsFiniteSet(T)
    BY FS_Subset
  <2>2. \A e \in T : SegmentCount(rs[e]) \in Int
    BY <1>1
  <2> QED BY ONLY <2>1, <2>2, SumOfOneMore
<1>4. E \ S \in SUBSET E
  OBVIOUS
<1> QED BY <1>2, <1>3, <1>4

LEMMA JobFacts ==
  ASSUME NEW j \in Jobs
  PROVE  /\ IsFiniteSet(DOMAIN j.routes)
         /\ GraphOver(DOMAIN j.routes, j.graph)
         /\ j.routes \in RoutesOf(DOMAIN j.routes)
         /\ ProcessingOrder(j.graph) \in Seq(DOMAIN j.graph.bundles)
         /\ \A i, k \in DOMAIN ProcessingOrder(j.graph) :
              ProcessingOrder(j.graph)[i] = ProcessingOrder(j.graph)[k] => i = k
<1>1. PICK g : g = j.graph
  OBVIOUS
<1>2. IsFiniteSet(DOMAIN j.routes) /\ GraphOver(DOMAIN j.routes, g)
  BY <1>1, JobsAssumption DEF GraphOver, BundleOver, Points
<1>3. j.routes \in RoutesOf(DOMAIN j.routes)
  BY JobsAssumption DEF RoutesOf, Points
<1>4. PICK n \in Nat : n = Len(g.bundles) /\ DOMAIN g.bundles = 1..n
  BY <1>2 DEF GraphOver
<1>5. \A i \in 1..n : g.bundles[i].id \in Int /\ g.bundles[i].port \in Int /\ g.bundles[i].role \in Roles
  BY <1>1, <1>4, JobsAssumption
<1>6. \A i, k \in 1..n : i < k => g.bundles[i].id < g.bundles[k].id
  BY <1>1, <1>4, JobsAssumption
<1>7. PICK precedes : precedes = {p \in (1..n) \X (1..n) : ProcessedBefore(g, p[1], p[2])}
  OBVIOUS
<1>8. \A i, k \in 1..n : <<i, k>> \in precedes <=> ProcessedBefore(g, i, k)
  BY <1>7
<1>9. \A i, k, l \in 1..n : ProcessedBefore(g, i, k) /\ ProcessedBefore(g, k, l) => ProcessedBefore(g, i, l)
  BY <1>5 DEF ProcessedBefore, Roles
<1>10. \A i \in 1..n : ~ ProcessedBefore(g, i, i)
  BY <1>5 DEF ProcessedBefore
<1>11. ASSUME NEW i \in 1..n, NEW k \in 1..n, i # k
       PROVE  ProcessedBefore(g, i, k) \/ ProcessedBefore(g, k, i)
  <2>1. g.bundles[i].id < g.bundles[k].id \/ g.bundles[k].id < g.bundles[i].id
    BY <1>6, <1>11
  <2> QED BY <1>5, <2>1 DEF ProcessedBefore, Roles
<1>12. IsFiniteSet(1..n) /\ Cardinality(1..n) = n
  <2>1. 1 \in Int /\ n \in Int /\ (1 > n => n = 0) /\ n - 1 + 1 = n
    OBVIOUS
  <2> QED BY <2>1, FS_Interval
<1>13. PICK listing \in Listings(1..n) :
         \A i, k \in DOMAIN listing : i < k => <<listing[i], listing[k]>> \in precedes
  <2>1. \A x, y, z \in 1..n : <<x, y>> \in precedes /\ <<y, z>> \in precedes => <<x, z>> \in precedes
    BY <1>8, <1>9
  <2>2. \A x \in 1..n : <<x, x>> \notin precedes
    BY <1>8, <1>10
  <2>3. \A x, y \in 1..n : x = y \/ <<x, y>> \in precedes \/ <<y, x>> \in precedes
    BY <1>8, <1>11
  <2> QED BY ONLY <1>12, <2>1, <2>2, <2>3, OrderExists
<1>14. listing \in [1..n -> 1..n] /\ \A i, k \in 1..n : i < k => ProcessedBefore(g, listing[i], listing[k])
  BY <1>8, <1>12, <1>13 DEF Listings
<1>15. PICK chosen : chosen = ProcessingOrder(g)
  OBVIOUS
<1>16. chosen \in [1..n -> 1..n] /\ \A i, k \in 1..n : i < k => ProcessedBefore(g, chosen[i], chosen[k])
  BY <1>4, <1>14, <1>15 DEF ProcessingOrder
<1>17. \A i, k \in 1..n : chosen[i] = chosen[k] => i = k
  <2> SUFFICES ASSUME NEW i \in 1..n, NEW k \in 1..n, i < k PROVE chosen[i] # chosen[k]
    OBVIOUS
  <2> QED BY <1>10, <1>16
<1>18. chosen \in Seq(1..n)
  BY <1>16
<1> QED BY <1>1, <1>2, <1>3, <1>4, <1>15, <1>16, <1>17, <1>18

LEMMA BundleAtHand ==
  ASSUME BundlesTyped, order # <<>>
  PROVE  /\ Current \in DOMAIN Graph.bundles /\ BundleOver(Wires, Graph, Bundle) /\ GraphOver(Wires, Graph)
         /\ IsFiniteSet(Wires) /\ MemberEdges(Bundle) \in SUBSET Wires
         /\ Tail(order) \in Seq(DOMAIN Graph.bundles) /\ Append(prior, Current) \in Seq(DOMAIN Graph.bundles)
<1>1. GraphOver(Wires, Graph) /\ IsFiniteSet(Wires)
  BY JobFacts DEF BundlesTyped, Wires, Graph
<1>2. Current \in DOMAIN Graph.bundles
  BY DEF BundlesTyped, Current
<1>3. BundleOver(Wires, Graph, Bundle)
  BY <1>1, <1>2 DEF GraphOver, Bundle
<1>4. MemberEdges(Bundle) \in SUBSET Wires
  BY <1>3, MembersAreEdges
<1>5. Tail(order) \in Seq(DOMAIN Graph.bundles) /\ Append(prior, Current) \in Seq(DOMAIN Graph.bundles)
  BY <1>2 DEF BundlesTyped
<1> QED BY <1>1, <1>2, <1>3, <1>4, <1>5

LEMMA TypedInit == BundlesInit => BundlesTyped
<1> SUFFICES ASSUME BundlesInit PROVE BundlesTyped
  OBVIOUS
<1> USE DEF BundlesInit
<1>1. job \in Jobs /\ Graph = job.graph /\ Wires = DOMAIN job.routes
  BY DEF Graph, Wires
<1>2. /\ IsFiniteSet(Wires) /\ GraphOver(Wires, Graph) /\ job.routes \in RoutesOf(Wires)
      /\ ProcessingOrder(job.graph) \in Seq(DOMAIN Graph.bundles)
  BY <1>1, JobFacts
<1>3. plan \in [DOMAIN Graph.bundles -> Int \cup {Nothing}]
  <2>1. PlanInteriorCollectors(Graph, job.routes, Crossings(job)) \in [DOMAIN Graph.bundles -> Int \cup {Nothing}]
    BY <1>2, PlanIsOfNumbers
  <2> QED BY <1>1, <2>1
<1>4. InteriorAllowed(job) \/ \A i \in DOMAIN Graph.bundles : plan[i] = Nothing
  BY <1>1
<1>5. count \in Int
  <2>1. SumOf(Wires, job.routes) \in Int
    BY <1>2, RouteSums
  <2> QED BY <1>1, <2>1
<1>6. DOMAIN taken = Roles
  BY DEF TakenByPreserved
<1>7. IsFiniteSet({})
  BY FS_EmptySet
<1>8. prior \in Seq(DOMAIN Graph.bundles)
  OBVIOUS
<1> QED BY <1>1, <1>2, <1>3, <1>4, <1>5, <1>6, <1>7, <1>8 DEF BundlesTyped, Under

LEMMA TypedAbandon ==
  ASSUME BundlesTyped, Abandon
  PROVE  BundlesTyped'
BY DEF BundlesTyped, Abandon, drawing, Under, Wires, Graph

\* What is drawn is a drawing of the bundle at hand.
LEMMA TypedDraw ==
  ASSUME BundlesTyped, order # <<>>, NEW d, IsDrawnBundle(Bundle, d), NEW rs \in RoutesOf(Wires), Draw(d, rs),
         UNCHANGED <<job, plan, order, prior, taken, count>>,
         before' \in Int, saved' \in RoutesOf(Wires),
         promotions' \in SUBSET Int, IsFiniteSet(promotions'), step' \in Under
  PROVE  BundlesTyped' /\ Geometry' = d /\ Bundle' = Bundle /\ Current' = Current /\ routes' = rs
<1>1. Graph' = Graph /\ Wires' = Wires /\ Current' = Current /\ Bundle' = Bundle
  BY DEF Graph, Wires, Current, Bundle
<1>2. Current \in DOMAIN drawn
  BY BundleAtHand DEF BundlesTyped
<1>3. Geometry' = d /\ DOMAIN drawn' = DOMAIN drawn /\ routes' = rs
  BY <1>1, <1>2 DEF Draw, Geometry
<1>4. IsDrawnBundle(Bundle', Geometry')
  BY <1>1, <1>3
<1>5. /\ job' \in Jobs /\ step' \in Under /\ plan' = plan /\ job' = job
      /\ order' \in Seq(DOMAIN Graph'.bundles) /\ prior' \in Seq(DOMAIN Graph'.bundles)
      /\ DOMAIN drawn' = DOMAIN Graph'.bundles /\ DOMAIN taken' = Roles /\ count' \in Int
      /\ order' # <<>>
  BY <1>1, <1>3 DEF BundlesTyped
<1>6. /\ plan' \in [DOMAIN Graph'.bundles -> Int \cup {Nothing}]
      /\ InteriorAllowed(job') \/ \A i \in DOMAIN Graph'.bundles : plan'[i] = Nothing
  BY <1>1, <1>5 DEF BundlesTyped
<1>7. routes' \in RoutesOf(Wires') /\ saved' \in RoutesOf(Wires')
  BY <1>1, <1>3
<1> QED BY <1>1, <1>3, <1>4, <1>5, <1>6, <1>7 DEF BundlesTyped

\* The bundle at hand is done.
LEMMA TypedClose ==
  ASSUME BundlesTyped, order # <<>>, NEW d, IsDrawnBundle(Bundle, d), NEW rs \in RoutesOf(Wires),
         NEW segments \in Int, Close(d, rs, segments)
  PROVE  BundlesTyped'
<1> USE DEF Close
<1>1. Graph' = Graph /\ Wires' = Wires
  BY DEF Graph, Wires
<1>2. DOMAIN drawn' = DOMAIN drawn /\ routes' = rs
  BY DEF Draw
<1>3. order' \in Seq(DOMAIN Graph'.bundles) /\ prior' \in Seq(DOMAIN Graph'.bundles)
  BY <1>1, BundleAtHand
<1>4. DOMAIN taken' = Roles
  BY DEF BundlesTyped
<1>5. routes' \in RoutesOf(Wires') /\ saved' \in RoutesOf(Wires')
  BY <1>1, <1>2 DEF BundlesTyped
<1>6. /\ plan' \in [DOMAIN Graph'.bundles -> Int \cup {Nothing}]
      /\ InteriorAllowed(job') \/ \A i \in DOMAIN Graph'.bundles : plan'[i] = Nothing
      /\ job' \in Jobs /\ DOMAIN drawn' = DOMAIN Graph'.bundles
      /\ count' \in Int /\ before' \in Int
      /\ promotions' \in SUBSET Int /\ IsFiniteSet(promotions')
  BY <1>1, <1>2 DEF BundlesTyped
<1>7. step' = "next"
  OBVIOUS
<1> QED BY <1>3, <1>4, <1>5, <1>6, <1>7 DEF BundlesTyped, Under

\* What is drawn at a place, and the routes led there, differ only for the members.
LEMMA DrawnHere ==
  ASSUME BundlesTyped, order # <<>>, NEW d, IsDrawnBundle(Bundle, d), NEW rs \in RoutesOf(Wires)
  PROVE  /\ RewriteMemberRoutes(Graph, Current, d, rs) \in RoutesOf(Wires)
         /\ \A e \in Wires \ MemberEdges(Bundle) :
              RewriteMemberRoutes(Graph, Current, d, rs)[e] = rs[e]
<1>1. GraphOver(Wires, Graph) /\ Current \in DOMAIN Graph.bundles
  BY BundleAtHand
<1>2. IsDrawnBundle(Graph.bundles[Current], d)
  BY DEF Bundle
<1>3. /\ RewriteMemberRoutes(Graph, Current, d, rs) \in RoutesOf(Wires)
      /\ \A e \in Wires \ MemberEdges(Graph.bundles[Current]) :
           RewriteMemberRoutes(Graph, Current, d, rs)[e] = rs[e]
  BY <1>1, <1>2, RoutesAreLed
<1> QED BY <1>3 DEF Bundle

LEMMA BuiltHere ==
  ASSUME BundlesTyped, order # <<>>, NEW rs \in RoutesOf(Wires), NEW x, x \in Int \/ x = Nothing
  PROVE  /\ IsDrawnBundle(Bundle, BuildGeometry(Graph, Bundle, rs, x))
         /\ Interior(Graph, Bundle, BuildGeometry(Graph, Bundle, rs, x))
              => x # Nothing /\ BuildGeometry(Graph, Bundle, rs, x).x = x
         /\ IsDrawnBundle(Bundle, FallbackGeometry) /\ ~ Interior(Graph, Bundle, FallbackGeometry)
<1>1. BundleOver(Wires, Graph, Bundle)
  BY BundleAtHand
<1> QED BY <1>1, BuiltIsDrawn, LocalIsDrawn DEF FallbackGeometry

LEMMA PlannedIsNumber ==
  ASSUME BundlesTyped, order # <<>>
  PROVE  /\ PlannedX \in Int \/ PlannedX = Nothing
         /\ PlannedX # Nothing => InteriorAllowed(job) /\ LaneSeparated(PlannedX, taken[Bundle.role])
<1>1. Current \in DOMAIN Graph.bundles
  BY BundleAtHand
<1>2. PlannedX # Nothing => /\ PlannedX = plan[Current] /\ plan[Current] # Nothing
                          /\ plan[Current] \in Separated({plan[Current]})
  BY DEF PlannedX
<1>3. plan[Current] \in Int \cup {Nothing} /\ (InteriorAllowed(job) \/ plan[Current] = Nothing)
  BY <1>1 DEF BundlesTyped
<1> QED BY <1>2, <1>3 DEF Separated

LEMMA TriedIsCandidate ==
  ASSUME BundlesTyped, promotions # {}
  PROVE  Tried \in promotions /\ Tried \in Int
<1>1. Max(promotions) \in promotions /\ Min(promotions) \in promotions
  BY Extremes DEF BundlesTyped
<1> QED BY <1>1 DEF Tried, Deepest, BundlesTyped

LEMMA CandidatesAreNumbers ==
  ASSUME BundlesTyped, FindPromotions, order # <<>>
  PROVE  /\ promotions' \in SUBSET Int /\ IsFiniteSet(promotions')
         /\ \A x \in promotions' : InteriorAllowed(job) /\ LaneSeparated(x, taken[Bundle.role])
<1>1. CASE InteriorAllowed(job) /\ Local(Geometry)
  <2>1. PICK candidates : candidates = PromotionCandidates(Graph, routes, Current)
    OBVIOUS
  <2>2. candidates \in SUBSET Int /\ IsFiniteSet(candidates)
    BY <2>1, BundleAtHand, PromotionsAreNumbers DEF BundlesTyped
  <2>3. promotions' = Separated(candidates)
    BY <1>1, <2>1 DEF FindPromotions
  <2>4. promotions' \in SUBSET candidates /\ \A x \in promotions' : LaneSeparated(x, taken[Bundle.role])
    BY <1>1, <2>3 DEF Separated
  <2>5. IsFiniteSet(promotions')
    BY ONLY <2>2, <2>4, FS_Subset
  <2> QED BY <1>1, <2>2, <2>4, <2>5
<1>2. CASE ~ (InteriorAllowed(job) /\ Local(Geometry))
  <2>1. promotions' = {}
    BY <1>2 DEF FindPromotions
  <2> QED BY <2>1, FS_EmptySet
<1> QED BY <1>1, <1>2

\* A set of numbers in the order of their distances, and else of themselves.
LEMMA LeastByKey ==
  ASSUME NEW S \in SUBSET Int, IsFiniteSet(S), S # {}, NEW key \in [S -> Int]
  PROVE  \E e \in S : \A f \in S : key[e] < key[f] \/ (key[e] = key[f] /\ e <= f)
<1>1. PICK before1 : before1 = {p \in S \X S : key[p[2]] < key[p[1]] \/ (key[p[1]] = key[p[2]] /\ p[2] < p[1])}
  OBVIOUS
<1>2. \A x, y \in S : <<x, y>> \in before1 <=> key[y] < key[x] \/ (key[x] = key[y] /\ y < x)
  BY <1>1
<1>3. \A x \in S : x \in Int /\ key[x] \in Int
  OBVIOUS
<1>4. \A x, y, z \in S : <<x, y>> \in before1 /\ <<y, z>> \in before1 => <<x, z>> \in before1
  <2> SUFFICES ASSUME NEW x \in S, NEW y \in S, NEW z \in S,
                      <<x, y>> \in before1, <<y, z>> \in before1
               PROVE  <<x, z>> \in before1
    OBVIOUS
  <2>1. key[x] \in Int /\ key[y] \in Int /\ key[z] \in Int /\ x \in Int /\ y \in Int /\ z \in Int
    BY <1>3
  <2>2. /\ key[y] < key[x] \/ (key[x] = key[y] /\ y < x)
        /\ key[z] < key[y] \/ (key[y] = key[z] /\ z < y)
    BY <1>2
  <2>3. key[z] < key[x] \/ (key[x] = key[z] /\ z < x)
    BY ONLY <2>1, <2>2
  <2> QED BY <1>2, <2>3
<1>5. ASSUME NEW x \in S PROVE <<x, x>> \notin before1
  <2>1. key[x] \in Int /\ x \in Int
    BY <1>3
  <2>2. ~ (key[x] < key[x] \/ (key[x] = key[x] /\ x < x))
    BY ONLY <2>1
  <2> QED BY <1>2, <2>2
<1>6. ASSUME NEW x \in S, NEW y \in S
      PROVE  x = y \/ <<x, y>> \in before1 \/ <<y, x>> \in before1
  <2>1. key[x] \in Int /\ key[y] \in Int /\ x \in Int /\ y \in Int
    BY <1>3
  <2>2. x = y \/ (key[y] < key[x] \/ (key[x] = key[y] /\ y < x))
              \/ (key[x] < key[y] \/ (key[y] = key[x] /\ x < y))
    BY ONLY <2>1
  <2> QED BY <1>2, <2>2
<1>7. PICK e \in S : \A f \in S : f = e \/ <<f, e>> \in before1
  <2>1. \A x \in S : <<x, x>> \notin before1
    BY <1>5
  <2>2. \A x, y \in S : x = y \/ <<x, y>> \in before1 \/ <<y, x>> \in before1
    BY <1>6
  <2>3. IsFiniteSet(S) /\ S # {}
    OBVIOUS
  <2>4. LastIn(S, before1) # {}
    BY ONLY <1>4, <2>1, <2>2, <2>3, LastInOrder
  <2> QED BY <2>4 DEF LastIn
<1>8. ASSUME NEW f \in S PROVE key[e] < key[f] \/ (key[e] = key[f] /\ e <= f)
  <2>1. key[e] \in Int /\ key[f] \in Int /\ e \in Int /\ f \in Int
    BY <1>3
  <2>2. f = e \/ key[e] < key[f] \/ (key[f] = key[e] /\ e < f)
    BY <1>2, <1>7
  <2> QED BY ONLY <2>1, <2>2
<1> QED BY <1>8

\* How far off the spine a member is tapped.
OffSpine(e) == LET y == Geometry.taps[e][2] - At(Graph, Bundle)[2] IN IF y < 0 THEN -y ELSE y

LEMMA SharedIsDrawn ==
  ASSUME BundlesTyped, ShareRoute
  PROVE  /\ order # <<>> /\ IsDrawnBundle(Bundle, SharedGeometry) /\ SharedGeometry.x = Geometry.x
         /\ Representative \in MemberEdges(Bundle)
         /\ SegmentCount(routes[Representative]) \in Int
         /\ [e \in DOMAIN routes |-> IF e \in MemberEdges(Bundle) THEN routes[Representative] ELSE routes[e]]
              \in RoutesOf(Wires)
<1>1. order # <<>> /\ IsDrawnBundle(Bundle, Geometry)
  BY DEF BundlesTyped, ShareRoute, Under
<1>2. BundleOver(Wires, Graph, Bundle) /\ MemberEdges(Bundle) \in SUBSET Wires
  BY <1>1, BundleAtHand
<1>3. PICK es : es = MemberEdges(Bundle)
  OBVIOUS
<1>4. es \in SUBSET Int /\ IsFiniteSet(es) /\ es # {}
  <2>1. Wires \in SUBSET Int
    BY JobsAssumption DEF BundlesTyped, Wires
  <2>2. IsFiniteSet(es)
    BY <1>2, <1>3, MembersAreEdges
  <2>3. es # {}
    <3>1. Len(Bundle.members) >= 2 /\ Len(Bundle.members) \in Nat
      BY <1>2 DEF ShareRoute, Shareable, ShareOpposite, BundleOver
    <3>2. Cardinality(es) = Len(Bundle.members)
      BY <1>2, <1>3, MembersAreEdges
    <3>3. IsFiniteSet(es) => (Cardinality(es) = 0 <=> es = {})
      BY FS_EmptySet
    <3> QED BY <2>2, <3>1, <3>2, <3>3
  <2> QED BY <1>2, <1>3, <2>1, <2>2, <2>3
<1>5. PICK height \in Int : height = At(Graph, Bundle)[2]
  BY <1>2 DEF BundleOver, Points
<1>6. PICK off : off = [e \in es |-> OffSpine(e)]
  OBVIOUS
<1>7. \A e \in es : off[e] \in Int
  <2> SUFFICES ASSUME NEW e \in es PROVE off[e] \in Int
    OBVIOUS
  <2>1. Geometry.taps[e] \in Points
    BY <1>1, <1>3 DEF IsDrawnBundle
  <2>2. Geometry.taps[e][2] \in Int
    BY <2>1 DEF Points
  <2> QED BY <1>5, <1>6, <2>2 DEF OffSpine
<1>8. off \in [es -> Int]
  BY <1>6, <1>7
<1>9. \E e \in es : \A f \in es : off[e] < off[f] \/ (off[e] = off[f] /\ e <= f)
  BY ONLY <1>4, <1>8, LeastByKey
<1>10. \E e \in es : \A f \in es : OffSpine(e) < OffSpine(f) \/ (OffSpine(e) = OffSpine(f) /\ e <= f)
  <2>1. \A e \in es : off[e] = OffSpine(e)
    BY <1>6
  <2> QED BY ONLY <1>9, <2>1
<1>11. Representative \in es
  <2>1. Representative = CHOOSE e \in MemberEdges(Bundle) : \A f \in MemberEdges(Bundle) :
                           OffSpine(e) < OffSpine(f) \/ (OffSpine(e) = OffSpine(f) /\ e <= f)
    BY DEF Representative, OffSpine
  <2> QED BY ONLY <1>3, <1>10, <2>1
<1>12. PICK r : r = routes[Representative]
  OBVIOUS
<1>13. r \in Seq(Points) /\ Len(r) >= 1
  BY <1>2, <1>3, <1>11, <1>12 DEF BundlesTyped, RoutesOf
<1>14. SegmentCount(r) \in Int
  BY <1>13 DEF SegmentCount
<1>15. PICK rs : rs = [e \in DOMAIN routes |-> IF e \in es THEN r ELSE routes[e]]
  OBVIOUS
<1>16. rs \in RoutesOf(Wires)
  <2>1. DOMAIN routes = Wires /\ \A e \in Wires : routes[e] \in Seq(Points) /\ Len(routes[e]) >= 1
    BY DEF BundlesTyped, RoutesOf
  <2>2. rs = [e \in Wires |-> IF e \in es THEN r ELSE routes[e]]
    BY <1>15, <2>1
  <2>3. \A e \in Wires : rs[e] \in Seq(Points) /\ Len(rs[e]) >= 1
    BY <1>13, <2>1, <2>2
  <2> QED BY <2>2, <2>3 DEF RoutesOf
<1>17. IsDrawnBundle(Bundle, SharedGeometry) /\ SharedGeometry.x = Geometry.x
  <2>1. Geometry.taps[Representative] \in Points
    BY <1>1, <1>3, <1>11 DEF IsDrawnBundle
  <2>2. SharedGeometry.x = Geometry.x /\ SharedGeometry.taps = [e \in MemberEdges(Bundle) |-> Geometry.taps[Representative]]
    BY DEF SharedGeometry, Extent
  <2> QED BY <1>1, <2>1, <2>2 DEF IsDrawnBundle
<1> QED BY <1>1, <1>3, <1>11, <1>12, <1>14, <1>15, <1>16, <1>17

\* What a candidate for a promotion leaves behind.
AttemptLeaves(d, rs) ==
  /\ Draw(d, rs) /\ IsDrawnBundle(Bundle, d) /\ rs \in RoutesOf(Wires)
  /\ \A e \in Wires \ MemberEdges(Bundle) : rs[e] = saved[e]
  /\ d = FallbackGeometry \/ d = Promoted

LEMMA AttemptIsDrawn ==
  ASSUME BundlesTyped, step = "promote", promotions # {}
  PROVE  /\ IsDrawnBundle(Bundle, Promoted)
         /\ RewriteMemberRoutes(Graph, Current, Promoted, saved) \in RoutesOf(Wires)
         /\ \A e \in Wires \ MemberEdges(Bundle) :
              RewriteMemberRoutes(Graph, Current, Promoted, saved)[e] = saved[e]
         /\ Attempted => \E d, rs : AttemptLeaves(d, rs)
<1>1. order # <<>> /\ saved \in RoutesOf(Wires)
  BY DEF BundlesTyped, Under
<1>2. Tried \in Int
  BY TriedIsCandidate
<1>3. IsDrawnBundle(Bundle, Promoted) /\ IsDrawnBundle(Bundle, FallbackGeometry)
  BY <1>1, <1>2, BuiltHere DEF Promoted
<1>4. PICK rs : rs = RewriteMemberRoutes(Graph, Current, Promoted, saved)
  OBVIOUS
<1>5. rs \in RoutesOf(Wires) /\ \A e \in Wires \ MemberEdges(Bundle) : rs[e] = saved[e]
  BY <1>1, <1>3, <1>4, DrawnHere
<1>6. Attempted => \/ Draw(FallbackGeometry, saved) \/ Draw(FallbackGeometry, rs) \/ Draw(Promoted, rs)
  BY <1>4 DEF Attempted
<1>7. /\ Draw(FallbackGeometry, saved) => AttemptLeaves(FallbackGeometry, saved)
      /\ Draw(FallbackGeometry, rs) => AttemptLeaves(FallbackGeometry, rs)
      /\ Draw(Promoted, rs) => AttemptLeaves(Promoted, rs)
  BY <1>1, <1>3, <1>5 DEF AttemptLeaves
<1>8. Attempted => \E d, qs : AttemptLeaves(d, qs)
  BY <1>6, <1>7
<1> QED BY <1>3, <1>4, <1>5, <1>8

LEMMA TypedStep == BundlesTyped /\ BundlesNext => BundlesTyped'
<1> SUFFICES ASSUME BundlesTyped, BundlesNext PROVE BundlesTyped'
  OBVIOUS
<1>1. CASE TakePreserved
  <2> USE <1>1 DEF TakePreserved
  <2>1. Graph' = Graph /\ Wires' = Wires
    BY DEF Graph, Wires
  <2>2. order' \in Seq(DOMAIN Graph'.bundles) /\ prior' \in Seq(DOMAIN Graph'.bundles)
    BY <2>1, BundleAtHand
  <2>3. /\ plan' \in [DOMAIN Graph'.bundles -> Int \cup {Nothing}]
        /\ InteriorAllowed(job') \/ \A i \in DOMAIN Graph'.bundles : plan'[i] = Nothing
        /\ job' \in Jobs /\ DOMAIN drawn' = DOMAIN Graph'.bundles /\ DOMAIN taken' = Roles
        /\ routes' \in RoutesOf(Wires') /\ saved' \in RoutesOf(Wires')
        /\ count' \in Int /\ before' \in Int
        /\ promotions' \in SUBSET Int /\ IsFiniteSet(promotions') /\ step' = "next"
    BY <2>1 DEF BundlesTyped
  <2> QED BY <2>2, <2>3 DEF BundlesTyped, Under
<1>2. CASE DrawBundle
  <2>1. order # <<>> /\ routes \in RoutesOf(Wires)
    BY <1>2 DEF DrawBundle, BundlesTyped
  <2>2. PICK d : d = BuildGeometry(Graph, Bundle, routes, PlannedX)
    OBVIOUS
  <2>3. CASE Unled(Graph, Current, d, routes) # {}
    BY <1>2, <2>2, <2>3, TypedAbandon DEF DrawBundle
  <2>4. CASE Unled(Graph, Current, d, routes) = {}
    <3>1. PICK rs : rs = RewriteMemberRoutes(Graph, Current, d, routes)
      OBVIOUS
    <3>2. /\ Draw(d, rs) /\ UNCHANGED <<job, plan, order, prior, taken, count, promotions>>
          /\ saved' = routes /\ before' = SumOf(MemberEdges(Bundle), routes) /\ step' \in Under
      BY <1>2, <2>2, <2>4, <3>1 DEF DrawBundle, Under
    <3>3. IsDrawnBundle(Bundle, d)
      BY <2>1, <2>2, PlannedIsNumber, BuiltHere
    <3>4. rs \in RoutesOf(Wires)
      BY <2>1, <3>1, <3>3, DrawnHere
    <3>5. SumOf(MemberEdges(Bundle), routes) \in Int
      BY <2>1, BundleAtHand, RouteSums
    <3>6. promotions' \in SUBSET Int /\ IsFiniteSet(promotions')
      BY <3>2 DEF BundlesTyped
    <3> QED BY <2>1, <3>2, <3>3, <3>4, <3>5, <3>6, TypedDraw
  <2> QED BY <2>3, <2>4
<1>3. CASE KeepPlanned
  BY <1>3 DEF KeepPlanned, drawing, BundlesTyped, Under, Wires, Graph, Bundle, Current, Geometry
<1>4. CASE FallBack
  <2>1. order # <<>> /\ saved \in RoutesOf(Wires)
    BY <1>4 DEF FallBack, BundlesTyped, Under
  <2>2. PICK d : d = BuildGeometry(Graph, Bundle, saved, Nothing)
    OBVIOUS
  <2>3. CASE Unled(Graph, Current, d, saved) # {}
    BY <1>4, <2>2, <2>3, TypedAbandon DEF FallBack
  <2>4. CASE Unled(Graph, Current, d, saved) = {}
    <3>1. PICK rs : rs = RewriteMemberRoutes(Graph, Current, d, saved)
      OBVIOUS
    <3>2. /\ Draw(d, rs) /\ step' \in Under
          /\ UNCHANGED <<job, plan, order, prior, taken, count, before, saved, promotions>>
      BY <1>4, <2>2, <2>4, <3>1 DEF FallBack, Under
    <3>3. IsDrawnBundle(Bundle, d)
      BY <2>1, <2>2, BuiltHere
    <3>4. rs \in RoutesOf(Wires)
      BY <2>1, <3>1, <3>3, DrawnHere
    <3>5. /\ promotions' \in SUBSET Int /\ IsFiniteSet(promotions')
          /\ before' \in Int /\ saved' \in RoutesOf(Wires)
      BY <3>2 DEF BundlesTyped
    <3> QED BY <2>1, <3>2, <3>3, <3>4, <3>5, TypedDraw
  <2> QED BY <2>3, <2>4
<1>5. CASE CheckLimit
  BY <1>5, TypedAbandon DEF CheckLimit
<1>6. CASE FindPromotions
  <2>1. order # <<>>
    BY <1>6 DEF FindPromotions, BundlesTyped, Under
  <2>2. promotions' \in SUBSET Int /\ IsFiniteSet(promotions')
    BY <1>6, <2>1, CandidatesAreNumbers
  <2>3. step \in Under /\ step' \in Under
    BY <1>6 DEF FindPromotions, Under
  <2>4. UNCHANGED <<job, plan, order, routes, drawn, prior, taken, count, before>> /\ saved' = routes
    BY <1>6 DEF FindPromotions
  <2> QED BY <2>1, <2>2, <2>3, <2>4 DEF BundlesTyped, Wires, Graph, Bundle, Current, Geometry
<1>7. CASE RejectPromotion
  <2>1. order # <<>> /\ step = "promote" /\ promotions # {}
    BY <1>7 DEF RejectPromotion, BundlesTyped, Under
  <2>2. PICK d, rs : AttemptLeaves(d, rs)
    BY <1>7, <2>1, AttemptIsDrawn DEF RejectPromotion
  <2>3. promotions' \in SUBSET promotions
    BY <1>7 DEF RejectPromotion
  <2>4. promotions' \in SUBSET Int /\ IsFiniteSet(promotions')
    BY <2>3, FS_Subset DEF BundlesTyped
  <2>5. /\ UNCHANGED <<job, plan, order, prior, taken, count>>
        /\ before' \in Int /\ saved' \in RoutesOf(Wires) /\ step' \in Under
    BY <1>7, <2>1 DEF RejectPromotion, BundlesTyped, Under
  <2>6. Draw(d, rs) /\ IsDrawnBundle(Bundle, d) /\ rs \in RoutesOf(Wires)
    BY <2>2 DEF AttemptLeaves
  <2> QED BY <2>1, <2>6, <2>4, <2>5, TypedDraw
<1>8. CASE AcceptPromotion
  <2>1. order # <<>> /\ step = "promote" /\ promotions # {}
    BY <1>8 DEF AcceptPromotion, BundlesTyped, Under
  <2>2. PICK rs : rs = RewriteMemberRoutes(Graph, Current, Promoted, saved)
    OBVIOUS
  <2>3. IsDrawnBundle(Bundle, Promoted) /\ rs \in RoutesOf(Wires) /\ Draw(Promoted, rs)
    BY <1>8, <2>1, <2>2, AttemptIsDrawn DEF AcceptPromotion
  <2>4. /\ UNCHANGED <<job, plan, order, prior, taken, count>>
        /\ before' \in Int /\ saved' \in RoutesOf(Wires) /\ step' \in Under
        /\ promotions' \in SUBSET Int
    BY <1>8, <2>1 DEF AcceptPromotion, BundlesTyped, Under
  <2>5. IsFiniteSet(promotions')
    BY <1>8, FS_EmptySet DEF AcceptPromotion
  <2> QED BY <2>1, <2>3, <2>4, <2>5, TypedDraw
<1>9. CASE EndPromotions
  <2>1. order # <<>> /\ saved \in RoutesOf(Wires)
    BY <1>9 DEF EndPromotions, BundlesTyped, Under
  <2>2. IsDrawnBundle(Bundle, FallbackGeometry) /\ Draw(FallbackGeometry, saved)
    BY <1>9, <2>1, BuiltHere DEF EndPromotions, Restore
  <2>3. /\ UNCHANGED <<job, plan, order, prior, taken, count>>
        /\ before' \in Int /\ saved' \in RoutesOf(Wires) /\ step' \in Under
        /\ promotions' \in SUBSET Int
    BY <1>9, <2>1 DEF EndPromotions, BundlesTyped, Under
  <2>4. IsFiniteSet(promotions')
    BY <1>9, FS_EmptySet DEF EndPromotions
  <2> QED BY <2>1, <2>2, <2>3, <2>4, TypedDraw
<1>10. CASE PromotionLimit
  BY <1>10, TypedAbandon DEF PromotionLimit
<1>11. CASE ShareRoute
  <2>1. PICK rs : rs = [e \in DOMAIN routes |->
                          IF e \in MemberEdges(Bundle) THEN routes[Representative] ELSE routes[e]]
    OBVIOUS
  <2>2. /\ order # <<>> /\ IsDrawnBundle(Bundle, SharedGeometry) /\ rs \in RoutesOf(Wires)
        /\ SegmentCount(routes[Representative]) \in Int
    BY <1>11, <2>1, SharedIsDrawn
  <2>3. CountWith(SharedSegments) \in Int
    <3>1. Len(Bundle.members) \in Int
      BY <2>2, BundleAtHand DEF BundleOver
    <3>2. \A i, j \in Int : i * j \in Int
      OBVIOUS
    <3>3. SharedSegments \in Int
      BY <2>2, <3>1, <3>2 DEF SharedSegments
    <3> QED BY <3>3 DEF CountWith, BundlesTyped
  <2>4. Close(SharedGeometry, rs, CountWith(SharedSegments))
    BY <1>11, <2>1 DEF ShareRoute
  <2> QED BY <2>2, <2>3, <2>4, TypedClose
<1>12. CASE KeepRoutes
  <2>1. order # <<>> /\ IsDrawnBundle(Bundle, Geometry) /\ routes \in RoutesOf(Wires)
    BY <1>12 DEF KeepRoutes, BundlesTyped, Under
  <2>2. SumOf(MemberEdges(Bundle), routes) \in Int
    BY <2>1, BundleAtHand, RouteSums
  <2>3. CountWith(SumOf(MemberEdges(Bundle), routes)) \in Int
    BY <2>2 DEF CountWith, BundlesTyped
  <2>4. Close(Geometry, routes, CountWith(SumOf(MemberEdges(Bundle), routes)))
    BY <1>12 DEF KeepRoutes
  <2> QED BY <2>1, <2>3, <2>4, TypedClose
<1>13. CASE Verify
  BY <1>13 DEF Verify, drawing, BundlesTyped, Under, Wires, Graph
<1>14. CASE Refuse
  BY <1>14, TypedAbandon DEF Refuse
<1> QED BY <1>1, <1>2, <1>3, <1>4, <1>5, <1>6, <1>7, <1>8, <1>9, <1>10, <1>11, <1>12, <1>13, <1>14
        DEF BundlesNext

\* Types: routes stay routes of the same wires, with at least one point, plans and promotions are
\* numbers, and the bundle under way always has a collector and a tap for each of its members
\* (apply_bundle_geometry, plan_interior_collectors).
THEOREM BundlesTypeCorrect == BundlesSpec => []BundlesTyped
<1>1. BundlesTyped /\ UNCHANGED bundleVars => BundlesTyped'
  BY DEF bundleVars, drawing, BundlesTyped, Under, Wires, Graph, Bundle, Current, Geometry
<1>2. BundlesTyped /\ [BundlesNext]_bundleVars => BundlesTyped'
  BY <1>1, TypedStep
<1> QED BY <1>2, TypedInit, PTL DEF BundlesSpec

-----------------------------------------------------------------------------
(* The count of segments.                                                  *)

\* What the count says of the routes that the bundle at hand has no part in.
OthersHave(rs) == SumOf(Wires \ MemberEdges(Bundle), rs)

\* The count is right between bundles; while one is under way, what it leaves out of `before` is
\* what the other wires have, in the routes as they are and in those kept.
Counted ==
  /\ SegmentsCounted
  /\ step \in Under => count - before = OthersHave(routes) /\ count - before = OthersHave(saved)

LEMMA OthersAgree ==
  ASSUME BundlesTyped, order # <<>>, NEW rs \in RoutesOf(Wires), NEW qs,
         \A e \in Wires \ MemberEdges(Bundle) : qs[e] = rs[e]
  PROVE  OthersHave(qs) = OthersHave(rs)
<1>1. PICK S : S = Wires \ MemberEdges(Bundle)
  OBVIOUS
<1>2. IsFiniteSet(S)
  <2>1. S \in SUBSET Wires /\ IsFiniteSet(Wires)
    BY <1>1, BundleAtHand
  <2> QED BY ONLY <2>1, FS_Subset
<1>3. \A e \in S : SegmentCount(rs[e]) \in Int /\ qs[e] = rs[e]
  BY <1>1 DEF RoutesOf, SegmentCount
<1>4. SumOf(S, rs) = SumOf(S, qs)
  BY ONLY <1>2, <1>3, SumOfSame
<1> QED BY <1>1, <1>4 DEF OthersHave

\* Drawing anew from routes that count right leaves them counted right.
LEMMA CountedDraw ==
  ASSUME BundlesTyped, order # <<>>, NEW rs, NEW qs \in RoutesOf(Wires), routes' = rs,
         UNCHANGED <<job, order>>, step' \in Under,
         count' - before' = OthersHave(qs), count' - before' = OthersHave(saved'),
         \A e \in Wires \ MemberEdges(Bundle) : rs[e] = qs[e]
  PROVE  Counted'
<1>1. OthersHave(rs) = OthersHave(qs)
  BY OthersAgree
<1>2. OthersHave(routes)' = OthersHave(rs) /\ OthersHave(saved)' = OthersHave(saved')
  BY DEF OthersHave, Wires, Bundle, Current, Graph
<1>3. step' # "next"
  BY DEF Under
<1> QED BY <1>1, <1>2, <1>3 DEF Counted, SegmentsCounted

LEMMA CountedAbandon ==
  ASSUME Counted, Abandon
  PROVE  Counted'
BY DEF Counted, SegmentsCounted, Abandon, Under

LEMMA CountedClose ==
  ASSUME BundlesTyped, Counted, step \in Under, order # <<>>,
         NEW d, NEW rs \in RoutesOf(Wires), NEW segments,
         \A e \in Wires \ MemberEdges(Bundle) : rs[e] = routes[e],
         segments = CountWith(SumOf(MemberEdges(Bundle), rs)), Close(d, rs, segments)
  PROVE  Counted'
<1>1. OthersHave(rs) = OthersHave(routes)
  BY OthersAgree DEF BundlesTyped
<1>2. count - before = OthersHave(rs) /\ count \in Int /\ before \in Int
  BY <1>1 DEF Counted, BundlesTyped
<1>3. /\ SumOf(MemberEdges(Bundle), rs) \in Int
      /\ SumOf(Wires, rs) = SumOf(MemberEdges(Bundle), rs) + SumOf(Wires \ MemberEdges(Bundle), rs)
  BY BundleAtHand, RouteSums
<1>4. segments = SumOf(Wires, rs)
  BY <1>2, <1>3 DEF CountWith, OthersHave
<1>5. DOMAIN rs = Wires
  BY DEF RoutesOf
<1>6. count' = segments /\ routes' = rs /\ step' = "next"
  BY DEF Close, Draw
<1> QED BY <1>4, <1>5, <1>6 DEF Counted, SegmentsCounted, Under

LEMMA CountedInit == BundlesInit => Counted
BY DEF BundlesInit, Counted, SegmentsCounted, Under

LEMMA CountedStep == BundlesTyped /\ Counted /\ BundlesNext => Counted'
<1> SUFFICES ASSUME BundlesTyped, Counted, BundlesNext PROVE Counted'
  OBVIOUS
<1>a. step \in Under => order # <<>> /\ routes \in RoutesOf(Wires) /\ saved \in RoutesOf(Wires)
  BY DEF BundlesTyped
<1>1. CASE TakePreserved
  BY <1>1 DEF TakePreserved, Counted, SegmentsCounted, Under
<1>2. CASE DrawBundle
  <2>1. order # <<>> /\ routes \in RoutesOf(Wires) /\ step = "next"
    BY <1>2 DEF DrawBundle, BundlesTyped
  <2>2. PICK d : d = BuildGeometry(Graph, Bundle, routes, PlannedX)
    OBVIOUS
  <2>3. CASE Unled(Graph, Current, d, routes) # {}
    BY <1>2, <2>2, <2>3, CountedAbandon DEF DrawBundle
  <2>4. CASE Unled(Graph, Current, d, routes) = {}
    <3>1. PICK rs : rs = RewriteMemberRoutes(Graph, Current, d, routes)
      OBVIOUS
    <3>2. /\ Draw(d, rs) /\ UNCHANGED <<job, plan, order, prior, taken, count, promotions>>
          /\ saved' = routes /\ before' = SumOf(MemberEdges(Bundle), routes) /\ step' \in Under
      BY <1>2, <2>2, <2>4, <3>1 DEF DrawBundle, Under
    <3>3. IsDrawnBundle(Bundle, d)
      BY <2>1, <2>2, PlannedIsNumber, BuiltHere
    <3>4. \A e \in Wires \ MemberEdges(Bundle) : rs[e] = routes[e]
      BY <2>1, <3>1, <3>3, DrawnHere
    <3>5. count' - before' = OthersHave(routes)
      <4>1. /\ SumOf(MemberEdges(Bundle), routes) \in Int /\ OthersHave(routes) \in Int
            /\ SumOf(Wires, routes) = SumOf(MemberEdges(Bundle), routes) + OthersHave(routes)
        BY <2>1, BundleAtHand, RouteSums DEF OthersHave
      <4>2. count = SumOf(Wires, routes)
        <5>1. DOMAIN routes = Wires
          BY <2>1 DEF RoutesOf
        <5> QED BY <2>1, <5>1 DEF Counted, SegmentsCounted
      <4> QED BY <3>2, <4>1, <4>2
    <3> QED BY <2>1, <3>2, <3>4, <3>5, CountedDraw DEF Draw
  <2> QED BY <2>3, <2>4
<1>3. CASE KeepPlanned
  <2>1. step \in Under /\ step' \in Under /\ step' # "next" /\ UNCHANGED drawing
    BY <1>3 DEF KeepPlanned, Under
  <2> QED BY <2>1 DEF drawing, Counted, SegmentsCounted, OthersHave, Wires, Bundle, Current, Graph
<1>4. CASE FallBack
  <2>1. order # <<>> /\ saved \in RoutesOf(Wires) /\ step \in Under
    BY <1>4, <1>a DEF FallBack, Under
  <2>2. PICK d : d = BuildGeometry(Graph, Bundle, saved, Nothing)
    OBVIOUS
  <2>3. CASE Unled(Graph, Current, d, saved) # {}
    BY <1>4, <2>2, <2>3, CountedAbandon DEF FallBack
  <2>4. CASE Unled(Graph, Current, d, saved) = {}
    <3>1. PICK rs : rs = RewriteMemberRoutes(Graph, Current, d, saved)
      OBVIOUS
    <3>2. /\ Draw(d, rs) /\ step' \in Under
          /\ UNCHANGED <<job, plan, order, prior, taken, count, before, saved, promotions>>
      BY <1>4, <2>2, <2>4, <3>1 DEF FallBack, Under
    <3>3. IsDrawnBundle(Bundle, d)
      BY <2>1, <2>2, BuiltHere
    <3>4. \A e \in Wires \ MemberEdges(Bundle) : rs[e] = saved[e]
      BY <2>1, <3>1, <3>3, DrawnHere
    <3>5. count' - before' = OthersHave(saved) /\ saved' = saved
      BY <2>1, <3>2 DEF Counted
    <3> QED BY <2>1, <3>2, <3>4, <3>5, CountedDraw DEF Draw
  <2> QED BY <2>3, <2>4
<1>5. CASE CheckLimit
  BY <1>5, CountedAbandon DEF CheckLimit
<1>6. CASE FindPromotions
  <2>1. step \in Under /\ step' \in Under
    BY <1>6 DEF FindPromotions, Under
  <2>2. UNCHANGED <<job, order, routes, count, before>> /\ saved' = routes
    BY <1>6 DEF FindPromotions
  <2>3. count' - before' = OthersHave(routes)
    BY <2>1, <2>2 DEF Counted
  <2> QED BY <1>a, <2>1, <2>2, <2>3, CountedDraw
<1>7. CASE RejectPromotion
  <2>1. order # <<>> /\ step = "promote" /\ promotions # {} /\ step \in Under
    BY <1>7, <1>a DEF RejectPromotion, Under
  <2>2. PICK d, rs : AttemptLeaves(d, rs)
    BY <1>7, <2>1, AttemptIsDrawn DEF RejectPromotion
  <2>3. UNCHANGED <<job, order, count, before, saved, step>>
    BY <1>7 DEF RejectPromotion
  <2>4. count' - before' = OthersHave(saved)
    BY <2>1, <2>3 DEF Counted
  <2>5. routes' = rs /\ \A e \in Wires \ MemberEdges(Bundle) : rs[e] = saved[e]
    BY <2>2 DEF AttemptLeaves, Draw
  <2> QED BY <1>a, <2>1, <2>3, <2>4, <2>5, CountedDraw
<1>8. CASE AcceptPromotion
  <2>1. order # <<>> /\ step = "promote" /\ promotions # {} /\ step \in Under
    BY <1>8, <1>a DEF AcceptPromotion, Under
  <2>2. PICK rs : rs = RewriteMemberRoutes(Graph, Current, Promoted, saved)
    OBVIOUS
  <2>3. Draw(Promoted, rs) /\ \A e \in Wires \ MemberEdges(Bundle) : rs[e] = saved[e]
    BY <1>8, <2>1, <2>2, AttemptIsDrawn DEF AcceptPromotion
  <2>4. UNCHANGED <<job, order, count, before, saved>> /\ step' \in Under
    BY <1>8 DEF AcceptPromotion, Under
  <2>5. count' - before' = OthersHave(saved)
    BY <2>1, <2>4 DEF Counted
  <2> QED BY <1>a, <2>1, <2>3, <2>4, <2>5, CountedDraw DEF Draw
<1>9. CASE EndPromotions
  <2>1. order # <<>> /\ step \in Under
    BY <1>9, <1>a DEF EndPromotions, Under
  <2>2. Draw(FallbackGeometry, saved) /\ UNCHANGED <<job, order, count, before, saved>> /\ step' \in Under
    BY <1>9 DEF EndPromotions, Restore, Under
  <2>3. count' - before' = OthersHave(saved)
    BY <2>1, <2>2 DEF Counted
  <2> QED BY <1>a, <2>1, <2>2, <2>3, CountedDraw DEF Draw
<1>10. CASE PromotionLimit
  BY <1>10, CountedAbandon DEF PromotionLimit
<1>11. CASE ShareRoute
  <2>1. step \in Under
    BY <1>11 DEF ShareRoute, Under
  <2>2. PICK rs : rs = [e \in DOMAIN routes |->
                          IF e \in MemberEdges(Bundle) THEN routes[Representative] ELSE routes[e]]
    OBVIOUS
  <2>3. PICK c : c = SegmentCount(routes[Representative])
    OBVIOUS
  <2>4. order # <<>> /\ rs \in RoutesOf(Wires) /\ c \in Int
    BY <1>11, <2>2, <2>3, SharedIsDrawn
  <2>5. DOMAIN routes = Wires
    BY DEF BundlesTyped, RoutesOf
  <2>6. BundleOver(Wires, Graph, Bundle) /\ MemberEdges(Bundle) \in SUBSET Wires
    BY <2>4, BundleAtHand
  <2>7. SumOf(MemberEdges(Bundle), rs) = c * Len(Bundle.members)
    <3>1. PICK es : es = MemberEdges(Bundle)
      OBVIOUS
    <3>2. IsFiniteSet(es) /\ Cardinality(es) = Len(Bundle.members)
      BY <2>6, <3>1, MembersAreEdges
    <3>3. \A e \in es : SegmentCount(rs[e]) = c
      BY <2>2, <2>3, <2>5, <2>6, <3>1
    <3>4. SumOf(es, rs) = c * Cardinality(es)
      BY ONLY <2>4, <3>2, <3>3, SumOfEqual
    <3> QED BY <3>1, <3>2, <3>4
  <2>8. Close(SharedGeometry, rs, CountWith(SharedSegments))
    BY <1>11, <2>2 DEF ShareRoute
  <2>9. CountWith(SharedSegments) = CountWith(SumOf(MemberEdges(Bundle), rs))
    BY <2>3, <2>7 DEF SharedSegments
  <2>10. \A e \in Wires \ MemberEdges(Bundle) : rs[e] = routes[e]
    BY <2>2, <2>5
  <2> QED BY <2>1, <2>4, <2>8, <2>9, <2>10, CountedClose
<1>12. CASE KeepRoutes
  <2>1. step \in Under
    BY <1>12 DEF KeepRoutes, Under
  <2>2. Close(Geometry, routes, CountWith(SumOf(MemberEdges(Bundle), routes)))
    BY <1>12 DEF KeepRoutes
  <2> QED BY <1>a, <2>1, <2>2, CountedClose
<1>13. CASE Verify
  BY <1>13 DEF Verify, Counted, SegmentsCounted, Under
<1>14. CASE Refuse
  BY <1>14, CountedAbandon DEF Refuse
<1> QED BY <1>1, <1>2, <1>3, <1>4, <1>5, <1>6, <1>7, <1>8, <1>9, <1>10, <1>11, <1>12, <1>13, <1>14
        DEF BundlesNext

\* Between two bundles the running count of segments is what the routes have, whatever was planned
\* and dropped, promoted and taken back, or shared in between (apply_bundle_geometry).
THEOREM SegmentsAreCounted == BundlesSpec => []SegmentsCounted
<1>1. BundlesTyped /\ Counted /\ UNCHANGED bundleVars => Counted'
  BY DEF bundleVars, drawing, Counted, SegmentsCounted, OthersHave, Wires, Bundle, Current, Graph
<1>2. BundlesTyped /\ Counted /\ [BundlesNext]_bundleVars => Counted'
  BY <1>1, CountedStep
<1>3. Counted => SegmentsCounted
  BY DEF Counted
<1> QED BY <1>2, <1>3, CountedInit, BundlesTypeCorrect, PTL DEF BundlesSpec

-----------------------------------------------------------------------------
(* Lanes.                                                                  *)

\* The place of a bundle that was given or is drawn.
PlaceOf(j) == IF j \in DOMAIN job.given THEN job.given[j].x ELSE drawn[j].x

\* The bundles that the n-th of those drawn has to keep off.
Earlier(n) ==
  {j \in DOMAIN Graph.bundles \ {prior[n]} :
     Graph.bundles[j].role = Graph.bundles[prior[n]].role
     /\ (j \in DOMAIN job.given \/ \E k \in 1 .. n - 1 : prior[k] = j)}

\* What is drawn keeps off what is taken, which is what was given or drawn before.
Parted ==
  /\ step = "failed" \/ Preservable(job)
  /\ \A i, k \in DOMAIN order : order[i] = order[k] => i = k
  /\ \A n \in DOMAIN prior, i \in DOMAIN order : prior[n] # order[i]
  /\ InteriorAllowed(job) =>
       /\ \A j \in DOMAIN job.given : job.given[j].x \in taken[Graph.bundles[j].role]
       /\ \A n \in DOMAIN prior : PlaceOf(prior[n]) \in taken[Graph.bundles[prior[n]].role]
  /\ step \in Under /\ Interior(Graph, Bundle, Geometry) =>
       InteriorAllowed(job) /\ LaneSeparated(Geometry.x, taken[Bundle.role])
  /\ \A x \in promotions :
       step = "promote" => InteriorAllowed(job) /\ LaneSeparated(x, taken[Bundle.role])
  /\ \A n \in DOMAIN prior :
       prior[n] \notin job.preserved /\ Interior(Graph, Graph.bundles[prior[n]], drawn[prior[n]]) =>
         LaneSeparated(drawn[prior[n]].x, {PlaceOf(j) : j \in Earlier(n)})

LEMMA LaneSeparatedFromFewer ==
  ASSUME NEW x, NEW many, NEW few \in SUBSET many, LaneSeparated(x, many)
  PROVE  LaneSeparated(x, few)
BY DEF LaneSeparated

LEMMA PartedInit == BundlesInit => Parted
<1> SUFFICES ASSUME BundlesInit PROVE Parted
  OBVIOUS
<1> USE DEF BundlesInit
<1>1. step = "failed" \/ Preservable(job)
  OBVIOUS
<1>2. \A i, k \in DOMAIN order : order[i] = order[k] => i = k
  BY JobFacts
<1>3. ASSUME InteriorAllowed(job), NEW j \in DOMAIN job.given
      PROVE  job.given[j].x \in taken[Graph.bundles[j].role]
  <2>1. j \in DOMAIN job.graph.bundles
    BY <1>3, JobsAssumption
  <2>2. job.graph.bundles[j].role \in Roles
    BY <2>1, JobsAssumption
  <2>3. taken[job.graph.bundles[j].role] =
          {job.given[i].x : i \in {k \in DOMAIN job.given : job.graph.bundles[k].role = job.graph.bundles[j].role}}
    BY <1>3, <2>2 DEF TakenByPreserved
  <2> QED BY <2>3 DEF Graph
<1>4. DOMAIN prior = {} /\ step \notin Under /\ step # "promote" /\ promotions = {}
  BY DEF Under
<1> QED BY <1>1, <1>2, <1>3, <1>4 DEF Parted

LEMMA PartedSame ==
  ASSUME Parted, UNCHANGED <<job, order, drawn, prior, taken>>,
         step # "failed" \/ step' = "failed", step' \in Under => step \in Under,
         \A x \in promotions' :
           step' = "promote" => InteriorAllowed(job) /\ LaneSeparated(x, taken[Bundle.role])
  PROVE  Parted'
<1>1. Graph' = Graph /\ Bundle' = Bundle /\ Geometry' = Geometry
  BY DEF Graph, Bundle, Current, Geometry
<1>2. \A n : Earlier(n)' = Earlier(n)
  BY <1>1 DEF Earlier
<1>3. \A j : PlaceOf(j)' = PlaceOf(j)
  BY DEF PlaceOf
<1>4. step' = "failed" \/ Preservable(job')
  BY DEF Parted
<1>5. /\ \A i, k \in DOMAIN order' : order'[i] = order'[k] => i = k
      /\ \A n \in DOMAIN prior', i \in DOMAIN order' : prior'[n] # order'[i]
  BY DEF Parted
<1>6. InteriorAllowed(job') =>
        /\ \A j \in DOMAIN job'.given : job'.given[j].x \in taken'[Graph'.bundles[j].role]
        /\ \A n \in DOMAIN prior' : PlaceOf(prior[n])' \in taken'[Graph'.bundles[prior'[n]].role]
  BY <1>1, <1>3 DEF Parted
<1>7. step' \in Under /\ Interior(Graph', Bundle', Geometry') =>
        InteriorAllowed(job') /\ LaneSeparated(Geometry'.x, taken'[Bundle'.role])
  BY <1>1 DEF Parted
<1>8. \A x \in promotions' :
        step' = "promote" => InteriorAllowed(job') /\ LaneSeparated(x, taken'[Bundle'.role])
  BY <1>1
<1>9. ASSUME NEW n \in DOMAIN prior', prior'[n] \notin job'.preserved,
             Interior(Graph', Graph'.bundles[prior'[n]], drawn'[prior'[n]])
      PROVE  LaneSeparated(drawn'[prior'[n]].x, {PlaceOf(j)' : j \in Earlier(n)'})
  <2>1. LaneSeparated(drawn[prior[n]].x, {PlaceOf(j) : j \in Earlier(n)})
    BY <1>1, <1>9 DEF Parted
  <2>2. {PlaceOf(j)' : j \in Earlier(n)'} = {PlaceOf(j) : j \in Earlier(n)}
    BY <1>2, <1>3
  <2> QED BY <2>1, <2>2
<1> QED BY <1>4, <1>5, <1>6, <1>7, <1>8, <1>9 DEF Parted

LEMMA PartedAbandon ==
  ASSUME Parted, Abandon
  PROVE  Parted'
<1>1. step' = "failed" /\ UNCHANGED drawing
  BY DEF Abandon
<1> QED BY <1>1 DEF drawing, Parted, Under, Graph, Bundle, Current, Geometry, PlaceOf, Earlier

\* While a bundle is worked on, what was drawn before and what is taken stay.
LEMMA PartedDraw ==
  ASSUME BundlesTyped, Parted, order # <<>>, step # "failed", NEW d, NEW rs, Draw(d, rs),
         UNCHANGED <<job, order, prior, taken>>, step' \in Under,
         Interior(Graph, Bundle, d) => InteriorAllowed(job) /\ LaneSeparated(d.x, taken[Bundle.role]),
         \A x \in promotions' :
           step' = "promote" => InteriorAllowed(job) /\ LaneSeparated(x, taken[Bundle.role])
  PROVE  Parted'
<1>1. Graph' = Graph /\ Current' = Current /\ Bundle' = Bundle
  BY DEF Graph, Current, Bundle
<1>2. Current \in DOMAIN drawn /\ DOMAIN drawn = DOMAIN Graph.bundles
  BY BundleAtHand DEF BundlesTyped
<1>3. drawn' = [drawn EXCEPT ![Current] = d]
  BY DEF Draw
<1>4. Geometry' = d
  BY <1>1, <1>2, <1>3 DEF Geometry
<1>5. ASSUME NEW n \in DOMAIN prior PROVE prior[n] # Current /\ drawn'[prior[n]] = drawn[prior[n]]
  <2>1. prior[n] # Current
    <3>1. 1 \in DOMAIN order /\ Current = order[1]
      BY DEF BundlesTyped, Current
    <3> QED BY <3>1 DEF Parted
  <2>2. prior[n] \in DOMAIN drawn
    BY <1>2 DEF BundlesTyped
  <2> QED BY <1>3, <2>1, <2>2
<1>6. \A n \in DOMAIN prior : PlaceOf(prior[n])' = PlaceOf(prior[n])
  BY <1>5 DEF PlaceOf
<1>7. ASSUME NEW n \in DOMAIN prior
      PROVE  Earlier(n)' = Earlier(n) /\ \A j \in Earlier(n) : PlaceOf(j)' = PlaceOf(j)
  <2>1. Earlier(n)' = Earlier(n)
    BY <1>1 DEF Earlier
  <2>2. ASSUME NEW j \in Earlier(n) PROVE PlaceOf(j)' = PlaceOf(j)
    <3>1. CASE j \in DOMAIN job.given
      BY <3>1 DEF PlaceOf
    <3>2. CASE j \notin DOMAIN job.given
      <4>1. PICK k \in 1 .. n - 1 : prior[k] = j
        BY <3>2 DEF Earlier
      <4>2. k \in DOMAIN prior
        BY <4>1 DEF BundlesTyped
      <4> QED BY <1>6, <4>1, <4>2
    <3> QED BY <3>1, <3>2
  <2> QED BY <2>1, <2>2
<1>8. Preservable(job') /\ \A i, k \in DOMAIN order' : order'[i] = order'[k] => i = k
  BY DEF Parted
<1>9. \A n \in DOMAIN prior', i \in DOMAIN order' : prior'[n] # order'[i]
  BY DEF Parted
<1>10. InteriorAllowed(job') =>
         /\ \A j \in DOMAIN job'.given : job'.given[j].x \in taken'[Graph'.bundles[j].role]
         /\ \A n \in DOMAIN prior' : PlaceOf(prior[n])' \in taken'[Graph'.bundles[prior'[n]].role]
  BY <1>1, <1>6 DEF Parted
<1>11. ASSUME NEW n \in DOMAIN prior', prior'[n] \notin job'.preserved,
              Interior(Graph', Graph'.bundles[prior'[n]], drawn'[prior'[n]])
       PROVE  LaneSeparated(drawn'[prior'[n]].x, {PlaceOf(j)' : j \in Earlier(n)'})
  <2>1. drawn'[prior[n]] = drawn[prior[n]] /\ n \in DOMAIN prior
    BY <1>5
  <2>2. LaneSeparated(drawn[prior[n]].x, {PlaceOf(j) : j \in Earlier(n)})
    BY <1>1, <1>11, <2>1 DEF Parted
  <2>3. {PlaceOf(j)' : j \in Earlier(n)'} = {PlaceOf(j) : j \in Earlier(n)}
    BY <1>7, <2>1
  <2> QED BY <2>1, <2>2, <2>3
<1>12. Interior(Graph', Bundle', Geometry') =>
         InteriorAllowed(job') /\ LaneSeparated(Geometry'.x, taken'[Bundle'.role])
  BY <1>1, <1>4
<1>13. \A x \in promotions' :
         step' = "promote" => InteriorAllowed(job') /\ LaneSeparated(x, taken'[Bundle'.role])
  BY <1>1
<1> QED BY <1>8, <1>9, <1>10, <1>11, <1>12, <1>13 DEF Parted

\* A bundle is added to those drawn; its place is taken, and it kept off what was taken before.
LEMMA PartedAppend ==
  ASSUME BundlesTyped, Parted, order # <<>>, step # "failed", step' = "next", job' = job,
         prior' = Append(prior, Current), order' = Tail(order),
         NEW d, drawn' = [drawn EXCEPT ![Current] = d],
         \A r \in Roles : taken[r] \subseteq taken'[r],
         InteriorAllowed(job) /\ Current \notin DOMAIN job.given => d.x \in taken'[Bundle.role],
         Current \notin job.preserved /\ Interior(Graph, Bundle, d) =>
           InteriorAllowed(job) /\ LaneSeparated(d.x, taken[Bundle.role])
  PROVE  Parted'
<1>1. Graph' = Graph
  BY DEF Graph
<1>2. /\ Current \in DOMAIN drawn /\ DOMAIN drawn = DOMAIN Graph.bundles /\ Bundle = Graph.bundles[Current]
      /\ GraphOver(Wires, Graph)
  BY BundleAtHand DEF BundlesTyped, Bundle
<1>3. \A j \in DOMAIN Graph.bundles : Graph.bundles[j].role \in Roles
  BY <1>2 DEF GraphOver, BundleOver
<1>4. PICK m \in Nat : m = Len(prior) /\ DOMAIN prior = 1..m
  BY DEF BundlesTyped
<1>5. /\ DOMAIN prior' = 1..(m + 1) /\ prior'[m + 1] = Current
      /\ \A n \in 1..m : prior'[n] = prior[n] /\ prior[n] \in DOMAIN Graph.bundles
  BY <1>2, <1>4 DEF BundlesTyped
<1>6. PICK q \in Nat : Len(order) = q /\ DOMAIN order = 1..q /\ q >= 1 /\ Current = order[1]
  BY DEF BundlesTyped, Current
<1>7. DOMAIN order' = 1..(q - 1) /\ \A i \in 1..(q - 1) : order'[i] = order[i + 1]
  BY <1>6 DEF BundlesTyped
<1>8. \A i, k \in DOMAIN order' : order'[i] = order'[k] => i = k
  <2>1. ASSUME NEW i \in 1..(q - 1), NEW k \in 1..(q - 1), order'[i] = order'[k]
        PROVE  i = k
    <3>1. i + 1 \in DOMAIN order /\ k + 1 \in DOMAIN order /\ order[i + 1] = order[k + 1]
      BY <1>6, <1>7, <2>1
    <3>2. i + 1 = k + 1
      BY <3>1 DEF Parted
    <3> QED BY <3>2
  <2> QED BY <1>7, <2>1
<1>9. ASSUME NEW n \in DOMAIN prior', NEW i \in DOMAIN order' PROVE prior'[n] # order'[i]
  <2>1. order'[i] = order[i + 1] /\ i + 1 \in DOMAIN order /\ i + 1 # 1 /\ 1 \in DOMAIN order
    BY <1>6, <1>7
  <2>2. CASE n = m + 1
    BY <1>5, <1>6, <2>1, <2>2 DEF Parted
  <2>3. CASE n # m + 1
    <3>1. n \in DOMAIN prior /\ prior'[n] = prior[n]
      BY <1>4, <1>5, <2>3
    <3> QED BY <2>1, <3>1 DEF Parted
  <2> QED BY <2>2, <2>3
<1>10. ASSUME NEW n \in 1..m PROVE prior[n] # Current /\ drawn'[prior[n]] = drawn[prior[n]]
  <2>1. prior[n] # Current
    BY <1>4, <1>6 DEF Parted
  <2>2. prior[n] \in DOMAIN drawn
    BY <1>2, <1>5
  <2> QED BY <2>1, <2>2
<1>11. ASSUME NEW n \in 1..m PROVE PlaceOf(prior[n])' = PlaceOf(prior[n])
  <2>1. prior'[n] = prior[n] /\ drawn'[prior[n]] = drawn[prior[n]]
    BY <1>5, <1>10
  <2> QED BY <2>1 DEF PlaceOf
<1>12. drawn'[Current] = d
  BY <1>2
<1>13. ASSUME NEW n \in 1..m
       PROVE  Earlier(n)' = Earlier(n) /\ \A j \in Earlier(n) : PlaceOf(j)' = PlaceOf(j)
  <2>1. \A k \in 1 .. n - 1 : k \in 1..m /\ prior'[k] = prior[k]
    BY <1>5
  <2>2. Earlier(n)' = Earlier(n)
    BY <1>1, <1>5, <2>1 DEF Earlier
  <2>3. ASSUME NEW j \in Earlier(n) PROVE PlaceOf(j)' = PlaceOf(j)
    <3>1. CASE j \in DOMAIN job.given
      BY <3>1 DEF PlaceOf
    <3>2. CASE j \notin DOMAIN job.given
      <4>1. PICK k \in 1 .. n - 1 : prior[k] = j
        BY <3>2 DEF Earlier
      <4>2. drawn'[j] = drawn[j]
        BY <1>10, <2>1, <4>1
      <4> QED BY <4>2 DEF PlaceOf
    <3> QED BY <3>1, <3>2
  <2> QED BY <2>2, <2>3
<1>14. ASSUME InteriorAllowed(job)
       PROVE  /\ \A j \in DOMAIN job.given : job.given[j].x \in taken[Graph.bundles[j].role]
              /\ \A n \in 1..m : PlaceOf(prior[n]) \in taken[Graph.bundles[prior[n]].role]
  BY <1>4, <1>14 DEF Parted
<1>15. ASSUME InteriorAllowed(job')
       PROVE  /\ \A j \in DOMAIN job'.given : job'.given[j].x \in taken'[Graph'.bundles[j].role]
              /\ \A n \in DOMAIN prior' : PlaceOf(prior[n])' \in taken'[Graph'.bundles[prior'[n]].role]
  <2>1. ASSUME NEW j \in DOMAIN job.given PROVE job.given[j].x \in taken'[Graph.bundles[j].role]
    <3>1. j \in DOMAIN Graph.bundles
      BY JobsAssumption DEF BundlesTyped, Graph
    <3> QED BY <1>3, <1>14, <1>15, <3>1
  <2>2. ASSUME NEW n \in 1..m PROVE PlaceOf(prior[n])' \in taken'[Graph.bundles[prior'[n]].role]
    BY <1>3, <1>5, <1>11, <1>14, <1>15
  <2>3. PlaceOf(prior[m + 1])' \in taken'[Graph.bundles[prior'[m + 1]].role]
    <3>1. CASE Current \in DOMAIN job.given
      BY <1>2, <1>5, <2>1, <3>1 DEF PlaceOf
    <3>2. CASE Current \notin DOMAIN job.given
      BY <1>2, <1>5, <1>12, <1>15, <3>2 DEF PlaceOf
    <3> QED BY <3>1, <3>2
  <2> QED BY <1>1, <1>5, <2>1, <2>2, <2>3
<1>16. ASSUME NEW n \in DOMAIN prior', prior'[n] \notin job'.preserved,
              Interior(Graph', Graph'.bundles[prior'[n]], drawn'[prior'[n]])
       PROVE  LaneSeparated(drawn'[prior'[n]].x, {PlaceOf(j)' : j \in Earlier(n)'})
  <2>1. CASE n \in 1..m
    <3>1. drawn'[prior[n]] = drawn[prior[n]] /\ prior'[n] = prior[n]
      BY <1>5, <1>10, <2>1
    <3>2. LaneSeparated(drawn[prior[n]].x, {PlaceOf(j) : j \in Earlier(n)})
      BY <1>1, <1>4, <1>16, <2>1, <3>1 DEF Parted
    <3>3. {PlaceOf(j)' : j \in Earlier(n)'} = {PlaceOf(j) : j \in Earlier(n)}
      BY <1>13, <2>1
    <3> QED BY <3>1, <3>2, <3>3
  <2>2. CASE n \notin 1..m
    <3>1. n = m + 1 /\ prior'[n] = Current /\ n - 1 = m
      BY <1>5, <2>2
    <3>2. InteriorAllowed(job) /\ LaneSeparated(d.x, taken[Bundle.role])
      BY <1>1, <1>2, <1>12, <1>16, <3>1
    <3>3. PICK few : few = {PlaceOf(j)' : j \in Earlier(n)'}
      OBVIOUS
    <3>4. ASSUME NEW j \in Earlier(n)' PROVE PlaceOf(j)' \in taken[Bundle.role]
      <4>1. /\ j \in DOMAIN Graph.bundles /\ Graph.bundles[j].role = Bundle.role
            /\ j \in DOMAIN job.given \/ \E k \in 1..m : prior'[k] = j
        BY <1>1, <1>2, <3>1 DEF Earlier
      <4>2. CASE j \in DOMAIN job.given
        BY <1>14, <3>2, <4>1, <4>2 DEF PlaceOf
      <4>3. CASE j \notin DOMAIN job.given
        <5>1. PICK k \in 1..m : prior'[k] = j
          BY <4>1, <4>3
        <5>2. prior[k] = j /\ drawn'[j] = drawn[j]
          BY <1>5, <1>10, <5>1
        <5>3. PlaceOf(prior[k]) \in taken[Graph.bundles[prior[k]].role]
          BY <1>14, <3>2
        <5> QED BY <4>1, <4>3, <5>2, <5>3 DEF PlaceOf
      <4> QED BY <4>2, <4>3
    <3>5. few \in SUBSET taken[Bundle.role]
      BY <3>3, <3>4
    <3> QED BY <1>12, <3>1, <3>2, <3>3, <3>5, LaneSeparatedFromFewer
  <2> QED BY <2>1, <2>2
<1>17. step' = "next" /\ Preservable(job')
  BY DEF Parted
<1> QED BY <1>8, <1>9, <1>15, <1>16, <1>17 DEF Parted, Under

LEMMA PartedClose ==
  ASSUME BundlesTyped, Parted, step \in Under, NEW d, NEW rs, NEW segments, Close(d, rs, segments),
         d.x = Geometry.x
  PROVE  Parted'
<1>1. order # <<>> /\ step # "failed"
  BY DEF BundlesTyped, Under
<1>2. Interior(Graph, Bundle, d) => InteriorAllowed(job) /\ LaneSeparated(d.x, taken[Bundle.role])
  BY DEF Parted, Interior, SpineLength
<1>3. Bundle.role \in Roles /\ DOMAIN taken = Roles
  BY <1>1, BundleAtHand DEF BundleOver, BundlesTyped
<1>4. /\ taken' = IF InteriorAllowed(job) THEN [taken EXCEPT ![Bundle.role] = @ \cup {d.x}] ELSE taken
      /\ drawn' = [drawn EXCEPT ![Current] = d]
      /\ step' = "next" /\ job' = job /\ prior' = Append(prior, Current) /\ order' = Tail(order)
  BY DEF Close, Draw
<1>5. \A r \in Roles : taken[r] \subseteq taken'[r]
  BY <1>3, <1>4
<1>6. InteriorAllowed(job) => d.x \in taken'[Bundle.role]
  BY <1>3, <1>4
<1> QED BY <1>1, <1>2, <1>4, <1>5, <1>6, PartedAppend

LEMMA PartedStep == BundlesTyped /\ Parted /\ BundlesNext => Parted'
<1> SUFFICES ASSUME BundlesTyped, Parted, BundlesNext PROVE Parted'
  OBVIOUS
<1>a. step \in Under => order # <<>> /\ routes \in RoutesOf(Wires) /\ saved \in RoutesOf(Wires)
  BY DEF BundlesTyped
<1>1. CASE TakePreserved
  <2>1. step # "failed" /\ step' = "next" /\ Current \in job.preserved /\ order # <<>>
    BY <1>1 DEF TakePreserved
  <2>2. Current \in DOMAIN job.given
    BY <2>1 DEF Parted, Preservable
  <2> QED BY <1>1, <2>1, <2>2, PartedAppend DEF TakePreserved
<1>2. CASE DrawBundle
  <2>1. order # <<>> /\ routes \in RoutesOf(Wires) /\ step = "next"
    BY <1>2 DEF DrawBundle, BundlesTyped
  <2>2. PICK d : d = BuildGeometry(Graph, Bundle, routes, PlannedX)
    OBVIOUS
  <2>3. CASE Unled(Graph, Current, d, routes) # {}
    BY <1>2, <2>2, <2>3, PartedAbandon DEF DrawBundle
  <2>4. CASE Unled(Graph, Current, d, routes) = {}
    <3>1. PICK rs : rs = RewriteMemberRoutes(Graph, Current, d, routes)
      OBVIOUS
    <3>2. /\ Draw(d, rs) /\ UNCHANGED <<job, order, prior, taken, promotions>>
          /\ step' \in Under /\ step' # "promote"
      BY <1>2, <2>2, <2>4, <3>1 DEF DrawBundle, Under
    <3>3. Interior(Graph, Bundle, d) => InteriorAllowed(job) /\ LaneSeparated(d.x, taken[Bundle.role])
      <4>1. PICK x : x = PlannedX
        OBVIOUS
      <4>2. /\ x \in Int \/ x = Nothing
            /\ x # Nothing => InteriorAllowed(job) /\ LaneSeparated(x, taken[Bundle.role])
        BY <2>1, <4>1, PlannedIsNumber
      <4>3. Interior(Graph, Bundle, d) => x # Nothing /\ d.x = x
        BY <2>1, <2>2, <4>1, <4>2, BuiltHere
      <4> QED BY <4>2, <4>3
    <3>4. step # "failed"
      BY <2>1
    <3>5. \A x \in promotions' :
            step' = "promote" => InteriorAllowed(job) /\ LaneSeparated(x, taken[Bundle.role])
      BY <3>2
    <3>6. UNCHANGED <<job, order, prior, taken>>
      BY <3>2
    <3> QED BY <2>1, <3>2, <3>3, <3>4, <3>5, <3>6, PartedDraw
  <2> QED BY <2>3, <2>4
<1>3. CASE KeepPlanned
  <2>1. step = "check" /\ step' = "settle" /\ UNCHANGED drawing
    BY <1>3 DEF KeepPlanned
  <2>2. step # "failed" /\ step' # "promote" /\ step \in Under
    BY <2>1 DEF Under
  <2>3. UNCHANGED <<job, order, drawn, prior, taken>>
    BY <2>1 DEF drawing
  <2>4. \A x \in promotions' :
          step' = "promote" => InteriorAllowed(job) /\ LaneSeparated(x, taken[Bundle.role])
    BY <2>2
  <2> QED BY <2>2, <2>3, <2>4, PartedSame
<1>4. CASE FallBack
  <2>1. order # <<>> /\ saved \in RoutesOf(Wires) /\ step = "check"
    BY <1>4, <1>a DEF FallBack, Under
  <2>2. PICK d : d = BuildGeometry(Graph, Bundle, saved, Nothing)
    OBVIOUS
  <2>3. CASE Unled(Graph, Current, d, saved) # {}
    BY <1>4, <2>2, <2>3, PartedAbandon DEF FallBack
  <2>4. CASE Unled(Graph, Current, d, saved) = {}
    <3>1. PICK rs : rs = RewriteMemberRoutes(Graph, Current, d, saved)
      OBVIOUS
    <3>2. Draw(d, rs) /\ step' \in Under /\ step' # "promote" /\ UNCHANGED <<job, order, prior, taken>>
      BY <1>4, <2>2, <2>4, <3>1 DEF FallBack, Under
    <3>3. ~ Interior(Graph, Bundle, d)
      BY <2>1, <2>2, BuiltHere
    <3>4. step # "failed"
      BY <2>1
    <3>5. \A x \in promotions' :
            step' = "promote" => InteriorAllowed(job) /\ LaneSeparated(x, taken[Bundle.role])
      BY <3>2
    <3> QED BY <2>1, <3>2, <3>3, <3>4, <3>5, PartedDraw
  <2> QED BY <2>3, <2>4
<1>5. CASE CheckLimit
  BY <1>5, PartedAbandon DEF CheckLimit
<1>6. CASE FindPromotions
  <2>1. order # <<>> /\ step = "settle" /\ step \in Under /\ step' \in Under
    BY <1>6, <1>a DEF FindPromotions, Under
  <2>2. UNCHANGED <<job, order, drawn, prior, taken>>
    BY <1>6 DEF FindPromotions
  <2>3. \A x \in promotions' : InteriorAllowed(job) /\ LaneSeparated(x, taken[Bundle.role])
    BY <1>6, <2>1, CandidatesAreNumbers
  <2>4. step # "failed"
    BY <2>1
  <2>5. \A x \in promotions' :
          step' = "promote" => InteriorAllowed(job) /\ LaneSeparated(x, taken[Bundle.role])
    BY <2>3
  <2> QED BY <2>1, <2>2, <2>4, <2>5, PartedSame
<1>7. CASE RejectPromotion
  <2>1. order # <<>> /\ step = "promote" /\ promotions # {} /\ step' = step
    BY <1>7, <1>a DEF RejectPromotion, Under
  <2>2. PICK d, rs : AttemptLeaves(d, rs)
    BY <1>7, <2>1, AttemptIsDrawn DEF RejectPromotion
  <2>3. UNCHANGED <<job, order, prior, taken>> /\ promotions' \in SUBSET promotions
    BY <1>7 DEF RejectPromotion
  <2>4. saved \in RoutesOf(Wires) /\ Tried \in promotions /\ Tried \in Int
    BY <2>1, TriedIsCandidate DEF BundlesTyped
  <2>5. Interior(Graph, Bundle, d) => InteriorAllowed(job) /\ LaneSeparated(d.x, taken[Bundle.role])
    <3>1. ~ Interior(Graph, Bundle, FallbackGeometry)
      BY <2>1, <2>4, BuiltHere
    <3>2. Interior(Graph, Bundle, Promoted) => Promoted.x = Tried
      BY <2>1, <2>4, BuiltHere DEF Promoted
    <3>3. InteriorAllowed(job) /\ LaneSeparated(Tried, taken[Bundle.role])
      BY <2>1, <2>4 DEF Parted
    <3> QED BY <2>2, <3>1, <3>2, <3>3 DEF AttemptLeaves
  <2>6. \A x \in promotions' : InteriorAllowed(job) /\ LaneSeparated(x, taken[Bundle.role])
    BY <2>1, <2>3 DEF Parted
  <2>7. Draw(d, rs) /\ step' \in Under /\ step # "failed"
    BY <2>1, <2>2 DEF AttemptLeaves, Under
  <2> QED BY <2>1, <2>3, <2>5, <2>6, <2>7, PartedDraw
<1>8. CASE AcceptPromotion
  <2>1. order # <<>> /\ step = "promote" /\ promotions # {} /\ step' = "share"
    BY <1>8, <1>a DEF AcceptPromotion, Under
  <2>2. PICK rs : rs = RewriteMemberRoutes(Graph, Current, Promoted, saved)
    OBVIOUS
  <2>3. Draw(Promoted, rs) /\ UNCHANGED <<job, order, prior, taken>>
    BY <1>8, <2>2 DEF AcceptPromotion
  <2>4. saved \in RoutesOf(Wires) /\ Tried \in promotions /\ Tried \in Int
    BY <2>1, TriedIsCandidate DEF BundlesTyped
  <2>5. Interior(Graph, Bundle, Promoted) => InteriorAllowed(job) /\ LaneSeparated(Promoted.x, taken[Bundle.role])
    <3>1. Interior(Graph, Bundle, Promoted) => Promoted.x = Tried
      BY <2>1, <2>4, BuiltHere DEF Promoted
    <3>2. InteriorAllowed(job) /\ LaneSeparated(Tried, taken[Bundle.role])
      BY <2>1, <2>4 DEF Parted
    <3> QED BY <3>1, <3>2
  <2>6. step' \in Under /\ step' # "promote" /\ step # "failed"
    BY <2>1 DEF Under
  <2> QED BY <2>1, <2>3, <2>5, <2>6, PartedDraw
<1>9. CASE EndPromotions
  <2>1. order # <<>> /\ step = "promote" /\ step' = "share" /\ saved \in RoutesOf(Wires)
    BY <1>9, <1>a DEF EndPromotions, Under
  <2>2. Draw(FallbackGeometry, saved) /\ UNCHANGED <<job, order, prior, taken>>
    BY <1>9 DEF EndPromotions, Restore
  <2>3. ~ Interior(Graph, Bundle, FallbackGeometry)
    BY <2>1, BuiltHere
  <2>4. step' \in Under /\ step' # "promote" /\ step # "failed"
    BY <2>1 DEF Under
  <2> QED BY <2>1, <2>2, <2>3, <2>4, PartedDraw
<1>10. CASE PromotionLimit
  BY <1>10, PartedAbandon DEF PromotionLimit
<1>11. CASE ShareRoute
  <2>1. step \in Under /\ SharedGeometry.x = Geometry.x
    BY <1>11, SharedIsDrawn DEF ShareRoute, Under
  <2>2. PICK d : d = SharedGeometry
    OBVIOUS
  <2>3. PICK rs : rs = [e \in DOMAIN routes |-> IF e \in MemberEdges(Bundle) THEN routes[Representative] ELSE routes[e]]
    OBVIOUS
  <2>4. PICK segments : segments = CountWith(SharedSegments)
    OBVIOUS
  <2>5. Close(d, rs, segments)
    BY <1>11, <2>2, <2>3, <2>4 DEF ShareRoute
  <2> QED BY <2>1, <2>2, <2>5, PartedClose
<1>12. CASE KeepRoutes
  <2>1. step \in Under
    BY <1>12 DEF KeepRoutes, Under
  <2>2. PICK d : d = Geometry
    OBVIOUS
  <2>3. PICK segments : segments = CountWith(SumOf(MemberEdges(Bundle), routes))
    OBVIOUS
  <2>4. Close(d, routes, segments)
    BY <1>12, <2>2, <2>3 DEF KeepRoutes
  <2> QED BY <2>1, <2>2, <2>4, PartedClose
<1>13. CASE Verify
  <2>1. step = "next" /\ step' = "returned" /\ UNCHANGED drawing
    BY <1>13 DEF Verify, Finish
  <2>2. step # "failed" /\ step' # "promote" /\ step' \notin Under
    BY <2>1 DEF Under
  <2>3. UNCHANGED <<job, order, drawn, prior, taken>>
    BY <2>1 DEF drawing
  <2>4. \A x \in promotions' :
          step' = "promote" => InteriorAllowed(job) /\ LaneSeparated(x, taken[Bundle.role])
    BY <2>2
  <2> QED BY <2>2, <2>3, <2>4, PartedSame
<1>14. CASE Refuse
  BY <1>14, PartedAbandon DEF Refuse
<1> QED BY <1>1, <1>2, <1>3, <1>4, <1>5, <1>6, <1>7, <1>8, <1>9, <1>10, <1>11, <1>12, <1>13, <1>14
        DEF BundlesNext

\* An interior collector, planned or promoted, stands a pitch off every collector of its role that
\* was drawn before it and off every preserved one (used_input_collectors, used_output_collectors).
THEOREM LanesAreApart == BundlesSpec => []LanesApart
<1>1. BundlesTyped /\ Parted /\ UNCHANGED bundleVars => Parted'
  <2> SUFFICES ASSUME BundlesTyped, Parted, UNCHANGED bundleVars PROVE Parted'
    OBVIOUS
  <2>1. UNCHANGED drawing /\ step' = step
    BY DEF bundleVars
  <2>2. UNCHANGED <<job, order, drawn, prior, taken>> /\ promotions' = promotions
    BY <2>1 DEF drawing
  <2>3. step # "failed" \/ step' = "failed"
    BY <2>1
  <2>4. \A x \in promotions' :
          step' = "promote" => InteriorAllowed(job) /\ LaneSeparated(x, taken[Bundle.role])
    BY <2>1, <2>2 DEF Parted
  <2> QED BY <2>1, <2>2, <2>3, <2>4, PartedSame
<1>2. BundlesTyped /\ Parted /\ [BundlesNext]_bundleVars => Parted'
  BY <1>1, PartedStep
<1>3. Parted => LanesApart
  BY DEF Parted, LanesApart, PlaceOf, Earlier
<1> QED BY <1>2, <1>3, PartedInit, BundlesTypeCorrect, PTL DEF BundlesSpec

=============================================================================
