---------------------------- MODULE SweepIndexes ----------------------------
(* The two search trees of readability.rs: the tree of active nets, which   *)
(* finds the nearest line with a wire of another net although it remembers  *)
(* two nets a subtree only, and the bounding-volume tree over the nodes,    *)
(* whose subtrees are left out when their bounds are too far away.          *)
EXTENDS RouteSegments

---------------------------------------------------------------------------
(* The tree of active nets: a heap of summaries over 2 ^ k lines. A summary *)
(* is a sequence of at most two nets.                                       *)

LeafCount(lines) == CHOOSE n \in {1, 2, 4, 8} : n >= lines /\ n < 2 * lines

EmptyTree(leaves) == [n \in 1..(2 * leaves - 1) |-> <<>>]

\* (mutant) one net is remembered.
FirstNet(nets) == IF nets = <<>> THEN <<>> ELSE <<Head(nets)>>

\* NetSummary::from_nets: the first two different nets.
FromNets(nets) ==
    FoldLeft(LAMBDA s, net : IF net \in Range(s) \/ Len(s) = 2 THEN s ELSE Append(s, net),
             <<>>, nets)

Merged(left, right) == FromNets(left \o right)

HasOther(summary, excluded) == \E net \in Range(summary) : net # excluded

\* ActiveNetTree::set: a new summary of a line, and of all its ancestors.
SetLine(tree, leaves, line, nets) ==
    LET new[n \in 1..(2 * leaves - 1)] ==
            IF n = leaves + line THEN FromNets(InOrder(nets, LAMBDA a, b : a < b))
            ELSE IF n >= leaves THEN tree[n]
            ELSE Merged(new[2 * n], new[2 * n + 1])
    IN new

\* The nodes on the way from a line to the root, each a charged visit.
PathLength(leaves) == CASE leaves = 1 -> 1 [] leaves = 2 -> 2 [] leaves = 4 -> 3 [] leaves = 8 -> 4

\* The lines below a node of the tree.
LinesBelow(leaves) ==
    LET below[n \in 1..(2 * leaves - 1)] ==
            IF n >= leaves THEN {n - leaves} ELSE below[2 * n] \cup below[2 * n + 1]
    IN below

(* search_rightmost and search_leftmost: the wanted line nearest to the     *)
(* right (left) end with a net other than the excluded one, and the nodes   *)
(* visited to find it.                                                      *)
Search(tree, leaves, wanted, excluded, rightFirst) ==
    LET below == LinesBelow(leaves)
        first(n) == IF rightFirst THEN 2 * n + 1 ELSE 2 * n
        second(n) == IF rightFirst THEN 2 * n ELSE 2 * n + 1
        found[n \in 1..(2 * leaves - 1)] ==
            IF below[n] \cap wanted = {} \/ ~HasOther(tree[n], excluded)
            THEN [line |-> None, visits |-> 1]
            ELSE IF n >= leaves THEN [line |-> n - leaves, visits |-> 1]
            ELSE IF found[first(n)].line # None
            THEN [found[first(n)] EXCEPT !.visits = @ + 1]
            ELSE [found[second(n)] EXCEPT !.visits = @ + 1 + found[first(n)].visits]
    IN found[1]

RightmostOther(tree, leaves, end, excluded) ==
    Search(tree, leaves, {l \in 0..(leaves - 1) : l < end}, excluded, TRUE)

LeftmostOther(tree, leaves, start, excluded) ==
    Search(tree, leaves, {l \in 0..(leaves - 1) : l >= start}, excluded, FALSE)

---------------------------------------------------------------------------
(* The bounding-volume tree: a subtree is known by its nodes.               *)

Bounds(nodes) ==
    [left   |-> CHOOSE v \in {n.x : n \in nodes} : \A n \in nodes : v <= n.x,
     top    |-> CHOOSE v \in {n.y : n \in nodes} : \A n \in nodes : v <= n.y,
     right  |-> CHOOSE v \in {n.x + n.width : n \in nodes} : \A n \in nodes : n.x + n.width <= v,
     bottom |-> CHOOSE v \in {n.y + n.height : n \in nodes} : \A n \in nodes : n.y + n.height <= v]

SegmentBounds(s) ==
    IF s.horizontal
    THEN [left |-> s.start, top |-> s.fixed, right |-> s.end, bottom |-> s.fixed]
    ELSE [left |-> s.fixed, top |-> s.start, right |-> s.fixed, bottom |-> s.end]

\* Aabb::distance: the larger of the gaps along the two axes.
Gap(lo, hi, otherLo, otherHi) ==
    IF hi < otherLo THEN otherLo - hi ELSE IF lo > otherHi THEN lo - otherHi ELSE 0

Distance(a, b) ==
    Most(Gap(a.left, a.right, b.left, b.right), Gap(a.top, a.bottom, b.top, b.bottom))

\* compare_indexed_nodes: by the axis of the split, then the other one, then id.
NodeKey(n, horizontal) ==
    LET b == Bounds({n})
    IN IF horizontal THEN <<b.left, b.right, b.top, b.bottom, n.id>>
       ELSE <<b.top, b.bottom, b.left, b.right, n.id>>

(* build_clearance_bvh: the nodes of the first child, half of them in the   *)
(* order of the wider axis.                                                 *)
FirstHalf(nodes) ==
    LET b == Bounds(nodes)
        wide == b.right - b.left >= b.bottom - b.top
        sorted == InOrder(nodes, LAMBDA m, n : LexLess(NodeKey(m, wide), NodeKey(n, wide)))
    IN Range(SubSeq(sorted, 1, Cardinality(nodes) \div 2))

\* clearance_subtree_can_contribute.
CanContribute(lowerBound, threshold, minimum) ==
    lowerBound < threshold \/ minimum = None \/ (minimum # None /\ lowerBound < minimum)

\* The children of a subtree, the nearer one first and, of equals, the first half.
ByDistance(from, nodes) ==
    LET a == FirstHalf(nodes)
        b == nodes \ a
    IN IF Distance(from, Bounds(a)) <= Distance(from, Bounds(b)) THEN <<a, b>> ELSE <<b, a>>
=============================================================================
