----------------------- MODULE LayerOrdering_proofs -----------------------
(* What is kept beside the order of the columns is true of it, every swap  *)
(* and every move takes crossings away, and a sift is handed out for a     *)
(* gain only: for every ranked graph, however many sweeps and whatever     *)
(* work the sift is given.                                                 *)
EXTENDS LayerOrdering, DigraphFacts

-----------------------------------------------------------------------------
(* Orders of finite sets.                                                  *)

\* An order lists every element, at one place.
LEMMA OrderListsAll ==
  ASSUME NEW S, IsFiniteSet(S), NEW order \in Orders(S)
  PROVE  /\ Cardinality(S) \in Nat
         /\ order \in Seq(S) /\ Len(order) = Cardinality(S)
         /\ DOMAIN order = 1 .. Cardinality(S)
         /\ \A i \in 1 .. Cardinality(S) : order[i] \in S
         /\ \A i, j \in 1 .. Cardinality(S) : order[i] = order[j] => i = j
         /\ \A x \in S : \E i \in 1 .. Cardinality(S) : order[i] = x
<1>1. PICK n : n = Cardinality(S)
  OBVIOUS
<1>2. n \in Nat
  BY <1>1, FS_CardinalityType
<1>3. order \in [1 .. n -> S] /\ \A i, j \in 1 .. n : order[i] = order[j] => i = j
  BY <1>1 DEF Orders, IsInjective
<1>4. order \in Injection(1 .. n, S)
  BY <1>3 DEF Injection, IsInjective
<1>5. Cardinality(1 .. n) = n
  BY <1>2, FS_Interval, 1 \in Int
<1>6. order \in Surjection(1 .. n, S)
  BY <1>1, <1>4, <1>5, FS_Injection
<1>7. \A x \in S : \E i \in 1 .. n : order[i] = x
  BY <1>6 DEF Surjection
<1> QED BY <1>1, <1>2, <1>3, <1>7

\* What lists a finite set without repetition is an order of it.
LEMMA ListingIsOrder ==
  ASSUME NEW S, IsFiniteSet(S), NEW order \in Seq(S), Len(order) = Cardinality(S),
         \A i, j \in 1 .. Len(order) : order[i] = order[j] => i = j
  PROVE  order \in Orders(S)
BY DEF Orders, IsInjective

\* A finite set can be listed in any strict order.
LEMMA OrderedListing ==
  ASSUME NEW S, IsFiniteSet(S), NEW before,
         \A x, y, z \in S : <<x, y>> \in before /\ <<y, z>> \in before => <<x, z>> \in before,
         \A x \in S : <<x, x>> \notin before,
         \A x, y \in S : x = y \/ <<x, y>> \in before \/ <<y, x>> \in before
  PROVE  \E order \in Orders(S) :
           \A i, j \in DOMAIN order : i < j => <<order[i], order[j]>> \in before
<1>1. Orders(S) = Listings(S)
  BY DEF Orders, Listings
<1> QED BY <1>1, OrderExists

-----------------------------------------------------------------------------
(* The items of a ranked graph.                                            *)

Keys == {0, 1} \X Nat \X Nat

LEMMA EdgesAreOfGraph ==
  ASSUME NEW g \in Graphs, NEW e \in OrderingEdges(g)
  PROVE  /\ e.source \in Nodes /\ e.target \in Nodes /\ e.net \in Nat
         /\ g.rank[e.source] \in Nat /\ g.rank[e.target] \in Nat
BY GraphsAssumption DEF OrderingEdges, RankEdges, Graph

LEMMA ColumnsAreRanks ==
  ASSUME NEW g \in Graphs
  PROVE  /\ g.rank \in [Nodes -> Nat]
         /\ LastColumn(g) \in Nat
         /\ 0 \in Columns(g) /\ LastColumn(g) \in Columns(g)
         /\ Columns(g) \subseteq Nat /\ IsFiniteSet(Columns(g))
<1>1. g.rank \in [Nodes -> Nat]
  BY GraphsAssumption DEF Graph
<1>2. g.rank \in [Nodes -> Int]
  BY <1>1
<1>3. PICK M : M = {g.rank[n] : n \in Nodes}
  OBVIOUS
<1>4. Max(M) \in M
  BY <1>2, <1>3, NodesAssumption, GreatestValue
<1>5. LastColumn(g) \in Nat
  BY <1>1, <1>3, <1>4 DEF LastColumn
<1>6. IsFiniteSet(0 .. LastColumn(g))
  BY <1>5, FS_Interval, 0 \in Int
<1> QED BY <1>1, <1>5, <1>6 DEF Columns

LEMMA ItemsHaveKeys ==
  ASSUME NEW g \in Graphs, NEW r \in Columns(g)
  PROVE  ColumnItems(g, r) \subseteq Keys
<1>1. Nodes \subseteq Nat /\ r \in Nat
  BY NodesAssumption, ColumnsAreRanks
<1>2. ASSUME NEW n \in Nodes PROVE RealItem(n) \in Keys
  BY <1>1 DEF RealItem, Keys
<1>3. ASSUME NEW e \in OrderingEdges(g) PROVE VirtualItem(e.net, r) \in Keys
  BY <1>1, EdgesAreOfGraph DEF VirtualItem, Keys
<1> QED BY <1>2, <1>3 DEF ColumnItems

\* A column has as many items as nodes and nets at most.
LEMMA ColumnsAreFinite ==
  ASSUME NEW g \in Graphs, NEW r \in Columns(g)
  PROVE  IsFiniteSet(ColumnItems(g, r))
<1>1. PICK real, virtual :
        /\ real = {m \in Nodes : g.rank[m] = r}
        /\ virtual = {f \in OrderingEdges(g) : g.rank[f.source] < r /\ r < g.rank[f.target]}
  OBVIOUS
<1>2. IsFiniteSet(real) /\ IsFiniteSet(virtual)
  <2>1. virtual \subseteq g.edges
    BY <1>1 DEF OrderingEdges, RankEdges
  <2> QED BY <1>1, <2>1, NodesAssumption, GraphsAssumption, FS_Subset
<1>3. PICK a, b : a = {RealItem(n) : n \in real} /\ b = {VirtualItem(e.net, r) : e \in virtual}
  OBVIOUS
<1>4. IsFiniteSet(a)
  <2>1. [n \in real |-> RealItem(n)] \in Surjection(real, a)
    BY <1>3 DEF Surjection
  <2> QED BY <1>2, <2>1, FS_Surjection
<1>5. IsFiniteSet(b)
  <2>1. [e \in virtual |-> VirtualItem(e.net, r)] \in Surjection(virtual, b)
    BY <1>3 DEF Surjection
  <2> QED BY <1>2, <2>1, FS_Surjection
<1>6. ColumnItems(g, r) = a \cup b
  BY <1>1, <1>3 DEF ColumnItems
<1> QED BY <1>4, <1>5, <1>6, FS_Union

\* An item is in one column.
LEMMA ColumnsAreApart ==
  ASSUME NEW g \in Graphs, NEW r \in Columns(g), NEW q \in Columns(g),
         NEW item \in ColumnItems(g, r), item \in ColumnItems(g, q)
  PROVE  r = q
<1>1. ASSUME NEW p \in Columns(g), item \in ColumnItems(g, p)
      PROVE  \/ \E n \in Nodes : g.rank[n] = p /\ item = RealItem(n)
             \/ \E net : item = VirtualItem(net, p)
  BY <1>1 DEF ColumnItems
<1>2. \A n, net, p : RealItem(n) # VirtualItem(net, p)
  BY DEF RealItem, VirtualItem
<1>3. \A n, m : RealItem(n) = RealItem(m) => n = m
  BY DEF RealItem
<1>4. \A x, y, p, s : VirtualItem(x, p) = VirtualItem(y, s) => p = s
  BY DEF VirtualItem
<1> QED BY <1>1, <1>2, <1>3, <1>4

LEMMA ArcsAreFinite ==
  ASSUME NEW g \in Graphs
  PROVE  IsFiniteSet(Arcs(g))
<1>1. IsFiniteSet(OrderingEdges(g))
  <2>1. OrderingEdges(g) \subseteq g.edges
    BY DEF OrderingEdges, RankEdges
  <2> QED BY <2>1, GraphsAssumption, FS_Subset
<1>2. ASSUME NEW e \in OrderingEdges(g) PROVE IsFiniteSet(ArcsOf(g, e))
  <2>1. PICK span : span = g.rank[e.source] .. g.rank[e.target] - 1
    OBVIOUS
  <2>2. IsFiniteSet(span)
    BY <2>1, EdgesAreOfGraph, FS_Interval
  <2>3. [r \in span |-> [from |-> Waypoint(g, e, r), to |-> Waypoint(g, e, r + 1), net |-> e.net]]
          \in Surjection(span, ArcsOf(g, e))
    BY <2>1 DEF Surjection, ArcsOf
  <2> QED BY <2>2, <2>3, FS_Surjection
<1>3. PICK parts : parts = {ArcsOf(g, e) : e \in OrderingEdges(g)}
  OBVIOUS
<1>4. IsFiniteSet(parts)
  <2>1. [e \in OrderingEdges(g) |-> ArcsOf(g, e)] \in Surjection(OrderingEdges(g), parts)
    BY <1>3 DEF Surjection
  <2> QED BY <1>1, <2>1, FS_Surjection
<1>5. \A part \in parts : IsFiniteSet(part)
  BY <1>2, <1>3
<1>6. IsFiniteSet(UNION parts)
  BY <1>4, <1>5, FS_UNION
<1> QED BY <1>3, <1>6 DEF Arcs

-----------------------------------------------------------------------------
(* Crossings are counted.                                                  *)

LEMMA PairsAreFinite ==
  ASSUME NEW C, IsFiniteSet(C), NEW ends, DOMAIN ends = C, \A r \in C : IsFiniteSet(ends[r])
  PROVE  Cardinality(CrossingPairs(ends)) \in Nat
<1> DEFINE Of(r) == {q \in ends[r] \X ends[r] : Crossing(q[1], q[2])}
           Tagged(r) == {<<r, p>> : p \in Of(r)}
<1>1. ASSUME NEW r \in C PROVE IsFiniteSet(Tagged(r))
  <2>1. IsFiniteSet(Of(r))
    <3>1. IsFiniteSet(ends[r] \X ends[r])
      BY FS_Product
    <3>2. Of(r) \in SUBSET (ends[r] \X ends[r])
      OBVIOUS
    <3> QED BY ONLY <3>1, <3>2, FS_Subset
  <2>2. PICK pairs, tagged : pairs = Of(r) /\ tagged = Tagged(r)
    OBVIOUS
  <2>3. [p \in pairs |-> <<r, p>>] \in Surjection(pairs, tagged)
    BY <2>2 DEF Surjection
  <2> QED BY <2>1, <2>2, <2>3, FS_Surjection
<1>2. PICK parts : parts = {Tagged(r) : r \in C}
  OBVIOUS
<1>3. IsFiniteSet(parts)
  <2>1. [r \in C |-> Tagged(r)] \in Surjection(C, parts)
    BY <1>2 DEF Surjection
  <2> QED BY <2>1, FS_Surjection
<1>4. \A part \in parts : IsFiniteSet(part)
  BY <1>1, <1>2
<1>5. IsFiniteSet(UNION parts)
  BY <1>3, <1>4, FS_UNION
<1>6. CrossingPairs(ends) = UNION parts
  BY <1>2 DEF CrossingPairs
<1> QED BY <1>5, <1>6, FS_CardinalityType

LEMMA CrossingsAreCounted ==
  ASSUME NEW g \in Graphs, NEW ls
  PROVE  CrossingCount(g, ls) \in Nat /\ NetCrossingCount(g, ls) \in Nat
<1>1. ASSUME NEW r \in Columns(g) PROVE IsFiniteSet(ArcsFrom(g, r))
  BY ArcsAreFinite, FS_Subset DEF ArcsFrom
<1>2. IsFiniteSet(Columns(g))
  BY ColumnsAreRanks
<1>3. PICK at : at = PositionsIn(g, ls)
  OBVIOUS
<1>4. CrossingCount(g, ls) \in Nat
  <2>1. PICK ends : ends = [r \in Columns(g) |-> {<<at[a.from], at[a.to]>> : a \in ArcsFrom(g, r)}]
    OBVIOUS
  <2>2. ASSUME NEW r \in Columns(g) PROVE IsFiniteSet(ends[r])
    <3>1. [a \in ArcsFrom(g, r) |-> <<at[a.from], at[a.to]>>] \in Surjection(ArcsFrom(g, r), ends[r])
      BY <2>1 DEF Surjection
    <3> QED BY <1>1, <3>1, FS_Surjection
  <2>3. DOMAIN ends = Columns(g)
    BY <2>1
  <2>4. Cardinality(CrossingPairs(ends)) \in Nat
    BY <1>2, <2>2, <2>3, PairsAreFinite
  <2> QED BY <1>3, <2>1, <2>4 DEF CrossingCount
<1>5. NetCrossingCount(g, ls) \in Nat
  <2> DEFINE Of(r, net) == {a \in ArcsFrom(g, r) : a.net = net}
             Middles(r, net) == <<Middle({at[a.from] : a \in Of(r, net)}),
                                  Middle({at[a.to] : a \in Of(r, net)}), net>>
  <2>1. PICK ends : ends = [r \in Columns(g) |->
                              {Middles(r, net) : net \in {a.net : a \in ArcsFrom(g, r)}}]
    OBVIOUS
  <2>2. ASSUME NEW r \in Columns(g) PROVE IsFiniteSet(ends[r])
    <3>1. ends[r] = {Middles(r, a.net) : a \in ArcsFrom(g, r)}
      BY <2>1
    <3>2. [a \in ArcsFrom(g, r) |-> Middles(r, a.net)] \in Surjection(ArcsFrom(g, r), ends[r])
      <4> HIDE DEF Middles
      <4> QED BY <3>1 DEF Surjection
    <3> QED BY <1>1, <3>2, FS_Surjection
  <2>3. DOMAIN ends = Columns(g)
    BY <2>1
  <2>4. Cardinality(CrossingPairs(ends)) \in Nat
    BY <1>2, <2>2, <2>3, PairsAreFinite
  <2> QED BY <1>3, <2>1, <2>4 DEF NetCrossingCount
<1> QED BY <1>4, <1>5

-----------------------------------------------------------------------------
(* Positions of the items.                                                 *)

\* Every column lists its own items.
AreListed(g, ls) ==
  /\ ls = [r \in Columns(g) |-> ls[r]]
  /\ \A r \in Columns(g) : ls[r] \in Orders(ColumnItems(g, r))

LEMMA ListedColumn ==
  ASSUME NEW g \in Graphs, NEW ls, AreListed(g, ls), NEW r \in Columns(g)
  PROVE  /\ Len(ls[r]) \in Nat /\ Len(ls[r]) = Cardinality(ColumnItems(g, r))
         /\ DOMAIN ls[r] = 1 .. Len(ls[r])
         /\ ls[r] \in Seq(ColumnItems(g, r))
         /\ \A i \in 1 .. Len(ls[r]) : ls[r][i] \in ColumnItems(g, r)
         /\ \A i, j \in 1 .. Len(ls[r]) : ls[r][i] = ls[r][j] => i = j
         /\ \A x \in ColumnItems(g, r) : \E i \in 1 .. Len(ls[r]) : ls[r][i] = x
<1>1. IsFiniteSet(ColumnItems(g, r)) /\ ls[r] \in Orders(ColumnItems(g, r))
  BY ColumnsAreFinite DEF AreListed
<1> QED BY <1>1, OrderListsAll

\* The position of an item is where its column lists it.
LEMMA PositionIsPlace ==
  ASSUME NEW g \in Graphs, NEW ls, AreListed(g, ls), NEW r \in Columns(g),
         NEW i \in 1 .. Len(ls[r])
  PROVE  /\ ls[r][i] \in ColumnItems(g, r) /\ ls[r][i] \in Items(g)
         /\ PositionsIn(g, ls)[ls[r][i]] = i
<1>1. PICK item : item = ls[r][i]
  OBVIOUS
<1>2. item \in ColumnItems(g, r) /\ item \in Items(g)
  BY <1>1, ListedColumn DEF Items
<1>3. PICK q : q = CHOOSE p \in Columns(g) : item \in ColumnItems(g, p)
  OBVIOUS
<1>4. q \in Columns(g) /\ item \in ColumnItems(g, q)
  BY <1>2, <1>3
<1>5. q = r
  BY <1>2, <1>4, ColumnsAreApart
<1>6. PositionsIn(g, ls)[item] = CHOOSE j \in DOMAIN ls[q] : ls[q][j] = item
  BY <1>2, <1>3 DEF PositionsIn
<1>7. \A j \in DOMAIN ls[r] : ls[r][j] = item <=> j = i
  BY <1>1, ListedColumn
<1>8. (CHOOSE j \in DOMAIN ls[r] : ls[r][j] = item) = i
  BY <1>7, ListedColumn
<1> QED BY <1>1, <1>2, <1>5, <1>6, <1>8

LEMMA PositionsAreNumbers ==
  ASSUME NEW g \in Graphs, NEW ls, AreListed(g, ls)
  PROVE  PositionsIn(g, ls) \in [Items(g) -> Nat]
<1> DEFINE Place(item) == LET r == CHOOSE r \in Columns(g) : item \in ColumnItems(g, r)
                          IN  CHOOSE i \in DOMAIN ls[r] : ls[r][i] = item
<1>1. PICK at : at = PositionsIn(g, ls)
  OBVIOUS
<1>2. at = [item \in Items(g) |-> Place(item)]
  BY <1>1 DEF PositionsIn
<1>3. ASSUME NEW item \in Items(g) PROVE Place(item) \in Nat
  <2> HIDE DEF Place
  <2>1. PICK r \in Columns(g) : item \in ColumnItems(g, r)
    BY DEF Items
  <2>2. PICK i \in 1 .. Len(ls[r]) : ls[r][i] = item
    BY <2>1, ListedColumn
  <2>3. at[item] = i /\ i \in Nat
    BY <1>1, <2>2, PositionIsPlace
  <2> QED BY <1>2, <2>3
<1> HIDE DEF Place
<1> QED BY <1>1, <1>2, <1>3

\* Positions are known by being those places.
LEMMA PlacesArePositions ==
  ASSUME NEW g \in Graphs, NEW ls, AreListed(g, ls), NEW at \in [Items(g) -> Nat],
         \A r \in Columns(g) : \A i \in 1 .. Len(ls[r]) : at[ls[r][i]] = i
  PROVE  at = PositionsIn(g, ls)
<1>1. PICK other : other = PositionsIn(g, ls)
  OBVIOUS
<1>2. ASSUME NEW item \in Items(g) PROVE at[item] = other[item]
  <2>1. PICK r \in Columns(g) : item \in ColumnItems(g, r)
    BY DEF Items
  <2>2. PICK i \in 1 .. Len(ls[r]) : ls[r][i] = item
    BY <2>1, ListedColumn
  <2> QED BY <1>1, <2>2, PositionIsPlace
<1>3. other \in [Items(g) -> Nat]
  BY <1>1, PositionsAreNumbers
<1> QED BY <1>1, <1>2, <1>3

\* One column is listed anew, and the positions of its items with it.
LEMMA RelistedColumn ==
  ASSUME NEW g \in Graphs, NEW ls, AreListed(g, ls), NEW c \in Columns(g),
         NEW order \in Orders(ColumnItems(g, c)),
         NEW at \in [Items(g) -> Nat],
         \A i \in 1 .. Len(order) : at[order[i]] = i,
         \A item \in Items(g) \ ColumnItems(g, c) : at[item] = PositionsIn(g, ls)[item]
  PROVE  /\ AreListed(g, [ls EXCEPT ![c] = order])
         /\ at = PositionsIn(g, [ls EXCEPT ![c] = order])
<1>1. PICK new : new = [ls EXCEPT ![c] = order]
  OBVIOUS
<1>2. AreListed(g, new) /\ new[c] = order /\ \A r \in Columns(g) \ {c} : new[r] = ls[r]
  BY <1>1 DEF AreListed
<1>3. ASSUME NEW r \in Columns(g), NEW i \in 1 .. Len(new[r]) PROVE at[new[r][i]] = i
  <2>1. CASE r = c
    <3>1. new[r] = order
      BY <1>2, <2>1
    <3>2. i \in 1 .. Len(order)
      BY <1>3, <3>1
    <3>3. at[order[i]] = i
      BY <3>2
    <3> QED BY <3>1, <3>3
  <2>2. CASE r # c
    <3>1. new[r] = ls[r] /\ i \in 1 .. Len(ls[r])
      BY <1>2, <1>3, <2>2
    <3>2. /\ ls[r][i] \in ColumnItems(g, r) /\ ls[r][i] \in Items(g)
          /\ PositionsIn(g, ls)[ls[r][i]] = i
      BY <3>1, PositionIsPlace
    <3>3. ls[r][i] \notin ColumnItems(g, c)
      BY <2>2, <3>2, ColumnsAreApart
    <3> QED BY <3>1, <3>2, <3>3
  <2> QED BY <2>1, <2>2
<1>4. at = PositionsIn(g, new)
  <2>1. \A r \in Columns(g) : \A i \in 1 .. Len(new[r]) : at[new[r][i]] = i
    BY <1>3
  <2> QED BY <1>2, <2>1, PlacesArePositions
<1> QED BY <1>1, <1>2, <1>4

-----------------------------------------------------------------------------
(* Seeds, sorts, swaps and moves.                                          *)

LEMMA KeysAreOrdered ==
  /\ \A a \in Keys : ~ KeyBefore(a, a)
  /\ \A a, b, c \in Keys : KeyBefore(a, b) /\ KeyBefore(b, c) => KeyBefore(a, c)
  /\ \A a, b \in Keys : a = b \/ KeyBefore(a, b) \/ KeyBefore(b, a)
<1>1. ASSUME NEW a \in Keys PROVE a[1] \in Int /\ a[2] \in Int /\ a[3] \in Int /\ a = <<a[1], a[2], a[3]>>
  BY DEF Keys
<1>2. \A a \in Keys : ~ KeyBefore(a, a)
  BY <1>1 DEF KeyBefore
<1>3. \A a, b, c \in Keys : KeyBefore(a, b) /\ KeyBefore(b, c) => KeyBefore(a, c)
  BY <1>1 DEF KeyBefore
<1>4. ASSUME NEW a \in Keys, NEW b \in Keys, ~ KeyBefore(a, b), ~ KeyBefore(b, a) PROVE a = b
  <2>1. a[1] = b[1] /\ a[2] = b[2] /\ a[3] = b[3]
    BY <1>1, <1>4 DEF KeyBefore
  <2> QED BY <1>1, <2>1
<1> QED BY <1>2, <1>3, <1>4

LEMMA SeedIsOrder ==
  ASSUME NEW S \in SUBSET Keys, IsFiniteSet(S)
  PROVE  SeedOrder(S) \in Orders(S)
<1>1. PICK before : before = {p \in S \X S : IF seed = "forward" THEN KeyBefore(p[1], p[2])
                                             ELSE KeyBefore(p[2], p[1])}
  OBVIOUS
<1>2. \A a, b \in S : <<a, b>> \in before
                        <=> IF seed = "forward" THEN KeyBefore(a, b) ELSE KeyBefore(b, a)
  BY <1>1
<1>3. /\ \A x, y, z \in S : <<x, y>> \in before /\ <<y, z>> \in before => <<x, z>> \in before
      /\ \A x \in S : <<x, x>> \notin before
      /\ \A x, y \in S : x = y \/ <<x, y>> \in before \/ <<y, x>> \in before
  BY <1>2, KeysAreOrdered
<1>4. PICK order \in Orders(S) : \A i, j \in DOMAIN order : i < j => <<order[i], order[j]>> \in before
  BY <1>3, OrderedListing
<1>5. \A i, j \in DOMAIN order :
        i < j => IF seed = "forward" THEN KeyBefore(order[i], order[j])
                 ELSE KeyBefore(order[j], order[i])
  <2>1. \A i \in DOMAIN order : order[i] \in S
    BY DEF Orders
  <2> QED BY <1>2, <1>4, <2>1
<1> QED BY <1>5 DEF SeedOrder

\* A column that is sorted or sifted and refreshed.
LEMMA RefreshedColumn ==
  ASSUME graph \in Graphs, AreListed(graph, layers), positions = PositionsIn(graph, layers),
         NEW c \in Columns(graph), NEW order \in Orders(ColumnItems(graph, c))
  PROVE  /\ AreListed(graph, [layers EXCEPT ![c] = order])
         /\ Refreshed(c, order) = PositionsIn(graph, [layers EXCEPT ![c] = order])
<1>1. PICK at : at = Refreshed(c, order)
  OBVIOUS
<1>3. IsFiniteSet(ColumnItems(graph, c))
  BY ColumnsAreFinite
<1>2. at \in [Items(graph) -> Nat]
  <2> DEFINE Place(item) == IF item \in ColumnItems(graph, c)
                            THEN CHOOSE i \in DOMAIN order : order[i] = item ELSE positions[item]
  <2>1. at = [item \in Items(graph) |-> Place(item)]
    BY <1>1 DEF Refreshed
  <2>2. ASSUME NEW item \in Items(graph) PROVE Place(item) \in Nat
    <3>1. CASE item \in ColumnItems(graph, c)
      <4>1. \E i \in DOMAIN order : order[i] = item
        BY <1>3, <3>1, OrderListsAll
      <4>2. DOMAIN order \subseteq Nat
        BY <1>3, OrderListsAll
      <4> QED BY <3>1, <4>1, <4>2
    <3>2. CASE item \notin ColumnItems(graph, c)
      <4>1. positions \in [Items(graph) -> Nat]
        BY PositionsAreNumbers
      <4> QED BY <3>2, <4>1
    <3> QED BY <3>1, <3>2
  <2> HIDE DEF Place
  <2> QED BY <2>1, <2>2
<1>4. ASSUME NEW i \in 1 .. Len(order) PROVE at[order[i]] = i
  <2>1. order[i] \in ColumnItems(graph, c) /\ order[i] \in Items(graph) /\ DOMAIN order = 1 .. Len(order)
    BY <1>3, OrderListsAll DEF Items
  <2>2. \A j \in DOMAIN order : order[j] = order[i] <=> j = i
    BY <1>3, <2>1, OrderListsAll
  <2>3. (CHOOSE j \in DOMAIN order : order[j] = order[i]) = i
    BY <2>1, <2>2
  <2> QED BY <1>1, <2>1, <2>3 DEF Refreshed
<1>5. \A item \in Items(graph) \ ColumnItems(graph, c) : at[item] = PositionsIn(graph, layers)[item]
  BY <1>1 DEF Refreshed
<1> QED BY <1>1, <1>2, <1>4, <1>5, RelistedColumn

\* Two neighbours change places, and so do their positions.
Swapped(order, k) == [order EXCEPT ![k] = order[k + 1], ![k + 1] = order[k]]
SwappedPlaces(at, order, k) == [at EXCEPT ![order[k]] = k + 1, ![order[k + 1]] = k]

LEMMA SwappedColumn ==
  ASSUME NEW g \in Graphs, NEW ls, AreListed(g, ls), NEW place, place = PositionsIn(g, ls),
         NEW c \in Columns(g), NEW k \in Nat \ {0}, k < Len(ls[c]),
         NEW order, order = Swapped(ls[c], k),
         NEW at, at = SwappedPlaces(place, ls[c], k)
  PROVE  /\ AreListed(g, [ls EXCEPT ![c] = order])
         /\ at = PositionsIn(g, [ls EXCEPT ![c] = order])
<1>1. PICK old, n, left, right : /\ old = ls[c] /\ n = Len(ls[c])
                                 /\ left = ls[c][k] /\ right = ls[c][k + 1]
  OBVIOUS
<1>2. /\ n \in Nat /\ n = Cardinality(ColumnItems(g, c))
      /\ old \in [1 .. n -> ColumnItems(g, c)]
      /\ \A i, j \in 1 .. n : old[i] = old[j] => i = j
  <2>1. n \in Nat /\ n = Cardinality(ColumnItems(g, c))
    BY <1>1, ListedColumn
  <2>2. old \in Orders(ColumnItems(g, c))
    BY <1>1 DEF AreListed
  <2> QED BY <2>1, <2>2 DEF Orders, IsInjective
<1>3. k \in 1 .. n /\ k + 1 \in 1 .. n /\ left # right
  BY <1>1, <1>2
<1>4. order = [i \in 1 .. n |-> IF i = k THEN right ELSE IF i = k + 1 THEN left ELSE old[i]]
  BY <1>1, <1>2, <1>3 DEF Swapped
<1>5. order \in Orders(ColumnItems(g, c)) /\ Len(order) = n
  <2>1. order \in [1 .. n -> ColumnItems(g, c)]
    BY <1>1, <1>2, <1>3, <1>4
  <2>2. \A i, j \in 1 .. n : order[i] = order[j] => i = j
    BY <1>1, <1>2, <1>3, <1>4
  <2>3. order \in Orders(ColumnItems(g, c))
    <3>1. PICK S : S = ColumnItems(g, c)
      OBVIOUS
    <3>2. order \in [1 .. Cardinality(S) -> S]
      BY ONLY <1>2, <2>1, <3>1
    <3>3. DOMAIN order = 1 .. n
      BY ONLY <2>1
    <3>4. IsInjective(order)
      BY ONLY <2>2, <3>3 DEF IsInjective
    <3> QED BY ONLY <3>1, <3>2, <3>4 DEF Orders
  <2>4. order \in Seq(ColumnItems(g, c)) /\ DOMAIN order = 1 .. n
    BY ONLY <1>2, <2>1
  <2>5. Len(order) = n
    BY ONLY <1>2, <2>4
  <2> QED BY <2>3, <2>5
<1>6. /\ left \in Items(g) /\ right \in Items(g)
      /\ left \in ColumnItems(g, c) /\ right \in ColumnItems(g, c)
  BY <1>1, <1>3, PositionIsPlace
<1>7. place \in [Items(g) -> Nat]
  BY PositionsAreNumbers
<1>8. at = [item \in Items(g) |-> IF item = right THEN k
                                      ELSE IF item = left THEN k + 1 ELSE place[item]]
  <2>1. at = [place EXCEPT ![left] = k + 1, ![right] = k]
    BY <1>1 DEF SwappedPlaces
  <2> QED BY ONLY <1>3, <1>6, <1>7, <2>1
<1>9. ASSUME NEW i \in 1 .. Len(order) PROVE at[order[i]] = i
  <2>1. i \in 1 .. n
    BY <1>5
  <2>2. CASE i = k
    BY <1>3, <1>4, <1>6, <1>8, <2>2
  <2>3. CASE i = k + 1
    BY <1>3, <1>4, <1>6, <1>8, <2>3
  <2>4. CASE i # k /\ i # k + 1
    <3>1. order[i] = old[i] /\ old[i] # left /\ old[i] # right
      BY <1>1, <1>2, <1>3, <1>4, <2>1, <2>4
    <3>2. old[i] \in Items(g) /\ place[old[i]] = i
      BY <1>1, <2>1, PositionIsPlace
    <3> QED BY <1>8, <3>1, <3>2
  <2> QED BY <2>2, <2>3, <2>4
<1>10. \A item \in Items(g) \ ColumnItems(g, c) : at[item] = PositionsIn(g, ls)[item]
  BY <1>6, <1>8
<1>11. at \in [Items(g) -> Nat]
  <2>1. k \in Nat /\ k + 1 \in Nat
    OBVIOUS
  <2> QED BY ONLY <1>7, <1>8, <2>1
<1>12. \A i \in 1 .. Len(order) : at[order[i]] = i
  BY <1>9
<1>13. PICK o, p : o = order /\ p = at
  OBVIOUS
<1>14. /\ o \in Orders(ColumnItems(g, c)) /\ p \in [Items(g) -> Nat]
       /\ \A i \in 1 .. Len(o) : p[o[i]] = i
       /\ \A item \in Items(g) \ ColumnItems(g, c) : p[item] = PositionsIn(g, ls)[item]
  BY <1>5, <1>10, <1>11, <1>12, <1>13
<1>15. g \in Graphs /\ AreListed(g, ls) /\ c \in Columns(g)
  OBVIOUS
<1>16. /\ AreListed(g, [ls EXCEPT ![c] = o])
       /\ p = PositionsIn(g, [ls EXCEPT ![c] = o])
  BY ONLY <1>14, <1>15, RelistedColumn
<1> QED BY <1>13, <1>16

\* An item is taken out of its column and put back in elsewhere.
MovedTo(order, k, p) ==
  [i \in 1 .. Len(order) |->
     IF i = p THEN order[k]
     ELSE IF p < i /\ i <= k THEN order[i - 1]
     ELSE IF k <= i /\ i < p THEN order[i + 1]
     ELSE order[i]]

LEMMA MovedAlong ==
  ASSUME NEW S, IsFiniteSet(S), NEW order \in Orders(S),
         NEW k \in 1 .. Len(order), NEW p \in 1 .. Len(order)
  PROVE  InsertAt(RemoveAt(order, k), p, order[k]) = MovedTo(order, k, p)
<1>1. PICK n : n = Len(order)
  OBVIOUS
<1>2. /\ n \in Nat /\ n = Cardinality(S) /\ order \in Seq(S)
      /\ \A i \in 1 .. n : order[i] \in S
      /\ \A i, j \in 1 .. n : order[i] = order[j] => i = j
  BY <1>1, OrderListsAll
<1>3. PICK rest : rest = RemoveAt(order, k)
  OBVIOUS
<1>4. /\ rest \in Seq(S) /\ Len(rest) = n - 1
      /\ \A i \in 1 .. n - 1 : rest[i] = IF i < k THEN order[i] ELSE order[i + 1]
  <2>1. PICK a, b : a = SubSeq(order, 1, k - 1) /\ b = SubSeq(order, k + 1, n)
    OBVIOUS
  <2>2. /\ a \in Seq(S) /\ Len(a) = k - 1 /\ \A i \in 1 .. k - 1 : a[i] = order[i]
    BY <1>1, <1>2, <2>1
  <2>3. /\ b \in Seq(S) /\ Len(b) = n - k /\ \A i \in 1 .. n - k : b[i] = order[k + i]
    <3>1. k + 1 \in 1 .. n + 1 /\ n \in 0 .. n
      BY <1>1, <1>2
    <3>2. b \in Seq(S) /\ Len(b) = n - k
      BY <1>1, <1>2, <2>1, <3>1
    <3>3. ASSUME NEW i \in 1 .. n - k PROVE b[i] = order[k + i]
      <4>1. i \in 1 .. n - (k + 1) + 1
        BY <1>1, <1>2, <3>1
      <4>2. b[i] = order[(k + 1) + i - 1]
        BY <1>1, <1>2, <2>1, <3>1, <4>1
      <4>3. (k + 1) + i - 1 = k + i
        BY <1>1, <1>2, <4>1
      <4> QED BY <4>2, <4>3
    <3> QED BY <3>2, <3>3
  <2>4. rest = a \o b
    BY <1>1, <1>3, <2>1 DEF RemoveAt
  <2>5. rest \in Seq(S) /\ Len(rest) = n - 1
    <3>1. rest \in Seq(S) /\ Len(rest) = Len(a) + Len(b)
      BY ONLY <2>2, <2>3, <2>4
    <3> QED BY <1>1, <1>2, <2>2, <2>3, <3>1
  <2>6. ASSUME NEW i \in 1 .. n - 1 PROVE rest[i] = IF i < k THEN order[i] ELSE order[i + 1]
    <3>1. CASE i < k
      <4>1. i \in 1 .. Len(a) /\ a[i] = order[i]
        BY <1>1, <1>2, <2>2, <3>1
      <4>2. rest[i] = a[i]
        BY <2>2, <2>3, <2>4, <4>1
      <4> QED BY <3>1, <4>1, <4>2
    <3>2. CASE i >= k
      <4>1. i - Len(a) = i - k + 1 /\ i - k + 1 \in 1 .. n - k /\ i \in Len(a) + 1 .. Len(a) + Len(b)
        BY <1>1, <1>2, <2>2, <2>3, <3>2
      <4>2. rest[i] = b[i - k + 1]
        BY <2>2, <2>3, <2>4, <4>1
      <4>3. b[i - k + 1] = order[i + 1]
        <5>1. k + (i - k + 1) = i + 1
          BY <1>1, <1>2
        <5> QED BY <2>3, <4>1, <5>1
      <4>4. ~ (i < k)
        BY <1>1, <1>2, <3>2
      <4> QED BY <4>2, <4>3, <4>4
    <3> QED BY <1>1, <1>2, <3>1, <3>2
  <2> QED BY <2>5, <2>6
<1>5. PICK moved : moved = InsertAt(rest, p, order[k])
  OBVIOUS
<1>6. /\ moved \in Seq(S) /\ Len(moved) = n
      /\ \A i \in 1 .. n : moved[i] = IF i < p THEN rest[i] ELSE IF i = p THEN order[k] ELSE rest[i - 1]
  <2>1. PICK a, b : a = SubSeq(rest, 1, p - 1) /\ b = SubSeq(rest, p, n - 1)
    OBVIOUS
  <2>2. /\ a \in Seq(S) /\ Len(a) = p - 1 /\ \A i \in 1 .. p - 1 : a[i] = rest[i]
    BY <1>1, <1>2, <1>4, <2>1
  <2>3. /\ b \in Seq(S) /\ Len(b) = n - p /\ \A i \in 1 .. n - p : b[i] = rest[p + i - 1]
    BY <1>1, <1>2, <1>4, <2>1
  <2>4. moved = a \o <<order[k]>> \o b
    BY <1>4, <1>5, <2>1 DEF InsertAt
  <2>5. order[k] \in S
    BY <1>1, <1>2
  <2>6. PICK c : c = a \o <<order[k]>>
    OBVIOUS
  <2>7. /\ c \in Seq(S) /\ Len(c) = p
        /\ \A i \in 1 .. p : c[i] = IF i < p THEN rest[i] ELSE order[k]
    BY <1>1, <1>2, <2>2, <2>5, <2>6
  <2>8. moved = c \o b
    BY <2>4, <2>6
  <2>9. moved \in Seq(S) /\ Len(moved) = n
    <3>1. moved \in Seq(S) /\ Len(moved) = Len(c) + Len(b)
      <4>1. b \in Seq(S) /\ c \in Seq(S)
        BY <2>3, <2>7
      <4> QED BY ONLY <2>8, <4>1
    <3> QED BY <1>1, <1>2, <2>3, <2>7, <3>1
  <2>10. ASSUME NEW i \in 1 .. n
         PROVE  moved[i] = IF i < p THEN rest[i] ELSE IF i = p THEN order[k] ELSE rest[i - 1]
    <3>1. CASE i <= p
      <4>1. i \in 1 .. Len(c) /\ c[i] = IF i < p THEN rest[i] ELSE order[k]
        BY <1>1, <1>2, <2>7, <3>1
      <4>2. moved[i] = c[i]
        BY <2>3, <2>7, <2>8, <4>1
      <4> QED BY <1>1, <1>2, <3>1, <4>1, <4>2
    <3>2. CASE i > p
      <4>1. i - Len(c) = i - p /\ i - p \in 1 .. n - p /\ i \in Len(c) + 1 .. Len(c) + Len(b)
        BY <1>1, <1>2, <2>3, <2>7, <3>2
      <4>2. moved[i] = b[i - p]
        <5>1. b \in Seq(S) /\ c \in Seq(S)
          BY <2>3, <2>7
        <5>2. moved[i] = b[i - Len(c)]
          BY ONLY <2>8, <4>1, <5>1
        <5> QED BY ONLY <4>1, <5>2
      <4>3. b[i - p] = rest[i - 1]
        <5>1. p + (i - p) - 1 = i - 1
          BY <1>1, <1>2
        <5> QED BY <2>3, <4>1, <5>1
      <4>4. ~ (i < p) /\ i # p
        BY <1>1, <1>2, <3>2
      <4> QED BY <4>2, <4>3, <4>4
    <3> QED BY <1>1, <1>2, <3>1, <3>2
  <2> QED BY <2>9, <2>10
<1>7. ASSUME NEW i \in 1 .. n PROVE moved[i] = MovedTo(order, k, p)[i]
  <2>1. MovedTo(order, k, p)[i] = IF i = p THEN order[k]
                                  ELSE IF p < i /\ i <= k THEN order[i - 1]
                                  ELSE IF k <= i /\ i < p THEN order[i + 1]
                                  ELSE order[i]
    BY <1>1 DEF MovedTo
  <2>2. CASE i = p
    BY <1>6, <2>1, <2>2
  <2>3. CASE i < p
    <3>1. i \in 1 .. n - 1 /\ moved[i] = rest[i]
      BY <1>1, <1>2, <1>6, <2>3
    <3>2. rest[i] = IF i < k THEN order[i] ELSE order[i + 1]
      BY <1>4, <3>1
    <3> QED BY <1>1, <1>2, <2>1, <2>3, <3>1, <3>2
  <2>4. CASE i > p
    <3>1. i - 1 \in 1 .. n - 1 /\ moved[i] = rest[i - 1]
      BY <1>1, <1>2, <1>6, <2>4
    <3>2. rest[i - 1] = IF i - 1 < k THEN order[i - 1] ELSE order[(i - 1) + 1]
      BY <1>4, <3>1
    <3>3. (i - 1) + 1 = i
      BY <1>2
    <3> QED BY <1>1, <1>2, <2>1, <2>4, <3>1, <3>2, <3>3
  <2> QED BY <1>1, <1>2, <2>2, <2>3, <2>4
<1>8. MovedTo(order, k, p) = [i \in 1 .. n |-> MovedTo(order, k, p)[i]]
  BY <1>1 DEF MovedTo
<1>9. moved = [i \in 1 .. n |-> moved[i]]
  BY <1>6
<1>10. moved = MovedTo(order, k, p)
  BY ONLY <1>7, <1>8, <1>9
<1> QED BY <1>3, <1>5, <1>10

LEMMA MovedIsOrder ==
  ASSUME NEW S, IsFiniteSet(S), NEW order \in Orders(S),
         NEW k \in 1 .. Len(order), NEW p \in 1 .. Len(order)
  PROVE  MovedTo(order, k, p) \in Orders(S)
<1>1. PICK n, moved : n = Len(order) /\ moved = MovedTo(order, k, p)
  OBVIOUS
<1>2. /\ n \in Nat /\ n = Cardinality(S) /\ order \in Seq(S)
      /\ \A i \in 1 .. n : order[i] \in S
      /\ \A i, j \in 1 .. n : order[i] = order[j] => i = j
  BY <1>1, OrderListsAll
<1> DEFINE From(i) == IF i = p THEN k
                      ELSE IF p < i /\ i <= k THEN i - 1
                      ELSE IF k <= i /\ i < p THEN i + 1
                      ELSE i
<1>3. ASSUME NEW i \in 1 .. n PROVE From(i) \in 1 .. n /\ moved[i] = order[From(i)]
  <2>1. From(i) \in 1 .. n
    BY <1>1, <1>2
  <2>2. moved[i] = order[From(i)]
    BY <1>1 DEF MovedTo
  <2> QED BY <2>1, <2>2
<1>4. ASSUME NEW i \in 1 .. n, NEW j \in 1 .. n, moved[i] = moved[j] PROVE i = j
  <2>1. From(i) = From(j)
    <3> HIDE DEF From
    <3> QED BY <1>2, <1>3, <1>4
  <2> QED BY <1>1, <1>2, <2>1
<1>5. moved \in [1 .. n -> S]
  <2>1. moved = [i \in 1 .. n |-> moved[i]]
    BY <1>1 DEF MovedTo
  <2>2. \A i \in 1 .. n : moved[i] \in S
    <3> HIDE DEF From
    <3> QED BY <1>2, <1>3
  <2> QED BY <2>1, <2>2
<1>6. IsInjective(moved)
  <2>1. DOMAIN moved = 1 .. n
    BY <1>5
  <2> QED BY <1>4, <2>1 DEF IsInjective
<1> QED BY <1>1, <1>2, <1>5, <1>6 DEF Orders

-----------------------------------------------------------------------------
(* What swapping two neighbours saves, over links between items of          *)
(* neighbouring columns.                                                   *)

\* A set with as many elements as another, one for each.
Matches(S, T, f, back) ==
  /\ f \in [S -> T] /\ \A x \in S : back[f[x]] = x
  /\ back \in [T -> S] /\ \A y \in T : f[back[y]] = y

LEMMA SameCount ==
  ASSUME NEW S, NEW T, IsFiniteSet(S), NEW f, NEW back, Matches(S, T, f, back)
  PROVE  IsFiniteSet(T) /\ Cardinality(S) = Cardinality(T)
<1> USE DEF Matches
<1>1. \A x, y \in S : f[x] = f[y] => x = y
  OBVIOUS
<1>2. \A y \in T : \E x \in S : f[x] = y
  OBVIOUS
<1>3. f \in Bijection(S, T)
  BY <1>1, <1>2 DEF Bijection, Injection, Surjection, IsInjective
<1>4. ExistsBijection(S, T)
  BY <1>3 DEF ExistsBijection
<1> QED BY <1>4, FS_Bijection

\* Links of items, the items they lead from and to, and the columns they are in.
IntoItem(L, x) == {u[1] : u \in {v \in L : v[2] = x}}
OutOfItem(L, x) == {u[2] : u \in {v \in L : v[1] = x}}

CrossedPairs(L, level, at) ==
  {p \in L \X L : /\ level[p[1][1]] = level[p[2][1]]
                  /\ at[p[1][1]] < at[p[2][1]] /\ at[p[1][2]] > at[p[2][2]]}

BehindPairs(at, A, B) == {p \in A \X B : at[p[1]] > at[p[2]]}
AheadPairs(at, A, B) == {p \in A \X B : at[p[1]] < at[p[2]]}

Among(at, A, B) == Cardinality(BehindPairs(at, A, B)) - Cardinality(AheadPairs(at, A, B))

Saving(L, at, l, r) ==
  Among(at, IntoItem(L, l), IntoItem(L, r)) + Among(at, OutOfItem(L, l), OutOfItem(L, r))

\* Links lead from a column to the next, and no item is linked to itself.
AreLinks(L, I, level) ==
  /\ IsFiniteSet(L) /\ L \in SUBSET (I \X I)
  /\ level \in [I -> Int]
  /\ \A u \in L : level[u[2]] = level[u[1]] + 1

\* Places that tell the items of a column apart.
ArePlaces(I, level, at) ==
  /\ at \in [I -> Int]
  /\ \A x, y \in I : level[x] = level[y] /\ at[x] = at[y] => x = y

\* Of all the pairs in a column only one changes its order.
OnlySwaps(I, level, at, new, l, r) ==
  /\ l \in I /\ r \in I /\ l # r /\ level[l] = level[r]
  /\ at[l] < at[r] /\ new[r] < new[l]
  /\ \A x \in I : level[x] # level[l] => new[x] = at[x]
  /\ \A x, y \in I : level[x] = level[y] /\ ~ (x = l /\ y = r) /\ ~ (x = r /\ y = l)
                       => (at[x] < at[y] <=> new[x] < new[y])

LEMMA LinkedItems ==
  ASSUME NEW I, NEW level, NEW L, AreLinks(L, I, level), NEW x \in I
  PROVE  /\ \A y : y \in IntoItem(L, x) <=> <<y, x>> \in L
         /\ \A y : y \in OutOfItem(L, x) <=> <<x, y>> \in L
         /\ \A y \in IntoItem(L, x) : y \in I /\ level[x] = level[y] + 1
         /\ \A y \in OutOfItem(L, x) : y \in I /\ level[y] = level[x] + 1
         /\ IsFiniteSet(IntoItem(L, x)) /\ IsFiniteSet(OutOfItem(L, x))
<1>1. \A u \in L : u = <<u[1], u[2]>> /\ u[1] \in I /\ u[2] \in I
  BY DEF AreLinks
<1>2. \A y : y \in IntoItem(L, x) <=> <<y, x>> \in L
  BY <1>1 DEF IntoItem
<1>3. \A y : y \in OutOfItem(L, x) <=> <<x, y>> \in L
  BY <1>1 DEF OutOfItem
<1>4. \A y, z : <<y, z>> \in L => y \in I /\ z \in I /\ level[z] = level[y] + 1
  BY <1>1 DEF AreLinks
<1>5. IsFiniteSet(IntoItem(L, x)) /\ IsFiniteSet(OutOfItem(L, x))
  <2>1. PICK A, B : A = {v \in L : v[2] = x} /\ B = {v \in L : v[1] = x}
    OBVIOUS
  <2>2. IsFiniteSet(A) /\ IsFiniteSet(B)
    BY <2>1, FS_Subset DEF AreLinks
  <2>3. [u \in A |-> u[1]] \in Surjection(A, IntoItem(L, x))
    BY <2>1 DEF Surjection, IntoItem
  <2>4. [u \in B |-> u[2]] \in Surjection(B, OutOfItem(L, x))
    BY <2>1 DEF Surjection, OutOfItem
  <2> QED BY <2>2, <2>3, <2>4, FS_Surjection
<1> QED BY <1>2, <1>3, <1>4, <1>5

\* Crossed pairs of links between two items and what they lead to or come from.
FanOut(l, r, pairs) == {<<<<l, p[1]>>, <<r, p[2]>>>> : p \in pairs}
FanIn(l, r, pairs) == {<<<<p[1], l>>, <<p[2], r>>>> : p \in pairs}
Turned(pairs) == {<<p[2], p[1]>> : p \in pairs}

ArePairs(pairs) == \A p \in pairs : p = <<p[1], p[2]>>

LEMMA FanOutCounts ==
  ASSUME NEW pairs, IsFiniteSet(pairs), ArePairs(pairs), NEW l, NEW r
  PROVE  IsFiniteSet(FanOut(l, r, pairs)) /\ Cardinality(FanOut(l, r, pairs)) = Cardinality(pairs)
<1>1. \A p \in pairs : p = <<p[1], p[2]>>
  BY DEF ArePairs
<1>2. PICK T, f, back :
        /\ T = FanOut(l, r, pairs)
        /\ f = [p \in pairs |-> <<<<l, p[1]>>, <<r, p[2]>>>>]
        /\ back = [q \in T |-> <<q[1][2], q[2][2]>>]
  OBVIOUS
<1>3. f \in [pairs -> T] /\ \A x \in pairs : back[f[x]] = x
  BY <1>1, <1>2 DEF FanOut
<1>4. ASSUME NEW q \in T PROVE back[q] \in pairs /\ f[back[q]] = q
  <2>1. PICK p \in pairs : q = <<<<l, p[1]>>, <<r, p[2]>>>>
    BY <1>2 DEF FanOut
  <2>2. back[q] = p
    BY <1>1, <1>2, <2>1
  <2> QED BY <1>2, <2>1, <2>2
<1>5. Matches(pairs, T, f, back)
  BY <1>2, <1>3, <1>4 DEF Matches
<1>6. IsFiniteSet(T) /\ Cardinality(pairs) = Cardinality(T)
  BY ONLY <1>5, IsFiniteSet(pairs), SameCount
<1> QED BY <1>2, <1>6

LEMMA FanInCounts ==
  ASSUME NEW pairs, IsFiniteSet(pairs), ArePairs(pairs), NEW l, NEW r
  PROVE  IsFiniteSet(FanIn(l, r, pairs)) /\ Cardinality(FanIn(l, r, pairs)) = Cardinality(pairs)
<1>1. \A p \in pairs : p = <<p[1], p[2]>>
  BY DEF ArePairs
<1>2. PICK T, f, back :
        /\ T = FanIn(l, r, pairs)
        /\ f = [p \in pairs |-> <<<<p[1], l>>, <<p[2], r>>>>]
        /\ back = [q \in T |-> <<q[1][1], q[2][1]>>]
  OBVIOUS
<1>3. f \in [pairs -> T] /\ \A x \in pairs : back[f[x]] = x
  BY <1>1, <1>2 DEF FanIn
<1>4. ASSUME NEW q \in T PROVE back[q] \in pairs /\ f[back[q]] = q
  <2>1. PICK p \in pairs : q = <<<<p[1], l>>, <<p[2], r>>>>
    BY <1>2 DEF FanIn
  <2>2. back[q] = p
    BY <1>1, <1>2, <2>1
  <2> QED BY <1>2, <2>1, <2>2
<1>5. Matches(pairs, T, f, back)
  BY <1>2, <1>3, <1>4 DEF Matches
<1>6. IsFiniteSet(T) /\ Cardinality(pairs) = Cardinality(T)
  BY ONLY <1>5, IsFiniteSet(pairs), SameCount
<1> QED BY <1>2, <1>6

LEMMA TurnedCount ==
  ASSUME NEW pairs, IsFiniteSet(pairs), ArePairs(pairs)
  PROVE  IsFiniteSet(Turned(pairs)) /\ Cardinality(Turned(pairs)) = Cardinality(pairs)
<1>1. \A p \in pairs : p = <<p[1], p[2]>>
  BY DEF ArePairs
<1>2. PICK T, f, back :
        /\ T = Turned(pairs)
        /\ f = [p \in pairs |-> <<p[2], p[1]>>]
        /\ back = [q \in T |-> <<q[2], q[1]>>]
  OBVIOUS
<1>3. f \in [pairs -> T] /\ \A x \in pairs : back[f[x]] = x
  BY <1>1, <1>2 DEF Turned
<1>4. ASSUME NEW q \in T PROVE back[q] \in pairs /\ f[back[q]] = q
  <2>1. PICK p \in pairs : q = <<p[2], p[1]>>
    BY <1>2 DEF Turned
  <2>2. back[q] = p
    BY <1>1, <1>2, <2>1
  <2> QED BY <1>2, <2>1, <2>2
<1>5. Matches(pairs, T, f, back)
  BY <1>2, <1>3, <1>4 DEF Matches
<1>6. IsFiniteSet(T) /\ Cardinality(pairs) = Cardinality(T)
  BY ONLY <1>5, IsFiniteSet(pairs), SameCount
<1> QED BY <1>2, <1>6

LEMMA PairsOfPlaces ==
  ASSUME NEW A, IsFiniteSet(A), NEW B, IsFiniteSet(B), NEW at
  PROVE  /\ IsFiniteSet(BehindPairs(at, A, B)) /\ IsFiniteSet(AheadPairs(at, A, B))
         /\ Cardinality(BehindPairs(at, A, B)) \in Nat /\ Cardinality(AheadPairs(at, A, B)) \in Nat
         /\ ArePairs(BehindPairs(at, A, B)) /\ ArePairs(AheadPairs(at, A, B))
<1>1. IsFiniteSet(A \X B)
  BY FS_Product
<1>2. BehindPairs(at, A, B) \in SUBSET (A \X B) /\ AheadPairs(at, A, B) \in SUBSET (A \X B)
  BY DEF BehindPairs, AheadPairs
<1>3. ArePairs(BehindPairs(at, A, B)) /\ ArePairs(AheadPairs(at, A, B))
  BY DEF ArePairs, BehindPairs, AheadPairs
<1> QED BY <1>1, <1>2, <1>3, FS_Subset, FS_CardinalityType

\* As many are behind as are ahead the other way round.
LEMMA TurnedPairs ==
  ASSUME NEW I, NEW A \in SUBSET I, IsFiniteSet(A), NEW B \in SUBSET I, IsFiniteSet(B),
         NEW at \in [I -> Int]
  PROVE  Cardinality(BehindPairs(at, A, B)) = Cardinality(AheadPairs(at, B, A))
<1>1. Turned(BehindPairs(at, A, B)) = AheadPairs(at, B, A)
  <2>1. ASSUME NEW p \in Turned(BehindPairs(at, A, B)) PROVE p \in AheadPairs(at, B, A)
    <3>1. PICK q \in BehindPairs(at, A, B) : p = <<q[2], q[1]>>
      BY DEF Turned
    <3>2. q[1] \in A /\ q[2] \in B /\ at[q[1]] > at[q[2]] /\ at[q[1]] \in Int /\ at[q[2]] \in Int
      BY DEF BehindPairs
    <3> QED BY <3>1, <3>2 DEF AheadPairs
  <2>2. ASSUME NEW p \in AheadPairs(at, B, A) PROVE p \in Turned(BehindPairs(at, A, B))
    <3>1. p = <<p[1], p[2]>> /\ p[1] \in B /\ p[2] \in A /\ at[p[1]] < at[p[2]]
          /\ at[p[1]] \in Int /\ at[p[2]] \in Int
      BY DEF AheadPairs
    <3>2. <<p[2], p[1]>> \in BehindPairs(at, A, B)
      BY <3>1 DEF BehindPairs
    <3> QED BY <3>1, <3>2 DEF Turned
  <2> QED BY <2>1, <2>2
<1>2. /\ ArePairs(BehindPairs(at, A, B))
      /\ IsFiniteSet(BehindPairs(at, A, B))
  BY PairsOfPlaces
<1>3. Cardinality(Turned(BehindPairs(at, A, B))) = Cardinality(BehindPairs(at, A, B))
  BY ONLY <1>2, TurnedCount
<1> QED BY <1>1, <1>3

LEMMA CrossedAreFinite ==
  ASSUME NEW I, NEW level, NEW L, AreLinks(L, I, level), NEW at
  PROVE  /\ IsFiniteSet(CrossedPairs(L, level, at)) /\ Cardinality(CrossedPairs(L, level, at)) \in Nat
         /\ \A p \in CrossedPairs(L, level, at) :
              /\ p = <<<<p[1][1], p[1][2]>>, <<p[2][1], p[2][2]>>>>
              /\ p[1] \in L /\ p[2] \in L
              /\ p[1][1] \in I /\ p[1][2] \in I /\ p[2][1] \in I /\ p[2][2] \in I
              /\ level[p[1][1]] = level[p[2][1]] /\ level[p[1][2]] = level[p[2][2]]
              /\ at[p[1][1]] < at[p[2][1]] /\ at[p[1][2]] > at[p[2][2]]
<1>1. IsFiniteSet(L \X L)
  BY FS_Product DEF AreLinks
<1>2. CrossedPairs(L, level, at) \in SUBSET (L \X L)
  BY DEF CrossedPairs
<1>3. ASSUME NEW p \in CrossedPairs(L, level, at)
      PROVE  /\ p = <<<<p[1][1], p[1][2]>>, <<p[2][1], p[2][2]>>>>
             /\ p[1] \in L /\ p[2] \in L
             /\ p[1][1] \in I /\ p[1][2] \in I /\ p[2][1] \in I /\ p[2][2] \in I
             /\ level[p[1][1]] = level[p[2][1]] /\ level[p[1][2]] = level[p[2][2]]
             /\ at[p[1][1]] < at[p[2][1]] /\ at[p[1][2]] > at[p[2][2]]
  <2>1. p = <<p[1], p[2]>> /\ p[1] \in L /\ p[2] \in L
    BY DEF CrossedPairs
  <2>2. \A u \in L : u = <<u[1], u[2]>> /\ u[1] \in I /\ u[2] \in I
    BY DEF AreLinks
  <2>3. level[p[1][1]] = level[p[2][1]] /\ at[p[1][1]] < at[p[2][1]] /\ at[p[1][2]] > at[p[2][2]]
    BY DEF CrossedPairs
  <2>4. level[p[1][2]] = level[p[2][2]]
    BY <2>1, <2>3 DEF AreLinks
  <2> QED BY <2>1, <2>2, <2>3, <2>4
<1> QED BY <1>1, <1>2, <1>3, FS_Subset, FS_CardinalityType

\* The crossings that an exchange takes away are those of the links of the two
\* items, before them and after them.
LEMMA CrossingsLost ==
  ASSUME NEW I, NEW level, NEW L, AreLinks(L, I, level),
         NEW at, ArePlaces(I, level, at), NEW new, ArePlaces(I, level, new),
         NEW l, NEW r, OnlySwaps(I, level, at, new, l, r)
  PROVE  Cardinality(CrossedPairs(L, level, at) \ CrossedPairs(L, level, new))
           = Cardinality(BehindPairs(at, IntoItem(L, l), IntoItem(L, r)))
               + Cardinality(BehindPairs(at, OutOfItem(L, l), OutOfItem(L, r)))
<1>1. /\ l \in I /\ r \in I /\ l # r /\ level[l] = level[r] /\ level[l] \in Int
      /\ at \in [I -> Int] /\ new \in [I -> Int] /\ at[l] < at[r] /\ new[r] < new[l]
  BY DEF OnlySwaps, ArePlaces, AreLinks
<1>2. PICK gone, out, in :
        /\ gone = CrossedPairs(L, level, at) \ CrossedPairs(L, level, new)
        /\ out = FanOut(l, r, BehindPairs(at, OutOfItem(L, l), OutOfItem(L, r)))
        /\ in = FanIn(r, l, AheadPairs(at, IntoItem(L, r), IntoItem(L, l)))
  OBVIOUS
<1>3. ASSUME NEW p \in gone PROVE p \in out \cup in
  <2>1. p \in CrossedPairs(L, level, at) /\ p \notin CrossedPairs(L, level, new)
    BY <1>2
  <2>2. /\ p = <<<<p[1][1], p[1][2]>>, <<p[2][1], p[2][2]>>>>
        /\ p[1] \in L /\ p[2] \in L
        /\ p[1][1] \in I /\ p[1][2] \in I /\ p[2][1] \in I /\ p[2][2] \in I
        /\ level[p[1][1]] = level[p[2][1]] /\ level[p[1][2]] = level[p[2][2]]
        /\ at[p[1][1]] < at[p[2][1]] /\ at[p[1][2]] > at[p[2][2]]
    BY <2>1, CrossedAreFinite
  <2>3. PICK a, b, c, d : a = p[1][1] /\ b = p[1][2] /\ c = p[2][1] /\ d = p[2][2]
    OBVIOUS
  <2>4. /\ p = <<<<a, b>>, <<c, d>>>> /\ <<a, b>> \in L /\ <<c, d>> \in L
        /\ a \in I /\ b \in I /\ c \in I /\ d \in I
        /\ level[a] = level[c] /\ level[b] = level[d] /\ at[a] < at[c] /\ at[d] < at[b]
    <3>1. p[1] = <<a, b>> /\ p[2] = <<c, d>>
      BY <2>2, <2>3
    <3>2. at[b] > at[d]
      BY <2>2, <2>3
    <3>3. a \in I /\ b \in I /\ c \in I /\ d \in I
      BY <2>2, <2>3
    <3>4. at[d] < at[b]
      BY ONLY <1>1, <3>2, <3>3
    <3> QED BY <2>2, <2>3, <3>1, <3>4
  <2>5. ~ (new[a] < new[c]) \/ ~ (new[d] < new[b])
    <3>1. ~ (new[a] < new[c] /\ new[b] > new[d])
      BY <2>1, <2>4 DEF CrossedPairs
    <3> QED BY <1>1, <2>4, <3>1
  <2>6. CASE ~ (new[a] < new[c])
    <3>1. a = l /\ c = r
      BY <1>1, <2>4, <2>6 DEF OnlySwaps
    <3>2. b \in OutOfItem(L, l) /\ d \in OutOfItem(L, r)
      BY <1>1, <2>4, <3>1, LinkedItems
    <3>3. <<b, d>> \in BehindPairs(at, OutOfItem(L, l), OutOfItem(L, r))
      BY <1>1, <2>4, <3>2 DEF BehindPairs
    <3> QED BY <1>2, <2>4, <3>1, <3>3 DEF FanOut
  <2>7. CASE ~ (new[d] < new[b])
    <3>1. d = l /\ b = r
      BY <1>1, <2>4, <2>7 DEF OnlySwaps
    <3>2. a \in IntoItem(L, r) /\ c \in IntoItem(L, l)
      BY <1>1, <2>4, <3>1, LinkedItems
    <3>3. <<a, c>> \in AheadPairs(at, IntoItem(L, r), IntoItem(L, l))
      BY <2>4, <3>2 DEF AheadPairs
    <3> QED BY <1>2, <2>4, <3>1, <3>3 DEF FanIn
  <2> QED BY <2>5, <2>6, <2>7
<1>4. ASSUME NEW p \in out PROVE p \in gone
  <2>1. PICK q \in BehindPairs(at, OutOfItem(L, l), OutOfItem(L, r)) : p = <<<<l, q[1]>>, <<r, q[2]>>>>
    BY <1>2 DEF FanOut
  <2>2. q[1] \in OutOfItem(L, l) /\ q[2] \in OutOfItem(L, r) /\ at[q[1]] > at[q[2]]
    BY DEF BehindPairs
  <2>3. <<l, q[1]>> \in L /\ <<r, q[2]>> \in L
    BY <1>1, <2>2, LinkedItems
  <2>4. p \in CrossedPairs(L, level, at)
    BY <1>1, <2>1, <2>2, <2>3 DEF CrossedPairs
  <2>5. p \notin CrossedPairs(L, level, new)
    BY <1>1, <2>1 DEF CrossedPairs
  <2> QED BY <1>2, <2>4, <2>5
<1>5. ASSUME NEW p \in in PROVE p \in gone /\ p \notin out
  <2>1. PICK q \in AheadPairs(at, IntoItem(L, r), IntoItem(L, l)) : p = <<<<q[1], r>>, <<q[2], l>>>>
    BY <1>2 DEF FanIn
  <2>2. q[1] \in IntoItem(L, r) /\ q[2] \in IntoItem(L, l) /\ at[q[1]] < at[q[2]]
    BY DEF AheadPairs
  <2>3. /\ <<q[1], r>> \in L /\ <<q[2], l>> \in L
        /\ level[r] = level[q[1]] + 1 /\ level[l] = level[q[2]] + 1 /\ q[1] \in I /\ q[2] \in I
    BY <1>1, <2>2, LinkedItems
  <2>4. level[q[1]] = level[q[2]] /\ level[q[1]] # level[l]
    <3>1. level[q[1]] \in Int /\ level[q[2]] \in Int
      BY <2>3 DEF AreLinks
    <3> QED BY <1>1, <2>3, <3>1
  <2>5. at[r] > at[l] /\ ~ (new[r] > new[l])
    BY <1>1
  <2>6. p \in CrossedPairs(L, level, at)
    BY <2>1, <2>2, <2>3, <2>4, <2>5 DEF CrossedPairs
  <2>7. p \notin CrossedPairs(L, level, new)
    BY <2>1, <2>5 DEF CrossedPairs
  <2>8. p \notin out
    <3>1. \A x \in out : x[1][1] = l
      BY <1>2 DEF FanOut
    <3>2. p[1][1] = q[1] /\ q[1] # l
      BY <2>1, <2>4
    <3> QED BY <3>1, <3>2
  <2> QED BY <1>2, <2>6, <2>7, <2>8
<1>6. gone = out \cup in /\ out \cap in = {}
  BY <1>3, <1>4, <1>5
<1>7. /\ IsFiniteSet(OutOfItem(L, l)) /\ IsFiniteSet(OutOfItem(L, r))
      /\ IsFiniteSet(IntoItem(L, l)) /\ IsFiniteSet(IntoItem(L, r))
      /\ IntoItem(L, l) \in SUBSET I /\ IntoItem(L, r) \in SUBSET I
  BY <1>1, LinkedItems
<1>8. PICK behind, ahead : /\ behind = BehindPairs(at, OutOfItem(L, l), OutOfItem(L, r))
                           /\ ahead = AheadPairs(at, IntoItem(L, r), IntoItem(L, l))
  OBVIOUS
<1>9. IsFiniteSet(out) /\ Cardinality(out) = Cardinality(behind)
  <2>1. IsFiniteSet(behind) /\ ArePairs(behind)
    BY <1>7, <1>8, PairsOfPlaces
  <2>2. out = FanOut(l, r, behind)
    BY <1>2, <1>8
  <2> QED BY ONLY <2>1, <2>2, FanOutCounts
<1>10. IsFiniteSet(in) /\ Cardinality(in) = Cardinality(ahead)
  <2>1. IsFiniteSet(ahead) /\ ArePairs(ahead)
    BY <1>7, <1>8, PairsOfPlaces
  <2>2. in = FanIn(r, l, ahead)
    BY <1>2, <1>8
  <2> QED BY ONLY <2>1, <2>2, FanInCounts
<1>11. Cardinality(ahead) = Cardinality(BehindPairs(at, IntoItem(L, l), IntoItem(L, r)))
  <2>1. at \in [I -> Int]
    BY <1>1
  <2> QED BY ONLY <1>7, <1>8, <2>1, TurnedPairs
<1>12. Cardinality(gone) = Cardinality(out) + Cardinality(in)
  <2>1. Cardinality(out \cup in) = Cardinality(out) + Cardinality(in) - Cardinality(out \cap in)
    BY ONLY <1>9, <1>10, FS_Union
  <2>2. Cardinality(out \cap in) = 0
    BY <1>6, FS_EmptySet
  <2>3. Cardinality(out) \in Nat /\ Cardinality(in) \in Nat
    BY <1>9, <1>10, FS_CardinalityType
  <2> QED BY <1>6, <2>1, <2>2, <2>3
<1>13. Cardinality(out) \in Nat /\ Cardinality(in) \in Nat
  BY <1>9, <1>10, FS_CardinalityType
<1> QED BY <1>2, <1>8, <1>9, <1>10, <1>11, <1>12, <1>13

\* Exchanging neighbours saves what comparing their links says.
LEMMA ExchangeSaves ==
  ASSUME NEW I, NEW level, NEW L, AreLinks(L, I, level),
         NEW at, ArePlaces(I, level, at), NEW new, ArePlaces(I, level, new),
         NEW l, NEW r, OnlySwaps(I, level, at, new, l, r)
  PROVE  Cardinality(CrossedPairs(L, level, new))
           = Cardinality(CrossedPairs(L, level, at)) - Saving(L, at, l, r)
<1>1. PICK X, Y : X = CrossedPairs(L, level, at) /\ Y = CrossedPairs(L, level, new)
  OBVIOUS
<1>2. IsFiniteSet(X) /\ IsFiniteSet(Y) /\ Cardinality(X) \in Nat /\ Cardinality(Y) \in Nat
  BY <1>1, CrossedAreFinite
<1>3. /\ l \in I /\ r \in I /\ level[l] = level[r] /\ level[l] \in Int
      /\ at \in [I -> Int] /\ new \in [I -> Int]
  BY DEF OnlySwaps, ArePlaces, AreLinks
<1>4. PICK A, B, C, D : /\ A = IntoItem(L, l) /\ B = IntoItem(L, r)
                        /\ C = OutOfItem(L, l) /\ D = OutOfItem(L, r)
  OBVIOUS
<1>5. /\ IsFiniteSet(A) /\ IsFiniteSet(B) /\ IsFiniteSet(C) /\ IsFiniteSet(D)
      /\ A \in SUBSET I /\ B \in SUBSET I /\ C \in SUBSET I /\ D \in SUBSET I
      /\ \A y \in A \cup B : level[l] = level[y] + 1
      /\ \A y \in C \cup D : level[y] = level[l] + 1
  BY <1>3, <1>4, LinkedItems
<1>6. \A y \in A \cup B \cup C \cup D : new[y] = at[y]
  <2>1. ASSUME NEW y \in A \cup B \cup C \cup D PROVE level[y] # level[l] /\ y \in I
    <3>1. y \in I /\ level[y] \in Int
      BY <1>5 DEF AreLinks
    <3> QED BY <1>3, <1>5, <3>1
  <2> QED BY <2>1 DEF OnlySwaps
<1>7. Cardinality(X \ Y) = Cardinality(BehindPairs(at, A, B)) + Cardinality(BehindPairs(at, C, D))
  BY <1>1, <1>4, CrossingsLost
<1>8. OnlySwaps(I, level, new, at, r, l)
  <2>1. new \in [I -> Int] /\ at \in [I -> Int]
    BY <1>3
  <2> QED BY <1>3, <2>1 DEF OnlySwaps
<1>9. Cardinality(Y \ X) = Cardinality(BehindPairs(new, B, A)) + Cardinality(BehindPairs(new, D, C))
  BY <1>1, <1>4, <1>8, CrossingsLost
<1>10. BehindPairs(new, B, A) = BehindPairs(at, B, A) /\ BehindPairs(new, D, C) = BehindPairs(at, D, C)
  BY <1>6 DEF BehindPairs
<1>11. /\ Cardinality(BehindPairs(at, B, A)) = Cardinality(AheadPairs(at, A, B))
       /\ Cardinality(BehindPairs(at, D, C)) = Cardinality(AheadPairs(at, C, D))
  <2>1. at \in [I -> Int] /\ A \in SUBSET I /\ IsFiniteSet(A) /\ B \in SUBSET I /\ IsFiniteSet(B)
    BY <1>3, <1>5
  <2>2. at \in [I -> Int] /\ C \in SUBSET I /\ IsFiniteSet(C) /\ D \in SUBSET I /\ IsFiniteSet(D)
    BY <1>3, <1>5
  <2>3. Cardinality(BehindPairs(at, B, A)) = Cardinality(AheadPairs(at, A, B))
    BY ONLY <2>1, TurnedPairs
  <2>4. Cardinality(BehindPairs(at, D, C)) = Cardinality(AheadPairs(at, C, D))
    BY ONLY <2>2, TurnedPairs
  <2> QED BY <2>3, <2>4
<1>12. /\ Cardinality(X) = Cardinality(X \ Y) + Cardinality(X \cap Y)
       /\ Cardinality(Y) = Cardinality(Y \ X) + Cardinality(X \cap Y)
       /\ Cardinality(X \ Y) \in Nat /\ Cardinality(Y \ X) \in Nat /\ Cardinality(X \cap Y) \in Nat
  <2>1. /\ X \ Y \in SUBSET X /\ X \cap Y \in SUBSET X /\ Y \ X \in SUBSET Y
        /\ X = (X \ Y) \cup (X \cap Y) /\ (X \ Y) \cap (X \cap Y) = {}
        /\ Y = (Y \ X) \cup (X \cap Y) /\ (Y \ X) \cap (X \cap Y) = {}
    OBVIOUS
  <2>2. IsFiniteSet(X \ Y) /\ IsFiniteSet(X \cap Y) /\ IsFiniteSet(Y \ X)
    BY <1>2, <2>1, FS_Subset
  <2>3. Cardinality(X \ Y) \in Nat /\ Cardinality(Y \ X) \in Nat /\ Cardinality(X \cap Y) \in Nat
    BY <2>2, FS_CardinalityType
  <2>4. ASSUME NEW S, NEW T, IsFiniteSet(S), IsFiniteSet(T), S \cap T = {}
        PROVE  Cardinality(S \cup T) = Cardinality(S) + Cardinality(T)
    <3>1. Cardinality(S \cup T) = Cardinality(S) + Cardinality(T) - Cardinality(S \cap T)
      BY ONLY <2>4, FS_Union
    <3>2. Cardinality(S \cap T) = 0 /\ Cardinality(S) \in Nat /\ Cardinality(T) \in Nat
      BY <2>4, FS_EmptySet, FS_CardinalityType
    <3> QED BY <3>1, <3>2
  <2>5. Cardinality((X \ Y) \cup (X \cap Y)) = Cardinality(X \ Y) + Cardinality(X \cap Y)
    BY <2>1, <2>2, <2>4
  <2>6. Cardinality((Y \ X) \cup (X \cap Y)) = Cardinality(Y \ X) + Cardinality(X \cap Y)
    BY <2>1, <2>2, <2>4
  <2> QED BY <2>1, <2>3, <2>5, <2>6
<1>13. /\ Cardinality(BehindPairs(at, A, B)) \in Nat /\ Cardinality(AheadPairs(at, A, B)) \in Nat
       /\ Cardinality(BehindPairs(at, C, D)) \in Nat /\ Cardinality(AheadPairs(at, C, D)) \in Nat
  BY <1>5, PairsOfPlaces
<1>14. Saving(L, at, l, r)
         = (Cardinality(BehindPairs(at, A, B)) - Cardinality(AheadPairs(at, A, B)))
             + (Cardinality(BehindPairs(at, C, D)) - Cardinality(AheadPairs(at, C, D)))
  BY <1>4 DEF Saving, Among
<1> QED BY <1>1, <1>2, <1>7, <1>9, <1>10, <1>11, <1>12, <1>13, <1>14

-----------------------------------------------------------------------------
(* The links of a ranked graph.                                            *)

Links(g) == {<<a.from, a.to>> : a \in Arcs(g)}
Level(g) == [item \in Items(g) |-> CHOOSE r \in Columns(g) : item \in ColumnItems(g, r)]

LEMMA LevelIsColumn ==
  ASSUME NEW g \in Graphs
  PROVE  /\ Level(g) \in [Items(g) -> Int]
         /\ \A r \in Columns(g) : \A x \in ColumnItems(g, r) : x \in Items(g) /\ Level(g)[x] = r
         /\ \A x \in Items(g) : Level(g)[x] \in Columns(g) /\ x \in ColumnItems(g, Level(g)[x])
<1>1. \A x \in Items(g) : Level(g)[x] \in Columns(g) /\ x \in ColumnItems(g, Level(g)[x])
  BY DEF Items, Level
<1>2. ASSUME NEW r \in Columns(g), NEW x \in ColumnItems(g, r) PROVE x \in Items(g) /\ Level(g)[x] = r
  <2>1. x \in Items(g)
    BY DEF Items
  <2> QED BY <1>1, <2>1, ColumnsAreApart
<1>3. Columns(g) \subseteq Int
  BY ColumnsAreRanks
<1>4. Level(g) \in [Items(g) -> Int]
  <2>1. DOMAIN Level(g) = Items(g) /\ Level(g) = [x \in Items(g) |-> Level(g)[x]]
    BY DEF Level
  <2> QED BY <1>1, <1>3, <2>1
<1> QED BY <1>1, <1>2, <1>4

\* An arc leads from a column to the next.
LEMMA ArcsLeadOn ==
  ASSUME NEW g \in Graphs, NEW a \in Arcs(g)
  PROVE  \E r \in Columns(g) : /\ r + 1 \in Columns(g)
                               /\ a.from \in ColumnItems(g, r) /\ a.to \in ColumnItems(g, r + 1)
<1>1. PICK e \in OrderingEdges(g) : a \in ArcsOf(g, e)
  BY DEF Arcs
<1>2. PICK first, last : first = g.rank[e.source] /\ last = g.rank[e.target]
  OBVIOUS
<1>3. PICK r \in first .. last - 1 : a = [from |-> Waypoint(g, e, r), to |-> Waypoint(g, e, r + 1), net |-> e.net]
  BY <1>1, <1>2 DEF ArcsOf
<1>4. first \in Nat /\ last \in Nat /\ first < last /\ e.source \in Nodes /\ e.target \in Nodes
  BY <1>2, EdgesAreOfGraph DEF OrderingEdges
<1>5. last <= LastColumn(g)
  <2>1. PICK M : M = {g.rank[n] : n \in Nodes}
    OBVIOUS
  <2>2. g.rank \in [Nodes -> Int]
    BY ColumnsAreRanks
  <2>3. \A m \in M : Max(M) >= m
    BY <2>1, <2>2, NodesAssumption, GreatestValue
  <2>4. last \in M
    BY <1>2, <1>4, <2>1
  <2>5. LastColumn(g) \in Nat /\ LastColumn(g) = Max(M)
    BY <2>1, ColumnsAreRanks DEF LastColumn
  <2> QED BY <1>4, <2>3, <2>4, <2>5
<1>6. ASSUME NEW q \in first .. last
      PROVE  q \in Columns(g) /\ Waypoint(g, e, q) \in ColumnItems(g, q)
  <2>1. q \in Columns(g)
    BY <1>4, <1>5, ColumnsAreRanks DEF Columns
  <2>2. CASE q = first
    <3>1. q = g.rank[e.source] /\ q # g.rank[e.target]
      BY <1>2, <1>4, <2>2
    <3>2. Waypoint(g, e, q) = RealItem(e.source)
      BY <3>1 DEF Waypoint
    <3>3. RealItem(e.source) \in {RealItem(n) : n \in {m \in Nodes : g.rank[m] = q}}
      BY <1>4, <3>1
    <3> QED BY <2>1, <3>2, <3>3 DEF ColumnItems
  <2>3. CASE q # first /\ q = last
    <3>1. q = g.rank[e.target] /\ q # g.rank[e.source]
      BY <1>2, <1>4, <2>3
    <3>2. Waypoint(g, e, q) = RealItem(e.target)
      BY <3>1 DEF Waypoint
    <3>3. RealItem(e.target) \in {RealItem(n) : n \in {m \in Nodes : g.rank[m] = q}}
      BY <1>4, <3>1
    <3> QED BY <2>1, <3>2, <3>3 DEF ColumnItems
  <2>4. CASE q # first /\ q # last
    <3>1. first < q /\ q < last
      BY <1>4, <2>4
    <3>2. Waypoint(g, e, q) = VirtualItem(e.net, q)
      BY <1>2, <2>4 DEF Waypoint
    <3> QED BY <1>2, <2>1, <3>1, <3>2 DEF ColumnItems
  <2> QED BY <2>1, <2>2, <2>3, <2>4
<1>7. r \in first .. last /\ r + 1 \in first .. last
  BY <1>4
<1> QED BY <1>3, <1>6, <1>7

LEMMA LinksOfGraph ==
  ASSUME NEW g \in Graphs
  PROVE  AreLinks(Links(g), Items(g), Level(g))
<1>1. IsFiniteSet(Links(g))
  <2>1. [a \in Arcs(g) |-> <<a.from, a.to>>] \in Surjection(Arcs(g), Links(g))
    BY DEF Surjection, Links
  <2> QED BY <2>1, ArcsAreFinite, FS_Surjection
<1>2. ASSUME NEW u \in Links(g)
      PROVE  u \in Items(g) \X Items(g) /\ Level(g)[u[2]] = Level(g)[u[1]] + 1
  <2>1. PICK a \in Arcs(g) : u = <<a.from, a.to>>
    BY DEF Links
  <2>2. PICK r \in Columns(g) : /\ r + 1 \in Columns(g)
                                /\ a.from \in ColumnItems(g, r) /\ a.to \in ColumnItems(g, r + 1)
    BY ArcsLeadOn
  <2>3. /\ a.from \in Items(g) /\ Level(g)[a.from] = r
        /\ a.to \in Items(g) /\ Level(g)[a.to] = r + 1
    BY <2>2, LevelIsColumn
  <2> QED BY <2>1, <2>3
<1>3. Level(g) \in [Items(g) -> Int]
  BY LevelIsColumn
<1> QED BY <1>1, <1>2, <1>3 DEF AreLinks

LEMMA PositionsTellApart ==
  ASSUME NEW g \in Graphs, NEW ls, AreListed(g, ls)
  PROVE  ArePlaces(Items(g), Level(g), PositionsIn(g, ls))
<1>1. PICK at : at = PositionsIn(g, ls)
  OBVIOUS
<1>2. at \in [Items(g) -> Nat]
  BY <1>1, PositionsAreNumbers
<1>3. ASSUME NEW x \in Items(g), NEW y \in Items(g), Level(g)[x] = Level(g)[y], at[x] = at[y]
      PROVE  x = y
  <2>1. PICK r \in Columns(g) : x \in ColumnItems(g, r) /\ y \in ColumnItems(g, r)
    BY <1>3, LevelIsColumn
  <2>2. PICK i \in 1 .. Len(ls[r]), j \in 1 .. Len(ls[r]) : ls[r][i] = x /\ ls[r][j] = y
    BY <2>1, ListedColumn
  <2>3. at[x] = i /\ at[y] = j
    BY <1>1, <2>2, PositionIsPlace
  <2> QED BY <1>3, <2>2, <2>3
<1>4. at \in [Items(g) -> Int]
  BY <1>2
<1> QED BY <1>1, <1>3, <1>4 DEF ArePlaces

\* The crossings that are counted are those of the links.
LEMMA CountIsOfLinks ==
  ASSUME NEW g \in Graphs, NEW ls, AreListed(g, ls)
  PROVE  CrossingCount(g, ls) = Cardinality(CrossedPairs(Links(g), Level(g), PositionsIn(g, ls)))
<1>1. PICK at, I, level, L, X :
        /\ at = PositionsIn(g, ls) /\ I = Items(g) /\ level = Level(g) /\ L = Links(g)
        /\ X = CrossedPairs(L, level, at)
  OBVIOUS
<1>2. AreLinks(L, I, level) /\ ArePlaces(I, level, at)
  BY <1>1, LinksOfGraph, PositionsTellApart
<1>3. PICK ends : ends = [r \in Columns(g) |-> {<<at[a.from], at[a.to]>> : a \in ArcsFrom(g, r)}]
  OBVIOUS
<1>4. CrossingCount(g, ls) = Cardinality(CrossingPairs(ends))
  BY <1>1, <1>3 DEF CrossingCount
<1>5. /\ IsFiniteSet(X)
      /\ \A p \in X :
           /\ p = <<<<p[1][1], p[1][2]>>, <<p[2][1], p[2][2]>>>>
           /\ p[1] \in L /\ p[2] \in L
           /\ p[1][1] \in I /\ p[1][2] \in I /\ p[2][1] \in I /\ p[2][2] \in I
           /\ level[p[1][1]] = level[p[2][1]] /\ level[p[1][2]] = level[p[2][2]]
           /\ at[p[1][1]] < at[p[2][1]] /\ at[p[1][2]] > at[p[2][2]]
  BY <1>1, <1>2, CrossedAreFinite
<1>6. \A t : t \in CrossingPairs(ends)
               <=> \E r \in Columns(g) : \E a, b \in ArcsFrom(g, r) :
                     /\ t = <<r, <<<<at[a.from], at[a.to]>>, <<at[b.from], at[b.to]>>>>>>
                     /\ at[a.from] < at[b.from] /\ at[a.to] > at[b.to]
  <2>1. ASSUME NEW t \in CrossingPairs(ends)
        PROVE  \E r \in Columns(g) : \E a, b \in ArcsFrom(g, r) :
                     /\ t = <<r, <<<<at[a.from], at[a.to]>>, <<at[b.from], at[b.to]>>>>>>
                     /\ at[a.from] < at[b.from] /\ at[a.to] > at[b.to]
    <3>1. PICK r \in Columns(g) : t \in {<<r, p>> : p \in {q \in ends[r] \X ends[r] : Crossing(q[1], q[2])}}
      BY <1>3 DEF CrossingPairs
    <3>2. PICK q \in ends[r] \X ends[r] : t = <<r, q>> /\ Crossing(q[1], q[2])
      BY <3>1
    <3>3. q = <<q[1], q[2]>> /\ q[1] \in ends[r] /\ q[2] \in ends[r]
      BY <3>2
    <3>4. PICK a, b \in ArcsFrom(g, r) : q[1] = <<at[a.from], at[a.to]>> /\ q[2] = <<at[b.from], at[b.to]>>
      BY <1>3, <3>3
    <3> QED BY <3>2, <3>3, <3>4 DEF Crossing
  <2>2. ASSUME NEW r \in Columns(g), NEW a \in ArcsFrom(g, r), NEW b \in ArcsFrom(g, r),
               at[a.from] < at[b.from], at[a.to] > at[b.to]
        PROVE  <<r, <<<<at[a.from], at[a.to]>>, <<at[b.from], at[b.to]>>>>>> \in CrossingPairs(ends)
    <3>1. PICK u, v : u = <<at[a.from], at[a.to]>> /\ v = <<at[b.from], at[b.to]>>
      OBVIOUS
    <3>2. u \in ends[r] /\ v \in ends[r]
      BY <1>3, <3>1
    <3>3. Crossing(u, v)
      BY <2>2, <3>1 DEF Crossing
    <3>4. <<u, v>> \in {q \in ends[r] \X ends[r] : Crossing(q[1], q[2])}
      BY <3>2, <3>3
    <3>5. r \in DOMAIN ends
      BY <1>3
    <3>6. <<r, <<u, v>>>> \in CrossingPairs(ends)
      BY <3>4, <3>5 DEF CrossingPairs
    <3> QED BY <3>1, <3>6
  <2> QED BY <2>1, <2>2
<1>7. PICK T, f : /\ T = CrossingPairs(ends)
                  /\ f = [p \in X |-> <<level[p[1][1]], <<<<at[p[1][1]], at[p[1][2]]>>,
                                                        <<at[p[2][1]], at[p[2][2]]>>>>>>]
  OBVIOUS
<1>8. ASSUME NEW p \in X PROVE f[p] \in T
  <2>1. PICK a \in Arcs(g), b \in Arcs(g) : p[1] = <<a.from, a.to>> /\ p[2] = <<b.from, b.to>>
    BY <1>1, <1>5 DEF Links
  <2>2. PICK r : r = level[p[1][1]]
    OBVIOUS
  <2>3. r \in Columns(g) /\ a \in ArcsFrom(g, r) /\ b \in ArcsFrom(g, r)
    BY <1>1, <1>5, <2>1, <2>2, LevelIsColumn DEF ArcsFrom
  <2>4. f[p] = <<r, <<<<at[a.from], at[a.to]>>, <<at[b.from], at[b.to]>>>>>>
    BY <1>7, <2>1, <2>2
  <2>5. at[a.from] < at[b.from] /\ at[a.to] > at[b.to]
    BY <1>5, <2>1
  <2> QED BY <1>6, <1>7, <2>3, <2>4, <2>5
<1>9. ASSUME NEW t \in T PROVE \E p \in X : f[p] = t
  <2>7. PICK r \in Columns(g) : \E a, b \in ArcsFrom(g, r) :
          /\ t = <<r, <<<<at[a.from], at[a.to]>>, <<at[b.from], at[b.to]>>>>>>
          /\ at[a.from] < at[b.from] /\ at[a.to] > at[b.to]
    BY <1>6, <1>7
  <2>1. PICK a \in ArcsFrom(g, r), b \in ArcsFrom(g, r) :
          /\ t = <<r, <<<<at[a.from], at[a.to]>>, <<at[b.from], at[b.to]>>>>>>
          /\ at[a.from] < at[b.from] /\ at[a.to] > at[b.to]
    BY <2>7
  <2>2. PICK p : p = <<<<a.from, a.to>>, <<b.from, b.to>>>>
    OBVIOUS
  <2>3. p[1] \in L /\ p[2] \in L
    BY <1>1, <2>2 DEF Links, ArcsFrom
  <2>4. level[a.from] = r /\ level[b.from] = r
    BY <1>1, LevelIsColumn DEF ArcsFrom
  <2>5. p \in X
    BY <1>1, <2>1, <2>2, <2>3, <2>4 DEF CrossedPairs
  <2>6. f[p] = t
    BY <1>7, <2>1, <2>2, <2>4, <2>5
  <2> QED BY <2>5, <2>6
<1>10. ASSUME NEW p \in X, NEW q \in X, f[p] = f[q] PROVE p = q
  <2>1. /\ level[p[1][1]] = level[q[1][1]]
        /\ at[p[1][1]] = at[q[1][1]] /\ at[p[1][2]] = at[q[1][2]]
        /\ at[p[2][1]] = at[q[2][1]] /\ at[p[2][2]] = at[q[2][2]]
    BY <1>7, <1>10
  <2>2. \A u \in L : level[u[2]] = level[u[1]] + 1
    BY <1>2 DEF AreLinks
  <2>3. /\ level[p[2][1]] = level[q[2][1]]
        /\ level[p[1][2]] = level[q[1][2]] /\ level[p[2][2]] = level[q[2][2]]
    BY <1>5, <2>1, <2>2
  <2>4. p[1][1] = q[1][1] /\ p[1][2] = q[1][2] /\ p[2][1] = q[2][1] /\ p[2][2] = q[2][2]
    BY <1>2, <1>5, <2>1, <2>3 DEF ArePlaces
  <2> QED BY <1>5, <2>4
<1>11. f \in Bijection(X, T)
  <2>1. f \in [X -> T]
    BY <1>7, <1>8
  <2> QED BY <1>9, <1>10, <2>1 DEF Bijection, Injection, Surjection, IsInjective
<1>12. ExistsBijection(X, T)
  BY <1>11 DEF ExistsBijection
<1>13. Cardinality(T) = Cardinality(X)
  BY ONLY <1>5, <1>12, FS_Bijection
<1> QED BY <1>1, <1>4, <1>7, <1>13

\* What pair_crossing_gain compares are the links of the two items.
LEMMA GainIsSaving ==
  ASSUME graph \in Graphs, NEW l, NEW r
  PROVE  Gain(l, r) = Saving(Links(graph), positions, l, r)
<1>1. ASSUME NEW x PROVE /\ Incoming(x) = IntoItem(Links(graph), x)
                         /\ Outgoing(x) = OutOfItem(Links(graph), x)
  <2>1. Incoming(x) = IntoItem(Links(graph), x)
    <3>1. ASSUME NEW y \in Incoming(x) PROVE y \in IntoItem(Links(graph), x)
      <4>1. PICK a \in Arcs(graph) : a.to = x /\ a.from = y
        BY DEF Incoming
      <4>2. <<y, x>> \in Links(graph)
        BY <4>1 DEF Links
      <4> QED BY <4>2 DEF IntoItem
    <3>2. ASSUME NEW y \in IntoItem(Links(graph), x) PROVE y \in Incoming(x)
      <4>1. PICK u \in Links(graph) : u[2] = x /\ u[1] = y
        BY DEF IntoItem
      <4> QED BY <4>1 DEF Links, Incoming
    <3> QED BY <3>1, <3>2
  <2>2. Outgoing(x) = OutOfItem(Links(graph), x)
    <3>1. ASSUME NEW y \in Outgoing(x) PROVE y \in OutOfItem(Links(graph), x)
      <4>1. PICK a \in Arcs(graph) : a.from = x /\ a.to = y
        BY DEF Outgoing
      <4>2. <<x, y>> \in Links(graph)
        BY <4>1 DEF Links
      <4> QED BY <4>2 DEF OutOfItem
    <3>2. ASSUME NEW y \in OutOfItem(Links(graph), x) PROVE y \in Outgoing(x)
      <4>1. PICK u \in Links(graph) : u[1] = x /\ u[2] = y
        BY DEF OutOfItem
      <4> QED BY <4>1 DEF Links, Outgoing
    <3> QED BY <3>1, <3>2
  <2> QED BY <2>1, <2>2
<1>2. \A A, B : GainAmong(A, B) = Among(positions, A, B)
  BY DEF GainAmong, Among, BehindPairs, AheadPairs
<1> QED BY <1>1, <1>2 DEF Gain, Saving

\* What a swap would save does not depend on the places within the column.
LEMMA SavingElsewhere ==
  ASSUME NEW I, NEW level, NEW L, AreLinks(L, I, level), NEW at, NEW new,
         NEW l \in I, NEW r \in I, level[l] = level[r],
         \A x \in I : level[x] # level[l] => new[x] = at[x]
  PROVE  /\ Saving(L, new, l, r) = Saving(L, at, l, r)
         /\ Saving(L, at, l, r) \in Int
<1>1. PICK A, B, C, D : /\ A = IntoItem(L, l) /\ B = IntoItem(L, r)
                        /\ C = OutOfItem(L, l) /\ D = OutOfItem(L, r)
  OBVIOUS
<1>2. /\ IsFiniteSet(A) /\ IsFiniteSet(B) /\ IsFiniteSet(C) /\ IsFiniteSet(D)
      /\ \A y \in A \cup B : y \in I /\ level[l] = level[y] + 1
      /\ \A y \in C \cup D : y \in I /\ level[y] = level[l] + 1
  BY <1>1, LinkedItems
<1>3. \A y \in A \cup B \cup C \cup D : new[y] = at[y]
  <2>1. ASSUME NEW y \in A \cup B \cup C \cup D PROVE level[y] # level[l] /\ y \in I
    <3>1. y \in I /\ level[y] \in Int /\ level[l] \in Int
      BY <1>2 DEF AreLinks
    <3> QED BY <1>2, <3>1
  <2> QED BY <2>1
<1>4. /\ BehindPairs(new, A, B) = BehindPairs(at, A, B) /\ AheadPairs(new, A, B) = AheadPairs(at, A, B)
      /\ BehindPairs(new, C, D) = BehindPairs(at, C, D) /\ AheadPairs(new, C, D) = AheadPairs(at, C, D)
  BY <1>3 DEF BehindPairs, AheadPairs
<1>5. /\ Cardinality(BehindPairs(at, A, B)) \in Nat /\ Cardinality(AheadPairs(at, A, B)) \in Nat
      /\ Cardinality(BehindPairs(at, C, D)) \in Nat /\ Cardinality(AheadPairs(at, C, D)) \in Nat
  BY <1>2, PairsOfPlaces
<1> QED BY <1>1, <1>4, <1>5 DEF Saving, Among

\* A swap of neighbours takes away as many crossings as it saves.
LEMMA SwapSaves ==
  ASSUME NEW g \in Graphs, NEW ls, AreListed(g, ls),
         NEW c \in Columns(g), NEW k \in Nat \ {0}, k < Len(ls[c])
  PROVE  /\ AreListed(g, [ls EXCEPT ![c] = Swapped(ls[c], k)])
         /\ CrossingCount(g, [ls EXCEPT ![c] = Swapped(ls[c], k)])
              = CrossingCount(g, ls) - Saving(Links(g), PositionsIn(g, ls), ls[c][k], ls[c][k + 1])
<1>1. PICK at, new, swapped, l, r, I, level, L :
        /\ at = PositionsIn(g, ls) /\ new = SwappedPlaces(at, ls[c], k)
        /\ swapped = [ls EXCEPT ![c] = Swapped(ls[c], k)]
        /\ l = ls[c][k] /\ r = ls[c][k + 1]
        /\ I = Items(g) /\ level = Level(g) /\ L = Links(g)
  OBVIOUS
<1>2. AreListed(g, swapped) /\ new = PositionsIn(g, swapped)
  <2>1. PICK order : order = Swapped(ls[c], k)
    OBVIOUS
  <2>2. /\ AreListed(g, [ls EXCEPT ![c] = order])
        /\ new = PositionsIn(g, [ls EXCEPT ![c] = order])
    <3>1. /\ g \in Graphs /\ AreListed(g, ls) /\ c \in Columns(g) /\ k \in Nat \ {0} /\ k < Len(ls[c])
          /\ at = PositionsIn(g, ls) /\ order = Swapped(ls[c], k) /\ new = SwappedPlaces(at, ls[c], k)
      BY <1>1, <2>1
    <3> QED BY ONLY <3>1, SwappedColumn
  <2> QED BY <1>1, <2>1, <2>2
<1>3. AreLinks(L, I, level) /\ ArePlaces(I, level, at) /\ ArePlaces(I, level, new)
  BY <1>1, <1>2, LinksOfGraph, PositionsTellApart
<1>4. /\ l \in I /\ r \in I /\ level[l] = c /\ level[r] = c /\ at[l] = k /\ at[r] = k + 1
  <2>1. k \in 1 .. Len(ls[c]) /\ k + 1 \in 1 .. Len(ls[c])
    BY ListedColumn
  <2> QED BY <1>1, <2>1, PositionIsPlace, LevelIsColumn
<1>5. l # r
  BY <1>4
<1>6. at \in [I -> Int]
  BY <1>3 DEF ArePlaces
<1>7. \A x \in I : new[x] = IF x = r THEN k ELSE IF x = l THEN k + 1 ELSE at[x]
  <2>1. new = [at EXCEPT ![l] = k + 1, ![r] = k]
    BY <1>1 DEF SwappedPlaces
  <2> QED BY ONLY <1>4, <1>5, <1>6, <2>1
<1>8. OnlySwaps(I, level, at, new, l, r)
  <2>1. at[l] < at[r] /\ new[r] < new[l]
    BY <1>4, <1>5, <1>7
  <2>2. \A x \in I : level[x] # level[l] => new[x] = at[x]
    BY <1>4, <1>7
  <2>3. ASSUME NEW x \in I, NEW y \in I, level[x] = level[y], ~ (x = l /\ y = r), ~ (x = r /\ y = l)
        PROVE  at[x] < at[y] <=> new[x] < new[y]
    <3>1. at[x] \in Int /\ at[y] \in Int /\ k \in Int
      BY <1>6
    <3>2. ASSUME NEW z \in I, level[z] = c, z # l, z # r PROVE at[z] # k /\ at[z] # k + 1 /\ new[z] = at[z]
      BY <1>3, <1>4, <1>7, <3>2 DEF ArePlaces
    <3>3. CASE x \in {l, r}
      <4>1. CASE y = x
        BY <1>4, <1>5, <1>7, <3>3, <4>1
      <4>2. CASE y # x
        <5>1. at[y] # k /\ at[y] # k + 1 /\ new[y] = at[y]
          BY <1>4, <2>3, <3>2, <3>3, <4>2
        <5> QED BY <1>4, <1>5, <1>7, <3>1, <3>3, <5>1
      <4> QED BY <4>1, <4>2
    <3>4. CASE x \notin {l, r} /\ y \in {l, r}
      <4>1. at[x] # k /\ at[x] # k + 1 /\ new[x] = at[x]
        BY <1>4, <2>3, <3>2, <3>4
      <4> QED BY <1>4, <1>5, <1>7, <3>1, <3>4, <4>1
    <3>5. CASE x \notin {l, r} /\ y \notin {l, r}
      BY <1>7, <3>5
    <3> QED BY <3>3, <3>4, <3>5
  <2> QED BY <1>4, <1>5, <2>1, <2>2, <2>3 DEF OnlySwaps
<1>9. Cardinality(CrossedPairs(L, level, new))
        = Cardinality(CrossedPairs(L, level, at)) - Saving(L, at, l, r)
  BY ONLY <1>3, <1>8, ExchangeSaves
<1>10. CrossingCount(g, ls) = Cardinality(CrossedPairs(L, level, at))
  BY <1>1, CountIsOfLinks
<1>11. CrossingCount(g, swapped) = Cardinality(CrossedPairs(L, level, new))
  BY <1>1, <1>2, CountIsOfLinks
<1> QED BY <1>1, <1>2, <1>9, <1>10, <1>11

-----------------------------------------------------------------------------
(* Sums.                                                                   *)

Total(S, w) == MapThenSumSet(LAMBDA i : w[i], S)

\* What a sum computes on the subsets of S.
Sums(S, w, h) ==
  h = [s \in SUBSET S |-> IF s = {} THEN 0
                         ELSE w[CHOOSE x \in s : TRUE] + h[s \ {CHOOSE x \in s : TRUE}]]

LEMMA SumsExist ==
  ASSUME NEW S, IsFiniteSet(S), NEW w, \A i \in S : w[i] \in Int
  PROVE  \E h : Sums(S, w, h)
<1>1. PICK choose : choose = [s \in SUBSET S |-> CHOOSE x \in s : TRUE]
  OBVIOUS
<1>2. PICK apply : apply = [p \in S \X Int |-> w[p[1]] + p[2]]
  OBVIOUS
<1>3. \A s \in SUBSET S : s # {} => choose[s] \in s
  BY <1>1
<1>4. \A x \in S, v \in Int : apply[<<x, v>>] = w[x] + v /\ apply[<<x, v>>] \in Int
  BY <1>2
<1>5. PICK f \in [SUBSET S -> Int] :
           /\ f[{}] = 0
           /\ \A s \in SUBSET S : s # {} => f[s] = apply[<<choose[s], f[s \ {choose[s]}]>>]
  <2>1. 0 \in Int /\ \A x \in S : \A v \in Int : apply[<<x, v>>] \in Int
    BY <1>4
  <2>2. Recursions(S, Int, 0, choose, apply) # {}
    BY ONLY IsFiniteSet(S), <1>3, <2>1, RecursionExists
  <2> QED BY <2>2 DEF Recursions
<1>6. ASSUME NEW s \in SUBSET S, s # {}
      PROVE  f[s] = w[CHOOSE x \in s : TRUE] + f[s \ {CHOOSE x \in s : TRUE}]
  <2>1. choose[s] = (CHOOSE x \in s : TRUE) /\ choose[s] \in S /\ s \ {choose[s]} \in SUBSET S
    BY <1>1, <1>3, <1>6
  <2>2. f[s] = w[choose[s]] + f[s \ {choose[s]}]
    BY <1>4, <1>5, <1>6, <2>1
  <2> QED BY <2>1, <2>2
<1>7. Sums(S, w, f)
  BY <1>5, <1>6 DEF Sums
<1> QED BY <1>7

LEMMA TotalIsSum ==
  ASSUME NEW S, IsFiniteSet(S), NEW w, \A i \in S : w[i] \in Int
  PROVE  \E h : Total(S, w) = h[S] /\ Sums(S, w, h)
<1>1. PICK h : h = CHOOSE f : Sums(S, w, f)
  OBVIOUS
<1>2. Sums(S, w, h)
  BY <1>1, SumsExist
<1>3. Total(S, w) = h[S]
  BY <1>1 DEF Sums, Total, MapThenSumSet, MapThenFoldSet
<1> QED BY <1>2, <1>3

\* Sums over a set and over a part of it agree on the part.
LEMMA SumsAgree ==
  ASSUME NEW S, IsFiniteSet(S), NEW T \in SUBSET S, NEW w, NEW g, Sums(S, w, g), NEW h, Sums(T, w, h)
  PROVE  g[T] = h[T]
<1> DEFINE Good == {U \in SUBSET T : g[U] = h[U]}
<1>1. \A s \in SUBSET S : g[s] = IF s = {} THEN 0
                         ELSE w[CHOOSE x \in s : TRUE] + g[s \ {CHOOSE x \in s : TRUE}]
  BY DEF Sums
<1>2. \A s \in SUBSET T : h[s] = IF s = {} THEN 0
                         ELSE w[CHOOSE x \in s : TRUE] + h[s \ {CHOOSE x \in s : TRUE}]
  BY DEF Sums
<1>3. ASSUME NEW U \in SUBSET T, \A V \in SUBSET U : V # U => V \in Good
      PROVE  U \in Good
  <2>1. CASE U = {}
    BY <1>1, <1>2, <2>1
  <2>2. CASE U # {}
    <3>1. PICK x : x = CHOOSE u \in U : TRUE
      OBVIOUS
    <3>2. x \in U
      BY <2>2, <3>1
    <3>3. U \ {x} \in Good
      BY <1>3, <3>2
    <3>4. g[U] = w[x] + g[U \ {x}] /\ h[U] = w[x] + h[U \ {x}]
      BY <1>1, <1>2, <2>2, <3>1
    <3> QED BY <3>3, <3>4
  <2> QED BY <2>1, <2>2
<1>4. IsFiniteSet(T)
  BY FS_Subset
<1>5. T \in Good
  <2> HIDE DEF Good
  <2> QED BY <1>3, <1>4, InductionFromSmaller
<1> QED BY <1>5

\* One at a time, whichever comes first.
LEMMA TotalOfOneMore ==
  ASSUME NEW S, IsFiniteSet(S), NEW w, \A i \in S : w[i] \in Int
  PROVE  /\ Total({}, w) = 0
         /\ Total(S, w) \in Int
         /\ \A x \in S : Total(S, w) = w[x] + Total(S \ {x}, w)
<1> DEFINE Good == {T \in SUBSET S :
                      /\ Total(T, w) \in Int
                      /\ \A x \in T : Total(T, w) = w[x] + Total(T \ {x}, w)}
<1>1. \A T \in SUBSET S : IsFiniteSet(T) /\ \A i \in T : w[i] \in Int
  BY FS_Subset
<1>2. Total({}, w) = 0
  <2>1. PICK g : Total({}, w) = g[{}] /\ Sums({}, w, g)
    BY <1>1, TotalIsSum
  <2> QED BY <2>1 DEF Sums
<1>3. ASSUME NEW T \in SUBSET S, T # {}
      PROVE  \E x \in T : Total(T, w) = w[x] + Total(T \ {x}, w)
  <2>1. PICK g : Total(T, w) = g[T] /\ Sums(T, w, g)
    BY <1>1, TotalIsSum
  <2>2. PICK x \in T : x = CHOOSE u \in T : TRUE
    BY <1>3
  <2>3. PICK U \in SUBSET T : U = T \ {x}
    OBVIOUS
  <2>4. PICK h : Total(U, w) = h[U] /\ Sums(U, w, h)
    BY <1>1, TotalIsSum
  <2>5. IsFiniteSet(T)
    BY <1>1
  <2>6. g[U] = h[U]
    BY ONLY <2>1, <2>4, <2>5, U \in SUBSET T, SumsAgree
  <2>7. g[T] = w[x] + g[U]
    BY <1>3, <2>1, <2>2, <2>3 DEF Sums
  <2> QED BY <2>1, <2>3, <2>4, <2>6, <2>7
<1>4. ASSUME NEW T \in SUBSET S, \A U \in SUBSET T : U # T => U \in Good
      PROVE  T \in Good
  <2>1. CASE T = {}
    BY <1>2, <2>1
  <2>2. CASE T # {}
    <3>1. PICK c \in T : Total(T, w) = w[c] + Total(T \ {c}, w)
      BY <1>3, <2>2
    <3>2. T \ {c} \in Good
      BY <1>4
    <3>3. Total(T, w) \in Int
      BY <1>1, <3>1, <3>2
    <3>4. ASSUME NEW x \in T, x # c
          PROVE  Total(T, w) = w[x] + Total(T \ {x}, w)
      <4>1. T \ {x} \in Good /\ (T \ {x}) \ {c} \in Good
        BY <1>4, <3>4
      <4>2. (T \ {x}) \ {c} = (T \ {c}) \ {x}
        OBVIOUS
      <4>3. Total(T \ {c}, w) = w[x] + Total((T \ {x}) \ {c}, w)
        BY <3>2, <3>4, <4>2
      <4>4. Total(T \ {x}, w) = w[c] + Total((T \ {x}) \ {c}, w)
        BY <3>4, <4>1
      <4>5. w[x] \in Int /\ w[c] \in Int /\ Total((T \ {x}) \ {c}, w) \in Int
        BY <1>1, <4>1
      <4> QED BY <3>1, <4>3, <4>4, <4>5
    <3> QED BY <3>1, <3>3, <3>4
  <2> QED BY <2>1, <2>2
<1>5. S \in Good
  <2> HIDE DEF Good
  <2> QED BY <1>4, InductionFromSmaller
<1> QED BY <1>2, <1>5

PassGains(item, n, k, w) ==
  /\ \A i \in 1 .. n : w[i] \in Int
  /\ \A i \in 1 .. n : i < k => w[i] = Gain(layers[column][i], item)
  /\ \A i \in 1 .. n : i > k => w[i] = Gain(item, layers[column][i])

\* What a move of the sift saves is a sum over the items it passes.
LEMMA MoveGainIsTotal ==
  ASSUME NEW item, NEW n \in Nat, NEW k \in 1 .. n, positions[item] = k, NEW p \in 1 .. n,
         NEW w, PassGains(item, n, k, w)
  PROVE  MoveGain(item, p) = IF p < k THEN Total(p .. k - 1, w) ELSE Total(k + 1 .. p, w)
<1> USE DEF PassGains
<1>1. CASE p < k
  <2>1. PICK S : S = p .. k - 1
    OBVIOUS
  <2>2. S \in SUBSET (1 .. n) /\ IsFiniteSet(S) /\ \A i \in S : i < k
    <3>1. S \in SUBSET (1 .. n) /\ \A i \in S : i < k
      BY <2>1
    <3>2. IsFiniteSet(1 .. n)
      BY FS_Interval, 1 \in Int
    <3> QED BY <3>1, <3>2, FS_Subset
  <2> DEFINE Adds(f) ==
        f = [s \in SUBSET S |->
              IF s = {} THEN 0 ELSE Gain(layers[column][CHOOSE x \in s : TRUE], item) + f[s \ {CHOOSE x \in s : TRUE}]]
  <2>3. PICK h : h = CHOOSE f : Adds(f)
    OBVIOUS
  <2>4. MoveGain(item, p) = h[S]
    BY <1>1, <2>1, <2>3 DEF MoveGain, MapThenSumSet, MapThenFoldSet
  <2>5. \A s \in SUBSET S : s # {} => Gain(layers[column][CHOOSE x \in s : TRUE], item) = w[CHOOSE x \in s : TRUE]
    BY <2>2
  <2>6. PICK f : Sums(S, w, f)
    BY <2>2, SumsExist
  <2>7. Adds(f)
    BY <2>5, <2>6 DEF Sums
  <2>8. Adds(h)
    <3> HIDE DEF Adds
    <3> QED BY <2>3, <2>7
  <2>9. Sums(S, w, h)
    BY <2>5, <2>8 DEF Sums
  <2>10. PICK t : Total(S, w) = t[S] /\ Sums(S, w, t)
    BY <2>2, TotalIsSum
  <2>11. h[S] = t[S]
    <3>1. S \in SUBSET S
      OBVIOUS
    <3> QED BY ONLY <2>2, <2>9, <2>10, <3>1, SumsAgree
  <2> QED BY <1>1, <2>1, <2>4, <2>10, <2>11
<1>2. CASE ~ (p < k)
  <2>1. PICK S : S = k + 1 .. p
    OBVIOUS
  <2>2. S \in SUBSET (1 .. n) /\ IsFiniteSet(S) /\ \A i \in S : i > k
    <3>1. S \in SUBSET (1 .. n) /\ \A i \in S : i > k
      BY <2>1
    <3>2. IsFiniteSet(1 .. n)
      BY FS_Interval, 1 \in Int
    <3> QED BY <3>1, <3>2, FS_Subset
  <2> DEFINE Adds(f) ==
        f = [s \in SUBSET S |->
              IF s = {} THEN 0 ELSE Gain(item, layers[column][CHOOSE x \in s : TRUE]) + f[s \ {CHOOSE x \in s : TRUE}]]
  <2>3. PICK h : h = CHOOSE f : Adds(f)
    OBVIOUS
  <2>4. MoveGain(item, p) = h[S]
    BY <1>2, <2>1, <2>3 DEF MoveGain, MapThenSumSet, MapThenFoldSet
  <2>5. \A s \in SUBSET S : s # {} => Gain(item, layers[column][CHOOSE x \in s : TRUE]) = w[CHOOSE x \in s : TRUE]
    BY <2>2
  <2>6. PICK f : Sums(S, w, f)
    BY <2>2, SumsExist
  <2>7. Adds(f)
    BY <2>5, <2>6 DEF Sums
  <2>8. Adds(h)
    <3> HIDE DEF Adds
    <3> QED BY <2>3, <2>7
  <2>9. Sums(S, w, h)
    BY <2>5, <2>8 DEF Sums
  <2>10. PICK t : Total(S, w) = t[S] /\ Sums(S, w, t)
    BY <2>2, TotalIsSum
  <2>11. h[S] = t[S]
    <3>1. S \in SUBSET S
      OBVIOUS
    <3> QED BY ONLY <2>2, <2>9, <2>10, <3>1, SumsAgree
  <2> QED BY <1>2, <2>1, <2>4, <2>10, <2>11
<1> QED BY <1>1, <1>2

\* Listing a column anew leaves the places in the others.
LEMMA PlacesElsewhere ==
  ASSUME NEW g \in Graphs, NEW ls, AreListed(g, ls), NEW c \in Columns(g),
         NEW new, AreListed(g, new), \A r \in Columns(g) \ {c} : new[r] = ls[r],
         NEW x \in Items(g), Level(g)[x] # c
  PROVE  PositionsIn(g, new)[x] = PositionsIn(g, ls)[x]
<1>1. PICK r \in Columns(g) \ {c} : x \in ColumnItems(g, r)
  BY LevelIsColumn
<1>2. PICK i \in 1 .. Len(ls[r]) : ls[r][i] = x
  BY <1>1, ListedColumn
<1>3. PositionsIn(g, ls)[x] = i
  BY <1>1, <1>2, PositionIsPlace
<1>4. new[r] = ls[r] /\ i \in 1 .. Len(new[r]) /\ new[r][i] = x
  BY <1>1, <1>2
<1>5. PositionsIn(g, new)[x] = i
  BY <1>1, <1>4, PositionIsPlace
<1> QED BY <1>3, <1>5

\* The columns with one item moved.
MovedLayers(ls, c, k, p) == [ls EXCEPT ![c] = MovedTo(ls[c], k, p)]

LEMMA MovedAreListed ==
  ASSUME NEW g \in Graphs, NEW ls, AreListed(g, ls), NEW c \in Columns(g),
         NEW k \in 1 .. Len(ls[c]), NEW p \in 1 .. Len(ls[c])
  PROVE  /\ AreListed(g, MovedLayers(ls, c, k, p))
         /\ MovedLayers(ls, c, k, p)[c] = MovedTo(ls[c], k, p)
         /\ Len(MovedTo(ls[c], k, p)) = Len(ls[c])
         /\ \A r \in Columns(g) \ {c} : MovedLayers(ls, c, k, p)[r] = ls[r]
<1>1. IsFiniteSet(ColumnItems(g, c)) /\ ls[c] \in Orders(ColumnItems(g, c)) /\ DOMAIN ls = Columns(g)
  BY ColumnsAreFinite DEF AreListed
<1>2. MovedTo(ls[c], k, p) \in Orders(ColumnItems(g, c))
  BY <1>1, MovedIsOrder
<1>3. /\ MovedLayers(ls, c, k, p)[c] = MovedTo(ls[c], k, p)
      /\ \A r \in Columns(g) \ {c} : MovedLayers(ls, c, k, p)[r] = ls[r]
      /\ MovedLayers(ls, c, k, p) = [r \in Columns(g) |-> MovedLayers(ls, c, k, p)[r]]
  BY <1>1 DEF MovedLayers, AreListed
<1>4. \A r \in Columns(g) : MovedLayers(ls, c, k, p)[r] \in Orders(ColumnItems(g, r))
  BY <1>2, <1>3 DEF AreListed
<1>5. AreListed(g, MovedLayers(ls, c, k, p))
  BY <1>3, <1>4 DEF AreListed
<1>6. Len(MovedTo(ls[c], k, p)) = Len(ls[c])
  BY <1>1, <1>2, OrderListsAll
<1> QED BY <1>3, <1>5, <1>6

\* One step of a move is a swap of neighbours.
LEMMA StepIsSwap ==
  ASSUME NEW order, NEW n \in Nat, Len(order) = n, NEW S, order \in [1 .. n -> S],
         NEW k \in 1 .. n, NEW p \in 1 .. n
  PROVE  /\ p <= k /\ p > 1 =>
              /\ Swapped(MovedTo(order, k, p), p - 1) = MovedTo(order, k, p - 1)
              /\ MovedTo(order, k, p)[p - 1] = order[p - 1]
              /\ MovedTo(order, k, p)[(p - 1) + 1] = order[k]
         /\ p >= k /\ p < n =>
              /\ Swapped(MovedTo(order, k, p), p) = MovedTo(order, k, p + 1)
              /\ MovedTo(order, k, p)[p] = order[k]
              /\ MovedTo(order, k, p)[p + 1] = order[p + 1]
<1>1. PICK m : m = MovedTo(order, k, p)
  OBVIOUS
<1>2. m = [i \in 1 .. n |-> IF i = p THEN order[k]
                            ELSE IF p < i /\ i <= k THEN order[i - 1]
                            ELSE IF k <= i /\ i < p THEN order[i + 1]
                            ELSE order[i]]
  BY <1>1 DEF MovedTo
<1>3. ASSUME p <= k, p > 1
      PROVE  /\ Swapped(MovedTo(order, k, p), p - 1) = MovedTo(order, k, p - 1)
             /\ MovedTo(order, k, p)[p - 1] = order[p - 1]
             /\ MovedTo(order, k, p)[(p - 1) + 1] = order[k]
  <2>1. p - 1 \in 1 .. n /\ (p - 1) + 1 = p /\ p - 1 # p
    BY <1>3
  <2>2. m[p - 1] = order[p - 1] /\ m[p] = order[k]
    BY <1>2, <1>3, <2>1
  <2>3. PICK s : s = Swapped(m, p - 1)
    OBVIOUS
  <2>4. s = [i \in 1 .. n |-> IF i = p - 1 THEN order[k] ELSE IF i = p THEN order[p - 1] ELSE m[i]]
    <3>1. s = [m EXCEPT ![p - 1] = order[k], ![p] = order[p - 1]]
      BY <2>1, <2>2, <2>3 DEF Swapped
    <3>2. DOMAIN m = 1 .. n
      BY <1>2
    <3> QED BY <1>2, <2>1, <3>1, <3>2
  <2>5. PICK t : t = MovedTo(order, k, p - 1)
    OBVIOUS
  <2>6. t = [i \in 1 .. n |-> IF i = p - 1 THEN order[k]
                            ELSE IF p - 1 < i /\ i <= k THEN order[i - 1]
                            ELSE IF k <= i /\ i < p - 1 THEN order[i + 1]
                            ELSE order[i]]
    BY <2>5 DEF MovedTo
  <2>7. ASSUME NEW i \in 1 .. n PROVE s[i] = t[i]
    <3>1. CASE i = p - 1
      BY <2>4, <2>6, <3>1
    <3>2. CASE i = p
      BY <1>3, <2>1, <2>4, <2>6, <3>2
    <3>3. CASE i # p - 1 /\ i # p
      <4>1. s[i] = m[i]
        BY <2>4, <3>3
      <4> QED BY <1>2, <1>3, <2>6, <3>3, <4>1
    <3> QED BY <3>1, <3>2, <3>3
  <2>8. s = t
    BY <2>4, <2>6, <2>7
  <2> QED BY <1>1, <1>3, <2>1, <2>2, <2>3, <2>5, <2>8
<1>4. ASSUME p >= k, p < n
      PROVE  /\ Swapped(MovedTo(order, k, p), p) = MovedTo(order, k, p + 1)
             /\ MovedTo(order, k, p)[p] = order[k]
             /\ MovedTo(order, k, p)[p + 1] = order[p + 1]
  <2>1. p + 1 \in 1 .. n /\ p + 1 # p
    BY <1>4
  <2>2. m[p + 1] = order[p + 1] /\ m[p] = order[k]
    BY <1>2, <1>4, <2>1
  <2>3. PICK s : s = Swapped(m, p)
    OBVIOUS
  <2>4. s = [i \in 1 .. n |-> IF i = p THEN order[p + 1] ELSE IF i = p + 1 THEN order[k] ELSE m[i]]
    <3>1. s = [m EXCEPT ![p] = order[p + 1], ![p + 1] = order[k]]
      BY <2>1, <2>2, <2>3 DEF Swapped
    <3>2. DOMAIN m = 1 .. n
      BY <1>2
    <3> QED BY <1>2, <2>1, <3>1, <3>2
  <2>5. PICK t : t = MovedTo(order, k, p + 1)
    OBVIOUS
  <2>6. t = [i \in 1 .. n |-> IF i = p + 1 THEN order[k]
                            ELSE IF p + 1 < i /\ i <= k THEN order[i - 1]
                            ELSE IF k <= i /\ i < p + 1 THEN order[i + 1]
                            ELSE order[i]]
    BY <2>5 DEF MovedTo
  <2>7. ASSUME NEW i \in 1 .. n PROVE s[i] = t[i]
    <3>1. CASE i = p + 1
      BY <2>4, <2>6, <3>1
    <3>2. CASE i = p
      BY <1>4, <2>1, <2>4, <2>6, <3>2
    <3>3. CASE i # p + 1 /\ i # p
      <4>1. s[i] = m[i]
        BY <2>4, <3>3
      <4> QED BY <1>2, <1>4, <2>6, <3>3, <4>1
    <3> QED BY <3>1, <3>2, <3>3
  <2>8. s = t
    BY <2>4, <2>6, <2>7
  <2> QED BY <1>1, <1>4, <2>1, <2>2, <2>3, <2>5, <2>8
<1> QED BY <1>3, <1>4

\* What passing each item of the column saves.
PassSavings(g, ls, c, k) ==
  [i \in 1 .. Len(ls[c]) |->
     IF i < k THEN Saving(Links(g), PositionsIn(g, ls), ls[c][i], ls[c][k])
     ELSE Saving(Links(g), PositionsIn(g, ls), ls[c][k], ls[c][i])]

LEMMA PassSavingsAreNumbers ==
  ASSUME NEW g \in Graphs, NEW ls, AreListed(g, ls), NEW c \in Columns(g), NEW k \in 1 .. Len(ls[c])
  PROVE  \A i \in 1 .. Len(ls[c]) : PassSavings(g, ls, c, k)[i] \in Int
<1>1. ASSUME NEW i \in 1 .. Len(ls[c]), NEW j \in 1 .. Len(ls[c])
      PROVE  Saving(Links(g), PositionsIn(g, ls), ls[c][i], ls[c][j]) \in Int
  <2>1. AreLinks(Links(g), Items(g), Level(g))
    BY LinksOfGraph
  <2>2. /\ ls[c][i] \in Items(g) /\ ls[c][j] \in Items(g)
        /\ Level(g)[ls[c][i]] = Level(g)[ls[c][j]]
    BY PositionIsPlace, LevelIsColumn
  <2>3. PICK at : at = PositionsIn(g, ls)
    OBVIOUS
  <2>4. Saving(Links(g), at, ls[c][i], ls[c][j]) \in Int
    BY <2>1, <2>2, SavingElsewhere
  <2> QED BY <2>3, <2>4
<1> QED BY <1>1 DEF PassSavings

\* One step further saves what passing the next item does.
LEMMA StepSaves ==
  ASSUME NEW g \in Graphs, NEW ls, AreListed(g, ls), NEW c \in Columns(g),
         NEW k \in 1 .. Len(ls[c]), NEW p \in 1 .. Len(ls[c])
  PROVE  /\ p <= k /\ p > 1 =>
              CrossingCount(g, MovedLayers(ls, c, k, p - 1))
                = CrossingCount(g, MovedLayers(ls, c, k, p)) - PassSavings(g, ls, c, k)[p - 1]
         /\ p >= k /\ p < Len(ls[c]) =>
              CrossingCount(g, MovedLayers(ls, c, k, p + 1))
                = CrossingCount(g, MovedLayers(ls, c, k, p)) - PassSavings(g, ls, c, k)[p + 1]
<1>1. PICK n, new, order : n = Len(ls[c]) /\ new = MovedLayers(ls, c, k, p) /\ order = MovedTo(ls[c], k, p)
  OBVIOUS
<1>2. /\ AreListed(g, new) /\ new[c] = order /\ Len(order) = n
      /\ \A r \in Columns(g) \ {c} : new[r] = ls[r]
  BY <1>1, MovedAreListed
<1>3. n \in Nat /\ ls[c] \in [1 .. n -> ColumnItems(g, c)]
  <2>1. n \in Nat /\ n = Cardinality(ColumnItems(g, c)) /\ ls[c] \in Orders(ColumnItems(g, c))
    BY <1>1, ListedColumn DEF AreListed
  <2> QED BY <2>1 DEF Orders
<1>4. ASSUME NEW i \in 1 .. n, NEW j \in 1 .. n
      PROVE  Saving(Links(g), PositionsIn(g, new), ls[c][i], ls[c][j])
               = Saving(Links(g), PositionsIn(g, ls), ls[c][i], ls[c][j])
  <2>1. AreLinks(Links(g), Items(g), Level(g))
    BY LinksOfGraph
  <2>2. /\ ls[c][i] \in Items(g) /\ ls[c][j] \in Items(g)
        /\ Level(g)[ls[c][i]] = c /\ Level(g)[ls[c][j]] = c
    BY <1>1, PositionIsPlace, LevelIsColumn
  <2>3. \A x \in Items(g) : Level(g)[x] # c => PositionsIn(g, new)[x] = PositionsIn(g, ls)[x]
    BY <1>2, PlacesElsewhere
  <2>4. PICK at, other, I, level, L, l, r :
          /\ at = PositionsIn(g, ls) /\ other = PositionsIn(g, new)
          /\ I = Items(g) /\ level = Level(g) /\ L = Links(g) /\ l = ls[c][i] /\ r = ls[c][j]
    OBVIOUS
  <2>5. /\ AreLinks(L, I, level) /\ l \in I /\ r \in I /\ level[l] = level[r]
        /\ \A x \in I : level[x] # level[l] => other[x] = at[x]
    BY <2>1, <2>2, <2>3, <2>4
  <2>6. Saving(L, other, l, r) = Saving(L, at, l, r)
    BY ONLY <2>5, SavingElsewhere
  <2> QED BY <2>4, <2>6
<1>5. ASSUME NEW q \in Nat \ {0}, q < n
      PROVE  CrossingCount(g, [new EXCEPT ![c] = Swapped(order, q)])
               = CrossingCount(g, new) - Saving(Links(g), PositionsIn(g, new), order[q], order[q + 1])
  <2>1. q < Len(new[c])
    BY <1>2, <1>5
  <2>2. CrossingCount(g, [new EXCEPT ![c] = Swapped(new[c], q)])
               = CrossingCount(g, new) - Saving(Links(g), PositionsIn(g, new), new[c][q], new[c][q + 1])
    BY <1>2, <2>1, SwapSaves
  <2> QED BY <1>2, <2>2
<1>6. \A o : [new EXCEPT ![c] = o] = [ls EXCEPT ![c] = o]
  BY <1>1 DEF MovedLayers, AreListed
<1>7. ASSUME p <= k, p > 1
      PROVE  CrossingCount(g, MovedLayers(ls, c, k, p - 1))
               = CrossingCount(g, new) - PassSavings(g, ls, c, k)[p - 1]
  <2>1. /\ Swapped(order, p - 1) = MovedTo(ls[c], k, p - 1)
        /\ order[p - 1] = ls[c][p - 1] /\ order[(p - 1) + 1] = ls[c][k]
    BY <1>1, <1>3, <1>7, StepIsSwap
  <2>2. p - 1 \in Nat \ {0} /\ p - 1 < n /\ p - 1 \in 1 .. n /\ k \in 1 .. n /\ p - 1 < k
    BY <1>1, <1>3, <1>7
  <2>3. [new EXCEPT ![c] = Swapped(order, p - 1)] = MovedLayers(ls, c, k, p - 1)
    BY <1>6, <2>1 DEF MovedLayers
  <2>4. Saving(Links(g), PositionsIn(g, new), order[p - 1], order[(p - 1) + 1])
          = Saving(Links(g), PositionsIn(g, ls), ls[c][p - 1], ls[c][k])
    BY <1>4, <2>1, <2>2
  <2>5. PassSavings(g, ls, c, k)[p - 1] = Saving(Links(g), PositionsIn(g, ls), ls[c][p - 1], ls[c][k])
    BY <1>1, <2>2 DEF PassSavings
  <2> QED BY <1>5, <2>2, <2>3, <2>4, <2>5
<1>8. ASSUME p >= k, p < n
      PROVE  CrossingCount(g, MovedLayers(ls, c, k, p + 1))
               = CrossingCount(g, new) - PassSavings(g, ls, c, k)[p + 1]
  <2>1. /\ Swapped(order, p) = MovedTo(ls[c], k, p + 1)
        /\ order[p] = ls[c][k] /\ order[p + 1] = ls[c][p + 1]
    BY <1>1, <1>3, <1>8, StepIsSwap
  <2>2. p \in Nat \ {0} /\ p < n /\ p + 1 \in 1 .. n /\ k \in 1 .. n /\ ~ (p + 1 < k)
    BY <1>1, <1>3, <1>8
  <2>3. [new EXCEPT ![c] = Swapped(order, p)] = MovedLayers(ls, c, k, p + 1)
    BY <1>6, <2>1 DEF MovedLayers
  <2>4. Saving(Links(g), PositionsIn(g, new), order[p], order[p + 1])
          = Saving(Links(g), PositionsIn(g, ls), ls[c][k], ls[c][p + 1])
    BY <1>4, <2>1, <2>2
  <2>5. PassSavings(g, ls, c, k)[p + 1] = Saving(Links(g), PositionsIn(g, ls), ls[c][k], ls[c][p + 1])
    BY <1>1, <2>2 DEF PassSavings
  <2> QED BY <1>5, <2>2, <2>3, <2>4, <2>5
<1> QED BY <1>1, <1>7, <1>8

\* To where it is an item is not moved.
LEMMA MovedNowhere ==
  ASSUME NEW g \in Graphs, NEW ls, AreListed(g, ls), NEW c \in Columns(g), NEW k \in 1 .. Len(ls[c])
  PROVE  MovedLayers(ls, c, k, k) = ls
<1>1. PICK n, order : n = Len(ls[c]) /\ order = ls[c]
  OBVIOUS
<1>2. n \in Nat /\ order = [i \in 1 .. n |-> order[i]]
  BY <1>1, ListedColumn
<1>3. MovedTo(order, k, k) = order
  <2>1. MovedTo(order, k, k) = [i \in 1 .. n |-> IF i = k THEN order[k]
                                 ELSE IF k < i /\ i <= k THEN order[i - 1]
                                 ELSE IF k <= i /\ i < k THEN order[i + 1]
                                 ELSE order[i]]
    BY <1>1 DEF MovedTo
  <2>2. \A i \in 1 .. n : ~ (k < i /\ i <= k) /\ ~ (k <= i /\ i < k)
    BY <1>1, <1>2
  <2> QED BY <1>2, <2>1, <2>2
<1>4. ls = [r \in Columns(g) |-> ls[r]]
  BY DEF AreListed
<1> QED BY <1>1, <1>3, <1>4 DEF MovedLayers

\* A move takes away as many crossings as passing its items saves.
LEMMA MoveSaves ==
  ASSUME NEW g \in Graphs, NEW ls, AreListed(g, ls), NEW c \in Columns(g),
         NEW k \in 1 .. Len(ls[c]), NEW p \in 1 .. Len(ls[c]),
         NEW w, w = PassSavings(g, ls, c, k)
  PROVE  CrossingCount(g, MovedLayers(ls, c, k, p))
           = CrossingCount(g, ls) - (IF p < k THEN Total(p .. k - 1, w) ELSE Total(k + 1 .. p, w))
<1>1. PICK n, count : n = Len(ls[c]) /\ count = CrossingCount(g, ls)
  OBVIOUS
<1>2. n \in Nat /\ k \in 1 .. n /\ p \in 1 .. n
  BY <1>1, ListedColumn
<1>3. \A i \in 1 .. n : w[i] \in Int
  BY <1>1, PassSavingsAreNumbers
<1>4. \A ls2 : CrossingCount(g, ls2) \in Int
  BY CrossingsAreCounted
<1>5. count \in Int
  BY <1>1, <1>4
<1>6. MovedLayers(ls, c, k, k) = ls
  BY <1>2, <1>1, MovedNowhere
<1>7. \A i, j \in Int : IsFiniteSet(i .. j)
  BY FS_Interval
<1>8. Total({}, w) = 0
  <2>1. IsFiniteSet({}) /\ \A i \in {} : w[i] \in Int
    BY FS_EmptySet
  <2> QED BY <2>1, TotalOfOneMore
<1>9. ASSUME NEW a \in 1 .. n, NEW b \in 1 .. n
      PROVE  /\ Total(a .. b, w) \in Int
             /\ a <= b => /\ Total(a .. b, w) = w[a] + Total(a + 1 .. b, w)
                          /\ Total(a .. b, w) = w[b] + Total(a .. b - 1, w)
  <2>1. IsFiniteSet(a .. b) /\ \A i \in a .. b : w[i] \in Int
    BY <1>2, <1>3, <1>7
  <2>2. a <= b => /\ a \in a .. b /\ (a .. b) \ {a} = a + 1 .. b
                  /\ b \in a .. b /\ (a .. b) \ {b} = a .. b - 1
    BY <1>2
  <2>3. Total(a .. b, w) \in Int /\ \A x \in a .. b : Total(a .. b, w) = w[x] + Total((a .. b) \ {x}, w)
    BY <2>1, TotalOfOneMore
  <2> QED BY <2>2, <2>3
<1>10. ASSUME p < k
       PROVE  CrossingCount(g, MovedLayers(ls, c, k, p)) = count - Total(p .. k - 1, w)
  <2>1. PICK Good : Good = {j \in Nat : k - j >= 1 /\ j > 0 =>
                              /\ CrossingCount(g, MovedLayers(ls, c, k, k - j))
                                   = count - Total(k - j .. k - 1, w)}
    OBVIOUS
  <2>2. 0 \in Good
    BY <2>1
  <2>3. ASSUME NEW j \in Nat, j \in Good PROVE j + 1 \in Good
    <3>1. SUFFICES ASSUME k - (j + 1) >= 1
                   PROVE  CrossingCount(g, MovedLayers(ls, c, k, k - (j + 1)))
                            = count - Total(k - (j + 1) .. k - 1, w)
      BY <2>1
    <3>2. PICK q : q = k - j
      OBVIOUS
    <3>3. /\ q \in 1 .. n /\ q <= k /\ q > 1 /\ k - (j + 1) = q - 1
          /\ q - 1 \in 1 .. n /\ (q - 1) + 1 = q /\ k - 1 \in 1 .. n /\ q - 1 <= k - 1
      BY <1>2, <3>1, <3>2
    <3>4. CrossingCount(g, MovedLayers(ls, c, k, q - 1))
            = CrossingCount(g, MovedLayers(ls, c, k, q)) - w[q - 1]
      BY <1>1, <3>3, StepSaves
    <3>5. Total(q - 1 .. k - 1, w) = w[q - 1] + Total(q .. k - 1, w)
      BY <1>9, <3>3
    <3>6. CrossingCount(g, MovedLayers(ls, c, k, q)) = count - Total(q .. k - 1, w)
      <4>1. CASE j = 0
        <5>1. q = k /\ q .. k - 1 = {}
          BY <1>2, <3>2, <4>1
        <5> QED BY <1>1, <1>5, <1>6, <1>8, <5>1
      <4>2. CASE j > 0
        BY <2>1, <2>3, <3>2, <3>3, <4>2
      <4> QED BY <4>1, <4>2
    <3>7. Total(q .. k - 1, w) \in Int /\ w[q - 1] \in Int
      BY <1>3, <1>9, <3>3
    <3>8. CrossingCount(g, MovedLayers(ls, c, k, q - 1)) = count - Total(q - 1 .. k - 1, w)
      BY <1>5, <3>4, <3>5, <3>6, <3>7
    <3> QED BY <3>3, <3>8
  <2>4. \A j \in Nat : j \in Good
    BY <2>2, <2>3, CountingUp
  <2>5. k - p \in Nat /\ k - p > 0 /\ k - (k - p) = p /\ k - (k - p) >= 1
    BY <1>2, <1>10
  <2> QED BY <2>1, <2>4, <2>5
<1>11. ASSUME ~ (p < k)
       PROVE  CrossingCount(g, MovedLayers(ls, c, k, p)) = count - Total(k + 1 .. p, w)
  <2>1. PICK Good : Good = {j \in Nat : k + j <= n =>
                              CrossingCount(g, MovedLayers(ls, c, k, k + j))
                                = count - Total(k + 1 .. k + j, w)}
    OBVIOUS
  <2>2. 0 \in Good
    <3>1. k + 0 = k /\ k + 1 .. k + 0 = {}
      BY <1>2
    <3> QED BY <1>1, <1>5, <1>6, <1>8, <2>1, <3>1
  <2>3. ASSUME NEW j \in Nat, j \in Good PROVE j + 1 \in Good
    <3>1. SUFFICES ASSUME k + (j + 1) <= n
                   PROVE  CrossingCount(g, MovedLayers(ls, c, k, k + (j + 1)))
                            = count - Total(k + 1 .. k + (j + 1), w)
      BY <2>1
    <3>2. PICK q : q = k + j
      OBVIOUS
    <3>3. /\ q \in 1 .. n /\ q >= k /\ q < n /\ k + (j + 1) = q + 1
          /\ q + 1 \in 1 .. n /\ (q + 1) - 1 = q /\ k + 1 \in 1 .. n /\ k + 1 <= q + 1
      BY <1>2, <3>1, <3>2
    <3>4. CrossingCount(g, MovedLayers(ls, c, k, q + 1))
            = CrossingCount(g, MovedLayers(ls, c, k, q)) - w[q + 1]
      BY <1>1, <3>3, StepSaves
    <3>5. Total(k + 1 .. q + 1, w) = w[q + 1] + Total(k + 1 .. q, w)
      BY <1>9, <3>3
    <3>6. CrossingCount(g, MovedLayers(ls, c, k, q)) = count - Total(k + 1 .. q, w)
      BY <2>1, <2>3, <3>2, <3>3
    <3>7. Total(k + 1 .. q, w) \in Int /\ w[q + 1] \in Int
      BY <1>3, <1>9, <3>3
    <3>8. CrossingCount(g, MovedLayers(ls, c, k, q + 1)) = count - Total(k + 1 .. q + 1, w)
      BY <1>5, <3>4, <3>5, <3>6, <3>7
    <3> QED BY <3>3, <3>8
  <2>4. \A j \in Nat : j \in Good
    BY <2>2, <2>3, CountingUp
  <2>5. p - k \in Nat /\ k + (p - k) = p /\ k + (p - k) <= n
    BY <1>2, <1>11
  <2> QED BY <2>1, <2>4, <2>5
<1> QED BY <1>1, <1>10, <1>11

\* A pair is swapped if that takes crossings away.
LEMMA SwapLowers ==
  ASSUME graph \in Graphs, AreListed(graph, layers), positions = PositionsIn(graph, layers),
         index \in Nat \ {0}, TransposePair, layers' # layers
  PROVE  CrossingCount(graph, layers') < CrossingCount(graph, layers)
<1>1. PICK l, r, c, k : l = layers[column][index] /\ r = layers[column][index + 1] /\ c = column /\ k = index
  OBVIOUS
<1>2. /\ c \in Columns(graph) /\ k < Len(layers[c]) /\ k \in Nat \ {0}
      /\ Gain(l, r) > 0
      /\ layers' = [layers EXCEPT ![c] = [@ EXCEPT ![k] = r, ![k + 1] = l]]
  BY <1>1 DEF TransposePair
<1>3. layers' = [layers EXCEPT ![c] = Swapped(layers[c], k)]
  <2>1. Swapped(layers[c], k) = [layers[c] EXCEPT ![k] = r, ![k + 1] = l]
    BY <1>1 DEF Swapped
  <2>2. c \in DOMAIN layers
    BY <1>2 DEF AreListed
  <2> QED BY <1>2, <2>1, <2>2
<1>4. CrossingCount(graph, [layers EXCEPT ![c] = Swapped(layers[c], k)])
        = CrossingCount(graph, layers)
            - Saving(Links(graph), PositionsIn(graph, layers), layers[c][k], layers[c][k + 1])
  <2>1. /\ graph \in Graphs /\ AreListed(graph, layers)
        /\ c \in Columns(graph) /\ k < Len(layers[c]) /\ k \in Nat \ {0}
    BY <1>2
  <2> QED BY ONLY <2>1, SwapSaves
<1>5. Gain(l, r) = Saving(Links(graph), PositionsIn(graph, layers), layers[c][k], layers[c][k + 1])
  BY <1>1, GainIsSaving
<1>6. CrossingCount(graph, layers) \in Int /\ CrossingCount(graph, layers') \in Int
  BY CrossingsAreCounted
<1>7. PICK count, gain : count = CrossingCount(graph, layers) /\ gain = Gain(l, r)
  OBVIOUS
<1>8. CrossingCount(graph, layers') = count - gain /\ gain > 0 /\ count \in Int
  BY <1>2, <1>3, <1>4, <1>5, <1>6, <1>7
<1>9. gain \in Int
  <2>1. AreLinks(Links(graph), Items(graph), Level(graph))
    BY LinksOfGraph
  <2>2. k \in 1 .. Len(layers[c]) /\ k + 1 \in 1 .. Len(layers[c])
    BY <1>2, ListedColumn
  <2>3. /\ l \in Items(graph) /\ r \in Items(graph) /\ Level(graph)[l] = Level(graph)[r]
    BY <1>1, <1>2, <2>2, PositionIsPlace, LevelIsColumn
  <2>4. Saving(Links(graph), positions, l, r) \in Int
    BY <2>1, <2>3, SavingElsewhere
  <2> QED BY <1>7, <2>4, GainIsSaving
<1> QED BY <1>7, <1>8, <1>9

\* An item leaves its place only for one where fewer edges cross.
LEMMA MoveLowers ==
  ASSUME graph \in Graphs, AreListed(graph, layers), positions = PositionsIn(graph, layers),
         column \in Columns(graph), waiting \in Orders(ColumnItems(graph, column)),
         SiftItem, layers' # layers
  PROVE  CrossingCount(graph, layers') < CrossingCount(graph, layers)
<1>1. PICK c, n, item : c = column /\ n = Len(layers[c]) /\ item = waiting[index]
  OBVIOUS
<1>2. n \in Nat /\ DOMAIN layers[c] = 1 .. n
  BY <1>1, ListedColumn
<1>3. item \in ColumnItems(graph, c)
  <2>1. index \in DOMAIN waiting
    BY DEF SiftItem
  <2> QED BY <1>1, <2>1 DEF Orders
<1>4. PICK k \in 1 .. n : layers[c][k] = item
  BY <1>1, <1>3, ListedColumn
<1>5. positions[item] = k
  BY <1>1, <1>4, PositionIsPlace
<1>6. PICK p \in 1 .. n : /\ IsBestPosition(item, p)
                          /\ layers' = [layers EXCEPT ![c] = InsertAt(RemoveAt(@, k), p, item)]
  BY <1>1, <1>2, <1>5 DEF SiftItem
<1>7. layers' = MovedLayers(layers, c, k, p)
  <2>1. IsFiniteSet(ColumnItems(graph, c)) /\ layers[c] \in Orders(ColumnItems(graph, c))
    BY <1>1, ColumnsAreFinite DEF AreListed
  <2>2. InsertAt(RemoveAt(layers[c], k), p, layers[c][k]) = MovedTo(layers[c], k, p)
    BY <1>1, <1>4, <2>1, MovedAlong
  <2> QED BY <1>1, <1>4, <1>6, <2>2 DEF AreListed, MovedLayers
<1>8. p # k
  BY <1>1, <1>4, <1>7, MovedNowhere
<1>9. PICK w : w = PassSavings(graph, layers, c, k)
  OBVIOUS
<1>10. \A i \in 1 .. n : w[i] \in Int
  BY <1>1, <1>9, PassSavingsAreNumbers
<1>11. /\ \A i \in 1 .. n : i < k => w[i] = Gain(layers[column][i], item)
       /\ \A i \in 1 .. n : i > k => w[i] = Gain(item, layers[column][i])
  <2>1. \A i \in 1 .. n : w[i] = IF i < k THEN Saving(Links(graph), positions, layers[c][i], item)
                                 ELSE Saving(Links(graph), positions, item, layers[c][i])
    BY <1>1, <1>4, <1>9 DEF PassSavings
  <2>2. \A i \in 1 .. n : i > k => ~ (i < k)
    BY <1>2
  <2> QED BY <1>1, <2>1, <2>2, GainIsSaving
<1>12. ASSUME NEW q \in 1 .. n
       PROVE  MoveGain(item, q) = IF q < k THEN Total(q .. k - 1, w) ELSE Total(k + 1 .. q, w)
  <2>1. PassGains(item, n, k, w)
    BY <1>10, <1>11 DEF PassGains
  <2>2. n \in Nat /\ k \in 1 .. n /\ q \in 1 .. n /\ positions[item] = k
    BY <1>2, <1>5
  <2> QED BY ONLY <2>1, <2>2, MoveGainIsTotal
<1>13. \A q \in 1 .. n : MoveGain(item, q) \in Int
  <2>1. ASSUME NEW q \in 1 .. n, NEW S \in SUBSET (1 .. n) PROVE Total(S, w) \in Int
    <3>1. IsFiniteSet(1 .. n)
      BY <1>2, FS_Interval, 1 \in Int
    <3>2. IsFiniteSet(S) /\ \A i \in S : w[i] \in Int
      BY <1>10, <3>1, FS_Subset
    <3> QED BY <3>2, TotalOfOneMore
  <2>2. \A q \in 1 .. n : q .. k - 1 \in SUBSET (1 .. n) /\ k + 1 .. q \in SUBSET (1 .. n)
    BY <1>2
  <2> QED BY <1>12, <2>1, <2>2
<1>14. MoveGain(item, k) = 0
  <2>1. k + 1 .. k = {} /\ ~ (k < k)
    BY <1>2
  <2>2. IsFiniteSet({}) /\ \A i \in {} : w[i] \in Int
    BY FS_EmptySet
  <2>3. Total({}, w) = 0
    BY <2>2, TotalOfOneMore
  <2> QED BY <1>12, <2>1, <2>3
<1>15. PICK gains, best1 : gains = {MoveGain(item, q) : q \in 1 .. n} /\ best1 = BestGain(item)
  OBVIOUS
<1>16. best1 \in Int /\ best1 >= 0
  <2>1. PICK f : f = [q \in 1 .. n |-> MoveGain(item, q)]
    OBVIOUS
  <2>2. f \in [1 .. n -> Int] /\ gains = {f[q] : q \in 1 .. n}
    BY <1>13, <1>15, <2>1
  <2>3. IsFiniteSet(1 .. n) /\ 1 .. n # {}
    <3>1. IsFiniteSet(1 .. n)
      BY <1>2, FS_Interval, 1 \in Int
    <3>2. k \in 1 .. n
      OBVIOUS
    <3> QED BY <3>1, <3>2
  <2>4. Max(gains) \in gains /\ \A y \in gains : Max(gains) >= y
    BY ONLY <2>2, <2>3, GreatestValue
  <2>5. best1 = Max(gains)
    BY <1>1, <1>2, <1>15 DEF BestGain
  <2>6. 0 \in gains
    BY <1>14, <1>15
  <2> QED BY <1>13, <1>15, <2>4, <2>5, <2>6
<1>17. /\ MoveGain(item, p) = best1
       /\ \A q \in 1 .. n : MoveGain(item, q) = best1 => Turn(item, p) <= Turn(item, q)
  BY <1>1, <1>2, <1>6, <1>15 DEF IsBestPosition
<1>18. best1 # 0
  <2> SUFFICES ASSUME best1 = 0 PROVE FALSE
    OBVIOUS
  <2>1. Turn(item, p) <= Turn(item, k)
    BY <1>14, <1>17
  <2>2. Turn(item, k) = 0
    BY <1>5 DEF Turn
  <2>3. Turn(item, p) = IF p < k THEN k - p ELSE p - 1
    BY <1>5, <1>8 DEF Turn
  <2>4. Turn(item, p) > 0
    BY <1>2, <1>8, <2>3
  <2> QED BY <1>2, <2>1, <2>2, <2>3, <2>4
<1>19. CrossingCount(graph, layers') = CrossingCount(graph, layers) - best1
  <2>1. CrossingCount(graph, MovedLayers(layers, c, k, p))
          = CrossingCount(graph, layers) - (IF p < k THEN Total(p .. k - 1, w) ELSE Total(k + 1 .. p, w))
    BY <1>1, <1>9, MoveSaves
  <2> QED BY <1>7, <1>12, <1>17, <2>1
<1>20. CrossingCount(graph, layers) \in Int
  BY CrossingsAreCounted
<1> QED BY <1>16, <1>18, <1>19, <1>20

-----------------------------------------------------------------------------
(* The inductive invariant.                                                *)

IsMeasured(g, order) ==
  AreListed(g, order.layers) /\ order.crossings = CrossingCount(g, order.layers)

IsScored(g, order) ==
  /\ order.crossings = NetCrossingCount(g, order.layers)
  /\ order.edgeCrossings = CrossingCount(g, order.layers)

\* No column has been listed yet.
Unlisted == stage = "start" /\ seed = "forward"

Sweeps == {"swept", "sort", "transpose"}
Sifts == {"choose", "sift", "done"}

StagesFollow ==
  /\ graph \in Graphs
  /\ stage \in {"start"} \cup Sweeps \cup Sifts
  /\ seed \in {"forward", "reverse", "median", "sifted"}
  /\ stage \in Sifts <=> seed = "sifted"
  /\ index \in Nat \ {0}

ColumnsAreListed ==
  IF Unlisted THEN layers = [r \in Columns(graph) |-> <<>>]
  ELSE AreListed(graph, layers) /\ positions = PositionsIn(graph, layers)

\* The best of the seed so far, and what it was taken from.
BestIsMeasured ==
  /\ stage \in Sweeps => IsMeasured(graph, best)
  /\ stage = "swept" => best.crossings <= CrossingCount(graph, layers)

AlternativeIsScored ==
  /\ alternative # None => IsScored(graph, alternative)
  /\ seed = "forward" /\ Alternative(graph) # "net representative" => alternative = None
  /\ Scored /\ stage # "start" => IsScored(graph, alternative)
  /\ Scored /\ stage = "swept" => alternative.crossings <= NetCrossingCount(graph, layers)

ResultsAreMeasured ==
  /\ DOMAIN results = Seeds
  /\ \A s \in Seeds : results[s] # None => IsMeasured(graph, results[s])
  /\ seed # "forward" => IsMeasured(graph, results["forward"])
  /\ seed \in {"median", "sifted"} => IsMeasured(graph, results["reverse"])
  /\ stage # "done" => results["sifted"] = None

\* What is still to be sifted are the items of the column.
SiftGoesOn ==
  stage = "sift" => column \in Columns(graph) /\ waiting \in Orders(ColumnItems(graph, column))

OrderInv == StagesFollow /\ ColumnsAreListed /\ SiftGoesOn

RecordInv == BestIsMeasured /\ AlternativeIsScored /\ ResultsAreMeasured

IInv == OrderInv /\ RecordInv /\ SiftedIsBetter

LEMMA ChosenIsMeasured ==
  ASSUME IInv, seed = "sifted"
  PROVE  /\ IsMeasured(graph, Chosen)
         /\ Chosen.crossings \in Nat
         /\ \A s \in {"forward", "reverse"} :
              results[s].crossings \in Nat /\ Chosen.crossings <= results[s].crossings
<1>1. IsMeasured(graph, results["forward"]) /\ IsMeasured(graph, results["reverse"])
  BY DEF IInv, RecordInv, ResultsAreMeasured
<1>2. results["forward"].crossings \in Nat /\ results["reverse"].crossings \in Nat
  BY <1>1, CrossingsAreCounted DEF IsMeasured, IInv, OrderInv, StagesFollow
<1> QED BY <1>1, <1>2 DEF Chosen

LEMMA InitHolds == Init => IInv
<1> SUFFICES ASSUME Init PROVE IInv
  OBVIOUS
<1> USE DEF Init
<1>1. OrderInv
  BY DEF OrderInv, StagesFollow, ColumnsAreListed, SiftGoesOn, Unlisted, Sifts, Sweeps
<1>2. RecordInv
  BY DEF RecordInv, BestIsMeasured, AlternativeIsScored, ResultsAreMeasured, Sweeps, Scored, Seeds
<1>3. SiftedIsBetter
  BY BoundsAssumption DEF SiftedIsBetter, Seeds
<1> QED BY <1>1, <1>2, <1>3 DEF IInv

LEMMA OrderKept ==
  ASSUME IInv, [Next]_vars
  PROVE  OrderInv'
<1> USE DEF IInv, OrderInv, StagesFollow, Sweeps, Sifts
<1>1. ASSUME UNCHANGED <<graph, stage, seed, index, column, layers, positions, waiting>>
      PROVE  OrderInv'
  BY <1>1 DEF ColumnsAreListed, SiftGoesOn, Unlisted
<1>2. CASE StartSeed
  <2>1. layers' = [r \in Columns(graph) |-> SeedOrder(ColumnItems(graph, r))]
    BY <1>2 DEF StartSeed
  <2>2. AreListed(graph, layers')
    BY <2>1, SeedIsOrder, ColumnsAreFinite, ItemsHaveKeys DEF AreListed
  <2> QED BY <1>2, <2>2 DEF StartSeed, ColumnsAreListed, SiftGoesOn, Unlisted
<1>3. CASE BeginSweep
  BY <1>3 DEF BeginSweep, ColumnsAreListed, SiftGoesOn, Unlisted
<1>4. CASE SortLayer
  <2>1. PICK order \in Orders(ColumnItems(graph, column)) :
          /\ layers' = [layers EXCEPT ![column] = order]
          /\ positions' = Refreshed(column, order)
    BY <1>4 DEF SortLayer
  <2>2. AreListed(graph, layers) /\ positions = PositionsIn(graph, layers) /\ column \in Columns(graph)
    BY <1>4 DEF SortLayer, ColumnsAreListed, Unlisted
  <2>3. AreListed(graph, layers') /\ positions' = PositionsIn(graph, layers')
    BY <2>1, <2>2, RefreshedColumn
  <2> QED BY <1>4, <2>3 DEF SortLayer, ColumnsAreListed, SiftGoesOn, Unlisted, sweeping
<1>5. CASE Transpose
  BY <1>5 DEF Transpose, BeginPass, ColumnsAreListed, SiftGoesOn, Unlisted, sweeping
<1>6. CASE TransposePair
  <2>1. AreListed(graph, layers) /\ positions = PositionsIn(graph, layers) /\ column \in Columns(graph)
    BY <1>6 DEF TransposePair, ColumnsAreListed, Unlisted
  <2>2. PICK left, right : left = layers[column][index] /\ right = layers[column][index + 1]
    OBVIOUS
  <2>3. AreListed(graph, layers') /\ positions' = PositionsIn(graph, layers')
    <3>1. CASE UNCHANGED <<layers, positions>>
      BY <2>1, <3>1
    <3>2. CASE /\ layers' = [layers EXCEPT ![column] = [@ EXCEPT ![index] = right, ![index + 1] = left]]
               /\ positions' = [positions EXCEPT ![left] = index + 1, ![right] = index]
      <4>1. PICK order : order = Swapped(layers[column], index)
        OBVIOUS
      <4>2. PICK at : at = SwappedPlaces(positions, layers[column], index)
        OBVIOUS
      <4>3. index \in Nat \ {0} /\ index < Len(layers[column])
        BY <1>6 DEF TransposePair
      <4>4. AreListed(graph, [layers EXCEPT ![column] = order])
            /\ at = PositionsIn(graph, [layers EXCEPT ![column] = order])
        BY <2>1, <4>1, <4>2, <4>3, SwappedColumn
      <4>5. layers' = [layers EXCEPT ![column] = order] /\ positions' = at
        BY <2>1, <2>2, <3>2, <4>1, <4>2 DEF AreListed, Swapped, SwappedPlaces
      <4> QED BY <4>4, <4>5
    <3> QED BY <1>6, <2>2, <3>1, <3>2 DEF TransposePair
  <2> QED BY <1>6, <2>3 DEF TransposePair, ColumnsAreListed, SiftGoesOn, Unlisted, sweeping
<1>7. CASE TransposeNext
  BY <1>7 DEF TransposeNext, ColumnsAreListed, SiftGoesOn, Unlisted, sweeping
<1>8. CASE TransposeAgain
  BY <1>8 DEF TransposeAgain, BeginPass, ColumnsAreListed, SiftGoesOn, Unlisted, sweeping
<1>9. CASE Retain
  BY <1>9 DEF Retain, ColumnsAreListed, SiftGoesOn, Unlisted
<1>10. CASE FinishSeed
  BY <1>10 DEF FinishSeed, NextSeed, ColumnsAreListed, SiftGoesOn, Unlisted
<1>11. CASE SkipSift
  BY <1>11 DEF SkipSift, ColumnsAreListed, SiftGoesOn, Unlisted, sweeping
<1>12. CASE BeginSift
  <2>1. AreListed(graph, layers')
    BY <1>12, ChosenIsMeasured DEF BeginSift, IsMeasured
  <2>2. 0 \in Columns(graph) /\ layers'[0] \in Orders(ColumnItems(graph, 0))
    BY <2>1, ColumnsAreRanks DEF AreListed
  <2> QED BY <1>12, <2>1, <2>2 DEF BeginSift, ColumnsAreListed, SiftGoesOn, Unlisted, sweeping
<1>13. CASE SiftItem
  <2>1. /\ AreListed(graph, layers) /\ positions = PositionsIn(graph, layers)
        /\ column \in Columns(graph) /\ waiting \in Orders(ColumnItems(graph, column))
    BY <1>13 DEF SiftItem, ColumnsAreListed, SiftGoesOn, Unlisted
  <2>2. PICK item : item = waiting[index] /\ item \in ColumnItems(graph, column)
    <3>1. index \in DOMAIN waiting
      BY <1>13 DEF SiftItem
    <3> QED BY <2>1, <3>1 DEF Orders
  <2>3. PICK k \in 1 .. Len(layers[column]) : layers[column][k] = item
    BY <2>1, <2>2, ListedColumn
  <2>4. positions[item] = k
    BY <2>1, <2>3, PositionIsPlace
  <2>5. PICK p \in DOMAIN layers[column] :
          layers' = [layers EXCEPT ![column] = InsertAt(RemoveAt(@, positions[item]), p, item)]
    BY <1>13, <2>2 DEF SiftItem
  <2>6. PICK order : order = InsertAt(RemoveAt(layers[column], k), p, layers[column][k])
    OBVIOUS
  <2>7. order \in Orders(ColumnItems(graph, column))
    <3>1. IsFiniteSet(ColumnItems(graph, column)) /\ layers[column] \in Orders(ColumnItems(graph, column))
      BY <2>1, ColumnsAreFinite DEF AreListed
    <3>2. p \in 1 .. Len(layers[column])
      BY <2>1, ListedColumn
    <3>3. order = MovedTo(layers[column], k, p)
      BY <2>6, <3>1, <3>2, MovedAlong
    <3> QED BY <3>1, <3>2, <3>3, MovedIsOrder
  <2>8. layers' = [layers EXCEPT ![column] = order] /\ layers'[column] = order
    BY <2>1, <2>3, <2>4, <2>5, <2>6 DEF AreListed
  <2>9. positions' = Refreshed(column, order)
    BY <1>13, <2>8 DEF SiftItem
  <2>10. AreListed(graph, layers') /\ positions' = PositionsIn(graph, layers')
    BY <2>1, <2>7, <2>8, <2>9, RefreshedColumn
  <2> QED BY <1>13, <2>1, <2>10 DEF SiftItem, ColumnsAreListed, SiftGoesOn, Unlisted, sweeping
<1>14. CASE ExhaustSift
  BY <1>14 DEF ExhaustSift, ColumnsAreListed, SiftGoesOn, Unlisted, sweeping
<1>15. CASE SiftNext
  <2>1. AreListed(graph, layers) /\ column \in Columns(graph) /\ column < LastColumn(graph)
    BY <1>15 DEF SiftNext, ColumnsAreListed, SiftGoesOn, Unlisted
  <2>2. column + 1 \in Columns(graph)
    BY <2>1, ColumnsAreRanks DEF Columns
  <2>3. layers[column + 1] \in Orders(ColumnItems(graph, column + 1))
    BY <2>1, <2>2 DEF AreListed
  <2> QED BY <1>15, <2>2, <2>3 DEF SiftNext, ColumnsAreListed, SiftGoesOn, Unlisted, sweeping
<1>16. CASE FinishSift
  BY <1>16 DEF FinishSift, ColumnsAreListed, SiftGoesOn, Unlisted, sweeping
<1>17. CASE UNCHANGED vars
  BY <1>1, <1>17 DEF vars
<1> QED BY <1>2, <1>3, <1>4, <1>5, <1>6, <1>7, <1>8, <1>9, <1>10, <1>11, <1>12, <1>13, <1>14,
           <1>15, <1>16, <1>17 DEF Next

LEMMA RecordKept ==
  ASSUME IInv, [Next]_vars, OrderInv'
  PROVE  RecordInv'
<1> USE DEF IInv, Sweeps, Sifts
<1>1. graph \in Graphs
  BY DEF OrderInv, StagesFollow
<1>2. stage \in Sifts <=> seed = "sifted"
  BY DEF OrderInv, StagesFollow
<1>3. BestIsMeasured /\ AlternativeIsScored /\ ResultsAreMeasured
  BY DEF RecordInv
<1>4. ASSUME UNCHANGED <<graph, seed, best, alternative, results>>,
             stage \in Sweeps, stage' \in {"sort", "transpose"}
      PROVE  RecordInv'
  BY <1>3, <1>4 DEF RecordInv, BestIsMeasured, AlternativeIsScored, ResultsAreMeasured, Scored
<1>5. ASSUME UNCHANGED <<graph, seed, best, alternative, results>>,
             stage \in {"choose", "sift"}, stage' \in Sifts
      PROVE  RecordInv'
  BY <1>2, <1>3, <1>5 DEF RecordInv, BestIsMeasured, AlternativeIsScored, ResultsAreMeasured, Scored
<1>6. \A ls : CrossingCount(graph, ls) \in Nat /\ NetCrossingCount(graph, ls) \in Nat
  BY <1>1, CrossingsAreCounted
<1>7. CASE StartSeed
  <2>1. AreListed(graph, layers')
    BY <1>7 DEF StartSeed, OrderInv, ColumnsAreListed, Unlisted
  <2>2. BestIsMeasured'
    <3>1. /\ best'.layers = layers' /\ best'.crossings = CrossingCount(graph, layers')
          /\ graph' = graph
      BY <1>7 DEF StartSeed
    <3> QED BY <1>6, <2>1, <3>1 DEF BestIsMeasured, IsMeasured
  <2>3. AlternativeIsScored'
    <3>1. CASE Scored
      <4>1. /\ alternative'.layers = layers'
            /\ alternative'.crossings = NetCrossingCount(graph, layers')
            /\ alternative'.edgeCrossings = CrossingCount(graph, layers')
            /\ graph' = graph /\ seed' = seed /\ Alternative(graph) = "net representative"
        BY <1>7, <3>1 DEF StartSeed, Scored
      <4>2. IsScored(graph', alternative')
        BY <4>1 DEF IsScored
      <4>3. PICK n : n = NetCrossingCount(graph, layers')
        OBVIOUS
      <4>4. n \in Nat /\ alternative'.crossings = n
        BY <1>6, <4>1, <4>3
      <4>5. (NetCrossingCount(graph, layers))' = n
        <5>1. graph' = graph
          BY <4>1
        <5> QED BY ONLY <4>3, <5>1
      <4>6. (alternative.crossings <= NetCrossingCount(graph, layers))'
        BY ONLY <4>4, <4>5
      <4> QED BY <4>1, <4>2, <4>6 DEF AlternativeIsScored
    <3>2. CASE ~ Scored
      BY <1>3, <1>7, <3>2 DEF StartSeed, AlternativeIsScored, Scored
    <3> QED BY <3>1, <3>2
  <2>4. ResultsAreMeasured'
    BY <1>3, <1>7 DEF StartSeed, ResultsAreMeasured
  <2> QED BY <2>2, <2>3, <2>4 DEF RecordInv
<1>8. CASE BeginSweep
  BY <1>4, <1>8 DEF BeginSweep
<1>9. CASE SortLayer
  BY <1>4, <1>9 DEF SortLayer, sweeping
<1>10. CASE Transpose
  BY <1>4, <1>10 DEF Transpose, BeginPass, sweeping
<1>11. CASE TransposePair
  BY <1>4, <1>11 DEF TransposePair, sweeping
<1>12. CASE TransposeNext
  BY <1>4, <1>12 DEF TransposeNext, sweeping
<1>13. CASE TransposeAgain
  BY <1>4, <1>13 DEF TransposeAgain, BeginPass, sweeping
<1>14. CASE Retain
  <2>1. AreListed(graph, layers) /\ stage = "transpose"
    BY <1>14 DEF Retain, OrderInv, ColumnsAreListed, Unlisted
  <2>2. UNCHANGED <<graph, seed, layers, results>> /\ stage' \in {"sort", "swept"}
    BY <1>14 DEF Retain
  <2>3. PICK crossings, netCrossings :
          /\ crossings = CrossingCount(graph, layers)
          /\ netCrossings = NetCrossingCount(graph, layers)
    OBVIOUS
  <2>4. crossings \in Nat /\ netCrossings \in Nat
    BY <1>6, <2>3
  <2>5. BestIsMeasured'
    <3>1. IsMeasured(graph, best) /\ best.crossings \in Nat
      BY <1>3, <1>6, <2>1 DEF BestIsMeasured, IsMeasured
    <3>2. best' = IF crossings < best.crossings
                  THEN [layers |-> layers, crossings |-> crossings] ELSE best
      BY <1>14, <2>3 DEF Retain, ImprovesEdge
    <3> QED BY <2>1, <2>2, <2>3, <2>4, <3>1, <3>2 DEF BestIsMeasured, IsMeasured
  <2>6. AlternativeIsScored'
    <3>1. CASE Scored
      <4>1. /\ IsScored(graph, alternative)
            /\ alternative.crossings \in Nat /\ alternative.edgeCrossings \in Nat
        BY <1>3, <1>6, <2>1, <3>1 DEF AlternativeIsScored, IsScored
      <4>2. alternative' = IF \/ netCrossings < alternative.crossings
                              \/ netCrossings = alternative.crossings /\ crossings < alternative.edgeCrossings
                           THEN [layers |-> layers, crossings |-> netCrossings, edgeCrossings |-> crossings]
                           ELSE alternative
        BY <1>14, <2>3, <3>1 DEF Retain, ImprovesAlternative
      <4>3. IsScored(graph, alternative') /\ alternative'.crossings <= netCrossings
        BY <2>3, <2>4, <4>1, <4>2 DEF IsScored
      <4> QED BY <2>2, <2>3, <3>1, <4>3 DEF AlternativeIsScored, Scored
    <3>2. CASE ~ Scored
      <4>1. alternative' = alternative
        BY <1>14, <3>2 DEF Retain
      <4> QED BY <1>3, <2>2, <3>2, <4>1 DEF AlternativeIsScored, Scored
    <3> QED BY <3>1, <3>2
  <2>7. ResultsAreMeasured'
    BY <1>3, <2>1, <2>2 DEF ResultsAreMeasured
  <2> QED BY <2>5, <2>6, <2>7 DEF RecordInv
<1>15. CASE FinishSeed
  <2>1. /\ UNCHANGED <<graph, best, alternative>> /\ stage = "swept"
        /\ results' = [results EXCEPT ![seed] = best]
        /\ stage' \in {"choose", "start"} /\ seed' = NextSeed
    BY <1>15 DEF FinishSeed
  <2>2. seed \in {"forward", "reverse", "median"}
    BY <1>2, <2>1 DEF OrderInv, StagesFollow
  <2>3. /\ seed' \in {"reverse", "median", "sifted"}
        /\ seed = "forward" => seed' = "reverse"
    BY <2>1, <2>2 DEF NextSeed
  <2>4. BestIsMeasured'
    BY <2>1 DEF BestIsMeasured
  <2>5. AlternativeIsScored'
    BY <1>3, <2>1, <2>3 DEF AlternativeIsScored, Scored
  <2>6. ResultsAreMeasured'
    <3>1. IsMeasured(graph, best)
      BY <1>3, <2>1 DEF BestIsMeasured
    <3>2. DOMAIN results' = Seeds /\ \A s \in Seeds : results'[s] = IF s = seed THEN best ELSE results[s]
      BY <1>3, <2>1 DEF ResultsAreMeasured
    <3>3. {"forward", "reverse", "sifted"} \subseteq Seeds
      BY DEF Seeds
    <3>4. ASSUME NEW s \in Seeds, results'[s] # None PROVE IsMeasured(graph', results'[s])
      BY <1>3, <2>1, <3>1, <3>2, <3>4 DEF ResultsAreMeasured
    <3>5. IsMeasured(graph', results'["forward"])
      BY <1>3, <2>1, <3>1, <3>2, <3>3 DEF ResultsAreMeasured
    <3>6. seed' \in {"median", "sifted"} => IsMeasured(graph', results'["reverse"])
      BY <1>3, <2>1, <2>2, <2>3, <3>1, <3>2, <3>3 DEF ResultsAreMeasured
    <3>7. results'["sifted"] = None
      BY <1>3, <2>1, <2>2, <3>2, <3>3 DEF ResultsAreMeasured
    <3> QED BY <3>2, <3>4, <3>5, <3>6, <3>7 DEF ResultsAreMeasured
  <2> QED BY <2>4, <2>5, <2>6 DEF RecordInv
<1>16. CASE SkipSift
  BY <1>5, <1>16 DEF SkipSift, sweeping
<1>17. CASE BeginSift
  BY <1>5, <1>17 DEF BeginSift, sweeping
<1>18. CASE SiftItem
  BY <1>5, <1>18 DEF SiftItem, sweeping
<1>19. CASE ExhaustSift
  BY <1>5, <1>19 DEF ExhaustSift, sweeping
<1>20. CASE SiftNext
  BY <1>5, <1>20 DEF SiftNext, sweeping
<1>21. CASE FinishSift
  <2>1. /\ UNCHANGED <<graph, seed, best, alternative>> /\ stage = "sift" /\ stage' = "done"
        /\ \/ results' = results
           \/ results' = [results EXCEPT !["sifted"] =
                            [layers |-> layers, crossings |-> CrossingCount(graph, layers)]]
    BY <1>21 DEF FinishSift, sweeping
  <2>2. AreListed(graph, layers)
    BY <2>1 DEF OrderInv, ColumnsAreListed, Unlisted
  <2>3. BestIsMeasured' /\ AlternativeIsScored'
    BY <1>2, <1>3, <2>1 DEF BestIsMeasured, AlternativeIsScored, Scored
  <2>4. ResultsAreMeasured'
    <3>1. CASE results' = results
      BY <1>3, <2>1, <3>1 DEF ResultsAreMeasured
    <3>2. CASE results' = [results EXCEPT !["sifted"] =
                             [layers |-> layers, crossings |-> CrossingCount(graph, layers)]]
      <4>1. IsMeasured(graph, results'["sifted"])
        BY <1>3, <2>2, <3>2 DEF ResultsAreMeasured, IsMeasured, Seeds
      <4>2. DOMAIN results' = Seeds /\ \A s \in Seeds : s # "sifted" => results'[s] = results[s]
        BY <1>3, <3>2 DEF ResultsAreMeasured
      <4> QED BY <1>3, <2>1, <4>1, <4>2 DEF ResultsAreMeasured, Seeds
    <3> QED BY <2>1, <3>1, <3>2
  <2> QED BY <2>3, <2>4 DEF RecordInv
<1>22. CASE UNCHANGED vars
  BY <1>3, <1>22 DEF vars, RecordInv, BestIsMeasured, AlternativeIsScored, ResultsAreMeasured, Scored
<1> QED BY <1>7, <1>8, <1>9, <1>10, <1>11, <1>12, <1>13, <1>14, <1>15, <1>16, <1>17, <1>18, <1>19,
           <1>20, <1>21, <1>22 DEF Next

LEMMA SiftedKept ==
  ASSUME IInv, [Next]_vars
  PROVE  SiftedIsBetter'
<1> USE DEF IInv
<1>1. graph \in Graphs /\ SiftWorkLimit \in Nat
  BY BoundsAssumption DEF OrderInv, StagesFollow
<1>2. ASSUME UNCHANGED <<graph, results>>, work' <= SiftWorkLimit
      PROVE  SiftedIsBetter'
  <2>1. Chosen' = Chosen
    BY <1>2 DEF Chosen
  <2>2. \A ls : RealOrder(graph', ls) = RealOrder(graph, ls)
    BY <1>2
  <2>3. results' = results
    BY <1>2
  <2> QED BY <1>2, <2>1, <2>2, <2>3 DEF SiftedIsBetter
<1>3. work <= SiftWorkLimit
  BY DEF SiftedIsBetter
<1>4. CASE StartSeed \/ BeginSweep \/ SortLayer \/ Transpose \/ TransposePair \/ TransposeNext
           \/ TransposeAgain \/ Retain
  BY <1>2, <1>3, <1>4 DEF StartSeed, BeginSweep, SortLayer, Transpose, TransposePair, TransposeNext,
     TransposeAgain, Retain, sifting, sweeping
<1>5. CASE FinishSeed
  <2>1. /\ UNCHANGED <<graph, work>> /\ stage = "swept"
        /\ results' = [results EXCEPT ![seed] = best]
    BY <1>5 DEF FinishSeed, sifting
  <2>2. results["sifted"] = None /\ DOMAIN results = Seeds
    BY <2>1 DEF RecordInv, ResultsAreMeasured
  <2>3. seed # "sifted"
    BY <2>1 DEF OrderInv, StagesFollow, Sifts
  <2>4. results'["sifted"] = None
    BY <2>1, <2>2, <2>3 DEF Seeds
  <2> QED BY <1>3, <2>1, <2>4 DEF SiftedIsBetter
<1>6. CASE SkipSift \/ ExhaustSift \/ SiftNext
  BY <1>2, <1>3, <1>6 DEF SkipSift, ExhaustSift, SiftNext, sifting, sweeping
<1>7. CASE BeginSift
  BY <1>1, <1>2, <1>7 DEF BeginSift, sweeping
<1>8. CASE SiftItem
  BY <1>2, <1>8 DEF SiftItem, sweeping
<1>9. CASE FinishSift
  <2>1. PICK crossings : crossings = CrossingCount(graph, layers)
    OBVIOUS
  <2>2. /\ UNCHANGED <<graph, layers, work>> /\ stage = "sift"
        /\ results' = IF SiftHelps(crossings)
                      THEN [results EXCEPT !["sifted"] = [layers |-> layers, crossings |-> crossings]]
                      ELSE results
    BY <1>9, <2>1 DEF FinishSift, sifting
  <2>3. CASE ~ SiftHelps(crossings)
    BY <1>2, <1>3, <2>2, <2>3
  <2>4. CASE SiftHelps(crossings)
    <3>1. DOMAIN results = Seeds
      BY DEF RecordInv, ResultsAreMeasured
    <3>2. /\ results'["sifted"] = [layers |-> layers, crossings |-> crossings]
          /\ results'["forward"] = results["forward"] /\ results'["reverse"] = results["reverse"]
      BY <2>2, <2>4, <3>1 DEF Seeds
    <3>3. Chosen' = Chosen
      BY <3>2 DEF Chosen
    <3>4. PICK c : c = Chosen.crossings
      OBVIOUS
    <3>5. seed = "sifted"
      BY <2>2 DEF OrderInv, StagesFollow, Sifts
    <3>6. /\ c \in Nat /\ crossings \in Nat
          /\ \A s \in {"forward", "reverse"} : results[s].crossings \in Nat /\ c <= results[s].crossings
      BY <1>1, <2>1, <3>4, <3>5, ChosenIsMeasured, CrossingsAreCounted
    <3>7. c - crossings >= (c + 99) \div 100
      BY <2>4, <3>4 DEF SiftHelps, MinimumGain
    <3>8. 100 * crossings <= 99 * c
      BY <3>6, <3>7
    <3>9. RealOrder(graph, layers) # RealOrder(graph, Chosen.layers)
      BY <2>4 DEF SiftHelps
    <3>10. \A s \in {"forward", "reverse"} : 100 * crossings <= 99 * results'[s].crossings
      BY <3>2, <3>6, <3>8
    <3>11. RealOrder(graph', results'["sifted"].layers) # RealOrder(graph', Chosen'.layers)
      BY <2>2, <3>2, <3>3, <3>9
    <3> QED BY <1>3, <2>2, <3>2, <3>10, <3>11 DEF SiftedIsBetter
  <2> QED BY <2>3, <2>4
<1>10. CASE UNCHANGED vars
  BY <1>2, <1>3, <1>10 DEF vars
<1> QED BY <1>4, <1>5, <1>6, <1>7, <1>8, <1>9, <1>10 DEF Next

LEMMA Kept == Spec => []IInv
<1>1. IInv /\ [Next]_vars => IInv'
  BY OrderKept, RecordKept, SiftedKept DEF IInv
<1> QED BY <1>1, InitHolds, PTL DEF Spec

\* Whatever was sorted, swapped or moved, the columns hold their own items each
\* once, at the positions the next comparison reads, and every order that is
\* handed out is one of all the items with its own crossings, no more of them
\* than the sweeps ended with (refresh_layer, transpose_layers,
\* retain_best_edge, retain_best_alternative).
THEOREM OrdersAreRecorded == Spec => []RecordsMatchLayers
<1>1. IInv => RecordsMatchLayers
  <2> SUFFICES ASSUME IInv PROVE RecordsMatchLayers
    OBVIOUS
  <2> USE DEF IInv
  <2>1. PositionsDescribeLayers
    <3>1. ASSUME Unlisted PROVE layers[0] = <<>>
      BY <3>1, ColumnsAreRanks DEF OrderInv, StagesFollow, ColumnsAreListed
    <3> QED BY <3>1 DEF PositionsDescribeLayers, OrderInv, ColumnsAreListed, AreListed
  <2>2. OrdersAreMeasured
    <3>1. \A s \in Seeds : results[s] # None =>
            /\ \A r \in Columns(graph) : results[s].layers[r] \in Orders(ColumnItems(graph, r))
            /\ results[s].crossings = CrossingCount(graph, results[s].layers)
      BY DEF RecordInv, ResultsAreMeasured, IsMeasured, AreListed
    <3>2. stage = "swept" => best.crossings <= CrossingCount(graph, layers)
      BY DEF RecordInv, BestIsMeasured
    <3>3. alternative # None /\ seed = "forward" => Scored
      BY DEF RecordInv, AlternativeIsScored, Scored
    <3> QED BY <3>1, <3>2, <3>3 DEF OrdersAreMeasured, RecordInv, AlternativeIsScored, IsScored
  <2> QED BY <2>1, <2>2 DEF RecordsMatchLayers
<1> QED BY <1>1, Kept, PTL

\* A sift is a candidate only if it stayed within its work, draws the nodes in
\* another order and saves a hundredth of the crossings of both seeds, however
\* the crossings and the limits are (max_sift_ordering_candidate).
THEOREM SiftsImprove == Spec => []SiftedIsBetter
<1>1. IInv => SiftedIsBetter
  BY DEF IInv
<1> QED BY <1>1, Kept, PTL

\* Swaps and moves are done for a gain only, and what is compared for it, edges of the items
\* that change places, tells what becomes of all the crossings: none of them adds one
\* (transpose_layers, pair_crossing_gain, max_sift_ordering_candidate).
THEOREM MovesLowerCrossings == Spec => MovesReduceCrossings
<1>1. IInv /\ [Next]_vars =>
        [layers' # layers /\ stage \in {"transpose", "sift"} =>
           CrossingCount(graph, layers') < CrossingCount(graph, layers)]_vars
  <2> SUFFICES ASSUME IInv, Next, layers' # layers, stage \in {"transpose", "sift"}
               PROVE  CrossingCount(graph, layers') < CrossingCount(graph, layers)
    OBVIOUS
  <2>1. /\ graph \in Graphs /\ AreListed(graph, layers) /\ positions = PositionsIn(graph, layers)
        /\ index \in Nat \ {0}
    BY DEF IInv, OrderInv, StagesFollow, ColumnsAreListed, Unlisted
  <2>2. CASE TransposePair
    BY <2>1, <2>2, SwapLowers
  <2>3. CASE SiftItem
    <3>1. column \in Columns(graph) /\ waiting \in Orders(ColumnItems(graph, column))
      BY <2>3 DEF SiftItem, IInv, OrderInv, SiftGoesOn
    <3> QED BY <2>1, <2>3, <3>1, MoveLowers
  <2>4. CASE ~ TransposePair /\ ~ SiftItem
    <3>1. layers' = layers \/ stage \notin {"transpose", "sift"}
      BY <2>4 DEF Next, StartSeed, BeginSweep, SortLayer, Transpose, TransposeNext, TransposeAgain,
                  Retain, FinishSeed, SkipSift, BeginSift, ExhaustSift, SiftNext, FinishSift
    <3> QED BY <3>1
  <2> QED BY <2>2, <2>3, <2>4
<1> QED BY <1>1, Kept, PTL DEF Spec, MovesReduceCrossings

=============================================================================
