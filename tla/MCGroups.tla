------------------------------ MODULE MCGroups ------------------------------
(* What the engine does with what belongs together: a group is opened in    *)
(* place, and boundary bundles are drawn over finished routes. They share   *)
(* no state: a behaviour is a call of one, while the other rests.           *)
EXTENDS MCGroupExpansion, BundleApplication

-----------------------------------------------------------------------------
(* Bundles.                                                                 *)
(***************************************************************************)
(* Small graphs between ports at the left (x = 0) and at the right         *)
(* (x = 40): one bundle, a bundle at each end of the same edges, bundles   *)
(* that share some edges only, and two bundles that want the same lane.    *)
(***************************************************************************)

MCPitch == 2
MCRailDepth == 4
MCReserve == 2

Input(id, port, members) ==
  [id |-> id, role |-> "input", port |-> port, nodeWidth |-> 4,
   width |-> Cardinality(UNION {m.slots : m \in ToSet(members)}), members |-> members]
Output(id, port, members) == [Input(id, port, members) EXCEPT !.role = "output"]

Member(edge, slot) == [edge |-> edge, slots |-> {slot}]
Edge(source, target, net) == [source |-> source, target |-> target, net |-> net]

Ports == [p \in 1..6 |-> <<IF p <= 2 THEN 0 ELSE 40, <<10, 22, 6, 14, 20, 26>>[p]>>]

OneBundle ==
  [bundles |-> <<Input(1, 1, <<Member(1, 0), Member(2, 1)>>)>>,
   edges |-> <<Edge(1, 3, 1), Edge(1, 4, 2)>>, ports |-> Ports]

\* Two edges with the same ports, of two nets or of one.
Parallel(nets) ==
  [bundles |-> <<Input(1, 1, <<Member(1, 0), Member(2, 1)>>)>>,
   edges |-> <<Edge(1, 4, 1), Edge(1, 4, nets), Edge(2, 5, 3)>>, ports |-> Ports]

BothEnds ==
  [bundles |-> <<Input(1, 1, <<Member(1, 0), Member(2, 1)>>),
                 Output(2, 4, <<Member(1, 0), Member(2, 1)>>)>>,
   edges |-> <<Edge(1, 4, 1), Edge(1, 4, 2)>>, ports |-> Ports]

\* The output has two of the three edges of the input.
Fork ==
  [bundles |-> <<Input(1, 1, <<Member(1, 0), Member(2, 1), Member(3, 2)>>),
                 Output(2, 4, <<Member(1, 0), Member(2, 1)>>)>>,
   edges |-> <<Edge(1, 4, 1), Edge(1, 4, 2), Edge(1, 5, 3)>>, ports |-> Ports]

TwoInputs ==
  [bundles |-> <<Input(1, 1, <<Member(1, 0), Member(2, 1)>>),
                 Input(2, 2, <<Member(3, 0), Member(4, 1)>>)>>,
   edges |-> <<Edge(1, 3, 1), Edge(1, 4, 2), Edge(2, 5, 3), Edge(2, 6, 4)>>, ports |-> Ports]

-----------------------------------------------------------------------------
(* Routes of an edge: with one upright stretch, or with two.               *)

Turn(g, e, x) ==
  LET a == g.ports[g.edges[e].source]
      b == g.ports[g.edges[e].target]
  IN  Joined(<<a, <<x, a[2]>>, <<x, b[2]>>, b>>)

Detour(g, e, x, y, z) ==
  LET a == g.ports[g.edges[e].source]
      b == g.ports[g.edges[e].target]
  IN  Joined(<<a, <<x, a[2]>>, <<x, y>>, <<z, y>>, <<z, b[2]>>, b>>)

RoutesOf(g, e) ==
  {Turn(g, e, x) : x \in {8, 20, 32}} \cup {Detour(g, e, 12, 18, 30)}

\* Of the graphs with more edges, the later ones run one way only.
Drawings(g) ==
  IF Len(g.edges) = 2 THEN {<<r, s>> : r \in RoutesOf(g, 1), s \in RoutesOf(g, 2)}
  ELSE {<<r, s>> \o [k \in 1 .. Len(g.edges) - 2 |-> Turn(g, k + 2, x)] :
          r \in RoutesOf(g, 1), s \in RoutesOf(g, 2), x \in {16, 30}}

Call(g, lines, entry, spacing, given) ==
  [graph |-> g, routes |-> lines, entry |-> entry, spacing |-> spacing,
   preserved |-> DOMAIN given, given |-> given]

First(g) == {Call(g, r, "apply", s, <<>>) : r \in Drawings(g), s \in {0, 2}}

Again(g) == {Call(g, r, "refine", 0, <<>>) : r \in Drawings(g)}

\* One bundle was drawn before, at x, and is kept.
Kept(g, i, x) ==
  {Call(g, RewriteMemberRoutes(g, i, BuildGeometry(g, g.bundles[i], r, x), r), "apply", 0,
        i :> BuildGeometry(g, g.bundles[i], r, x)) :
     r \in {d \in Drawings(g) : Unled(g, i, BuildGeometry(g, g.bundles[i], d, x), d) = {}}}

\* A bundle that is to be kept was not drawn.
NotDrawn(g) == {[Call(g, r, "apply", 0, <<>>) EXCEPT !.preserved = {1}] : r \in Drawings(g)}

MCJobs ==
  UNION {First(g) \cup Again(g) : g \in {OneBundle, Parallel(2), Parallel(1), BothEnds, Fork, TwoInputs}}
  \cup UNION {Kept(TwoInputs, 2, x) : x \in {34, 36, 38}}
  \cup Kept(TwoInputs, 1, 38) \cup Kept(BothEnds, 2, 30)
  \cup NotDrawn(OneBundle)

-----------------------------------------------------------------------------
(* One call at a time.                                                      *)

AnyCall == CHOOSE c \in (CHOOSE calls \in MCCalls : TRUE) : TRUE

ExpansionRests ==
  /\ call = AnyCall /\ stage = "rest" /\ widened = None /\ reflow = None
  /\ work = 0 /\ positions = <<>> /\ direct = TRUE /\ attempts = 0 /\ used = 0
  /\ best = 0 /\ error = None /\ tried = <<>>

BundlesRest ==
  /\ job = Nothing /\ step = "rest" /\ plan = <<>> /\ order = <<>> /\ routes = <<>> /\ drawn = <<>>
  /\ prior = <<>> /\ taken = {} /\ count = 0 /\ before = 0 /\ saved = <<>> /\ promotions = {}

MCInit == (BundlesInit /\ ExpansionRests) \/ (Init /\ BundlesRest)

MCNext == (BundlesNext /\ UNCHANGED vars) \/ (Next /\ UNCHANGED bundleVars)

MCSpec == MCInit /\ [][MCNext]_<<vars, bundleVars>>
=============================================================================
