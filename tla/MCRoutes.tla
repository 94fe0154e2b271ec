------------------------------ MODULE MCRoutes ------------------------------
(* The router's choice among its drawings, and the inspections a drawing    *)
(* has to pass. They share no state: a behaviour is a call of one of them,  *)
(* while the other rests.                                                   *)
EXTENDS RouteFamilies, RouteInspection

-----------------------------------------------------------------------------
(* The calls of the router.                                                 *)
(* Calls of every kind the engine makes, on placements in which up to two   *)
(* features of a drawing change its quality.                                *)

Features_ == {"compact", "adaptive", "expanded", "initial", "found", "global", "preserved",
              "refined", "moved", "deep", "aligned", "negotiated", "straight", "coherent",
              "resided", "fanned"}

\* One feature of F with an effect, and one that makes the drawing longer.
EffectsOn(F) ==
    LET plain == [f \in Features_ |-> "none"]
    IN  {[plain EXCEPT ![f] = a] : f \in F, a \in {"none", "inert", "fewer", "more", "bent"}}
        \cup {[plain EXCEPT ![f] = "longer", ![g] = b] :
                 f \in F, g \in F, b \in {"longer", "shorter", "fewer"}}

Plainest ==
    [outer |-> "none", wide |-> TRUE, huge |-> FALSE, reordered |-> FALSE, orders |-> {},
     hot |-> 0, resides |-> FALSE, movable |-> TRUE, aligned |-> FALSE, fan |-> "none",
     negotiable |-> FALSE, many |-> FALSE, shape |-> TRUE, over |-> FALSE,
     repairable |-> TRUE, sensitive |-> {}, sameBends |-> FALSE, looser |-> FALSE]

With(world_, effects) == {world_ @@ [effect |-> e] : e \in effects}

\* Spacings against each other, the crossings taken over or measured.
SpacingWorlds ==
    UNION {With([Plainest EXCEPT !.outer = o, !.many = m, !.sameBends = b, !.looser = ~m,
                                 !.orders = c, !.huge = m, !.hot = 2],
                EffectsOn({"adaptive", "expanded", "global"})) :
              o \in {"none", "plain"}, m \in BOOLEAN, b \in BOOLEAN, c \in {{}, {"global"}}}

\* Repairs and negotiated corridors, with tracks that depend on more or less.
RepairWorlds ==
    UNION {With([Plainest EXCEPT !.outer = o, !.reordered = r, !.hot = h, !.sensitive = s,
                                 !.resides = (o # "none" /\ h # 4), !.negotiable = (h # 2),
                                 !.movable = (h # 1), !.many = TRUE, !.aligned = r],
                EffectsOn({"coherent", "negotiated", "aligned"})) :
              o \in {"none", "split"}, r \in BOOLEAN, h \in {1, 2, 4},
              s \in {{"lanes"}, {"spacing"}}}

\* Fanouts, and families within large gaps.
FanoutWorlds ==
    UNION {With([Plainest EXCEPT !.outer = o, !.fan = f, !.huge = TRUE, !.hot = 4, !.many = TRUE,
                                 !.orders = {"global", "preserved", "refined"},
                                 !.sensitive = {"channels"}],
                EffectsOn({"fanned", "coherent"})) :
              o \in {"plain", "split"}, f \in {"none", "same", "other"}}

\* Inputs beyond a limit.
LimitWorlds ==
    UNION {With([Plainest EXCEPT !.outer = "split", !.hot = 4, !.shape = s, !.negotiable = TRUE,
                                 !.over = o, !.repairable = r, !.wide = s,
                                 !.orders = {"global"}],
                EffectsOn({"moved"})) : s \in BOOLEAN, r \in BOOLEAN, o \in BOOLEAN}

MCWorlds == {w \in SpacingWorlds \cup RepairWorlds \cup FanoutWorlds \cup LimitWorlds :
                SpacingKeepsCrossings(w)}

Call(nodes, exact, flags) ==
    [nodes |-> nodes, exact |-> exact] @@
    [f \in {"supplemental", "global", "large", "refined", "adaptive", "deeper"} |-> f \in flags]

(* The calls of the engine: its quality call, its supplemental candidates,  *)
(* and the plain ones.                                                      *)
MCRoutings ==
    {Call(n, e, {"global", "large", "refined", "adaptive", "deeper"}) : n \in {1, 4}, e \in BOOLEAN}
    \cup {Call(n, e, {"supplemental", "global", "adaptive", "deeper"}) : n \in {1, 3, 5}, e \in BOOLEAN}
    \cup {Call(6, TRUE, {"supplemental", "global", "large", "adaptive"}), Call(2, FALSE, {"adaptive"})}

-----------------------------------------------------------------------------
(* The inspections.                                                         *)
(* Inspections of drawings of three wires on a small grid. The drawings     *)
(* have wires that lie on one line, end on each other, cross, bend into and *)
(* out of a common line, double back and have legs of no length; the wires  *)
(* are of three nets, of two, or meet at a port that two nets share.        *)

Edge(id, net, source, target) == [id |-> id, net |-> net, source |-> source, target |-> target]

Wirings ==
    {<<Edge(1, 1, "a", "b"), Edge(2, 2, "c", "d"), Edge(3, 3, "e", "f")>>,
     <<Edge(1, 1, "a", "b"), Edge(2, 1, "a", "d"), Edge(3, 3, "e", "f")>>,
     <<Edge(1, 1, "a", "b"), Edge(2, 2, "a", "d"), Edge(3, 3, "b", "c")>>}

First ==
    {<<<<0, 1>>, <<4, 1>>>>,
     <<<<0, 1>>, <<2, 1>>, <<2, 3>>, <<4, 3>>>>,
     <<<<1, 0>>, <<1, 3>>>>,
     <<<<0, 1>>, <<0, 1>>, <<3, 1>>, <<1, 1>>>>}
Second ==
    {<<<<0, 1>>, <<1, 1>>, <<1, 3>>, <<4, 3>>>>,
     <<<<0, 3>>, <<3, 3>>, <<3, 1>>>>,
     <<<<2, 0>>, <<2, 4>>>>,
     <<<<0, 2>>, <<4, 2>>>>}
Third ==
    {<<<<1, 2>>, <<3, 2>>>>,
     <<<<3, 0>>, <<3, 1>>, <<0, 1>>>>,
     <<<<1, 4>>, <<1, 1>>, <<2, 1>>, <<2, 2>>>>}

Drawings == {<<[id |-> 1, points |-> p], [id |-> 2, points |-> q], [id |-> 3, points |-> r]>> :
               p \in First, q \in Second, r \in Third}

Node(id, x, y, width, height) == [id |-> id, x |-> x, y |-> y, width |-> width, height |-> height]
Rows == {Node(1, 5, 0, 1, 1), Node(2, 5, 2, 1, 2), Node(3, 7, 1, 2, 1), Node(4, 0, 5, 2, 1)}

Inspection(check, edges, routes, limit, budget) ==
    [check |-> check, edges |-> edges, routes |-> routes, limit |-> limit, budget |-> budget,
     escape |-> 0, spacing |-> 2, cutoff |-> 2, threshold |-> 2, density |-> TRUE,
     transpose |-> FALSE, selected |-> {1, 2, 3}, nodes |-> Rows, relations |-> {}]

Generous == 200

Sound ==
    UNION {UNION {
        {[Inspection("contact", w, d, 20, b) EXCEPT !.selected = s] :
            b \in {0, 2, Generous}, s \in {{1, 2, 3}, {2}}}
        \cup {[Inspection("spacing", w, d, 20, b) EXCEPT !.escape = e] :
            b \in {24, Generous}, e \in {0, 1, 2}}
        \cup {[Inspection("congestion", w, d, 20, b) EXCEPT !.cutoff = c, !.density = c = 2] :
            b \in {6, Generous}, c \in {2, 3}}
        \cup {[Inspection("crossings", w, d, 20, 0) EXCEPT !.transpose = t] : t \in BOOLEAN}
        \cup {Inspection("busiest", w, d, 20, 0)} : d \in Drawings} : w \in Wirings}

(* The clearance is measured for wires and nodes without regard to wiring.  *)
Cleared ==
    {[Inspection("clearance", w, d, 20, b) EXCEPT !.threshold = t, !.relations = r, !.nodes = n] :
        w \in {CHOOSE w \in Wirings : \A e, f \in Range(w) : e # f => e.net # f.net},
        d \in Drawings, b \in {3, Generous}, t \in {0, 2}, r \in {{}, {<<1, 2>>, <<2, 1>>}},
        n \in {Rows, {}}}

(* Drawings that are refused: a leg is diagonal, a route is of another edge *)
(* or a mere point, there are too many segments, or an argument is absurd.  *)
Wiring == CHOOSE w \in Wirings : TRUE
Refused ==
    UNION {{
        Inspection(check, Wiring, <<[id |-> 1, points |-> <<<<0, 0>>, <<1, 1>>>>],
                              [id |-> 2, points |-> <<<<0, 1>>, <<2, 1>>>>],
                              [id |-> 3, points |-> <<<<0, 2>>, <<2, 2>>>>]>>, 20, 9),
        Inspection(check, Wiring, <<[id |-> 1, points |-> <<<<0, 0>>, <<1, 0>>, <<2, 1>>>>],
                              [id |-> 2, points |-> <<<<0, 1>>, <<2, 1>>>>],
                              [id |-> 3, points |-> <<<<0, 2>>, <<2, 2>>>>]>>, 0, 9),
        Inspection(check, Wiring, <<[id |-> 2, points |-> <<<<0, 0>>, <<1, 0>>>>],
                              [id |-> 1, points |-> <<<<0, 1>>, <<2, 1>>>>],
                              [id |-> 3, points |-> <<<<0, 2>>, <<2, 2>>>>]>>, 20, 9),
        Inspection(check, Wiring, <<[id |-> 1, points |-> <<<<0, 0>>>>]>>, 20, 9)}
      : check \in {"contact", "spacing"}}
    \cup UNION {{[Inspection("spacing", w, d, 20, 9) EXCEPT !.spacing = 0],
                 [Inspection("congestion", w, d, 20, 9) EXCEPT !.cutoff = 0],
                 [Inspection("clearance", w, d, 20, 9) EXCEPT !.threshold = 0 - 1],
                 Inspection("spacing", w, d, 20, 3)} :
                w \in {Wiring}, d \in {d \in Drawings : Len(d[1].points) = 2}}

(* Twelve wires of as many nets leave one port on the same line: looking    *)
(* for what they share costs more than finding that they touch.             *)
Ports == <<"b", "c", "d", "e", "f", "g", "h", "i", "j", "k", "l", "m">>
Fan == {[Inspection("spacing", [i \in 1..12 |-> Edge(i, i, "a", Ports[i])],
              [i \in 1..12 |-> [id |-> i, points |-> <<<<0, 0>>, <<3, 0>>>>]], 20, b)
           EXCEPT !.escape = e] : b \in {62, Generous}, e \in {2, 3}}

(* Three level wires one above the other, of two or three nets, which the   *)
(* sweep meets in every order: the nearest wire of another net may lie      *)
(* behind one of the same net.                                              *)
Orders == {<<1, 2, 3>>, <<1, 3, 2>>, <<2, 1, 3>>, <<2, 3, 1>>, <<3, 1, 2>>, <<3, 2, 1>>}
Heights == <<0, 3, 4>>
Tiered ==
    {Inspection(check, w, [i \in 1..3 |-> [id |-> i, points |-> <<<<o[i], Heights[h[i]]>>, <<4 + o[i], Heights[h[i]]>>>>]], 20, Generous) :
        check \in {"spacing", "congestion"}, w \in Wirings, o \in Orders, h \in Orders}

MCCalls == Sound \cup Cleared \cup Refused \cup Fan \cup Tiered

-----------------------------------------------------------------------------
(* One call at a time.                                                      *)

FamiliesRest ==
    /\ pc = None /\ routing = None /\ world = None /\ pass = None /\ drawing = None
    /\ caller = None /\ lane = None /\ todo = None /\ offers = None /\ stable = None
    /\ result = None /\ legacy = None /\ drawn = None

InspectionRests ==
    /\ call = None /\ phase = None /\ agenda = None /\ sweep = None /\ events = None
    /\ active = None /\ tree = None /\ left = None /\ tally = None /\ outcome = None

Init ==
    \/ FamiliesInit /\ InspectionRests
    \/ InspectionInit /\ FamiliesRest

Next ==
    \/ FamiliesNext /\ UNCHANGED inspectionVars
    \/ InspectionNext /\ UNCHANGED familiesVars

Spec == Init /\ [][Next]_<<familiesVars, inspectionVars>>
=============================================================================
