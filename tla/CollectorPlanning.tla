------------------------- MODULE CollectorPlanning -------------------------
(***************************************************************************)
(* Where the collectors of the bundles could stand inside the drawing      *)
(* (boundary_bundles.rs, plan_interior_collectors): each as deep as its    *)
(* members allow, those of inputs before those of the outputs their        *)
(* members go on to, and apart from each other if lines may cross.         *)
(***************************************************************************)
EXTENDS BundleGeometry, Digraph

\* Of several places the one deepest in the drawing that is not past the desired one.
Deepest(role, xs) == IF role = "input" THEN Max(xs) ELSE Min(xs)
Nearer(role, x, y) == Deepest(role, {x, y}) = x /\ x # y
Clamp(x, low, high) == Min({Max({x, low}), high})

\* The range between two ends, with what is desired moved into it, or Nothing.
AsRange(minimum, desired, maximum) ==
  IF minimum > maximum THEN Nothing
  ELSE [minimum |-> minimum, desired |-> Clamp(desired, minimum, maximum), maximum |-> maximum]

Ranged(role, nearest, desired, lower, upper) ==
  IF role = "input" THEN AsRange(Max({nearest, lower}), desired, Min({desired, upper}))
                    ELSE AsRange(Max({desired, lower}), desired, Min({nearest, upper}))

\* Where the last part of a member's route begins, seen from the bundle.
FarEnd(b, route) == IF b.role = "input" THEN RouteEnd(route, "output")[1] - Reserve
                                        ELSE RouteEnd(route, "input")[1] + Reserve

\* The range a collector has between the port and the far ends of its members.
Bounds(g, offsets, routes, i, lower, upper) ==
  LET b == g.bundles[i]
      other == IF b.role = "input" THEN "output" ELSE "input"
      ends == UNION {{FarEnd(b, routes[e])} \cup FallbackCorridors(g, offsets, other, e) :
                       e \in MemberEdges(b)}
  IN  IF b.width <= 1 \/ Len(b.members) <= 1 THEN Nothing
      ELSE Ranged(b.role, At(g, b)[1] + Outward(b) * (RailDepth + Pitch),
                  Deepest(other, ends), lower, upper)

\* The places in a range at which every member can be tapped.
CommonPlaces(g, routes, i, minimum, desired, maximum) ==
  LET b == g.bundles[i]
      stretch(s) == IF b.role = "input" THEN [from |-> s[1][1], to |-> s[2][1] - Pitch]
                                        ELSE [from |-> s[1][1] + Pitch, to |-> s[2][1]]
      level == {s \in UNION {Segments(routes[e]) : e \in MemberEdges(b)} : Level(s)}
      usable == {t \in {stretch(s) : s \in level} :
                   t.from <= t.to /\ t.from <= maximum /\ t.to >= minimum}
      tried == {desired} \cup
               {IF b.role = "input" THEN Min({t.to, maximum, desired})
                                    ELSE Max({t.from, minimum, desired}) : t \in usable}
  IN  {x \in tried : \A e \in MemberEdges(b) : TrunkSegment(routes[e], b.role, x) # 0}

DeepestOrNone(role, places) == IF places = {} THEN Nothing ELSE Deepest(role, places)

CommonPlace(g, routes, i, minimum, desired, maximum) ==
  DeepestOrNone(g.bundles[i].role, CommonPlaces(g, routes, i, minimum, desired, maximum))

PlaceWithin(g, routes, i, range) ==
  IF range = Nothing THEN Nothing
  ELSE CommonPlace(g, routes, i, range.minimum, range.desired, range.maximum)

\* interior_collector_range_bounded
Place(g, offsets, routes, i, lower, upper) ==
  PlaceWithin(g, routes, i, Bounds(g, offsets, routes, i, lower, upper))

-----------------------------------------------------------------------------
(* Bundles that share an edge have to agree.                               *)

HasRange(g, offsets, routes, i) == Place(g, offsets, routes, i, -Far, Far) # Nothing

Planned(g, offsets, routes) ==
  {i \in DOMAIN g.bundles : HasRange(g, offsets, routes, i)}

Meet(g, i, j) == /\ g.bundles[i].role # g.bundles[j].role
                 /\ MemberEdges(g.bundles[i]) \cap MemberEdges(g.bundles[j]) # {}

Component(g, planned, i) ==
  {j \in planned : Reaches(planned, {p \in planned \X planned : Meet(g, p[1], p[2])}, i, j)}

\* Where the members of an input part from each other.
Divergence(g, routes, i, x) ==
  LET b == g.bundles[i]
      ends == {routes[e][TrunkSegment(routes[e], "input", x) + 1][1] : e \in MemberEdges(b)}
  IN  IF \A e \in MemberEdges(b) : TrunkSegment(routes[e], "input", x) # 0 THEN Max(ends) ELSE Nothing

RequiredOutput(g, routes, inputs, place) ==
  LET ends == [i \in {j \in inputs : place[j] # Nothing} |-> Divergence(g, routes, i, place[i])]
  IN  Max({-Far} \cup {Max({place[i], ends[i]}) + Pitch : i \in {j \in DOMAIN ends : ends[j] # Nothing}})

\* Where the ranges overlap, inputs end halfway, and at least a pitch before the first output.
SplitInputs(g, offsets, routes, free, inputs, deepest, earliest, low, limit) ==
  [i \in inputs |->
     IF deepest > earliest
     THEN Place(g, offsets, routes, i, -Far,
                Clamp(earliest + (deepest - earliest) \div 2, low, limit - Pitch))
     ELSE free[i]]

\* Inputs that would push the outputs past their limit step back from it.
Retreated(g, offsets, routes, place, limit) ==
  IF RequiredOutput(g, routes, DOMAIN place, place) <= limit THEN place
  ELSE [i \in DOMAIN place |->
          Place(g, offsets, routes, i, -Far,
                Min({IF place[i] = Nothing THEN limit ELSE place[i], limit - Pitch}))]

\* Outputs begin behind the inputs.
Followed(g, offsets, routes, place, outputs, required) ==
  [i \in DOMAIN place \cup outputs |->
     IF i \in DOMAIN place THEN place[i] ELSE Place(g, offsets, routes, i, required, Far)]

Agreed(g, offsets, routes, outputs, place) ==
  Followed(g, offsets, routes, place, outputs, RequiredOutput(g, routes, DOMAIN place, place))

Settled(g, offsets, routes, free, inputs, outputs, low, limit) ==
  IF low + Pitch > limit THEN [i \in inputs \cup outputs |-> Nothing]
  ELSE Agreed(g, offsets, routes, outputs,
              Retreated(g, offsets, routes,
                        SplitInputs(g, offsets, routes, free, inputs, Max({free[i] : i \in inputs}),
                                    Min({free[i] : i \in outputs}) - Pitch, low, limit),
                        limit))

AgreedPlaces(g, offsets, routes, component) ==
  LET inputs == {i \in component : g.bundles[i].role = "input"}
      outputs == component \ inputs
      bounds == [i \in component |-> Bounds(g, offsets, routes, i, -Far, Far)]
      free == [i \in component |-> PlaceWithin(g, routes, i, bounds[i])]
  IN  IF inputs = {} \/ outputs = {} THEN free
      ELSE Settled(g, offsets, routes, free, inputs, outputs,
                   Max({bounds[i].minimum : i \in inputs}), Min({bounds[i].maximum : i \in outputs}))

-----------------------------------------------------------------------------
LaneSeparated(x, used) == \A u \in used : u - x >= Pitch \/ x - u >= Pitch

\* A lane beyond those used, if it can be had within the range.
BesidePlace(g, routes, i, range, desired) ==
  IF g.bundles[i].role = "input" THEN CommonPlace(g, routes, i, range.minimum, desired, desired)
                                 ELSE CommonPlace(g, routes, i, desired, desired, range.maximum)

Beside(g, routes, i, range, used) ==
  LET beyond == IF g.bundles[i].role = "input" THEN Min(used) - Pitch ELSE Max(used) + Pitch
  IN  BesidePlace(g, routes, i, range, Clamp(beyond, range.minimum, range.maximum))

OnlySeparated(x, used) == IF x # Nothing /\ LaneSeparated(x, used) THEN x ELSE Nothing

Moved(g, offsets, routes, i, x, used) ==
  IF x = Nothing \/ LaneSeparated(x, used) THEN x
  ELSE OnlySeparated(Beside(g, routes, i, Bounds(g, offsets, routes, i, -Far, Far), used \cup {x}), used)

Lay(sofar, role, x) ==
  [used |-> [sofar.used EXCEPT ![role] = IF x = Nothing THEN @ ELSE @ \cup {x}],
   places |-> Append(sofar.places, x)]

\* Collectors of a role are moved off each other, in the order of the bundles.
SeparatedPlaces(g, offsets, routes, places) ==
  LET Settle(sofar, i) ==
        Lay(sofar, g.bundles[i].role,
            Moved(g, offsets, routes, i, places[i], sofar.used[g.bundles[i].role]))
  IN  FoldLeft(Settle, [used |-> [r \in Roles |-> {}], places |-> <<>>],
               [i \in DOMAIN g.bundles |-> i]).places

PlannedPlaces(g, offsets, routes, planned) ==
  [i \in DOMAIN g.bundles |->
     IF i \in planned THEN AgreedPlaces(g, offsets, routes, Component(g, planned, i))[i] ELSE Nothing]

PlanInteriorCollectors(g, routes, separate) ==
  LET offsets == CorridorOffsets(g)
      places == PlannedPlaces(g, offsets, routes, Planned(g, offsets, routes))
  IN  IF separate THEN SeparatedPlaces(g, offsets, routes, places) ELSE places

\* The first of the places, the deepest ones.
Foremost(role, places) ==
  {x \in places : Cardinality({y \in places : Nearer(role, y, x)}) < MaxPromotions}

\* Candidates are deepest at what is desired, or at the lane next to it.
CandidatesWithin(g, routes, i, range, adjacent) ==
  Foremost(g.bundles[i].role,
           CommonPlaces(g, routes, i, range.minimum, range.desired, range.maximum)
           \cup IF range.minimum <= adjacent /\ adjacent <= range.maximum
                THEN CommonPlaces(g, routes, i, range.minimum, adjacent, range.maximum)
                ELSE {})

\* promotion_collector_candidates
PromotionCandidates(g, routes, i) ==
  LET range == Bounds(g, CorridorOffsets(g), routes, i, -Far, Far)
  IN  IF range = Nothing THEN {}
      ELSE CandidatesWithin(g, routes, i, range, range.desired - Outward(g.bundles[i]) * Pitch)
=============================================================================
