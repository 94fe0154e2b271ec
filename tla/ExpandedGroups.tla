--------------------------- MODULE ExpandedGroups ---------------------------
(* Groups that are already open when the whole graph is drawn (groups.rs):  *)
(* the request is checked, the members of every group are set out, the      *)
(* nodes right of a group make room for it, and from the top group down     *)
(* whatever stands in a group's frame is moved below it. The drawing that   *)
(* is routed then is refused when a frame still has a stranger in it.       *)
(*                                                                          *)
(* Whether the router finds a drawing is a free choice: it moves no node.   *)
EXTENDS MemberArrangement

CONSTANTS Openings, MaxGroups, MaxMembers

(* A drawing whose nodes have a size and do not overlap, as they have been  *)
(* placed, and groups that say which nodes are in them. Nothing else is     *)
(* asked of the groups: they are checked.                                   *)
IsOpening(o) ==
    /\ DOMAIN o.rects \subseteq Nat /\ IsFiniteSet(DOMAIN o.rects)
    /\ \A n \in DOMAIN o.rects :
          o.rects[n] \in [x : Int, y : Int, width : Nat \ {0}, height : Nat \ {0}]
    /\ \A m, n \in DOMAIN o.rects : m # n => ~MeetBox(BoxOf(o.rects[m]), BoxOf(o.rects[n]))
    /\ o.wires \in Seq([source : Nat, target : Nat, points : Seq(Int \X Int)])
    /\ o.groups \in Seq([id : Nat, members : Seq(Nat), reference : Int, padding : Int])
    /\ o.memberGap \in Nat \ {0} /\ o.nodeGap \in Nat

ASSUME OpeningsAssumption == \A o \in Openings : IsOpening(o)

VARIABLES opening,     \* the drawing, and the groups that are open in it
          plans,       \* the groups from the top down, with their members set out
          standing,    \* where the nodes stand now
          settled,     \* how many groups have been given their frames
          answer       \* None, an error, or the drawing

groupVars == <<opening, plans, standing, settled, answer>>

Rects == opening.rects
Members(g) == Range(g.members)
AllMembers == UNION {Members(g) : g \in Range(opening.groups)}

---------------------------------------------------------------------------
(* Checking the request                                                     *)

Faults == <<"DuplicateGroup", "EmptyGroup", "InvalidReferenceHeight", "InvalidFramePadding",
            "DuplicateMember", "UnknownMember", "OverlappingGroups">>

ById(groups) == InOrder(DOMAIN groups,
                        LAMBDA a, b : LexLess(<<groups[a].id, a>>, <<groups[b].id, b>>))

\* What is wrong with the k-th group: the check that finds it, and at which member.
FaultsOf(groups, k) ==
    LET order == ById(groups)
        g == groups[order[k]]
        earlier == UNION {Members(groups[order[j]]) : j \in 1..(k - 1)}
        twice == {m \in Members(g) : \E i, j \in DOMAIN g.members :
                                        i # j /\ g.members[i] = m /\ g.members[j] = m}
        plain == {c \in 1..4 : \/ (c = 1 /\ k > 1 /\ groups[order[k - 1]].id = g.id)
                               \/ (c = 2 /\ g.members = <<>>)
                               \/ (c = 3 /\ g.reference <= 0)
                               \/ (c = 4 /\ g.padding < 0)}
    IN {<<k, c, 0, c>> : c \in plain}
       \cup {<<k, 5, m, 5>> : m \in twice}
       \cup {<<k, 6, m, 6>> : m \in Members(g) \ DOMAIN Rects}
       \cup {<<k, 6, m, 7>> : m \in Members(g) \cap DOMAIN Rects \cap earlier}

FaultsIn(groups) == UNION {FaultsOf(groups, k) : k \in DOMAIN groups}
MemberCount(groups) == Total([k \in DOMAIN groups |-> Len(groups[k].members)])
AreValid(groups) ==
    Len(groups) <= MaxGroups /\ MemberCount(groups) <= MaxMembers /\ FaultsIn(groups) = {}

\* validate_groups: the counts, then the first fault of the group with the least id.
ValidationError(groups) ==
    CASE Len(groups) > MaxGroups -> [kind |-> "TooManyGroups"]
      [] Len(groups) <= MaxGroups /\ MemberCount(groups) > MaxMembers -> [kind |-> "TooManyMembers"]
      [] OTHER -> LET first == CHOOSE f \in FaultsIn(groups) :
                                 \A e \in FaultsIn(groups) : f = e \/ LexLess(f, e)
                  IN [kind |-> Faults[first[4]],
                      group |-> groups[ById(groups)[first[1]]].id, member |-> first[3]]

---------------------------------------------------------------------------
(* Setting a group out                                                      *)

MemberWires(g) ==
    {w \in Range(opening.wires) : w.source \in Members(g) /\ w.target \in Members(g)}

(* normalize_owned: what reaches above or left of the origin is moved to    *)
(* it; what does not stays where it is, and the width is counted from 0.    *)
Origin(rects, wires, side, axis) ==
    Smallest({0} \cup {rects[n][side] : n \in DOMAIN rects}
                 \cup UNION {{p[axis] : p \in Range(w.points)} : w \in wires})
Normalised(rects, wires) ==
    LET x == Origin(rects, wires, "x", 1)
        y == Origin(rects, wires, "y", 2)
    IN [rects |-> [n \in DOMAIN rects |-> [rects[n] EXCEPT !.x = @ - x, !.y = @ - y]],
        wires |-> {[w EXCEPT !.points = [i \in DOMAIN @ |-> <<@[i][1] - x, @[i][2] - y>>]] :
                     w \in wires}]

Extent(layout) ==
    Largest({layout.rects[n].x + layout.rects[n].width : n \in DOMAIN layout.rects}
            \cup UNION {{p[1] : p \in Range(w.points)} : w \in layout.wires})

\* The members of one connected part are left as they are.
SetOut(g) ==
    LET layout == Normalised([n \in Members(g) |-> Rects[n]], MemberWires(g))
    IN IF Len(Components(Members(g), MemberWires(g))) <= 1
       THEN [parts |-> <<Members(g)>>, columns |-> 1, rects |-> layout.rects, width |-> Extent(layout)]
       ELSE ArrangeMembers(layout.rects, layout.wires,
                           [vertical |-> opening.memberGap, horizontal |-> opening.memberGap],
                           g.reference)

MembersBox(rects, members) == Hull({BoxOf(rects[n]) : n \in members})
Padded(box, padding) ==
    Box(box.left - padding, box.top - padding, box.right + padding, box.bottom + padding)
Frame(rects, plan) == Padded(MembersBox(rects, plan.members), plan.padding)

GroupPlan(g) ==
    LET arranged == SetOut(g)
        original == MembersBox(Rects, Members(g))
    IN [id |-> g.id, members |-> Members(g), padding |-> g.padding, original |-> original,
        arranged |-> arranged,
        insertion |-> Most(arranged.width + 2 * g.padding - WidthOf(original), 0)]

\* From the top down; a node right of groups moves by what each of them needs.
FromTheTop(ps) ==
    InOrder(ps, LAMBDA a, b : LexLess(<<a.original.top, a.id>>, <<b.original.top, b.id>>))
Plans(groups) == FromTheTop({GroupPlan(g) : g \in Range(groups)})
SpreadRight(ps) ==
    [n \in DOMAIN Rects |->
       [Rects[n] EXCEPT !.x = @ + Total([k \in DOMAIN ps |->
                                   IF Rects[n].x >= ps[k].original.right THEN ps[k].insertion ELSE 0])]]

---------------------------------------------------------------------------
(* Making room for a frame                                                  *)

Arranged(rects, plan) ==
    LET now == MembersBox(rects, plan.members)
    IN [n \in DOMAIN rects |->
          IF n \in plan.members
          THEN [plan.arranged.rects[n] EXCEPT !.x = @ + now.left + plan.padding,
                                              !.y = @ + now.top + plan.padding]
          ELSE rects[n]]

Intruders(rects, frame) ==
    {n \in DOMAIN rects \ AllMembers : MeetBox(frame, BoxOf(rects[n]))}
Relocation(rects, intruders) ==
    LET order == InOrder(intruders, <)
    IN Total([i \in DOMAIN order |-> rects[order[i]].height + opening.nodeGap])

\* (mutant) what stands below the frame is not moved to make room.
StackOnly(rects, frame, intruders) ==
    LET order == InOrder(intruders, <)
        at(n) == CHOOSE i \in DOMAIN order : order[i] = n
    IN [n \in DOMAIN rects |->
          IF n \notin intruders THEN rects[n]
          ELSE [rects[n] EXCEPT !.y = frame.bottom + opening.nodeGap
                      + Total([i \in 1..(at(n) - 1) |-> rects[order[i]].height + opening.nodeGap])]]

(* The strangers in a frame are stacked below it by their ids, after what   *)
(* stands there has been moved down by as much as they take.                *)
StackBelow(rects, frame, intruders) ==
    LET order == InOrder(intruders, <)
        at(n) == CHOOSE i \in DOMAIN order : order[i] = n
        room == Relocation(rects, intruders)
        top(n) == CASE n \in intruders ->
                         frame.bottom + opening.nodeGap
                           + Total([i \in 1..(at(n) - 1) |-> rects[order[i]].height + opening.nodeGap])
                    [] n \notin intruders /\ n \notin AllMembers /\ rects[n].y >= frame.bottom ->
                         rects[n].y + room
                    [] OTHER -> rects[n].y
    IN [n \in DOMAIN rects |-> [rects[n] EXCEPT !.y = top(n)]]

\* The groups that are still to come move out of the frame, or with what is below it.
FutureShift(rects, frame, room, plan) ==
    LET next == Frame(rects, plan)
    IN CASE MeetBox(frame, next) -> frame.bottom + room + opening.nodeGap - next.top
         [] ~MeetBox(frame, next) /\ next.top >= frame.bottom -> room
         [] OTHER -> 0
ShiftFuture(rects, frame, room, k) ==
    LET shift(n) == LET of == {j \in (k + 1)..Len(plans) : n \in plans[j].members}
                    IN IF of = {} THEN 0
                       ELSE Most(FutureShift(rects, frame, room, plans[CHOOSE j \in of : TRUE]), 0)
    IN [n \in DOMAIN rects |-> [rects[n] EXCEPT !.y = @ + shift(n)]]

Settle(rects, k) ==
    LET out == Arranged(rects, plans[k])
        frame == Frame(out, plans[k])
        intruders == Intruders(out, frame)
    IN ShiftFuture(StackBelow(out, frame, intruders), frame, Relocation(out, intruders), k)

\* verify_keep_outs: the first group in whose frame a node stands that is not of it.
Strangers(rects, plan) ==
    {n \in DOMAIN rects \ plan.members : MeetBox(Frame(rects, plan), BoxOf(rects[n]))}
Verdict(rects) ==
    LET spoiled == {k \in DOMAIN plans : Strangers(rects, plans[k]) # {}}
    IN IF spoiled = {} THEN [kind |-> "drawn"]
       ELSE LET k == Smallest(spoiled)
            IN [kind |-> "KeepOutUnsatisfied", group |-> plans[k].id,
                member |-> Smallest(Strangers(rects, plans[k]))]

---------------------------------------------------------------------------
GroupsInit ==
    /\ opening \in Openings
    /\ plans = None /\ standing = None /\ settled = 0 /\ answer = None

Asked == opening.job = "groups" /\ answer = None

\* Without groups the drawing is returned as it is.
NothingOpen ==
    /\ Asked /\ opening.groups = <<>>
    /\ answer' = [kind |-> "drawn"]
    /\ UNCHANGED <<opening, plans, standing, settled>>

RefuseGroups ==
    /\ Asked /\ opening.groups # <<>> /\ plans = None /\ ~AreValid(opening.groups)
    /\ answer' = ValidationError(opening.groups)
    /\ UNCHANGED <<opening, plans, standing, settled>>

PlanGroups ==
    /\ Asked /\ opening.groups # <<>> /\ plans = None /\ AreValid(opening.groups)
    /\ \E ps \in {Plans(opening.groups)} :
         plans' = ps /\ standing' = SpreadRight(ps)
    /\ UNCHANGED <<opening, settled, answer>>

SettleGroup ==
    /\ Asked /\ plans # None /\ settled < Len(plans)
    /\ \E next \in {Settle(standing, settled + 1)} : standing' = next
    /\ settled' = settled + 1
    /\ UNCHANGED <<opening, plans, answer>>

RouteGroups ==
    /\ Asked /\ plans # None /\ settled = Len(plans)
    /\ answer' \in {[kind |-> "unroutable"], Verdict(standing)}
    /\ UNCHANGED <<opening, plans, standing, settled>>

GroupsDone == answer # None /\ UNCHANGED groupVars

GroupsNext ==
    NothingOpen \/ RefuseGroups \/ PlanGroups \/ SettleGroup \/ RouteGroups \/ GroupsDone

GroupsSpec == GroupsInit /\ [][GroupsNext]_groupVars

---------------------------------------------------------------------------
(* What open groups promise                                                 *)

(* A single open group is never refused for a stranger in its frame: what   *)
(* the wider frame takes in is moved out of it, and it is put on nothing    *)
(* that stands below the frame (apply_expanded_group_constraints).          *)
LoneGroupIsCleared ==
    (plans # None /\ Len(plans) = 1 /\ settled = 1) =>
        LET frame == Frame(standing, plans[1])
            near == {n \in DOMAIN standing \ plans[1].members :
                       frame.left < standing[n].x + standing[n].width /\ standing[n].x < frame.right}
        IN /\ Strangers(standing, plans[1]) = {}
           /\ \A m, n \in near : m # n => ~MeetBox(BoxOf(standing[m]), BoxOf(standing[n]))

(* The parts of a group are set out apart from each other, no nearer than   *)
(* the gap that the wires between them need (arrange_member_components).    *)
PartsKeepApart ==
    plans # None =>
        \A k \in DOMAIN plans :
            LET set == plans[k].arranged
                box == [i \in DOMAIN set.parts |-> MembersBox(set.rects, set.parts[i])]
            IN \A i, j \in DOMAIN set.parts :
                  i # j => ~MeetBox(Padded(box[i], opening.memberGap), box[j])

(* A frame that is opened has its place to itself, and what is set out in   *)
(* it, part by part, keeps apart.                                           *)
FramesAreTheirOwn == LoneGroupIsCleared /\ PartsKeepApart
=============================================================================
