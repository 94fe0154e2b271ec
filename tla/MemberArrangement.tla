-------------------------- MODULE MemberArrangement --------------------------
(* How the members of an opened group are set out (incremental.rs): the     *)
(* parts that no wire connects are stacked, or, once the stack is too high, *)
(* dealt into a grid row by row.                                            *)
(*                                                                          *)
(* A rectangle is its left and top, x and y, with width and height; a box   *)
(* its four sides. A wire has the nodes it joins and the points of its      *)
(* route. StackFactor is in halves.                                         *)
EXTENDS RouteSegments

CONSTANT StackFactor
ASSUME StackFactorIsPositive == StackFactor \in Nat \ {0}

Box(left, top, right, bottom) == [left |-> left, top |-> top, right |-> right, bottom |-> bottom]
BoxOf(rect) == Box(rect.x, rect.y, rect.x + rect.width, rect.y + rect.height)
PointBox(point) == Box(point[1], point[2], point[1], point[2])
Hull(boxes) ==
    Box(Smallest({b.left : b \in boxes}), Smallest({b.top : b \in boxes}),
        Largest({b.right : b \in boxes}), Largest({b.bottom : b \in boxes}))
MeetBox(a, b) == a.left < b.right /\ a.right > b.left /\ a.top < b.bottom /\ a.bottom > b.top
WidthOf(box) == box.right - box.left
HeightOf(box) == box.bottom - box.top

\* component_bounds: of the nodes and of the routes between them.
ComponentBounds(rects, component, wires) ==
    Hull({BoxOf(rects[n]) : n \in component}
         \cup UNION {{PointBox(p) : p \in Range(w.points)} :
                        w \in {v \in wires : v.source \in component}})

\* What can be reached from a node along wires either way.
Reached(from, wires) ==
    LET grown[k \in 0..Cardinality(wires)] ==
            IF k = 0 THEN {from}
            ELSE grown[k - 1] \cup UNION {{w.source, w.target} :
                    w \in {v \in wires : {v.source, v.target} \cap grown[k - 1] # {}}}
    IN grown[Cardinality(wires)]

\* The parts, by their least node.
Components(members, wires) ==
    LET parts == {Reached(n, wires) : n \in members}
    IN InOrder(parts, LAMBDA a, b : Smallest(a) < Smallest(b))

\* The least whole number whose square is not less than n / d.
CeilRoot(n, d) == CHOOSE k \in 0..n : k * k * d >= n /\ \A j \in 0..(k - 1) : j * j * d < n

\* One column for a low stack, otherwise as many as make the grid about square.
Columns(count, maxWidth, maxHeight, stacked, gaps, reference) ==
    IF 2 * stacked <= StackFactor * reference THEN 1
    ELSE Least(Most(CeilRoot(count * (maxHeight + gaps.vertical), maxWidth + gaps.horizontal), 2),
               count)

Column(i, columns) == (i - 1) % columns
Row(i, columns) == (i - 1) \div columns

\* Where a row or column begins, when the gap follows each one before it.
Begins(extents, at, gap) == Total([k \in 1..at |-> extents[k - 1] + gap])

\* arrange_member_components: the nodes where they now are and the width of it all.
ArrangeMembers(rects, wires, gaps, reference) ==
    LET parts == Components(DOMAIN rects, wires)
        box == [i \in DOMAIN parts |-> ComponentBounds(rects, parts[i], wires)]
        maxWidth == Largest({WidthOf(box[i]) : i \in DOMAIN parts})
        maxHeight == Largest({HeightOf(box[i]) : i \in DOMAIN parts})
        stacked == Total([i \in DOMAIN parts |-> HeightOf(box[i])])
                     + gaps.vertical * (Len(parts) - 1)
        columns == Columns(Len(parts), maxWidth, maxHeight, stacked, gaps, reference)
        widths == [c \in 0..(columns - 1) |->
                     Largest({0} \cup {WidthOf(box[i]) :
                                 i \in {j \in DOMAIN parts : Column(j, columns) = c}})]
        heights == [r \in 0..(Len(parts) - 1) |->
                      Largest({0} \cup {HeightOf(box[i]) :
                                  i \in {j \in DOMAIN parts : Row(j, columns) = r}})]
        x(i) == Begins(widths, Column(i, columns), gaps.horizontal) - box[i].left
        y(i) == Begins(heights, Row(i, columns), gaps.vertical) - box[i].top
        part(n) == CHOOSE i \in DOMAIN parts : n \in parts[i]
    IN [parts |-> parts, columns |-> columns,
        rects |-> [n \in DOMAIN rects |->
                     [rects[n] EXCEPT !.x = @ + x(part(n)), !.y = @ + y(part(n))]],
        width |-> Begins(widths, columns - 1, gaps.horizontal) + widths[columns - 1]]
=============================================================================
