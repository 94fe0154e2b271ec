---------------------------- MODULE LatestLayout ----------------------------
(***************************************************************************)
(* What the review page promises of its SchemWeave canvas, without the     *)
(* worker, the queue and the timers: the user wants a layout of one        *)
(* fixture with one effort, and the canvas shows either nothing or a       *)
(* layout; whenever it changes, it changes to the layout wanted at that    *)
(* moment, or it is cleared because the user moved to another fixture.     *)
(***************************************************************************)
CONSTANTS
  Wanted,     \* the selections a user can make
  Nothing     \* nothing selected; nothing shown

VARIABLES
  wanted,     \* the current selection
  shown       \* what the canvas shows: a selection and whether it is final

Layouts == [of: Wanted, final: BOOLEAN]

Init == wanted = Nothing /\ shown = Nothing

\* A new selection of the same drawing keeps the old layout in view; a new
\* drawing clears the canvas.
Select(w) ==
  /\ wanted' = w
  /\ shown' \in {shown, Nothing}

Show(final) ==
  /\ wanted # Nothing
  /\ shown' = [of |-> wanted, final |-> final]
  /\ UNCHANGED wanted

Next ==
  \/ \E w \in Wanted \cup {Nothing} : Select(w)
  \/ \E final \in BOOLEAN : Show(final)

Spec == Init /\ [][Next]_<<wanted, shown>>
=============================================================================
