-------------------------- MODULE MCLayoutSelection --------------------------
(* Instances of LayoutSelection for TLC: requests of every effort, and a   *)
(* few drawings that differ in the measures and outcomes the decisions     *)
(* read.                                                                   *)
EXTENDS LayoutSelection

LOCAL Measure(crossings, bends, length, concentration, area) ==
  [quality |-> [crossings |-> crossings, bends |-> bends, length |-> length],
   concentration |-> concentration, area |-> area]

LOCAL Draw(raw, drawn, bundle, contact, clearance, spacing) ==
  [raw |-> raw, drawn |-> drawn, bundle |-> bundle, contact |-> contact,
   clearance |-> clearance, spacing |-> spacing]

LOCAL Asking(efforts, clearances, spacings, bundles, few, factors) ==
  {[effort |-> e, clearance |-> c, spacing |-> s, bundles |-> b, fewBundles |-> f,
    areaFactor |-> a[1], lengthFactor |-> a[2]] :
     e \in efforts, c \in clearances, s \in spacings, b \in bundles, f \in few, a \in factors}

(* Clean drawings: a tie with an earlier one broken by concentration, a    *)
(* longer one, a wide one with fewer crossings, a narrow one with more.    *)
LOCAL Clean ==
  {Draw(Measure(1, 4, 100, 2, 100), Measure(1, 5, 101, 2, 100), "ok", "ok", "ok", "ok"),
   Draw(Measure(1, 4, 100, 1, 100), Measure(1, 5, 101, 1, 100), "ok", "ok", "ok", "ok"),
   Draw(Measure(1, 2, 100, 1, 100), Measure(1, 4, 100, 1, 104), "ok", "ok", "ok", "ok"),
   Draw(Measure(1, 4, 115, 1, 150), Measure(1, 5, 115, 1, 150), "ok", "ok", "ok", "ok")}

LOCAL Unclean ==
  {Draw(Measure(0, 2, 90, 1, 100), Measure(0, 2, 90, 1, 100), "ok", "contact_rejected", "ok", "ok"),
   Draw(Measure(1, 2, 100, 2, 100), Measure(1, 2, 100, 2, 100), "ok", "ok", "clearance_violated", "ok"),
   Draw(Measure(1, 5, 100, 2, 100), Measure(1, 5, 101, 1, 100), "boundary_bundle_rejected",
        "ok", "ok", "parallel_spacing_rejected")}

LOCAL Mixed == Clean \cup Unclean

\* Drawings rejected for different reasons, some by a limit, and one clean drawing.
LOCAL Rejected ==
  {Draw(Measure(1, 4, 100, 1, 100), Measure(1, 5, 101, 1, 100), o[1], o[2], o[3], o[4]) :
     o \in {<<"ok", "ok", "ok", "ok">>,
            <<"boundary_bundle_rejected", "ok", "ok", "ok">>,
            <<"contact_work_exhausted", "contact_rejected", "ok", "ok">>,
            <<"ok", "contact_rejected", "ok", "parallel_spacing_work_exhausted">>,
            <<"ok", "contact_segment_exhausted", "ok", "parallel_spacing_rejected">>,
            <<"ok", "ok", "clearance_work_exhausted", "ok">>,
            <<"ok", "ok", "clearance_violated", "parallel_spacing_rejected">>,
            <<"ok", "ok", "ok", "parallel_spacing_rejected">>,
            <<"boundary_bundle_work_exhausted", "ok", "ok", "parallel_spacing_segment_exhausted">>}}

Budgets == {<<120, 110>>, <<200, 125>>}

MCDrawings == Mixed \cup Rejected

\* Requests the bundle refinement draws for, and requests without bundles;
\* and requests with too many bundles for it, to be rejected for any reason.
MCRequests ==
  Asking({"fast", "quality", "max"}, BOOLEAN, BOOLEAN, {FALSE}, {TRUE}, Budgets)
    \cup Asking({"fast", "quality", "max"}, BOOLEAN, {FALSE}, {TRUE}, {TRUE}, Budgets)
    \cup Asking({"quality"}, BOOLEAN, BOOLEAN, BOOLEAN, {FALSE}, {<<120, 110>>})

\* Bound: one drawing of each routing call, or two of those to be rejected.
Scenario ==
  IF request.fewBundles THEN offered \subseteq Mixed /\ left >= MaxRouted - 1
  ELSE offered \subseteq Rejected

\* A default request for a boundary bundle and a positive wire spacing.
MCSpacedBundles == Asking({"quality"}, {FALSE}, {TRUE}, {TRUE}, {TRUE}, {<<120, 110>>})

\* The highest effort with the default budgets.
MCDefaultBudgets == Asking({"max"}, {FALSE}, {FALSE}, {FALSE}, {TRUE}, {<<120, 110>>})
=============================================================================
