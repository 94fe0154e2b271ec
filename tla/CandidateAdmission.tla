------------------------- MODULE CandidateAdmission -------------------------
(***************************************************************************)
(* What one candidate drawing is worth and whether it may be used: the     *)
(* order candidates are compared by, the hard geometry contract a          *)
(* candidate must pass, what CandidateAdmissionState remembers of the ones *)
(* that did not, and the error a run without an admitted candidate ends    *)
(* with (crates/schemweave/src/lib.rs).                                    *)
(*                                                                         *)
(* Coordinates, routes and rectangles are abstracted to what those         *)
(* decisions read of them.  A drawing has `raw', the measures of the       *)
(* router's output, `drawn', the measures once boundary bundles are drawn  *)
(* over it, and the outcome of each check should it be made: "ok" or the   *)
(* reason the check gives.                                                 *)
(***************************************************************************)
EXTENDS Integers, Sequences, SequencesExt

Quality == [crossings : Nat, bends : Nat, length : Nat]

Measures == [quality : Quality, concentration : Nat, area : Nat]

BundleOutcomes ==
  {"ok", "boundary_bundle_work_exhausted", "contact_segment_exhausted",
   "contact_work_exhausted", "boundary_bundle_rejected"}

ContactOutcomes ==
  {"ok", "contact_segment_exhausted", "contact_work_exhausted", "contact_rejected"}

\* A clearance violation is the one rejection no flag remembers.
ClearanceOutcomes == {"ok", "clearance_work_exhausted", "clearance_violated"}

SpacingOutcomes ==
  {"ok", "parallel_spacing_segment_exhausted", "parallel_spacing_work_exhausted",
   "parallel_spacing_rejected"}

Drawing ==
  [raw : Measures, drawn : Measures, bundle : BundleOutcomes,
   contact : ContactOutcomes, clearance : ClearanceOutcomes,
   spacing : SpacingOutcomes]

\* The refinement factors validate_options accepts, in percent: none below 1.0.
Factors == Nat \ 0..99

(* What one layout request asks of the engine: its effort, whether it      *)
(* names a positive clearance, a positive wire spacing, boundary bundles   *)
(* and no more than MAX_INTERIOR_COLLECTOR_BUNDLES of them, and its two    *)
(* refinement budgets in percent.                                          *)
Request ==
  [effort : {"fast", "quality", "max"}, clearance : BOOLEAN, spacing : BOOLEAN,
   bundles : BOOLEAN, fewBundles : BOOLEAN, areaFactor : Factors, lengthFactor : Factors]

-----------------------------------------------------------------------------
(* The order of candidates.                                                *)

RouteLess(p, q) ==
  \/ p.crossings < q.crossings
  \/ /\ p.crossings = q.crossings
     /\ \/ p.bends < q.bends
        \/ p.bends = q.bends /\ p.length < q.length

\* candidate_quality_cmp(..).is_lt() over the measures of two raw layouts.
CandidateLess(m, n) ==
  \/ RouteLess(m.quality, n.quality)
  \/ /\ m.quality = n.quality
     /\ \/ m.concentration < n.concentration
        \/ m.concentration = n.concentration /\ m.area < n.area

\* An area or a length within `factor' percent of a base.
Within(value, base, factor) == value * 100 <= base * factor

\* composite_pitched_quality_is_admissible
CompositeAdmissible(base, baseArea, candidate, candidateArea, request) ==
  /\ candidate.crossings <= base.crossings + base.crossings \div 100
  /\ candidate.bends <= base.bends + (IF base.bends \div 100 > 2 THEN base.bends \div 100 ELSE 2)
  /\ Within(candidate.length, base.length, request.lengthFactor)
  /\ Within(candidateArea, baseArea, request.areaFactor)

\* demand_aware_quality_is_better without its congestion bounds.
DemandAwareAdmissible(base, candidate) ==
  /\ candidate.quality.crossings <= base.quality.crossings + base.quality.crossings \div 20
  /\ Within(candidate.quality.bends, base.quality.bends, 105)
  /\ Within(candidate.quality.length, base.quality.length, 165)
  /\ Within(candidate.area, base.area, 185)

\* vertical_track_spacing_quality_is_admissible without its congestion bounds.
TrackSpacingAdmissible(base, baseArea, candidate, request) ==
  /\ Within(candidate.area, baseArea, IF request.areaFactor < 115 THEN request.areaFactor ELSE 115)
  /\ candidate.quality.crossings = base.crossings
  /\ candidate.quality.bends = base.bends
  /\ Within(candidate.quality.length, base.length, request.lengthFactor)

\* straight_chain_geometry_cost_is_bounded
ChainCostBounded(candidate, current) ==
  /\ Within(candidate.quality.length, current.quality.length, 105)
  /\ candidate.quality.bends <= current.quality.bends + current.quality.bends \div 20
  /\ Within(candidate.area, current.area, 110)

-----------------------------------------------------------------------------
(* The hard geometry contract.                                             *)

BundleOutcome(r, d) == IF r.bundles THEN d.bundle ELSE "ok"
ContactOutcome(r, d) == IF r.clearance THEN d.contact ELSE "ok"
ClearanceOutcome(r, d) == IF r.clearance THEN d.clearance ELSE "ok"
SpacingOutcome(r, d) == IF r.spacing THEN d.spacing ELSE "ok"

\* candidate_satisfies_hard_geometry_contract
MeetsContract(r, d) ==
  /\ ContactOutcome(r, d) = "ok"
  /\ ClearanceOutcome(r, d) = "ok"
  /\ SpacingOutcome(r, d) = "ok"

\* prepare_owned_candidate returns a candidate.
Admits(r, d) == BundleOutcome(r, d) = "ok" /\ MeetsContract(r, d)

\* The reason of the first check that a drawing does not pass.
Rejection(r, d) ==
  IF BundleOutcome(r, d) # "ok" THEN BundleOutcome(r, d)
  ELSE IF ContactOutcome(r, d) # "ok" THEN ContactOutcome(r, d)
  ELSE IF ClearanceOutcome(r, d) # "ok" THEN ClearanceOutcome(r, d)
  ELSE SpacingOutcome(r, d)

Flags ==
  (BundleOutcomes \cup ContactOutcomes \cup SpacingOutcomes
     \cup {"clearance_work_exhausted", "contact_satisfied", "clearance_satisfied",
           "parallel_spacing_satisfied"}) \ {"ok"}

Satisfied(r, d) ==
  LET contact == BundleOutcome(r, d) = "ok" /\ ContactOutcome(r, d) = "ok"
      clear == contact /\ ClearanceOutcome(r, d) = "ok"
  IN  {f \in {"contact_satisfied", "clearance_satisfied", "parallel_spacing_satisfied"} :
         \/ f = "contact_satisfied" /\ r.clearance /\ contact
         \/ f = "clearance_satisfied" /\ clear
         \/ f = "parallel_spacing_satisfied" /\ r.spacing /\ clear /\ SpacingOutcome(r, d) = "ok"}

\* What preparing the drawing d leaves in CandidateAdmissionState.
Recorded(r, d) == Satisfied(r, d) \cup ({Rejection(r, d)} \ {"ok", "clearance_violated"})

\* The exhausted limits and the bundle rejection, in the order they are reported.
ReportedFirst ==
  <<"boundary_bundle_work_exhausted", "contact_segment_exhausted",
    "contact_work_exhausted", "boundary_bundle_rejected", "clearance_work_exhausted",
    "parallel_spacing_segment_exhausted", "parallel_spacing_work_exhausted">>

\* A plausible slip: a rejected contact is reported before the limits after it.
HardGeometryFailureContactFirst(flags) ==
  LET first == SelectInSeq(ReportedFirst, LAMBDA f : f \in flags)
  IN  IF "contact_rejected" \in flags /\ "contact_satisfied" \notin flags
        THEN "contact_rejected"
      ELSE IF first # 0 THEN ReportedFirst[first]
      ELSE IF {"clearance_satisfied", "parallel_spacing_rejected"} \subseteq flags
        THEN "parallel_spacing_rejected"
      ELSE "clearance_violated"

\* hard_geometry_failure: the reason a run without an admitted candidate reports.
HardGeometryFailure(flags) ==
  LET first == SelectInSeq(ReportedFirst, LAMBDA f : f \in flags)
  IN  IF first # 0 THEN ReportedFirst[first]
      ELSE IF "contact_rejected" \in flags /\ "contact_satisfied" \notin flags
        THEN "contact_rejected"
      ELSE IF /\ {"clearance_satisfied", "parallel_spacing_rejected"} \subseteq flags
              /\ "parallel_spacing_satisfied" \notin flags
        THEN "parallel_spacing_rejected"
      ELSE "clearance_violated"

Failures == (Flags \cup {"clearance_violated"})
=============================================================================
