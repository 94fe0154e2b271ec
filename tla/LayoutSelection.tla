--------------------------- MODULE LayoutSelection ---------------------------
(***************************************************************************)
(* layout_indexed (crates/schemweave/src/lib.rs): the pipeline that offers *)
(* candidate drawings stage by stage, keeps the best admitted one, fails   *)
(* when there is none, and refines the chosen one.  What a stage's router  *)
(* draws, and whether an optional stage is worth running, is the           *)
(* environment's choice; what is kept, replaced, rolled back or reported   *)
(* is the code's.                                                          *)
(*                                                                         *)
(* Ghost state: `offered', the drawings the run has offered for selection, *)
(* and the fields `primary' and `vetted' of candidates.                    *)
(***************************************************************************)
EXTENDS CandidateAdmission

CONSTANTS
  Requests,    \* the requests a run may be asked for
  Drawings,    \* the drawings a router may return
  MaxRouted    \* the drawings one routing call may return

ASSUME RequestsAssumption == Requests \subseteq Request
ASSUME DrawingsAssumption == Drawings \subseteq Drawing
ASSUME MaxRoutedAssumption == MaxRouted \in Nat \ {0}

VARIABLES
  request,       \* options, quality_effort and constraints of the call
  stage,         \* the stage of layout_indexed about to run
  left,          \* drawings the current routing call may still return
  best,          \* best: Option<AdmittedCandidate>
  local,         \* alternative_best or straight_chain_best
  admission,     \* CandidateAdmissionState, as the set of its true flags
  primaryRanks,  \* best_uses_primary_ranks
  selected,      \* (quality, raw_layout, layout) after the selection
  baseline,      \* pitched_baseline
  pitched,       \* pitched_refinement_applied
  outcome,       \* how the call ended
  offered        \* ghost: drawings offered for selection

vars == <<request, stage, left, best, local, admission, primaryRanks, selected,
          baseline, pitched, outcome, offered>>
refining == <<selected, baseline, pitched>>

Void == [none |-> TRUE]

(* A layout: its exact measures, whether boundary bundles are drawn on it, *)
(* and whether these very routes passed the hard geometry contract.        *)
Layout == [measures : Measures, bundles : BOOLEAN, vetted : BOOLEAN]

(* An admitted candidate.  selection_quality is the route quality of the   *)
(* raw layout and `quality' what the code retains as the layout's own.     *)
AdmittedCandidate == [raw : Measures, quality : Quality, layout : Layout, primary : BOOLEAN]

Stages ==
  {"baseline", "ordinary", "preferred", "sifted", "net", "latest", "latest_constrained",
   "chain", "fallback", "choose", "demand", "fanout", "regional", "pitch", "gap",
   "rollback", "rebundle", "tracks", "done"}

Offering ==
  {"baseline", "ordinary", "preferred", "sifted", "net", "latest", "latest_constrained",
   "chain", "fallback", "choose"}

-----------------------------------------------------------------------------
(* Retaining a candidate.                                                  *)

Exact(d) == IF request.bundles THEN d.drawn ELSE d.raw

\* prepare_owned_candidate of an admitted drawing.
Candidate(d, primary) ==
  [raw |-> d.raw, quality |-> Exact(d).quality,
   layout |-> [measures |-> Exact(d), bundles |-> request.bundles, vetted |-> TRUE],
   primary |-> primary]

\* A plausible slip: crossings, bends and length decide alone.
BetterIgnoringTies(candidate, slot) ==
  slot # Void => RouteLess(candidate.raw.quality, slot.raw.quality)

\* retain_better_admitted_candidate
Better(candidate, slot) == slot # Void => CandidateLess(candidate.raw, slot.raw)

\* retain_owned_candidate skips a drawing whose routes are worse than the slot's.
Skipped(d, slot) == slot # Void /\ RouteLess(slot.raw.quality, d.raw.quality)

Retained(d, slot, primary) ==
  IF /\ ~Skipped(d, slot)
     /\ Admits(request, d)
     /\ Better(Candidate(d, primary), slot)
  THEN Candidate(d, primary) ELSE slot

Observed(d, slot) ==
  IF Skipped(d, slot) THEN admission ELSE admission \cup Recorded(request, d)

-----------------------------------------------------------------------------
(* Stages that offer candidates.                                           *)

\* One drawing of retain_routed_candidates, retained directly in best.
OfferToBest(d, primary) ==
  /\ left > 0
  /\ best' = Retained(d, best, primary)
  /\ admission' = Observed(d, best)
  /\ offered' = offered \cup {d}
  /\ left' = left - 1
  /\ UNCHANGED <<request, stage, local, primaryRanks, outcome, refining>>

\* One drawing retained in a slot of its own.
OfferToLocal(d, primary) ==
  /\ left > 0
  /\ local' = Retained(d, local, primary)
  /\ admission' = Observed(d, local)
  /\ left' = left - 1
  /\ UNCHANGED <<request, stage, best, primaryRanks, outcome, refining>>

Enter(next) == stage' = next /\ left' = MaxRouted

Proceed(next) ==
  /\ Enter(next)
  /\ UNCHANGED <<request, best, local, admission, primaryRanks, outcome, offered, refining>>

\* evaluate_candidate: a routing call returns its primary drawing at least.
Evaluate(next) ==
  \/ \E d \in Drawings : OfferToBest(d, TRUE)
  \/ left < MaxRouted /\ Proceed(next)

EvaluateIf(condition, next) ==
  \/ condition /\ Evaluate(next)
  \/ left = MaxRouted /\ Proceed(next)

EvaluateBaseline == stage = "baseline" /\ Evaluate("ordinary")

EvaluateOrdinary == stage = "ordinary" /\ Evaluate("preferred")

\* Only where preferred alignment improves on the ordinary one significantly.
EvaluatePreferred == stage = "preferred" /\ EvaluateIf(TRUE, "sifted")

EvaluateSifted == stage = "sifted" /\ EvaluateIf(request.effort = "max", "net")

EvaluateNetRepresentative == stage = "net" /\ EvaluateIf(TRUE, "latest")

\* The latest ranks cross less by a hundredth, and the request is unconstrained:
\* their primary drawing alone competes for best.
RetainLatest ==
  /\ stage = "latest"
  /\ ~request.clearance /\ ~request.spacing
  /\ \E d \in Drawings :
       /\ best' = Retained(d, best, FALSE)
       /\ admission' = Observed(d, best)
       /\ primaryRanks' = (primaryRanks /\ best' = best)
       /\ offered' = offered \cup {d}
  /\ Enter("chain")
  /\ UNCHANGED <<request, local, outcome, refining>>

EvaluateLatest ==
  \/ RetainLatest
  \/ stage = "latest" /\ (request.clearance \/ request.spacing) /\ Proceed("latest_constrained")
  \/ stage = "latest" /\ Proceed("chain")

(* Under a constraint every drawing on the latest ranks competes, first    *)
(* among themselves and the best of them with best.                        *)
RouteLatest ==
  /\ stage = "latest_constrained"
  /\ \E d \in Drawings :
       /\ OfferToLocal(d, FALSE)
       /\ offered' = offered \cup {d}

LatestWins == local # Void /\ Better(local, best)

MergeLatest ==
  /\ stage = "latest_constrained" /\ left < MaxRouted
  /\ IF LatestWins
       THEN best' = local /\ primaryRanks' = FALSE
       ELSE UNCHANGED <<best, primaryRanks>>
  /\ local' = Void
  /\ Enter("chain")
  /\ UNCHANGED <<request, admission, outcome, offered, refining>>

(* Not under "fast", and only while the straight chains fit the height of  *)
(* best.  A chain candidate may be refused for its cost, so it counts as   *)
(* offered for selection only when there is nothing to compare it with.    *)
RouteStraightChain ==
  /\ stage = "chain" /\ request.effort # "fast"
  /\ \E d \in Drawings :
       /\ OfferToLocal(d, TRUE)
       /\ offered' = IF best = Void THEN offered \cup {d} ELSE offered

\* straight_chain_cost_is_bounded but for the count of newly straight edges.
ChainAcceptable ==
  best # Void => /\ ChainCostBounded(local.raw, best.raw)
                 /\ ChainCostBounded(local.layout.measures, best.layout.measures)

\* A plausible slip: a chain that replaces a latest-rank candidate leaves its plan.
KeepChainOnOldRanks ==
  /\ local # Void /\ ChainAcceptable /\ Better(local, best)
  /\ best' = local /\ UNCHANGED primaryRanks

KeepChain ==
  /\ local # Void /\ ChainAcceptable /\ Better(local, best)
  /\ best' = local /\ primaryRanks' = TRUE

\* Too few newly straight edges refuse a chain, but not when it is the only one.
RefuseChain == (best # Void \/ local = Void) /\ UNCHANGED <<best, primaryRanks>>

MergeStraightChain ==
  /\ stage = "chain"
  /\ KeepChain \/ RefuseChain
  /\ local' = Void
  /\ Enter("fallback")
  /\ UNCHANGED <<request, admission, outcome, offered, refining>>

EvaluateFallback ==
  /\ stage = "fallback"
  /\ EvaluateIf(request.clearance /\ (best = Void \/ left < MaxRouted), "choose")

Fail ==
  /\ stage = "choose" /\ best = Void
  /\ outcome' = HardGeometryFailure(admission)
  /\ Enter("done")
  /\ UNCHANGED <<request, best, local, admission, primaryRanks, offered, refining>>

Choose ==
  /\ stage = "choose" /\ best # Void
  /\ selected' = best
  /\ Enter("demand")
  /\ UNCHANGED <<request, best, local, admission, primaryRanks, outcome, offered, baseline, pitched>>

-----------------------------------------------------------------------------
(* Stages that refine the selected layout.  Their rejections still reach   *)
(* admission_state in the code, where nothing reads them any more; the     *)
(* model leaves them out.                                                  *)

Refining == UNCHANGED <<request, left, best, local, admission, primaryRanks, offered>>

\* prepare_owned_candidate of a refinement's drawing replaces the selection.
ReplaceBy(d) == Admits(request, d) /\ selected' = Candidate(d, TRUE)

Keep == UNCHANGED selected

RefineDemandAware ==
  /\ stage = "demand"
  /\ \/ /\ request.effort = "max" /\ primaryRanks
        /\ \E d \in Drawings : DemandAwareAdmissible(selected.raw, d.raw) /\ ReplaceBy(d)
     \/ Keep
  /\ stage' = "fanout"
  /\ Refining /\ UNCHANGED <<outcome, baseline, pitched>>

(* A fanout candidate may take a twentieth more area and must be strictly  *)
(* better by crossings, bends and length.                                  *)
FanoutImproves(d) ==
  /\ ReplaceBy(d)
  /\ Within(Exact(d).area, selected.layout.measures.area, 105)
  /\ RouteLess(d.raw.quality, selected.raw.quality)

RefineOrdinaryFanout ==
  /\ stage = "fanout"
  /\ \/ /\ request.effort # "fast" /\ primaryRanks
        /\ \E d \in Drawings : FanoutImproves(d)
     \/ Keep
  /\ stage' = "regional"
  /\ Refining /\ UNCHANGED <<outcome, baseline, pitched>>

RefineRegionalFanout ==
  /\ stage = "regional"
  /\ \/ /\ request.effort = "max" /\ primaryRanks
        /\ \E d \in Drawings : FanoutImproves(d)
     \/ Keep
  /\ stage' = "pitch"
  /\ Refining /\ UNCHANGED <<outcome, baseline, pitched>>

FullFamilyPitch == request.areaFactor > 120 /\ request.lengthFactor > 110

Pitching == request.effort = "max" /\ primaryRanks /\ request.clearance

\* A plausible slip: the refinement does not note that it applied.
PitchUnnoticedBy(d) ==
  /\ ReplaceBy(d)
  /\ Within(Exact(d).area, selected.layout.measures.area, request.areaFactor)
  /\ UNCHANGED pitched

PitchBy(d) ==
  /\ ReplaceBy(d)
  /\ Within(Exact(d).area, selected.layout.measures.area, request.areaFactor)
  /\ pitched' = TRUE

RefineHorizontalPitch ==
  /\ stage = "pitch"
  /\ baseline' = IF Pitching THEN selected ELSE Void
  /\ \/ Pitching /\ FullFamilyPitch /\ \E d \in Drawings : PitchBy(d)
     \/ Keep /\ UNCHANGED pitched
  /\ stage' = "gap"
  /\ Refining /\ UNCHANGED outcome

RefinePitchedGap ==
  /\ stage = "gap"
  /\ \/ Pitching /\ \E d \in Drawings : PitchBy(d)
     \/ Keep /\ UNCHANGED pitched
  /\ stage' = "rollback"
  /\ Refining /\ UNCHANGED <<outcome, baseline>>

\* The two pitch refinements together must stay within the budgets.
CompositeInBudget ==
  CompositeAdmissible(baseline.quality, baseline.layout.measures.area,
                      selected.layout.measures.quality, selected.layout.measures.area,
                      request)

RollBackPitch ==
  /\ stage = "rollback"
  /\ selected' = IF pitched /\ baseline # Void /\ ~CompositeInBudget THEN baseline ELSE selected
  /\ stage' = "rebundle"
  /\ Refining /\ UNCHANGED <<outcome, baseline, pitched>>

(* refine_selected_layout: the raw layout itself where it does not apply,  *)
(* and otherwise bundles drawn over the raw layout with interior           *)
(* collectors and strict crossings allowed; its own checks are narrower    *)
(* than the hard geometry contract.                                        *)
RefinedLayouts ==
  IF ~request.bundles \/ request.spacing \/ ~request.fewBundles
    THEN {[measures |-> selected.raw, bundles |-> FALSE,
           vetted |-> ~request.bundles /\ selected.layout.vetted]}
    ELSE {[measures |-> d.drawn, bundles |-> TRUE, vetted |-> FALSE] : d \in Drawings}

RefinementWins(layout) ==
  LET q == layout.measures.quality
  IN  /\ Within(layout.measures.area, selected.layout.measures.area, 105)
      /\ q.crossings <= selected.quality.crossings
      /\ q.bends < selected.quality.bends
      /\ Within(q.length, selected.quality.length, request.lengthFactor)

Become(layout) ==
  selected' = [selected EXCEPT !.quality = layout.measures.quality, !.layout = layout]

RefineBundles ==
  /\ stage = "rebundle"
  /\ \/ /\ request.effort # "fast"
        /\ \E layout \in RefinedLayouts : RefinementWins(layout) /\ Become(layout)
     \/ Keep
  /\ stage' = "tracks"
  /\ Refining /\ UNCHANGED <<outcome, baseline, pitched>>

\* selected_layout_vertical_track_spacing_candidate: cuts widened in the layout
\* itself, whose bundles stay; the result is measured and vetted again.
Spread(d) ==
  [measures |-> d.drawn, bundles |-> selected.layout.bundles,
   vetted |-> MeetsContract(request, d)]

Vetted(layout) == layout.vetted

RefineTracks ==
  /\ stage = "tracks"
  /\ \/ /\ request.effort = "max"
        /\ \E d \in Drawings :
             /\ TrackSpacingAdmissible(selected.quality, selected.layout.measures.area, d.drawn, request)
             /\ Vetted(Spread(d))
             /\ Become(Spread(d))
     \/ Keep
  /\ outcome' = "returned"
  /\ stage' = "done"
  /\ Refining /\ UNCHANGED <<baseline, pitched>>

-----------------------------------------------------------------------------

Init ==
  /\ request \in Requests
  /\ stage = "baseline" /\ left = MaxRouted
  /\ best = Void /\ local = Void /\ admission = {} /\ primaryRanks = TRUE
  /\ selected = Void /\ baseline = Void /\ pitched = FALSE
  /\ outcome = "running" /\ offered = {}

Select ==
  \/ EvaluateBaseline \/ EvaluateOrdinary \/ EvaluatePreferred \/ EvaluateSifted
  \/ EvaluateNetRepresentative \/ EvaluateLatest \/ RouteLatest \/ MergeLatest
  \/ RouteStraightChain \/ MergeStraightChain \/ EvaluateFallback \/ Fail \/ Choose

Refine ==
  \/ RefineDemandAware \/ RefineOrdinaryFanout \/ RefineRegionalFanout
  \/ RefineHorizontalPitch \/ RefinePitchedGap \/ RollBackPitch
  \/ RefineBundles \/ RefineTracks

Next == Select \/ Refine

Spec == Init /\ [][Next]_vars

\* The call runs on one thread and every stage's work is bounded.
FairSpec == Spec /\ WF_vars(Next)

-----------------------------------------------------------------------------
(* Properties                                                              *)

(* Types: candidates are admitted candidates, the flags are flags, and the *)
(* call has ended exactly when the last stage is done.                     *)
TypeOK ==
  /\ request \in Requests
  /\ stage \in Stages
  /\ left \in 0..MaxRouted
  /\ best \in AdmittedCandidate \cup {Void}
  /\ local \in AdmittedCandidate \cup {Void}
  /\ admission \subseteq Flags
  /\ primaryRanks \in BOOLEAN
  /\ selected \in AdmittedCandidate \cup {Void}
  /\ baseline \in AdmittedCandidate \cup {Void}
  /\ pitched \in BOOLEAN
  /\ outcome \in Failures \cup {"running", "returned"}
  /\ outcome = "running" <=> stage # "done"
  /\ offered \subseteq Drawings

(* Over all stages, and whichever slot a drawing competed in first, the    *)
(* candidate taken is one no admitted drawing beats by crossings, bends,   *)
(* length, bend concentration and area: neither the shortcut that skips    *)
(* drawings unprepared nor the separate slot of the latest ranks loses a   *)
(* better one (lib.rs, retain_owned_candidate and layout_indexed).         *)
BestIsLeast ==
  stage = "choose" =>
    \A d \in offered : Admits(request, d) => best # Void /\ ~CandidateLess(d.raw, best.raw)

(* The call fails only when every drawing it was offered was inadmissible: *)
(* an admitted straight chain or latest-rank drawing is never dropped for  *)
(* want of something to compare it with.                                   *)
FailsOnlyUnadmitted ==
  outcome \in Failures => \A d \in offered : ~Admits(request, d)

(* The reason a failing call reports is one for which some drawing of this *)
(* very call was rejected, so it also names a constraint the request       *)
(* really made; and it says that contact, wire spacing or clearance cannot *)
(* be satisfied only if no limit cut short the examination of any drawing  *)
(* (hard_geometry_failure).                                                *)
ErrorIsTruthful ==
  outcome \in Failures =>
    /\ \E d \in offered : Rejection(request, d) = outcome
    /\ outcome \in {"contact_rejected", "parallel_spacing_rejected", "clearance_violated"} =>
         \A d \in offered : Rejection(request, d) \notin Range(ReportedFirst)

(* Whatever refinements replaced, rolled back or kept, the quality the     *)
(* next comparison reads is that of the layout that would be returned (the *)
(* debug assertion at the end of layout_indexed).                          *)
QualityDescribesLayout ==
  selected # Void => selected.quality = selected.layout.measures.quality

(* A layout returned for a request without boundary bundles passed the     *)
(* contact, clearance and spacing checks in its final form, also when a    *)
(* refinement or a rollback produced it.                                   *)
UnbundledContractKept ==
  outcome = "returned" /\ ~request.bundles => selected.layout.vetted

(* A layout returned without boundary bundles was vetted as it is; where   *)
(* the bundle refinement applies, the bundles asked for are drawn.         *)
ReturnedAsAsked ==
  /\ UnbundledContractKept
  /\ outcome = "returned" /\ request.bundles /\ request.fewBundles /\ ~request.spacing =>
       selected.layout.bundles

(* The routing plan of the primary ranks refines a candidate only if that  *)
(* candidate was placed on the primary ranks.                              *)
PlanMatchesBest == best # Void => (primaryRanks <=> best.primary)

(* With the default effort and no bundles no refinement may return worse   *)
(* routes than the candidate selected.                                     *)
RefinementNeverWorsens ==
  outcome = "returned" /\ request.effort # "max" /\ ~request.bundles =>
    ~RouteLess(best.raw.quality, selected.quality)

(* After the rollback the two pitch refinements together have spent no     *)
(* more than one budget over the layout before the first of them.          *)
PitchWithinBudget == stage = "rebundle" /\ baseline # Void => CompositeInBudget


(* A call fails only for want of an admitted drawing, and says why         *)
(* (layout_indexed, hard_geometry_failure).                                *)
FailuresAreTruthful == FailsOnlyUnadmitted /\ ErrorIsTruthful

(* What is kept of the chosen layout stays true of it: its quality, the    *)
(* ranks it was placed on, and, when it is returned, the checks it passed  *)
(* and the bundles it was drawn with (best, primary_ranks and the four     *)
(* variables every refinement replaces together in layout_indexed).        *)
SelectedIsAsDescribed == QualityDescribesLayout /\ PlanMatchesBest /\ ReturnedAsAsked

(* Refinements spend no more than they may, alone or one after another     *)
(* (ordinary and regional fanout, the two pitches and their rollback).     *)
RefinementsKeepWithinBounds == RefinementNeverWorsens /\ PitchWithinBudget

(* During selection best is replaced only by a strictly better candidate,  *)
(* so the earlier of two equal ones wins and the result does not depend on *)
(* what comes after it.                                                    *)
BestOnlyImproves ==
  [][best # Void /\ best' # best => best' # Void /\ CandidateLess(best'.raw, best.raw)]_vars

(* USAGE.md: a positive clearance or wire spacing is never silently        *)
(* weakened; so every returned layout passed the hard geometry contract.   *)
NeverWeakened == outcome = "returned" => selected.layout.vetted

(* lib.rs: max_quality_area_factor is the area multiple a quality          *)
(* refinement may consume.  No refining step exceeds it.                   *)
AreaBudgetKept ==
  [][selected # Void =>
       Within(selected'.layout.measures.area, selected.layout.measures.area, request.areaFactor)]_vars
=============================================================================
