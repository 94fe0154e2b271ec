-------------------------- MODULE Candidates_proofs -------------------------
(* Which layout a call answers with, for every request and everything the  *)
(* router may return. The first part is about the selection: the order of  *)
(* candidates is a strict weak order, and with it no admitted drawing is   *)
(* lost, a failure is never premature and what is returned is measured     *)
(* and, without bundles, vetted; then the reason of a failure, and what    *)
(* the refinements may cost together. The second part is about the         *)
(* drawings one call of the router tries: what is taken over between them  *)
(* is true of the drawing it is taken over to, no drawing is lost where    *)
(* all are asked for, and none is chosen that is worse than the plain one. *)
EXTENDS LayoutSelection, RouteFamilies, FiniteSetTheorems, TLAPS

-----------------------------------------------------------------------------
(* The order of candidates.                                                *)

(* Two qualities are comparable unless they are equal: route_quality_cmp   *)
(* is a total order.                                                       *)
LEMMA RouteLessTotal ==
  ASSUME NEW p \in Quality, NEW q \in Quality
  PROVE  RouteLess(p, q) \/ p = q \/ RouteLess(q, p)
<1>1. CASE p.crossings = q.crossings /\ p.bends = q.bends /\ p.length = q.length
  <2>1. p = q
    BY <1>1 DEF Quality
  <2>2. QED
    BY <2>1
<1>2. CASE ~(p.crossings = q.crossings /\ p.bends = q.bends /\ p.length = q.length)
  BY <1>2 DEF Quality, RouteLess
<1>3. QED
  BY <1>1, <1>2

(* route_quality_cmp never orders two qualities both ways.                 *)
LEMMA RouteLessAsymmetric ==
  ASSUME NEW p \in Quality, NEW q \in Quality, RouteLess(p, q)
  PROVE  ~RouteLess(q, p) /\ p # q
BY DEF Quality, RouteLess

LEMMA RouteLessTransitive ==
  ASSUME NEW p \in Quality, NEW q \in Quality, NEW r \in Quality,
         RouteLess(p, q), RouteLess(q, r)
  PROVE  RouteLess(p, r)
BY DEF Quality, RouteLess

(* A candidate whose routes are worse does not beat the one it is skipped  *)
(* for: the shortcut of retain_owned_candidate loses nothing.              *)
LEMMA SkippedIsNotLess ==
  ASSUME NEW m \in Measures, NEW n \in Measures, RouteLess(n.quality, m.quality)
  PROVE  ~CandidateLess(m, n)
<1>1. m.quality \in Quality /\ n.quality \in Quality
  BY DEF Measures
<1>2. ~RouteLess(m.quality, n.quality) /\ m.quality # n.quality
  BY <1>1, RouteLessAsymmetric
<1>3. QED
  BY <1>2 DEF CandidateLess

LEMMA CandidateLessIrreflexive ==
  ASSUME NEW m \in Measures
  PROVE  ~CandidateLess(m, m)
<1>1. m.quality \in Quality /\ m.concentration \in Nat /\ m.area \in Nat
  BY DEF Measures
<1>2. ~RouteLess(m.quality, m.quality)
  BY <1>1, RouteLessAsymmetric
<1>3. QED
  BY <1>1, <1>2 DEF CandidateLess

(* candidate_quality_cmp never orders two candidates both ways, so no      *)
(* candidate beats itself either.                                          *)
LEMMA CandidateLessAsymmetric ==
  ASSUME NEW m \in Measures, NEW n \in Measures, CandidateLess(m, n)
  PROVE  ~CandidateLess(n, m)
<1>1. /\ m.quality \in Quality /\ m.concentration \in Nat /\ m.area \in Nat
      /\ n.quality \in Quality /\ n.concentration \in Nat /\ n.area \in Nat
  BY DEF Measures
<1>2. CASE RouteLess(m.quality, n.quality)
  BY <1>1, <1>2, RouteLessAsymmetric DEF CandidateLess
<1>3. CASE m.quality = n.quality
  <2>1. ~RouteLess(m.quality, n.quality) /\ ~RouteLess(n.quality, m.quality)
    BY <1>1, <1>3, RouteLessAsymmetric
  <2>2. QED
    BY <1>1, <1>3, <2>1 DEF CandidateLess
<1>4. QED
  BY <1>2, <1>3 DEF CandidateLess

(* If a does not beat c and c does not beat b then a does not beat b:      *)
(* candidates tie only where the order cannot tell them apart, so the best *)
(* of a group may stand for the whole group.                               *)
LEMMA NotLessTransitive ==
  ASSUME NEW a \in Measures, NEW b \in Measures, NEW c \in Measures,
         ~CandidateLess(a, c), ~CandidateLess(c, b)
  PROVE  ~CandidateLess(a, b)
<1>1. /\ a.quality \in Quality /\ a.concentration \in Nat /\ a.area \in Nat
      /\ b.quality \in Quality /\ b.concentration \in Nat /\ b.area \in Nat
      /\ c.quality \in Quality /\ c.concentration \in Nat /\ c.area \in Nat
  BY DEF Measures
<1>2. c.quality = a.quality \/ RouteLess(c.quality, a.quality)
  BY <1>1, RouteLessTotal DEF CandidateLess
<1>3. b.quality = c.quality \/ RouteLess(b.quality, c.quality)
  BY <1>1, RouteLessTotal DEF CandidateLess
<1>4. CASE a.quality = c.quality /\ b.quality = c.quality
  <2>1. ~RouteLess(a.quality, b.quality)
    BY <1>1, <1>4, RouteLessAsymmetric
  <2>2. QED
    BY <1>1, <1>4, <2>1 DEF CandidateLess
<1>5. CASE ~(a.quality = c.quality /\ b.quality = c.quality)
  <2>1. RouteLess(b.quality, a.quality)
    BY <1>1, <1>2, <1>3, <1>5, RouteLessTransitive
  <2>2. QED
    BY <2>1, SkippedIsNotLess
<1>6. QED
  BY <1>4, <1>5

-----------------------------------------------------------------------------
(* One drawing offered to a slot.                                          *)

Slot == AdmittedCandidate \cup {Void}

\* A slot holds a candidate that the drawing d does not beat.
Kept(slot, d) == slot # Void /\ ~CandidateLess(d.raw, slot.raw)

\* What the code retains with a candidate is what its layout is.
Sound(slot) ==
  slot # Void => /\ slot.quality = slot.layout.measures.quality
                 /\ ~request.bundles => slot.layout.vetted

LEMMA CandidateType ==
  ASSUME request \in Request, NEW d \in Drawing, NEW p \in BOOLEAN
  PROVE  /\ Candidate(d, p) \in AdmittedCandidate
         /\ Candidate(d, p) # Void
         /\ Sound(Candidate(d, p))
         /\ Candidate(d, p).raw = d.raw
         /\ Candidate(d, p).primary = p
<1>1. d.raw \in Measures /\ d.drawn \in Measures /\ request.bundles \in BOOLEAN
  BY DEF Drawing, Request
<1>2. Exact(d) \in Measures /\ Exact(d).quality \in Quality
  BY <1>1 DEF Exact, Measures
<1>3. Candidate(d, p) \in AdmittedCandidate
  BY <1>1, <1>2 DEF Candidate, AdmittedCandidate, Layout
<1>4. Candidate(d, p) # Void
  BY DEF Candidate, Void
<1>5. QED
  BY <1>3, <1>4 DEF Candidate, Sound

(* Offering d to a slot keeps whatever the slot held against every drawing *)
(* it was kept against, and keeps d's own claim when d is admissible.      *)
LEMMA RetainedKeeps ==
  ASSUME request \in Request, NEW d \in Drawing, NEW p \in BOOLEAN,
         NEW slot \in Slot, NEW new, new = Retained(d, slot, p)
  PROVE  /\ new \in Slot
         /\ Sound(slot) => Sound(new)
         /\ new # slot => new # Void /\ new.primary = p
         /\ new # slot /\ slot # Void => CandidateLess(new.raw, slot.raw)
         /\ Admits(request, d) => Kept(new, d)
         /\ \A e \in Drawing : Kept(slot, e) => Kept(new, e)
<1> DEFINE c == Candidate(d, p)
<1>1. /\ c \in AdmittedCandidate /\ c # Void /\ Sound(c) /\ c.raw = d.raw /\ c.primary = p
  BY CandidateType
<1> HIDE DEF c
<1>2. new = c \/ new = slot
  BY DEF Retained, c
<1>3. d.raw \in Measures
  BY DEF Drawing
<1>4. slot # Void => slot.raw \in Measures
  BY DEF Slot, AdmittedCandidate
<1>5. new # slot => new = c /\ Better(c, slot)
  BY DEF Retained, c
<1>6. new # slot /\ slot # Void => CandidateLess(d.raw, slot.raw)
  BY <1>1, <1>5 DEF Better
<1>7. ASSUME Admits(request, d) PROVE Kept(new, d)
  <2>1. CASE new = c
    BY <1>1, <1>3, <2>1, CandidateLessIrreflexive DEF Kept
  <2>2. CASE new = slot /\ new # c
    <3>1. Skipped(d, slot) \/ ~Better(c, slot)
      BY <1>7, <2>2 DEF Retained, c
    <3>2. CASE Skipped(d, slot)
      BY <1>3, <1>4, <2>2, <3>2, SkippedIsNotLess DEF Skipped, Kept
    <3>3. CASE ~Better(c, slot)
      BY <1>1, <2>2, <3>3 DEF Better, Kept
    <3>4. QED
      BY <3>1, <3>2, <3>3
  <2>3. QED
    BY <1>2, <2>1, <2>2
<1>8. ASSUME NEW e \in Drawing, Kept(slot, e) PROVE Kept(new, e)
  <2>1. slot # Void /\ ~CandidateLess(e.raw, slot.raw) /\ e.raw \in Measures
    BY <1>8 DEF Kept, Drawing
  <2>2. CASE new = slot
    BY <1>8, <2>2
  <2>3. CASE new # slot
    <3>1. CandidateLess(d.raw, slot.raw)
      BY <1>6, <2>1, <2>3
    <3>2. ~CandidateLess(slot.raw, d.raw)
      BY <1>3, <1>4, <2>1, <3>1, CandidateLessAsymmetric
    <3>3. ~CandidateLess(e.raw, d.raw)
      BY <1>3, <1>4, <2>1, <3>2, NotLessTransitive
    <3>4. QED
      BY <1>1, <1>5, <2>3, <3>3 DEF Kept
  <2>4. QED
    BY <2>2, <2>3
<1>9. /\ new \in Slot
      /\ Sound(slot) => Sound(new)
      /\ new # slot => new # Void /\ new.primary = p
  BY <1>1, <1>2 DEF Slot
<1>10. new # slot /\ slot # Void => CandidateLess(new.raw, slot.raw)
  BY <1>1, <1>2, <1>6
<1>11. QED
  BY <1>7, <1>8, <1>9, <1>10

(* The reason a failing call reports is one of the reasons there are.      *)
LEMMA FailureType ==
  ASSUME NEW flags \in SUBSET Flags
  PROVE  HardGeometryFailure(flags) \in Failures
<1> DEFINE I == {i \in 1..Len(ReportedFirst) : ReportedFirst[i] \in flags}
           first == SelectInSeq(ReportedFirst, LAMBDA f : f \in flags)
<1>1. Len(ReportedFirst) = 7
  BY DEF ReportedFirst
<1>2. \A i \in 1..7 : ReportedFirst[i] \in Failures
  BY DEF ReportedFirst, Failures, Flags, BundleOutcomes, ContactOutcomes, SpacingOutcomes
<1>3. first \in I \cup {0}
  <2>1. first = IF I # {} THEN Min(I) ELSE 0
    BY DEF SelectInSeq
  <2>2. ASSUME I # {} PROVE \E i \in I : \A j \in I : i <= j
    BY <1>1, <2>2
  <2>3. I # {} => Min(I) \in I
    BY <2>2 DEF Min
  <2>4. QED
    BY <2>1, <2>3
<1>4. first # 0 => ReportedFirst[first] \in Failures
  BY <1>1, <1>2, <1>3
<1>5. {"contact_rejected", "parallel_spacing_rejected", "clearance_violated"} \subseteq Failures
  BY DEF Failures, Flags, BundleOutcomes, ContactOutcomes, SpacingOutcomes
<1>6. QED
  BY <1>4, <1>5 DEF HardGeometryFailure

-----------------------------------------------------------------------------
(* The inductive invariant.                                                *)

\* Which slots are in use at which stage, and how a call ends.
Phases ==
  /\ stage \in Offering => selected = Void /\ baseline = Void
  /\ stage \notin Offering =>
       \/ stage = "done" /\ outcome \in Failures /\ best = Void /\ selected = Void /\ baseline = Void
       \/ best # Void /\ selected # Void /\ outcome \in {"running", "returned"}
  /\ stage \notin {"latest_constrained", "chain"} => local = Void
  /\ outcome \in Failures => best = Void /\ stage = "done"

AllSound == Sound(best) /\ Sound(local) /\ Sound(selected) /\ Sound(baseline)

\* best_uses_primary_ranks tells where best was placed, and so does the stage
\* for the candidate a stage keeps apart.
BeforeLatestWins ==
  {"baseline", "ordinary", "preferred", "sifted", "net", "latest", "latest_constrained"}

Lead ==
  /\ best # Void => (primaryRanks <=> best.primary)
  /\ best = Void => primaryRanks
  /\ local # Void => (local.primary <=> stage = "chain")
  /\ stage \in BeforeLatestWins => primaryRanks
  /\ stage = "fallback" /\ left < MaxRouted => primaryRanks

\* Every admissible drawing offered so far is beaten by no more than best or local.
NothingLost ==
  stage \in Offering =>
    \A d \in offered : Admits(request, d) =>
      /\ Kept(best, d) \/ Kept(local, d)
      /\ stage = "chain" /\ best # Void => Kept(best, d)

FailureEarned == outcome \in Failures => \A d \in offered : ~Admits(request, d)

IInv == TypeOK /\ Phases /\ AllSound /\ Lead /\ NothingLost /\ FailureEarned

-----------------------------------------------------------------------------
(* Steps of the selection.                                                 *)

LEMMA InitIInv == Init => IInv
<1> SUFFICES ASSUME Init PROVE IInv
  OBVIOUS
<1> USE DEF Init
<1>1. TypeOK
  <2>1. outcome \in Failures \cup {"running", "returned"} /\ (outcome = "running" <=> stage # "done")
    OBVIOUS
  <2>2. left \in 0..MaxRouted
    BY MaxRoutedAssumption
  <2>3. stage \in Stages
    BY DEF Stages
  <2>4. QED
    BY <2>1, <2>2, <2>3 DEF TypeOK
<1>2. Phases /\ FailureEarned
  BY DEF Phases, FailureEarned, Offering, Failures, Flags, BundleOutcomes, ContactOutcomes,
         SpacingOutcomes
<1>3. AllSound /\ Lead /\ NothingLost
  BY DEF AllSound, Sound, Lead, NothingLost
<1>4. QED
  BY <1>1, <1>2, <1>3 DEF IInv

\* No failure is called "running" or "returned".
LEMMA FailuresApart == "running" \notin Failures /\ "returned" \notin Failures
BY DEF Failures, Flags, BundleOutcomes, ContactOutcomes, SpacingOutcomes

\* The flags a drawing leaves are flags.
LEMMA ObservedType ==
  ASSUME admission \subseteq Flags, request \in Request, NEW d \in Drawing, NEW slot
  PROVE  Observed(d, slot) \subseteq Flags
<1>1. Satisfied(request, d) \subseteq Flags
  BY DEF Satisfied, Flags
<1>2. Rejection(request, d) \in
        BundleOutcomes \cup ContactOutcomes \cup ClearanceOutcomes \cup SpacingOutcomes
  BY DEF Rejection, BundleOutcome, ContactOutcome, ClearanceOutcome, SpacingOutcome,
         Drawing, BundleOutcomes, ContactOutcomes, ClearanceOutcomes, SpacingOutcomes
<1>3. {Rejection(request, d)} \ {"ok", "clearance_violated"} \subseteq Flags
  BY <1>2 DEF Flags, BundleOutcomes, ContactOutcomes, ClearanceOutcomes, SpacingOutcomes
<1>4. QED
  BY <1>1, <1>3 DEF Observed, Recorded

(* Offering a drawing on the primary ranks straight to best.               *)
LEMMA OfferToBestKeeps ==
  ASSUME IInv, NEW d \in Drawings, OfferToBest(d, TRUE),
         stage \in Offering \ {"latest_constrained", "chain", "choose"}, primaryRanks,
         stage = "fallback" => best = Void \/ left < MaxRouted
  PROVE  IInv'
<1>1. d \in Drawing /\ request \in Request /\ best \in Slot /\ admission \subseteq Flags
  BY DrawingsAssumption, RequestsAssumption DEF IInv, TypeOK, Slot
<1>2. /\ best' \in Slot
      /\ Sound(best) => Sound(best')
      /\ best' # best => best' # Void /\ best'.primary = TRUE
      /\ Admits(request, d) => Kept(best', d)
      /\ \A e \in Drawing : Kept(best, e) => Kept(best', e)
  BY <1>1, RetainedKeeps DEF OfferToBest
<1>3. /\ request' = request /\ stage' = stage /\ local' = local /\ primaryRanks' = primaryRanks
      /\ outcome' = outcome /\ selected' = selected /\ baseline' = baseline /\ pitched' = pitched
      /\ offered' = offered \cup {d} /\ left' = left - 1 /\ left > 0
      /\ admission' = Observed(d, best)
  BY DEF OfferToBest, refining
<1>4. admission' \subseteq Flags
  BY <1>1, <1>3, ObservedType
<1>5. TypeOK'
  BY <1>1, <1>2, <1>3, <1>4, MaxRoutedAssumption DEF IInv, TypeOK, Slot
<1>6. outcome = "running" /\ local = Void
  BY FailuresApart DEF IInv, Phases, TypeOK, Offering
<1>7. Phases' /\ FailureEarned'
  BY <1>2, <1>3, <1>6, FailuresApart DEF IInv, Phases, FailureEarned
<1>8. AllSound'
  BY <1>2, <1>3 DEF IInv, AllSound, Sound
<1>9. NothingLost'
  <2>1. SUFFICES ASSUME NEW e \in offered', Admits(request, e)
                 PROVE  Kept(best', e)
    BY <1>3 DEF NothingLost, Kept
  <2>2. CASE e = d
    BY <1>2, <2>1, <2>2
  <2>3. CASE e \in offered
    <3>1. e \in Drawing /\ (Kept(best, e) \/ Kept(local, e))
      BY <2>1, <2>3, DrawingsAssumption DEF IInv, TypeOK, NothingLost
    <3>2. QED
      BY <1>2, <1>6, <3>1 DEF Kept
  <2>4. QED
    BY <1>3, <2>1, <2>2, <2>3
<1>10. Lead'
  <2>1. best' # Void => best'.primary
    BY <1>2, <1>3 DEF IInv, Lead
  <2>2. QED
    BY <1>3, <1>6, <2>1 DEF Lead
<1>11. QED
  BY <1>5, <1>7, <1>8, <1>9, <1>10 DEF IInv

(* Offering a drawing to the slot of the latest ranks or of the chains.    *)
LEMMA OfferToLocalKeeps ==
  ASSUME IInv, NEW d \in Drawings, NEW p \in BOOLEAN, OfferToLocal(d, p),
         \/ stage = "latest_constrained" /\ p = FALSE /\ offered' = offered \cup {d}
         \/ /\ stage = "chain" /\ p = TRUE
            /\ offered' = IF best = Void THEN offered \cup {d} ELSE offered
  PROVE  IInv'
<1>1. d \in Drawing /\ request \in Request /\ local \in Slot /\ admission \subseteq Flags
  BY DrawingsAssumption, RequestsAssumption DEF IInv, TypeOK, Slot
<1>2. /\ local' \in Slot
      /\ Sound(local) => Sound(local')
      /\ local' # local => local' # Void /\ local'.primary = p
      /\ Admits(request, d) => Kept(local', d)
      /\ \A e \in Drawing : Kept(local, e) => Kept(local', e)
  BY <1>1, RetainedKeeps DEF OfferToLocal
<1>3. /\ request' = request /\ stage' = stage /\ best' = best /\ primaryRanks' = primaryRanks
      /\ outcome' = outcome /\ selected' = selected /\ baseline' = baseline /\ pitched' = pitched
      /\ left' = left - 1 /\ left > 0 /\ admission' = Observed(d, local)
  BY DEF OfferToLocal, refining
<1>4. admission' \subseteq Flags
  BY <1>1, <1>3, ObservedType
<1>5. offered' \subseteq offered \cup {d}
  OBVIOUS
<1>6. TypeOK'
  BY <1>1, <1>2, <1>3, <1>4, <1>5, MaxRoutedAssumption DEF IInv, TypeOK, Slot
<1>7. Phases' /\ FailureEarned'
  BY <1>3, <1>5 DEF IInv, Phases, FailureEarned, Offering
<1>8. AllSound'
  BY <1>2, <1>3 DEF IInv, AllSound, Sound
<1>9. NothingLost'
  <2>1. SUFFICES ASSUME NEW e \in offered', Admits(request, e)
                 PROVE  /\ Kept(best, e) \/ Kept(local', e)
                        /\ stage = "chain" /\ best # Void => Kept(best, e)
    BY <1>3 DEF NothingLost, Kept
  <2>2. CASE e \in offered
    <3>1. e \in Drawing
      BY <2>2, DrawingsAssumption DEF IInv, TypeOK
    <3>2. /\ Kept(best, e) \/ Kept(local, e)
          /\ stage = "chain" /\ best # Void => Kept(best, e)
      BY <2>1, <2>2 DEF IInv, NothingLost, Offering
    <3>3. QED
      BY <1>2, <3>1, <3>2
  <2>3. CASE e \notin offered
    <3>1. e = d /\ ~(stage = "chain" /\ best # Void)
      BY <2>1, <2>3
    <3>2. QED
      BY <1>2, <2>1, <3>1
  <2>4. QED
    BY <2>2, <2>3
<1>10. Lead'
  <2>1. local' # Void => (local'.primary <=> stage = "chain")
    BY <1>2 DEF IInv, Lead
  <2>2. QED
    BY <1>3, <2>1 DEF IInv, Lead
<1>11. QED
  BY <1>6, <1>7, <1>8, <1>9, <1>10 DEF IInv

(* Going on to the next offering stage.                                    *)
LEMMA ProceedKeeps ==
  ASSUME IInv, NEW next \in Offering, Proceed(next), stage \in Offering, local = Void,
         next \in BeforeLatestWins => stage \in BeforeLatestWins
  PROVE  IInv'
<1>1. /\ request' = request /\ stage' = next /\ best' = best /\ primaryRanks' = primaryRanks
      /\ outcome' = outcome /\ selected' = selected /\ baseline' = baseline /\ pitched' = pitched
      /\ left' = MaxRouted /\ admission' = admission /\ local' = Void /\ offered' = offered
  BY DEF Proceed, Enter, refining
<1>2. next \in Stages \ {"done"} /\ stage # "done"
  BY DEF Offering, Stages
<1>3. TypeOK'
  BY <1>1, <1>2, MaxRoutedAssumption DEF IInv, TypeOK
<1>4. Phases' /\ FailureEarned'
  BY <1>1, <1>2 DEF IInv, Phases, FailureEarned
<1>5. AllSound'
  BY <1>1 DEF IInv, AllSound, Sound
<1>6. Lead'
  BY <1>1, MaxRoutedAssumption DEF IInv, Lead
<1>7. NothingLost'
  BY <1>1 DEF IInv, NothingLost, Kept
<1>8. QED
  BY <1>3, <1>4, <1>5, <1>6, <1>7 DEF IInv

\* The stages whose routing call competes for best directly.
LEMMA EvaluateStagesKeep ==
  ASSUME IInv,
         \/ EvaluateBaseline \/ EvaluateOrdinary \/ EvaluatePreferred \/ EvaluateSifted
         \/ EvaluateNetRepresentative \/ EvaluateFallback
  PROVE  IInv'
<1>1. /\ stage \in Offering \ {"latest_constrained", "chain", "choose"} /\ local = Void
      /\ stage # "fallback" => stage \in BeforeLatestWins
  BY DEF IInv, Phases, EvaluateBaseline, EvaluateOrdinary, EvaluatePreferred, EvaluateSifted,
         EvaluateNetRepresentative, EvaluateFallback, Offering, BeforeLatestWins
<1>2. CASE \E d \in Drawings : OfferToBest(d, TRUE) /\ (stage = "fallback" => best = Void \/ left < MaxRouted)
  <2>1. primaryRanks
    BY <1>1, <1>2 DEF IInv, Lead
  <2>2. QED
    BY <1>1, <1>2, <2>1, OfferToBestKeeps
<1>3. CASE \E next \in Offering : Proceed(next) /\ (next \in BeforeLatestWins => stage \in BeforeLatestWins)
  BY <1>1, <1>3, ProceedKeeps
<1>4. \/ \E d \in Drawings : OfferToBest(d, TRUE) /\ (stage = "fallback" => best = Void \/ left < MaxRouted)
      \/ \E next \in Offering : Proceed(next) /\ (next \in BeforeLatestWins => stage \in BeforeLatestWins)
  BY DEF EvaluateBaseline, EvaluateOrdinary, EvaluatePreferred, EvaluateSifted,
         EvaluateNetRepresentative, EvaluateFallback, EvaluateIf, Evaluate, Offering,
         BeforeLatestWins
<1>5. QED
  BY <1>2, <1>3, <1>4

(* The latest ranks' primary drawing competes for best directly.           *)
LEMMA RetainLatestKeeps ==
  ASSUME IInv, RetainLatest
  PROVE  IInv'
<1>1. PICK d \in Drawings :
        /\ best' = Retained(d, best, FALSE)
        /\ admission' = Observed(d, best)
        /\ primaryRanks' = (primaryRanks /\ best' = best)
        /\ offered' = offered \cup {d}
  BY DEF RetainLatest
<1>2. d \in Drawing /\ request \in Request /\ best \in Slot /\ admission \subseteq Flags
  BY DrawingsAssumption, RequestsAssumption DEF IInv, TypeOK, Slot
<1>3. /\ best' \in Slot
      /\ Sound(best) => Sound(best')
      /\ best' # best => best' # Void /\ best'.primary = FALSE
      /\ Admits(request, d) => Kept(best', d)
      /\ \A e \in Drawing : Kept(best, e) => Kept(best', e)
  BY <1>1, <1>2, RetainedKeeps
<1>4. /\ stage = "latest" /\ stage' = "chain" /\ left' = MaxRouted
      /\ request' = request /\ local' = local /\ outcome' = outcome
      /\ selected' = selected /\ baseline' = baseline /\ pitched' = pitched
  BY DEF RetainLatest, Enter, refining
<1>5. local = Void /\ outcome = "running" /\ primaryRanks
  BY <1>4, FailuresApart DEF IInv, Phases, TypeOK, Lead, BeforeLatestWins
<1>6. admission' \subseteq Flags
  BY <1>1, <1>2, ObservedType
<1>7. primaryRanks' \in BOOLEAN /\ offered' \subseteq Drawings
  BY <1>1 DEF IInv, TypeOK
<1>8. TypeOK'
  BY <1>3, <1>4, <1>6, <1>7, MaxRoutedAssumption DEF IInv, TypeOK, Slot, Stages
<1>9. Phases' /\ FailureEarned'
  BY <1>3, <1>4, <1>5, FailuresApart DEF IInv, Phases, FailureEarned, Offering
<1>10. AllSound'
  BY <1>3, <1>4 DEF IInv, AllSound, Sound
<1>11. Lead'
  <2>1. CASE best' = best
    <3>1. primaryRanks'
      BY <1>1, <1>5, <2>1
    <3>2. QED
      BY <1>4, <1>5, <2>1, <3>1 DEF IInv, Lead, BeforeLatestWins
  <2>2. CASE best' # best
    <3>1. ~primaryRanks'
      BY <1>1, <2>2
    <3>2. QED
      BY <1>3, <1>4, <1>5, <2>2, <3>1 DEF Lead, BeforeLatestWins
  <2>3. QED
    BY <2>1, <2>2
<1>12. NothingLost'
  <2>1. SUFFICES ASSUME NEW e \in offered', Admits(request, e)
                 PROVE  Kept(best', e)
    BY <1>4 DEF NothingLost, Kept
  <2>2. CASE e = d
    BY <1>3, <2>1, <2>2
  <2>3. CASE e \in offered
    <3>1. e \in Drawing /\ Kept(best, e)
      BY <1>4, <1>5, <2>1, <2>3, DrawingsAssumption DEF IInv, TypeOK, NothingLost, Offering, Kept
    <3>2. QED
      BY <1>3, <3>1
  <2>4. QED
    BY <1>1, <2>1, <2>2, <2>3
<1>13. QED
  BY <1>8, <1>9, <1>10, <1>11, <1>12 DEF IInv

(* The slot of a stage is merged into best: the winner keeps every drawing *)
(* that either of them was kept against.                                   *)
LEMMA MergedKeeps ==
  ASSUME NEW candidate \in AdmittedCandidate, NEW slot \in Slot, Better(candidate, slot),
         NEW e \in Drawing, Kept(slot, e) \/ Kept(candidate, e), candidate # Void
  PROVE  Kept(candidate, e)
<1>1. e.raw \in Measures /\ candidate.raw \in Measures
  BY DEF Drawing, AdmittedCandidate
<1>2. CASE Kept(slot, e)
  <2>1. slot.raw \in Measures /\ CandidateLess(candidate.raw, slot.raw)
    BY <1>2 DEF Kept, Slot, AdmittedCandidate, Better
  <2>2. ~CandidateLess(slot.raw, candidate.raw)
    BY <1>1, <2>1, CandidateLessAsymmetric
  <2>3. QED
    BY <1>1, <1>2, <2>1, <2>2, NotLessTransitive DEF Kept
<1>3. QED
  BY <1>2

LEMMA UnmergedKeeps ==
  ASSUME NEW candidate \in AdmittedCandidate, NEW slot \in Slot, ~Better(candidate, slot),
         NEW e \in Drawing, Kept(slot, e) \/ Kept(candidate, e)
  PROVE  Kept(slot, e)
<1>1. /\ e.raw \in Measures /\ candidate.raw \in Measures
      /\ slot # Void /\ slot.raw \in Measures /\ ~CandidateLess(candidate.raw, slot.raw)
  BY DEF Drawing, AdmittedCandidate, Slot, Better
<1>2. CASE Kept(candidate, e)
  BY <1>1, <1>2, NotLessTransitive DEF Kept
<1>3. QED
  BY <1>2

(* The best drawing on the latest ranks competes for best.                 *)
LEMMA MergeLatestKeeps ==
  ASSUME IInv, MergeLatest
  PROVE  IInv'
<1>1. /\ stage = "latest_constrained" /\ stage' = "chain" /\ left' = MaxRouted /\ local' = Void
      /\ request' = request /\ outcome' = outcome /\ admission' = admission
      /\ offered' = offered /\ selected' = selected /\ baseline' = baseline
      /\ pitched' = pitched
  BY DEF MergeLatest, Enter, refining
<1>2. /\ best \in Slot /\ local \in Slot /\ outcome = "running"
      /\ selected = Void /\ baseline = Void
  BY <1>1, FailuresApart DEF IInv, TypeOK, Phases, Slot, Offering
<1>3. \A e \in offered : e \in Drawing /\ (Admits(request, e) => Kept(best, e) \/ Kept(local, e))
  BY <1>1, DrawingsAssumption DEF IInv, TypeOK, NothingLost, Offering
<1>4. CASE LatestWins
  <2>1. best' = local /\ local # Void /\ Better(local, best)
    BY <1>4 DEF MergeLatest, LatestWins
  <2>a. ~primaryRanks' /\ primaryRanks' \in BOOLEAN
    BY <1>4 DEF MergeLatest
  <2>2. TypeOK'
    BY <1>1, <1>2, <2>1, <2>a, MaxRoutedAssumption DEF IInv, TypeOK, Slot, Stages
  <2>3. Phases' /\ FailureEarned'
    BY <1>1, <1>2, <2>1, FailuresApart DEF IInv, Phases, FailureEarned, Offering
  <2>4. AllSound'
    BY <1>1, <2>1 DEF IInv, AllSound, Sound
  <2>5. ~local.primary
    BY <1>1, <2>1 DEF IInv, Lead
  <2>6. Lead'
    BY <1>1, <2>1, <2>a, <2>5 DEF Lead, BeforeLatestWins
  <2>7. NothingLost'
    <3>1. local \in AdmittedCandidate
      BY <1>2, <2>1 DEF Slot
    <3>2. ASSUME NEW e \in offered, Admits(request, e) PROVE Kept(local, e)
      BY <1>2, <1>3, <2>1, <3>1, <3>2, MergedKeeps
    <3>3. QED
      BY <1>1, <2>1, <3>2 DEF NothingLost, Kept
  <2>8. QED
    BY <2>2, <2>3, <2>4, <2>6, <2>7 DEF IInv
<1>5. CASE ~LatestWins
  <2>1. best' = best /\ primaryRanks' = primaryRanks
    BY <1>5 DEF MergeLatest
  <2>2. TypeOK'
    BY <1>1, <1>2, <2>1, MaxRoutedAssumption DEF IInv, TypeOK, Stages
  <2>3. Phases' /\ FailureEarned'
    BY <1>1, <1>2, <2>1, FailuresApart DEF IInv, Phases, FailureEarned, Offering
  <2>4. AllSound'
    BY <1>1, <2>1 DEF IInv, AllSound, Sound
  <2>5. Lead'
    BY <1>1, <2>1 DEF IInv, Lead, BeforeLatestWins
  <2>6. NothingLost'
    <3>1. ASSUME NEW e \in offered, Admits(request, e) PROVE Kept(best, e)
      <4>1. CASE local = Void
        BY <1>3, <3>1, <4>1 DEF Kept
      <4>2. CASE local # Void
        <5>1. local \in AdmittedCandidate /\ ~Better(local, best)
          BY <1>2, <1>5, <4>2 DEF Slot, LatestWins
        <5>2. QED
          BY <1>2, <1>3, <3>1, <5>1, UnmergedKeeps
      <4>3. QED
        BY <4>1, <4>2
    <3>2. QED
      BY <1>1, <2>1, <3>1 DEF NothingLost, Kept
  <2>7. QED
    BY <2>2, <2>3, <2>4, <2>5, <2>6 DEF IInv
<1>6. QED
  BY <1>4, <1>5

(* The best straight chain competes for best; where it is refused, best    *)
(* already stood against every drawing that counts.                        *)
LEMMA MergeStraightChainKeeps ==
  ASSUME IInv, MergeStraightChain
  PROVE  IInv'
<1>1. /\ stage = "chain" /\ stage' = "fallback" /\ left' = MaxRouted /\ local' = Void
      /\ request' = request /\ outcome' = outcome /\ admission' = admission
      /\ offered' = offered /\ selected' = selected /\ baseline' = baseline
      /\ pitched' = pitched
  BY DEF MergeStraightChain, Enter, refining
<1>2. /\ best \in Slot /\ local \in Slot /\ outcome = "running"
      /\ selected = Void /\ baseline = Void
  BY <1>1, FailuresApart DEF IInv, TypeOK, Phases, Slot, Offering
<1>3. \A e \in offered : /\ e \in Drawing
                         /\ Admits(request, e) =>
                              /\ Kept(best, e) \/ Kept(local, e)
                              /\ best # Void => Kept(best, e)
  BY <1>1, DrawingsAssumption DEF IInv, TypeOK, NothingLost, Offering
<1>4. CASE KeepChain
  <2>1. best' = local /\ primaryRanks' = TRUE /\ local # Void /\ Better(local, best)
    BY <1>4 DEF KeepChain
  <2>2. TypeOK'
    BY <1>1, <1>2, <2>1, MaxRoutedAssumption DEF IInv, TypeOK, Slot, Stages
  <2>3. Phases' /\ FailureEarned'
    BY <1>1, <1>2, <2>1, FailuresApart DEF IInv, Phases, FailureEarned, Offering
  <2>4. AllSound'
    BY <1>1, <2>1 DEF IInv, AllSound, Sound
  <2>5. local.primary
    BY <1>1, <2>1 DEF IInv, Lead
  <2>6. Lead'
    BY <1>1, <2>1, <2>5 DEF Lead, BeforeLatestWins
  <2>7. NothingLost'
    <3>1. local \in AdmittedCandidate
      BY <1>2, <2>1 DEF Slot
    <3>2. ASSUME NEW e \in offered, Admits(request, e) PROVE Kept(local, e)
      BY <1>2, <1>3, <2>1, <3>1, <3>2, MergedKeeps
    <3>3. QED
      BY <1>1, <2>1, <3>2 DEF NothingLost, Kept
  <2>8. QED
    BY <2>2, <2>3, <2>4, <2>6, <2>7 DEF IInv
<1>5. CASE RefuseChain
  <2>1. best' = best /\ primaryRanks' = primaryRanks /\ (best # Void \/ local = Void)
    BY <1>5 DEF RefuseChain
  <2>2. TypeOK'
    BY <1>1, <1>2, <2>1, MaxRoutedAssumption DEF IInv, TypeOK, Stages
  <2>3. Phases' /\ FailureEarned'
    BY <1>1, <1>2, <2>1, FailuresApart DEF IInv, Phases, FailureEarned, Offering
  <2>4. AllSound'
    BY <1>1, <2>1 DEF IInv, AllSound, Sound
  <2>5. Lead'
    BY <1>1, <2>1, MaxRoutedAssumption DEF IInv, Lead, BeforeLatestWins
  <2>6. NothingLost'
    <3>1. ASSUME NEW e \in offered, Admits(request, e) PROVE Kept(best, e)
      BY <1>3, <2>1, <3>1 DEF Kept
    <3>2. QED
      BY <1>1, <2>1, <3>1 DEF NothingLost, Kept
  <2>7. QED
    BY <2>2, <2>3, <2>4, <2>5, <2>6 DEF IInv
<1>6. QED
  BY <1>4, <1>5 DEF MergeStraightChain

(* A call without an admitted candidate fails.                             *)
LEMMA FailKeeps ==
  ASSUME IInv, Fail
  PROVE  IInv'
<1>1. /\ stage = "choose" /\ best = Void /\ stage' = "done" /\ left' = MaxRouted
      /\ outcome' = HardGeometryFailure(admission)
      /\ request' = request /\ best' = best /\ local' = local /\ admission' = admission
      /\ primaryRanks' = primaryRanks /\ offered' = offered
      /\ selected' = selected /\ baseline' = baseline /\ pitched' = pitched
  BY DEF Fail, Enter, refining
<1>2. local = Void /\ selected = Void /\ baseline = Void
  BY <1>1 DEF IInv, Phases, Offering
<1>3. outcome' \in Failures /\ outcome' # "running"
  BY <1>1, FailureType, FailuresApart DEF IInv, TypeOK
<1>4. TypeOK'
  BY <1>1, <1>3, MaxRoutedAssumption DEF IInv, TypeOK, Stages
<1>5. Phases'
  BY <1>1, <1>2, <1>3 DEF Phases, Offering
<1>6. AllSound' /\ NothingLost'
  BY <1>1 DEF IInv, AllSound, Sound, NothingLost, Offering
<1>7. Lead'
  BY <1>1, <1>2 DEF IInv, Lead, BeforeLatestWins
<1>8. FailureEarned'
  <2>1. ASSUME NEW d \in offered PROVE ~Admits(request, d)
    BY <1>1, <1>2, <2>1 DEF IInv, NothingLost, Offering, Kept
  <2>2. QED
    BY <1>1, <2>1 DEF FailureEarned, Admits, BundleOutcome, MeetsContract, ContactOutcome,
                      ClearanceOutcome, SpacingOutcome
<1>9. QED
  BY <1>4, <1>5, <1>6, <1>7, <1>8 DEF IInv

LEMMA ChooseKeeps ==
  ASSUME IInv, Choose
  PROVE  IInv'
<1>1. /\ stage = "choose" /\ best # Void /\ stage' = "demand" /\ left' = MaxRouted
      /\ selected' = best
      /\ request' = request /\ best' = best /\ local' = local /\ admission' = admission
      /\ primaryRanks' = primaryRanks /\ offered' = offered /\ outcome' = outcome
      /\ baseline' = baseline /\ pitched' = pitched
  BY DEF Choose, Enter
<1>2. local = Void /\ baseline = Void /\ outcome = "running"
  BY <1>1, FailuresApart DEF IInv, Phases, Offering, TypeOK
<1>3. TypeOK'
  BY <1>1, <1>2, MaxRoutedAssumption DEF IInv, TypeOK, Stages
<1>4. Phases' /\ FailureEarned'
  BY <1>1, <1>2, FailuresApart DEF Phases, FailureEarned, Offering
<1>5. AllSound' /\ NothingLost'
  BY <1>1 DEF IInv, AllSound, Sound, NothingLost, Offering
<1>6. Lead'
  BY <1>1, <1>2 DEF IInv, Lead, BeforeLatestWins
<1>7. QED
  BY <1>3, <1>4, <1>5, <1>6 DEF IInv

-----------------------------------------------------------------------------
(* Steps of the refinement: they touch only the selected layout and what   *)
(* the rollback needs, so it is enough that those stay what they claim.    *)

LEMMA RefiningKeeps ==
  ASSUME IInv, Refining, stage \notin Offering, stage # "done",
         stage' \in Stages \ Offering,
         selected' \in AdmittedCandidate, selected' # Void, Sound(selected'),
         baseline' \in Slot, Sound(baseline'), pitched' \in BOOLEAN,
         outcome' \in {"running", "returned"}, outcome' = "running" <=> stage' # "done"
  PROVE  IInv'
<1>1. /\ request' = request /\ left' = left /\ best' = best /\ local' = local
      /\ admission' = admission /\ primaryRanks' = primaryRanks /\ offered' = offered
  BY DEF Refining
<1>2. /\ best # Void /\ local = Void
      /\ stage \notin BeforeLatestWins \cup {"latest_constrained", "chain", "fallback"}
      /\ stage' \notin BeforeLatestWins \cup {"latest_constrained", "chain", "fallback"}
  BY FailuresApart DEF IInv, Phases, TypeOK, BeforeLatestWins, Offering
<1>3. TypeOK'
  BY <1>1 DEF IInv, TypeOK, Slot
<1>4. Phases' /\ FailureEarned'
  BY <1>1, <1>2, FailuresApart DEF Phases, FailureEarned
<1>5. AllSound'
  BY <1>1 DEF IInv, AllSound, Sound
<1>6. Lead' /\ NothingLost'
  BY <1>1, <1>2 DEF IInv, Lead, NothingLost
<1>7. QED
  BY <1>3, <1>4, <1>5, <1>6 DEF IInv

\* What a refinement's drawing or its absence makes of the selected layout.
LEMMA ReplaceOrKeep ==
  ASSUME IInv, selected # Void,
         \/ \E d \in Drawings : ReplaceBy(d)
         \/ selected' = selected
  PROVE  selected' \in AdmittedCandidate /\ selected' # Void /\ Sound(selected')
<1>1. CASE \E d \in Drawings : ReplaceBy(d)
  <2>1. PICK d \in Drawings : selected' = Candidate(d, TRUE)
    BY <1>1 DEF ReplaceBy
  <2>2. d \in Drawing /\ request \in Request
    BY DrawingsAssumption, RequestsAssumption DEF IInv, TypeOK
  <2>3. QED
    BY <2>1, <2>2, CandidateType
<1>2. CASE selected' = selected
  BY <1>2 DEF IInv, TypeOK, AllSound
<1>3. QED
  BY <1>1, <1>2

\* A layout of measures and vetting that are its own replaces the selected one.
LEMMA BecomeSound ==
  ASSUME IInv, selected # Void, NEW layout \in Layout, Become(layout),
         ~request.bundles => layout.vetted
  PROVE  selected' \in AdmittedCandidate /\ selected' # Void /\ Sound(selected')
<1>1. selected \in AdmittedCandidate
  BY DEF IInv, TypeOK
<1>2. layout.measures.quality \in Quality
  BY DEF Layout, Measures
<1>3. /\ selected' = [selected EXCEPT !.quality = layout.measures.quality, !.layout = layout]
      /\ selected' = [raw |-> selected.raw, quality |-> layout.measures.quality,
                      layout |-> layout, primary |-> selected.primary]
  BY <1>1 DEF Become, AdmittedCandidate
<1>4. selected' \in AdmittedCandidate
  BY <1>1, <1>2, <1>3 DEF AdmittedCandidate
<1>5. selected' # Void
  BY <1>3 DEF Void
<1>6. QED
  BY <1>3, <1>4, <1>5 DEF Sound

LEMMA RefineStepsKeep ==
  ASSUME IInv, Refine
  PROVE  IInv'
<1>1. /\ stage \in {"demand", "fanout", "regional", "pitch", "gap", "rollback", "rebundle", "tracks"}
      /\ Refining
  BY DEF Refine, RefineDemandAware, RefineOrdinaryFanout, RefineRegionalFanout,
         RefineHorizontalPitch, RefinePitchedGap, RollBackPitch, RefineBundles, RefineTracks
<1>2. /\ stage \notin Offering /\ stage # "done" /\ outcome = "running"
  BY <1>1, FailuresApart DEF Offering, IInv, TypeOK
<1>3. /\ selected \in AdmittedCandidate /\ selected # Void /\ Sound(selected)
      /\ baseline \in Slot /\ Sound(baseline) /\ pitched \in BOOLEAN
  BY <1>2, FailuresApart DEF IInv, TypeOK, Phases, AllSound, Slot
<1> USE DEF Keep
<1>4. CASE RefineDemandAware \/ RefineOrdinaryFanout \/ RefineRegionalFanout
  <2>1. \/ \E d \in Drawings : ReplaceBy(d)
        \/ selected' = selected
    BY <1>4 DEF RefineDemandAware, RefineOrdinaryFanout, RefineRegionalFanout, FanoutImproves
  <2>2. /\ outcome' = outcome /\ baseline' = baseline /\ pitched' = pitched
        /\ stage' \in {"fanout", "regional", "pitch"}
    BY <1>4 DEF RefineDemandAware, RefineOrdinaryFanout, RefineRegionalFanout
  <2>3. stage' \in Stages \ Offering /\ stage' # "done"
    BY <2>2 DEF Stages, Offering
  <2>4. QED
    BY <1>1, <1>2, <1>3, <2>1, <2>2, <2>3, ReplaceOrKeep, RefiningKeeps
<1>5. CASE RefineHorizontalPitch \/ RefinePitchedGap
  <2>1. \/ \E d \in Drawings : ReplaceBy(d)
        \/ selected' = selected
    BY <1>5 DEF RefineHorizontalPitch, RefinePitchedGap, PitchBy
  <2>2. outcome' = outcome /\ baseline' \in {baseline, selected, Void} /\ stage' \in {"gap", "rollback"}
    BY <1>5 DEF RefineHorizontalPitch, RefinePitchedGap
  <2>3. pitched' \in BOOLEAN
    <3>1. pitched' = TRUE \/ pitched' = pitched
      BY <1>5 DEF RefineHorizontalPitch, RefinePitchedGap, PitchBy
    <3>2. QED
      BY <1>3, <3>1
  <2>4. baseline' \in Slot /\ Sound(baseline')
    BY <1>3, <2>2 DEF Slot, Sound
  <2>5. stage' \in Stages \ Offering /\ stage' # "done"
    BY <2>2 DEF Stages, Offering
  <2>6. QED
    BY <1>1, <1>2, <1>3, <2>1, <2>2, <2>3, <2>4, <2>5, ReplaceOrKeep, RefiningKeeps
<1>6. CASE RollBackPitch
  <2>1. /\ selected' = selected \/ (selected' = baseline /\ baseline # Void)
        /\ outcome' = outcome /\ baseline' = baseline /\ pitched' = pitched /\ stage' = "rebundle"
    BY <1>6 DEF RollBackPitch
  <2>2. selected' \in AdmittedCandidate /\ selected' # Void /\ Sound(selected')
    BY <1>3, <2>1 DEF Slot
  <2>3. stage' \in Stages \ Offering /\ stage' # "done"
    BY <2>1 DEF Stages, Offering
  <2>4. QED
    BY <1>1, <1>2, <1>3, <2>1, <2>2, <2>3, RefiningKeeps
<1>7. CASE RefineBundles
  <2>1. /\ \/ \E layout \in RefinedLayouts : Become(layout)
           \/ selected' = selected
        /\ outcome' = outcome /\ baseline' = baseline /\ pitched' = pitched /\ stage' = "tracks"
    BY <1>7 DEF RefineBundles
  <2>2. ASSUME NEW layout \in RefinedLayouts
        PROVE  layout \in Layout /\ (~request.bundles => layout.vetted)
    <3>1. CASE ~request.bundles \/ request.spacing \/ ~request.fewBundles
      <4>1. layout = [measures |-> selected.raw, bundles |-> FALSE,
                      vetted |-> ~request.bundles /\ selected.layout.vetted]
        BY <2>2, <3>1 DEF RefinedLayouts
      <4>2. selected.raw \in Measures
        BY <1>3 DEF AdmittedCandidate
      <4>3. (~request.bundles /\ selected.layout.vetted) \in BOOLEAN
        OBVIOUS
      <4>4. layout \in Layout
        BY <4>1, <4>2, <4>3 DEF Layout
      <4>5. ~request.bundles => layout.vetted
        BY <1>3, <4>1 DEF Sound
      <4>6. QED
        BY <4>4, <4>5
    <3>2. CASE ~(~request.bundles \/ request.spacing \/ ~request.fewBundles)
      <4>1. PICK d \in Drawings : layout = [measures |-> d.drawn, bundles |-> TRUE, vetted |-> FALSE]
        BY <2>2, <3>2 DEF RefinedLayouts
      <4>2. d.drawn \in Measures
        BY DrawingsAssumption DEF Drawing
      <4>3. QED
        BY <3>2, <4>1, <4>2 DEF Layout
    <3>3. QED
      BY <3>1, <3>2
  <2>3. selected' \in AdmittedCandidate /\ selected' # Void /\ Sound(selected')
    BY <1>3, <2>1, <2>2, BecomeSound
  <2>4. stage' \in Stages \ Offering /\ stage' # "done"
    BY <2>1 DEF Stages, Offering
  <2>5. QED
    BY <1>1, <1>2, <1>3, <2>1, <2>3, <2>4, RefiningKeeps
<1>8. CASE RefineTracks
  <2>1. /\ \/ \E d \in Drawings : Spread(d).vetted /\ Become(Spread(d))
           \/ selected' = selected
        /\ outcome' = "returned" /\ baseline' = baseline /\ pitched' = pitched /\ stage' = "done"
    BY <1>8 DEF RefineTracks, Vetted
  <2>2. ASSUME NEW d \in Drawings, Spread(d).vetted PROVE Spread(d) \in Layout
    BY <1>3, <2>2, DrawingsAssumption DEF Spread, Layout, Drawing, AdmittedCandidate, MeetsContract
  <2>3. selected' \in AdmittedCandidate /\ selected' # Void /\ Sound(selected')
    BY <1>3, <2>1, <2>2, BecomeSound
  <2>4. stage' \in Stages \ Offering /\ stage' = "done"
    BY <2>1 DEF Stages, Offering
  <2>5. QED
    BY <1>1, <1>2, <1>3, <2>1, <2>3, <2>4, RefiningKeeps
<1>9. QED
  BY <1>4, <1>5, <1>6, <1>7, <1>8 DEF Refine

-----------------------------------------------------------------------------
(* What a failing call reports, and what the returned layout is worth.     *)

\* Everything that preparing these drawings leaves.
AllRecorded(r, tabled) == UNION {Recorded(r, d) : d \in tabled}

\* Until something is admitted, every drawing that was offered left its flags.
FlagsOfOffered ==
  stage \in Offering /\ best = Void /\ local = Void =>
    admission = AllRecorded(request, offered)

SomethingOffered == offered = {} => stage = "baseline" /\ left = MaxRouted

\* Without bundles only track spacing changes the routes a candidate was chosen for.
OwnQuality(slot) ==
  slot # Void /\ ~request.bundles /\ request.effort # "max" => slot.quality = slot.raw.quality

Drawn(slot) ==
  slot # Void /\ request.bundles /\ request.fewBundles /\ ~request.spacing =>
    slot.layout.bundles

AsAsked(slot) == OwnQuality(slot) /\ Drawn(slot)

NoWorse ==
  selected # Void /\ ~request.bundles /\ request.effort # "max" =>
    ~RouteLess(best.raw.quality, selected.quality)

PitchFromBaseline ==
  /\ baseline # Void => request.effort = "max"
  /\ stage \in {"gap", "rollback"} /\ baseline # Void /\ ~pitched => selected = baseline

JInv ==
  /\ FlagsOfOffered /\ SomethingOffered /\ ErrorIsTruthful
  /\ AsAsked(best) /\ AsAsked(local) /\ AsAsked(selected) /\ AsAsked(baseline)
  /\ NoWorse /\ PitchFromBaseline /\ PitchWithinBudget

\* The reason where none of the flags that are reported first is set.
LateReason(flags) ==
  IF "contact_rejected" \in flags /\ "contact_satisfied" \notin flags THEN "contact_rejected"
  ELSE IF /\ {"clearance_satisfied", "parallel_spacing_rejected"} \subseteq flags
          /\ "parallel_spacing_satisfied" \notin flags THEN "parallel_spacing_rejected"
  ELSE "clearance_violated"

\* The reason is the first reported flag that is set, if one of those is.
LEMMA ReasonByCases ==
  ASSUME NEW flags, NEW reason, reason = HardGeometryFailure(flags)
  PROVE  \/ reason \in Range(ReportedFirst) \cap flags
         \/ Range(ReportedFirst) \cap flags = {} /\ reason = LateReason(flags)
<1> DEFINE I == {i \in 1..Len(ReportedFirst) : ReportedFirst[i] \in flags}
           first == SelectInSeq(ReportedFirst, LAMBDA f : f \in flags)
<1>1. Len(ReportedFirst) = 7 /\ DOMAIN ReportedFirst = 1..7
  BY DEF ReportedFirst
<1>2. first = IF I # {} THEN Min(I) ELSE 0
  BY DEF SelectInSeq
<1>3. CASE I # {}
  <2>1. \E i \in I : \A j \in I : i <= j
    BY <1>1, <1>3
  <2>2. first \in I
    BY <1>2, <1>3, <2>1 DEF Min
  <2>3. reason = ReportedFirst[first]
    BY <1>1, <2>2 DEF HardGeometryFailure
  <2> QED BY <1>1, <2>2, <2>3 DEF Range
<1>4. CASE I = {}
  <2>1. first = 0
    BY <1>2, <1>4
  <2> QED BY <1>1, <1>4, <2>1 DEF Range, HardGeometryFailure, LateReason
<1> QED BY <1>3, <1>4

\* A drawing that is not admitted has a reason, and what it leaves besides
\* are the checks it passed.
LEMMA RejectionType ==
  ASSUME NEW r \in Request, NEW d \in Drawing, ~Admits(r, d)
  PROVE  /\ Rejection(r, d) \in Range(ReportedFirst)
                 \cup {"contact_rejected", "clearance_violated", "parallel_spacing_rejected"}
         /\ Recorded(r, d) = Satisfied(r, d) \cup ({Rejection(r, d)} \ {"clearance_violated"})
         /\ Satisfied(r, d) \subseteq
              {"contact_satisfied", "clearance_satisfied", "parallel_spacing_satisfied"}
         /\ "parallel_spacing_satisfied" \notin Satisfied(r, d)
         /\ Rejection(r, d) = "parallel_spacing_rejected" => "clearance_satisfied" \in Satisfied(r, d)
         /\ Rejection(r, d) = "contact_rejected" => "contact_satisfied" \notin Satisfied(r, d)
<1>1. /\ BundleOutcome(r, d) \in BundleOutcomes /\ ContactOutcome(r, d) \in ContactOutcomes
      /\ ClearanceOutcome(r, d) \in ClearanceOutcomes
      /\ SpacingOutcome(r, d) \in SpacingOutcomes
  BY DEF BundleOutcome, ContactOutcome, ClearanceOutcome, SpacingOutcome, Drawing,
         BundleOutcomes, ContactOutcomes, ClearanceOutcomes, SpacingOutcomes
<1>2. DOMAIN ReportedFirst = 1..7
  BY DEF ReportedFirst
<1>3. Range(ReportedFirst) =
        {"boundary_bundle_work_exhausted", "contact_segment_exhausted",
         "contact_work_exhausted", "boundary_bundle_rejected", "clearance_work_exhausted",
         "parallel_spacing_segment_exhausted", "parallel_spacing_work_exhausted"}
  BY <1>2 DEF Range, ReportedFirst
<1>4. Rejection(r, d) # "ok"
  BY DEF Admits, MeetsContract, Rejection
<1>5. Rejection(r, d) \in Range(ReportedFirst)
        \cup {"contact_rejected", "clearance_violated", "parallel_spacing_rejected"}
  BY <1>1, <1>3, <1>4
     DEF Rejection, BundleOutcomes, ContactOutcomes, ClearanceOutcomes, SpacingOutcomes
<1>6. Recorded(r, d) = Satisfied(r, d) \cup ({Rejection(r, d)} \ {"clearance_violated"})
  BY <1>4 DEF Recorded
<1>7. /\ Satisfied(r, d) \subseteq
            {"contact_satisfied", "clearance_satisfied", "parallel_spacing_satisfied"}
      /\ "parallel_spacing_satisfied" \notin Satisfied(r, d)
  BY DEF Satisfied, Admits, MeetsContract
<1>8. Rejection(r, d) = "parallel_spacing_rejected" => "clearance_satisfied" \in Satisfied(r, d)
  BY <1>1 DEF Rejection, Satisfied, BundleOutcomes, ContactOutcomes, ClearanceOutcomes
<1>9. Rejection(r, d) = "contact_rejected" => "contact_satisfied" \notin Satisfied(r, d)
  BY <1>1 DEF Rejection, Satisfied, BundleOutcomes, ClearanceOutcomes, SpacingOutcomes
<1> QED BY <1>5, <1>6, <1>7, <1>8, <1>9

\* The reason reported for a set of rejected drawings is the reason of one of them.
LEMMA ReasonIsOne ==
  ASSUME NEW r \in Request, NEW tabled, tabled \subseteq Drawing, tabled # {},
         \A d \in tabled : ~Admits(r, d),
         NEW flags, flags = AllRecorded(r, tabled),
         NEW reason, reason = HardGeometryFailure(flags)
  PROVE  /\ \E d \in tabled : Rejection(r, d) = reason
         /\ reason \in {"contact_rejected", "parallel_spacing_rejected", "clearance_violated"} =>
              \A d \in tabled : Rejection(r, d) \notin Range(ReportedFirst)
<1> DEFINE Passed == {"contact_satisfied", "clearance_satisfied", "parallel_spacing_satisfied"}
<1>1. /\ "contact_rejected" \notin Range(ReportedFirst)
      /\ "parallel_spacing_rejected" \notin Range(ReportedFirst)
      /\ "clearance_violated" \notin Range(ReportedFirst)
      /\ Range(ReportedFirst) \cap Passed = {}
  <2>1. DOMAIN ReportedFirst = 1..7
    BY DEF ReportedFirst
  <2> QED BY <2>1 DEF Range, ReportedFirst
\* A flag that no passed check leaves is the reason of some drawing.
<1>2. ASSUME NEW f \in flags, f \notin Passed
      PROVE  \E d \in tabled : Rejection(r, d) = f
  <2>1. PICK d \in tabled : f \in Recorded(r, d)
    BY <1>2 DEF AllRecorded
  <2>2. f \in Satisfied(r, d) \cup {Rejection(r, d)} /\ Satisfied(r, d) \subseteq Passed
    BY <2>1, RejectionType
  <2> QED BY <1>2, <2>1, <2>2
<1>3. ASSUME NEW d \in tabled, Rejection(r, d) # "clearance_violated"
      PROVE  Rejection(r, d) \in flags
  <2>1. Rejection(r, d) \in Recorded(r, d)
    BY <1>3, RejectionType
  <2> QED BY <2>1 DEF AllRecorded
<1>4. CASE reason \in Range(ReportedFirst) \cap flags
  BY <1>1, <1>2, <1>4
<1>5. ASSUME Range(ReportedFirst) \cap flags = {}, reason = LateReason(flags)
      PROVE  /\ \E d \in tabled : Rejection(r, d) = reason
             /\ \A d \in tabled : Rejection(r, d) \notin Range(ReportedFirst)
  <2>1. \A d \in tabled : Rejection(r, d) \notin Range(ReportedFirst)
    BY <1>1, <1>3, <1>5
  <2>2. CASE reason # "clearance_violated"
    <3>1. reason \in flags /\ reason \in {"contact_rejected", "parallel_spacing_rejected"}
      BY <1>5, <2>2 DEF LateReason
    <3> QED BY <1>2, <2>1, <3>1
  <2>3. CASE reason = "clearance_violated"
    <3>1. SUFFICES ASSUME \A d \in tabled : Rejection(r, d) # "clearance_violated"
                   PROVE  FALSE
      BY <2>1, <2>3
    <3>2. ASSUME NEW d \in tabled
          PROVE  Rejection(r, d) \in {"contact_rejected", "parallel_spacing_rejected"}
      BY <2>1, <3>1, RejectionType
    <3>3. "parallel_spacing_satisfied" \notin flags
      <4>1. ASSUME NEW d \in tabled PROVE "parallel_spacing_satisfied" \notin Recorded(r, d)
        BY <3>2, RejectionType
      <4> QED BY <4>1 DEF AllRecorded
    <3>4. ASSUME NEW d \in tabled, Rejection(r, d) = "parallel_spacing_rejected" PROVE FALSE
      <4>1. {"clearance_satisfied", "parallel_spacing_rejected"} \subseteq Recorded(r, d)
        BY <3>4, RejectionType
      <4>2. {"clearance_satisfied", "parallel_spacing_rejected"} \subseteq flags
        BY <4>1 DEF AllRecorded
      <4>3. reason \in {"contact_rejected", "parallel_spacing_rejected"}
        BY <1>5, <3>3, <4>2 DEF LateReason
      <4> QED BY <2>3, <4>3
    <3>5. \A d \in tabled : Rejection(r, d) = "contact_rejected"
      BY <3>2, <3>4
    <3>6. "contact_rejected" \in flags
      BY <1>3, <3>5
    <3>7. "contact_satisfied" \notin flags
      <4>1. ASSUME NEW d \in tabled PROVE "contact_satisfied" \notin Recorded(r, d)
        BY <3>5, RejectionType
      <4> QED BY <4>1 DEF AllRecorded
    <3>8. reason = "contact_rejected"
      BY <1>5, <3>6, <3>7 DEF LateReason
    <3> QED BY <2>3, <3>8
  <2> QED BY <2>1, <2>2, <2>3
<1> QED BY <1>4, <1>5, ReasonByCases

-----------------------------------------------------------------------------
(* Steps keep what a failure may report and what the selected layout owes. *)

LEMMA RetainedAsAsked ==
  ASSUME request \in Request, NEW d \in Drawing, NEW p \in BOOLEAN, NEW slot
  PROVE  /\ AsAsked(Candidate(d, p))
         /\ AsAsked(slot) => AsAsked(Retained(d, slot, p))
<1>1. AsAsked(Candidate(d, p))
  BY DEF AsAsked, OwnQuality, Drawn, Candidate, Exact, Request
<1>2. Retained(d, slot, p) \in {Candidate(d, p), slot}
  BY DEF Retained
<1> QED BY <1>1, <1>2 DEF AsAsked, OwnQuality, Drawn

\* While drawings are offered nothing is selected and the call has not failed.
LEMMA OfferingIsEarly ==
  ASSUME IInv, stage \in Offering, stage' \in Offering,
         UNCHANGED <<selected, baseline, outcome>>
  PROVE  /\ ErrorIsTruthful' /\ NoWorse' /\ PitchFromBaseline' /\ PitchWithinBudget'
         /\ AsAsked(selected)' /\ AsAsked(baseline)'
<1>1. selected = Void /\ baseline = Void /\ outcome = "running"
  BY FailuresApart DEF IInv, Phases, TypeOK, Offering
<1> QED BY <1>1, FailuresApart DEF ErrorIsTruthful, NoWorse, PitchFromBaseline,
      PitchWithinBudget, AsAsked, OwnQuality, Drawn

LEMMA OfferKeepsRecord ==
  ASSUME IInv, JInv, NEW d \in Drawings, NEW p \in BOOLEAN,
         stage \in Offering, stage' \in Offering, UNCHANGED <<request, outcome, refining>>,
         \/ /\ best' = Retained(d, best, p) /\ local' = local
            /\ admission' = Observed(d, best) /\ offered' = offered \cup {d}
         \/ /\ local' = Retained(d, local, p) /\ best' = best
            /\ admission' = Observed(d, local)
            /\ \/ offered' = offered \cup {d}
               \/ best # Void /\ stage # "baseline" /\ offered' = offered
  PROVE  JInv'
<1>1. d \in Drawing /\ request \in Request
  BY DrawingsAssumption, RequestsAssumption DEF IInv, TypeOK
<1>2. AsAsked(best)' /\ AsAsked(local)'
  <2>1. AsAsked(best') /\ AsAsked(local')
    BY <1>1, RetainedAsAsked DEF JInv
  <2> QED BY <2>1 DEF AsAsked, OwnQuality, Drawn
<1>3. FlagsOfOffered'
  <2> SUFFICES ASSUME best' = Void, local' = Void
               PROVE  admission' = AllRecorded(request, offered')
    BY DEF FlagsOfOffered, AllRecorded
  <2>1. best = Void /\ local = Void
    BY DEF Retained, Candidate, Void
  <2>2. admission = AllRecorded(request, offered)
    BY <2>1 DEF JInv, FlagsOfOffered
  <2>3. /\ admission' = admission \cup Recorded(request, d)
        /\ offered' = offered \cup {d}
    BY <2>1 DEF Observed, Skipped
  <2> QED BY <2>2, <2>3 DEF AllRecorded
<1>4. SomethingOffered'
  BY DEF JInv, SomethingOffered
<1> QED BY <1>2, <1>3, <1>4, OfferingIsEarly DEF JInv, refining

\* Merging a slot or going on: something that was admitted stays admitted.
LEMMA MergeKeepsRecord ==
  ASSUME IInv, JInv, stage \in Offering, stage' \in Offering,
         stage # "baseline" \/ left < MaxRouted,
         UNCHANGED <<request, admission, offered, outcome, refining>>,
         \/ best' = best /\ local' = local
         \/ best' = local /\ local # Void /\ local' = Void
         \/ best' = best /\ (best # Void \/ local = Void) /\ local' = Void
  PROVE  JInv'
<1>1. AsAsked(best)' /\ AsAsked(local)'
  BY DEF JInv, AsAsked, OwnQuality, Drawn
<1>2. FlagsOfOffered'
  BY DEF JInv, FlagsOfOffered, AllRecorded
<1>3. SomethingOffered'
  BY MaxRoutedAssumption DEF JInv, SomethingOffered, IInv, TypeOK
<1> QED BY <1>1, <1>2, <1>3, OfferingIsEarly DEF JInv, refining

LEMMA SelectKeepsRecord ==
  ASSUME IInv, JInv, Select, ~Fail, ~Choose
  PROVE  JInv'
<1>1. CASE \E d \in Drawings : OfferToBest(d, TRUE) /\ stage \in Offering
  BY <1>1, OfferKeepsRecord DEF OfferToBest
<1>2. CASE \E next \in Offering : Proceed(next) /\ stage \in Offering
                                  /\ (stage # "baseline" \/ left < MaxRouted)
  BY <1>2, MergeKeepsRecord DEF Proceed, Enter
<1>3. CASE RetainLatest
  <2>1. stage \in Offering /\ stage' \in Offering /\ UNCHANGED <<request, outcome, refining>>
    BY <1>3 DEF RetainLatest, Enter, Offering
  <2>2. PICK d \in Drawings : /\ best' = Retained(d, best, FALSE) /\ local' = local
                              /\ admission' = Observed(d, best) /\ offered' = offered \cup {d}
    BY <1>3 DEF RetainLatest
  <2> QED BY <2>1, <2>2, OfferKeepsRecord
<1>4. CASE RouteLatest \/ RouteStraightChain
  <2>1. \E d \in Drawings, p \in BOOLEAN :
          /\ OfferToLocal(d, p)
          /\ offered' = offered \cup {d} \/ (best # Void /\ offered' = offered)
    <3>1. CASE RouteLatest
      <4>1. PICK d \in Drawings : OfferToLocal(d, FALSE) /\ offered' = offered \cup {d}
        BY <3>1 DEF RouteLatest
      <4> QED BY <4>1
    <3>2. CASE RouteStraightChain
      <4>1. PICK d \in Drawings :
              /\ OfferToLocal(d, TRUE)
              /\ offered' = IF best = Void THEN offered \cup {d} ELSE offered
        BY <3>2 DEF RouteStraightChain
      <4> QED BY <4>1
    <3> QED BY <1>4, <3>1, <3>2
  <2>2. stage \in Offering \ {"baseline"}
    BY <1>4 DEF RouteLatest, RouteStraightChain, Offering
  <2>3. stage' = stage /\ UNCHANGED <<request, outcome, refining>>
    BY <2>1 DEF OfferToLocal
  <2> QED BY <2>1, <2>2, <2>3, OfferKeepsRecord DEF OfferToLocal
<1>5. CASE MergeLatest \/ MergeStraightChain
  <2>1. /\ stage \in Offering \ {"baseline"} /\ stage' \in Offering
        /\ UNCHANGED <<request, admission, offered, outcome, refining>> /\ local' = Void
    BY <1>5 DEF MergeLatest, MergeStraightChain, Enter, Offering
  <2>2. \/ best' = local /\ local # Void
        \/ best' = best /\ (best # Void \/ local = Void)
    BY <1>5 DEF MergeLatest, MergeStraightChain, KeepChain, RefuseChain, LatestWins, Better
  <2> QED BY <2>1, <2>2, MergeKeepsRecord
<1>6. \/ \E d \in Drawings : OfferToBest(d, TRUE) /\ stage \in Offering
      \/ \E next \in Offering : Proceed(next) /\ stage \in Offering
                                /\ (stage # "baseline" \/ left < MaxRouted)
      \/ RetainLatest \/ RouteLatest \/ RouteStraightChain \/ MergeLatest \/ MergeStraightChain
  BY DEF Select, EvaluateBaseline, EvaluateOrdinary, EvaluatePreferred, EvaluateSifted,
         EvaluateNetRepresentative, EvaluateFallback, EvaluateLatest, EvaluateIf, Evaluate,
         Offering
<1> QED BY <1>1, <1>2, <1>3, <1>4, <1>5, <1>6

LEMMA FailKeepsRecord ==
  ASSUME IInv, JInv, Fail
  PROVE  JInv'
<1>1. /\ stage = "choose" /\ best = Void /\ stage' = "done"
      /\ outcome' = HardGeometryFailure(admission)
      /\ UNCHANGED <<request, best, local, admission, offered, selected, baseline, pitched>>
  BY DEF Fail, Enter, refining
<1>2. local = Void /\ selected = Void /\ baseline = Void
  BY <1>1 DEF IInv, Phases, Offering
<1>3. ErrorIsTruthful'
  <2>1. request \in Request /\ offered \subseteq Drawing
    BY RequestsAssumption, DrawingsAssumption DEF IInv, TypeOK
  <2>2. \A d \in offered : ~Admits(request, d)
    BY <1>1, <1>2 DEF IInv, NothingLost, Offering, Kept
  <2>3. offered # {} /\ admission = AllRecorded(request, offered)
    BY <1>1, <1>2 DEF JInv, SomethingOffered, FlagsOfOffered, Offering
  <2>4. PICK reason : reason = HardGeometryFailure(admission)
    OBVIOUS
  <2>5. /\ \E d \in offered : Rejection(request, d) = reason
        /\ reason \in {"contact_rejected", "parallel_spacing_rejected", "clearance_violated"} =>
             \A d \in offered : Rejection(request, d) \notin Range(ReportedFirst)
    BY <2>1, <2>2, <2>3, <2>4, ReasonIsOne
  <2> QED BY <1>1, <2>4, <2>5 DEF ErrorIsTruthful, Rejection, BundleOutcome, ContactOutcome,
                                  ClearanceOutcome, SpacingOutcome
<1>4. SomethingOffered' /\ FlagsOfOffered'
  BY <1>1 DEF JInv, SomethingOffered, FlagsOfOffered, Offering
<1> QED BY <1>1, <1>2, <1>3, <1>4 DEF JInv, AsAsked, OwnQuality, Drawn, NoWorse,
      PitchFromBaseline, PitchWithinBudget

LEMMA ChooseKeepsRecord ==
  ASSUME IInv, JInv, Choose
  PROVE  JInv'
<1>1. /\ stage = "choose" /\ best # Void /\ stage' = "demand" /\ selected' = best
      /\ UNCHANGED <<request, best, local, admission, offered, outcome, baseline, pitched>>
  BY DEF Choose, Enter
<1>2. baseline = Void /\ outcome = "running"
  BY <1>1, FailuresApart DEF IInv, Phases, Offering, TypeOK
<1>3. NoWorse'
  <2>1. best.raw.quality \in Quality
    BY <1>1 DEF IInv, TypeOK, AdmittedCandidate, Measures
  <2>2. ~RouteLess(best.raw.quality, best.raw.quality)
    BY <2>1, RouteLessAsymmetric
  <2> QED BY <1>1, <2>2 DEF JInv, AsAsked, OwnQuality, NoWorse
<1>4. AsAsked(best)' /\ AsAsked(local)' /\ AsAsked(selected)' /\ AsAsked(baseline)'
  BY <1>1 DEF JInv, AsAsked, OwnQuality, Drawn
<1>5. /\ FlagsOfOffered' /\ SomethingOffered' /\ ErrorIsTruthful'
      /\ PitchFromBaseline' /\ PitchWithinBudget'
  BY <1>1, <1>2, FailuresApart DEF JInv, FlagsOfOffered, SomethingOffered, ErrorIsTruthful,
      PitchFromBaseline, PitchWithinBudget, Offering
<1> QED BY <1>3, <1>4, <1>5 DEF JInv

\* For a refinement it is enough to look at the selected layout.
LEMMA RefiningKeepsRecord ==
  ASSUME IInv, JInv, Refining, stage \notin Offering, stage # "done", stage' \notin Offering,
         outcome' \in {"running", "returned"}, AsAsked(selected'), AsAsked(baseline'),
         NoWorse', PitchFromBaseline', PitchWithinBudget'
  PROVE  JInv'
<1>1. UNCHANGED <<request, best, local, admission, offered, left>>
  BY DEF Refining
<1>2. AsAsked(best)' /\ AsAsked(local)' /\ AsAsked(selected)' /\ AsAsked(baseline)'
  BY <1>1 DEF JInv, AsAsked, OwnQuality, Drawn
<1>3. FlagsOfOffered' /\ ErrorIsTruthful'
  BY FailuresApart DEF FlagsOfOffered, ErrorIsTruthful
<1>4. SomethingOffered'
  BY <1>1 DEF JInv, SomethingOffered, Offering
<1> QED BY <1>2, <1>3, <1>4 DEF JInv

LEMMA WithinItself ==
  ASSUME NEW x \in Nat, NEW factor \in Factors PROVE Within(x, x, factor)
<1>1. factor \in Nat /\ factor - 100 \in Nat
  BY DEF Factors
<1>2. x * (factor - 100) \in Nat
  BY <1>1
<1>3. x * factor = x * (factor - 100) + x * 100
  BY <1>1
<1> QED BY <1>1, <1>2, <1>3 DEF Within

LEMMA CompositeOfItself ==
  ASSUME NEW q \in Quality, NEW area \in Nat, NEW r \in Request
  PROVE  CompositeAdmissible(q, area, q, area, r)
<1>1. /\ q.crossings \in Nat /\ q.bends \in Nat /\ q.length \in Nat
      /\ r.lengthFactor \in Factors /\ r.areaFactor \in Factors
  BY DEF Quality, Request
<1>2. Within(q.length, q.length, r.lengthFactor) /\ Within(area, area, r.areaFactor)
  BY <1>1, WithinItself
<1>3. q.crossings \div 100 \in Nat /\ q.bends \div 100 \in Nat
  BY <1>1
<1> QED BY <1>1, <1>2, <1>3 DEF CompositeAdmissible

LEMMA RefineKeepsRecord ==
  ASSUME IInv, JInv, Refine
  PROVE  JInv'
<1>1. /\ stage \in {"demand", "fanout", "regional", "pitch", "gap", "rollback", "rebundle", "tracks"}
      /\ Refining
  BY DEF Refine, RefineDemandAware, RefineOrdinaryFanout, RefineRegionalFanout,
         RefineHorizontalPitch, RefinePitchedGap, RollBackPitch, RefineBundles, RefineTracks
<1>2. /\ stage \notin Offering /\ stage # "done" /\ outcome = "running"
  BY <1>1, FailuresApart DEF Offering, IInv, TypeOK
<1>3. /\ selected \in AdmittedCandidate /\ selected # Void /\ Sound(selected)
      /\ best \in AdmittedCandidate /\ baseline \in Slot /\ Sound(baseline)
      /\ request \in Request /\ UNCHANGED <<request, best>>
  BY <1>1, <1>2, FailuresApart, RequestsAssumption
     DEF IInv, TypeOK, Phases, AllSound, Slot, Refining
<1>4. /\ best.raw.quality \in Quality /\ selected.quality \in Quality
      /\ selected.raw.quality \in Quality
  BY <1>3 DEF AdmittedCandidate, Measures
\* What replaces the selected layout by a drawing's is as asked.
<1>5. ASSUME NEW d \in Drawings, ReplaceBy(d)
      PROVE  /\ AsAsked(selected') /\ selected' # Void
             /\ ~request.bundles => selected'.quality = d.raw.quality
  <2>1. d \in Drawing /\ selected' = Candidate(d, TRUE)
    BY <1>5, DrawingsAssumption DEF ReplaceBy
  <2> QED BY <1>3, <2>1, RetainedAsAsked, CandidateType DEF Candidate, Exact
\* A layout with better routes than the selected one is no worse than best.
<1>6. ASSUME NEW q \in Quality, ~request.bundles, request.effort # "max",
             RouteLess(q, selected.quality)
      PROVE  ~RouteLess(best.raw.quality, q)
  BY <1>3, <1>4, <1>6, RouteLessTransitive DEF JInv, NoWorse
<1>7. /\ AsAsked(selected) /\ AsAsked(baseline) /\ PitchFromBaseline /\ NoWorse
      /\ AsAsked(Void)
  BY DEF JInv, AsAsked, OwnQuality, Drawn
<1> USE DEF Keep
<1>8. CASE RefineDemandAware
  <2>1. /\ UNCHANGED <<outcome, baseline, pitched>> /\ stage' = "fanout"
        /\ \/ request.effort = "max" /\ \E d \in Drawings : ReplaceBy(d)
           \/ selected' = selected
    BY <1>8 DEF RefineDemandAware
  <2>2. AsAsked(selected') /\ NoWorse'
    BY <1>3, <1>5, <1>7, <2>1 DEF NoWorse
  <2> QED BY <1>1, <1>2, <1>3, <1>7, <2>1, <2>2, RefiningKeepsRecord
        DEF PitchFromBaseline, PitchWithinBudget, Offering
<1>9. CASE RefineOrdinaryFanout \/ RefineRegionalFanout
  <2>1. /\ UNCHANGED <<outcome, baseline, pitched>> /\ stage' \in {"regional", "pitch"}
        /\ \/ \E d \in Drawings : FanoutImproves(d)
           \/ selected' = selected
    BY <1>9 DEF RefineOrdinaryFanout, RefineRegionalFanout
  <2>2. AsAsked(selected') /\ NoWorse'
    <3>1. CASE selected' = selected
      BY <1>3, <1>7, <3>1 DEF NoWorse
    <3>2. ASSUME NEW d \in Drawings, FanoutImproves(d)
          PROVE  AsAsked(selected') /\ NoWorse'
      <4>1. /\ AsAsked(selected') /\ selected' # Void
            /\ ~request.bundles => selected'.quality = d.raw.quality
        BY <1>5, <3>2 DEF FanoutImproves
      <4>2. d.raw.quality \in Quality /\ RouteLess(d.raw.quality, selected.raw.quality)
        BY <3>2, DrawingsAssumption DEF FanoutImproves, Drawing, Measures
      <4>3. ~request.bundles /\ request.effort # "max" => selected.quality = selected.raw.quality
        BY <1>3, <1>7 DEF AsAsked, OwnQuality
      <4> QED BY <1>3, <1>6, <4>1, <4>2, <4>3 DEF NoWorse
    <3> QED BY <2>1, <3>1, <3>2
  <2> QED BY <1>1, <1>2, <1>3, <1>7, <2>1, <2>2, RefiningKeepsRecord
        DEF PitchFromBaseline, PitchWithinBudget, Offering
<1>10. CASE RefineHorizontalPitch
  <2>1. /\ UNCHANGED outcome /\ stage' = "gap"
        /\ baseline' = IF Pitching THEN selected ELSE Void
        /\ \/ Pitching /\ pitched' = TRUE /\ \E d \in Drawings : ReplaceBy(d)
           \/ selected' = selected /\ pitched' = pitched
    BY <1>10 DEF RefineHorizontalPitch, PitchBy
  <2>2. AsAsked(selected') /\ NoWorse'
    BY <1>3, <1>5, <1>7, <2>1 DEF NoWorse, Pitching
  <2>3. AsAsked(baseline') /\ PitchFromBaseline' /\ PitchWithinBudget'
    BY <1>3, <1>7, <2>1 DEF PitchFromBaseline, PitchWithinBudget, Pitching
  <2> QED BY <1>1, <1>2, <2>1, <2>2, <2>3, RefiningKeepsRecord DEF Offering
<1>11. CASE RefinePitchedGap
  <2>1. /\ UNCHANGED <<outcome, baseline>> /\ stage = "gap" /\ stage' = "rollback"
        /\ \/ Pitching /\ pitched' = TRUE /\ \E d \in Drawings : ReplaceBy(d)
           \/ selected' = selected /\ pitched' = pitched
    BY <1>11 DEF RefinePitchedGap, PitchBy
  <2>2. AsAsked(selected') /\ NoWorse'
    BY <1>3, <1>5, <1>7, <2>1 DEF NoWorse, Pitching
  <2>3. AsAsked(baseline') /\ PitchFromBaseline' /\ PitchWithinBudget'
    BY <1>3, <1>7, <2>1 DEF PitchFromBaseline, PitchWithinBudget
  <2> QED BY <1>1, <1>2, <2>1, <2>2, <2>3, RefiningKeepsRecord DEF Offering
<1>12. CASE RollBackPitch
  <2>1. /\ UNCHANGED <<outcome, baseline, pitched>> /\ stage = "rollback" /\ stage' = "rebundle"
        /\ selected' = IF pitched /\ baseline # Void /\ ~CompositeInBudget
                       THEN baseline ELSE selected
    BY <1>12 DEF RollBackPitch
  <2>2. AsAsked(selected') /\ NoWorse'
    BY <1>3, <1>7, <2>1 DEF NoWorse, PitchFromBaseline
  <2>3. PitchFromBaseline'
    BY <1>3, <1>7, <2>1 DEF PitchFromBaseline
  <2>4. PitchWithinBudget'
    <3>1. CASE selected' = baseline /\ baseline # Void
      <4>1. /\ baseline.quality \in Quality /\ baseline.layout.measures.area \in Nat
            /\ baseline.quality = baseline.layout.measures.quality
        BY <1>3, <3>1 DEF Slot, AdmittedCandidate, Layout, Measures, Sound
      <4>2. CompositeAdmissible(baseline.quality, baseline.layout.measures.area,
                                baseline.quality, baseline.layout.measures.area, request)
        BY <1>3, <4>1, CompositeOfItself
      <4> QED BY <1>3, <2>1, <3>1, <4>1, <4>2 DEF PitchWithinBudget, CompositeInBudget
    <3>2. CASE baseline # Void /\ CompositeInBudget /\ selected' = selected
      BY <1>3, <2>1, <3>2 DEF PitchWithinBudget, CompositeInBudget
    <3>3. CASE baseline = Void
      BY <2>1, <3>3 DEF PitchWithinBudget
    <3>4. baseline # Void /\ ~pitched => selected = baseline
      BY <1>7, <2>1 DEF PitchFromBaseline
    <3> QED BY <2>1, <3>1, <3>2, <3>3, <3>4
  <2> QED BY <1>1, <1>2, <1>7, <2>1, <2>2, <2>3, <2>4, RefiningKeepsRecord DEF Offering
<1>13. CASE RefineBundles
  <2>1. /\ UNCHANGED <<outcome, baseline, pitched>> /\ stage' = "tracks"
        /\ \/ \E layout \in RefinedLayouts : RefinementWins(layout) /\ Become(layout)
           \/ selected' = selected
    BY <1>13 DEF RefineBundles
  <2>2. AsAsked(selected') /\ NoWorse'
    <3>1. CASE selected' = selected
      BY <1>3, <1>7, <3>1 DEF NoWorse
    <3>2. ASSUME NEW layout \in RefinedLayouts, RefinementWins(layout), Become(layout)
          PROVE  AsAsked(selected') /\ NoWorse'
      <4>1. /\ selected'.quality = layout.measures.quality /\ selected'.layout = layout
            /\ selected'.raw = selected.raw
        BY <1>3, <3>2 DEF Become, AdmittedCandidate
      <4>2. CASE ~request.bundles
        <5>1. layout.measures = selected.raw
          BY <3>2, <4>2 DEF RefinedLayouts
        <5>2. RouteLess(selected.raw.quality, selected.quality)
          <6>1. /\ selected.raw.quality.crossings <= selected.quality.crossings
                /\ selected.raw.quality.bends < selected.quality.bends
            BY <3>2, <5>1 DEF RefinementWins
          <6> QED BY <1>4, <6>1 DEF RouteLess, Quality
        <5> QED BY <1>3, <1>4, <1>6, <4>1, <4>2, <5>1, <5>2 DEF AsAsked, OwnQuality, Drawn, NoWorse
      <4>3. CASE request.bundles
        <5>1. request.fewBundles /\ ~request.spacing => layout.bundles
          BY <3>2, <4>3 DEF RefinedLayouts
        <5> QED BY <1>3, <4>1, <4>3, <5>1 DEF AsAsked, OwnQuality, Drawn, NoWorse
      <4> QED BY <4>2, <4>3
    <3> QED BY <2>1, <3>1, <3>2
  <2> QED BY <1>1, <1>2, <1>3, <1>7, <2>1, <2>2, RefiningKeepsRecord
        DEF PitchFromBaseline, PitchWithinBudget, Offering
<1>14. CASE RefineTracks
  <2>1. /\ UNCHANGED <<baseline, pitched>> /\ outcome' = "returned" /\ stage' = "done"
        /\ \/ request.effort = "max" /\ \E d \in Drawings : Become(Spread(d))
           \/ selected' = selected
    BY <1>14 DEF RefineTracks
  <2>2. AsAsked(selected') /\ NoWorse'
    <3>1. CASE selected' = selected
      BY <1>3, <1>7, <3>1 DEF NoWorse
    <3>2. ASSUME request.effort = "max", NEW d \in Drawings, Become(Spread(d))
          PROVE  AsAsked(selected') /\ NoWorse'
      <4>1. selected'.layout.bundles = selected.layout.bundles
        BY <1>3, <3>2 DEF Become, Spread, AdmittedCandidate
      <4> QED BY <1>3, <1>7, <3>2, <4>1 DEF AsAsked, OwnQuality, Drawn, NoWorse
    <3> QED BY <2>1, <3>1, <3>2
  <2> QED BY <1>1, <1>2, <1>3, <1>7, <2>1, <2>2, RefiningKeepsRecord
        DEF PitchFromBaseline, PitchWithinBudget, Offering
<1> QED BY <1>8, <1>9, <1>10, <1>11, <1>12, <1>13, <1>14 DEF Refine

-----------------------------------------------------------------------------
(* The theorems.                                                           *)

LEMMA NextIInv == IInv /\ [Next]_vars => IInv'
<1> SUFFICES ASSUME IInv, [Next]_vars PROVE IInv'
  OBVIOUS
<1>1. CASE \/ EvaluateBaseline \/ EvaluateOrdinary \/ EvaluatePreferred \/ EvaluateSifted
           \/ EvaluateNetRepresentative \/ EvaluateFallback
  BY <1>1, EvaluateStagesKeep
<1>2. CASE EvaluateLatest
  <2>1. CASE RetainLatest
    BY <2>1, RetainLatestKeeps
  <2>2. CASE stage = "latest" /\ (Proceed("latest_constrained") \/ Proceed("chain"))
    <3>1. local = Void
      BY <2>2 DEF IInv, Phases
    <3>2. {"latest", "latest_constrained", "chain"} \subseteq Offering /\ "latest" \in BeforeLatestWins
      BY DEF Offering, BeforeLatestWins
    <3>3. QED
      BY <2>2, <3>1, <3>2, ProceedKeeps
  <2>3. QED
    BY <1>2, <2>1, <2>2 DEF EvaluateLatest
<1>3. CASE RouteLatest
  <2>1. PICK d \in Drawings : OfferToLocal(d, FALSE) /\ offered' = offered \cup {d}
    BY <1>3 DEF RouteLatest
  <2>2. stage = "latest_constrained"
    BY <1>3 DEF RouteLatest
  <2>3. QED
    BY <2>1, <2>2, OfferToLocalKeeps
<1>4. CASE RouteStraightChain
  <2>1. PICK d \in Drawings :
          /\ OfferToLocal(d, TRUE)
          /\ offered' = IF best = Void THEN offered \cup {d} ELSE offered
    BY <1>4 DEF RouteStraightChain
  <2>2. stage = "chain"
    BY <1>4 DEF RouteStraightChain
  <2>3. QED
    BY <2>1, <2>2, OfferToLocalKeeps
<1>5. CASE MergeLatest
  BY <1>5, MergeLatestKeeps
<1>6. CASE MergeStraightChain
  BY <1>6, MergeStraightChainKeeps
<1>7. CASE Fail
  BY <1>7, FailKeeps
<1>8. CASE Choose
  BY <1>8, ChooseKeeps
<1>9. CASE Refine
  BY <1>9, RefineStepsKeep
<1>10. CASE UNCHANGED vars
  BY <1>10 DEF vars, refining, IInv, TypeOK, Phases, AllSound, Sound, Lead, NothingLost, Kept,
               FailureEarned
<1>11. QED
  BY <1>1, <1>2, <1>3, <1>4, <1>5, <1>6, <1>7, <1>8, <1>9, <1>10 DEF Next, Select

LEMMA IInvImplies ==
  IInv => /\ TypeOK /\ BestIsLeast /\ FailsOnlyUnadmitted
          /\ QualityDescribesLayout /\ UnbundledContractKept /\ PlanMatchesBest
<1> SUFFICES ASSUME IInv
             PROVE  /\ TypeOK /\ BestIsLeast /\ FailsOnlyUnadmitted
                    /\ QualityDescribesLayout /\ UnbundledContractKept /\ PlanMatchesBest
  OBVIOUS
<1>1. BestIsLeast
  BY DEF IInv, Phases, NothingLost, BestIsLeast, Kept, Offering
<1>2. FailsOnlyUnadmitted
  BY DEF IInv, FailureEarned, FailsOnlyUnadmitted
<1>3. outcome = "returned" => selected # Void
  BY FailuresApart DEF IInv, TypeOK, Phases, Offering
<1>4. QualityDescribesLayout /\ UnbundledContractKept /\ PlanMatchesBest
  BY <1>3 DEF IInv, AllSound, Sound, Lead, QualityDescribesLayout, UnbundledContractKept,
              PlanMatchesBest
<1>5. QED
  BY <1>1, <1>2, <1>4 DEF IInv

(* For every set of requests and drawings: the selection loses no better   *)
(* admitted drawing, fails only when there is none, and what it returns is *)
(* measured as it is and, without boundary bundles, vetted as it is.       *)
THEOREM SelectionCorrect ==
  Spec => [](/\ TypeOK /\ BestIsLeast /\ FailsOnlyUnadmitted
             /\ QualityDescribesLayout /\ UnbundledContractKept /\ PlanMatchesBest)
<1>1. Init => IInv
  BY InitIInv
<1>2. IInv /\ [Next]_vars => IInv'
  BY NextIInv
<1>3. QED
  BY <1>1, <1>2, IInvImplies, PTL DEF Spec

\* Whichever slot a step retains from, it replaces best by a better candidate.
LEMMA StepImproves ==
  IInv /\ [Next]_vars =>
    (best # Void /\ best' # best => best' # Void /\ CandidateLess(best'.raw, best.raw))
<1> SUFFICES ASSUME IInv, Next, best # Void, best' # best
             PROVE  best' # Void /\ CandidateLess(best'.raw, best.raw)
  BY DEF vars
<1>1. \/ \E d \in Drawings, p \in BOOLEAN : best' = Retained(d, best, p)
      \/ best' = local /\ local # Void /\ Better(local, best)
  BY DEF Next, Select, Refine, Refining, refining, Proceed, OfferToBest, OfferToLocal,
         EvaluateBaseline, EvaluateOrdinary, EvaluatePreferred, EvaluateSifted,
         EvaluateNetRepresentative, EvaluateFallback, EvaluateIf, Evaluate, EvaluateLatest,
         RetainLatest, RouteLatest, MergeLatest, LatestWins, RouteStraightChain,
         MergeStraightChain, KeepChain, RefuseChain, Fail, Choose,
         RefineDemandAware, RefineOrdinaryFanout, RefineRegionalFanout, RefineHorizontalPitch,
         RefinePitchedGap, RollBackPitch, RefineBundles, RefineTracks
<1>2. CASE \E d \in Drawings, p \in BOOLEAN : best' = Retained(d, best, p)
  <2>1. PICK d \in Drawings, p \in BOOLEAN : best' = Retained(d, best, p)
    BY <1>2
  <2>2. d \in Drawing /\ request \in Request /\ best \in Slot
    BY DrawingsAssumption, RequestsAssumption DEF IInv, TypeOK, Slot
  <2>3. QED
    BY <2>1, <2>2, RetainedKeeps
<1>3. CASE best' = local /\ local # Void /\ Better(local, best)
  BY <1>3 DEF Better
<1>4. QED
  BY <1>1, <1>2, <1>3

(* best is replaced only by a strictly better candidate, so among equal    *)
(* ones the earliest wins (retain_better_admitted_candidate).              *)
THEOREM SelectionImproves == Spec => BestOnlyImproves
<1>1. Init => IInv
  BY InitIInv
<1>2. IInv /\ [Next]_vars => IInv'
  BY NextIInv
<1>3. IInv /\ [Next]_vars =>
        [best # Void /\ best' # best => best' # Void /\ CandidateLess(best'.raw, best.raw)]_vars
  BY StepImproves
<1>4. QED
  BY <1>1, <1>2, <1>3, PTL DEF Spec, BestOnlyImproves

-----------------------------------------------------------------------------
(* What a failure reports and what the returned layout owes.               *)

LEMMA InitJInv == Init => JInv
<1> SUFFICES ASSUME Init PROVE JInv
  OBVIOUS
<1>1. FlagsOfOffered /\ SomethingOffered
  BY DEF Init, FlagsOfOffered, SomethingOffered, AllRecorded
<1>2. ErrorIsTruthful /\ NoWorse /\ PitchFromBaseline /\ PitchWithinBudget
  BY FailuresApart DEF Init, ErrorIsTruthful, NoWorse, PitchFromBaseline, PitchWithinBudget
<1>3. AsAsked(best) /\ AsAsked(local) /\ AsAsked(selected) /\ AsAsked(baseline)
  BY DEF Init, AsAsked, OwnQuality, Drawn
<1> QED BY <1>1, <1>2, <1>3 DEF JInv

LEMMA NextJInv == IInv /\ JInv /\ [Next]_vars => JInv'
<1> SUFFICES ASSUME IInv, JInv, [Next]_vars PROVE JInv'
  OBVIOUS
<1>1. CASE Select
  BY <1>1, SelectKeepsRecord, FailKeepsRecord, ChooseKeepsRecord
<1>2. CASE Refine
  BY <1>2, RefineKeepsRecord
<1>3. CASE UNCHANGED vars
  <2>1. /\ FlagsOfOffered' /\ SomethingOffered' /\ ErrorIsTruthful'
    BY <1>3 DEF vars, JInv, FlagsOfOffered, SomethingOffered, ErrorIsTruthful
  <2>2. AsAsked(best)' /\ AsAsked(local)' /\ AsAsked(selected)' /\ AsAsked(baseline)'
    BY <1>3 DEF vars, refining, JInv, AsAsked, OwnQuality, Drawn
  <2>3. NoWorse' /\ PitchFromBaseline' /\ PitchWithinBudget'
    BY <1>3 DEF vars, refining, JInv, NoWorse, PitchFromBaseline, PitchWithinBudget,
                CompositeInBudget
  <2> QED BY <2>1, <2>2, <2>3 DEF JInv
<1> QED BY <1>1, <1>2, <1>3 DEF Next

LEMMA RecordHolds == Spec => [](IInv /\ JInv)
<1>1. Init => IInv /\ JInv
  BY InitIInv, InitJInv
<1>2. IInv /\ JInv /\ [Next]_vars => (IInv /\ JInv)'
  BY NextIInv, NextJInv
<1> QED BY <1>1, <1>2, PTL DEF Spec

LEMMA JInvImplies ==
  IInv /\ JInv =>
    FailuresAreTruthful /\ SelectedIsAsDescribed /\ RefinementsKeepWithinBounds
<1> SUFFICES ASSUME IInv, JInv
             PROVE  FailuresAreTruthful /\ SelectedIsAsDescribed /\ RefinementsKeepWithinBounds
  OBVIOUS
<1>1. FailuresAreTruthful
  BY IInvImplies DEF JInv, FailuresAreTruthful
<1>2. outcome = "returned" => selected # Void
  BY FailuresApart DEF IInv, TypeOK, Phases, Offering
<1>3. SelectedIsAsDescribed
  BY <1>2, IInvImplies DEF JInv, AsAsked, Drawn, SelectedIsAsDescribed, ReturnedAsAsked
<1>4. RefinementsKeepWithinBounds
  BY <1>2 DEF JInv, NoWorse, RefinementsKeepWithinBounds, RefinementNeverWorsens
<1> QED BY <1>1, <1>3, <1>4

(* A call fails only if it admitted none of the drawings it was offered,   *)
(* and the reason it reports is the reason of one of them; that a hard     *)
(* constraint cannot be met is said only if no limit stopped the           *)
(* examination of any of them (hard_geometry_failure, which reads nothing  *)
(* but the flags of CandidateAdmissionState).                              *)
THEOREM FailuresCorrect == Spec => []FailuresAreTruthful
BY RecordHolds, JInvImplies, PTL

(* Whatever is refined, rolled back or left alone, the chosen layout is    *)
(* compared by its own quality, refined by the plan it was placed with,    *)
(* and returned with the checks passed and the bundles drawn that the      *)
(* request asked for (layout_indexed).                                     *)
THEOREM SelectedCorrect == Spec => []SelectedIsAsDescribed
BY RecordHolds, JInvImplies, PTL

(* Below the maximum effort and without bundles no sequence of refinements *)
(* returns worse routes than were selected, and after the rollback the two *)
(* pitch refinements together are within one budget, for all factors that  *)
(* validate_options accepts: with one below 1.0 the layout rolled back to  *)
(* would exceed its own budget.                                            *)
THEOREM RefinementsCorrect == Spec => []RefinementsKeepWithinBounds
BY RecordHolds, JInvImplies, PTL

-----------------------------------------------------------------------------
(* What drawings are made of.                                              *)

Spacings == {"compact", "adaptive", "expanded"}
Shapes == {"aligned", "negotiated"}
LaneSet == [order : {"initial", "found"} \cup LaneOrders, moved : {"found", "moved", "deep"}]
OuterSet == [channels : {"stable", "fanned"}, coherent : BOOLEAN, resided : BOOLEAN]
TrackSet == [lanes : LaneSet \cup {None}, channels : {"stable", "fanned", None},
             spacing : Spacings \cup {None}]
PathSet == [tracks : TrackSet, straight : BOOLEAN, shape : {"found"} \cup Shapes]
PlanSet == [lanes : LaneSet, tracks : TrackSet, paths : PathSet, outer : OuterSet, spacing : Spacings]
FeatureNames == {"initial", "found", "straight", "coherent", "resided", "fanned"} \cup LaneOrders
                   \cup {"moved", "deep"} \cup Shapes \cup Spacings
RouteSet == [features : SUBSET FeatureNames, tracks : TrackSet, through : TrackSet]
QualitySet == [crossings : Int, bends : Int, length : Nat]
OfferSet == [quality : QualitySet, routes : RouteSet]
DrawingSet ==
  [plan : PlanSet, match : BOOLEAN, routes : RouteSet, quality : QualitySet \cup {None},
   profile : OfferSet \cup {None}, offers : SUBSET OfferSet, repair : SUBSET OfferSet,
   deeper : SUBSET OfferSet, from : SUBSET PlanSet]
ResultSet ==
  [primary : [quality : QualitySet \cup {None}, routes : RouteSet],
   repair : SUBSET OfferSet, alternatives : SUBSET OfferSet]

LEMMA OneMore ==
  ASSUME NEW S, NEW x, IsFiniteSet(S)
  PROVE  /\ IsFiniteSet(S \cup {x})
         /\ \A n \in Nat : Cardinality(S) <= n => Cardinality(S \cup {x}) <= n + 1
<1>1. Cardinality(S) \in Nat
  BY FS_CardinalityType
<1> QED BY <1>1, FS_AddElement

LEMMA FewAreFinite ==
  ASSUME NEW a, NEW b, NEW c, NEW d
  PROVE  IsFiniteSet({a, b, c, d}) /\ Cardinality({a, b, c, d}) <= 4
<1>1. IsFiniteSet({}) /\ Cardinality({}) <= 0
  BY FS_EmptySet
<1>2. PICK A, B, C, D : A = {} \cup {a} /\ B = A \cup {b} /\ C = B \cup {c} /\ D = C \cup {d}
  OBVIOUS
<1>3. IsFiniteSet(A) /\ Cardinality(A) <= 1
  <2>1. IsFiniteSet(A) /\ \A n \in Nat : Cardinality({}) <= n => Cardinality(A) <= n + 1
    BY <1>1, <1>2, OneMore
  <2> QED BY <1>1, <2>1
<1>4. IsFiniteSet(B) /\ Cardinality(B) <= 2
  <2>1. IsFiniteSet(B) /\ \A n \in Nat : Cardinality(A) <= n => Cardinality(B) <= n + 1
    BY <1>2, <1>3, OneMore
  <2> QED BY <1>3, <2>1
<1>5. IsFiniteSet(C) /\ Cardinality(C) <= 3
  <2>1. IsFiniteSet(C) /\ \A n \in Nat : Cardinality(B) <= n => Cardinality(C) <= n + 1
    BY <1>2, <1>4, OneMore
  <2> QED BY <1>4, <2>1
<1>6. IsFiniteSet(D) /\ Cardinality(D) <= 4
  <2>1. IsFiniteSet(D) /\ \A n \in Nat : Cardinality(C) <= n => Cardinality(D) <= n + 1
    BY <1>2, <1>5, OneMore
  <2> QED BY <1>5, <2>1
<1>7. D = {a, b, c, d}
  BY <1>2
<1> QED BY <1>6, <1>7

LEMMA FeaturesAreFinite == IsFiniteSet(FeatureNames) /\ Cardinality(FeatureNames) <= 16
<1>1. PICK A, B, C, D : /\ A = {"initial", "found", "straight", "coherent"}
                        /\ B = {"resided", "fanned", "global", "preserved"}
                        /\ C = {"refined", "moved", "deep", "aligned"}
                        /\ D = {"negotiated", "compact", "adaptive", "expanded"}
  OBVIOUS
<1>2. /\ IsFiniteSet(A) /\ IsFiniteSet(B) /\ IsFiniteSet(C) /\ IsFiniteSet(D)
      /\ Cardinality(A) <= 4 /\ Cardinality(B) <= 4 /\ Cardinality(C) <= 4 /\ Cardinality(D) <= 4
  BY <1>1, FewAreFinite
<1>3. \A S, T : IsFiniteSet(S) /\ IsFiniteSet(T) =>
        /\ IsFiniteSet(S \cup T) /\ Cardinality(S \cup T) <= Cardinality(S) + Cardinality(T)
        /\ Cardinality(S) \in Nat /\ Cardinality(T) \in Nat /\ Cardinality(S \cup T) \in Nat
  <2> SUFFICES ASSUME NEW S, NEW T, IsFiniteSet(S), IsFiniteSet(T)
               PROVE  /\ IsFiniteSet(S \cup T) /\ Cardinality(S \cup T) <= Cardinality(S) + Cardinality(T)
                      /\ Cardinality(S) \in Nat /\ Cardinality(T) \in Nat /\ Cardinality(S \cup T) \in Nat
    OBVIOUS
  <2>1. IsFiniteSet(S \cup T) /\ IsFiniteSet(S \cap T)
        /\ Cardinality(S \cup T) = Cardinality(S) + Cardinality(T) - Cardinality(S \cap T)
    BY FS_Union, FS_Intersection
  <2> QED BY <2>1, FS_CardinalityType
<1>4. IsFiniteSet(A \cup B) /\ IsFiniteSet(C \cup D) /\ Cardinality(A \cup B) <= 8 /\ Cardinality(C \cup D) <= 8
  BY <1>2, <1>3
<1>5. IsFiniteSet((A \cup B) \cup (C \cup D)) /\ Cardinality((A \cup B) \cup (C \cup D)) <= 16
  BY <1>3, <1>4
<1>6. FeatureNames = (A \cup B) \cup (C \cup D)
  BY <1>1 DEF FeatureNames, LaneOrders, Shapes, Spacings
<1> QED BY <1>5, <1>6

\* The quality of routes is that of their features.
LEMMA QualitiesAreNumbers ==
  ASSUME NEW routes \in RouteSet
  PROVE  RouteQualityForPlan(routes) \in QualitySet
<1>1. ASSUME NEW effect PROVE Count(routes, effect) \in 0..16
  <2>1. {f \in routes.features : world.effect[f] = effect} \subseteq FeatureNames
    BY DEF RouteSet
  <2>2. /\ IsFiniteSet({f \in routes.features : world.effect[f] = effect})
        /\ Cardinality({f \in routes.features : world.effect[f] = effect}) <= Cardinality(FeatureNames)
    BY <2>1, FeaturesAreFinite, FS_Subset
  <2> QED BY <2>2, FeaturesAreFinite, FS_CardinalityType DEF Count
<1>2. /\ Count(routes, "more") \in 0..16 /\ Count(routes, "fewer") \in 0..16
      /\ Count(routes, "bent") \in 0..16 /\ Count(routes, "longer") \in 0..16
      /\ Count(routes, "shorter") \in 0..16
  BY <1>1
<1> QED BY <1>2 DEF RouteQualityForPlan, QualitySet

LEMMA QualityIsOfFeatures ==
  ASSUME NEW a, NEW b, a.features = b.features
  PROVE  RouteQualityForPlan(a) = RouteQualityForPlan(b)
BY DEF RouteQualityForPlan, Count

LEMMA PlansAreDrawn ==
  ASSUME NEW plan \in PlanSet
  PROVE  EmitRoutes(plan) \in RouteSet
<1>1. Features(plan) \subseteq FeatureNames
  BY DEF Features, PlanSet, LaneSet, OuterSet, PathSet, FeatureNames
<1>2. plan.tracks \in TrackSet /\ plan.paths.tracks \in TrackSet
  BY DEF PlanSet, PathSet
<1> QED BY <1>1, <1>2 DEF EmitRoutes, RouteSet

LEMMA TracksAreBuilt ==
  ASSUME NEW lanes \in LaneSet, NEW outer \in OuterSet, NEW spacing \in Spacings
  PROVE  BuildEndpointTracks(lanes, outer, spacing) \in TrackSet
BY DEF BuildEndpointTracks, TrackSet, OuterSet

\* What is drawn and measured does not change during a call.
LEMMA CallGoesOn ==
  ASSUME UNCHANGED <<routing, world>>
  PROVE  /\ \A plan : EmitRoutes(plan)' = EmitRoutes(plan)
         /\ \A routes : RouteQualityForPlan(routes)' = RouteQualityForPlan(routes)
BY DEF EmitRoutes, Features, RouteQualityForPlan, Count

-----------------------------------------------------------------------------
(* What is true of every drawing and of every offer.                       *)

FoundPlan(plan) == plan \in PlanSet /\ plan.paths.shape = "found"

PlainPlan(plan) == FoundPlan(plan) /\ plan.lanes.moved = "found" /\ ~plan.outer.resided

Unshaped(routes) == [routes EXCEPT !.features = @ \ Shapes]

OfferOK(o) ==
  /\ o \in OfferSet
  /\ o.quality = RouteQualityForPlan(o.routes)
  /\ \/ routing.exact
     \/ Unshaped(o.routes) = o.routes
     \/ Shorter(o.quality, RouteQualityForPlan(Unshaped(o.routes)))

DrawingOK(d) ==
  /\ d \in DrawingSet
  /\ PlainPlan(d.plan) /\ d.routes = EmitRoutes(d.plan)
  /\ d.match => d.plan.paths.tracks = d.plan.tracks
  /\ d.quality # None => d.quality = RouteQualityForPlan(d.routes)
  /\ d.profile # None => d.profile \in OfferSet /\ d.profile.quality = RouteQualityForPlan(d.profile.routes)
  /\ \A o \in d.offers \cup d.repair \cup d.deeper : OfferOK(o)
  /\ \A p \in d.from : FoundPlan(p) /\ p.outer.channels = d.plan.outer.channels

ResultOK(x) ==
  /\ x \in ResultSet
  /\ Unshaped(x.primary.routes) = x.primary.routes
  /\ x.primary.quality # None => x.primary.quality = RouteQualityForPlan(x.primary.routes)
  /\ \A o \in x.repair \cup x.alternatives : OfferOK(o)

LEMMA PrimariesAreUnshaped ==
  ASSUME NEW plan, FoundPlan(plan)
  PROVE  Unshaped(EmitRoutes(plan)) = EmitRoutes(plan)
<1>1. Features(plan) \cap Shapes = {}
  BY DEF Features, FoundPlan, PlanSet, LaneSet, OuterSet, PathSet, Shapes, LaneOrders, Spacings
<1>2. PICK r : r = EmitRoutes(plan)
  OBVIOUS
<1>3. r \in RouteSet
  BY <1>2, PlansAreDrawn DEF FoundPlan
<1>4. r.features \cap Shapes = {}
  BY <1>1, <1>2 DEF EmitRoutes
<1>5. r.features \ Shapes = r.features
  BY <1>4
<1>6. Unshaped(r) = r
  BY <1>3, <1>5 DEF Unshaped, RouteSet
<1> QED BY <1>2, <1>6

LEMMA PlainOffer ==
  ASSUME NEW plan, FoundPlan(plan), NEW quality, quality = RouteQualityForPlan(EmitRoutes(plan))
  PROVE  OfferOK([quality |-> quality, routes |-> EmitRoutes(plan)])
<1>1. EmitRoutes(plan) \in RouteSet /\ quality \in QualitySet
  BY PlansAreDrawn, QualitiesAreNumbers DEF FoundPlan
<1> QED BY <1>1, PrimariesAreUnshaped DEF OfferOK, OfferSet

\* A drawing with shaped paths, but for them, is as good as the one it was made from.
LEMMA ShapedPaths ==
  ASSUME NEW plan, FoundPlan(plan), plan.outer.channels = "stable",
         NEW shape \in Shapes, NEW tracks \in TrackSet,
         NEW shaped, shaped = [plan EXCEPT !.paths.shape = shape, !.tracks = tracks]
  PROVE  /\ shaped \in PlanSet
         /\ RouteQualityForPlan(Unshaped(EmitRoutes(shaped))) = RouteQualityForPlan(EmitRoutes(plan))
<1>1. /\ shaped \in PlanSet /\ shaped.paths.shape = shape
      /\ shaped.lanes = plan.lanes /\ shaped.outer = plan.outer /\ shaped.spacing = plan.spacing
      /\ shaped.paths.straight = plan.paths.straight
  BY DEF FoundPlan, PlanSet, PathSet
<1>2. Features(plan) \cap Shapes = {}
  BY DEF Features, FoundPlan, PlanSet, LaneSet, OuterSet, PathSet, Shapes, LaneOrders, Spacings
<1>3. "found" \in Features(plan) /\ "found" \notin Shapes
  BY DEF Features, Shapes
<1>4. Features(shaped) = Features(plan) \cup {shape}
  BY <1>1 DEF Features, FoundPlan
<1>5. PICK r, u : r = EmitRoutes(shaped) /\ u = EmitRoutes(plan)
  OBVIOUS
<1>6. r.features = {f \in Features(plan) \cup {shape} : world.effect[f] # "inert"}
      /\ u.features = {f \in Features(plan) : world.effect[f] # "inert"}
  BY <1>4, <1>5 DEF EmitRoutes
<1>7. r.features \ Shapes = u.features
  BY <1>2, <1>6
<1>8. r \in RouteSet
  BY <1>1, <1>5, PlansAreDrawn
<1>9. Unshaped(r).features = u.features
  BY <1>7, <1>8 DEF Unshaped, RouteSet
<1> QED BY <1>1, <1>5, <1>9, QualityIsOfFeatures

LEMMA ShapedOffer ==
  ASSUME NEW plan, FoundPlan(plan), plan.outer.channels = "stable",
         NEW shape \in Shapes, NEW tracks \in TrackSet,
         NEW shaped, shaped = [plan EXCEPT !.paths.shape = shape, !.tracks = tracks],
         NEW quality, quality = RouteQualityForPlan(EmitRoutes(shaped)),
         routing.exact \/ Shorter(quality, RouteQualityForPlan(EmitRoutes(plan)))
  PROVE  OfferOK([quality |-> quality, routes |-> EmitRoutes(shaped)])
<1>1. /\ shaped \in PlanSet
      /\ RouteQualityForPlan(Unshaped(EmitRoutes(shaped))) = RouteQualityForPlan(EmitRoutes(plan))
  BY ShapedPaths
<1>2. EmitRoutes(shaped) \in RouteSet /\ quality \in QualitySet
  BY <1>1, PlansAreDrawn, QualitiesAreNumbers
<1> QED BY <1>1, <1>2 DEF OfferOK, OfferSet

QualityIsKnown(d) == d.quality = RouteQualityForPlan(d.routes)

LEMMA PiecesGoOn ==
  ASSUME UNCHANGED <<routing, world>>
  PROVE  /\ \A o : OfferOK(o)' <=> OfferOK(o)
         /\ \A d : DrawingOK(d)' <=> DrawingOK(d)
         /\ \A x : ResultOK(x)' <=> ResultOK(x)
         /\ \A d : QualityIsKnown(d)' <=> QualityIsKnown(d)
<1>1. /\ \A plan : EmitRoutes(plan)' = EmitRoutes(plan)
      /\ \A routes : RouteQualityForPlan(routes)' = RouteQualityForPlan(routes)
  BY CallGoesOn
<1>2. \A o : OfferOK(o)' <=> OfferOK(o)
  BY <1>1 DEF OfferOK
<1>3. \A d : DrawingOK(d)' <=> DrawingOK(d)
  BY <1>1, <1>2 DEF DrawingOK
<1>4. \A x : ResultOK(x)' <=> ResultOK(x)
  BY <1>1, <1>2 DEF ResultOK
<1>5. \A d : QualityIsKnown(d)' <=> QualityIsKnown(d)
  BY <1>1 DEF QualityIsKnown
<1> QED BY <1>2, <1>3, <1>4, <1>5

-----------------------------------------------------------------------------
(* What is done to a drawing.                                              *)

Holds(set, routes) == \E o \in set : o.routes = routes

SameKin(d, e) ==
  /\ d.repair = e.repair /\ d.deeper = e.deeper /\ d.from = e.from
  /\ d.plan.outer.channels = e.plan.outer.channels

LEMMA FreshIsOK ==
  ASSUME NEW plan, PlainPlan(plan), NEW match \in BOOLEAN, match => plan.paths.tracks = plan.tracks
  PROVE  /\ DrawingOK(Fresh(plan, match))
         /\ Fresh(plan, match).plan = plan /\ Fresh(plan, match).match = match
         /\ Fresh(plan, match).routes = EmitRoutes(plan)
         /\ Fresh(plan, match).repair = {} /\ Fresh(plan, match).deeper = {}
         /\ Fresh(plan, match).offers = {} /\ Fresh(plan, match).profile = None
<1>1. EmitRoutes(plan) \in RouteSet
  BY PlansAreDrawn DEF PlainPlan, FoundPlan
<1> QED BY <1>1 DEF Fresh, DrawingOK, DrawingSet, PlainPlan, FoundPlan

\* Another spacing without new crossings has the quality that is taken over.
LEMMA CrossingsAreKept ==
  ASSUME world \in Worlds, SpacingScoreReuseIsEligible,
         NEW plan \in PlanSet, NEW spacing \in Spacings,
         NEW other, other = [plan EXCEPT !.spacing = spacing]
  PROVE  /\ RouteQualityForPlan(EmitRoutes(other)).crossings = RouteQualityForPlan(EmitRoutes(plan)).crossings
         /\ RouteQualityForPlan(EmitRoutes(other)).bends = RouteQualityForPlan(EmitRoutes(plan)).bends
<1>1. \A f \in Spacings : world.effect[f] \notin {"fewer", "more", "bent"}
  BY WorldsAssumption DEF SpacingKeepsCrossings, SpacingScoreReuseIsEligible, Spacings
<1>2. /\ other.lanes = plan.lanes /\ other.paths = plan.paths /\ other.outer = plan.outer
      /\ other.spacing \in Spacings /\ plan.spacing \in Spacings
  BY DEF PlanSet
<1>3. \A f : f \notin Spacings => (f \in Features(other) <=> f \in Features(plan))
  BY <1>2 DEF Features
<1>4. PICK r, s : r = EmitRoutes(other) /\ s = EmitRoutes(plan)
  OBVIOUS
<1>5. /\ r.features = {f \in Features(other) : world.effect[f] # "inert"}
      /\ s.features = {f \in Features(plan) : world.effect[f] # "inert"}
  BY <1>4 DEF EmitRoutes
<1>6. ASSUME NEW effect \in {"fewer", "more", "bent"} PROVE Count(r, effect) = Count(s, effect)
  <2>1. {f \in r.features : world.effect[f] = effect} = {f \in s.features : world.effect[f] = effect}
    BY <1>1, <1>3, <1>5
  <2> QED BY <2>1 DEF Count
<1> QED BY <1>4, <1>6 DEF RouteQualityForPlan

LEMMA SpacingSelected ==
  ASSUME world \in Worlds, DrawingOK(drawing), NEW spacing \in {"adaptive", "expanded"},
         SelectGapSpacing(spacing)
  PROVE  /\ DrawingOK(drawing') /\ SameKin(drawing', drawing)
         /\ \/ drawing'.routes = drawing.routes
            \/ Shorter(RouteQualityForPlan(drawing'.routes), RouteQualityForPlan(drawing.routes))
            \/ /\ spacing = "expanded"
               /\ ExpandedReadabilityIsBetter(RouteQualityForPlan(drawing.routes),
                                              RouteQualityForPlan(drawing'.routes))
         /\ drawing.offers \subseteq drawing'.offers
         /\ \E plan : /\ PlainPlan(plan) /\ drawn' = drawn \cup {plan}
                      /\ routing.exact =>
                           \A r \in {drawing.routes, EmitRoutes(plan)} :
                             drawing'.routes = r \/ Holds(drawing'.offers, r)
<1>1. PICK plan : plan = [drawing.plan EXCEPT !.spacing = spacing]
  OBVIOUS
<1>2. PICK base \in {BaseProfile} :
        \E other \in {SiblingProfile(base, EmitRoutes(plan))} :
        \E accepted \in {\/ Shorter(other.quality, base.quality)
                         \/ /\ spacing = "expanded"
                            /\ ExpandedReadabilityIsBetter(base.quality, other.quality)} :
        \E winner \in {IF accepted THEN other ELSE base},
           loser \in {IF accepted THEN base ELSE other} :
           /\ drawing' = WithSpacing(plan, accepted, winner, loser)
           /\ drawn' = drawn \cup {plan}
  BY <1>1, Zenon DEF SelectGapSpacing
<1>a. PICK other \in {SiblingProfile(base, EmitRoutes(plan))} :
        \E accepted \in {\/ Shorter(other.quality, base.quality)
                         \/ /\ spacing = "expanded"
                            /\ ExpandedReadabilityIsBetter(base.quality, other.quality)} :
        \E winner \in {IF accepted THEN other ELSE base},
           loser \in {IF accepted THEN base ELSE other} :
           /\ drawing' = WithSpacing(plan, accepted, winner, loser)
           /\ drawn' = drawn \cup {plan}
  BY <1>2, Zenon
<1>b. PICK accepted \in {\/ Shorter(other.quality, base.quality)
                         \/ /\ spacing = "expanded"
                            /\ ExpandedReadabilityIsBetter(base.quality, other.quality)} :
        \E winner \in {IF accepted THEN other ELSE base},
           loser \in {IF accepted THEN base ELSE other} :
           /\ drawing' = WithSpacing(plan, accepted, winner, loser)
           /\ drawn' = drawn \cup {plan}
  BY <1>a, Zenon
<1>c. PICK winner \in {IF accepted THEN other ELSE base},
            loser \in {IF accepted THEN base ELSE other} :
           /\ drawing' = WithSpacing(plan, accepted, winner, loser)
           /\ drawn' = drawn \cup {plan}
  BY <1>b, Zenon
<1>3. /\ base = BaseProfile /\ other = SiblingProfile(base, EmitRoutes(plan))
      /\ accepted = (\/ Shorter(other.quality, base.quality)
                     \/ /\ spacing = "expanded"
                        /\ ExpandedReadabilityIsBetter(base.quality, other.quality))
      /\ winner = (IF accepted THEN other ELSE base)
      /\ loser = (IF accepted THEN base ELSE other)
  BY <1>2, <1>a, <1>b, <1>c, Zenon
<1>4. /\ drawing' = [drawing EXCEPT
                       !.plan    = IF accepted THEN plan ELSE @,
                       !.routes  = winner.routes,
                       !.quality = winner.quality,
                       !.profile = IF world.many THEN winner ELSE None,
                       !.offers  = IF routing.exact /\ loser.routes # winner.routes
                                   THEN @ \cup {loser} ELSE @]
      /\ drawn' = drawn \cup {plan}
  BY <1>c DEF WithSpacing
<1>5. /\ drawing \in DrawingSet /\ PlainPlan(drawing.plan) /\ drawing.routes = EmitRoutes(drawing.plan)
      /\ drawing.plan \in PlanSet /\ drawing.routes \in RouteSet
  BY DEF DrawingOK, DrawingSet
<1>6. /\ PlainPlan(plan) /\ plan \in PlanSet
      /\ plan.outer = drawing.plan.outer /\ plan.paths = drawing.plan.paths
      /\ plan.tracks = drawing.plan.tracks
  BY <1>1, <1>5 DEF PlainPlan, FoundPlan, PlanSet, Spacings
<1>7. EmitRoutes(plan) \in RouteSet
  BY <1>6, PlansAreDrawn
<1>8. /\ base \in OfferSet /\ base.routes = drawing.routes
      /\ base.quality = RouteQualityForPlan(drawing.routes)
  BY <1>2, <1>5, QualitiesAreNumbers
     DEF BaseProfile, RetainedSpacingProfile, Applicable, Measured, OfferSet, DrawingOK
<1>9. /\ other \in OfferSet /\ other.routes = EmitRoutes(plan)
      /\ other.quality = RouteQualityForPlan(EmitRoutes(plan))
  <2>1. PICK q, p : q = RouteQualityForPlan(EmitRoutes(plan)) /\ p = RouteQualityForPlan(drawing.routes)
    OBVIOUS
  <2>2. q \in QualitySet /\ p \in QualitySet
    BY <1>5, <1>7, <2>1, QualitiesAreNumbers
  <2>3. CASE ~SpacingScoreReuseIsEligible
    BY <1>2, <1>7, <2>1, <2>2, <2>3 DEF SiblingProfile, Measured, OfferSet
  <2>4. CASE SpacingScoreReuseIsEligible
    <3>1. q.crossings = p.crossings /\ q.bends = p.bends
      BY <1>1, <1>5, <2>1, <2>4, CrossingsAreKept DEF Spacings
    <3>2. [p EXCEPT !.length = q.length] = q
      BY <2>2, <3>1 DEF QualitySet
    <3>3. other = [routes |-> EmitRoutes(plan), quality |-> q]
      BY <1>2, <1>8, <2>1, <2>4, <3>2 DEF SiblingProfile, ReusedSpacingProfile
    <3> QED BY <1>7, <2>1, <2>2, <3>3 DEF OfferSet
  <2> QED BY <2>3, <2>4
<1>10. OfferOK(base) /\ OfferOK(other)
  <2>1. base = [quality |-> base.quality, routes |-> base.routes]
        /\ other = [quality |-> other.quality, routes |-> other.routes]
    BY <1>8, <1>9 DEF OfferSet
  <2> QED BY <1>5, <1>6, <1>8, <1>9, <2>1, PlainOffer DEF PlainPlan
<1>11. /\ OfferOK(winner) /\ OfferOK(loser) /\ winner \in OfferSet /\ loser \in OfferSet
       /\ winner.quality = RouteQualityForPlan(winner.routes)
  BY <1>3, <1>8, <1>9, <1>10
<1>12. /\ drawing'.plan = (IF accepted THEN plan ELSE drawing.plan)
       /\ drawing'.routes = winner.routes /\ drawing'.quality = winner.quality
       /\ drawing'.profile = (IF world.many THEN winner ELSE None)
       /\ drawing'.offers = (IF routing.exact /\ loser.routes # winner.routes
                             THEN drawing.offers \cup {loser} ELSE drawing.offers)
       /\ drawing'.match = drawing.match /\ drawing'.repair = drawing.repair
       /\ drawing'.deeper = drawing.deeper /\ drawing'.from = drawing.from
  BY <1>4, <1>5 DEF DrawingSet
<1>13. drawing' \in DrawingSet
  <2>1. winner.routes \in RouteSet /\ winner.quality \in QualitySet
    BY <1>11 DEF OfferSet
  <2>2. (IF accepted THEN plan ELSE drawing.plan) \in PlanSet
    BY <1>5, <1>6
  <2>3. (IF routing.exact /\ loser.routes # winner.routes
         THEN drawing.offers \cup {loser} ELSE drawing.offers) \in SUBSET OfferSet
    BY <1>5, <1>11 DEF DrawingSet
  <2> QED BY <1>4, <1>5, <1>11, <2>1, <2>2, <2>3 DEF DrawingSet
<1>14. DrawingOK(drawing')
  <2>1. PlainPlan(drawing'.plan) /\ drawing'.routes = EmitRoutes(drawing'.plan)
    BY <1>3, <1>5, <1>6, <1>8, <1>9, <1>12
  <2>2. drawing'.match => drawing'.plan.paths.tracks = drawing'.plan.tracks
    BY <1>6, <1>12 DEF DrawingOK
  <2>3. \A o \in drawing'.offers \cup drawing'.repair \cup drawing'.deeper : OfferOK(o)
    BY <1>11, <1>12 DEF DrawingOK
  <2>4. \A p \in drawing'.from : FoundPlan(p) /\ p.outer.channels = drawing'.plan.outer.channels
    BY <1>6, <1>12 DEF DrawingOK
  <2> QED BY <1>11, <1>12, <1>13, <2>1, <2>2, <2>3, <2>4 DEF DrawingOK
<1>15. SameKin(drawing', drawing)
  BY <1>6, <1>12 DEF SameKin
<1>16. \/ drawing'.routes = drawing.routes
       \/ Shorter(RouteQualityForPlan(drawing'.routes), RouteQualityForPlan(drawing.routes))
       \/ /\ spacing = "expanded"
          /\ ExpandedReadabilityIsBetter(RouteQualityForPlan(drawing.routes),
                                         RouteQualityForPlan(drawing'.routes))
  BY <1>2, <1>3, <1>8, <1>9, <1>12
<1>17. routing.exact => \A r \in {drawing.routes, EmitRoutes(plan)} :
                          drawing'.routes = r \/ Holds(drawing'.offers, r)
  BY <1>3, <1>8, <1>9, <1>12 DEF Holds
<1>18. drawing.offers \subseteq drawing'.offers
  BY <1>12
<1> QED BY <1>4, <1>6, <1>14, <1>15, <1>16, <1>17, <1>18

LEMMA FeedbackTaken ==
  ASSUME DrawingOK(drawing), NEW base, base = RouteQualityForPlan(drawing.routes),
         NEW profiled \in BOOLEAN, CoherentFeedback(base, profiled)
  PROVE  /\ DrawingOK(drawing') /\ SameKin(drawing', drawing)
         /\ \/ drawing'.routes = drawing.routes
            \/ Shorter(RouteQualityForPlan(drawing'.routes), RouteQualityForPlan(drawing.routes))
         /\ profiled => drawing'.profile.routes = drawing'.routes
         /\ drawing.offers \subseteq drawing'.offers
         /\ \E plan : /\ PlainPlan(plan) /\ drawn' = drawn \cup {plan}
                      /\ routing.exact =>
                           \A r \in {drawing.routes, EmitRoutes(plan)} :
                             drawing'.routes = r \/ Holds(drawing'.offers, r)
<1>1. PICK plan \in {CoherentPlan(drawing.plan)} :
        \E candidate \in {Offer(EmitRoutes(plan))},
           old \in {[quality |-> base, routes |-> drawing.routes]} :
        \E better \in {Shorter(candidate.quality, base)} :
        \E winner \in {IF better THEN candidate ELSE old}, loser \in {IF better THEN old ELSE candidate} :
           /\ drawing' = WithFeedback(plan, better, winner, loser, profiled)
           /\ drawn' = drawn \cup {plan}
  BY Zenon DEF CoherentFeedback
<1>a. PICK candidate \in {Offer(EmitRoutes(plan))},
            old \in {[quality |-> base, routes |-> drawing.routes]} :
        \E better \in {Shorter(candidate.quality, base)} :
        \E winner \in {IF better THEN candidate ELSE old}, loser \in {IF better THEN old ELSE candidate} :
           /\ drawing' = WithFeedback(plan, better, winner, loser, profiled)
           /\ drawn' = drawn \cup {plan}
  BY <1>1, Zenon
<1>b. PICK better \in {Shorter(candidate.quality, base)} :
        \E winner \in {IF better THEN candidate ELSE old}, loser \in {IF better THEN old ELSE candidate} :
           /\ drawing' = WithFeedback(plan, better, winner, loser, profiled)
           /\ drawn' = drawn \cup {plan}
  BY <1>a, Zenon
<1>c. PICK winner \in {IF better THEN candidate ELSE old}, loser \in {IF better THEN old ELSE candidate} :
           /\ drawing' = WithFeedback(plan, better, winner, loser, profiled)
           /\ drawn' = drawn \cup {plan}
  BY <1>b, Zenon
<1>2. /\ plan = CoherentPlan(drawing.plan) /\ candidate = Offer(EmitRoutes(plan))
      /\ old = [quality |-> base, routes |-> drawing.routes]
      /\ better = Shorter(candidate.quality, base)
      /\ winner = (IF better THEN candidate ELSE old)
      /\ loser = (IF better THEN old ELSE candidate)
  BY <1>1, <1>a, <1>b, <1>c, Zenon
<1>3. /\ drawing' = [drawing EXCEPT
                       !.plan    = IF better THEN plan ELSE @,
                       !.match   = @ /\ (~better \/ plan.tracks = drawing.plan.tracks),
                       !.routes  = winner.routes,
                       !.quality = winner.quality,
                       !.profile = IF profiled THEN winner ELSE @,
                       !.offers  = IF routing.exact /\ loser.routes # winner.routes
                                   THEN @ \cup {loser} ELSE @]
      /\ drawn' = drawn \cup {plan}
  BY <1>c DEF WithFeedback
<1>4. /\ drawing \in DrawingSet /\ PlainPlan(drawing.plan) /\ drawing.routes = EmitRoutes(drawing.plan)
      /\ drawing.plan \in PlanSet /\ drawing.routes \in RouteSet
  BY DEF DrawingOK, DrawingSet
<1>5. PICK outer : outer = [drawing.plan.outer EXCEPT !.coherent = TRUE]
  OBVIOUS
<1>6. /\ outer \in OuterSet /\ outer.channels = drawing.plan.outer.channels
      /\ outer.resided = drawing.plan.outer.resided
      /\ drawing.plan.lanes \in LaneSet /\ drawing.plan.spacing \in Spacings
      /\ drawing.plan.tracks \in TrackSet
  BY <1>4, <1>5 DEF PlanSet, OuterSet
<1>7. PICK tracks \in TrackSet : plan = [drawing.plan EXCEPT !.outer = outer, !.tracks = tracks]
  BY <1>2, <1>5, <1>6, TracksAreBuilt DEF CoherentPlan
<1>8. /\ PlainPlan(plan) /\ plan \in PlanSet /\ plan.outer.channels = drawing.plan.outer.channels
      /\ plan.paths = drawing.plan.paths
  BY <1>4, <1>6, <1>7 DEF PlainPlan, FoundPlan, PlanSet
<1>9. EmitRoutes(plan) \in RouteSet
  BY <1>8, PlansAreDrawn
<1>10. /\ OfferOK(candidate) /\ OfferOK(old)
       /\ candidate.routes = EmitRoutes(plan) /\ old.routes = drawing.routes
       /\ candidate.quality = RouteQualityForPlan(EmitRoutes(plan)) /\ old.quality = base
  BY <1>2, <1>4, <1>8, PlainOffer DEF Offer, PlainPlan
<1>11. /\ OfferOK(winner) /\ winner \in OfferSet /\ winner.routes \in RouteSet
       /\ winner.quality \in QualitySet /\ winner.quality = RouteQualityForPlan(winner.routes)
  BY <1>2, <1>10 DEF OfferOK, OfferSet
<1>13. OfferOK(loser) /\ loser \in OfferSet
  BY <1>2, <1>10 DEF OfferOK
<1>14. /\ drawing'.plan = (IF better THEN plan ELSE drawing.plan)
       /\ drawing'.match = (drawing.match /\ (~better \/ plan.tracks = drawing.plan.tracks))
       /\ drawing'.routes = winner.routes /\ drawing'.quality = winner.quality
       /\ drawing'.profile = (IF profiled THEN winner ELSE drawing.profile)
       /\ drawing'.offers = (IF routing.exact /\ loser.routes # winner.routes
                             THEN drawing.offers \cup {loser} ELSE drawing.offers)
       /\ drawing'.repair = drawing.repair
       /\ drawing'.deeper = drawing.deeper /\ drawing'.from = drawing.from
  BY <1>3, <1>4 DEF DrawingSet
<1>15. drawing' \in DrawingSet
  <2>1. (IF better THEN plan ELSE drawing.plan) \in PlanSet
    BY <1>4, <1>8
  <2>2. (IF routing.exact /\ loser.routes # winner.routes
         THEN drawing.offers \cup {loser} ELSE drawing.offers) \in SUBSET OfferSet
    BY <1>4, <1>13 DEF DrawingSet
  <2>3. (drawing.match /\ (~better \/ plan.tracks = drawing.plan.tracks)) \in BOOLEAN
    OBVIOUS
  <2>4. (IF profiled THEN winner ELSE drawing.profile) \in OfferSet \cup {None}
    BY <1>4, <1>11 DEF DrawingSet
  <2> QED BY <1>3, <1>4, <1>11, <2>1, <2>2, <2>3, <2>4 DEF DrawingSet
<1>16. DrawingOK(drawing')
  <2>1. PlainPlan(drawing'.plan) /\ drawing'.routes = EmitRoutes(drawing'.plan)
    BY <1>2, <1>4, <1>8, <1>10, <1>14
  <2>2. drawing'.match => drawing'.plan.paths.tracks = drawing'.plan.tracks
    BY <1>8, <1>14 DEF DrawingOK
  <2>3. \A o \in drawing'.offers \cup drawing'.repair \cup drawing'.deeper : OfferOK(o)
    BY <1>13, <1>14 DEF DrawingOK
  <2>4. \A p \in drawing'.from : FoundPlan(p) /\ p.outer.channels = drawing'.plan.outer.channels
    BY <1>8, <1>14 DEF DrawingOK
  <2>5. drawing'.profile # None =>
          /\ drawing'.profile \in OfferSet
          /\ drawing'.profile.quality = RouteQualityForPlan(drawing'.profile.routes)
    BY <1>11, <1>14 DEF DrawingOK
  <2> QED BY <1>11, <1>14, <1>15, <2>1, <2>2, <2>3, <2>4, <2>5 DEF DrawingOK
<1>17. SameKin(drawing', drawing)
  BY <1>8, <1>14 DEF SameKin
<1>18. \/ drawing'.routes = drawing.routes
       \/ Shorter(RouteQualityForPlan(drawing'.routes), RouteQualityForPlan(drawing.routes))
  BY <1>2, <1>10, <1>14
<1>19. routing.exact => \A r \in {drawing.routes, EmitRoutes(plan)} :
                          drawing'.routes = r \/ Holds(drawing'.offers, r)
  BY <1>2, <1>10, <1>14 DEF Holds
<1>20. drawing.offers \subseteq drawing'.offers
  BY <1>14
<1>21. profiled => drawing'.profile.routes = drawing'.routes
  BY <1>14
<1> QED BY <1>3, <1>8, <1>16, <1>17, <1>18, <1>19, <1>20, <1>21

LEMMA RepairsAreFound ==
  ASSUME DrawingOK(drawing), NEW maxNets, NEW plan \in RepairPlans(maxNets)
  PROVE  /\ FoundPlan(plan) /\ plan.paths.tracks = plan.tracks
         /\ plan.outer.channels = drawing.plan.outer.channels
<1>1. PICK lanes, outer :
        /\ lanes \in LaneSet /\ outer \in OuterSet
        /\ outer.channels = drawing.plan.outer.channels
        /\ plan = RepairPlan(lanes, outer)
  <2>1. PICK nets : plan = RepairPlan(IF nets = 0 THEN drawing.plan.lanes
                  ELSE [drawing.plan.lanes EXCEPT
                           !.moved = IF nets > MaxBatchedRepairNets THEN "deep" ELSE "moved"],
                  [drawing.plan.outer EXCEPT !.resided = OuterSideRepairs])
    BY DEF RepairPlans
  <2>2. drawing.plan.lanes \in LaneSet /\ drawing.plan.outer \in OuterSet
    BY DEF DrawingOK, DrawingSet, PlanSet
  <2>3. (IF nets = 0 THEN drawing.plan.lanes
         ELSE [drawing.plan.lanes EXCEPT
                 !.moved = IF nets > MaxBatchedRepairNets THEN "deep" ELSE "moved"]) \in LaneSet
    BY <2>2 DEF LaneSet
  <2>4. OuterSideRepairs \in BOOLEAN
    BY DEF OuterSideRepairs
  <2>5. /\ [drawing.plan.outer EXCEPT !.resided = OuterSideRepairs] \in OuterSet
        /\ [drawing.plan.outer EXCEPT !.resided = OuterSideRepairs].channels = drawing.plan.outer.channels
    BY <2>2, <2>4 DEF OuterSet
  <2> QED BY <2>1, <2>3, <2>5
<1>2. /\ drawing.plan \in PlanSet /\ drawing.plan.spacing \in Spacings
      /\ drawing.plan.paths \in PathSet /\ drawing.plan.paths.shape = "found"
      /\ drawing.match => drawing.plan.paths.tracks = drawing.plan.tracks
  BY DEF DrawingOK, DrawingSet, PlanSet, PlainPlan, FoundPlan
<1>3. PICK tracks \in TrackSet : tracks = BuildEndpointTracks(lanes, outer, drawing.plan.spacing)
  BY <1>1, <1>2, TracksAreBuilt
<1>4. PICK paths : paths = IF drawing.match /\ tracks = drawing.plan.tracks
                           THEN drawing.plan.paths ELSE CrossingPaths(tracks, TRUE)
  OBVIOUS
<1>5. paths \in PathSet /\ paths.shape = "found" /\ paths.tracks = tracks
  BY <1>2, <1>4 DEF CrossingPaths, PathSet
<1>6. plan = Plan(lanes, tracks, paths, outer, drawing.plan.spacing)
  BY <1>1, <1>3, <1>4 DEF RepairPlan
<1> QED BY <1>1, <1>2, <1>5, <1>6 DEF Plan, PlanSet, FoundPlan

LEMMA FoundOffers ==
  ASSUME NEW picks, \A p \in picks : FoundPlan(p)
  PROVE  /\ \A o \in Offers(picks) : OfferOK(o)
         /\ Offers(picks) \subseteq OfferSet
         /\ \A p \in picks : Holds(Offers(picks), EmitRoutes(p))
<1>1. ASSUME NEW o \in Offers(picks) PROVE OfferOK(o)
  <2>1. PICK p \in picks : o = Offer(EmitRoutes(p))
    BY DEF Offers
  <2> QED BY <2>1, PlainOffer DEF Offer
<1>2. Offers(picks) \subseteq OfferSet
  BY <1>1 DEF OfferOK
<1>3. ASSUME NEW p \in picks PROVE Holds(Offers(picks), EmitRoutes(p))
  <2>1. Offer(EmitRoutes(p)) \in Offers(picks)
    BY DEF Offers
  <2>2. Offer(EmitRoutes(p)).routes = EmitRoutes(p)
    BY DEF Offer
  <2> QED BY <2>1, <2>2 DEF Holds
<1> QED BY <1>1, <1>2, <1>3

-----------------------------------------------------------------------------
(* The stages of the call, and what is true of the pieces in each of them. *)

Early ==
  \/ pc \in {"lanes", "staircase"}
  \/ pc \in {"adaptive", "expanded"} /\ caller = "none"

StagesInOrder ==
  /\ world \in Worlds
  /\ pass \in {"legacy", "main"}
  /\ \/ pc \in {"lanes", "orders", "deliver", "done"}
     \/ pc \in {"adaptive", "expanded"} /\ caller \in {"none", "sparse"}
     \/ pc = "staircase" /\ caller = "none"
     \/ pc = "sparse" /\ caller = "sparse"
     \/ pc \in {"feedback", "finish"} /\ caller \in {"sparse", "stable", "fanned"}
     \/ pc = "repair" /\ caller \in {"sparse", "stable", "fanned", "primary"}
     \/ pc \in {"coherent", "negotiate"} /\ caller = "primary"
     \/ pc = "fanout" /\ caller \in {"stable", "fanned"}
  /\ pc = "orders" => caller \in {"none", "sparse"}
  /\ todo \subseteq LaneOrders
  /\ Early => offers = {}
  /\ pass = "legacy" => legacy = {}
  /\ pc = "done" => pass = "main"

ProfileIsOwn(d) == d.profile # None => d.profile.routes = d.routes

DrawingInOrder ==
  /\ DrawingOK(drawing)
  /\ caller # "fanned" => drawing.plan.outer.channels = "stable"
  /\ pc \in {"adaptive", "expanded", "staircase", "sparse", "feedback", "coherent", "repair"} =>
       drawing.repair = {} /\ drawing.deeper = {}
  /\ pc \in {"feedback", "negotiate"} \/ (pc = "repair" /\ caller # "primary") => ProfileIsOwn(drawing)
  /\ pc \in {"finish", "fanout"} => QualityIsKnown(drawing)

LaneInOrder ==
  /\ DrawingOK(lane)
  /\ lane.plan.outer.channels = "stable" /\ lane.repair = {} /\ lane.deeper = {}

PiecesInOrder ==
  /\ pc # "lanes" => DrawingInOrder
  /\ ~Early => LaneInOrder
  /\ pc \in {"feedback", "repair", "finish"} /\ caller = "fanned" =>
       DrawingOK(stable) /\ QualityIsKnown(stable)
  /\ pc \in {"deliver", "done"} => ResultOK(result)
  /\ pc = "done" => QualityIsKnown(result.primary)
  /\ \A o \in offers : OfferOK(o)
  /\ \A l \in legacy : ResultOK(l)

-----------------------------------------------------------------------------
(* Nothing is lost, nothing is worse, and repairs fit their tracks.        *)

InFamily(d, r) == d.routes = r \/ Holds(d.offers \cup d.repair \cup d.deeper, r)
InResult(x, r) == x.primary.routes = r \/ Holds(x.repair \cup x.alternatives, r)

LaneCounts ==
  \/ pc = "orders"
  \/ caller = "sparse" /\ pc \in {"adaptive", "expanded", "sparse", "feedback", "repair", "finish"}

OnHand(r) ==
  \/ pc # "done" /\ \E l \in legacy : InResult(l, r)
  \/ pc \in {"deliver", "done"} /\ InResult(result, r)
  \/ pc \notin {"deliver", "done"} /\ Holds(offers, r)
  \/ pc \notin {"lanes", "orders", "deliver", "done"} /\ InFamily(drawing, r)
  \/ LaneCounts /\ lane.routes = r
  \/ pc \in {"feedback", "repair", "finish"} /\ caller = "fanned" /\ InFamily(stable, r)

NothingIsLost == routing.exact => \A plan \in drawn : OnHand(EmitRoutes(plan))

Fits(plan) ==
  (plan.lanes.moved # "found" \/ plan.outer.resided) /\ plan.paths.shape = "found"
    => plan.paths.tracks = plan.tracks

RepairsFit == \A plan \in drawn : Fits(plan)

Compact == EmitRoutes(EmitLanes(StraightRunRoutingIsEligible).plan)

AsGood(routes) ==
  routes = Compact \/ Shorter(RouteQualityForPlan(routes), RouteQualityForPlan(Compact))

NotWorse(routes) ==
  LET compact == RouteQualityForPlan(Compact)
      primary == RouteQualityForPlan(routes)
  IN  \/ primary.crossings < compact.crossings
      \/ /\ primary.crossings = compact.crossings
         /\ primary.bends < compact.bends
      \/ /\ primary.crossings = compact.crossings
         /\ primary.bends = compact.bends
         /\ 20 * primary.length <= 21 * compact.length

NeverWorse ==
  pass = "main" =>
    /\ pc = "adaptive" /\ caller = "none" => drawing.routes = Compact
    /\ pc = "expanded" /\ caller = "none" => AsGood(drawing.routes)
    /\ pc = "staircase" => NotWorse(drawing.routes)
    /\ ~Early => NotWorse(lane.routes)
    /\ caller \in {"stable", "fanned", "primary"}
         /\ pc \in {"coherent", "feedback", "repair", "finish", "fanout", "negotiate"} =>
         NotWorse(drawing.routes)
    /\ pc \in {"deliver", "done"} => NotWorse(result.primary.routes)

-----------------------------------------------------------------------------
(* Every step keeps the stages in order.                                   *)

LEMMA StagesBegin == FamiliesInit => StagesInOrder
BY DEF FamiliesInit, StagesInOrder, Early

LEMMA StagesGoOn ==
  ASSUME StagesInOrder, FamiliesNext
  PROVE  StagesInOrder' /\ UNCHANGED <<routing, world>>
<1> USE DEF StagesInOrder, Early
<1>1. CASE DrawLanes
  BY <1>1 DEF DrawLanes
<1>2. CASE TryAdaptive
  BY <1>2 DEF TryAdaptive
<1>3. CASE TryExpanded
  BY <1>3 DEF TryExpanded
<1>4. CASE StaircaseAlternative
  <2>1. LaneCandidates \subseteq LaneOrders
    BY WorldsAssumption DEF LaneCandidates
  <2> QED BY <1>4, <2>1 DEF StaircaseAlternative
<1>5. CASE DrawSparseCandidate
  BY <1>5 DEF DrawSparseCandidate
<1>6. CASE FinishSparseCandidate
  BY <1>6 DEF FinishSparseCandidate
<1>7. CASE OfferSparseFamily
  BY <1>7 DEF OfferSparseFamily
<1>8. CASE FeedbackOfFamily
  BY <1>8 DEF FeedbackOfFamily
<1>9. CASE RepairsOfFamily
  BY <1>9 DEF RepairsOfFamily
<1>10. CASE FinishStableFamily
  BY <1>10 DEF FinishStableFamily
<1>11. CASE CompareFanned
  BY <1>11 DEF CompareFanned
<1>12. CASE FinishFannedFamily
  BY <1>12 DEF FinishFannedFamily
<1>13. CASE FinishFanoutRouteFamilies
  BY <1>13 DEF FinishFanoutRouteFamilies
<1>14. CASE StartPrimary
  BY <1>14 DEF StartPrimary
<1>15. CASE CoherentPrimary
  BY <1>15 DEF CoherentPrimary
<1>16. CASE RepairsOfPrimary
  BY <1>16 DEF RepairsOfPrimary
<1>17. CASE Negotiate
  BY <1>17 DEF Negotiate
<1>18. CASE KeepLegacy
  BY <1>18 DEF KeepLegacy
<1>19. CASE Deliver
  BY <1>19 DEF Deliver
<1>20. CASE Done
  BY <1>20 DEF Done, familiesVars
<1> QED BY <1>1, <1>2, <1>3, <1>4, <1>5, <1>6, <1>7, <1>8, <1>9, <1>10, <1>11, <1>12, <1>13, <1>14, <1>15, <1>16, <1>17, <1>18, <1>19, <1>20 DEF FamiliesNext

LEMMA EmittedLanes ==
  ASSUME NEW narrowed \in BOOLEAN, NEW emitted, emitted = EmitLanes(narrowed)
  PROVE  /\ PlainPlan(emitted.plan) /\ emitted.plan.outer = StableOuter
         /\ emitted.match \in BOOLEAN
         /\ emitted.match => emitted.plan.paths.tracks = emitted.plan.tracks
<1>1. PICK lanes : lanes = IF world.reordered THEN [InitialLanes EXCEPT !.order = "found"]
                           ELSE InitialLanes
  OBVIOUS
<1>2. InitialLanes \in LaneSet /\ lanes \in LaneSet /\ lanes.moved = "found"
  BY <1>1 DEF InitialLanes, LaneSet
<1>3. StableOuter \in OuterSet /\ ~StableOuter.resided /\ "compact" \in Spacings
  BY DEF StableOuter, OuterSet, Spacings
<1>4. PICK first \in TrackSet : first = BuildEndpointTracks(InitialLanes, StableOuter, "compact")
  BY <1>2, <1>3, TracksAreBuilt
<1>5. PICK tracks \in TrackSet :
        tracks = IF lanes = InitialLanes THEN first
                 ELSE BuildEndpointTracks(lanes, StableOuter, "compact")
  BY <1>2, <1>3, <1>4, TracksAreBuilt
<1>6. emitted = [plan |-> Plan(lanes, tracks, CrossingPaths(first, narrowed), StableOuter, "compact"),
                 match |-> tracks = first]
  BY <1>1, <1>4, <1>5 DEF EmitLanes
<1>7. CrossingPaths(first, narrowed) \in PathSet /\ CrossingPaths(first, narrowed).shape = "found"
      /\ CrossingPaths(first, narrowed).tracks = first
  BY DEF CrossingPaths, PathSet
<1>8. PICK plan, paths : /\ paths = CrossingPaths(first, narrowed)
                         /\ plan = Plan(lanes, tracks, paths, StableOuter, "compact")
  OBVIOUS
<1>9. PlainPlan(plan) /\ plan.outer = StableOuter /\ plan.tracks = tracks /\ plan.paths.tracks = first
  BY <1>2, <1>3, <1>7, <1>8 DEF Plan, PlainPlan, FoundPlan, PlanSet
<1>10. emitted = [plan |-> plan, match |-> tracks = first]
  BY <1>6, <1>8
<1>11. emitted.plan = plan /\ emitted.match = (tracks = first)
  BY <1>10
<1> QED BY <1>9, <1>11

-----------------------------------------------------------------------------
(* Every step keeps the pieces in order.                                   *)

LEMMA PiecesBegin == FamiliesInit => PiecesInOrder
BY DEF FamiliesInit, PiecesInOrder, Early

LEMMA DrawLanesKeepsOrder ==
  ASSUME StagesInOrder, PiecesInOrder, DrawLanes
  PROVE  PiecesInOrder'
<1>1. PICK emitted : /\ emitted = EmitLanes(pass = "main" /\ StraightRunRoutingIsEligible)
                     /\ drawing' = Fresh(emitted.plan, emitted.match)
  BY DEF DrawLanes
<1>2. /\ PlainPlan(emitted.plan) /\ emitted.plan.outer = StableOuter /\ emitted.match \in BOOLEAN
      /\ emitted.match => emitted.plan.paths.tracks = emitted.plan.tracks
  BY <1>1, EmittedLanes
<1>3. /\ DrawingOK(drawing') /\ drawing'.repair = {} /\ drawing'.deeper = {}
      /\ drawing'.plan.outer.channels = "stable"
  BY <1>1, <1>2, FreshIsOK DEF StableOuter
<1> QED BY <1>3, PiecesGoOn DEF DrawLanes, PiecesInOrder, DrawingInOrder, StagesInOrder, Early, ProfileIsOwn

LEMMA SpacingsKeepOrder ==
  ASSUME StagesInOrder, PiecesInOrder, TryAdaptive \/ TryExpanded
  PROVE  PiecesInOrder'
<1>1. \/ UNCHANGED drawing
      \/ \E spacing \in {"adaptive", "expanded"} : SelectGapSpacing(spacing)
  BY DEF TryAdaptive, TryExpanded
<1>2. DrawingInOrder
  BY DEF TryAdaptive, TryExpanded, PiecesInOrder
<1>3. DrawingOK(drawing') /\ SameKin(drawing', drawing)
  BY <1>1, <1>2, SpacingSelected DEF DrawingInOrder, StagesInOrder, SameKin
<1>4. PICK level \in {"expanded", "sparse", "staircase"} : pc' = level
  BY DEF TryAdaptive, TryExpanded
<1>5. DrawingInOrder'
  BY <1>2, <1>3, <1>4, PiecesGoOn DEF TryAdaptive, TryExpanded, DrawingInOrder, SameKin
<1>6. ~Early' => ~Early
  BY DEF TryAdaptive, TryExpanded, StagesInOrder, Early
<1>7. ~Early' => LaneInOrder'
  BY <1>6, PiecesGoOn DEF TryAdaptive, TryExpanded, PiecesInOrder, LaneInOrder
<1>8. UNCHANGED <<routing, world, offers, legacy>>
  BY DEF TryAdaptive, TryExpanded
<1> QED BY <1>4, <1>5, <1>7, <1>8, PiecesGoOn DEF PiecesInOrder

LEMMA PrimaryOffer ==
  ASSUME NEW d, DrawingOK(d), QualityIsKnown(d)
  PROVE  OfferOK(Primary(d))
BY PlainOffer DEF DrawingOK, PlainPlan, Primary, QualityIsKnown

LEMMA Pushed ==
  ASSUME NEW all, NEW more
  PROVE  /\ PushAll(all, more) \subseteq all \cup more /\ all \subseteq PushAll(all, more)
         /\ \A o \in more : Holds(PushAll(all, more), o.routes)
<1>1. PushAll(all, more) \subseteq all \cup more /\ all \subseteq PushAll(all, more)
  BY DEF PushAll
<1>2. ASSUME NEW o \in more PROVE Holds(PushAll(all, more), o.routes)
  <2>1. CASE \A x \in all : x.routes # o.routes
    BY <2>1 DEF PushAll, Holds
  <2>2. CASE \E x \in all : x.routes = o.routes
    BY <1>1, <2>2 DEF Holds
  <2> QED BY <2>1, <2>2
<1> QED BY <1>1, <1>2

\* A drawing stays in order when its kin or what is known of it is replaced.
IsRecord(d) ==
  d = [plan |-> d.plan, match |-> d.match, routes |-> d.routes, quality |-> d.quality,
       profile |-> d.profile, offers |-> d.offers, repair |-> d.repair, deeper |-> d.deeper,
       from |-> d.from]

LEMMA Revised ==
  ASSUME NEW d, DrawingOK(d), NEW e, IsRecord(e),
         e.plan = d.plan, e.match = d.match, e.routes = d.routes,
         e.quality # None => e.quality = RouteQualityForPlan(d.routes),
         e.profile # None =>
           e.profile \in OfferSet /\ e.profile.quality = RouteQualityForPlan(e.profile.routes),
         \A o \in e.offers \cup e.repair \cup e.deeper : OfferOK(o),
         \A p \in e.from : FoundPlan(p) /\ p.outer.channels = d.plan.outer.channels
  PROVE  DrawingOK(e)
<1>1. d \in DrawingSet
  BY DEF DrawingOK
<1>2. /\ e.plan \in PlanSet /\ e.match \in BOOLEAN /\ e.routes \in RouteSet
      /\ e.quality \in QualitySet \cup {None} /\ e.profile \in OfferSet \cup {None}
  BY <1>1, QualitiesAreNumbers DEF DrawingSet
<1>3. /\ e.offers \in SUBSET OfferSet /\ e.repair \in SUBSET OfferSet
      /\ e.deeper \in SUBSET OfferSet /\ e.from \in SUBSET PlanSet
  BY DEF OfferOK, FoundPlan
<1>4. e \in DrawingSet
  BY <1>2, <1>3 DEF IsRecord, DrawingSet
<1> QED BY <1>4 DEF DrawingOK

LEMMA StaircaseKeepsOrder ==
  ASSUME StagesInOrder, PiecesInOrder, StaircaseAlternative
  PROVE  PiecesInOrder'
<1>1. /\ pc = "staircase" /\ pc' = "orders" /\ lane' = drawing
      /\ UNCHANGED <<routing, world, drawing, caller, legacy>>
  BY DEF StaircaseAlternative
<1>2. DrawingInOrder /\ caller = "none"
  BY <1>1 DEF PiecesInOrder, StagesInOrder
<1>3. DrawingOK(drawing) /\ drawing.plan.outer.channels = "stable"
  BY <1>2 DEF DrawingInOrder
<1>4. PICK tracks, plan :
        /\ tracks = BuildEndpointTracks(drawing.plan.lanes, StableOuter, drawing.plan.spacing)
        /\ plan = [drawing.plan EXCEPT !.paths.shape = "aligned", !.tracks = tracks]
        /\ \/ offers' = drawing.offers
           \/ offers' = drawing.offers \cup
                        StaircaseOffers(plan, IF drawing.quality # None THEN drawing.quality
                                              ELSE RouteQualityForPlan(drawing.routes))
  BY DEF StaircaseAlternative
<1>5. tracks \in TrackSet
  BY <1>3, <1>4, TracksAreBuilt DEF DrawingOK, DrawingSet, PlanSet, StableOuter, OuterSet
<1>6. (IF drawing.quality # None THEN drawing.quality ELSE RouteQualityForPlan(drawing.routes))
        = RouteQualityForPlan(EmitRoutes(drawing.plan))
  BY <1>3 DEF DrawingOK
<1>7. ASSUME NEW o \in StaircaseOffers(plan, RouteQualityForPlan(EmitRoutes(drawing.plan)))
      PROVE  OfferOK(o)
  <2>1. /\ o = [quality |-> RouteQualityForPlan(EmitRoutes(plan)), routes |-> EmitRoutes(plan)]
        /\ routing.exact \/ Shorter(o.quality, RouteQualityForPlan(EmitRoutes(drawing.plan)))
    BY <1>7 DEF StaircaseOffers, Offers, Offer
  <2> QED BY <1>3, <1>4, <1>5, <2>1, ShapedOffer DEF DrawingOK, PlainPlan, Shapes
<1>8. \A o \in offers' : OfferOK(o)
  BY <1>3, <1>4, <1>6, <1>7 DEF DrawingOK
<1>9. DrawingInOrder' /\ LaneInOrder'
  BY <1>1, <1>2, <1>3, PiecesGoOn DEF DrawingInOrder, LaneInOrder
<1> QED BY <1>1, <1>8, <1>9, PiecesGoOn DEF PiecesInOrder

LEMMA SparseCandidateKeepsOrder ==
  ASSUME StagesInOrder, PiecesInOrder, DrawSparseCandidate
  PROVE  PiecesInOrder'
<1>1. /\ pc = "orders" /\ caller' = "sparse" /\ pc' \in {"orders", "adaptive"}
      /\ UNCHANGED <<routing, world, lane, offers, legacy>>
  BY DEF DrawSparseCandidate
<1>2. DrawingInOrder /\ LaneInOrder /\ caller # "fanned"
  BY <1>1 DEF PiecesInOrder, StagesInOrder, Early
<1>3. DrawingInOrder'
  <2>1. CASE UNCHANGED drawing /\ pc' = "orders"
    BY <1>1, <1>2, <2>1, PiecesGoOn DEF DrawingInOrder
  <2>2. CASE pc' = "adaptive" /\ ~UNCHANGED <<drawing, pc>>
    <3>1. PICK order, lanes, tracks, plan :
            /\ order \in LaneOrders
            /\ lanes = [InitialLanes EXCEPT !.order = order]
            /\ tracks = BuildEndpointTracks(lanes, StableOuter, "compact")
            /\ plan = Plan(lanes, tracks, lane.plan.paths, StableOuter, "compact")
            /\ drawing' = Fresh(plan, lane.match /\ tracks = lane.plan.tracks)
      BY <1>1, <2>2 DEF DrawSparseCandidate, StagesInOrder
    <3>0. PICK paths, match : paths = lane.plan.paths /\ match = (lane.match /\ tracks = lane.plan.tracks)
      OBVIOUS
    <3>2. lanes \in LaneSet /\ lanes.moved = "found"
      BY <3>1 DEF InitialLanes, LaneSet
    <3>3. StableOuter \in OuterSet /\ ~StableOuter.resided /\ StableOuter.channels = "stable"
          /\ "compact" \in Spacings
      BY DEF StableOuter, OuterSet, Spacings
    <3>4. tracks \in TrackSet
      BY <3>1, <3>2, <3>3, TracksAreBuilt
    <3>5. /\ paths \in PathSet /\ paths.shape = "found"
          /\ lane.match => paths.tracks = lane.plan.tracks
      BY <1>2, <3>0 DEF LaneInOrder, DrawingOK, PlainPlan, FoundPlan, PlanSet
    <3>6. /\ plan.lanes = lanes /\ plan.outer = StableOuter /\ plan.tracks = tracks
          /\ plan.paths = paths /\ plan.spacing = "compact" /\ plan \in PlanSet
      BY <3>0, <3>1, <3>2, <3>3, <3>4, <3>5 DEF Plan, PlanSet
    <3>7. PlainPlan(plan) /\ plan.outer.channels = "stable"
      BY <3>2, <3>3, <3>5, <3>6 DEF PlainPlan, FoundPlan
    <3>8. drawing' = Fresh(plan, match) /\ match \in BOOLEAN
      BY <3>0, <3>1
    <3>9. match => plan.paths.tracks = plan.tracks
      BY <3>0, <3>5, <3>6
    <3>10. DrawingOK(drawing') /\ drawing'.plan = plan /\ drawing'.repair = {} /\ drawing'.deeper = {}
      BY <3>7, <3>8, <3>9, FreshIsOK
    <3> QED BY <1>1, <2>2, <3>7, <3>10, PiecesGoOn DEF DrawingInOrder
  <2> QED BY <2>1, <2>2 DEF DrawSparseCandidate
<1>4. LaneInOrder'
  BY <1>1, <1>2, PiecesGoOn DEF LaneInOrder
<1> QED BY <1>1, <1>3, <1>4, PiecesGoOn DEF PiecesInOrder, StagesInOrder, Early

LEMMA FinishSparseKeepsOrder ==
  ASSUME StagesInOrder, PiecesInOrder, FinishSparseCandidate
  PROVE  PiecesInOrder'
<1>1. /\ pc = "sparse" /\ caller = "sparse" /\ pc' \in {"orders", "feedback"}
      /\ UNCHANGED <<routing, world, caller, lane, legacy>>
  BY DEF FinishSparseCandidate, StagesInOrder
<1>2. DrawingInOrder /\ LaneInOrder
  BY <1>1 DEF PiecesInOrder, Early
<1>3. DrawingOK(drawing) /\ drawing.repair = {} /\ drawing.deeper = {}
  BY <1>1, <1>2 DEF DrawingInOrder
<1>4. DrawingInOrder' /\ \A o \in offers' : OfferOK(o)
  <2>1. CASE ~world.huge
    <3>1. PICK offer : /\ offer = [Primary(drawing) EXCEPT
                                     !.quality = IF @ # None THEN @
                                                 ELSE RouteQualityForPlan(drawing.routes)]
                       /\ offers' = offers \cup PushDistinct(drawing.offers, offer)
                       /\ UNCHANGED drawing /\ pc' = "orders"
      BY <2>1 DEF FinishSparseCandidate
    <3>2. offer = [quality |-> RouteQualityForPlan(EmitRoutes(drawing.plan)),
                   routes |-> EmitRoutes(drawing.plan)]
      BY <1>3, <3>1 DEF Primary, DrawingOK
    <3>3. OfferOK(offer)
      BY <1>3, <3>2, PlainOffer DEF DrawingOK, PlainPlan
    <3>4. \A o \in offers' : OfferOK(o)
      BY <1>3, <3>1, <3>3 DEF PushDistinct, DrawingOK, PiecesInOrder
    <3> QED BY <1>1, <1>2, <3>1, <3>4, PiecesGoOn DEF DrawingInOrder
  <2>2. CASE world.huge
    <3>1. PICK profile :
            /\ profile = IF Applicable(drawing.profile, drawing.routes) THEN drawing.profile ELSE None
            /\ drawing' = [drawing EXCEPT !.profile = profile, !.offers = {}]
            /\ offers' = offers \cup drawing.offers
            /\ pc' = "feedback"
      BY <2>2 DEF FinishSparseCandidate
    <3>2. /\ drawing'.plan = drawing.plan /\ drawing'.match = drawing.match
          /\ drawing'.routes = drawing.routes /\ drawing'.quality = drawing.quality
          /\ drawing'.profile = profile /\ drawing'.offers = {} /\ drawing'.repair = drawing.repair
          /\ drawing'.deeper = drawing.deeper /\ drawing'.from = drawing.from
          /\ IsRecord(drawing')
      BY <1>3, <3>1 DEF DrawingOK, DrawingSet, IsRecord
    <3>3. /\ profile # None => /\ profile \in OfferSet /\ profile.routes = drawing.routes
                               /\ profile.quality = RouteQualityForPlan(profile.routes)
          /\ drawing.quality # None => drawing.quality = RouteQualityForPlan(drawing.routes)
          /\ \A p \in drawing.from : FoundPlan(p) /\ p.outer.channels = drawing.plan.outer.channels
          /\ \A o \in {} \cup drawing.repair \cup drawing.deeper : OfferOK(o)
      BY <1>3, <3>1 DEF Applicable, DrawingOK
    <3>4. DrawingOK(drawing')
      BY <1>3, <3>2, <3>3, Revised
    <3>5. \A o \in offers' : OfferOK(o)
      BY <1>3, <3>1 DEF DrawingOK, PiecesInOrder
    <3> QED BY <1>1, <1>2, <1>3, <3>1, <3>2, <3>3, <3>4, <3>5, PiecesGoOn DEF DrawingInOrder, ProfileIsOwn
  <2> QED BY <2>1, <2>2
<1>5. LaneInOrder'
  BY <1>1, <1>2, PiecesGoOn DEF LaneInOrder
<1> QED BY <1>1, <1>4, <1>5, PiecesGoOn DEF PiecesInOrder, Early

LEMMA FamiliesAreOffered ==
  ASSUME NEW d, DrawingOK(d), QualityIsKnown(d)
  PROVE  \A o \in FamilyOffers(d) : OfferOK(o)
BY PrimaryOffer DEF FamilyOffers, DrawingOK

LEMMA OfferSparseKeepsOrder ==
  ASSUME StagesInOrder, PiecesInOrder, OfferSparseFamily
  PROVE  PiecesInOrder'
<1>1. /\ pc = "finish" /\ caller = "sparse" /\ pc' = "orders"
      /\ UNCHANGED <<routing, world, drawing, caller, lane, legacy>>
  BY DEF OfferSparseFamily
<1>2. DrawingInOrder /\ LaneInOrder
  BY <1>1 DEF PiecesInOrder, Early
<1>3. PICK more : /\ offers' = PushAll(offers, more)
                  /\ more \subseteq FamilyOffers(drawing) \cup drawing.repair \cup {Primary(drawing)}
  BY DEF OfferSparseFamily
<1>4. \A o \in more : OfferOK(o)
  BY <1>1, <1>2, <1>3, FamiliesAreOffered, PrimaryOffer DEF DrawingInOrder, DrawingOK
<1>5. \A o \in offers' : OfferOK(o)
  BY <1>3, <1>4, Pushed DEF PiecesInOrder
<1>6. DrawingInOrder' /\ LaneInOrder'
  BY <1>1, <1>2, PiecesGoOn DEF DrawingInOrder, LaneInOrder
<1> QED BY <1>1, <1>5, <1>6, PiecesGoOn DEF PiecesInOrder

LEMMA FeedbackKeepsOrder ==
  ASSUME StagesInOrder, PiecesInOrder, FeedbackOfFamily
  PROVE  PiecesInOrder'
<1>1. /\ pc = "feedback" /\ caller \in {"sparse", "stable", "fanned"} /\ pc' = "repair"
      /\ UNCHANGED <<routing, world, caller, lane, offers, stable, legacy>>
  BY DEF FeedbackOfFamily, StagesInOrder
<1>2. DrawingInOrder /\ LaneInOrder
  BY <1>1 DEF PiecesInOrder, Early
<1>3. PICK base : /\ base = IF drawing.profile # None THEN drawing.profile.quality
                            ELSE RouteQualityForPlan(drawing.routes)
                  /\ UNCHANGED drawing \/ CoherentFeedback(base, TRUE)
  BY DEF FeedbackOfFamily
<1>4. base = RouteQualityForPlan(drawing.routes)
  BY <1>1, <1>2, <1>3 DEF DrawingInOrder, ProfileIsOwn, DrawingOK
<1>5. /\ DrawingOK(drawing') /\ SameKin(drawing', drawing)
      /\ UNCHANGED drawing \/ drawing'.profile.routes = drawing'.routes
  <2>1. CASE UNCHANGED drawing
    BY <1>2, <2>1 DEF DrawingInOrder, SameKin
  <2>2. CASE CoherentFeedback(base, TRUE)
    BY <1>2, <1>4, <2>2, FeedbackTaken DEF DrawingInOrder
  <2> QED BY <1>3, <2>1, <2>2
<1>6. DrawingInOrder'
  BY <1>1, <1>2, <1>5, PiecesGoOn DEF DrawingInOrder, ProfileIsOwn, SameKin
<1>7. LaneInOrder'
  BY <1>1, <1>2, PiecesGoOn DEF LaneInOrder
<1> QED BY <1>1, <1>6, <1>7, PiecesGoOn DEF PiecesInOrder, Early

LEMMA CoherentKeepsOrder ==
  ASSUME StagesInOrder, PiecesInOrder, CoherentPrimary
  PROVE  PiecesInOrder'
<1>1. /\ pc = "coherent" /\ caller = "primary" /\ pc' = "repair"
      /\ UNCHANGED <<routing, world, caller, lane, offers, legacy>>
  BY DEF CoherentPrimary, StagesInOrder
<1>2. DrawingInOrder /\ LaneInOrder
  BY <1>1 DEF PiecesInOrder, Early
<1>3. UNCHANGED drawing \/ CoherentFeedback(RouteQualityForPlan(drawing.routes), FALSE)
  BY DEF CoherentPrimary
<1>4. DrawingOK(drawing') /\ SameKin(drawing', drawing)
  BY <1>2, <1>3, FeedbackTaken DEF DrawingInOrder, SameKin
<1>5. DrawingInOrder'
  BY <1>1, <1>2, <1>4, PiecesGoOn DEF DrawingInOrder, SameKin
<1>6. LaneInOrder'
  BY <1>1, <1>2, PiecesGoOn DEF LaneInOrder
<1> QED BY <1>1, <1>5, <1>6, PiecesGoOn DEF PiecesInOrder, Early

LEMMA FamilyRepairsKeepOrder ==
  ASSUME StagesInOrder, PiecesInOrder, RepairsOfFamily
  PROVE  PiecesInOrder'
<1>1. /\ pc = "repair" /\ caller # "primary" /\ pc' = "finish"
      /\ UNCHANGED <<routing, world, caller, lane, offers, stable, legacy>>
  BY DEF RepairsOfFamily
<1>2. DrawingInOrder /\ LaneInOrder
  BY <1>1 DEF PiecesInOrder, Early
<1>3. DrawingOK(drawing) /\ ProfileIsOwn(drawing) /\ drawing \in DrawingSet
  BY <1>1, <1>2 DEF DrawingInOrder, DrawingOK
<1>4. PICK profile \in {IF drawing.profile = None /\ DeeperRepairWithinBudget(Deeper)
                       THEN Measured(drawing.routes) ELSE drawing.profile},
            repair \in {IF routing.supplemental THEN RepairPlans(MaxBatchedRepairNets) ELSE {}},
            deep \in {IF DeeperRepairWithinBudget(Deeper) THEN RepairPlans(MaxDeepRepairNets) ELSE {}} :
          /\ drawing' = [drawing EXCEPT
                            !.quality = IF routing.supplemental THEN RepairBaseline(profile)
                                        ELSE IF profile # None THEN profile.quality
                                        ELSE RouteQualityForPlan(drawing.routes),
                            !.repair  = Offers(repair),
                            !.deeper  = Offers(deep) \ Offers(repair)]
          /\ drawn' = drawn \cup repair \cup deep
  BY Zenon DEF RepairsOfFamily
<1>a. /\ profile \in {drawing.profile, Measured(drawing.routes)}
      /\ \A p \in repair : p \in RepairPlans(MaxBatchedRepairNets)
      /\ \A p \in deep : p \in RepairPlans(MaxDeepRepairNets)
  BY <1>4
<1>b. PICK quality : quality = IF routing.supplemental THEN RepairBaseline(profile)
                               ELSE IF profile # None THEN profile.quality
                               ELSE RouteQualityForPlan(drawing.routes)
  OBVIOUS
<1>5. quality = RouteQualityForPlan(drawing.routes)
  BY <1>3, <1>a, <1>b DEF RepairBaseline, Measured, ProfileIsOwn, DrawingOK
<1>6. \A p \in repair \cup deep : FoundPlan(p)
  BY <1>3, <1>a, RepairsAreFound
<1>7. \A o \in Offers(repair) \cup Offers(deep) : OfferOK(o)
  BY <1>6, FoundOffers
<1>8. /\ drawing'.plan = drawing.plan /\ drawing'.match = drawing.match
      /\ drawing'.routes = drawing.routes /\ drawing'.quality = quality
      /\ drawing'.profile = drawing.profile /\ drawing'.offers = drawing.offers
      /\ drawing'.repair = Offers(repair) /\ drawing'.deeper = Offers(deep) \ Offers(repair)
      /\ drawing'.from = drawing.from
      /\ IsRecord(drawing')
  BY <1>3, <1>4, <1>b DEF DrawingSet, IsRecord
<1>9. DrawingOK(drawing')
  <2>1. /\ \A o \in drawing'.offers \cup drawing'.repair \cup drawing'.deeper : OfferOK(o)
        /\ \A p \in drawing'.from : FoundPlan(p) /\ p.outer.channels = drawing.plan.outer.channels
        /\ drawing'.profile # None =>
             /\ drawing'.profile \in OfferSet
             /\ drawing'.profile.quality = RouteQualityForPlan(drawing'.profile.routes)
    BY <1>3, <1>7, <1>8 DEF DrawingOK
  <2> QED BY <1>3, <1>5, <1>8, <2>1, Revised
<1>10. DrawingInOrder'
  BY <1>1, <1>2, <1>5, <1>8, <1>9, PiecesGoOn DEF DrawingInOrder, QualityIsKnown
<1>11. LaneInOrder'
  BY <1>1, <1>2, PiecesGoOn DEF LaneInOrder
<1> QED BY <1>1, <1>10, <1>11, PiecesGoOn DEF PiecesInOrder, Early

LEMMA PrimaryRepairsKeepOrder ==
  ASSUME StagesInOrder, PiecesInOrder, RepairsOfPrimary
  PROVE  PiecesInOrder'
<1>1. /\ pc = "repair" /\ caller = "primary" /\ pc' = "negotiate"
      /\ UNCHANGED <<routing, world, caller, lane, offers, legacy>>
  BY DEF RepairsOfPrimary
<1>2. DrawingInOrder /\ LaneInOrder
  BY <1>1 DEF PiecesInOrder, Early
<1>3. DrawingOK(drawing) /\ drawing \in DrawingSet
  BY <1>2 DEF DrawingInOrder, DrawingOK
<1>4. PICK profile \in {RepairProfile},
          repair \in {IF routing.supplemental THEN RepairPlans(MaxBatchedRepairNets) ELSE {}},
          deep \in {IF DeeperRepairWithinBudget(routing.deeper)
                    THEN RepairPlans(MaxDeepRepairNets) ELSE {}} :
          /\ drawing' = [drawing EXCEPT
                            !.profile = profile,
                            !.quality = IF routing.supplemental THEN RepairBaseline(profile) ELSE @,
                            !.repair  = Offers(repair),
                            !.deeper  = Offers(deep) \ Offers(repair),
                            !.from    = deep]
          /\ drawn' = drawn \cup repair \cup deep
  BY Zenon DEF RepairsOfPrimary
<1>a. /\ profile = RepairProfile
      /\ \A p \in repair : p \in RepairPlans(MaxBatchedRepairNets)
      /\ \A p \in deep : p \in RepairPlans(MaxDeepRepairNets)
  BY <1>4
<1>b. PICK quality : quality = IF routing.supplemental THEN RepairBaseline(profile)
                               ELSE drawing.quality
  OBVIOUS
<1>5. profile # None => /\ profile \in OfferSet /\ profile.routes = drawing.routes
                        /\ profile.quality = RouteQualityForPlan(profile.routes)
  <2>1. \/ profile \in {None, Measured(drawing.routes)}
        \/ profile = drawing.profile /\ Applicable(drawing.profile, drawing.routes)
    BY <1>a DEF RepairProfile, PrepareRepairProfile
  <2>2. drawing.routes \in RouteSet
    BY <1>3 DEF DrawingSet
  <2> QED BY <1>3, <2>1, <2>2, QualitiesAreNumbers DEF Measured, OfferSet, Applicable, DrawingOK
<1>6. quality # None => quality = RouteQualityForPlan(drawing.routes)
  BY <1>3, <1>b, <1>5 DEF RepairBaseline, DrawingOK
<1>7. \A p \in repair \cup deep : FoundPlan(p) /\ p.outer.channels = drawing.plan.outer.channels
  BY <1>3, <1>a, RepairsAreFound
<1>8. \A o \in Offers(repair) \cup Offers(deep) : OfferOK(o)
  BY <1>7, FoundOffers
<1>9. /\ drawing'.plan = drawing.plan /\ drawing'.match = drawing.match
      /\ drawing'.routes = drawing.routes /\ drawing'.quality = quality
      /\ drawing'.profile = profile /\ drawing'.offers = drawing.offers
      /\ drawing'.repair = Offers(repair) /\ drawing'.deeper = Offers(deep) \ Offers(repair)
      /\ drawing'.from = deep
      /\ IsRecord(drawing')
  BY <1>3, <1>4, <1>b DEF DrawingSet, IsRecord
<1>10. DrawingOK(drawing')
  <2>1. /\ \A o \in drawing'.offers \cup drawing'.repair \cup drawing'.deeper : OfferOK(o)
        /\ \A p \in drawing'.from : FoundPlan(p) /\ p.outer.channels = drawing.plan.outer.channels
    BY <1>3, <1>7, <1>8, <1>9 DEF DrawingOK
  <2> QED BY <1>3, <1>5, <1>6, <1>9, <2>1, Revised
<1>11. DrawingInOrder'
  BY <1>1, <1>2, <1>5, <1>9, <1>10, PiecesGoOn DEF DrawingInOrder, ProfileIsOwn
<1>12. LaneInOrder'
  BY <1>1, <1>2, PiecesGoOn DEF LaneInOrder
<1> QED BY <1>1, <1>11, <1>12, PiecesGoOn DEF PiecesInOrder, Early

LEMMA MainFamilyKeepsOrder ==
  ASSUME StagesInOrder, PiecesInOrder, FinishStableFamily \/ StartPrimary
  PROVE  PiecesInOrder'
<1>1. /\ pc = "orders"
      /\ \/ pc' = "feedback" /\ caller' = "stable"
         \/ pc' = "coherent" /\ caller' = "primary"
      /\ UNCHANGED <<routing, world, lane, offers, legacy>>
  BY DEF FinishStableFamily, StartPrimary
<1>2. LaneInOrder
  BY <1>1 DEF PiecesInOrder, Early
<1>3. DrawingOK(lane) /\ lane \in DrawingSet /\ lane.routes \in RouteSet
  BY <1>2 DEF LaneInOrder, DrawingOK, DrawingSet
<1>4. /\ drawing'.plan = lane.plan /\ drawing'.match = lane.match
      /\ drawing'.routes = lane.routes /\ drawing'.quality = lane.quality
      /\ drawing'.offers = {} /\ drawing'.repair = lane.repair
      /\ drawing'.deeper = lane.deeper /\ drawing'.from = lane.from
      /\ IsRecord(drawing')
  <2>1. CASE FinishStableFamily
    BY <1>3, <2>1 DEF FinishStableFamily, DrawingSet, IsRecord
  <2>2. CASE StartPrimary
    BY <1>3, <2>2 DEF StartPrimary, DrawingSet, IsRecord
  <2> QED BY <2>1, <2>2
<1>5. /\ drawing'.profile # None =>
           /\ drawing'.profile \in OfferSet
           /\ drawing'.profile.quality = RouteQualityForPlan(drawing'.profile.routes)
      /\ pc' = "feedback" => ProfileIsOwn(drawing')
  <2>1. CASE FinishStableFamily
    <3>1. drawing'.profile = IF Applicable(lane.profile, lane.routes) THEN lane.profile
                             ELSE Measured(lane.routes)
      BY <1>3, <2>1 DEF FinishStableFamily, DrawingSet
    <3> QED BY <1>3, <1>4, <3>1, QualitiesAreNumbers
            DEF Applicable, Measured, DrawingOK, OfferSet, ProfileIsOwn
  <2>2. CASE StartPrimary
    BY <1>3, <2>2 DEF StartPrimary, DrawingSet, DrawingOK
  <2> QED BY <2>1, <2>2
<1>6. DrawingOK(drawing')
  <2>1. /\ \A o \in drawing'.offers \cup drawing'.repair \cup drawing'.deeper : OfferOK(o)
        /\ \A p \in drawing'.from : FoundPlan(p) /\ p.outer.channels = lane.plan.outer.channels
        /\ drawing'.quality # None => drawing'.quality = RouteQualityForPlan(lane.routes)
    BY <1>3, <1>4 DEF DrawingOK
  <2> QED BY <1>3, <1>4, <1>5, <2>1, Revised
<1>7. DrawingInOrder'
  BY <1>1, <1>2, <1>4, <1>5, <1>6, PiecesGoOn DEF DrawingInOrder, LaneInOrder, ProfileIsOwn
<1>8. LaneInOrder'
  BY <1>1, <1>2, PiecesGoOn DEF LaneInOrder
<1> QED BY <1>1, <1>7, <1>8, PiecesGoOn DEF PiecesInOrder, Early

LEMMA FannedIsPlain ==
  ASSUME LaneInOrder
  PROVE  /\ PlainPlan(FannedPlan) /\ FannedPlan.paths = lane.plan.paths
         /\ FannedPlan.outer.channels = "fanned"
<1>1. PICK outer : outer = [StableOuter EXCEPT !.channels = "fanned"]
  OBVIOUS
<1>2. outer \in OuterSet /\ ~outer.resided /\ outer.channels = "fanned"
  BY <1>1 DEF StableOuter, OuterSet
<1>3. lane.plan \in PlanSet /\ PlainPlan(lane.plan)
  BY DEF LaneInOrder, DrawingOK, DrawingSet
<1>4. PICK tracks \in TrackSet :
        tracks = IF ChannelsMatch(outer, StableOuter) THEN lane.plan.tracks
                 ELSE BuildEndpointTracks(lane.plan.lanes, outer, lane.plan.spacing)
  BY <1>2, <1>3, TracksAreBuilt DEF PlanSet
<1>5. FannedPlan = [lane.plan EXCEPT !.outer = outer, !.tracks = tracks]
  BY <1>1, <1>3, <1>4 DEF FannedPlan, PlanSet
<1> QED BY <1>2, <1>3, <1>4, <1>5 DEF PlanSet, PlainPlan, FoundPlan

LEMMA FannedKeepsOrder ==
  ASSUME StagesInOrder, PiecesInOrder, CompareFanned
  PROVE  PiecesInOrder'
<1>1. /\ pc = "finish" /\ caller = "stable" /\ stable' = drawing
      /\ UNCHANGED <<routing, world, lane, legacy>>
  BY DEF CompareFanned
<1>2. DrawingInOrder /\ LaneInOrder
  BY <1>1 DEF PiecesInOrder, Early
<1>3. DrawingOK(drawing) /\ QualityIsKnown(drawing)
  BY <1>1, <1>2 DEF DrawingInOrder
<1>4. PICK plan, profile, match :
        /\ plan = FannedPlan /\ profile = Measured(EmitRoutes(plan))
        /\ match = (lane.match /\ plan.tracks = lane.plan.tracks)
        /\ \/ /\ drawing' = [Fresh(plan, match) EXCEPT !.profile = profile]
              /\ caller' = "fanned" /\ pc' = "feedback" /\ UNCHANGED offers
           \/ /\ offers' \in {offers, offers \cup {profile}}
              /\ pc' = "fanout" /\ UNCHANGED <<drawing, caller>>
  <2>1. PICK plan \in {FannedPlan} :
       \E profile \in {Measured(EmitRoutes(plan))},
          base \in {RetainedSpacingProfile(lane.profile, lane.routes)} :
          /\ drawn' = drawn \cup {plan}
          /\ IF Shorter(profile.quality, base.quality)
             THEN /\ drawing' = [Fresh(plan, lane.match /\ plan.tracks = lane.plan.tracks) EXCEPT
                                    !.profile = profile]
                  /\ caller' = "fanned"
                  /\ pc' = "feedback"
                  /\ UNCHANGED offers
             ELSE /\ offers' = IF routing.exact /\ profile.routes # drawing.routes
                               THEN offers \cup {profile} ELSE offers
                  /\ pc' = "fanout"
                  /\ UNCHANGED <<drawing, caller>>
    BY Zenon DEF CompareFanned
  <2>2. PICK profile \in {Measured(EmitRoutes(plan))},
             base \in {RetainedSpacingProfile(lane.profile, lane.routes)} :
          /\ drawn' = drawn \cup {plan}
          /\ IF Shorter(profile.quality, base.quality)
             THEN /\ drawing' = [Fresh(plan, lane.match /\ plan.tracks = lane.plan.tracks) EXCEPT
                                    !.profile = profile]
                  /\ caller' = "fanned"
                  /\ pc' = "feedback"
                  /\ UNCHANGED offers
             ELSE /\ offers' = IF routing.exact /\ profile.routes # drawing.routes
                               THEN offers \cup {profile} ELSE offers
                  /\ pc' = "fanout"
                  /\ UNCHANGED <<drawing, caller>>
    BY <2>1, Zenon
  <2>3. PICK match : match = (lane.match /\ plan.tracks = lane.plan.tracks)
    OBVIOUS
  <2>4. plan = FannedPlan /\ profile = Measured(EmitRoutes(plan))
    BY <2>1, <2>2
  <2>5. \/ /\ drawing' = [Fresh(plan, match) EXCEPT !.profile = profile]
           /\ caller' = "fanned" /\ pc' = "feedback" /\ UNCHANGED offers
        \/ /\ offers' \in {offers, offers \cup {profile}}
           /\ pc' = "fanout" /\ UNCHANGED <<drawing, caller>>
    BY <2>2, <2>3
  <2> QED BY <2>3, <2>4, <2>5
<1>5. /\ PlainPlan(plan) /\ plan.paths = lane.plan.paths /\ plan.outer.channels = "fanned"
      /\ EmitRoutes(plan) \in RouteSet
  BY <1>2, <1>4, FannedIsPlain, PlansAreDrawn DEF PlainPlan, FoundPlan
<1>6. /\ OfferOK(profile) /\ profile.routes = EmitRoutes(plan)
      /\ profile.quality = RouteQualityForPlan(profile.routes)
  <2>1. profile = [quality |-> RouteQualityForPlan(EmitRoutes(plan)), routes |-> EmitRoutes(plan)]
    BY <1>4 DEF Measured
  <2> QED BY <1>5, <2>1, PlainOffer DEF PlainPlan
<1>7. match \in BOOLEAN /\ (match => plan.paths.tracks = plan.tracks)
  BY <1>2, <1>4, <1>5 DEF LaneInOrder, DrawingOK
<1>8. LaneInOrder' /\ DrawingOK(stable') /\ QualityIsKnown(stable')
  BY <1>1, <1>2, <1>3, PiecesGoOn DEF LaneInOrder
<1>9. CASE pc' = "feedback" /\ caller' = "fanned" /\ UNCHANGED offers
           /\ drawing' = [Fresh(plan, match) EXCEPT !.profile = profile]
  <2>1. PICK fresh : fresh = Fresh(plan, match)
    OBVIOUS
  <2>2. /\ DrawingOK(fresh) /\ fresh.plan = plan /\ fresh.match = match
        /\ fresh.routes = EmitRoutes(plan) /\ fresh.repair = {} /\ fresh.deeper = {}
    BY <1>5, <1>7, <2>1, FreshIsOK
  <2>3. fresh \in DrawingSet
    BY <2>2 DEF DrawingOK
  <2>4. /\ drawing'.plan = plan /\ drawing'.match = match
        /\ drawing'.routes = EmitRoutes(plan) /\ drawing'.quality = fresh.quality
        /\ drawing'.profile = profile /\ drawing'.offers = fresh.offers
        /\ drawing'.repair = {} /\ drawing'.deeper = {} /\ drawing'.from = fresh.from
        /\ IsRecord(drawing')
    BY <1>9, <2>1, <2>2, <2>3 DEF DrawingSet, IsRecord
  <2>5. /\ \A o \in drawing'.offers \cup drawing'.repair \cup drawing'.deeper : OfferOK(o)
        /\ \A p \in drawing'.from : FoundPlan(p) /\ p.outer.channels = fresh.plan.outer.channels
        /\ drawing'.quality # None => drawing'.quality = RouteQualityForPlan(fresh.routes)
        /\ drawing'.profile # None =>
             /\ drawing'.profile \in OfferSet
             /\ drawing'.profile.quality = RouteQualityForPlan(drawing'.profile.routes)
    BY <1>6, <2>2, <2>4 DEF DrawingOK, OfferOK
  <2>6. DrawingOK(drawing')
    BY <2>2, <2>4, <2>5, Revised
  <2>7. DrawingInOrder'
    BY <1>1, <1>6, <1>9, <2>4, <2>6, PiecesGoOn DEF DrawingInOrder, ProfileIsOwn
  <2> QED BY <1>1, <1>8, <1>9, <2>7, PiecesGoOn DEF PiecesInOrder, Early
<1>10. CASE pc' = "fanout" /\ UNCHANGED <<drawing, caller>> /\ offers' \in {offers, offers \cup {profile}}
  <2>1. DrawingInOrder'
    BY <1>1, <1>2, <1>3, <1>10, PiecesGoOn DEF DrawingInOrder
  <2>2. \A o \in offers' : OfferOK(o)
    BY <1>6, <1>10 DEF PiecesInOrder
  <2> QED BY <1>1, <1>8, <1>10, <2>1, <2>2, PiecesGoOn DEF PiecesInOrder, Early
<1> QED BY <1>4, <1>9, <1>10

LEMMA FinishFannedKeepsOrder ==
  ASSUME StagesInOrder, PiecesInOrder, FinishFannedFamily
  PROVE  PiecesInOrder'
<1>1. /\ pc = "finish" /\ caller = "fanned" /\ pc' = "fanout"
      /\ offers' = offers \cup FamilyOffers(stable)
      /\ UNCHANGED <<routing, world, drawing, caller, lane, legacy>>
  BY DEF FinishFannedFamily
<1>2. DrawingInOrder /\ LaneInOrder /\ DrawingOK(stable) /\ QualityIsKnown(stable)
  BY <1>1 DEF PiecesInOrder, Early
<1>3. \A o \in offers' : OfferOK(o)
  BY <1>1, <1>2, FamiliesAreOffered DEF PiecesInOrder
<1>4. DrawingInOrder' /\ LaneInOrder'
  BY <1>1, <1>2, PiecesGoOn DEF DrawingInOrder, LaneInOrder
<1> QED BY <1>1, <1>3, <1>4, PiecesGoOn DEF PiecesInOrder

LEMMA DrawingsResult ==
  ASSUME NEW d, DrawingOK(d), NEW more, \A o \in more : OfferOK(o),
         NEW x, x = [primary |-> Primary(d), repair |-> d.repair, alternatives |-> more]
  PROVE  ResultOK(x)
<1>1. d \in DrawingSet /\ d.routes = EmitRoutes(d.plan) /\ FoundPlan(d.plan)
  BY DEF DrawingOK, PlainPlan
<1>2. Unshaped(d.routes) = d.routes
  BY <1>1, PrimariesAreUnshaped
<1>3. x \in ResultSet
  BY <1>1 DEF Primary, ResultSet, DrawingSet, OfferOK
<1> QED BY <1>1, <1>2, <1>3 DEF Primary, ResultOK, DrawingOK

LEMMA FinishFanoutKeepsOrder ==
  ASSUME StagesInOrder, PiecesInOrder, FinishFanoutRouteFamilies
  PROVE  PiecesInOrder'
<1>1. /\ pc = "fanout" /\ pc' = "deliver"
      /\ UNCHANGED <<routing, world, drawing, caller, lane, offers, legacy>>
  BY DEF FinishFanoutRouteFamilies
<1>2. DrawingInOrder /\ LaneInOrder
  BY <1>1 DEF PiecesInOrder, Early
<1>3. PICK more : /\ more = PushAll({}, offers \cup drawing.deeper \cup drawing.offers)
                  /\ result' = [primary |-> Primary(drawing), repair |-> drawing.repair,
                                alternatives |-> more]
  BY DEF FinishFanoutRouteFamilies
<1>4. \A o \in more : OfferOK(o)
  BY <1>2, <1>3, Pushed DEF PiecesInOrder, DrawingInOrder, DrawingOK
<1>5. ResultOK(result')
  BY <1>2, <1>3, <1>4, DrawingsResult DEF DrawingInOrder
<1>6. DrawingInOrder' /\ LaneInOrder'
  BY <1>1, <1>2, PiecesGoOn DEF DrawingInOrder, LaneInOrder
<1> QED BY <1>1, <1>5, <1>6, PiecesGoOn DEF PiecesInOrder

\* What is negotiated is offered only for a gain.
LEMMA NegotiatedOffers ==
  ASSUME NEW picks, \A p \in picks : FoundPlan(p) /\ p.outer.channels = "stable",
         NEW profile, \A p \in picks :
           /\ profile # None => profile.quality = RouteQualityForPlan(EmitRoutes(p))
           /\ NegotiatedIsOffered(p, profile)
  PROVE  \A o \in Offers({NegotiatedPlan(p) : p \in picks}) : OfferOK(o)
<1> SUFFICES ASSUME NEW p \in picks PROVE OfferOK(Offer(EmitRoutes(NegotiatedPlan(p))))
  BY DEF Offers
<1>1. PICK plan : plan = NegotiatedPlan(p)
  OBVIOUS
<1>2. p \in PlanSet /\ FoundPlan(p) /\ p.outer.channels = "stable" /\ p.tracks \in TrackSet
  BY DEF FoundPlan, PlanSet
<1>3. plan = [p EXCEPT !.paths.shape = "negotiated", !.tracks = p.tracks]
  BY <1>1, <1>2 DEF NegotiatedPlan, PlanSet
<1>4. PICK base, quality : /\ base = RouteQualityForPlan(EmitRoutes(p))
                           /\ quality = RouteQualityForPlan(EmitRoutes(plan))
  OBVIOUS
<1>5. routing.exact \/ NegotiatedQualityIsBetter(base, quality)
  BY <1>1, <1>4 DEF NegotiatedIsOffered
<1>6. routing.exact \/ Shorter(quality, base)
  BY <1>5 DEF NegotiatedQualityIsBetter, Shorter
<1>7. OfferOK([quality |-> quality, routes |-> EmitRoutes(plan)])
  BY <1>2, <1>3, <1>4, <1>6, ShapedOffer DEF Shapes
<1> QED BY <1>1, <1>4, <1>7 DEF Offer

LEMMA NegotiateKeepsOrder ==
  ASSUME StagesInOrder, PiecesInOrder, Negotiate
  PROVE  PiecesInOrder'
<1>1. /\ pc = "negotiate" /\ caller = "primary" /\ pc' = "deliver"
      /\ UNCHANGED <<routing, world, drawing, caller, lane, offers, legacy>>
  BY DEF Negotiate, StagesInOrder
<1>2. DrawingInOrder /\ LaneInOrder
  BY <1>1 DEF PiecesInOrder, Early
<1>3. DrawingOK(drawing) /\ drawing.plan.outer.channels = "stable" /\ ProfileIsOwn(drawing)
  BY <1>1, <1>2 DEF DrawingInOrder
<1>4. PICK picks : /\ picks = {NegotiatedPlan(p) : p \in NegotiatedFromRepair \cup NegotiatedFromPrimary}
                   /\ result' = [primary |-> Primary(drawing), repair |-> drawing.repair,
                                 alternatives |-> offers \cup drawing.offers \cup drawing.deeper
                                                         \cup Offers(picks)]
  BY DEF Negotiate
<1>5. \A o \in Offers({NegotiatedPlan(p) : p \in NegotiatedFromRepair}) : OfferOK(o)
  <2>1. \A p \in NegotiatedFromRepair :
          /\ FoundPlan(p) /\ p.outer.channels = "stable"
          /\ NegotiatedIsOffered(p, None)
    BY <1>3 DEF NegotiatedFromRepair, DrawingOK
  <2> QED BY <2>1, NegotiatedOffers
<1>6. \A o \in Offers({NegotiatedPlan(p) : p \in NegotiatedFromPrimary}) : OfferOK(o)
  <2>1. \A p \in NegotiatedFromPrimary :
          /\ FoundPlan(p) /\ p.outer.channels = "stable"
          /\ NegotiatedIsOffered(p, drawing.profile)
          /\ drawing.profile # None => drawing.profile.quality = RouteQualityForPlan(EmitRoutes(p))
    BY <1>3 DEF NegotiatedFromPrimary, DrawingOK, PlainPlan, ProfileIsOwn
  <2> QED BY <2>1, NegotiatedOffers
<1>7. \A o \in Offers(picks) : OfferOK(o)
  BY <1>4, <1>5, <1>6 DEF Offers
<1>8. PICK more : more = offers \cup drawing.offers \cup drawing.deeper \cup Offers(picks)
  OBVIOUS
<1>9. \A o \in more : OfferOK(o)
  BY <1>3, <1>7, <1>8 DEF PiecesInOrder, DrawingOK
<1>10. ResultOK(result')
  BY <1>3, <1>4, <1>8, <1>9, DrawingsResult
<1>11. DrawingInOrder' /\ LaneInOrder'
  BY <1>1, <1>2, PiecesGoOn DEF DrawingInOrder, LaneInOrder
<1> QED BY <1>1, <1>10, <1>11, PiecesGoOn DEF PiecesInOrder

LEMMA KeepLegacyKeepsOrder ==
  ASSUME StagesInOrder, PiecesInOrder, KeepLegacy
  PROVE  PiecesInOrder'
<1>1. /\ pc = "deliver" /\ pc' = "lanes" /\ legacy' = {result} /\ offers' = {}
      /\ UNCHANGED <<routing, world>>
  BY DEF KeepLegacy
<1>2. ResultOK(result)
  BY <1>1 DEF PiecesInOrder
<1> QED BY <1>1, <1>2, PiecesGoOn DEF PiecesInOrder, Early

LEMMA PrimariesAreOffers ==
  ASSUME NEW x, ResultOK(x)
  PROVE  /\ OfferOK(WithQuality(x.primary)) /\ QualityIsKnown(WithQuality(x.primary))
         /\ WithQuality(x.primary).routes = x.primary.routes
<1>1. PICK p, q : p = x.primary /\ q = RouteQualityForPlan(p.routes)
  OBVIOUS
<1>2. /\ p \in [quality : QualitySet \cup {None}, routes : RouteSet] /\ Unshaped(p.routes) = p.routes
      /\ p.quality # None => p.quality = q
  BY <1>1 DEF ResultOK, ResultSet
<1>3. q \in QualitySet
  BY <1>1, <1>2, QualitiesAreNumbers
<1>4. WithQuality(p) = [quality |-> q, routes |-> p.routes]
  BY <1>1, <1>2 DEF WithQuality
<1> QED BY <1>1, <1>2, <1>3, <1>4 DEF OfferOK, OfferSet, QualityIsKnown

LEMMA DeliverKeepsOrder ==
  ASSUME StagesInOrder, PiecesInOrder, Deliver
  PROVE  PiecesInOrder'
<1>1. /\ pc = "deliver" /\ pc' = "done"
      /\ UNCHANGED <<routing, world, drawing, caller, lane, offers, legacy>>
  BY DEF Deliver
<1>2. DrawingInOrder /\ LaneInOrder /\ ResultOK(result)
  BY <1>1 DEF PiecesInOrder, Early
<1>3. PICK old, more :
        /\ old = UNION {l.alternatives \cup {WithQuality(l.primary)} \cup l.repair : l \in legacy}
        /\ more \subseteq old
        /\ result' = [result EXCEPT !.primary = WithQuality(@), !.alternatives = PushAll(@, more)]
  BY DEF Deliver
<1>4. \A o \in old : OfferOK(o)
  <2>1. ASSUME NEW l \in legacy, NEW o \in l.alternatives \cup {WithQuality(l.primary)} \cup l.repair
        PROVE  OfferOK(o)
    <3>1. ResultOK(l)
      BY DEF PiecesInOrder
    <3> QED BY <3>1, PrimariesAreOffers DEF ResultOK
  <2> QED BY <1>3, <2>1
<1>5. PICK all : all = PushAll(result.alternatives, more)
  OBVIOUS
<1>6. \A o \in all : OfferOK(o)
  BY <1>2, <1>3, <1>4, <1>5, Pushed DEF ResultOK
<1>7. /\ result'.primary = WithQuality(result.primary) /\ result'.repair = result.repair
      /\ result'.alternatives = all
      /\ result' = [primary |-> WithQuality(result.primary), repair |-> result.repair, alternatives |-> all]
  BY <1>2, <1>3, <1>5 DEF ResultOK, ResultSet
<1>8. /\ OfferOK(WithQuality(result.primary)) /\ QualityIsKnown(WithQuality(result.primary))
      /\ WithQuality(result.primary).routes = result.primary.routes
  BY <1>2, PrimariesAreOffers
<1>9. ResultOK(result')
  <2>1. result' \in ResultSet
    BY <1>2, <1>6, <1>7, <1>8 DEF OfferOK, OfferSet, ResultSet, ResultOK
  <2> QED BY <1>2, <1>6, <1>7, <1>8, <2>1 DEF ResultOK, QualityIsKnown
<1>10. QualityIsKnown(result'.primary)
  BY <1>7, <1>8
<1>11. DrawingInOrder' /\ LaneInOrder'
  BY <1>1, <1>2, PiecesGoOn DEF DrawingInOrder, LaneInOrder
<1> QED BY <1>1, <1>9, <1>10, <1>11, PiecesGoOn DEF PiecesInOrder

LEMMA PiecesStayInOrder ==
  ASSUME StagesInOrder, PiecesInOrder, [FamiliesNext]_familiesVars
  PROVE  PiecesInOrder'
<1>1. CASE UNCHANGED familiesVars
  <2>1. /\ DrawingInOrder' <=> DrawingInOrder
        /\ LaneInOrder' <=> LaneInOrder
    BY <1>1, PiecesGoOn DEF familiesVars, DrawingInOrder, LaneInOrder, ProfileIsOwn
  <2> QED BY <1>1, <2>1, PiecesGoOn DEF familiesVars, PiecesInOrder, Early
<1> QED BY <1>1, DrawLanesKeepsOrder, SpacingsKeepOrder, StaircaseKeepsOrder, SparseCandidateKeepsOrder,
           FinishSparseKeepsOrder, OfferSparseKeepsOrder, FeedbackKeepsOrder, CoherentKeepsOrder,
           FamilyRepairsKeepOrder, PrimaryRepairsKeepOrder, MainFamilyKeepsOrder, FannedKeepsOrder,
           FinishFannedKeepsOrder, FinishFanoutKeepsOrder, NegotiateKeepsOrder, KeepLegacyKeepsOrder,
           DeliverKeepsOrder
        DEF FamiliesNext, Done

-----------------------------------------------------------------------------
(* Every step keeps what was drawn on hand, and its repairs fit.           *)

IsKept ==
  /\ \A plan \in drawn' : plan \notin drawn => Fits(plan)
  /\ routing.exact =>
       /\ \A r : OnHand(r) => OnHand(r)'
       /\ \A plan \in drawn' : plan \notin drawn =>
            \E r : r = EmitRoutes(plan) /\ OnHand(r)'

LEMMA PlainFits ==
  ASSUME NEW plan, PlainPlan(plan)
  PROVE  Fits(plan)
BY DEF PlainPlan, FoundPlan, PlanSet, OuterSet, Fits

LEMMA DrawLanesKeeps ==
  ASSUME StagesInOrder, PiecesInOrder, DrawLanes
  PROVE  IsKept
<1>1. PICK emitted : /\ emitted = EmitLanes(pass = "main" /\ StraightRunRoutingIsEligible)
                     /\ drawing' = Fresh(emitted.plan, emitted.match)
                     /\ drawn' = drawn \cup {emitted.plan}
  BY DEF DrawLanes
<1>2. PlainPlan(emitted.plan)
  BY <1>1, EmittedLanes
<1>3. drawing'.routes = EmitRoutes(emitted.plan)
  BY <1>1 DEF Fresh
<1>4. /\ pc = "lanes" /\ pc' = "adaptive" /\ offers = {} /\ UNCHANGED legacy
  BY DEF DrawLanes, StagesInOrder, Early
<1>5. \A r : OnHand(r) => OnHand(r)'
  BY <1>4 DEF OnHand, LaneCounts, Holds
<1>6. \A r : r = EmitRoutes(emitted.plan) => OnHand(r)'
  BY <1>3, <1>4 DEF OnHand, InFamily
<1> QED BY <1>1, <1>2, <1>5, <1>6, PlainFits DEF IsKept

LEMMA KinGoesOn ==
  ASSUME drawing.offers \subseteq drawing'.offers, SameKin(drawing', drawing),
         drawing'.routes = drawing.routes \/ Holds(drawing'.offers, drawing.routes)
  PROVE  \A r : InFamily(drawing, r) => InFamily(drawing', r)
BY DEF SameKin, InFamily, Holds

LEMMA SpacingsKeep ==
  ASSUME StagesInOrder, PiecesInOrder, TryAdaptive \/ TryExpanded
  PROVE  IsKept
<1>1. /\ \/ UNCHANGED <<drawing, drawn>>
         \/ \E spacing \in {"adaptive", "expanded"} : SelectGapSpacing(spacing)
      /\ UNCHANGED <<caller, lane, offers, legacy>>
      /\ pc \in {"adaptive", "expanded"} /\ caller \in {"none", "sparse"}
      /\ pc' \in {"expanded", "sparse", "staircase"} /\ (caller = "sparse" => pc' # "staircase")
  BY DEF TryAdaptive, TryExpanded, StagesInOrder
<1>2. DrawingOK(drawing) /\ world \in Worlds
  BY <1>1 DEF PiecesInOrder, DrawingInOrder, StagesInOrder
<1>3. ASSUME routing.exact => \A r : InFamily(drawing, r) => InFamily(drawing', r)
      PROVE  routing.exact => \A r : OnHand(r) => OnHand(r)'
  BY <1>1, <1>3 DEF OnHand, LaneCounts
<1>4. CASE UNCHANGED <<drawing, drawn>>
  BY <1>3, <1>4 DEF IsKept
<1>5. CASE \E spacing \in {"adaptive", "expanded"} : SelectGapSpacing(spacing)
  <2>1. /\ SameKin(drawing', drawing) /\ drawing.offers \subseteq drawing'.offers
        /\ \E plan : /\ PlainPlan(plan) /\ drawn' = drawn \cup {plan}
                     /\ routing.exact =>
                          \A r \in {drawing.routes, EmitRoutes(plan)} :
                            drawing'.routes = r \/ Holds(drawing'.offers, r)
    BY <1>2, <1>5, SpacingSelected
  <2>2. PICK plan : /\ PlainPlan(plan) /\ drawn' = drawn \cup {plan}
                    /\ routing.exact =>
                         \A r \in {drawing.routes, EmitRoutes(plan)} :
                           drawing'.routes = r \/ Holds(drawing'.offers, r)
    BY <2>1
  <2>3. routing.exact => \A r : InFamily(drawing, r) => InFamily(drawing', r)
    BY <2>1, <2>2, KinGoesOn
  <2>4. routing.exact => InFamily(drawing', EmitRoutes(plan))
    BY <2>2 DEF InFamily, Holds
  <2>5. routing.exact => \A r : r = EmitRoutes(plan) => OnHand(r)'
    BY <1>1, <2>4 DEF OnHand
  <2> QED BY <1>3, <2>2, <2>3, <2>5, PlainFits DEF IsKept
<1> QED BY <1>1, <1>4, <1>5

LEMMA StaircaseKeeps ==
  ASSUME StagesInOrder, PiecesInOrder, StaircaseAlternative
  PROVE  IsKept
<1>1. /\ pc = "staircase" /\ pc' = "orders" /\ lane' = drawing /\ offers = {} /\ caller = "none"
      /\ UNCHANGED <<caller, legacy>>
      /\ drawing.offers \subseteq offers'
  BY DEF StaircaseAlternative, StagesInOrder, Early
<1>2. drawing.repair = {} /\ drawing.deeper = {} /\ drawing \in DrawingSet /\ drawing.plan \in PlanSet
  BY <1>1 DEF PiecesInOrder, DrawingInOrder, DrawingOK, DrawingSet
<1>3. \A r : OnHand(r) => OnHand(r)'
  BY <1>1, <1>2 DEF OnHand, LaneCounts, InFamily, Holds
<1>4. PICK plan : /\ plan = [drawing.plan EXCEPT
                        !.paths.shape = "aligned",
                        !.tracks = BuildEndpointTracks(drawing.plan.lanes, StableOuter,
                                                       drawing.plan.spacing)]
                  /\ \/ UNCHANGED drawn
                     \/ /\ drawn' = drawn \cup {plan}
                        /\ \E base : StaircaseOffers(plan, base) \subseteq offers'
  BY DEF StaircaseAlternative
<1>5. plan.paths.shape = "aligned"
  BY <1>2, <1>4 DEF PlanSet, PathSet
<1>6. ASSUME routing.exact, ~UNCHANGED drawn PROVE Holds(offers', EmitRoutes(plan))
  <2>1. PICK base : StaircaseOffers(plan, base) \subseteq offers'
    BY <1>4, <1>6
  <2>2. Offer(EmitRoutes(plan)) \in StaircaseOffers(plan, base)
    BY <1>6 DEF StaircaseOffers, Offers
  <2> QED BY <2>1, <2>2 DEF Holds, Offer
<1>7. ASSUME routing.exact, ~UNCHANGED drawn PROVE \A r : r = EmitRoutes(plan) => OnHand(r)'
  BY <1>1, <1>6, <1>7 DEF OnHand
<1> QED BY <1>3, <1>4, <1>5, <1>7 DEF IsKept, Fits

LEMMA SparseCandidateKeeps ==
  ASSUME StagesInOrder, PiecesInOrder, DrawSparseCandidate
  PROVE  IsKept
<1>1. /\ pc = "orders" /\ caller' = "sparse" /\ pc' \in {"orders", "adaptive"}
      /\ UNCHANGED <<lane, offers, legacy>>
  BY DEF DrawSparseCandidate
<1>2. \A r : OnHand(r) => OnHand(r)'
  BY <1>1 DEF OnHand, LaneCounts, StagesInOrder
<1>3. \/ UNCHANGED drawn
      \/ \E lanes, tracks, plan, match :
           /\ lanes.moved = "found" /\ plan = Plan(lanes, tracks, lane.plan.paths, StableOuter, "compact")
           /\ drawing' = Fresh(plan, match) /\ drawn' = drawn \cup {plan} /\ pc' = "adaptive"
  <2>1. CASE UNCHANGED drawn
    BY <2>1
  <2>2. CASE ~UNCHANGED drawn
    <3>1. PICK order, lanes, tracks, plan :
            /\ lanes = [InitialLanes EXCEPT !.order = order]
            /\ plan = Plan(lanes, tracks, lane.plan.paths, StableOuter, "compact")
            /\ drawing' = Fresh(plan, lane.match /\ tracks = lane.plan.tracks)
            /\ drawn' = drawn \cup {plan} /\ pc' = "adaptive"
      BY <2>2 DEF DrawSparseCandidate
    <3>2. lanes.moved = "found"
      BY <3>1 DEF InitialLanes
    <3> QED BY <3>1, <3>2
  <2> QED BY <2>1, <2>2
<1>4. CASE UNCHANGED drawn
  BY <1>2, <1>4 DEF IsKept
<1>5. CASE ~UNCHANGED drawn
  <2>1. PICK lanes, tracks, plan, match :
           /\ lanes.moved = "found" /\ plan = Plan(lanes, tracks, lane.plan.paths, StableOuter, "compact")
           /\ drawing' = Fresh(plan, match) /\ drawn' = drawn \cup {plan} /\ pc' = "adaptive"
    BY <1>3, <1>5
  <2>2. Fits(plan)
    BY <2>1 DEF Fits, Plan, StableOuter
  <2>3. \A r : r = EmitRoutes(plan) => OnHand(r)'
    BY <2>1 DEF Fresh, OnHand, InFamily
  <2> QED BY <1>2, <2>1, <2>2, <2>3 DEF IsKept
<1> QED BY <1>4, <1>5

LEMMA FinishSparseKeeps ==
  ASSUME StagesInOrder, PiecesInOrder, FinishSparseCandidate
  PROVE  IsKept
<1>1. /\ pc = "sparse" /\ caller = "sparse" /\ pc' \in {"orders", "feedback"}
      /\ UNCHANGED <<caller, lane, legacy, drawn>>
  BY DEF FinishSparseCandidate, StagesInOrder
<1>2. /\ drawing \in DrawingSet /\ drawing.repair = {} /\ drawing.deeper = {}
  BY <1>1 DEF PiecesInOrder, DrawingInOrder, DrawingOK
<1>3. /\ offers \subseteq offers' /\ drawing.offers \subseteq offers'
      /\ \/ pc' = "orders" /\ Holds(offers', drawing.routes)
         \/ pc' = "feedback" /\ drawing'.routes = drawing.routes
  <2>1. CASE world.huge
    BY <1>2, <2>1 DEF FinishSparseCandidate, DrawingSet
  <2>2. CASE ~world.huge
    <3>1. PICK offer : /\ offer = [Primary(drawing) EXCEPT
                                     !.quality = IF @ # None THEN @
                                                 ELSE RouteQualityForPlan(drawing.routes)]
                       /\ offers' = offers \cup PushDistinct(drawing.offers, offer)
                       /\ pc' = "orders"
      BY <2>2 DEF FinishSparseCandidate
    <3>2. offer.routes = drawing.routes
      BY <3>1 DEF Primary
    <3> QED BY <3>1, <3>2 DEF PushDistinct, Holds
  <2> QED BY <2>1, <2>2
<1>4. \A r : OnHand(r) => OnHand(r)'
  BY <1>1, <1>2, <1>3 DEF OnHand, LaneCounts, InFamily, Holds
<1> QED BY <1>1, <1>4 DEF IsKept

LEMMA FamiliesHold ==
  ASSUME NEW d, NEW r, InFamily(d, r)
  PROVE  Holds(FamilyOffers(d), r)
<1>1. CASE d.routes = r
  <2>1. Primary(d) \in FamilyOffers(d) /\ Primary(d).routes = r
    BY <1>1 DEF FamilyOffers, Primary
  <2> QED BY <2>1 DEF Holds
<1>2. CASE Holds(d.offers \cup d.repair \cup d.deeper, r)
  <2>1. d.offers \cup d.repair \cup d.deeper \subseteq FamilyOffers(d)
    BY DEF FamilyOffers
  <2> QED BY <1>2, <2>1 DEF Holds
<1> QED BY <1>1, <1>2 DEF InFamily

LEMMA OfferSparseKeeps ==
  ASSUME StagesInOrder, PiecesInOrder, OfferSparseFamily
  PROVE  IsKept
<1>1. /\ pc = "finish" /\ caller = "sparse" /\ pc' = "orders"
      /\ UNCHANGED <<drawing, caller, lane, legacy, drawn>>
  BY DEF OfferSparseFamily
<1>2. routing.exact => offers' = PushAll(offers, FamilyOffers(drawing))
  BY DEF OfferSparseFamily
<1>3. routing.exact => /\ offers \subseteq offers'
                       /\ \A o \in FamilyOffers(drawing) : Holds(offers', o.routes)
  BY <1>2, Pushed
<1>4. \A r : InFamily(drawing, r) => Holds(FamilyOffers(drawing), r)
  BY FamiliesHold
<1>5. routing.exact => \A r : InFamily(drawing, r) => Holds(offers', r)
  BY <1>3, <1>4 DEF Holds
<1>6. routing.exact => \A r : OnHand(r) => OnHand(r)'
  BY <1>1, <1>3, <1>5 DEF OnHand, LaneCounts, Holds
<1> QED BY <1>1, <1>6 DEF IsKept

LEMMA FeedbackKeeps ==
  ASSUME StagesInOrder, PiecesInOrder, FeedbackOfFamily \/ CoherentPrimary
  PROVE  IsKept
<1>1. /\ pc' = "repair"
      /\ \/ pc = "feedback" /\ caller \in {"sparse", "stable", "fanned"}
         \/ pc = "coherent" /\ caller = "primary"
      /\ UNCHANGED <<caller, lane, offers, stable, legacy>>
  BY DEF FeedbackOfFamily, CoherentPrimary, StagesInOrder
<1>2. DrawingInOrder /\ DrawingOK(drawing)
  BY <1>1 DEF PiecesInOrder, DrawingInOrder
<1>3. \/ UNCHANGED <<drawing, drawn>>
      \/ \E base : /\ base = RouteQualityForPlan(drawing.routes)
                   /\ CoherentFeedback(base, TRUE) \/ CoherentFeedback(base, FALSE)
  <2>1. CASE FeedbackOfFamily
    <3>1. PICK base : /\ base = IF drawing.profile # None THEN drawing.profile.quality
                                ELSE RouteQualityForPlan(drawing.routes)
                      /\ UNCHANGED <<drawing, drawn>> \/ CoherentFeedback(base, TRUE)
      BY <2>1 DEF FeedbackOfFamily
    <3>2. base = RouteQualityForPlan(drawing.routes)
      BY <1>2, <2>1, <3>1 DEF FeedbackOfFamily, DrawingInOrder, ProfileIsOwn, DrawingOK
    <3> QED BY <3>1, <3>2
  <2>2. CASE CoherentPrimary
    BY <2>2 DEF CoherentPrimary
  <2> QED BY <2>1, <2>2
<1>4. ASSUME routing.exact => \A r : InFamily(drawing, r) => InFamily(drawing', r)
      PROVE  routing.exact => \A r : OnHand(r) => OnHand(r)'
  BY <1>1, <1>4 DEF OnHand, LaneCounts
<1>5. CASE UNCHANGED <<drawing, drawn>>
  BY <1>4, <1>5 DEF IsKept
<1>6. CASE \E base : /\ base = RouteQualityForPlan(drawing.routes)
                     /\ CoherentFeedback(base, TRUE) \/ CoherentFeedback(base, FALSE)
  <2>1. /\ SameKin(drawing', drawing) /\ drawing.offers \subseteq drawing'.offers
        /\ \E plan : /\ PlainPlan(plan) /\ drawn' = drawn \cup {plan}
                     /\ routing.exact =>
                          \A r \in {drawing.routes, EmitRoutes(plan)} :
                            drawing'.routes = r \/ Holds(drawing'.offers, r)
    BY <1>2, <1>6, FeedbackTaken
  <2>2. PICK plan : /\ PlainPlan(plan) /\ drawn' = drawn \cup {plan}
                    /\ routing.exact =>
                         \A r \in {drawing.routes, EmitRoutes(plan)} :
                           drawing'.routes = r \/ Holds(drawing'.offers, r)
    BY <2>1
  <2>3. routing.exact => \A r : InFamily(drawing, r) => InFamily(drawing', r)
    BY <2>1, <2>2, KinGoesOn
  <2>4. routing.exact => InFamily(drawing', EmitRoutes(plan))
    BY <2>2 DEF InFamily, Holds
  <2>5. routing.exact => \A r : r = EmitRoutes(plan) => OnHand(r)'
    BY <1>1, <2>4 DEF OnHand
  <2> QED BY <1>4, <2>2, <2>3, <2>5, PlainFits DEF IsKept
<1> QED BY <1>3, <1>5, <1>6

LEMMA RepairsKeep ==
  ASSUME StagesInOrder, PiecesInOrder, RepairsOfFamily \/ RepairsOfPrimary
  PROVE  IsKept
<1>1. /\ pc = "repair" /\ pc' \in {"finish", "negotiate"} /\ (caller # "primary" => pc' = "finish")
      /\ UNCHANGED <<caller, lane, offers, stable, legacy>>
  BY DEF RepairsOfFamily, RepairsOfPrimary
<1>2. DrawingOK(drawing) /\ drawing \in DrawingSet /\ drawing.repair = {} /\ drawing.deeper = {}
  BY <1>1 DEF PiecesInOrder, DrawingInOrder, DrawingOK
<1>3. PICK repair, deep :
        /\ \A p \in repair : p \in RepairPlans(MaxBatchedRepairNets)
        /\ \A p \in deep : p \in RepairPlans(MaxDeepRepairNets)
        /\ drawn' = drawn \cup repair \cup deep
        /\ drawing'.routes = drawing.routes /\ drawing'.offers = drawing.offers
        /\ drawing'.repair = Offers(repair) /\ drawing'.deeper = Offers(deep) \ Offers(repair)
  <2>1. CASE RepairsOfFamily
    <3>1. PICK profile \in {IF drawing.profile = None /\ DeeperRepairWithinBudget(Deeper)
                       THEN Measured(drawing.routes) ELSE drawing.profile},
            repair \in {IF routing.supplemental THEN RepairPlans(MaxBatchedRepairNets) ELSE {}},
            deep \in {IF DeeperRepairWithinBudget(Deeper) THEN RepairPlans(MaxDeepRepairNets) ELSE {}} :
          /\ drawing' = [drawing EXCEPT
                            !.quality = IF routing.supplemental THEN RepairBaseline(profile)
                                        ELSE IF profile # None THEN profile.quality
                                        ELSE RouteQualityForPlan(drawing.routes),
                            !.repair  = Offers(repair),
                            !.deeper  = Offers(deep) \ Offers(repair)]
          /\ drawn' = drawn \cup repair \cup deep
      BY <2>1, Zenon DEF RepairsOfFamily
    <3>2. /\ \A p \in repair : p \in RepairPlans(MaxBatchedRepairNets)
          /\ \A p \in deep : p \in RepairPlans(MaxDeepRepairNets)
      BY <3>1
    <3>3. /\ drawing'.routes = drawing.routes /\ drawing'.offers = drawing.offers
          /\ drawing'.repair = Offers(repair) /\ drawing'.deeper = Offers(deep) \ Offers(repair)
      BY <1>2, <3>1 DEF DrawingSet
    <3> QED BY <3>1, <3>2, <3>3
  <2>2. CASE RepairsOfPrimary
    <3>1. PICK profile \in {RepairProfile},
          repair \in {IF routing.supplemental THEN RepairPlans(MaxBatchedRepairNets) ELSE {}},
          deep \in {IF DeeperRepairWithinBudget(routing.deeper)
                    THEN RepairPlans(MaxDeepRepairNets) ELSE {}} :
          /\ drawing' = [drawing EXCEPT
                            !.profile = profile,
                            !.quality = IF routing.supplemental THEN RepairBaseline(profile) ELSE @,
                            !.repair  = Offers(repair),
                            !.deeper  = Offers(deep) \ Offers(repair),
                            !.from    = deep]
          /\ drawn' = drawn \cup repair \cup deep
      BY <2>2, Zenon DEF RepairsOfPrimary
    <3>2. /\ \A p \in repair : p \in RepairPlans(MaxBatchedRepairNets)
          /\ \A p \in deep : p \in RepairPlans(MaxDeepRepairNets)
      BY <3>1
    <3>3. /\ drawing'.routes = drawing.routes /\ drawing'.offers = drawing.offers
          /\ drawing'.repair = Offers(repair) /\ drawing'.deeper = Offers(deep) \ Offers(repair)
      BY <1>2, <3>1 DEF DrawingSet
    <3> QED BY <3>1, <3>2, <3>3
  <2> QED BY <2>1, <2>2
<1>4. \A p \in repair \cup deep : FoundPlan(p) /\ p.paths.tracks = p.tracks
  BY <1>2, <1>3, RepairsAreFound
<1>5. \A p \in repair \cup deep : Fits(p)
  BY <1>4 DEF Fits
<1>6. \A p \in repair \cup deep : Holds(drawing'.repair \cup drawing'.deeper, EmitRoutes(p))
  <2>1. /\ \A p \in repair : Holds(Offers(repair), EmitRoutes(p))
        /\ \A p \in deep : Holds(Offers(deep), EmitRoutes(p))
    BY <1>4, FoundOffers
  <2> QED BY <1>3, <2>1 DEF Holds
<1>7. \A r : InFamily(drawing, r) => InFamily(drawing', r)
  BY <1>2, <1>3 DEF InFamily, Holds
<1>8. \A r : OnHand(r) => OnHand(r)'
  BY <1>1, <1>7 DEF OnHand, LaneCounts, StagesInOrder
<1>9. \A p \in repair \cup deep : \A r : r = EmitRoutes(p) => OnHand(r)'
  BY <1>1, <1>6 DEF OnHand, InFamily, Holds
<1> QED BY <1>3, <1>5, <1>8, <1>9 DEF IsKept

LEMMA MainFamilyKeeps ==
  ASSUME StagesInOrder, PiecesInOrder, FinishStableFamily \/ StartPrimary
  PROVE  IsKept
<1>1. /\ pc = "orders" /\ pc' \in {"feedback", "coherent"}
      /\ UNCHANGED <<offers, legacy, drawn>>
  BY DEF FinishStableFamily, StartPrimary
<1>2. lane \in DrawingSet
  BY <1>1 DEF PiecesInOrder, LaneInOrder, DrawingOK, Early
<1>3. drawing'.routes = lane.routes
  BY <1>2 DEF FinishStableFamily, StartPrimary, DrawingSet
<1>4. \A r : OnHand(r) => OnHand(r)'
  BY <1>1, <1>3 DEF OnHand, LaneCounts, InFamily
<1> QED BY <1>1, <1>4 DEF IsKept

LEMMA FannedKeeps ==
  ASSUME StagesInOrder, PiecesInOrder, CompareFanned
  PROVE  IsKept
<1>1. /\ pc = "finish" /\ caller = "stable" /\ stable' = drawing /\ UNCHANGED <<legacy>>
  BY DEF CompareFanned
<1>2. LaneInOrder
  BY <1>1 DEF PiecesInOrder, Early
<1>3. PICK plan, profile :
        /\ plan = FannedPlan /\ profile = Measured(EmitRoutes(plan)) /\ drawn' = drawn \cup {plan}
        /\ \/ /\ \E match : drawing' = [Fresh(plan, match) EXCEPT !.profile = profile]
              /\ caller' = "fanned" /\ pc' = "feedback" /\ UNCHANGED offers
           \/ /\ offers' = IF routing.exact /\ profile.routes # drawing.routes
                           THEN offers \cup {profile} ELSE offers
              /\ pc' = "fanout" /\ UNCHANGED <<drawing, caller>>
  <2>1. PICK plan \in {FannedPlan} :
       \E profile \in {Measured(EmitRoutes(plan))},
          base \in {RetainedSpacingProfile(lane.profile, lane.routes)} :
          /\ drawn' = drawn \cup {plan}
          /\ IF Shorter(profile.quality, base.quality)
             THEN /\ drawing' = [Fresh(plan, lane.match /\ plan.tracks = lane.plan.tracks) EXCEPT
                                    !.profile = profile]
                  /\ caller' = "fanned"
                  /\ pc' = "feedback"
                  /\ UNCHANGED offers
             ELSE /\ offers' = IF routing.exact /\ profile.routes # drawing.routes
                               THEN offers \cup {profile} ELSE offers
                  /\ pc' = "fanout"
                  /\ UNCHANGED <<drawing, caller>>
    BY Zenon DEF CompareFanned
  <2>2. PICK profile \in {Measured(EmitRoutes(plan))},
             base \in {RetainedSpacingProfile(lane.profile, lane.routes)} :
          /\ drawn' = drawn \cup {plan}
          /\ IF Shorter(profile.quality, base.quality)
             THEN /\ drawing' = [Fresh(plan, lane.match /\ plan.tracks = lane.plan.tracks) EXCEPT
                                    !.profile = profile]
                  /\ caller' = "fanned"
                  /\ pc' = "feedback"
                  /\ UNCHANGED offers
             ELSE /\ offers' = IF routing.exact /\ profile.routes # drawing.routes
                               THEN offers \cup {profile} ELSE offers
                  /\ pc' = "fanout"
                  /\ UNCHANGED <<drawing, caller>>
    BY <2>1, Zenon
  <2>3. plan = FannedPlan /\ profile = Measured(EmitRoutes(plan)) /\ drawn' = drawn \cup {plan}
    BY <2>1, <2>2
  <2>4. \/ /\ \E match : drawing' = [Fresh(plan, match) EXCEPT !.profile = profile]
           /\ caller' = "fanned" /\ pc' = "feedback" /\ UNCHANGED offers
        \/ /\ offers' = IF routing.exact /\ profile.routes # drawing.routes
                        THEN offers \cup {profile} ELSE offers
           /\ pc' = "fanout" /\ UNCHANGED <<drawing, caller>>
    BY <2>2
  <2> QED BY <2>3, <2>4
<1>4. Fits(plan)
  BY <1>2, <1>3, FannedIsPlain, PlainFits
<1>5. profile.routes = EmitRoutes(plan)
  BY <1>3 DEF Measured
<1>6. CASE /\ \E match : drawing' = [Fresh(plan, match) EXCEPT !.profile = profile]
           /\ caller' = "fanned" /\ pc' = "feedback" /\ UNCHANGED offers
  <2>1. drawing'.routes = EmitRoutes(plan)
    BY <1>6 DEF Fresh
  <2>2. \A r : OnHand(r) => OnHand(r)'
    BY <1>1, <1>6 DEF OnHand, LaneCounts
  <2>3. \A r : r = EmitRoutes(plan) => OnHand(r)'
    BY <1>6, <2>1 DEF OnHand, InFamily
  <2> QED BY <1>3, <1>4, <2>2, <2>3 DEF IsKept
<1>7. CASE /\ offers' = IF routing.exact /\ profile.routes # drawing.routes
                        THEN offers \cup {profile} ELSE offers
           /\ pc' = "fanout" /\ UNCHANGED <<drawing, caller>>
  <2>1. \A r : OnHand(r) => OnHand(r)'
    BY <1>1, <1>7 DEF OnHand, LaneCounts, Holds
  <2>2. routing.exact => drawing.routes = EmitRoutes(plan) \/ Holds(offers', EmitRoutes(plan))
    BY <1>5, <1>7 DEF Holds
  <2>3. routing.exact => \A r : r = EmitRoutes(plan) => OnHand(r)'
    BY <1>7, <2>2 DEF OnHand, InFamily
  <2> QED BY <1>3, <1>4, <2>1, <2>3 DEF IsKept
<1> QED BY <1>3, <1>6, <1>7

LEMMA FinishFannedKeeps ==
  ASSUME StagesInOrder, PiecesInOrder, FinishFannedFamily
  PROVE  IsKept
<1>1. /\ pc = "finish" /\ caller = "fanned" /\ pc' = "fanout"
      /\ offers' = offers \cup FamilyOffers(stable)
      /\ UNCHANGED <<drawing, caller, lane, legacy, drawn>>
  BY DEF FinishFannedFamily
<1>2. \A r : InFamily(stable, r) => Holds(offers', r)
  <2>1. \A r : InFamily(stable, r) => Holds(FamilyOffers(stable), r)
    BY FamiliesHold
  <2> QED BY <1>1, <2>1 DEF Holds
<1>3. \A r : Holds(offers, r) => Holds(offers', r)
  BY <1>1 DEF Holds
<1>4. \A r : OnHand(r) => OnHand(r)'
  BY <1>1, <1>2, <1>3 DEF OnHand, LaneCounts
<1> QED BY <1>1, <1>4 DEF IsKept

LEMMA FinishFanoutKeeps ==
  ASSUME StagesInOrder, PiecesInOrder, FinishFanoutRouteFamilies
  PROVE  IsKept
<1>1. /\ pc = "fanout" /\ pc' = "deliver" /\ caller # "sparse"
      /\ UNCHANGED <<caller, lane, legacy, drawn>>
  BY DEF FinishFanoutRouteFamilies, StagesInOrder
<1>2. PICK more : /\ more = PushAll({}, offers \cup drawing.deeper \cup drawing.offers)
                  /\ result' = [primary |-> Primary(drawing), repair |-> drawing.repair,
                                alternatives |-> more]
  BY DEF FinishFanoutRouteFamilies
<1>3. more = offers \cup drawing.deeper \cup drawing.offers
  BY <1>2 DEF PushAll
<1>4. \A r : Holds(offers, r) \/ InFamily(drawing, r) => InResult(result', r)
  BY <1>2, <1>3 DEF Holds, InFamily, InResult, Primary
<1>5. \A r : OnHand(r) => OnHand(r)'
  BY <1>1, <1>4 DEF OnHand, LaneCounts
<1> QED BY <1>1, <1>5 DEF IsKept

LEMMA NegotiateKeeps ==
  ASSUME StagesInOrder, PiecesInOrder, Negotiate
  PROVE  IsKept
<1>1. /\ pc = "negotiate" /\ pc' = "deliver" /\ caller = "primary"
      /\ UNCHANGED <<caller, lane, legacy>>
  BY DEF Negotiate, StagesInOrder
<1>2. DrawingOK(drawing)
  BY <1>1 DEF PiecesInOrder, DrawingInOrder
<1>3. PICK picks : /\ picks = {NegotiatedPlan(p) : p \in NegotiatedFromRepair \cup NegotiatedFromPrimary}
                   /\ result' = [primary |-> Primary(drawing), repair |-> drawing.repair,
                                 alternatives |-> offers \cup drawing.offers \cup drawing.deeper
                                                         \cup Offers(picks)]
                   /\ drawn' = drawn \cup picks
  BY DEF Negotiate
<1>4. ASSUME NEW plan \in picks PROVE Fits(plan)
  <2>1. PICK p \in NegotiatedFromRepair \cup NegotiatedFromPrimary : plan = NegotiatedPlan(p)
    BY <1>3
  <2>2. p \in PlanSet
    BY <1>2 DEF NegotiatedFromRepair, NegotiatedFromPrimary, DrawingOK, PlainPlan, FoundPlan
  <2>3. plan.paths.shape = "negotiated"
    BY <2>1, <2>2 DEF NegotiatedPlan, PlanSet, PathSet
  <2> QED BY <2>3 DEF Fits
<1>5. \A p \in picks : Holds(Offers(picks), EmitRoutes(p))
  <2>1. \A p \in picks : Offer(EmitRoutes(p)) \in Offers(picks)
    BY DEF Offers
  <2>2. \A p : Offer(EmitRoutes(p)).routes = EmitRoutes(p)
    BY DEF Offer
  <2> QED BY <2>1, <2>2 DEF Holds
<1>6. \A r : Holds(offers, r) \/ InFamily(drawing, r) => InResult(result', r)
  BY <1>3 DEF Holds, InFamily, InResult, Primary
<1>7. \A p \in picks : InResult(result', EmitRoutes(p))
  BY <1>3, <1>5 DEF Holds, InResult
<1>8. \A r : OnHand(r) => OnHand(r)'
  BY <1>1, <1>6 DEF OnHand, LaneCounts
<1>9. \A p \in picks : \A r : r = EmitRoutes(p) => OnHand(r)'
  BY <1>1, <1>7 DEF OnHand
<1> QED BY <1>3, <1>4, <1>8, <1>9 DEF IsKept

LEMMA KeepLegacyKeeps ==
  ASSUME StagesInOrder, PiecesInOrder, KeepLegacy
  PROVE  IsKept
<1>1. /\ pc = "deliver" /\ pc' = "lanes" /\ legacy = {} /\ legacy' = {result} /\ UNCHANGED drawn
  BY DEF KeepLegacy, StagesInOrder
<1>2. \A r : OnHand(r) => OnHand(r)'
  BY <1>1 DEF OnHand, LaneCounts
<1> QED BY <1>1, <1>2 DEF IsKept

LEMMA DeliverKeeps ==
  ASSUME StagesInOrder, PiecesInOrder, Deliver
  PROVE  IsKept
<1>1. /\ pc = "deliver" /\ pc' = "done"
      /\ UNCHANGED <<legacy, drawn>>
  BY DEF Deliver
<1>2. result \in ResultSet
  BY <1>1 DEF PiecesInOrder, ResultOK
<1>3. PICK reissued, old, more :
        /\ reissued = {result.primary.routes} \cup {r.routes : r \in result.repair}
        /\ old = UNION {l.alternatives \cup {WithQuality(l.primary)} \cup l.repair : l \in legacy}
        /\ more = {o \in old : o.routes \notin reissued}
        /\ result' = [result EXCEPT !.primary = WithQuality(@), !.alternatives = PushAll(@, more)]
  BY DEF Deliver
<1>4. /\ result'.primary.routes = result.primary.routes /\ result'.repair = result.repair
      /\ result'.alternatives = PushAll(result.alternatives, more)
  BY <1>2, <1>3 DEF ResultSet, WithQuality
<1>5. /\ result.alternatives \subseteq PushAll(result.alternatives, more)
      /\ \A o \in more : Holds(PushAll(result.alternatives, more), o.routes)
  BY Pushed
<1>6. \A r : InResult(result, r) => InResult(result', r)
  BY <1>4, <1>5 DEF InResult, Holds
<1>7. ASSUME NEW l \in legacy, NEW o \in {WithQuality(l.primary)} \cup l.repair \cup l.alternatives
      PROVE  InResult(result', o.routes)
  <2>1. o \in old
    BY <1>3
  <2>2. CASE o.routes \in reissued
    BY <1>3, <1>4, <2>2 DEF InResult, Holds
  <2>3. CASE o.routes \notin reissued
    BY <1>3, <1>4, <1>5, <2>1, <2>3 DEF InResult, Holds
  <2> QED BY <2>2, <2>3
<1>8. \A l \in legacy : \A r : InResult(l, r) => InResult(result', r)
  <2>1. \A x : WithQuality(x).routes = x.routes
    BY DEF WithQuality
  <2> QED BY <1>7, <2>1 DEF InResult, Holds
<1> QED BY <1>1, <1>6, <1>8 DEF IsKept, OnHand, LaneCounts

LEMMA DrawingsAreKept ==
  ASSUME StagesInOrder, PiecesInOrder, [FamiliesNext]_familiesVars
  PROVE  IsKept
<1>1. CASE UNCHANGED familiesVars
  BY <1>1 DEF familiesVars, IsKept, OnHand, LaneCounts
<1> QED BY <1>1, DrawLanesKeeps, SpacingsKeep, StaircaseKeeps, SparseCandidateKeeps, FinishSparseKeeps,
           OfferSparseKeeps, FeedbackKeeps, RepairsKeep, MainFamilyKeeps, FannedKeeps, FinishFannedKeeps,
           FinishFanoutKeeps, NegotiateKeeps, KeepLegacyKeeps, DeliverKeeps
        DEF FamiliesNext, Done

-----------------------------------------------------------------------------
(* Every step keeps the main drawing from being worse than the plain one.  *)

LEMMA CompactGoesOn ==
  ASSUME UNCHANGED <<routing, world>>
  PROVE  /\ Compact' = Compact
         /\ \A r : AsGood(r)' <=> AsGood(r)
         /\ \A r : NotWorse(r)' <=> NotWorse(r)
<1>1. /\ \A plan : EmitRoutes(plan)' = EmitRoutes(plan)
      /\ \A routes : RouteQualityForPlan(routes)' = RouteQualityForPlan(routes)
  BY CallGoesOn
<1>2. Compact' = Compact
  BY <1>1 DEF Compact, EmitLanes, BuildEndpointTracks, StraightRunRoutingIsEligible
<1> QED BY <1>1, <1>2 DEF AsGood, NotWorse

LEMMA CompactIsMeasured == RouteQualityForPlan(Compact) \in QualitySet
<1>1. PICK emitted : emitted = EmitLanes(StraightRunRoutingIsEligible)
  OBVIOUS
<1>2. StraightRunRoutingIsEligible \in BOOLEAN
  BY DEF StraightRunRoutingIsEligible
<1>3. PlainPlan(emitted.plan) /\ Compact = EmitRoutes(emitted.plan)
  BY <1>1, <1>2, EmittedLanes DEF Compact
<1> QED BY <1>3, PlansAreDrawn, QualitiesAreNumbers DEF PlainPlan, FoundPlan

LEMMA BetterIsNotWorse ==
  ASSUME NEW a \in RouteSet, NEW b \in RouteSet, NotWorse(b),
         a = b \/ Shorter(RouteQualityForPlan(a), RouteQualityForPlan(b))
  PROVE  NotWorse(a)
<1>1. PICK p \in QualitySet, q \in QualitySet, c \in QualitySet :
        p = RouteQualityForPlan(a) /\ q = RouteQualityForPlan(b) /\ c = RouteQualityForPlan(Compact)
  BY QualitiesAreNumbers, CompactIsMeasured
<1>2. \/ q.crossings < c.crossings
      \/ q.crossings = c.crossings /\ q.bends < c.bends
      \/ q.crossings = c.crossings /\ q.bends = c.bends /\ 20 * q.length <= 21 * c.length
  BY <1>1 DEF NotWorse
<1>3. p = q \/ Shorter(p, q)
  BY <1>1
<1>4. \/ p.crossings < c.crossings
      \/ p.crossings = c.crossings /\ p.bends < c.bends
      \/ p.crossings = c.crossings /\ p.bends = c.bends /\ 20 * p.length <= 21 * c.length
  BY <1>2, <1>3 DEF Shorter, QualitySet
<1> QED BY <1>1, <1>4 DEF NotWorse

LEMMA SpaciousIsNotWorse ==
  ASSUME NEW a \in RouteSet, NEW b \in RouteSet, AsGood(b),
         \/ a = b
         \/ Shorter(RouteQualityForPlan(a), RouteQualityForPlan(b))
         \/ ExpandedReadabilityIsBetter(RouteQualityForPlan(b), RouteQualityForPlan(a))
  PROVE  NotWorse(a)
<1>1. PICK p \in QualitySet, q \in QualitySet, c \in QualitySet :
        p = RouteQualityForPlan(a) /\ q = RouteQualityForPlan(b) /\ c = RouteQualityForPlan(Compact)
  BY QualitiesAreNumbers, CompactIsMeasured
<1>2. q = c \/ Shorter(q, c)
  BY <1>1 DEF AsGood
<1>3. p = q \/ Shorter(p, q) \/ ExpandedReadabilityIsBetter(q, p)
  BY <1>1
<1>4. \/ p.crossings < c.crossings
      \/ p.crossings = c.crossings /\ p.bends < c.bends
      \/ p.crossings = c.crossings /\ p.bends = c.bends /\ 20 * p.length <= 21 * c.length
  BY <1>2, <1>3 DEF Shorter, ExpandedReadabilityIsBetter, QualitySet
<1> QED BY <1>1, <1>4 DEF NotWorse

LEMMA LanesAreCompact ==
  ASSUME DrawLanes
  PROVE  pass' = "main" => drawing'.routes = Compact
<1> SUFFICES ASSUME pass' = "main" PROVE drawing'.routes = Compact
  OBVIOUS
<1>1. (pass = "main" /\ StraightRunRoutingIsEligible) = StraightRunRoutingIsEligible
  BY DEF DrawLanes, StraightRunRoutingIsEligible
<1>2. PICK emitted \in {EmitLanes(pass = "main" /\ StraightRunRoutingIsEligible)} :
          /\ drawing' = Fresh(emitted.plan, emitted.match)
          /\ drawn' = drawn \cup {emitted.plan}
  BY Zenon DEF DrawLanes
<1>3. emitted = EmitLanes(StraightRunRoutingIsEligible)
  BY <1>1, <1>2
<1> QED BY <1>2, <1>3 DEF Fresh, Compact

LEMMA MainStaysGood ==
  ASSUME StagesInOrder, PiecesInOrder, NeverWorse, FamiliesNext, PiecesInOrder'
  PROVE  NeverWorse'
<1>1. UNCHANGED <<routing, world>>
  BY StagesGoOn
<1>2. /\ \A r : AsGood(r)' <=> AsGood(r)
      /\ \A r : NotWorse(r)' <=> NotWorse(r)
      /\ Compact' = Compact
  BY <1>1, CompactGoesOn
<1>3. /\ pc # "lanes" => DrawingOK(drawing) /\ drawing.routes \in RouteSet
      /\ pc' # "lanes" => drawing'.routes \in RouteSet
      /\ ~Early => lane.routes \in RouteSet
  BY DEF PiecesInOrder, DrawingInOrder, LaneInOrder, DrawingOK, DrawingSet
<1>a. CASE DrawLanes
  <2>1. pass' = "main" => drawing'.routes = Compact
    BY <1>a, LanesAreCompact
  <2> QED BY <1>2, <1>a, <2>1 DEF DrawLanes, NeverWorse, Early
<1>b. CASE TryAdaptive
  <2>1. /\ pc = "adaptive" /\ pc' = "expanded" /\ UNCHANGED <<pass, caller, lane>>
        /\ UNCHANGED drawing \/ SelectGapSpacing("adaptive")
    BY <1>b DEF TryAdaptive
  <2>2. drawing'.routes = drawing.routes
           \/ Shorter(RouteQualityForPlan(drawing'.routes), RouteQualityForPlan(drawing.routes))
    BY <1>3, <2>1, SpacingSelected DEF StagesInOrder
  <2> QED BY <1>2, <2>1, <2>2 DEF NeverWorse, AsGood, Early
<1>c. CASE TryExpanded
  <2>1. /\ pc = "expanded" /\ pc' = IF caller = "sparse" THEN "sparse" ELSE "staircase"
        /\ UNCHANGED <<pass, caller, lane>> /\ caller \in {"none", "sparse"}
        /\ UNCHANGED drawing \/ SelectGapSpacing("expanded")
    BY <1>c DEF TryExpanded, StagesInOrder
  <2>2. \/ drawing'.routes = drawing.routes
        \/ Shorter(RouteQualityForPlan(drawing'.routes), RouteQualityForPlan(drawing.routes))
        \/ ExpandedReadabilityIsBetter(RouteQualityForPlan(drawing.routes),
                                       RouteQualityForPlan(drawing'.routes))
    BY <1>3, <2>1, SpacingSelected DEF StagesInOrder
  <2>3. pass = "main" /\ caller = "none" => NotWorse(drawing'.routes)
    BY <1>3, <2>1, <2>2, SpaciousIsNotWorse DEF NeverWorse
  <2> QED BY <1>2, <2>1, <2>3 DEF NeverWorse, Early
<1>d. CASE StaircaseAlternative
  <2>1. /\ pc = "staircase" /\ pc' = "orders" /\ caller' = "none" /\ lane' = drawing /\ UNCHANGED pass
    BY <1>d DEF StaircaseAlternative, StagesInOrder
  <2> QED BY <1>2, <2>1 DEF NeverWorse, Early
<1>e. CASE DrawSparseCandidate \/ FinishSparseCandidate \/ OfferSparseFamily
  <2>1. /\ ~Early /\ UNCHANGED <<pass, lane>> /\ caller' = "sparse"
        /\ pc' \in {"orders", "adaptive", "feedback"}
    BY <1>e DEF DrawSparseCandidate, FinishSparseCandidate, OfferSparseFamily, Early, StagesInOrder
  <2> QED BY <1>2, <2>1 DEF NeverWorse
<1>f. CASE FeedbackOfFamily \/ CoherentPrimary
  <2>1. /\ pc \in {"feedback", "coherent"} /\ pc' = "repair" /\ UNCHANGED <<pass, caller, lane>>
    BY <1>f DEF FeedbackOfFamily, CoherentPrimary
  <2>2. DrawingInOrder
    BY <2>1 DEF PiecesInOrder
  <2>3. drawing'.routes = drawing.routes
           \/ Shorter(RouteQualityForPlan(drawing'.routes), RouteQualityForPlan(drawing.routes))
    <3>1. CASE UNCHANGED drawing
      BY <3>1
    <3>2. CASE ~UNCHANGED drawing
      <4>1. \E base : /\ base = RouteQualityForPlan(drawing.routes)
                      /\ CoherentFeedback(base, TRUE) \/ CoherentFeedback(base, FALSE)
        <5>1. CASE FeedbackOfFamily
          <6>1. PICK base : /\ base = IF drawing.profile # None THEN drawing.profile.quality
                                      ELSE RouteQualityForPlan(drawing.routes)
                            /\ CoherentFeedback(base, TRUE)
            BY <3>2, <5>1 DEF FeedbackOfFamily
          <6>2. base = RouteQualityForPlan(drawing.routes)
            BY <2>2, <5>1, <6>1 DEF FeedbackOfFamily, DrawingInOrder, ProfileIsOwn, DrawingOK
          <6> QED BY <6>1, <6>2
        <5>2. CASE CoherentPrimary
          BY <3>2, <5>2 DEF CoherentPrimary
        <5> QED BY <1>f, <5>1, <5>2
      <4> QED BY <2>2, <4>1, FeedbackTaken DEF DrawingInOrder
    <3> QED BY <3>1, <3>2
  <2>4. NotWorse(drawing.routes) => NotWorse(drawing'.routes)
    BY <1>3, <2>1, <2>3, BetterIsNotWorse
  <2> QED BY <1>2, <2>1, <2>4 DEF NeverWorse, Early
<1>g. CASE RepairsOfFamily \/ RepairsOfPrimary
  <2>1. /\ pc = "repair" /\ pc' \in {"finish", "negotiate"} /\ UNCHANGED <<pass, caller, lane>>
    BY <1>g DEF RepairsOfFamily, RepairsOfPrimary
  <2>2. drawing'.routes = drawing.routes
    <3>1. drawing \in DrawingSet
      BY <1>3, <2>1 DEF DrawingOK
    <3> QED BY <1>g, <3>1 DEF RepairsOfFamily, RepairsOfPrimary, DrawingSet
  <2> QED BY <1>2, <2>1, <2>2 DEF NeverWorse, Early
<1>h. CASE FinishStableFamily \/ StartPrimary
  <2>1. /\ pc = "orders" /\ pc' \in {"feedback", "coherent"} /\ UNCHANGED <<pass, lane>>
    BY <1>h DEF FinishStableFamily, StartPrimary
  <2>2. lane \in DrawingSet
    BY <2>1 DEF PiecesInOrder, LaneInOrder, DrawingOK, Early
  <2>3. drawing'.routes = lane.routes
    BY <1>h, <2>2 DEF FinishStableFamily, StartPrimary, DrawingSet
  <2> QED BY <1>2, <2>1, <2>3 DEF NeverWorse, Early
<1>i. CASE CompareFanned
  <2>1. pc = "finish" /\ caller = "stable" /\ UNCHANGED <<pass, lane>> /\ LaneInOrder
    BY <1>i DEF CompareFanned, PiecesInOrder, Early
  <2>2. PICK plan \in {FannedPlan} :
       \E profile \in {Measured(EmitRoutes(plan))},
          base \in {RetainedSpacingProfile(lane.profile, lane.routes)} :
          /\ drawn' = drawn \cup {plan}
          /\ IF Shorter(profile.quality, base.quality)
             THEN /\ drawing' = [Fresh(plan, lane.match /\ plan.tracks = lane.plan.tracks) EXCEPT
                                    !.profile = profile]
                  /\ caller' = "fanned"
                  /\ pc' = "feedback"
                  /\ UNCHANGED offers
             ELSE /\ offers' = IF routing.exact /\ profile.routes # drawing.routes
                               THEN offers \cup {profile} ELSE offers
                  /\ pc' = "fanout"
                  /\ UNCHANGED <<drawing, caller>>
    BY <1>i, Zenon DEF CompareFanned
  <2>3. PICK profile \in {Measured(EmitRoutes(plan))},
             base \in {RetainedSpacingProfile(lane.profile, lane.routes)} :
          /\ drawn' = drawn \cup {plan}
          /\ IF Shorter(profile.quality, base.quality)
             THEN /\ drawing' = [Fresh(plan, lane.match /\ plan.tracks = lane.plan.tracks) EXCEPT
                                    !.profile = profile]
                  /\ caller' = "fanned"
                  /\ pc' = "feedback"
                  /\ UNCHANGED offers
             ELSE /\ offers' = IF routing.exact /\ profile.routes # drawing.routes
                               THEN offers \cup {profile} ELSE offers
                  /\ pc' = "fanout"
                  /\ UNCHANGED <<drawing, caller>>
    BY <2>2, Zenon
  <2>4. /\ profile.quality = RouteQualityForPlan(EmitRoutes(plan))
        /\ base.quality = RouteQualityForPlan(lane.routes)
    BY <2>1, <2>2, <2>3
       DEF Measured, RetainedSpacingProfile, Applicable, LaneInOrder, DrawingOK
  <2>5. CASE ~Shorter(profile.quality, base.quality)
    BY <1>2, <2>1, <2>3, <2>5 DEF NeverWorse, Early
  <2>6. CASE Shorter(profile.quality, base.quality)
    <3>1. drawing'.routes = EmitRoutes(plan) /\ caller' = "fanned" /\ pc' = "feedback"
      BY <2>3, <2>6 DEF Fresh
    <3>2. NotWorse(lane.routes) => NotWorse(drawing'.routes)
      BY <1>3, <2>1, <2>4, <2>6, <3>1, BetterIsNotWorse DEF Early
    <3> QED BY <1>2, <2>1, <3>1, <3>2 DEF NeverWorse, Early
  <2> QED BY <2>5, <2>6
<1>j. CASE FinishFannedFamily
  BY <1>2, <1>j DEF FinishFannedFamily, NeverWorse, Early
<1>k. CASE FinishFanoutRouteFamilies
  <2>1. /\ pc = "fanout" /\ pc' = "deliver" /\ caller \in {"stable", "fanned"}
        /\ UNCHANGED <<pass, caller, lane, drawing>> /\ result'.primary.routes = drawing.routes
    BY <1>k DEF FinishFanoutRouteFamilies, StagesInOrder, Primary
  <2> QED BY <1>2, <2>1 DEF NeverWorse, Early
<1>l. CASE Negotiate
  <2>1. /\ pc = "negotiate" /\ pc' = "deliver" /\ caller = "primary"
        /\ UNCHANGED <<pass, caller, lane, drawing>> /\ result'.primary.routes = drawing.routes
    BY <1>l DEF Negotiate, StagesInOrder, Primary
  <2> QED BY <1>2, <2>1 DEF NeverWorse, Early
<1>m. CASE KeepLegacy
  BY <1>m DEF KeepLegacy, NeverWorse, Early
<1>n. CASE Deliver
  <2>1. /\ pc = "deliver" /\ pc' = "done" /\ UNCHANGED <<pass, caller, lane, drawing>>
    BY <1>n DEF Deliver
  <2>2. result'.primary.routes = result.primary.routes
    <3>1. result \in ResultSet
      BY <2>1 DEF PiecesInOrder, ResultOK
    <3> QED BY <1>n, <3>1 DEF Deliver, ResultSet, WithQuality
  <2> QED BY <1>2, <2>1, <2>2 DEF NeverWorse, Early
<1>o. CASE Done
  BY <1>2, <1>o DEF Done, familiesVars, NeverWorse, Early
<1> QED BY <1>a, <1>b, <1>c, <1>d, <1>e, <1>f, <1>g, <1>h, <1>i, <1>j, <1>k, <1>l, <1>m, <1>n, <1>o
        DEF FamiliesNext

-----------------------------------------------------------------------------
(* The theorems.                                                           *)

FamiliesInOrder == StagesInOrder /\ PiecesInOrder /\ RepairsFit /\ NothingIsLost /\ NeverWorse

LEMMA FamiliesStayInOrder == FamiliesSpec => []FamiliesInOrder
<1>1. FamiliesInit => FamiliesInOrder
  <2>1. FamiliesInit => RepairsFit /\ NothingIsLost /\ NeverWorse
    BY DEF FamiliesInit, RepairsFit, NothingIsLost, NeverWorse, Early
  <2> QED BY <2>1, StagesBegin, PiecesBegin DEF FamiliesInOrder
<1>2. FamiliesInOrder /\ [FamiliesNext]_familiesVars => FamiliesInOrder'
  <2> SUFFICES ASSUME FamiliesInOrder, [FamiliesNext]_familiesVars PROVE FamiliesInOrder'
    OBVIOUS
  <2>1. StagesInOrder /\ PiecesInOrder /\ RepairsFit /\ NothingIsLost /\ NeverWorse
    BY DEF FamiliesInOrder
  <2>2. StagesInOrder' /\ UNCHANGED <<routing, world>>
    BY <2>1, StagesGoOn DEF familiesVars, StagesInOrder, Early
  <2>3. PiecesInOrder' /\ IsKept
    BY <2>1, PiecesStayInOrder, DrawingsAreKept
  <2>4. RepairsFit'
    BY <2>1, <2>3 DEF RepairsFit, IsKept, Fits
  <2>5. NothingIsLost'
    <3> SUFFICES ASSUME routing.exact, NEW plan \in drawn' PROVE OnHand(EmitRoutes(plan))'
      BY <2>2 DEF NothingIsLost
    <3>1. PICK r : r = EmitRoutes(plan) /\ OnHand(r)'
      BY <2>1, <2>3 DEF NothingIsLost, IsKept
    <3>2. EmitRoutes(plan)' = r
      BY <2>2, <3>1, CallGoesOn
    <3> QED BY <3>1, <3>2
  <2>6. NeverWorse'
    <3>1. CASE FamiliesNext
      BY <2>1, <2>3, <3>1, MainStaysGood
    <3>2. CASE UNCHANGED familiesVars
      <4>1. \A r : (AsGood(r)' <=> AsGood(r)) /\ (NotWorse(r)' <=> NotWorse(r))
        BY <2>2, CompactGoesOn
      <4>2. Compact' = Compact
        BY <2>2, CompactGoesOn
      <4> QED BY <2>1, <3>2, <4>1, <4>2 DEF familiesVars, NeverWorse, Early
    <3> QED BY <3>1, <3>2
  <2> QED BY <2>2, <2>3, <2>4, <2>5, <2>6 DEF FamiliesInOrder
<1> QED BY <1>1, <1>2, PTL DEF FamiliesSpec

(* For every call and every placement, what is taken over from an earlier  *)
(* drawing is what would be found anew: each offered drawing carries the   *)
(* quality of its own routes, and each repair was drawn through paths that *)
(* were found for its own endpoint tracks. The one thing assumed of the    *)
(* placements is WorldsAssumption, on which the code relies where it takes *)
(* the crossings of one spacing over to another.                           *)
THEOREM WhatIsReusedIsTrue == FamiliesSpec => []ReuseIsSound
<1>1. FamiliesInOrder => ReuseIsSound
  <2> SUFFICES ASSUME FamiliesInOrder, pc = "done"
               PROVE  /\ \A o \in Offered : o.quality = RouteQualityForPlan(o.routes)
                      /\ \A plan \in drawn :
                           (plan.lanes.moved # "found" \/ plan.outer.resided) /\ plan.paths.shape = "found"
                             => plan.paths.tracks = plan.tracks
    BY DEF ReuseIsSound, QualityIsOwn, RepairsFitTheirTracks
  <2>1. ResultOK(result) /\ QualityIsKnown(result.primary) /\ RepairsFit
    BY DEF FamiliesInOrder, PiecesInOrder
  <2>2. \A o \in Offered : o.quality = RouteQualityForPlan(o.routes)
    BY <2>1 DEF Offered, ResultOK, OfferOK, QualityIsKnown
  <2> QED BY <2>1, <2>2 DEF RepairsFit, Fits
<1> QED BY <1>1, FamiliesStayInOrder, PTL

(* Where a clearance or a spacing has to be kept, every drawing the router *)
(* made, in either pass, for whichever family and in whichever spacing, is *)
(* among its offers.                                                       *)
THEOREM NoDrawingIsLost == FamiliesSpec => []ExactOffersAll
<1>1. FamiliesInOrder => ExactOffersAll
  <2> SUFFICES ASSUME FamiliesInOrder, pc = "done", routing.exact, NEW plan \in drawn
               PROVE  \E o \in Offered : o.routes = EmitRoutes(plan)
    BY DEF ExactOffersAll
  <2>1. OnHand(EmitRoutes(plan))
    BY DEF FamiliesInOrder, NothingIsLost
  <2>2. InResult(result, EmitRoutes(plan))
    BY <2>1 DEF OnHand, LaneCounts
  <2> QED BY <2>2 DEF InResult, Holds, Offered
<1> QED BY <1>1, FamiliesStayInOrder, PTL

(* The drawing chosen at last has never more crossings, nor with as many   *)
(* more bends, nor with as many of both more than a twentieth more length  *)
(* than the plain one, although it is replaced several times for           *)
(* different gains; and an aligned or negotiated one is offered only when  *)
(* it beats the drawing it was made from, or all of them are asked for.    *)
THEOREM DrawingsAreWorthIt == FamiliesSpec => []DrawingsEarnTheirPlace
<1>1. FamiliesInOrder => DrawingsEarnTheirPlace
  <2> SUFFICES ASSUME FamiliesInOrder, pc = "done"
               PROVE  DrawingsEarnTheirPlace
    BY DEF DrawingsEarnTheirPlace, PrimaryNeverWorse, ShapedDrawingsEarnTheirPlace
  <2>1. NotWorse(result.primary.routes) /\ ResultOK(result) /\ QualityIsKnown(result.primary)
    BY DEF FamiliesInOrder, NeverWorse, StagesInOrder, PiecesInOrder
  <2>2. PrimaryNeverWorse
    BY <2>1 DEF PrimaryNeverWorse, NotWorse, Compact
  <2>3. ASSUME NEW o \in Offered, ~routing.exact
        PROVE  Unshaped(o.routes) = o.routes \/ Shorter(o.quality, RouteQualityForPlan(Unshaped(o.routes)))
    BY <2>1, <2>3 DEF Offered, ResultOK, OfferOK
  <2>4. ShapedDrawingsEarnTheirPlace
    BY <2>3 DEF ShapedDrawingsEarnTheirPlace, Unshaped, Shapes
  <2> QED BY <2>2, <2>4 DEF DrawingsEarnTheirPlace
<1> QED BY <1>1, FamiliesStayInOrder, PTL

=============================================================================
