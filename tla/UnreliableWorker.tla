-------------------------- MODULE UnreliableWorker --------------------------
(***************************************************************************)
(* StagedRequests with the least it may assume of its surroundings: a      *)
(* client that submits and supersedes at any time, a worker that answers   *)
(* any request it was ever sent with any phase, as often and as late as it *)
(* likes, and that fails at any time.  What holds here is guaranteed by    *)
(* the class alone.                                                        *)
(***************************************************************************)
EXTENDS StagedRequests

CONSTANT MaxSubmissions   \* bound: submissions the client makes

ASSUME MaxSubmissionsAssumption == MaxSubmissions \in Nat

VARIABLES
  submitted,    \* submissions made so far; the last one has this id
  dispatched    \* history: the request of every generation

unreliableVars == <<schedulerVars, submitted, dispatched>>

Responses ==
  {[generation |-> g, id |-> dispatched[g].id, datasetId |-> dispatched[g].datasetId,
    fixtureName |-> dispatched[g].fixtureName, phase |-> phase, final |-> final,
    error |-> error] :
      g \in DOMAIN dispatched, phase \in Phases, final \in BOOLEAN, error \in BOOLEAN}

\* The history follows the dispatches of the scheduler.
RecordDispatch ==
  dispatched' = IF generation' = generation THEN dispatched
                ELSE Append(dispatched, active'.request)

UnreliableInit ==
  /\ SchedulerInit
  /\ submitted = 0
  /\ dispatched = <<>>

ClientSubmits(datasetId, fixture, effort) ==
  /\ submitted < MaxSubmissions
  /\ Submit([id |-> submitted + 1, datasetId |-> datasetId,
             fixtureName |-> fixture, effort |-> effort])
  /\ submitted' = submitted + 1
  /\ RecordDispatch

ClientSupersedes ==
  /\ SupersedeActiveLarge
  /\ UNCHANGED <<submitted, dispatched>>

MessageIsTaken ==
  /\ inbox # <<>>
  /\ inbox' = Tail(inbox)
  /\ UNCHANGED <<active, pending, generation, refineTimer, armed, epoch, delivery>>
  /\ UNCHANGED <<submitted, dispatched>>

WorkerAnswers ==
  /\ \E response \in Responses : Receive(response)
  /\ UNCHANGED submitted
  /\ RecordDispatch

WorkerBreaks ==
  /\ WorkerFailed
  /\ UNCHANGED submitted
  /\ RecordDispatch

QuietPeriodEnds ==
  /\ \E g \in armed : Refine(g)
  /\ UNCHANGED <<submitted, dispatched>>

UnreliableNext ==
  \/ \E d \in Datasets, f \in Fixtures, e \in Efforts : ClientSubmits(d, f, e)
  \/ ClientSupersedes
  \/ MessageIsTaken
  \/ WorkerAnswers
  \/ WorkerBreaks
  \/ QuietPeriodEnds

UnreliableSpec == UnreliableInit /\ [][UnreliableNext]_unreliableVars

-----------------------------------------------------------------------------
(* Properties.                                                              *)

\* Types of the scheduler's state.
TypeOK ==
  /\ active \in ActiveRequests \cup {NoRequest}
  /\ pending \in Submissions \cup {NoSubmission}
  /\ generation \in Nat
  /\ refineTimer \in Nat \cup {NoTimer}
  /\ armed \subseteq Nat
  /\ inbox \in Seq([type: {"layout", "refine"}, request: Requests])
  /\ epoch \in Nat
  /\ delivery \in [number: Nat, generation: Nat, final: BOOLEAN]
  /\ submitted \in Nat
  /\ dispatched \in Seq(Requests)

\* The active request carries the newest generation, so a response is only
\* ever accepted for the last request that was sent (latestRequest.ts
\* dispatch and matches).
ActiveIsNewest ==
  active # NoRequest => active.request.generation = generation

\* A submission only ever waits behind a small request: a large one is
\* cancelled instead, and an idle scheduler has nothing left to start
\* (submit, dispatchPending, cancelActiveLargeRequest).
PendingWaitsBehindSmall ==
  pending # NoSubmission => active # NoRequest /\ ~active.large

\* A refine timer is armed exactly while the active request waits out its
\* quiet period; no timer outlives the request it was set for (receive,
\* refine, finishActive).
TimerOnlyWhileWaiting ==
  /\ armed = {refineTimer} \ {NoTimer}
  /\ (refineTimer # NoTimer) <=> (active # NoRequest /\ active.stage = "waiting-to-refine")
  /\ refineTimer # NoTimer => refineTimer = generation

\* A request is only refined after its Fast layout was handed out
\* (receive sets the stage that refine requires).
RefinesWhatWasShown ==
  active # NoRequest /\ active.stage # "initial"
    => delivery.generation = generation /\ ~delivery.final

\* Results are handed to the page in the order the requests were made: each
\* one is of a newer generation than the last, or it is the refinement of the
\* very layout that was handed out last.  Late, repeated and reordered answers
\* of the worker never reach the page.
DeliveriesAdvance ==
  [][delivery' # delivery =>
       \/ delivery'.generation > delivery.generation
       \/ /\ delivery'.generation = delivery.generation
          /\ delivery'.final /\ ~delivery.final]_unreliableVars

\* A pending submission stays until it is dispatched or a newer one takes its
\* place: no handler drops it.
PendingNeverLost ==
  [][pending # NoSubmission =>
       \/ pending' = pending
       \/ pending' # NoSubmission /\ pending'.id > pending.id
       \/ active' # NoRequest /\ active'.request.id = pending.id]_unreliableVars

\* Requests are dispatched in the order of their submissions.
DispatchedInOrder ==
  \A i, j \in DOMAIN dispatched : i < j => dispatched[i].id < dispatched[j].id

\* Submissions keep their turn: one waits only behind a small request, and
\* they are dispatched in the order in which they were made, whatever came in
\* between (submit, supersedeActiveLarge, dispatchPending).
SubmissionsKeepTheirTurn == PendingWaitsBehindSmall /\ DispatchedInOrder
=============================================================================
