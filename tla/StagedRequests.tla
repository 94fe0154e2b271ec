--------------------------- MODULE StagedRequests ---------------------------
(***************************************************************************)
(* The scheduler of layout requests in tools/visual-review/src/            *)
(* latestRequest.ts: class StagedLayoutRequests.  It keeps at most one     *)
(* request active at the Web Worker and at most one submission pending     *)
(* behind it.  A request for a small graph runs to completion and lets     *)
(* newer submissions queue; a request for a large graph is cancelled by    *)
(* restarting the worker.  A large graph asked for more than Fast effort   *)
(* is laid out twice: Fast at once, then, after a quiet period, refined to *)
(* the requested effort.                                                   *)
(*                                                                         *)
(* This module is the class together with an environment that submits      *)
(* whatever it likes and a worker that may answer any dispatched request   *)
(* late, twice, out of order, with the wrong phase, or never.  LayoutReview*)
(* replaces that environment by the page and by the real worker.           *)
(***************************************************************************)
EXTENDS Integers, Sequences

CONSTANTS
  Fixtures,        \* names of the graphs that can be submitted
  LargeFixtures,   \* those of at least LARGE_LAYOUT_NODE_THRESHOLD nodes
  Efforts,         \* values of options.quality_effort
  Datasets,        \* values of datasetId
  NoRequest,       \* active = null
  NoSubmission,    \* pending = null
  NoTimer          \* refineTimer = null

ASSUME ConstantsAssumption ==
  /\ LargeFixtures \subseteq Fixtures
  /\ Datasets \subseteq Nat
  /\ NoTimer \notin Nat

Submissions == [id: Nat, datasetId: Datasets, fixtureName: Fixtures, effort: Efforts]

Requests ==
  [id: Nat, datasetId: Datasets, fixtureName: Fixtures, effort: Efforts, generation: Nat]

Stages == {"initial", "waiting-to-refine", "refining"}

ActiveRequests ==
  [request: Requests, large: BOOLEAN, needsRefinement: BOOLEAN, stage: Stages]

Phases == {"direct", "fast", "final"}

ASSUME NullsAssumption ==
  /\ NoRequest \notin ActiveRequests
  /\ NoSubmission \notin Submissions

VARIABLES
  active,        \* the request at the worker, or NoRequest
  pending,       \* the newest submission waiting behind it, or NoSubmission
  generation,    \* the number of requests dispatched so far
  refineTimer,   \* handle of the timer to clear: the generation it is for
  armed,         \* timers the browser will fire, each by its generation
  inbox,         \* messages posted to the current worker and not yet taken
  epoch,         \* workers created so far; the last one is the current one
  delivery       \* history: number, generation and finality of the last onResult

schedulerVars ==
  <<active, pending, generation, refineTimer, armed, inbox, epoch, delivery>>

-----------------------------------------------------------------------------
(* The pieces every handler is built from.                                  *)

IsLarge(submission) == submission.fixtureName \in LargeFixtures

ActiveLarge == active # NoRequest /\ active.large

RequestFor(submission, g) ==
  [id |-> submission.id, datasetId |-> submission.datasetId,
   fixtureName |-> submission.fixtureName, effort |-> submission.effort,
   generation |-> g]

ActivationOf(request) ==
  [request |-> request,
   large |-> IsLarge(request),
   needsRefinement |-> IsLarge(request) /\ request.effort # "fast",
   stage |-> "initial"]

LayoutMessage(request) == [type |-> "layout", request |-> request]

RefineMessage(request) == [type |-> "refine", request |-> request]

\* dispatch: the next generation becomes active and is posted to the worker
\* whose unread messages are `mail`.
Dispatch(submission, mail) ==
  LET request == RequestFor(submission, generation + 1) IN
  /\ generation' = generation + 1
  /\ active' = ActivationOf(request)
  /\ inbox' = Append(mail, LayoutMessage(request))

\* Mutant: the dispatched submission stays pending.
DispatchPendingAgain ==
  /\ UNCHANGED pending
  /\ IF pending = NoSubmission
     THEN active' = NoRequest /\ UNCHANGED <<generation, inbox>>
     ELSE Dispatch(pending, inbox)

\* dispatchPending, after the active request has finished.
DispatchPending ==
  /\ pending' = NoSubmission
  /\ IF pending = NoSubmission
     THEN active' = NoRequest /\ UNCHANGED <<generation, inbox>>
     ELSE Dispatch(pending, inbox)

\* Mutant: the handle is forgotten, the timer still fires.
ClearRefineTimerHandle == refineTimer' = NoTimer /\ UNCHANGED armed

\* The timer half of finishActive.
ClearRefineTimer ==
  /\ refineTimer' = NoTimer
  /\ armed' = armed \ {refineTimer}

\* restartWorker: a new worker, and what the old one had not read is gone.
RestartWorker == epoch' = epoch + 1

-----------------------------------------------------------------------------
(* The public operations.                                                   *)

Submit(submission) ==
  \/ /\ ActiveLarge
     /\ ClearRefineTimer
     /\ pending' = NoSubmission
     /\ RestartWorker
     /\ Dispatch(submission, <<>>)
     /\ UNCHANGED delivery
  \/ /\ active # NoRequest /\ ~ActiveLarge
     /\ pending' = submission
     /\ UNCHANGED <<active, generation, refineTimer, armed, inbox, epoch, delivery>>
  \/ /\ active = NoRequest
     /\ Dispatch(submission, inbox)
     /\ UNCHANGED <<pending, refineTimer, armed, epoch, delivery>>

\* Mutant: any active request is cancelled.
SupersedeActive ==
  /\ active # NoRequest
  /\ ClearRefineTimer
  /\ active' = NoRequest
  /\ pending' = NoSubmission
  /\ RestartWorker
  /\ inbox' = <<>>
  /\ UNCHANGED <<generation, delivery>>

SupersedeActiveLarge ==
  /\ ActiveLarge
  /\ ClearRefineTimer
  /\ active' = NoRequest
  /\ pending' = NoSubmission
  /\ RestartWorker
  /\ inbox' = <<>>
  /\ UNCHANGED <<generation, delivery>>

Matches(request, response) ==
  /\ response.generation = request.generation
  /\ response.id = request.id
  /\ response.datasetId = request.datasetId
  /\ response.fixtureName = request.fixtureName

\* Mutant: the stage of a request to refine is not looked at.
ExpectedResponseAnyStage(a, response) ==
  \/ a.stage = "refining" /\ response.phase = "final" /\ response.final
  \/ a.needsRefinement /\ response.phase = "fast" /\ ~response.final
  \/ /\ ~a.needsRefinement
     /\ response.phase = (IF a.large THEN "fast" ELSE "direct") /\ response.final

ExpectedResponse(a, response) ==
  \/ /\ a.stage = "refining"
     /\ response.phase = "final" /\ response.final
  \/ /\ a.stage = "initial" /\ a.needsRefinement
     /\ response.phase = "fast" /\ ~response.final
  \/ /\ a.stage = "initial" /\ ~a.needsRefinement
     /\ response.phase = (IF a.large THEN "fast" ELSE "direct") /\ response.final

Addressed(response) == active # NoRequest /\ Matches(active.request, response)

Accepted(response) ==
  Addressed(response) /\ ~response.error /\ ExpectedResponse(active, response)

DeliverResult(response) ==
  delivery' = [number |-> delivery.number + 1,
               generation |-> response.generation, final |-> response.final]

\* Mutant: an error is reported and the request stays active.
ReceiveErrorReported(response) ==
  Addressed(response) /\ response.error /\ UNCHANGED schedulerVars

ReceiveError(response) ==
  /\ Addressed(response)
  /\ response.error
  /\ ClearRefineTimer
  /\ DispatchPending
  /\ UNCHANGED <<epoch, delivery>>

ReceiveFast(response) ==
  /\ Accepted(response)
  /\ response.phase = "fast" /\ ~response.final
  /\ active' = [active EXCEPT !.stage = "waiting-to-refine"]
  /\ DeliverResult(response)
  /\ refineTimer' = active.request.generation
  /\ armed' = armed \cup {active.request.generation}
  /\ UNCHANGED <<pending, generation, inbox, epoch>>

ReceiveFinal(response) ==
  /\ Accepted(response)
  /\ ~(response.phase = "fast" /\ ~response.final)
  /\ ClearRefineTimer
  /\ DeliverResult(response)
  /\ DispatchPending
  /\ UNCHANGED epoch

Receive(response) ==
  ReceiveError(response) \/ ReceiveFast(response) \/ ReceiveFinal(response)

WorkerFailed ==
  /\ active # NoRequest
  /\ ClearRefineTimer
  /\ DispatchPending
  /\ UNCHANGED <<epoch, delivery>>

\* The quiet period of generation g is over: refine.
Refine(g) ==
  /\ g \in armed
  /\ armed' = armed \ {g}
  /\ refineTimer' = NoTimer
  /\ IF /\ active # NoRequest
        /\ active.request.generation = g
        /\ active.stage = "waiting-to-refine"
     THEN /\ active' = [active EXCEPT !.stage = "refining"]
          /\ inbox' = Append(inbox, RefineMessage(active.request))
     ELSE UNCHANGED <<active, inbox>>
  /\ UNCHANGED <<pending, generation, epoch, delivery>>

SchedulerInit ==
  /\ active = NoRequest
  /\ pending = NoSubmission
  /\ generation = 0
  /\ refineTimer = NoTimer
  /\ armed = {}
  /\ inbox = <<>>
  /\ epoch = 1
  /\ delivery = [number |-> 0, generation |-> 0, final |-> TRUE]
=============================================================================
