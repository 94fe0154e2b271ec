------------------------- MODULE VisualReview_proofs -------------------------
(***************************************************************************)
(* The review of layouts, proved for every set of fixtures, efforts and    *)
(* datasets: first what the scheduler guarantees alone, whatever the       *)
(* worker does, for any number of submissions (UnreliableWorker), then     *)
(* what the page guarantees with its scheduler and its worker, for any     *)
(* number of inputs and workers that may fail to load (LayoutReview).      *)
(***************************************************************************)
EXTENDS LayoutReview, UnreliableWorker, TLAPS

-----------------------------------------------------------------------------
(* The scheduler.  That no timer outlives its request needs the pending    *)
(* slot to be empty when the scheduler is idle, and that deliveries        *)
(* advance needs the last delivery to lag behind an untouched request.     *)
(* UnreliableInv adds those bounds, and the order of the ids handed out.   *)


\* The last delivery is never ahead, and behind a request without a result.
DeliveryLags ==
  /\ delivery.generation <= generation
  /\ active # NoRequest /\ active.stage = "initial" => delivery.generation < generation

\* Ids handed out so far: the dispatched ones lie below the pending one.
IdsOrdered ==
  /\ Len(dispatched) = generation
  /\ \A i \in 1..generation : dispatched[i].id <= submitted
  /\ pending # NoSubmission =>
       /\ pending.id <= submitted
       /\ \A i \in 1..generation : dispatched[i].id < pending.id

UnreliableInv ==
  /\ TypeOK
  /\ ActiveIsNewest
  /\ PendingWaitsBehindSmall
  /\ TimerOnlyWhileWaiting
  /\ RefinesWhatWasShown
  /\ DeliveryLags
  /\ DispatchedInOrder
  /\ IdsOrdered

\* What a dispatch makes of a submission.
LEMMA DispatchedRequest ==
  ASSUME NEW submission \in Submissions, NEW g \in Nat
  PROVE  /\ RequestFor(submission, g) \in Requests
         /\ RequestFor(submission, g).id = submission.id
         /\ RequestFor(submission, g).generation = g
         /\ ActivationOf(RequestFor(submission, g)) \in ActiveRequests
         /\ ActivationOf(RequestFor(submission, g)).request = RequestFor(submission, g)
         /\ ActivationOf(RequestFor(submission, g)).stage = "initial"
         /\ ActivationOf(RequestFor(submission, g)) # NoRequest
         /\ LayoutMessage(RequestFor(submission, g))
              \in [type: {"layout", "refine"}, request: Requests]
<1>1. RequestFor(submission, g) \in Requests
  BY DEF RequestFor, Requests, Submissions
<1>2. ActivationOf(RequestFor(submission, g)) \in ActiveRequests
  BY <1>1 DEF ActivationOf, ActiveRequests, Stages, IsLarge
<1>3. LayoutMessage(RequestFor(submission, g))
        \in [type: {"layout", "refine"}, request: Requests]
  BY <1>1 DEF LayoutMessage
<1> QED
  BY <1>1, <1>2, <1>3, NullsAssumption DEF RequestFor, ActivationOf

\* A dispatch of a submission newer than all dispatched ones, with no timer
\* armed and nothing left pending, restores the invariant.
LEMMA DispatchKeepsInv ==
  ASSUME UnreliableInv, NEW submission \in Submissions, NEW letters,
         letters \in Seq([type: {"layout", "refine"}, request: Requests]),
         submission.id <= submitted', submitted' \in Nat, submitted <= submitted',
         \A i \in 1..generation : dispatched[i].id < submission.id,
         Dispatch(submission, letters), RecordDispatch,
         pending' = NoSubmission, refineTimer' = NoTimer, armed' = {},
         epoch' \in Nat,
         delivery' \in [number: Nat, generation: Nat, final: BOOLEAN],
         delivery'.generation <= generation
  PROVE  UnreliableInv'
<1> DEFINE request == RequestFor(submission, generation + 1)
<1>0. generation \in Nat /\ dispatched \in Seq(Requests) /\ Len(dispatched) = generation
  BY DEF UnreliableInv, TypeOK, IdsOrdered
<1>1. /\ request \in Requests /\ request.id = submission.id
      /\ request.generation = generation + 1
      /\ ActivationOf(request) \in ActiveRequests
      /\ ActivationOf(request).request = request
      /\ ActivationOf(request).stage = "initial"
      /\ ActivationOf(request) # NoRequest
      /\ LayoutMessage(request) \in [type: {"layout", "refine"}, request: Requests]
  BY <1>0, DispatchedRequest
<1>2. generation' = generation + 1 /\ active' = ActivationOf(request)
      /\ inbox' = Append(letters, LayoutMessage(request))
  BY DEF Dispatch
<1>3. /\ dispatched' = Append(dispatched, request)
      /\ dispatched' \in Seq(Requests)
      /\ Len(dispatched') = generation + 1
      /\ dispatched'[generation + 1] = request
      /\ \A i \in 1..generation : dispatched'[i] = dispatched[i]
  BY <1>0, <1>1, <1>2 DEF RecordDispatch
<1>4. \A i \in 1..generation : dispatched[i].id \in Nat
  <2> SUFFICES ASSUME NEW i \in 1..generation PROVE dispatched[i].id \in Nat
    OBVIOUS
  <2>1. dispatched[i] \in Requests
    BY <1>0
  <2> QED BY <2>1 DEF Requests
<1>5. TypeOK'
  <2>1. inbox' \in Seq([type: {"layout", "refine"}, request: Requests])
    BY <1>1, <1>2
  <2> QED BY <1>0, <1>1, <1>2, <1>3, <2>1 DEF TypeOK
<1>6. ActiveIsNewest' /\ PendingWaitsBehindSmall'
  BY <1>1, <1>2 DEF ActiveIsNewest, PendingWaitsBehindSmall
<1>7. TimerOnlyWhileWaiting'
  BY <1>1, <1>2 DEF TimerOnlyWhileWaiting
<1>8. RefinesWhatWasShown' /\ DeliveryLags'
  BY <1>0, <1>1, <1>2 DEF RefinesWhatWasShown, DeliveryLags
<1>9. DispatchedInOrder'
  <2> SUFFICES ASSUME NEW i \in 1..(generation + 1), NEW j \in 1..(generation + 1), i < j
               PROVE  dispatched'[i].id < dispatched'[j].id
    BY <1>0, <1>3 DEF DispatchedInOrder
  <2>1. i \in 1..generation
    BY <1>0
  <2>2. CASE j = generation + 1
    BY <1>1, <1>3, <2>1, <2>2
  <2>3. CASE j \in 1..generation
    BY <1>0, <1>3, <2>1, <2>3 DEF UnreliableInv, DispatchedInOrder
  <2>4. j = generation + 1 \/ j \in 1..generation
    BY <1>0
  <2> QED BY <2>2, <2>3, <2>4
<1>10. IdsOrdered'
  <2>1. submission.id \in Nat /\ submitted \in Nat
    BY DEF Submissions, UnreliableInv, TypeOK
  <2>2. \A i \in 1..(generation + 1) : dispatched'[i].id <= submitted'
    BY <1>0, <1>1, <1>3, <1>4, <2>1
  <2> QED BY <1>0, <1>2, <1>3, <2>2 DEF IdsOrdered
<1> QED BY <1>5, <1>6, <1>7, <1>8, <1>9, <1>10 DEF UnreliableInv

\* Finishing the active request and dispatching the pending one, if any.
LEMMA DispatchPendingKeepsInv ==
  ASSUME UnreliableInv, active # NoRequest,
         ClearRefineTimer, DispatchPending, RecordDispatch,
         UNCHANGED <<epoch, submitted>>,
         delivery' \in [number: Nat, generation: Nat, final: BOOLEAN],
         delivery'.generation <= generation
  PROVE  UnreliableInv'
<1>1. refineTimer' = NoTimer /\ armed' = {}
  BY DEF ClearRefineTimer, UnreliableInv, TimerOnlyWhileWaiting
<1>2. CASE pending = NoSubmission
  <2>1. /\ active' = NoRequest /\ pending' = NoSubmission
        /\ generation' = generation /\ inbox' = inbox /\ dispatched' = dispatched
    BY <1>2 DEF DispatchPending, RecordDispatch, UnreliableInv, TypeOK
  <2>2. TypeOK'
    BY <1>1, <2>1 DEF UnreliableInv, TypeOK
  <2>3. ActiveIsNewest' /\ PendingWaitsBehindSmall' /\ TimerOnlyWhileWaiting'
        /\ RefinesWhatWasShown'
    BY <1>1, <2>1 DEF ActiveIsNewest, PendingWaitsBehindSmall, TimerOnlyWhileWaiting,
                      RefinesWhatWasShown
  <2>4. DeliveryLags'
    BY <2>1 DEF DeliveryLags
  <2>5. DispatchedInOrder' /\ IdsOrdered'
    BY <1>2, <2>1 DEF UnreliableInv, DispatchedInOrder, IdsOrdered
  <2> QED BY <2>2, <2>3, <2>4, <2>5 DEF UnreliableInv
<1>3. CASE pending # NoSubmission
  <2>1. /\ pending \in Submissions /\ pending.id <= submitted
        /\ \A i \in 1..generation : dispatched[i].id < pending.id
        /\ inbox \in Seq([type: {"layout", "refine"}, request: Requests])
        /\ submitted' \in Nat /\ submitted' = submitted /\ epoch' \in Nat
    BY <1>3 DEF UnreliableInv, TypeOK, IdsOrdered
  <2>2. Dispatch(pending, inbox) /\ pending' = NoSubmission
    BY <1>3 DEF DispatchPending
  <2>3. submitted <= submitted'
    BY <2>1
  <2> QED BY <1>1, <2>1, <2>2, <2>3, DispatchKeepsInv, ZenonT(30)
<1> QED BY <1>2, <1>3

LEMMA InitInv == UnreliableInit => UnreliableInv
<1> SUFFICES ASSUME UnreliableInit PROVE UnreliableInv
  OBVIOUS
<1> USE DEF UnreliableInit, SchedulerInit
<1>1. TypeOK
  BY DEF TypeOK
<1>2. ActiveIsNewest /\ PendingWaitsBehindSmall /\ TimerOnlyWhileWaiting
      /\ RefinesWhatWasShown /\ DeliveryLags
  BY DEF ActiveIsNewest, PendingWaitsBehindSmall, TimerOnlyWhileWaiting,
         RefinesWhatWasShown, DeliveryLags
<1>3. DispatchedInOrder /\ IdsOrdered
  BY DEF DispatchedInOrder, IdsOrdered
<1> QED BY <1>1, <1>2, <1>3 DEF UnreliableInv

\* A response that is listened to is addressed to the newest request.
LEMMA AcceptedIsNewest ==
  ASSUME UnreliableInv, NEW response \in Responses, Addressed(response)
  PROVE  /\ response.generation = generation
         /\ response.generation \in Nat /\ response.final \in BOOLEAN
<1>1. response.generation = generation
  BY DEF Addressed, Matches, UnreliableInv, ActiveIsNewest
<1> QED BY <1>1 DEF UnreliableInv, TypeOK, Responses

LEMMA SubmitInv ==
  ASSUME UnreliableInv, NEW d \in Datasets, NEW f \in Fixtures, NEW e \in Efforts,
         ClientSubmits(d, f, e)
  PROVE  UnreliableInv'
<1> DEFINE submission ==
      [id |-> submitted + 1, datasetId |-> d, fixtureName |-> f, effort |-> e]
<1>1. /\ submission \in Submissions /\ submission.id = submitted + 1
      /\ submitted \in Nat /\ submitted' = submitted + 1
      /\ submitted' \in Nat /\ submitted <= submitted' /\ submission.id <= submitted'
      /\ epoch + 1 \in Nat
      /\ generation \in Nat /\ epoch \in Nat
      /\ \A i \in 1..generation : dispatched[i].id <= submitted
      /\ delivery \in [number: Nat, generation: Nat, final: BOOLEAN]
      /\ delivery.generation <= generation
      /\ inbox \in Seq([type: {"layout", "refine"}, request: Requests])
  BY DEF ClientSubmits, Submissions, UnreliableInv, TypeOK, IdsOrdered, DeliveryLags
<1>1a. \A i \in 1..generation : dispatched[i].id < submission.id
  <2> SUFFICES ASSUME NEW i \in 1..generation PROVE dispatched[i].id < submission.id
    OBVIOUS
  <2>1. dispatched[i] \in Requests /\ dispatched[i].id <= submitted
    BY <1>1 DEF UnreliableInv, TypeOK, IdsOrdered
  <2>2. dispatched[i].id \in Nat
    BY <2>1 DEF Requests
  <2> QED BY <1>1, <2>1, <2>2
<1>2. RecordDispatch /\ Submit(submission)
  BY DEF ClientSubmits
<1>3. CASE ActiveLarge
  <2>1. /\ refineTimer' = NoTimer /\ armed' = {} /\ pending' = NoSubmission
        /\ epoch' = epoch + 1 /\ delivery' = delivery
        /\ Dispatch(submission, <<>>)
    BY <1>2, <1>3 DEF Submit, ClearRefineTimer, RestartWorker, UnreliableInv, TimerOnlyWhileWaiting,
                      ActiveLarge
  <2>2. <<>> \in Seq([type: {"layout", "refine"}, request: Requests])
    OBVIOUS
  <2> HIDE DEF submission
  <2> QED BY <1>1, <1>1a, <1>2, <2>1, <2>2, DispatchKeepsInv, ZenonT(30)
<1>4. CASE active # NoRequest /\ ~ActiveLarge
  <2>1. /\ pending' = submission /\ dispatched' = dispatched /\ generation' = generation
        /\ UNCHANGED <<active, refineTimer, armed, inbox, epoch, delivery>>
    BY <1>2, <1>4 DEF Submit, ActiveLarge, RecordDispatch
  <2>2. TypeOK'
    BY <1>1, <2>1 DEF UnreliableInv, TypeOK
  <2>3. ActiveIsNewest' /\ PendingWaitsBehindSmall' /\ TimerOnlyWhileWaiting'
        /\ RefinesWhatWasShown' /\ DeliveryLags'
    BY <1>4, <2>1 DEF UnreliableInv, ActiveIsNewest, PendingWaitsBehindSmall, TimerOnlyWhileWaiting,
                      RefinesWhatWasShown, DeliveryLags, ActiveLarge
  <2>4. DispatchedInOrder'
    BY <2>1 DEF UnreliableInv, DispatchedInOrder
  <2>5. IdsOrdered'
    <3>1. \A i \in 1..generation : dispatched[i].id <= submitted + 1
      <4> SUFFICES ASSUME NEW i \in 1..generation PROVE dispatched[i].id <= submitted + 1
        OBVIOUS
      <4>1. dispatched[i] \in Requests /\ dispatched[i].id <= submitted
        BY <1>1 DEF UnreliableInv, TypeOK, IdsOrdered
      <4>2. dispatched[i].id \in Nat
        BY <4>1 DEF Requests
      <4> QED BY <1>1, <4>1, <4>2
    <3>2. Len(dispatched) = generation
      BY DEF UnreliableInv, IdsOrdered
    <3> QED BY <1>1, <1>1a, <2>1, <3>1, <3>2 DEF IdsOrdered
  <2> QED BY <2>2, <2>3, <2>4, <2>5 DEF UnreliableInv
<1>5. CASE active = NoRequest
  <2>1. /\ Dispatch(submission, inbox)
        /\ UNCHANGED <<pending, refineTimer, armed, epoch, delivery>>
    BY <1>2, <1>5 DEF Submit, ActiveLarge
  <2>2. pending' = NoSubmission /\ refineTimer' = NoTimer /\ armed' = {}
    BY <1>5, <2>1 DEF UnreliableInv, PendingWaitsBehindSmall, TimerOnlyWhileWaiting
  <2> HIDE DEF submission
  <2> QED BY <1>1, <1>1a, <1>2, <2>1, <2>2, DispatchKeepsInv, ZenonT(30)
<1> QED BY <1>3, <1>4, <1>5

LEMMA AnswerInv ==
  ASSUME UnreliableInv, NEW response \in Responses, Receive(response),
         UNCHANGED submitted, RecordDispatch
  PROVE  UnreliableInv'
<1>1. CASE ReceiveError(response)
  <2>1. /\ active # NoRequest /\ ClearRefineTimer /\ DispatchPending
        /\ UNCHANGED <<epoch, submitted>> /\ delivery' = delivery
    BY <1>1 DEF ReceiveError, Addressed
  <2>2. /\ delivery' \in [number: Nat, generation: Nat, final: BOOLEAN]
        /\ delivery'.generation <= generation
    BY <2>1 DEF UnreliableInv, TypeOK, DeliveryLags
  <2> QED BY <2>1, <2>2, DispatchPendingKeepsInv, ZenonT(30)
<1>2. CASE ReceiveFinal(response)
  <2>1. /\ active # NoRequest /\ ClearRefineTimer /\ DispatchPending
        /\ UNCHANGED <<epoch, submitted>> /\ DeliverResult(response) /\ Addressed(response)
    BY <1>2 DEF ReceiveFinal, Accepted, Addressed
  <2>2. /\ delivery' \in [number: Nat, generation: Nat, final: BOOLEAN]
        /\ delivery'.generation <= generation
    BY <2>1, AcceptedIsNewest DEF DeliverResult, UnreliableInv, TypeOK
  <2> QED BY <2>1, <2>2, DispatchPendingKeepsInv, ZenonT(30)
<1>3. CASE ReceiveFast(response)
  <2>1. /\ active # NoRequest /\ active \in ActiveRequests
        /\ active.request.generation = generation /\ generation \in Nat
        /\ active.stage = "initial"
        /\ response.generation = generation /\ response.final = FALSE
    BY <1>3, AcceptedIsNewest
       DEF ReceiveFast, Accepted, Addressed, ExpectedResponse, UnreliableInv, TypeOK, ActiveIsNewest
  <2>2. /\ active' = [active EXCEPT !.stage = "waiting-to-refine"]
        /\ delivery' = [number |-> delivery.number + 1,
                        generation |-> generation, final |-> FALSE]
        /\ refineTimer' = generation /\ armed' = armed \cup {generation}
        /\ UNCHANGED <<pending, generation, inbox, epoch, submitted, dispatched>>
    BY <1>3, <2>1 DEF ReceiveFast, DeliverResult, RecordDispatch
  <2>3. /\ active' \in ActiveRequests /\ active' # NoRequest
        /\ active'.request = active.request /\ active'.large = active.large
        /\ active'.stage = "waiting-to-refine"
    BY <2>1, <2>2, NullsAssumption DEF ActiveRequests, Stages
  <2>4. TypeOK'
    BY <2>1, <2>2, <2>3 DEF UnreliableInv, TypeOK
  <2>5. ActiveIsNewest' /\ PendingWaitsBehindSmall'
    BY <2>1, <2>2, <2>3 DEF UnreliableInv, ActiveIsNewest, PendingWaitsBehindSmall
  <2>6. TimerOnlyWhileWaiting'
    <3>1. armed = {} /\ generation # NoTimer
      BY <2>1, ConstantsAssumption DEF UnreliableInv, TimerOnlyWhileWaiting
    <3> QED BY <2>2, <2>3, <3>1 DEF TimerOnlyWhileWaiting
  <2>7. RefinesWhatWasShown' /\ DeliveryLags'
    BY <2>1, <2>2, <2>3 DEF RefinesWhatWasShown, DeliveryLags
  <2>8. DispatchedInOrder' /\ IdsOrdered'
    BY <2>2 DEF UnreliableInv, DispatchedInOrder, IdsOrdered
  <2> QED BY <2>4, <2>5, <2>6, <2>7, <2>8 DEF UnreliableInv
<1> QED BY <1>1, <1>2, <1>3 DEF Receive

LEMMA RefineInv ==
  ASSUME UnreliableInv, NEW g \in armed, Refine(g), UNCHANGED <<submitted, dispatched>>
  PROVE  UnreliableInv'
<1>1. /\ refineTimer = g /\ refineTimer' = NoTimer /\ armed' = {}
      /\ active # NoRequest /\ active \in ActiveRequests
      /\ active.stage = "waiting-to-refine" /\ active.request.generation = g
  BY DEF Refine, UnreliableInv, TimerOnlyWhileWaiting, ActiveIsNewest, TypeOK
<1>2. /\ active' = [active EXCEPT !.stage = "refining"]
      /\ inbox' = Append(inbox, RefineMessage(active.request))
      /\ UNCHANGED <<pending, generation, epoch, delivery>>
  BY <1>1 DEF Refine
<1>3. /\ active' \in ActiveRequests /\ active' # NoRequest
      /\ active'.request = active.request /\ active'.large = active.large
      /\ active'.stage = "refining"
      /\ RefineMessage(active.request) \in [type: {"layout", "refine"}, request: Requests]
  BY <1>1, <1>2, NullsAssumption DEF ActiveRequests, Stages, RefineMessage
<1>4. TypeOK'
  <2>1. inbox' \in Seq([type: {"layout", "refine"}, request: Requests])
    BY <1>2, <1>3 DEF UnreliableInv, TypeOK
  <2> QED BY <1>1, <1>2, <1>3, <2>1 DEF UnreliableInv, TypeOK
<1>5. ActiveIsNewest' /\ PendingWaitsBehindSmall' /\ TimerOnlyWhileWaiting'
  BY <1>1, <1>2, <1>3 DEF UnreliableInv, ActiveIsNewest, PendingWaitsBehindSmall, TimerOnlyWhileWaiting
<1>6. RefinesWhatWasShown' /\ DeliveryLags'
  BY <1>1, <1>2, <1>3 DEF UnreliableInv, RefinesWhatWasShown, DeliveryLags
<1>7. DispatchedInOrder' /\ IdsOrdered'
  BY <1>2 DEF UnreliableInv, DispatchedInOrder, IdsOrdered
<1> QED BY <1>4, <1>5, <1>6, <1>7 DEF UnreliableInv

LEMMA NextInv == UnreliableInv /\ [UnreliableNext]_unreliableVars => UnreliableInv'
<1> SUFFICES ASSUME UnreliableInv, [UnreliableNext]_unreliableVars PROVE UnreliableInv'
  OBVIOUS
<1>1. ASSUME NEW d \in Datasets, NEW f \in Fixtures, NEW e \in Efforts,
             ClientSubmits(d, f, e)
      PROVE  UnreliableInv'
  BY <1>1, SubmitInv
<1>2. CASE ClientSupersedes
  <2>1. /\ active' = NoRequest /\ pending' = NoSubmission /\ refineTimer' = NoTimer
        /\ armed' = {} /\ epoch' = epoch + 1 /\ inbox' = <<>>
        /\ UNCHANGED <<generation, delivery, submitted, dispatched>>
    BY <1>2 DEF ClientSupersedes, SupersedeActiveLarge, ClearRefineTimer, RestartWorker,
                UnreliableInv, TimerOnlyWhileWaiting
  <2>2. TypeOK'
    BY <2>1 DEF UnreliableInv, TypeOK
  <2>3. ActiveIsNewest' /\ PendingWaitsBehindSmall' /\ TimerOnlyWhileWaiting'
        /\ RefinesWhatWasShown' /\ DeliveryLags'
    BY <2>1 DEF UnreliableInv, ActiveIsNewest, PendingWaitsBehindSmall, TimerOnlyWhileWaiting,
                RefinesWhatWasShown, DeliveryLags
  <2>4. DispatchedInOrder' /\ IdsOrdered'
    BY <2>1 DEF UnreliableInv, DispatchedInOrder, IdsOrdered
  <2> QED BY <2>2, <2>3, <2>4 DEF UnreliableInv
<1>3. CASE MessageIsTaken
  <2>1. inbox' \in Seq([type: {"layout", "refine"}, request: Requests])
    BY <1>3 DEF MessageIsTaken, UnreliableInv, TypeOK
  <2>2. UNCHANGED <<active, pending, generation, refineTimer, armed, epoch, delivery,
                    submitted, dispatched>>
    BY <1>3 DEF MessageIsTaken
  <2>3. TypeOK'
    BY <2>1, <2>2 DEF UnreliableInv, TypeOK
  <2> QED BY <2>2, <2>3 DEF UnreliableInv, ActiveIsNewest, PendingWaitsBehindSmall,
                TimerOnlyWhileWaiting, RefinesWhatWasShown, DeliveryLags,
                DispatchedInOrder, IdsOrdered
<1>4. CASE WorkerAnswers
  BY <1>4, AnswerInv, ZenonT(30) DEF WorkerAnswers
<1>5. CASE WorkerBreaks
  <2>1. /\ active # NoRequest /\ ClearRefineTimer /\ DispatchPending /\ RecordDispatch
        /\ UNCHANGED <<epoch, submitted>> /\ delivery' = delivery
    BY <1>5 DEF WorkerBreaks, WorkerFailed
  <2>2. /\ delivery' \in [number: Nat, generation: Nat, final: BOOLEAN]
        /\ delivery'.generation <= generation
    BY <2>1 DEF UnreliableInv, TypeOK, DeliveryLags
  <2> QED BY <2>1, <2>2, DispatchPendingKeepsInv, ZenonT(30)
<1>6. CASE QuietPeriodEnds
  BY <1>6, RefineInv, ZenonT(30) DEF QuietPeriodEnds
<1>7. CASE UNCHANGED unreliableVars
  BY <1>7 DEF unreliableVars, schedulerVars, UnreliableInv, TypeOK, ActiveIsNewest, PendingWaitsBehindSmall,
              TimerOnlyWhileWaiting, RefinesWhatWasShown, DeliveryLags,
              DispatchedInOrder, IdsOrdered
<1> QED BY <1>1, <1>2, <1>3, <1>4, <1>5, <1>6, <1>7 DEF UnreliableNext

\* The scheduler keeps its types and the five safety properties whatever the
\* client submits and the worker answers (latestRequest.ts).
THEOREM SchedulerSafety ==
  UnreliableSpec => [](/\ TypeOK /\ ActiveIsNewest /\ PendingWaitsBehindSmall
             /\ TimerOnlyWhileWaiting /\ RefinesWhatWasShown /\ DispatchedInOrder)
<1>1. UnreliableInv => /\ TypeOK /\ ActiveIsNewest /\ PendingWaitsBehindSmall
              /\ TimerOnlyWhileWaiting /\ RefinesWhatWasShown /\ DispatchedInOrder
  BY DEF UnreliableInv
<1> QED BY <1>1, InitInv, NextInv, PTL DEF UnreliableSpec

\* In particular submissions keep their turn, in the order of their dispatch as
\* well as in what they may wait for.
THEOREM SubmissionsTakeTurns == UnreliableSpec => []SubmissionsKeepTheirTurn
<1>1. UnreliableInv => SubmissionsKeepTheirTurn
  BY DEF UnreliableInv, SubmissionsKeepTheirTurn
<1> QED BY <1>1, InitInv, NextInv, PTL DEF UnreliableSpec

\* One step hands out at most one result, of a newer request or the refinement
\* of the last one.
LEMMA StepAdvancesDelivery ==
  ASSUME UnreliableInv, [UnreliableNext]_unreliableVars, delivery' # delivery
  PROVE  \/ delivery'.generation > delivery.generation
         \/ /\ delivery'.generation = delivery.generation
            /\ delivery'.final /\ ~delivery.final
<1>1. PICK response \in Responses : Accepted(response) /\ DeliverResult(response)
  <2>1. WorkerAnswers
    BY DEF UnreliableNext, unreliableVars, schedulerVars, ClientSubmits, Submit, ClientSupersedes,
           SupersedeActiveLarge, MessageIsTaken, WorkerBreaks, WorkerFailed,
           QuietPeriodEnds, Refine
  <2>2. PICK response \in Responses : Receive(response)
    BY <2>1 DEF WorkerAnswers
  <2>3. Accepted(response) /\ DeliverResult(response)
    BY <2>2 DEF Receive, ReceiveError, ReceiveFast, ReceiveFinal
  <2> QED BY <2>3
<1>2. /\ delivery'.generation = generation /\ delivery'.final = response.final
      /\ generation \in Nat /\ delivery.generation \in Nat
  BY <1>1, AcceptedIsNewest DEF Accepted, DeliverResult, UnreliableInv, TypeOK
<1>3. CASE active.stage = "initial"
  BY <1>1, <1>2, <1>3 DEF Accepted, Addressed, UnreliableInv, DeliveryLags
<1>4. CASE active.stage = "refining"
  BY <1>1, <1>2, <1>4 DEF Accepted, Addressed, ExpectedResponse, UnreliableInv, RefinesWhatWasShown
<1> QED BY <1>1, <1>3, <1>4 DEF Accepted, ExpectedResponse

\* Results reach the page in the order of the requests, each stage once.
THEOREM SchedulerDeliversInOrder == UnreliableSpec => DeliveriesAdvance
<1>1. UnreliableInv /\ [UnreliableNext]_unreliableVars =>
        [delivery' # delivery =>
           \/ delivery'.generation > delivery.generation
           \/ /\ delivery'.generation = delivery.generation
              /\ delivery'.final /\ ~delivery.final]_unreliableVars
  BY StepAdvancesDelivery
<1> QED BY <1>1, InitInv, NextInv, PTL DEF UnreliableSpec, DeliveriesAdvance

\* What finishes the active request sends the pending submission on.
LEMMA PendingIsSentOn ==
  ASSUME UnreliableInv, pending # NoSubmission, DispatchPending
  PROVE  active' # NoRequest /\ active'.request.id = pending.id
<1>1. pending \in Submissions /\ generation + 1 \in Nat
  BY DEF UnreliableInv, TypeOK
<1>2. Dispatch(pending, inbox)
  BY DEF DispatchPending
<1> QED BY <1>1, <1>2, DispatchedRequest DEF Dispatch

LEMMA StepKeepsPending ==
  ASSUME UnreliableInv, [UnreliableNext]_unreliableVars, pending # NoSubmission
  PROVE  \/ pending' = pending
         \/ pending' # NoSubmission /\ pending'.id > pending.id
         \/ active' # NoRequest /\ active'.request.id = pending.id
<1>1. active # NoRequest /\ ~ActiveLarge
  BY DEF UnreliableInv, PendingWaitsBehindSmall, ActiveLarge
<1>2. ASSUME NEW d \in Datasets, NEW f \in Fixtures, NEW e \in Efforts,
             ClientSubmits(d, f, e)
      PROVE  pending' # NoSubmission /\ pending'.id > pending.id
  <2> DEFINE submission ==
        [id |-> submitted + 1, datasetId |-> d, fixtureName |-> f, effort |-> e]
  <2>1. pending' = submission
    BY <1>1, <1>2 DEF ClientSubmits, Submit
  <2>2. /\ submitted \in Nat /\ pending.id \in Nat /\ pending.id <= submitted
    BY DEF UnreliableInv, TypeOK, IdsOrdered, Submissions
  <2>3. submission \in Submissions /\ submission.id = submitted + 1
    BY <2>2 DEF Submissions
  <2> QED BY <2>1, <2>2, <2>3, NullsAssumption
<1>3. CASE ClientSupersedes
  BY <1>1, <1>3 DEF ClientSupersedes, SupersedeActiveLarge
<1>4. CASE MessageIsTaken
  BY <1>4 DEF MessageIsTaken
<1>5. CASE WorkerAnswers
  <2>1. PICK response \in Responses : Receive(response)
    BY <1>5 DEF WorkerAnswers
  <2>2. DispatchPending \/ pending' = pending
    BY <2>1 DEF Receive, ReceiveError, ReceiveFast, ReceiveFinal
  <2> QED BY <2>2, PendingIsSentOn
<1>6. CASE WorkerBreaks
  BY <1>6, PendingIsSentOn DEF WorkerBreaks, WorkerFailed
<1>7. CASE QuietPeriodEnds
  BY <1>7 DEF QuietPeriodEnds, Refine
<1>8. CASE UNCHANGED unreliableVars
  BY <1>8 DEF unreliableVars, schedulerVars
<1> QED BY <1>2, <1>3, <1>4, <1>5, <1>6, <1>7, <1>8 DEF UnreliableNext

\* No handler drops the pending submission: it stays, gives way to a newer one
\* or is dispatched (submit, supersedeActiveLarge, dispatchPending).
THEOREM PendingIsNeverLost == UnreliableSpec => PendingNeverLost
<1>1. UnreliableInv /\ [UnreliableNext]_unreliableVars =>
        [pending # NoSubmission =>
           \/ pending' = pending
           \/ pending' # NoSubmission /\ pending'.id > pending.id
           \/ active' # NoRequest /\ active'.request.id = pending.id]_unreliableVars
  BY StepKeepsPending
<1> QED BY <1>1, InitInv, NextInv, PTL DEF UnreliableSpec, PendingNeverLost

-----------------------------------------------------------------------------
(* The page.  The invariants the runs check are not inductive: that an     *)
(* answer is listened to needs what the answer says, which needs what the  *)
(* worker read, kept and scored; and that the canvas is of the selection   *)
(* needs what of the selection is still on its way.  Flow names the places *)
(* a request can be in, one after the other; Newest says which request is  *)
(* the selection's.                                                        *)


LayoutReplies ==
  [generation: Nat, id: Nat, datasetId: Datasets, fixtureName: Fixtures, phase: Phases,
   final: BOOLEAN, error: {FALSE}, effort: Efforts \cup {"fast"}, requestedEffort: Efforts,
   scoredIn: Datasets]

ErrorReplies ==
  [generation: Nat, id: Nat, datasetId: Datasets, fixtureName: Fixtures, phase: Phases,
   final: {TRUE}, error: {TRUE}]

Replies == LayoutReplies \cup ErrorReplies

Message(response) == [type |-> "message", response |-> response]

Events == {ScriptFailure} \cup [type: {"message"}, response: Replies]

PageTypes ==
  /\ datasetId \in Datasets \cup {0}
  /\ current \in Fixtures \cup {Nothing}
  /\ current # Nothing => datasetId \in Datasets
  /\ effort \in Efforts
  /\ layoutDirty \in BOOLEAN /\ debounce \in BOOLEAN
  /\ requestSequence \in Nat
  /\ display \in Displays \cup {Nothing}
  /\ status \in {"no data", "queued", "finishing current", "laying out", "refining",
                 "final", "failed", "rejected"}

Caches ==
  [datasetId: Datasets \cup {Nothing}, scored: SUBSET [fixtureName: Fixtures, scoredIn: Datasets]]

SchedulerTypes ==
  /\ active \in ActiveRequests \cup {NoRequest}
  /\ pending \in Submissions \cup {NoSubmission}
  /\ generation \in Nat

WorkerTypes ==
  /\ epoch \in Nat \ {0}
  /\ wasm \in {"loading", "ready", "rejected", "dead"}
  /\ retained \in Retentions \cup {Nothing}
  /\ cache \in Caches
  /\ mail \in Seq(Seq(Events)) /\ Len(mail) = epoch

\* What the scheduler knows of the active request is what the worker finds.
ActiveIsDescribed ==
  active # NoRequest =>
    /\ active.large = IsLarge(active.request)
    /\ active.needsRefinement = NeedsRefinement(active.request)

\* Scores are of the dataset the cache is of.
ScoresAreOwn == \A entry \in cache.scored : entry.scoredIn = cache.datasetId

Keeps(request) ==
  wasm = "ready" /\ retained = [request |-> request, scoredIn |-> request.datasetId]

\* An answer that the scheduler takes: an error, or the layout it waits for.
Answers(response) ==
  /\ Matches(active.request, response)
  /\ ~response.error =>
       /\ ExpectedResponse(active, response)
       /\ response.requestedEffort = active.request.effort
       /\ response.scoredIn = active.request.datasetId
       /\ IF response.final THEN response.effort = active.request.effort
          ELSE Keeps(active.request)

-----------------------------------------------------------------------------
(* Where the active request is.                                            *)

Still == inbox = <<>> /\ mail[epoch] = <<>> /\ armed = {}

\* A worker whose script failed to load hears nothing any more.
Dead == armed = {} /\ mail[epoch] \in {<<>>, <<ScriptFailure>>}

AtWorker ==
  /\ mail[epoch] = <<>> /\ armed = {}
  /\ \/ active.stage = "initial" /\ inbox = <<LayoutMessage(active.request)>>
     \/ /\ active.stage = "refining" /\ inbox = <<RefineMessage(active.request)>>
        /\ Keeps(active.request)

Answered ==
  /\ inbox = <<>> /\ armed = {} /\ wasm # "loading"
  /\ \E event \in {mail[epoch][i] : i \in DOMAIN mail[epoch]} :
       /\ mail[epoch] = <<event>> /\ event = Message(event.response)
       /\ event.response \in Replies /\ Answers(event.response)

Quiet ==
  /\ inbox = <<>> /\ mail[epoch] = <<>>
  /\ active.stage = "waiting-to-refine"
  /\ armed = {active.request.generation} /\ refineTimer = active.request.generation
  /\ Keeps(active.request)

Flow ==
  IF wasm = "dead" THEN Dead
  ELSE IF active = NoRequest THEN Still
  ELSE AtWorker \/ Answered \/ Quiet

-----------------------------------------------------------------------------
(* What of the selection is on its way.                                    *)

Covers(request) ==
  /\ request.fixtureName = current
  /\ request.datasetId = datasetId
  /\ request.effort = effort

Settled ==
  \/ status = "failed"
  \/ status = "final" /\ NewestIsShown

Newest ==
  /\ debounce => layoutDirty
  /\ layoutDirty /\ current # Nothing => debounce
  /\ ~layoutDirty /\ current # Nothing =>
       IF pending # NoSubmission THEN Covers(pending)
       ELSE IF active # NoRequest THEN Covers(active.request)
       ELSE Settled \/ status = "rejected"

PendingHasToWait == pending # NoSubmission => active # NoRequest

\* The scheduler, the worker and what is between them do not depend on the page.
MInv ==
  /\ SchedulerTypes /\ WorkerTypes
  /\ ActiveIsDescribed /\ PendingHasToWait
  /\ ScoresAreOwn
  /\ Flow

PInv == PageTypes /\ Newest /\ DisplayIsOfSelection

IInv == MInv /\ PInv

-----------------------------------------------------------------------------
(* Requests on their way to the worker.                                    *)

\* What a dispatch makes of a submission.
LEMMA Dispatched ==
  ASSUME generation \in Nat, NEW submission \in Submissions, NEW box,
         Dispatch(submission, box)
  PROVE  /\ active' \in ActiveRequests /\ active' # NoRequest
         /\ active'.stage = "initial"
         /\ active'.large = IsLarge(active'.request)
         /\ active'.needsRefinement = NeedsRefinement(active'.request)
         /\ active'.request.fixtureName = submission.fixtureName
         /\ active'.request.datasetId = submission.datasetId
         /\ active'.request.effort = submission.effort
         /\ generation' \in Nat /\ generation' # generation
         /\ inbox' = Append(box, LayoutMessage(active'.request))
<1> DEFINE request == RequestFor(submission, generation + 1)
<1>1. request \in Requests
  BY DEF RequestFor, Requests, Submissions
<1>2. ActivationOf(request) \in ActiveRequests
  BY <1>1 DEF ActivationOf, ActiveRequests, Stages, IsLarge
<1>3. /\ request.fixtureName = submission.fixtureName
      /\ request.datasetId = submission.datasetId
      /\ request.effort = submission.effort
  BY DEF RequestFor
<1>4. /\ active' = ActivationOf(request) /\ generation' = generation + 1
      /\ inbox' = Append(box, LayoutMessage(request))
  BY DEF Dispatch
<1>5. /\ ActivationOf(request).request = request
      /\ ActivationOf(request).stage = "initial"
      /\ ActivationOf(request).large = IsLarge(request)
      /\ ActivationOf(request).needsRefinement = NeedsRefinement(request)
  BY DEF ActivationOf, NeedsRefinement
<1> HIDE DEF request
<1> QED BY <1>1, <1>2, <1>3, <1>4, <1>5, NullsAssumption

\* The page alone does nothing to scheduler and worker.
LEMMA UnchangedKeepsMachine ==
  ASSUME MInv, UNCHANGED <<schedulerVars, workerVars, mail>>
  PROVE  MInv'
<1>1. /\ SchedulerTypes' /\ WorkerTypes' /\ ActiveIsDescribed' /\ PendingHasToWait'
      /\ ScoresAreOwn'
  BY DEF MInv, SchedulerTypes, WorkerTypes, ActiveIsDescribed, PendingHasToWait, ScoresAreOwn,
         schedulerVars, workerVars
<1>2. Flow'
  BY DEF MInv, Flow, Dead, Still, AtWorker, Answered, Quiet, Answers, Keeps, ExpectedResponse,
         schedulerVars, workerVars
<1> QED BY <1>1, <1>2 DEF MInv

\* A timer that is armed is the one a cancellation clears.
LEMMA TimerIsCleared == ASSUME Flow, ClearRefineTimer PROVE armed' = {}
BY DEF Flow, Dead, Still, AtWorker, Answered, Quiet, ClearRefineTimer

\* A new worker has read, kept and posted nothing.
LEMMA RestartedWorker ==
  ASSUME WorkerTypes, RestartWorker, FollowRestart
  PROVE  /\ WorkerTypes' /\ ScoresAreOwn'
         /\ wasm' = "loading" /\ mail'[epoch'] = <<>>
<1>1. /\ epoch' = epoch + 1 /\ epoch \in Nat /\ epoch' # epoch
  BY DEF RestartWorker, WorkerTypes
<1>2. /\ wasm' = "loading" /\ retained' = Nothing /\ cache' = EmptyCache
      /\ mail' = Append(mail, <<>>)
  BY <1>1 DEF FollowRestart
<1>3. <<>> \in Seq(Events)
  OBVIOUS
<1>4. mail' \in Seq(Seq(Events)) /\ Len(mail') = epoch' /\ mail'[epoch'] = <<>>
  BY <1>1, <1>2, <1>3 DEF WorkerTypes
<1>5. cache' \in Caches /\ cache'.scored = {}
  BY <1>2 DEF EmptyCache, Caches
<1> QED BY <1>1, <1>2, <1>4, <1>5 DEF WorkerTypes, ScoresAreOwn

LEMMA SupersedeKeepsMachine ==
  ASSUME MInv, SupersedeActiveLarge, FollowRestart
  PROVE  MInv' /\ generation' = generation
<1>1. WorkerTypes' /\ ScoresAreOwn' /\ wasm' = "loading" /\ mail'[epoch'] = <<>>
  BY RestartedWorker DEF SupersedeActiveLarge, MInv
<1>2. armed' = {}
  BY TimerIsCleared DEF SupersedeActiveLarge, MInv
<1>3. /\ active' = NoRequest /\ pending' = NoSubmission /\ inbox' = <<>>
      /\ generation' = generation
  BY DEF SupersedeActiveLarge
<1>4. SchedulerTypes' /\ ActiveIsDescribed' /\ PendingHasToWait'
  BY <1>3 DEF MInv, SchedulerTypes, ActiveIsDescribed, PendingHasToWait
<1>5. Flow'
  BY <1>1, <1>2, <1>3 DEF Flow, Still
<1> QED BY <1>1, <1>3, <1>4, <1>5 DEF MInv

\* Nothing is under way for a scheduler that is idle or whose worker is dead,
\* so that what is dispatched is the only thing that is.
LEMMA DispatchKeepsMachine ==
  ASSUME SchedulerTypes, WorkerTypes, WorkerTypes', ScoresAreOwn', NEW submission \in Submissions,
         NEW box, Dispatch(submission, box), pending' = NoSubmission, armed' = {},
         IF wasm' = "dead" THEN mail'[epoch'] \in {<<>>, <<ScriptFailure>>}
         ELSE box = <<>> /\ mail'[epoch'] = <<>>
  PROVE  MInv'
<1>1. generation \in Nat
  BY DEF SchedulerTypes
<1>2. /\ active' \in ActiveRequests /\ active' # NoRequest /\ active'.stage = "initial"
      /\ active'.large = IsLarge(active'.request)
      /\ active'.needsRefinement = NeedsRefinement(active'.request)
      /\ generation' \in Nat
      /\ inbox' = Append(box, LayoutMessage(active'.request))
  BY <1>1, Dispatched
<1>3. SchedulerTypes' /\ PendingHasToWait' /\ ActiveIsDescribed'
  BY <1>2 DEF SchedulerTypes, PendingHasToWait, ActiveIsDescribed, IsLarge, NeedsRefinement
<1>4. Flow'
  <2>1. CASE wasm' = "dead"
    BY <2>1 DEF Flow, Dead
  <2>2. CASE wasm' # "dead"
    <3>1. inbox' = <<LayoutMessage(active'.request)>>
      BY <1>2, <2>2
    <3>2. AtWorker'
      BY <1>2, <2>2, <3>1 DEF AtWorker, LayoutMessage
    <3> QED BY <1>2, <2>2, <3>2 DEF Flow
  <2> QED BY <2>1, <2>2
<1> QED BY <1>3, <1>4 DEF MInv

LEMMA SubmitKeepsMachine ==
  ASSUME MInv, NEW submission \in Submissions, Submit(submission), FollowRestart
  PROVE  MInv'
<1>1. CASE ActiveLarge
  <2>1. /\ RestartWorker /\ ClearRefineTimer /\ pending' = NoSubmission
        /\ Dispatch(submission, <<>>)
    BY <1>1 DEF Submit, ActiveLarge
  <2>2. WorkerTypes' /\ ScoresAreOwn' /\ wasm' = "loading" /\ mail'[epoch'] = <<>>
    BY <2>1, RestartedWorker DEF MInv
  <2>3. armed' = {}
    BY <2>1, TimerIsCleared DEF MInv
  <2> QED BY <2>1, <2>2, <2>3, DispatchKeepsMachine DEF MInv
<1>2. CASE active # NoRequest /\ ~ActiveLarge
  <2>1. /\ pending' = submission
        /\ UNCHANGED <<active, generation, refineTimer, armed, inbox, epoch>>
        /\ UNCHANGED <<workerVars, mail>>
    BY <1>2 DEF Submit, FollowRestart, ActiveLarge
  <2> QED BY <1>2, <2>1 DEF MInv, SchedulerTypes, WorkerTypes, ActiveIsDescribed,
            PendingHasToWait, ScoresAreOwn, Flow, Dead, Still, AtWorker, Answered, Quiet,
            Answers, Keeps, ExpectedResponse, workerVars
<1>3. CASE active = NoRequest
  <2>1. /\ Dispatch(submission, inbox)
        /\ UNCHANGED <<pending, armed, epoch, wasm, retained, cache, mail>>
    BY <1>3 DEF Submit, ActiveLarge, FollowRestart, workerVars
  <2>2. /\ pending' = NoSubmission /\ armed' = {} /\ WorkerTypes' /\ ScoresAreOwn'
        /\ IF wasm' = "dead" THEN mail'[epoch'] \in {<<>>, <<ScriptFailure>>}
           ELSE inbox = <<>> /\ mail'[epoch'] = <<>>
    BY <1>3, <2>1 DEF MInv, PendingHasToWait, Flow, Dead, Still, WorkerTypes, ScoresAreOwn
  <2> QED BY <2>1, <2>2, DispatchKeepsMachine DEF MInv
<1> QED BY <1>1, <1>2, <1>3

\* The quiet period of the layout that was handed out is over.
LEMMA RefineKeepsMachine ==
  ASSUME MInv, NEW g \in armed, Refine(g), UNCHANGED <<workerVars, mail>>
  PROVE  MInv' /\ active # NoRequest /\ active' # NoRequest /\ active'.request = active.request
<1>1. wasm # "dead" /\ active # NoRequest /\ Quiet
  BY DEF MInv, Flow, Dead, Still, AtWorker, Answered
<1>2. /\ g = active.request.generation /\ active \in ActiveRequests
      /\ armed' = {} /\ active' = [active EXCEPT !.stage = "refining"]
      /\ inbox' = <<RefineMessage(active.request)>>
      /\ UNCHANGED <<pending, generation, epoch>>
  BY <1>1 DEF Refine, Quiet, MInv, SchedulerTypes
<1>3. /\ active' \in ActiveRequests /\ active' # NoRequest
      /\ active'.request = active.request /\ active'.stage = "refining"
      /\ active'.large = active.large /\ active'.needsRefinement = active.needsRefinement
  BY <1>2, NullsAssumption DEF ActiveRequests, Stages
<1>4. SchedulerTypes' /\ PendingHasToWait' /\ ActiveIsDescribed'
  BY <1>1, <1>2, <1>3 DEF MInv, SchedulerTypes, PendingHasToWait, ActiveIsDescribed, IsLarge,
                          NeedsRefinement
<1>5. WorkerTypes' /\ ScoresAreOwn'
  BY <1>2 DEF MInv, WorkerTypes, ScoresAreOwn, workerVars
<1>6. AtWorker'
  BY <1>1, <1>2, <1>3 DEF AtWorker, Quiet, Keeps, workerVars, RefineMessage
<1>7. Flow'
  BY <1>1, <1>3, <1>6 DEF Flow, workerVars
<1> QED BY <1>1, <1>3, <1>4, <1>5, <1>7 DEF MInv

-----------------------------------------------------------------------------
(* The worker.                                                             *)

\* A worker that had posted nothing posts one event.
LEMMA Posted ==
  ASSUME WorkerTypes, NEW event \in Events, mail[epoch] = <<>>, Post(event)
  PROVE  mail' \in Seq(Seq(Events)) /\ Len(mail') = epoch /\ mail'[epoch] = <<event>>
<1>1. /\ mail \in Seq(Seq(Events)) /\ Len(mail) = epoch /\ epoch \in 1..Len(mail)
      /\ mail' = [mail EXCEPT ![epoch] = Append(@, event)]
  BY DEF WorkerTypes, Post
<1>2. Append(mail[epoch], event) = <<event>> /\ <<event>> \in Seq(Events)
  BY DEF WorkerTypes
<1> QED BY <1>1, <1>2

LEMMA LoadKeepsMachine ==
  ASSUME MInv, WorkerLoads
  PROVE  MInv'
<1>1. /\ wasm = "loading" /\ armed = {} /\ mail[epoch] = <<>>
      /\ IF active = NoRequest THEN Still ELSE AtWorker
      /\ active # NoRequest => active.stage = "initial"
  BY DEF WorkerLoads, MInv, Flow, Still, AtWorker, Answered, Quiet, Keeps
<1>2. UNCHANGED <<schedulerVars, retained, cache>>
  BY DEF WorkerLoads
<1>3. SchedulerTypes' /\ ActiveIsDescribed' /\ PendingHasToWait' /\ ScoresAreOwn'
  BY <1>2 DEF schedulerVars, MInv, SchedulerTypes, ActiveIsDescribed, PendingHasToWait,
              ScoresAreOwn
<1>4. CASE wasm' \in {"ready", "rejected"} /\ UNCHANGED mail
  <2>1. WorkerTypes'
    BY <1>2, <1>4 DEF MInv, WorkerTypes, schedulerVars
  <2>2. Flow'
    BY <1>1, <1>2, <1>4 DEF Flow, Still, AtWorker, schedulerVars, Keeps
  <2> QED BY <1>3, <2>1, <2>2 DEF MInv
<1>5. CASE wasm' = "dead" /\ Post(ScriptFailure)
  <2>1. mail' \in Seq(Seq(Events)) /\ Len(mail') = epoch /\ mail'[epoch] = <<ScriptFailure>>
    BY <1>1, <1>5, Posted DEF Events, MInv
  <2>2. WorkerTypes'
    BY <1>2, <1>5, <2>1 DEF MInv, WorkerTypes, schedulerVars
  <2>3. Flow'
    BY <1>1, <1>2, <1>5, <2>1 DEF Flow, Dead, schedulerVars
  <2> QED BY <1>3, <2>2, <2>3 DEF MInv
<1> QED BY <1>4, <1>5 DEF WorkerLoads

\* The scores the worker hands out are of the dataset the request names.
LEMMA CachedScoreIsOwn ==
  ASSUME ScoresAreOwn, NEW id, NEW f
  PROVE  CachedScore(id, f) = id
BY DEF ScoresAreOwn, CachedScore, CacheLookup, CacheKept

LEMMA CacheStaysOwn ==
  ASSUME ScoresAreOwn, cache \in Caches, NEW id \in Datasets, NEW f \in Fixtures
  PROVE  /\ CacheWith(id, f) \in Caches
         /\ \A entry \in CacheWith(id, f).scored : entry.scoredIn = CacheWith(id, f).datasetId
         /\ [datasetId |-> id, scored |-> CacheKept(id)] \in Caches
         /\ \A entry \in CacheKept(id) : entry.scoredIn = id
<1>1. /\ CacheKept(id) \in SUBSET [fixtureName: Fixtures, scoredIn: Datasets]
      /\ \A entry \in CacheKept(id) : entry.scoredIn = id
  BY DEF CacheKept, Caches, ScoresAreOwn
<1>2. CacheWith(id, f) = [datasetId |-> id,
                          scored |-> CacheKept(id) \cup {[fixtureName |-> f, scoredIn |-> id]}]
  BY CachedScoreIsOwn DEF CacheWith
<1> QED BY <1>1, <1>2 DEF Caches

\* Both kinds of answer are for the request they were made from.
LEMMA ReplyTypes ==
  ASSUME NEW request \in Requests, NEW phase \in Phases, NEW used \in Efforts \cup {"fast"},
         NEW final \in BOOLEAN, NEW score \in Datasets
  PROVE  /\ ErrorReply(request, phase) = Message(ErrorReply(request, phase).response)
         /\ ErrorReply(request, phase).response \in ErrorReplies
         /\ Matches(request, ErrorReply(request, phase).response)
         /\ LayoutReply(request, used, phase, final, score)
              = Message(LayoutReply(request, used, phase, final, score).response)
         /\ LayoutReply(request, used, phase, final, score).response \in LayoutReplies
         /\ Matches(request, LayoutReply(request, used, phase, final, score).response)
BY DEF ErrorReply, LayoutReply, Message, Requests, ErrorReplies, LayoutReplies, Matches

LEMMA TakeKeepsMachine ==
  ASSUME MInv, WorkerTakesMessage
  PROVE  MInv'
<1> DEFINE request == active.request
           score == CachedScore(request.datasetId, request.fixtureName)
<1>1. /\ wasm \in {"ready", "rejected"} /\ active # NoRequest /\ AtWorker
      /\ inbox' = <<>> /\ armed' = {}
      /\ UNCHANGED <<active, pending, generation, armed, epoch, wasm>>
      /\ WorkerLayout \/ WorkerRefine
  <2>1. /\ wasm \in {"ready", "rejected"} /\ inbox # <<>> /\ inbox' = Tail(inbox)
        /\ UNCHANGED <<active, pending, generation, armed, epoch, wasm>>
        /\ WorkerLayout \/ WorkerRefine
    BY DEF WorkerTakesMessage
  <2>2. active # NoRequest /\ AtWorker
    BY <2>1 DEF MInv, Flow, Still, Answered, Quiet
  <2>3. armed = {} /\ inbox' = <<>>
    BY <2>1, <2>2 DEF AtWorker
  <2> QED BY <2>1, <2>2, <2>3
<1>2. /\ Head(inbox).request = request
      /\ Head(inbox).type = "layout" => active.stage = "initial"
      /\ Head(inbox).type = "refine" => active.stage = "refining" /\ Keeps(request)
  BY <1>1 DEF AtWorker, LayoutMessage, RefineMessage
<1>3. /\ active \in ActiveRequests /\ request \in Requests
      /\ request.datasetId \in Datasets /\ request.fixtureName \in Fixtures
      /\ request.effort \in Efforts
      /\ active.large = IsLarge(request) /\ active.needsRefinement = NeedsRefinement(request)
      /\ WorkerTypes /\ ScoresAreOwn /\ mail[epoch] = <<>>
  BY <1>1 DEF MInv, SchedulerTypes, ActiveRequests, Requests, ActiveIsDescribed, AtWorker
<1>4. score = request.datasetId
  BY <1>3, CachedScoreIsOwn
<1>5. SchedulerTypes' /\ ActiveIsDescribed' /\ PendingHasToWait'
  BY <1>1 DEF MInv, SchedulerTypes, ActiveIsDescribed, PendingHasToWait, IsLarge, NeedsRefinement
\* Whatever is posted, it is enough that the scheduler takes it.
<1>6. ASSUME NEW reply \in Replies, Post(Message(reply)),
             retained' \in Retentions \cup {Nothing}, cache' \in Caches, ScoresAreOwn',
             Answers(reply)'
      PROVE  MInv'
  <2>1. Message(reply) \in Events
    BY DEF Message, Events
  <2>2. /\ mail' \in Seq(Seq(Events)) /\ Len(mail') = epoch
        /\ mail'[epoch] = <<Message(reply)>>
    BY <1>3, <1>6, <2>1, Posted
  <2>3. WorkerTypes'
    BY <1>1, <1>3, <1>6, <2>2 DEF WorkerTypes
  <2>4. Answered'
    <3>1. Message(reply).response = reply
      BY DEF Message
    <3>2. DOMAIN mail'[epoch] = 1..1 /\ mail'[epoch][1] = Message(reply)
      BY <2>2
    <3> QED BY <1>1, <1>6, <2>2, <3>1, <3>2 DEF Answered
  <2>5. Flow'
    BY <1>1, <2>4 DEF Flow
  <2> QED BY <1>5, <1>6, <2>3, <2>5 DEF MInv
<1>7. ASSUME NEW phase \in Phases, Post(ErrorReply(request, phase)),
             retained' = Nothing, cache' \in Caches, ScoresAreOwn'
      PROVE  MInv'
  <2>. PICK reply : reply = ErrorReply(request, phase).response
    OBVIOUS
  <2>1. /\ ErrorReply(request, phase) = Message(reply)
        /\ reply \in ErrorReplies /\ Matches(request, reply)
    BY <1>3, ReplyTypes
  <2>2. reply \in Replies /\ reply.error = TRUE
    BY <2>1 DEF Replies, ErrorReplies
  <2>3. Answers(reply)'
    BY <1>1, <2>1, <2>2 DEF Answers, Matches
  <2> QED BY <1>6, <1>7, <2>1, <2>2, <2>3
<1>8. ASSUME NEW used \in Efforts \cup {"fast"}, NEW phase \in Phases, NEW final \in BOOLEAN,
             NEW scored, scored = request.datasetId,
             Post(LayoutReply(request, used, phase, final, scored)),
             retained' \in Retentions \cup {Nothing}, cache' \in Caches, ScoresAreOwn',
             IF final THEN used = request.effort ELSE Keeps(request)',
             \/ active.stage = "refining" /\ phase = "final" /\ final
             \/ active.stage = "initial" /\ active.needsRefinement /\ phase = "fast" /\ ~final
             \/ /\ active.stage = "initial" /\ ~active.needsRefinement
                /\ phase = (IF active.large THEN "fast" ELSE "direct") /\ final
      PROVE  MInv'
  <2>. PICK reply : reply = LayoutReply(request, used, phase, final, scored).response
    OBVIOUS
  <2>1. /\ LayoutReply(request, used, phase, final, scored) = Message(reply)
        /\ reply \in LayoutReplies /\ Matches(request, reply)
    BY <1>3, <1>8, ReplyTypes
  <2>2. reply \in Replies
    BY <2>1 DEF Replies
  <2>3. /\ reply.phase = phase /\ reply.final = final /\ reply.effort = used
        /\ reply.requestedEffort = request.effort /\ reply.scoredIn = scored
    BY DEF LayoutReply
  <2>4. ExpectedResponse(active, reply)
    BY <1>8, <2>3 DEF ExpectedResponse
  <2>5. Answers(reply)'
    BY <1>1, <1>8, <2>1, <2>3, <2>4 DEF Answers, Matches, ExpectedResponse
  <2> QED BY <1>6, <1>8, <2>1, <2>2, <2>5
<1>9. CASE WorkerLayout
  <2>1. /\ active.stage = "initial" /\ InitialPhase(request) \in Phases
        /\ InitialPhase(request) = (IF active.large THEN "fast" ELSE "direct")
    BY <1>2, <1>3, <1>9 DEF WorkerLayout, InitialPhase, Phases
  <2>2. /\ CacheWith(request.datasetId, request.fixtureName) \in Caches
        /\ \A entry \in CacheWith(request.datasetId, request.fixtureName).scored :
             entry.scoredIn = CacheWith(request.datasetId, request.fixtureName).datasetId
        /\ [datasetId |-> request.datasetId, scored |-> CacheKept(request.datasetId)] \in Caches
        /\ \A entry \in CacheKept(request.datasetId) : entry.scoredIn = request.datasetId
    BY <1>3, CacheStaysOwn DEF WorkerTypes
  <2>3. /\ cache' \in Caches /\ ScoresAreOwn'
    BY <1>2, <1>3, <1>9, <2>2 DEF WorkerLayout, WorkerTypes, ScoresAreOwn
  <2>4. CASE retained' = Nothing /\ Post(ErrorReply(request, InitialPhase(request)))
    BY <1>7, <2>1, <2>3, <2>4
  <2>5. CASE /\ wasm = "ready"
             /\ retained' = RetainedAfter(request, score)
             /\ Post(LayoutReply(request, InitialEffort(request), InitialPhase(request),
                                 ~NeedsRefinement(request), score))
    <3>1. /\ InitialEffort(request) \in Efforts \cup {"fast"}
          /\ NeedsRefinement(request) \in BOOLEAN
          /\ NeedsRefinement(request) => active.large
          /\ ~NeedsRefinement(request) => InitialEffort(request) = request.effort
      BY <1>3 DEF InitialEffort, NeedsRefinement
    <3>2. /\ retained' \in Retentions \cup {Nothing}
          /\ NeedsRefinement(request) => Keeps(request)'
      BY <1>1, <1>3, <1>4, <2>5 DEF RetainedAfter, Retentions, Keeps, WorkerTypes
    <3> HIDE DEF score
    <3> QED BY <1>3, <1>4, <1>8, <2>1, <2>3, <2>5, <3>1, <3>2
  <2> QED BY <1>2, <1>9, <2>4, <2>5 DEF WorkerLayout
<1>10. CASE WorkerRefine
  <2>1. /\ active.stage = "refining" /\ wasm = "ready"
        /\ retained = [request |-> request, scoredIn |-> request.datasetId]
    BY <1>2, <1>10 DEF WorkerRefine, Keeps
  <2>2. RetainedFor(request)
    BY <2>1, <1>3, NothingAssumption DEF RetainedFor, Retentions
  <2>3. cache' \in Caches /\ ScoresAreOwn'
    BY <1>3, <1>10 DEF WorkerRefine, WorkerTypes, ScoresAreOwn
  <2>4. CASE retained' = Nothing /\ Post(ErrorReply(request, "final"))
    BY <1>7, <2>3, <2>4 DEF Phases
  <2>5. CASE /\ retained' = Nothing
             /\ Post(LayoutReply(request, request.effort, "final", TRUE, retained.scoredIn))
    BY <1>3, <1>8, <2>1, <2>3, <2>5 DEF Phases
  <2> QED BY <1>2, <1>10, <2>1, <2>2, <2>4, <2>5 DEF WorkerRefine
<1> QED BY <1>1, <1>9, <1>10

-----------------------------------------------------------------------------
(* Events that reach the page.                                             *)

\* The active request is finished by an answer or by a failure of the worker.
LEMMA FinishKeepsMachine ==
  ASSUME MInv, active # NoRequest, ClearRefineTimer, DispatchPending,
         WorkerTypes', ScoresAreOwn', wasm' = wasm, epoch' = epoch,
         mail'[epoch] = <<>>, inbox = <<>> \/ wasm = "dead"
  PROVE  MInv'
<1>1. armed' = {}
  BY TimerIsCleared DEF MInv
<1>2. CASE pending = NoSubmission
  <2>1. /\ active' = NoRequest /\ pending' = NoSubmission
        /\ generation' = generation /\ inbox' = inbox
    BY <1>2 DEF DispatchPending
  <2>2. SchedulerTypes' /\ ActiveIsDescribed' /\ PendingHasToWait'
    BY <2>1 DEF MInv, SchedulerTypes, ActiveIsDescribed, PendingHasToWait
  <2>3. Flow'
    BY <1>1, <2>1 DEF Flow, Dead, Still
  <2> QED BY <2>2, <2>3 DEF MInv
<1>3. CASE pending # NoSubmission
  <2>1. pending \in Submissions /\ pending' = NoSubmission /\ Dispatch(pending, inbox)
    BY <1>3 DEF MInv, SchedulerTypes, DispatchPending
  <2> QED BY <1>1, <2>1, DispatchKeepsMachine DEF MInv
<1> QED BY <1>2, <1>3

LEMMA MailIsTaken ==
  ASSUME WorkerTypes, NEW e \in 1..epoch, mail[e] # <<>>,
         mail' = [mail EXCEPT ![e] = Tail(@)], UNCHANGED <<epoch, wasm, retained, cache>>
  PROVE  /\ WorkerTypes' /\ (ScoresAreOwn => ScoresAreOwn')
         /\ mail'[epoch] = IF e = epoch THEN Tail(mail[epoch]) ELSE mail[epoch]
<1>1. /\ mail \in Seq(Seq(Events)) /\ Len(mail) = epoch /\ epoch \in 1..Len(mail)
      /\ mail[e] \in Seq(Events)
  BY DEF WorkerTypes
<1>2. Tail(mail[e]) \in Seq(Events)
  BY <1>1
<1>3. mail' \in Seq(Seq(Events)) /\ Len(mail') = Len(mail)
  BY <1>1, <1>2
<1> QED BY <1>1, <1>3 DEF WorkerTypes, ScoresAreOwn

\* The event of the current worker is the answer the scheduler waits for, or
\* the failure of a script that did not load.
LEMMA EventIsAwaited ==
  ASSUME MInv, mail[epoch] # <<>>
  PROVE  /\ Tail(mail[epoch]) = <<>>
         /\ \/ wasm = "dead" /\ Head(mail[epoch]) = ScriptFailure
            \/ /\ active # NoRequest /\ active \in ActiveRequests
               /\ wasm # "dead" /\ wasm # "loading" /\ inbox = <<>> /\ armed = {}
               /\ \E response \in Replies :
                    Head(mail[epoch]) = Message(response) /\ Answers(response)
<1>1. CASE wasm = "dead"
  <2>1. mail[epoch] = <<ScriptFailure>>
    BY <1>1 DEF MInv, Flow, Dead
  <2>2. Head(<<ScriptFailure>>) = ScriptFailure /\ Tail(<<ScriptFailure>>) = <<>>
    OBVIOUS
  <2> QED BY <1>1, <2>1, <2>2
<1>2. CASE wasm # "dead"
  <2>1. active # NoRequest /\ Answered
    BY <1>2 DEF MInv, Flow, Still, AtWorker, Quiet
  <2>2. PICK event : /\ mail[epoch] = <<event>> /\ event = Message(event.response)
                     /\ event.response \in Replies /\ Answers(event.response)
    BY <2>1 DEF Answered
  <2>3. Head(mail[epoch]) = event /\ Tail(mail[epoch]) = <<>>
    BY <2>2
  <2> QED BY <1>2, <2>1, <2>2, <2>3 DEF Answered, MInv, SchedulerTypes
<1> QED BY <1>1, <1>2

\* What an event does to scheduler and canvas.
Ignored == active = NoRequest /\ UNCHANGED <<schedulerVars, display, status>>

Ended ==
  /\ active # NoRequest
  /\ ClearRefineTimer /\ DispatchPending
  /\ UNCHANGED epoch
  /\ ShowError

Shown(response) ==
  /\ active # NoRequest
  /\ response \in LayoutReplies /\ Answers(response)
  /\ ReceiveFast(response) \/ ReceiveFinal(response)
  /\ DisplayLayout(response)

LEMMA EventIsHandled ==
  ASSUME MInv, mail[epoch] # <<>>, HandleEvent(Head(mail[epoch]))
  PROVE  \/ wasm = "dead" /\ (Ignored \/ Ended)
         \/ wasm # "dead" /\ inbox = <<>> /\ (Ended \/ \E response \in Replies : Shown(response))
<1>1. CASE wasm = "dead"
  <2>1. Head(mail[epoch]).type = "error"
    BY <1>1, EventIsAwaited DEF ScriptFailure
  <2>2. HandleFailure
    BY <2>1 DEF HandleEvent
  <2> QED BY <1>1, <2>2 DEF HandleFailure, WorkerFailed, Ignored, Ended
<1>2. CASE wasm # "dead"
  <2>1. PICK response \in Replies : Head(mail[epoch]) = Message(response) /\ Answers(response)
    BY <1>2, EventIsAwaited
  <2>2. /\ active # NoRequest /\ inbox = <<>> /\ HandleResponse(response)
        /\ response.error \in BOOLEAN /\ (~response.error => response \in LayoutReplies)
    <3>1. active # NoRequest /\ inbox = <<>>
      BY <1>2, EventIsAwaited
    <3>2. Head(mail[epoch]).type = "message" /\ Head(mail[epoch]).response = response
      BY <2>1 DEF Message
    <3>3. HandleResponse(response)
      BY <3>2 DEF HandleEvent
    <3>4. response.error \in BOOLEAN /\ (~response.error => response \in LayoutReplies)
      BY DEF Replies, LayoutReplies, ErrorReplies
    <3> QED BY <3>1, <3>3, <3>4
  <2>3. Addressed(response) /\ (response.error \/ Accepted(response))
    BY <2>1, <2>2 DEF Addressed, Accepted, Answers
  <2>4. CASE ReceiveError(response) /\ ShowError
    BY <1>2, <2>2, <2>4 DEF ReceiveError, Ended
  <2>5. CASE Accepted(response) /\ Receive(response) /\ DisplayLayout(response)
    <3>1. ReceiveFast(response) \/ ReceiveFinal(response)
      BY <2>5 DEF Receive, ReceiveError, Accepted
    <3>2. Shown(response)
      BY <2>1, <2>2, <2>5, <3>1 DEF Shown, Accepted
    <3> QED BY <1>2, <2>2, <3>2
  <2> QED BY <2>2, <2>3, <2>4, <2>5 DEF HandleResponse
<1> QED BY <1>1, <1>2

LEMMA DeliverKeepsMachine ==
  ASSUME MInv, NEW e \in 1..epoch, DeliverEvent(e)
  PROVE  MInv'
<1>1. /\ mail[e] # <<>> /\ mail' = [mail EXCEPT ![e] = Tail(@)]
      /\ UNCHANGED <<wasm, retained, cache>>
  BY DEF DeliverEvent, workerVars
<1>2. CASE e # epoch
  <2>1. UNCHANGED schedulerVars
    BY <1>2 DEF DeliverEvent
  <2>2. WorkerTypes' /\ ScoresAreOwn' /\ mail'[epoch] = mail[epoch]
    BY <1>1, <1>2, <2>1, MailIsTaken DEF MInv, schedulerVars
  <2>3. SchedulerTypes' /\ ActiveIsDescribed' /\ PendingHasToWait'
    BY <2>1 DEF MInv, SchedulerTypes, ActiveIsDescribed, PendingHasToWait, schedulerVars
  <2>4. Flow'
    <3>1. /\ Dead => Dead'
          /\ Still => Still'
          /\ AtWorker => AtWorker'
          /\ Quiet => Quiet'
      BY <1>1, <2>1, <2>2 DEF schedulerVars, Dead, Still, AtWorker, Quiet, Keeps
    <3>2. ASSUME Answered PROVE Answered'
      <4>1. PICK event : /\ mail[epoch] = <<event>> /\ event = Message(event.response)
                         /\ event.response \in Replies /\ Answers(event.response)
        BY <3>2 DEF Answered
      <4>2. PICK response : response = event.response
        OBVIOUS
      <4>3. event = Message(response) /\ response \in Replies
        BY <4>1, <4>2
      <4>4. Answers(response)'
        BY <1>1, <2>1, <4>1, <4>2 DEF schedulerVars, Answers, Keeps, ExpectedResponse
      <4>5. /\ mail'[epoch'] = <<Message(response)>> /\ Message(response).response = response
            /\ DOMAIN mail'[epoch'] = 1..1 /\ mail'[epoch'][1] = Message(response)
        BY <2>1, <2>2, <4>1, <4>3 DEF schedulerVars, Message
      <4>6. inbox' = <<>> /\ armed' = {} /\ wasm' # "loading"
        BY <1>1, <2>1, <3>2 DEF schedulerVars, Answered
      <4> QED BY <4>3, <4>4, <4>5, <4>6 DEF Answered
    <3> QED BY <1>1, <2>1, <3>1, <3>2 DEF MInv, schedulerVars, Flow
  <2> QED BY <2>2, <2>3, <2>4 DEF MInv
<1>3. CASE e = epoch
  <2>1. HandleEvent(Head(mail[epoch])) /\ mail[epoch] # <<>> /\ Tail(mail[epoch]) = <<>>
    BY <1>1, <1>3, EventIsAwaited DEF DeliverEvent
  <2>2. ASSUME epoch' = epoch
        PROVE  WorkerTypes' /\ ScoresAreOwn' /\ mail'[epoch] = <<>>
    BY <1>1, <1>3, <2>1, <2>2, MailIsTaken DEF MInv
  <2>3. CASE wasm = "dead" /\ Ignored
    <3>1. UNCHANGED schedulerVars /\ epoch' = epoch
      BY <2>3 DEF Ignored, schedulerVars
    <3>2. SchedulerTypes' /\ ActiveIsDescribed' /\ PendingHasToWait'
      BY <3>1 DEF MInv, SchedulerTypes, ActiveIsDescribed, PendingHasToWait, schedulerVars
    <3>3. Flow'
      BY <1>1, <2>2, <2>3, <3>1 DEF MInv, Flow, Dead, schedulerVars
    <3> QED BY <2>2, <3>1, <3>2, <3>3 DEF MInv
  <2>4. CASE (wasm = "dead" \/ inbox = <<>>) /\ Ended
    <3>1. epoch' = epoch
      BY <2>4 DEF Ended
    <3> QED BY <1>1, <2>2, <2>4, <3>1, FinishKeepsMachine DEF Ended
  <2>5. ASSUME wasm # "dead", inbox = <<>>, NEW response \in Replies, Shown(response)
        PROVE  MInv'
    <3>1. CASE ReceiveFinal(response)
      <4>1. /\ active # NoRequest /\ ClearRefineTimer /\ DispatchPending /\ epoch' = epoch
        BY <2>5, <3>1 DEF Shown, ReceiveFinal
      <4> QED BY <1>1, <2>2, <2>5, <4>1, FinishKeepsMachine
    <3>2. CASE ReceiveFast(response)
      <4>1. /\ active # NoRequest /\ active \in ActiveRequests /\ armed = {}
            /\ Keeps(active.request)
        BY <2>1, <2>5, <3>2, EventIsAwaited
           DEF Shown, ReceiveFast, Answers, LayoutReplies
      <4>2. /\ active' = [active EXCEPT !.stage = "waiting-to-refine"]
            /\ refineTimer' = active.request.generation
            /\ armed' = {active.request.generation}
            /\ UNCHANGED <<pending, generation, inbox, epoch>>
        BY <3>2, <4>1 DEF ReceiveFast
      <4>3. /\ active' \in ActiveRequests /\ active' # NoRequest
            /\ active'.request = active.request /\ active'.stage = "waiting-to-refine"
            /\ active'.large = active.large
            /\ active'.needsRefinement = active.needsRefinement
        BY <4>1, <4>2, NullsAssumption DEF ActiveRequests, Stages
      <4>4. SchedulerTypes' /\ PendingHasToWait' /\ ActiveIsDescribed'
        BY <4>1, <4>2, <4>3 DEF MInv, SchedulerTypes, PendingHasToWait, ActiveIsDescribed,
                                IsLarge, NeedsRefinement
      <4>5. Quiet'
        BY <1>1, <2>2, <2>5, <4>1, <4>2, <4>3 DEF Quiet, Keeps
      <4>6. Flow'
        BY <1>1, <2>5, <4>3, <4>5 DEF Flow
      <4> QED BY <2>2, <4>2, <4>4, <4>6 DEF MInv
    <3> QED BY <2>5, <3>1, <3>2 DEF Shown
  <2> QED BY <2>1, <2>3, <2>4, <2>5, EventIsHandled
<1> QED BY <1>2, <1>3
-----------------------------------------------------------------------------
(* The page.                                                               *)

\* Cancelling a large layout leaves a new worker with nothing to do; a small
\* one goes on.
LEMMA ScheduleKeepsMachine ==
  ASSUME MInv, ScheduleLayout
  PROVE  /\ MInv'
         /\ layoutDirty' = TRUE /\ debounce' = TRUE
         /\ status' \in {"finishing current", "queued"}
<1>1. CASE SupersedeActiveLarge
  BY <1>1, SupersedeKeepsMachine DEF ScheduleLayout
<1>2. CASE ~ActiveLarge /\ UNCHANGED schedulerVars
  <2>1. UNCHANGED <<schedulerVars, workerVars, mail>>
    BY <1>2 DEF ScheduleLayout, FollowRestart, schedulerVars
  <2>2. MInv'
    BY <2>1, UnchangedKeepsMachine
  <2> QED BY <2>2 DEF ScheduleLayout
<1> QED BY <1>1, <1>2 DEF ScheduleLayout

\* What is dispatched for the selection covers it.
LEMMA DispatchedCovers ==
  ASSUME generation \in Nat, NEW submission \in Submissions, Covers(submission),
         NEW box, Dispatch(submission, box), UNCHANGED <<datasetId, current, effort>>
  PROVE  active' # NoRequest /\ Covers(active.request)' /\ generation' # generation
BY Dispatched DEF Covers

\* A change of the selection marks the layout dirty and arms the timer.
LEMMA InputKeepsPage ==
  ASSUME IInv,
         \/ \E e \in Efforts : ChangeOptions(e)
         \/ \E f \in Fixtures : SelectFixture(f)
         \/ \E f \in Fixtures : InitializeData(f)
         \/ RejectData
  PROVE  IInv' /\ display' \in {display, Nothing} /\ RestsOnNewest
<1>1. ASSUME NEW e \in Efforts, ChangeOptions(e)
      PROVE  IInv' /\ display' \in {display, Nothing} /\ RestsOnNewest
  <2>1. /\ MInv' /\ layoutDirty' = TRUE /\ debounce' = TRUE
        /\ status' \in {"finishing current", "queued"}
    BY <1>1, ScheduleKeepsMachine DEF ChangeOptions, IInv
  <2>2. UNCHANGED <<datasetId, current, requestSequence, display>> /\ effort' = e
    BY <1>1 DEF ChangeOptions
  <2> QED BY <2>1, <2>2 DEF IInv, PInv, PageTypes, Newest, DisplayIsOfSelection,
                            RestsOnNewest, Idle
<1>2. ASSUME NEW f \in Fixtures, ShowFixture(f), datasetId' \in Datasets,
             UNCHANGED <<effort, requestSequence>>
      PROVE  IInv' /\ display' \in {display, Nothing} /\ RestsOnNewest
  <2>1. /\ MInv' /\ layoutDirty' = TRUE /\ debounce' = TRUE
        /\ status' \in {"finishing current", "queued"}
    BY <1>2, ScheduleKeepsMachine DEF ShowFixture, IInv
  <2>2. current' = f /\ display' = Nothing
    BY <1>2 DEF ShowFixture
  <2> QED BY <1>2, <2>1, <2>2 DEF IInv, PInv, PageTypes, Newest, DisplayIsOfSelection,
                                  RestsOnNewest, Idle
<1>3. ASSUME NEW f \in Fixtures, SelectFixture(f)
      PROVE  IInv' /\ display' \in {display, Nothing} /\ RestsOnNewest
  <2>1. /\ ShowFixture(f) /\ UNCHANGED <<datasetId, effort, requestSequence>>
        /\ datasetId \in Datasets
    BY <1>3 DEF SelectFixture, IInv, PInv, PageTypes
  <2> QED BY <1>2, <2>1
<1>4. ASSUME NEW f \in Fixtures, InitializeData(f)
      PROVE  IInv' /\ display' \in {display, Nothing} /\ RestsOnNewest
  <2>1. CASE ShowFixture(f)
    BY <1>2, <1>4, <2>1 DEF InitializeData
  <2>2. CASE /\ datasetId' \in EmptyDatasets /\ current' = Nothing
             /\ UNCHANGED <<layoutDirty, debounce, display, status>>
             /\ UNCHANGED <<schedulerVars, workerVars, mail>>
    <3>1. MInv'
      BY <2>2, UnchangedKeepsMachine DEF IInv
    <3>2. datasetId' \in Datasets /\ UNCHANGED <<effort, requestSequence>>
      BY <1>4 DEF InitializeData
    <3> QED BY <2>2, <3>1, <3>2 DEF IInv, PInv, PageTypes, Newest, DisplayIsOfSelection,
                                    RestsOnNewest
  <2> QED BY <1>4, <2>1, <2>2 DEF InitializeData
<1>5. ASSUME RejectData
      PROVE  IInv' /\ display' \in {display, Nothing} /\ RestsOnNewest
  <2>1. /\ status' = "rejected" /\ UNCHANGED <<schedulerVars, workerVars, mail>>
        /\ UNCHANGED <<datasetId, current, effort, layoutDirty, debounce, requestSequence,
                       display>>
    BY <1>5 DEF RejectData
  <2>2. MInv' /\ UNCHANGED <<active, pending>>
    BY <2>1, UnchangedKeepsMachine DEF IInv, schedulerVars
  <2> QED BY <2>1, <2>2 DEF IInv, PInv, PageTypes, Newest, Covers, DisplayIsOfSelection,
                            RestsOnNewest, Idle
<1> QED BY <1>1, <1>3, <1>4, <1>5

\* dispatchLayout submits the selection as it is when the timer fires.
LEMMA DispatchKeepsPage ==
  ASSUME IInv, DispatchLayout
  PROVE  IInv' /\ display' = display /\ RestsOnNewest
<1>1. /\ debounce' = FALSE
      /\ UNCHANGED <<datasetId, current, effort, display>>
  BY DEF DispatchLayout
<1>2. CASE layoutDirty /\ current # Nothing
  <2> DEFINE submission == [id |-> requestSequence + 1, datasetId |-> datasetId,
                            fixtureName |-> current, effort |-> effort]
  <2>1. /\ submission \in Submissions /\ Covers(submission) /\ submission # NoSubmission
        /\ requestSequence + 1 \in Nat
    <3> current # Nothing
      BY <1>2
    <3>1. /\ requestSequence \in Nat /\ current \in Fixtures \cup {Nothing}
          /\ datasetId \in Datasets /\ effort \in Efforts
      BY DEF IInv, PInv, PageTypes
    <3>2. requestSequence + 1 \in Nat /\ current \in Fixtures
      BY <3>1
    <3>3. submission \in Submissions
      BY <3>1, <3>2 DEF Submissions
    <3> QED BY <3>2, <3>3, NullsAssumption DEF Covers
  <2>2. /\ layoutDirty' = FALSE /\ requestSequence' = requestSequence + 1
        /\ Submit(submission) /\ StatusThenStarted(status) /\ FollowRestart
    BY <1>2 DEF DispatchLayout
  <2> HIDE DEF submission
  <2>3. MInv' /\ generation \in Nat
    BY <2>1, <2>2, SubmitKeepsMachine DEF IInv, MInv, SchedulerTypes
  <2>4. PageTypes'
    BY <1>1, <2>1, <2>2 DEF IInv, PInv, PageTypes, StatusThenStarted
  <2>5. Newest' /\ active' # NoRequest
    <3>1. CASE active # NoRequest /\ ~ActiveLarge
      <4>1. pending' = submission /\ active' = active
        BY <2>2, <3>1 DEF Submit, ActiveLarge
      <4> QED BY <1>1, <2>1, <2>2, <3>1, <4>1 DEF Newest, Covers
    <3>2. CASE ActiveLarge \/ active = NoRequest
      <4>1. PICK box : pending' = NoSubmission /\ Dispatch(submission, box)
        BY <2>2, <3>2 DEF Submit, ActiveLarge, IInv, MInv, PendingHasToWait
      <4>2. active' # NoRequest /\ Covers(active.request)'
        BY <1>1, <2>1, <2>3, <4>1, DispatchedCovers
      <4> QED BY <1>1, <2>2, <4>1, <4>2 DEF Newest
    <3> QED BY <3>1, <3>2
  <2> QED BY <1>1, <2>3, <2>4, <2>5 DEF IInv, PInv, DisplayIsOfSelection, RestsOnNewest, Idle
<1>3. CASE ~(layoutDirty /\ current # Nothing)
  <2>1. UNCHANGED <<layoutDirty, requestSequence, status, schedulerVars, workerVars, mail>>
    BY <1>3 DEF DispatchLayout
  <2>2. MInv'
    BY <2>1, UnchangedKeepsMachine DEF IInv
  <2>3. PInv'
    BY <1>1, <1>3, <2>1 DEF IInv, PInv, PageTypes, Newest, Covers, Settled, NewestIsShown, Selection,
                            DisplayIsOfSelection, schedulerVars
  <2>4. RestsOnNewest
    BY <1>1, <1>3 DEF DispatchLayout, IInv, PInv, Newest, RestsOnNewest
  <2> QED BY <1>1, <2>2, <2>3, <2>4 DEF IInv
<1> QED BY <1>2, <1>3

\* An answer that is displayed is for the selection; one that is not has a
\* newer request behind it.
LEMMA EventKeepsPage ==
  ASSUME IInv, mail[epoch] # <<>>, HandleEvent(Head(mail[epoch])),
         UNCHANGED <<datasetId, current, effort, layoutDirty, debounce, requestSequence>>
  PROVE  /\ PInv' /\ RestsOnNewest
         /\ display' # display =>
              /\ current # Nothing /\ display' \in Displays /\ display'.of = Selection
<1> DEFINE Follows == display' # display =>
             current # Nothing /\ display' \in Displays /\ display'.of = Selection
<1>1. CASE Ignored
  BY <1>1 DEF Ignored, IInv, PInv, PageTypes, Newest, Covers, Settled, NewestIsShown, Selection,
              DisplayIsOfSelection, schedulerVars, RestsOnNewest, Idle
\* What becomes of the submission that waits when the active request is finished.
<1>2. ASSUME DispatchPending
      PROVE  IF pending # NoSubmission
             THEN /\ pending' = NoSubmission /\ active' # NoRequest /\ generation' # generation
                  /\ Covers(pending) => Covers(active.request)'
             ELSE pending' = NoSubmission /\ active' = NoRequest /\ generation' = generation
  <2>1. CASE pending # NoSubmission
    <3>1. pending \in Submissions /\ Dispatch(pending, inbox) /\ pending' = NoSubmission
          /\ generation \in Nat
      BY <1>2, <2>1 DEF DispatchPending, IInv, MInv, SchedulerTypes
    <3>2. active' # NoRequest /\ generation' # generation
      BY <3>1, Dispatched
    <3>3. Covers(pending) => Covers(active.request)'
      BY <3>1, DispatchedCovers
    <3> QED BY <2>1, <3>1, <3>2, <3>3
  <2> QED BY <1>2, <2>1 DEF DispatchPending
<1>3. CASE Ended
  <2>1. /\ DispatchPending /\ display' = display
        /\ StatusThenStarted(IF layoutDirty THEN status ELSE "failed")
    BY <1>3 DEF Ended, ShowError
  <2>2. PageTypes' /\ DisplayIsOfSelection'
    BY <2>1 DEF IInv, PInv, PageTypes, DisplayIsOfSelection, StatusThenStarted
  <2>3. Newest'
    BY <1>2, <2>1 DEF IInv, PInv, Newest, Settled, StatusThenStarted
  <2>4. RestsOnNewest
    BY <1>2, <1>3, <2>1 DEF Ended, IInv, PInv, Newest, RestsOnNewest, Idle, StatusThenStarted
  <2> QED BY <2>1, <2>2, <2>3, <2>4 DEF PInv
<1>4. ASSUME NEW response \in Replies, Shown(response)
      PROVE  PInv' /\ RestsOnNewest /\ Follows
  <2>1. /\ active # NoRequest /\ response \in LayoutReplies /\ Matches(active.request, response)
        /\ response.requestedEffort = active.request.effort
        /\ response.scoredIn = active.request.datasetId
        /\ response.final => response.effort = active.request.effort
        /\ ExpectedResponse(active, response)
    BY <1>4 DEF Shown, Answers, LayoutReplies
  <2>2. \/ /\ ReceiveFast(response)
           /\ active' # NoRequest /\ active'.request = active.request
           /\ pending' = pending /\ generation' = generation
        \/ ReceiveFinal(response) /\ DispatchPending /\ response.final
    <3>1. active \in ActiveRequests
      BY <2>1 DEF IInv, MInv, SchedulerTypes
    <3>2. CASE ReceiveFast(response)
      BY <3>1, <3>2, NullsAssumption DEF ReceiveFast, ActiveRequests, Stages
    <3>3. CASE ReceiveFinal(response)
      BY <2>1, <3>3 DEF ReceiveFinal, ExpectedResponse
    <3> QED BY <1>4, <3>2, <3>3 DEF Shown
  <2>3. CASE Superseded(response)
    <3>1. display' = display /\ StatusThenStarted(status)
      BY <1>4, <2>3 DEF Shown, DisplayLayout
    <3>2. ~layoutDirty /\ current # Nothing => pending # NoSubmission /\ Covers(pending)
      BY <2>1, <2>3 DEF Superseded, Matches, IInv, PInv, Newest, Covers
    <3>3. Newest'
      BY <1>2, <2>2, <3>2 DEF IInv, PInv, Newest, Covers
    <3>4. PageTypes' /\ DisplayIsOfSelection'
      BY <3>1 DEF IInv, PInv, PageTypes, DisplayIsOfSelection, StatusThenStarted
    <3>5. RestsOnNewest
      BY <1>2, <2>1, <2>2, <3>2 DEF IInv, PInv, Newest, RestsOnNewest, Idle
    <3> QED BY <3>1, <3>3, <3>4, <3>5 DEF PInv
  <2>4. CASE ~Superseded(response)
    <3>1. /\ ~layoutDirty /\ pending = NoSubmission /\ current # Nothing
          /\ response.datasetId = datasetId /\ response.fixtureName = current
      BY <2>1, <2>4, NothingAssumption DEF Superseded, LayoutReplies
    <3>2. Covers(active.request)
      BY <2>1, <3>1 DEF IInv, PInv, Newest
    <3>3. /\ display' = [of |-> Selection, effort |-> response.effort,
                         final |-> response.final, scoredIn |-> response.scoredIn]
          /\ StatusThenStarted(IF response.final THEN "final" ELSE "refining")
      BY <1>4, <2>1, <2>4, <3>1, <3>2 DEF Shown, DisplayLayout, Covers, Selection
    <3>4. display' \in Displays /\ display' # Nothing /\ display'.of = Selection
      <4>1. Selection \in Selections
        BY <3>1 DEF IInv, PInv, PageTypes, Selection, Selections
      <4> QED BY <2>1, <3>3, <4>1, NothingAssumption DEF Displays, LayoutReplies
    <3>5. DisplayIsOfSelection'
      BY <2>1, <3>2, <3>3 DEF DisplayIsOfSelection, Selection, Covers
    <3>6. PageTypes'
      BY <3>3, <3>4 DEF IInv, PInv, PageTypes, StatusThenStarted
    <3>7. Newest' /\ RestsOnNewest
      <4>1. CASE ReceiveFast(response)
        <5>1. active' # NoRequest /\ active'.request = active.request /\ pending' = pending
          BY <2>1, <2>2, <4>1 DEF ReceiveFast, ReceiveFinal
        <5> QED BY <3>1, <3>2, <5>1 DEF IInv, PInv, Newest, Covers, RestsOnNewest, Idle
      <4>2. CASE DispatchPending /\ response.final
        <5>1. /\ pending' = NoSubmission /\ active' = NoRequest /\ status' = "final"
          BY <1>2, <3>1, <3>3, <4>2 DEF StatusThenStarted
        <5>2. NewestIsShown'
          BY <2>1, <3>2, <3>3, <3>4, <4>2, <5>1 DEF NewestIsShown, Selection, Covers
        <5> QED BY <2>1, <3>1, <5>1, <5>2
                DEF IInv, PInv, Newest, Settled, RestsOnNewest, Idle
      <4> QED BY <2>2, <4>1, <4>2
    <3> QED BY <3>1, <3>4, <3>5, <3>6, <3>7 DEF PInv
  <2> QED BY <2>3, <2>4
<1> QED BY <1>1, <1>3, <1>4, EventIsHandled DEF IInv
\* The steps that leave the page alone.
LEMMA PageIsKept ==
  ASSUME PInv, UNCHANGED <<datasetId, current, effort, layoutDirty, debounce, requestSequence,
                           display, status, pending>>,
         IF active = NoRequest THEN active' = NoRequest
         ELSE active' # NoRequest /\ active'.request = active.request
  PROVE  PInv' /\ RestsOnNewest
BY DEF PInv, PageTypes, Newest, Covers, Settled, NewestIsShown, Selection, DisplayIsOfSelection,
       RestsOnNewest, Idle

LEMMA DeliverKeepsPage ==
  ASSUME IInv, NEW e \in 1..epoch, DeliverEvent(e)
  PROVE  /\ IInv' /\ RestsOnNewest
         /\ display' # display =>
              /\ current # Nothing /\ display' \in Displays /\ display'.of = Selection
<1>1. MInv'
  BY DeliverKeepsMachine DEF IInv
<1>2. UNCHANGED <<datasetId, current, effort, layoutDirty, debounce, requestSequence>>
  BY DEF DeliverEvent
<1>3. CASE e # epoch
  BY <1>1, <1>2, <1>3, PageIsKept DEF DeliverEvent, schedulerVars, IInv
<1>4. CASE e = epoch
  BY <1>1, <1>2, <1>4, EventKeepsPage DEF DeliverEvent, IInv
<1> QED BY <1>3, <1>4

-----------------------------------------------------------------------------
(* The invariant is inductive, and it is more than the runs check.         *)

LEMMA InitIsConsistent == Init => IInv
<1> SUFFICES ASSUME Init PROVE IInv
  OBVIOUS
<1>1. SchedulerTypes /\ ActiveIsDescribed /\ PendingHasToWait /\ ScoresAreOwn
  BY DEF Init, SchedulerInit, SchedulerTypes, ActiveIsDescribed, PendingHasToWait,
         ScoresAreOwn, EmptyCache
<1>2. WorkerTypes /\ mail[epoch] = <<>>
  <2>1. <<<<>>>> \in Seq(Seq(Events)) /\ Len(<<<<>>>>) = 1 /\ <<<<>>>>[1] = <<>>
    OBVIOUS
  <2>2. cache \in Caches
    BY DEF Init, EmptyCache, Caches
  <2>3. mail = <<<<>>>> /\ epoch = 1 /\ wasm = "loading" /\ retained = Nothing
    BY DEF Init, SchedulerInit
  <2> QED BY <2>1, <2>2, <2>3 DEF WorkerTypes
<1>3. Flow
  BY <1>2 DEF Init, SchedulerInit, Flow, Still
<1>4. PInv
  BY DEF Init, SchedulerInit, PInv, PageTypes, Newest, DisplayIsOfSelection
<1> QED BY <1>1, <1>2, <1>3, <1>4 DEF IInv, MInv

\* Steps keep the invariant, and whatever they put on the canvas is what is
\* selected at that moment; the one that brings the page to rest leaves the
\* newest there.
LEMMA StepIsConsistent ==
  ASSUME IInv, [Next]_vars
  PROVE  /\ IInv' /\ RestsOnNewest
         /\ \/ display' \in {display, Nothing}
            \/ /\ UNCHANGED <<datasetId, current, effort>>
               /\ current # Nothing /\ display' \in Displays /\ display'.of = Selection
<1>1. CASE \/ \E e \in Efforts : ChangeOptions(e)
           \/ \E f \in Fixtures : SelectFixture(f)
           \/ \E f \in Fixtures : InitializeData(f)
           \/ RejectData
  BY <1>1, InputKeepsPage
<1>2. CASE DispatchLayout
  BY <1>2, DispatchKeepsPage
<1>3. CASE RefineTimerFires
  <2>1. PICK g \in armed : Refine(g) /\ UNCHANGED <<pageVars, workerVars, mail>>
    BY <1>3 DEF RefineTimerFires
  <2>2. MInv' /\ active # NoRequest /\ active' # NoRequest /\ active'.request = active.request
    BY <2>1, RefineKeepsMachine DEF IInv, pageVars
  <2>3. PInv' /\ RestsOnNewest
    BY <2>1, <2>2, PageIsKept DEF IInv, pageVars, Refine
  <2> QED BY <2>1, <2>2, <2>3 DEF IInv, pageVars
<1>4. ASSUME NEW e \in 1..epoch, DeliverEvent(e)
      PROVE  /\ IInv' /\ RestsOnNewest /\ UNCHANGED <<datasetId, current, effort>>
             /\ display' # display =>
                  /\ current # Nothing /\ display' \in Displays /\ display'.of = Selection
  <2>1. UNCHANGED <<datasetId, current, effort>>
    BY <1>4 DEF DeliverEvent
  <2> QED BY <1>4, <2>1, DeliverKeepsPage
<1>5. CASE WorkerLoads
  <2>1. MInv' /\ UNCHANGED <<schedulerVars, pageVars>>
    BY <1>5, LoadKeepsMachine DEF WorkerLoads, IInv
  <2> QED BY <2>1, PageIsKept DEF IInv, schedulerVars, pageVars
<1>6. CASE WorkerTakesMessage
  <2>1. MInv' /\ UNCHANGED <<active, pending, pageVars>>
    BY <1>6, TakeKeepsMachine DEF WorkerTakesMessage, IInv
  <2> QED BY <2>1, PageIsKept DEF IInv, pageVars
<1>7. CASE UNCHANGED vars
  <2>1. UNCHANGED <<schedulerVars, pageVars, workerVars, mail>>
    BY <1>7 DEF vars
  <2>2. MInv'
    BY <2>1, UnchangedKeepsMachine DEF IInv
  <2> QED BY <2>1, <2>2, PageIsKept DEF IInv, schedulerVars, pageVars
<1>8. CASE \E e \in 1..epoch : DeliverEvent(e)
  BY <1>4, <1>8
<1> QED BY <1>1, <1>2, <1>3, <1>5, <1>6, <1>7, <1>8 DEF Next

LEMMA InvariantHolds == Spec => []IInv
<1>1. IInv /\ [Next]_vars => IInv'
  BY StepIsConsistent
<1> QED BY <1>1, InitIsConsistent, PTL DEF Spec

LEMMA CanvasFollows == IInv => DisplayIsOfSelection /\ SettledShowsNewest
BY DEF IInv, MInv, PInv, Newest, Settled, NewestIsShown, PendingHasToWait,
       SettledShowsNewest, Idle

LEMMA OneThingFlows == IInv => OneThingUnderWay
<1> SUFFICES ASSUME IInv, wasm # "dead"
             PROVE  Len(inbox) + Len(mail[epoch]) + (IF armed = {} THEN 0 ELSE 1)
                      = (IF active = NoRequest THEN 0 ELSE 1)
  BY DEF OneThingUnderWay
<1>1. CASE active = NoRequest
  <2>1. inbox = <<>> /\ mail[epoch] = <<>> /\ armed = {}
    BY <1>1 DEF IInv, MInv, Flow, Still
  <2> QED BY <1>1, <2>1
<1>2. CASE active # NoRequest /\ AtWorker
  <2>1. /\ mail[epoch] = <<>> /\ armed = {}
        /\ \E message : inbox = <<message>>
    BY <1>2 DEF AtWorker
  <2> QED BY <1>2, <2>1
<1>3. CASE active # NoRequest /\ Answered
  <2>1. /\ inbox = <<>> /\ armed = {}
        /\ \E event : mail[epoch] = <<event>>
    BY <1>3 DEF Answered
  <2> QED BY <1>3, <2>1
<1>4. CASE active # NoRequest /\ Quiet
  <2>1. inbox = <<>> /\ mail[epoch] = <<>> /\ armed # {}
    BY <1>4 DEF Quiet
  <2> QED BY <1>4, <2>1
<1> QED BY <1>1, <1>2, <1>3, <1>4 DEF IInv, MInv, Flow

LEMMA RefineIsRetained == IInv => RefineFindsRetained
<1> SUFFICES ASSUME IInv, NEW i \in DOMAIN inbox, inbox[i].type = "refine", wasm = "ready"
             PROVE  RetainedFor(inbox[i].request)
  BY DEF RefineFindsRetained
<1>1. active # NoRequest /\ AtWorker
  BY DEF IInv, MInv, Flow, Still, Answered, Quiet
<1>2. inbox = <<RefineMessage(active.request)>> /\ Keeps(active.request)
  BY <1>1 DEF AtWorker, LayoutMessage
<1>3. retained # Nothing /\ inbox[i].request = active.request
  <2>1. retained \in Retentions
    <3>1. active.request \in Requests /\ active.request.datasetId \in Datasets
      BY <1>1 DEF IInv, MInv, SchedulerTypes, ActiveRequests, Requests
    <3> QED BY <1>2, <3>1 DEF Keeps, Retentions
  <2>2. inbox[i] = RefineMessage(active.request)
    BY <1>2
  <2> QED BY <2>1, <2>2, NothingAssumption DEF RefineMessage
<1> QED BY <1>2, <1>3 DEF Keeps, RetainedFor

LEMMA NothingIsInVain == IInv => NothingAwaitedInVain
<1>1. IInv => ReviewTypeOK
  BY DEF IInv, MInv, PInv, PageTypes, WorkerTypes, ReviewTypeOK
<1> QED BY <1>1, OneThingFlows, RefineIsRetained DEF NothingAwaitedInVain

-----------------------------------------------------------------------------
(* The theorems.                                                           *)

\* However answers, timers, restarts and the user's clicks interleave, the
\* canvas never shows a drawing of another fixture or dataset than the selected
\* one, nor the ELK metrics of another dataset next to it; the step with which
\* the page comes to rest leaves the newest selection there at the effort asked
\* for, or the status line says that its layout failed; and at rest the canvas
\* stays, whatever files are rejected, until something is selected
\* (displayLayout, showFixture, scheduleLayout, loadDefaultData, DatasetCache).
THEOREM CanvasIsOfSelection == Spec => CanvasKeepsToSelection
<1>1. IInv /\ [Next]_vars => [RestsOnNewest]_vars
  BY StepIsConsistent
<1> QED BY <1>1, InvariantHolds, CanvasFollows, PTL DEF Spec, CanvasKeepsToSelection

\* An active request always has exactly one thing under way - a message the
\* worker has not read, an answer the page has not handled, or the armed timer -
\* and a refine message finds its layout retained, for any number of restarts
\* (dispatch, refine, restartWorker, onmessage).
THEOREM NobodyWaitsInVain == Spec => []NothingAwaitedInVain
BY InvariantHolds, NothingIsInVain, PTL

\* A step of the page changes the canvas only to the selection of that moment,
\* or clears it because another fixture was chosen: the page with its scheduler
\* and worker implements the abstract canvas (displayLayout, showFixture).
THEOREM CanvasImplementsLatest == Spec => ShowsLatest
<1> DEFINE wanted == IF current = Nothing THEN Nothing ELSE Selection
           shown == IF display = Nothing THEN Nothing
                    ELSE [of |-> display.of, final |-> display.final]
<1>1. Init => Canvas!Init
  BY DEF Init, Canvas!Init
<1>2. ASSUME IInv, [Next]_vars
      PROVE  [Canvas!Next]_<<wanted, shown>>
  <2>1. wanted' \in Selections \cup {Nothing}
    BY <1>2, StepIsConsistent DEF IInv, PInv, PageTypes, Selection, Selections
  <2>2. CASE display' \in {display, Nothing}
    <3>1. shown' \in {shown, Nothing}
      BY <2>2
    <3>2. Canvas!Select(wanted')
      BY <3>1 DEF Canvas!Select
    <3> QED BY <2>1, <3>2 DEF Canvas!Next
  <2>3. CASE /\ UNCHANGED <<datasetId, current, effort>>
             /\ current # Nothing /\ display' \in Displays /\ display'.of = Selection
    <3>1. /\ wanted' = wanted /\ wanted = Selection
          /\ Selection \in Selections /\ Selection # Nothing
      <4>1. wanted' = wanted /\ wanted = Selection
        BY <2>3 DEF Selection
      <4>2. datasetId \in Datasets /\ current \in Fixtures /\ effort \in Efforts
        BY <1>2, <2>3 DEF IInv, PInv, PageTypes
      <4>3. Selection \in Selections
        BY <4>2 DEF Selection, Selections
      <4> QED BY <4>1, <4>3, NothingAssumption
    <3>2. display' # Nothing /\ display'.final \in BOOLEAN
      BY <2>3, NothingAssumption DEF Displays
    <3>3. Canvas!Show(display'.final)
      BY <2>3, <3>1, <3>2 DEF Canvas!Show
    <3> QED BY <3>2, <3>3 DEF Canvas!Next
  <2> QED BY <1>2, <2>2, <2>3, StepIsConsistent
<1>3. IInv /\ [Next]_vars => [Canvas!Next]_<<wanted, shown>>
  BY <1>2
<1> QED BY <1>1, <1>3, InvariantHolds, PTL DEF Spec, ShowsLatest, Canvas!Spec
=============================================================================
