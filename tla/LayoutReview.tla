---------------------------- MODULE LayoutReview ----------------------------
(***************************************************************************)
(* The visual-review page: main.ts (selection, debounce, canvas, status    *)
(* line), the scheduler StagedRequests, and layout.worker.ts running in a  *)
(* Web Worker that the page restarts to cancel a large layout.             *)
(*                                                                         *)
(* The page and the worker are two event loops.  Messages to the current   *)
(* worker wait in `inbox`; the events a worker posted wait in its queue of *)
(* `mail`, and those of a terminated worker can still arrive.              *)
(***************************************************************************)
EXTENDS StagedRequests

CONSTANTS
  EmptyDatasets,      \* loaded data that may have no fixture
  Nothing,            \* no layout shown, no fixture selected, nothing retained
  MaxInputs,          \* bound: inputs of the user, loads of data included
  WasmMayFail,        \* whether init() of the wasm module may reject
  ScriptMayFail       \* whether the worker script may fail to load

ASSUME ReviewAssumption ==
  /\ MaxInputs \in Nat
  /\ WasmMayFail \in BOOLEAN /\ ScriptMayFail \in BOOLEAN

VARIABLES
  \* main.ts
  datasetId,          \* datasets loaded so far; 0 before the first
  current,            \* name of the fixture at currentIndex, or Nothing
  effort,             \* the layout options in the controls
  layoutDirty,        \* the controls changed since the last dispatchLayout
  debounce,           \* a debounce timer is armed
  requestSequence,    \* ids given to submissions
  display,            \* the layout on the SchemWeave canvas, or Nothing
  status,             \* kind of the status line
  inputs,             \* inputs made, for the bound
  \* layout.worker.ts
  wasm,               \* "loading", "ready", "rejected" or "dead"
  retained,           \* the request kept for refinement, or Nothing
  cache,              \* DatasetCache: dataset, and fixtures scored with the dataset used
  mail                \* events posted by the workers 1..epoch and not yet handled

pageVars == <<datasetId, current, effort, layoutDirty, debounce, requestSequence,
              display, status, inputs>>
workerVars == <<wasm, retained, cache>>
vars == <<schedulerVars, pageVars, workerVars, mail>>

Selection == [datasetId |-> datasetId, fixtureName |-> current, effort |-> effort]

EmptyCache == [datasetId |-> Nothing, scored |-> {}]

Selections == [datasetId: Datasets, fixtureName: Fixtures, effort: Efforts]

\* Layouts on the canvas and requests kept for refinement, each with the
\* dataset their ELK layout was scored in.
Displays ==
  [of: Selections, effort: Efforts \cup {"fast"}, final: BOOLEAN, scoredIn: Datasets]
Retentions == [request: Requests, scoredIn: Datasets]

ASSUME NothingAssumption ==
  Nothing \notin Fixtures \cup Selections \cup Displays \cup Retentions

-----------------------------------------------------------------------------
(* The page.                                                                *)

\* restartWorker also terminates the old worker: its memory is gone.
FollowRestart ==
  IF epoch' = epoch
  THEN UNCHANGED <<workerVars, mail>>
  ELSE /\ wasm' = "loading"
       /\ retained' = Nothing
       /\ cache' = EmptyCache
       /\ mail' = Append(mail, <<>>)

\* onStarted, if the handler dispatched a request; it follows the other hooks.
StatusThenStarted(s) ==
  status' = IF generation' # generation THEN "laying out" ELSE s

\* scheduleLayout
ScheduleLayout ==
  /\ layoutDirty' = TRUE
  /\ debounce' = TRUE
  /\ SupersedeActiveLarge \/ (~ActiveLarge /\ UNCHANGED schedulerVars)
  /\ status' = IF active' # NoRequest THEN "finishing current" ELSE "queued"
  /\ FollowRestart

Input == inputs < MaxInputs /\ inputs' = inputs + 1

\* A control fires its input event.
ChangeOptions(e) ==
  /\ Input
  /\ e # effort
  /\ effort' = e
  /\ ScheduleLayout
  /\ UNCHANGED <<datasetId, current, requestSequence, display>>

\* showFixture once the dataset has the fixture
ShowFixture(f) ==
  /\ current' = f
  /\ display' = Nothing
  /\ ScheduleLayout

SelectFixture(f) ==
  /\ Input
  /\ current # Nothing
  /\ ShowFixture(f)
  /\ UNCHANGED <<datasetId, effort, requestSequence>>

\* initializeData: fetched or chosen files arrive and are accepted.  The hash
\* of the location, which chooses f, is one the page has written.
InitializeData(f) ==
  /\ Input
  /\ datasetId + 1 \in Datasets
  /\ datasetId' = datasetId + 1
  /\ \/ /\ datasetId' \in EmptyDatasets
        /\ current' = Nothing
        /\ UNCHANGED <<layoutDirty, debounce, display, status>>
        /\ UNCHANGED <<schedulerVars, workerVars, mail>>
     \/ ShowFixture(f)
  /\ UNCHANGED <<effort, requestSequence>>

\* loadDefaultData and the listener of the file control: nothing can be fetched,
\* or files are missing, do not parse or do not pass prepareDataset.  The status
\* line says so, whatever it said before.
RejectData ==
  /\ Input
  /\ status' = "rejected"
  /\ UNCHANGED <<datasetId, current, effort, layoutDirty, debounce, requestSequence, display>>
  /\ UNCHANGED <<schedulerVars, workerVars, mail>>

\* dispatchLayout, when the debounce timer fires
DispatchLayout ==
  /\ debounce
  /\ debounce' = FALSE
  /\ IF layoutDirty /\ current # Nothing
     THEN /\ layoutDirty' = FALSE
          /\ requestSequence' = requestSequence + 1
          /\ Submit([id |-> requestSequence + 1, datasetId |-> datasetId,
                     fixtureName |-> current, effort |-> effort])
          /\ StatusThenStarted(status)
          /\ FollowRestart
     ELSE UNCHANGED <<layoutDirty, requestSequence, status, schedulerVars, workerVars, mail>>
  /\ UNCHANGED <<datasetId, current, effort, display, inputs>>

\* Mutant: newer settings in the controls are ignored.
SupersededUnlessDirty(response) ==
  \/ pending # NoSubmission
  \/ response.datasetId # datasetId
  \/ response.fixtureName # current

\* displayLayout drops a result the user has moved on from.
Superseded(response) ==
  \/ layoutDirty
  \/ pending # NoSubmission
  \/ response.datasetId # datasetId
  \/ response.fixtureName # current

DisplayLayout(response) ==
  IF Superseded(response)
  THEN UNCHANGED display /\ StatusThenStarted(status)
  ELSE /\ display' = [of |-> [datasetId |-> response.datasetId,
                              fixtureName |-> response.fixtureName,
                              effort |-> response.requestedEffort],
                      effort |-> response.effort, final |-> response.final,
                      scoredIn |-> response.scoredIn]
       /\ StatusThenStarted(IF response.final THEN "final" ELSE "refining")

\* onError
ShowError ==
  /\ UNCHANGED display
  /\ StatusThenStarted(IF layoutDirty THEN status ELSE "failed")

\* A message or error event of the current worker
HandleResponse(response) ==
  \/ Accepted(response) /\ Receive(response) /\ DisplayLayout(response)
  \/ ReceiveError(response) /\ ShowError
  \/ /\ ~Addressed(response) \/ (~response.error /\ ~Accepted(response))
     /\ UNCHANGED <<schedulerVars, display, status>>

HandleFailure ==
  \/ WorkerFailed /\ ShowError
  \/ active = NoRequest /\ UNCHANGED <<schedulerVars, display, status>>

HandleEvent(event) ==
  IF event.type = "error" THEN HandleFailure ELSE HandleResponse(event.response)

\* An event of worker e reaches the page; only the current worker is heard.
DeliverEvent(e) ==
  /\ mail[e] # <<>>
  /\ mail' = [mail EXCEPT ![e] = Tail(@)]
  /\ IF e = epoch THEN HandleEvent(Head(mail[e]))
     ELSE UNCHANGED <<schedulerVars, display, status>>
  /\ UNCHANGED <<workerVars, datasetId, current, effort, layoutDirty, debounce,
                 requestSequence, inputs>>

RefineTimerFires ==
  /\ \E g \in armed : Refine(g)
  /\ UNCHANGED <<pageVars, workerVars, mail>>

-----------------------------------------------------------------------------
(* The worker.                                                              *)

Post(event) == mail' = [mail EXCEPT ![epoch] = Append(@, event)]

ScriptFailure == [type |-> "error"]

\* The script loads and init() settles, or the page sees an error event.
WorkerLoads ==
  /\ wasm = "loading"
  /\ \/ wasm' = "ready" /\ UNCHANGED mail
     \/ WasmMayFail /\ wasm' = "rejected" /\ UNCHANGED mail
     \/ ScriptMayFail /\ wasm' = "dead" /\ Post(ScriptFailure)
  /\ UNCHANGED <<schedulerVars, pageVars, retained, cache>>

NeedsRefinement(request) == IsLarge(request) /\ request.effort # "fast"

\* postLayout
LayoutReply(request, used, phase, final, scoredIn) ==
  [type |-> "message",
   response |-> [generation |-> request.generation, id |-> request.id,
                 datasetId |-> request.datasetId, fixtureName |-> request.fixtureName,
                 phase |-> phase, final |-> final, error |-> FALSE,
                 effort |-> used, requestedEffort |-> request.effort,
                 scoredIn |-> scoredIn]]

ErrorReply(request, phase) ==
  [type |-> "message",
   response |-> [generation |-> request.generation, id |-> request.id,
                 datasetId |-> request.datasetId, fixtureName |-> request.fixtureName,
                 phase |-> phase, final |-> TRUE, error |-> TRUE]]

InitialPhase(request) == IF IsLarge(request) THEN "fast" ELSE "direct"

\* Mutant: small requests are laid out Fast as well.
InitialEffortFast(request) == "fast"

\* initialLayoutOptions
InitialEffort(request) == IF NeedsRefinement(request) THEN "fast" ELSE request.effort

\* DatasetCache.getOrInsert: the entries kept, and the dataset whose score of
\* the fixture is returned.  An entry is a fixture and the dataset it was
\* scored in.
CacheKept(id) == IF cache.datasetId = id THEN cache.scored ELSE {}

CacheLookup(id, f) == {entry \in CacheKept(id) : entry.fixtureName = f}

CachedScore(id, f) ==
  IF CacheLookup(id, f) # {}
  THEN (CHOOSE entry \in CacheLookup(id, f) : TRUE).scoredIn
  ELSE id

CacheWith(id, f) ==
  [datasetId |-> id,
   scored |-> CacheKept(id) \cup {[fixtureName |-> f, scoredIn |-> CachedScore(id, f)]}]

\* Mutant: the request is not retained.
RetainedAfterNothing(request, score) == retained

RetainedAfter(request, score) ==
  IF NeedsRefinement(request) THEN [request |-> request, scoredIn |-> score] ELSE retained

\* onmessage: a layout request
WorkerLayout ==
  LET request == Head(inbox).request
      score == CachedScore(request.datasetId, request.fixtureName) IN
  /\ Head(inbox).type = "layout"
  /\ \/ \* init() rejected
        /\ wasm = "rejected"
        /\ retained' = Nothing
        /\ Post(ErrorReply(request, InitialPhase(request)))
        /\ UNCHANGED cache
     \/ \* scoring the ELK layout throws: nothing is inserted
        /\ wasm = "ready"
        /\ CacheLookup(request.datasetId, request.fixtureName) = {}
        /\ cache' = [datasetId |-> request.datasetId, scored |-> CacheKept(request.datasetId)]
        /\ retained' = Nothing
        /\ Post(ErrorReply(request, InitialPhase(request)))
     \/ \* the layout throws
        /\ wasm = "ready"
        /\ cache' = CacheWith(request.datasetId, request.fixtureName)
        /\ retained' = Nothing
        /\ Post(ErrorReply(request, InitialPhase(request)))
     \/ /\ wasm = "ready"
        /\ cache' = CacheWith(request.datasetId, request.fixtureName)
        /\ retained' = RetainedAfter(request, score)
        /\ Post(LayoutReply(request, InitialEffort(request), InitialPhase(request),
                            ~NeedsRefinement(request), score))

RetainedFor(request) == retained # Nothing /\ retained.request = request

\* onmessage: a refine request; one that matches nothing retained is ignored
WorkerRefine ==
  LET request == Head(inbox).request IN
  /\ Head(inbox).type = "refine"
  /\ UNCHANGED cache
  /\ \/ /\ wasm = "rejected"
        /\ retained' = Nothing
        /\ Post(ErrorReply(request, "final"))
     \/ /\ wasm = "ready" /\ RetainedFor(request)
        /\ retained' = Nothing
        /\ \/ Post(ErrorReply(request, "final"))
           \/ Post(LayoutReply(request, request.effort, "final", TRUE, retained.scoredIn))
     \/ /\ wasm = "ready" /\ ~RetainedFor(request)
        /\ UNCHANGED <<retained, mail>>

WorkerTakesMessage ==
  /\ wasm \in {"ready", "rejected"}
  /\ inbox # <<>>
  /\ inbox' = Tail(inbox)
  /\ WorkerLayout \/ WorkerRefine
  /\ UNCHANGED <<active, pending, generation, refineTimer, armed, epoch, delivery>>
  /\ UNCHANGED <<pageVars, wasm>>

-----------------------------------------------------------------------------
Init ==
  /\ SchedulerInit
  /\ datasetId = 0
  /\ current = Nothing
  /\ effort \in Efforts
  /\ layoutDirty = FALSE
  /\ debounce = FALSE
  /\ requestSequence = 0
  /\ display = Nothing
  /\ status = "no data"
  /\ inputs = 0
  /\ wasm = "loading"
  /\ retained = Nothing
  /\ cache = EmptyCache
  /\ mail = <<<<>>>>

Next ==
  \/ \E e \in Efforts : ChangeOptions(e)
  \/ \E f \in Fixtures : SelectFixture(f)
  \/ \E f \in Fixtures : InitializeData(f)
  \/ RejectData
  \/ DispatchLayout
  \/ RefineTimerFires
  \/ \E e \in 1..epoch : DeliverEvent(e)
  \/ WorkerLoads
  \/ WorkerTakesMessage

Spec == Init /\ [][Next]_vars

\* Timers fire, a worker that is loaded reads its messages, and the events of
\* the current worker are handled.  The user owes nothing.
Fairness ==
  /\ WF_vars(DispatchLayout)
  /\ WF_vars(RefineTimerFires)
  /\ WF_vars(WorkerLoads)
  /\ WF_vars(WorkerTakesMessage)
  /\ WF_vars(\E e \in 1..epoch : e = epoch /\ DeliverEvent(e))

FairSpec == Spec /\ Fairness

-----------------------------------------------------------------------------
(* Properties.                                                              *)

Idle == active = NoRequest /\ ~debounce

ReviewTypeOK ==
  /\ datasetId \in Datasets \cup {0}
  /\ current \in Fixtures \cup {Nothing}
  /\ effort \in Efforts
  /\ layoutDirty \in BOOLEAN /\ debounce \in BOOLEAN
  /\ status \in {"no data", "queued", "finishing current", "laying out", "refining",
                 "final", "failed", "rejected"}
  /\ wasm \in {"loading", "ready", "rejected", "dead"}
  /\ Len(mail) = epoch

\* The canvas never shows another drawing than the selected one - neither the
\* fixture of an earlier selection nor the same name in an earlier dataset -
\* and the ELK metrics next to it are those of the same dataset (displayLayout
\* drops superseded results, showFixture clears the canvas, DatasetCache
\* forgets every score when the dataset changes).
DisplayIsOfSelection ==
  display # Nothing =>
    /\ current # Nothing => /\ display.of.fixtureName = current
                            /\ display.of.datasetId = datasetId
    /\ display.scoredIn = display.of.datasetId

\* The newest selection is on the canvas with the effort the user asked for.
NewestIsShown ==
  /\ display # Nothing /\ display.of = Selection
  /\ display.final /\ display.effort = effort

\* When nothing is under way any more, no change of the controls is forgotten,
\* and the status line says how the newest selection ended or that files were
\* rejected since (scheduleLayout, dispatchLayout, receive, displayLayout).
SettledShowsNewest ==
  Idle /\ current # Nothing
    => /\ ~layoutDirty
       /\ status \in {"final", "failed", "rejected"}
       /\ status = "final" => NewestIsShown

\* The step with which the page comes to rest shows the newest selection, or
\* says that it failed; a page at rest keeps its canvas and what it says of it,
\* rejected files apart, until something is selected.
RestsOnNewest ==
  Idle' /\ current' # Nothing =>
    IF Idle THEN display' = display /\ status' \in {status, "rejected"}
    ELSE status' = "failed" \/ (status' = "final" /\ NewestIsShown')

\* An active request always has exactly one thing under way - a message to the
\* worker, an answer to the page or the quiet period - unless the worker script
\* never loaded; an idle scheduler has none.  Nothing waits for a message that
\* was not sent, and no answer of a superseded request is left in the current
\* worker's queue.
OneThingUnderWay ==
  wasm # "dead" =>
    Len(inbox) + Len(mail[epoch]) + (IF armed = {} THEN 0 ELSE 1)
      = (IF active = NoRequest THEN 0 ELSE 1)

\* A refine message finds its request retained by the worker, which would
\* ignore it otherwise and leave the page waiting for ever.
RefineFindsRetained ==
  \A i \in DOMAIN inbox :
    inbox[i].type = "refine" /\ wasm = "ready" => RetainedFor(inbox[i].request)


\* The canvas keeps to the selection: it never shows another one, and what has
\* come to rest shows the newest unless its layout failed, also after the status
\* line has been used for rejected files (displayLayout, showFixture,
\* scheduleLayout, loadDefaultData).
CanvasKeepsToSelection ==
  [](DisplayIsOfSelection /\ SettledShowsNewest) /\ [][RestsOnNewest]_vars

\* Nobody waits for what will not come: page, timer and worker have exactly
\* one thing under way for an active request, and a refine message is for a
\* layout the worker still has (dispatch, refine, onmessage). All variables have
\* their types.
NothingAwaitedInVain == ReviewTypeOK /\ OneThingUnderWay /\ RefineFindsRetained

\* Once the user rests, the page comes to rest too, unless the worker script
\* cannot be loaded.
Settles == <>[](Idle \/ wasm = "dead")

\* The canvas implements the abstract one.
Canvas == INSTANCE LatestLayout WITH
  Wanted <- Selections,
  wanted <- IF current = Nothing THEN Nothing ELSE Selection,
  shown <- IF display = Nothing THEN Nothing
           ELSE [of |-> display.of, final |-> display.final]

ShowsLatest == Canvas!Spec
=============================================================================
