SPECIFICATION FairSpec
CONSTANTS
  Fixtures = {"small", "large"}
  LargeFixtures = {"large"}
  Efforts = {"fast", "max"}
  Datasets <- ThreeDatasets
  EmptyDatasets = {2}
  NoRequest = NoRequest
  NoSubmission = NoSubmission
  NoTimer = NoTimer
  Nothing = Nothing
  MaxInputs = 4
  WasmMayFail = TRUE
  ScriptMayFail = TRUE
INVARIANTS
  NothingAwaitedInVain
PROPERTIES
  CanvasKeepsToSelection
  Settles
  ShowsLatest
\* The page stops when the inputs are spent.
CHECK_DEADLOCK FALSE
