SPECIFICATION UnreliableSpec
CONSTANTS
  Fixtures = {"small", "large"}
  LargeFixtures = {"large"}
  Efforts = {"fast", "max"}
  Datasets <- OneDataset
  NoRequest = NoRequest
  NoSubmission = NoSubmission
  NoTimer = NoTimer
  MaxSubmissions = 4
INVARIANTS
  TimerOnlyWhileWaiting
  SubmissionsKeepTheirTurn
PROPERTIES
  DeliveriesAdvance
  PendingNeverLost
CHECK_DEADLOCK FALSE
