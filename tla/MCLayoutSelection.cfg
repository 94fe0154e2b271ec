\* Every effort, with and without constraints; bundles where they are redrawn;
\* and every mixture of rejections and limits.
SPECIFICATION Spec
CONSTANTS
  Requests <- MCRequests
  Drawings <- MCDrawings
  MaxRouted = 2
CONSTRAINT Scenario
INVARIANTS
  BestIsLeast
  FailuresAreTruthful
  SelectedIsAsDescribed
  RefinementsKeepWithinBounds
\* A call ends.
CHECK_DEADLOCK FALSE
