\* What USAGE.md says of positive wire spacing, for requests with boundary bundles.
SPECIFICATION Spec
CONSTANTS
  Requests <- MCSpacedBundles
  Drawings <- MCDrawings
  MaxRouted = 1
INVARIANTS
  NeverWeakened
\* A call ends.
CHECK_DEADLOCK FALSE
