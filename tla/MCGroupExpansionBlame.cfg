SPECIFICATION Spec
CONSTANTS
  Calls <- MCCalls
  NodeGap = 4
  Budget <- MCBudget
  Radius <- MCRadius
  MaxMembers = 2
  MaxGroups = 2
  MaxGroupMembers = 3
  None = None
INVARIANTS
  BlamesTheCaller
\* The call ends.
CHECK_DEADLOCK FALSE
