\* What LayoutOptions says of its area budget, at the highest effort.
SPECIFICATION FairSpec
CONSTANTS
  Requests <- MCDefaultBudgets
  Drawings <- MCDrawings
  MaxRouted = 1
PROPERTIES
  AreaBudgetKept
\* A call ends.
CHECK_DEADLOCK FALSE
