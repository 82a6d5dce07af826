CONSTANTS
  stray = stray
  Stray = stray
  Files <- SmallFiles
  Orders <- SmallOrders
  Outputs <- SmallOutputs
SPECIFICATION Spec
CHECK_DEADLOCK FALSE
INVARIANTS
  TypeInv
  PublishedIsFeasible
  VerdictIsFeasibility
  EveryModelAllowsIt
