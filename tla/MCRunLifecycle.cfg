CONSTANTS
  c1 = c1
  c2 = c2
  s1 = s1
  s2 = s2
  CaseIds <- MCCaseIds
  SolverIds <- MCSolverIds
  Selections <- MCSelections
SPECIFICATION Spec
CHECK_DEADLOCK FALSE
INVARIANTS
  TypeInv
  CompletedIsExact
  CsvCoversWarehouse
  BadEndsHaveCauses
PROPERTIES
  Ends
  ImplementsLedger
