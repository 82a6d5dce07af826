CONSTANTS
  r1 = r1
  r2 = r2
  g1 = g1
  s1 = s1
  s2 = s2
  RunIds = {r1, r2}
  Groups = {g1}
  Matrix <- TwoSolvers
  StartTrees <- AllTrees
SPECIFICATION Spec
SYMMETRY Symmetry
CHECK_DEADLOCK FALSE
INVARIANTS
  TypeInv
  
  PublishedIsAttested
  RejectedIsExplained
PROPERTIES
  PublicMovesForward
