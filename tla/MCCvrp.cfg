SPECIFICATION Spec
CONSTANTS
    N <- MCN
    Instances <- MCInstances
INVARIANT TypeInv
INVARIANT ExtractionServesEveryone
INVARIANT RowIsService
INVARIANT EveryModelAllowsIt
INVARIANT OptimalIsWithinGap
CHECK_DEADLOCK FALSE
