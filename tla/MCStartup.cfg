SPECIFICATION Spec
CONSTANTS
    Situations <- MCSituations
    AvailableSolvers <- MCAvailableSolvers
    DefaultSolvers <- MCDefaultSolvers
    DefaultLimits <- MCDefaultLimits
    LogLevels <- MCLogLevels
INVARIANT EveryOptionHasItsSource
INVARIANT TagsAreTruthful
INVARIANT SelectionIsExact
PROPERTY TagFileFitsOtherKinds
CHECK_DEADLOCK FALSE
