SPECIFICATION Spec
CONSTANTS
    Horizon <- MCHorizon
    Cases <- MCCases
INVARIANT TypeInv
INVARIANT CostsAgree
INVARIANT CostIsOverRuns
