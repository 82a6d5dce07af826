SPECIFICATION FairSpec
CONSTANTS
    MaxEmits = 2
    PipeCapacity = 2
    Sizes = {"small", "large"}
    Adapters = {"native", "subprocess"}
    MayCrash = TRUE
CHECK_DEADLOCK FALSE
INVARIANTS
  TypeInv
  OrderlyExitIsReported
PROPERTIES
  HangsOnlyOnTornMessage
  NoRunawayChild
  ImplementsInvocation
