SPECIFICATION FairSpec
CONSTANTS
    MaxEmits = 2
    PipeCapacity = 2
    Sizes = {"large"}
    Adapters = {"native", "subprocess"}
    MayCrash = FALSE
PROPERTIES
    Returns
CHECK_DEADLOCK FALSE
