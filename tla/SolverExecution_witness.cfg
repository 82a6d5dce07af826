SPECIFICATION Spec
CONSTANTS
    MaxEmits = 2
    PipeCapacity = 2
    Sizes = {"small"}
    Adapters = {"native"}
    MayCrash = FALSE
INVARIANTS
    KilledRowKnowsItsWitness
