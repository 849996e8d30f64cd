SPECIFICATION Spec
CONSTANTS
    Slots <- MCSlots
    Lanes <- MCLanes
    Children <- MCChildren
    Generations = 2
    RepairLimit = 1
    RetryAttempts = 1
    Programs = {program}
    MaxOpens = 3
    Untold <- MCUntold
INVARIANTS TypeOK CommitsAreCanonical OneEvaluatedPerProgram
PROPERTIES NoPaidRepeat EveryRunEnds
CHECK_DEADLOCK FALSE
