SPECIFICATION Spec
CONSTANTS
    Slots <- MCSlots
    Children <- MCChildren
    Lanes <- MCLanes
    Generations = 2
    RepairLimit = 1
    MaxOpens = 3
INVARIANTS TypeOK ThreadHasOneProcess AnswersOfALaneNest ChildrenSeeTheirParents
CHECK_DEADLOCK FALSE
