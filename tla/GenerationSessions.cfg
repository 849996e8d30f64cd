CONSTANTS
    NumSlots = 2
    NumGens = 2
    MaxRepairs = 1
    RetryLimit = 1
    MaxTurns = 5
    Workers = 2
    MaxSessions = 2
    Answers = {"good", "malformed", "infra"}
    Faults = {"expire", "interrupt", "crash"}
SPECIFICATION FairSpec
INVARIANTS
    NextFollowsSettled
    OneParentVector
PROPERTIES
    SessionEnds
