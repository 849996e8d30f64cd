CONSTANTS
    NumSlots = 2
    NumGens = 1
    MaxRepairs = 1
    RetryLimit = 1
    MaxTurns = 3
    Workers = 2
    MaxSessions = 2
    Answers <- NeverValid
    Faults = {"stop", "crash", "record"}
SPECIFICATION Spec
INVARIANTS
    TypeOK
    TurnsAccounted
