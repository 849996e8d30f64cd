CONSTANTS
    Runners = {r1, r2, r3}
    Stoppers = {}
    Outcomes = {"completed"}
    Overlap = TRUE
    CrashAt <- SomeCrashes
    RaiseAt <- SomeRaises
    NoProcess = NoProcess
SPECIFICATION FairSpec
INVARIANTS
    TypeOK
    SingleOwner
    AdapterRunsAsRunning
PROPERTIES
    ImplementsExclusive
