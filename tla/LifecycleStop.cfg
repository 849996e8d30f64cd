CONSTANTS
    Runners = {r1, r2}
    Stoppers = {s1}
    Outcomes = {"idle", "completed"}
    Overlap = TRUE
    CrashAt <- SomeCrashes
    RaiseAt <- Nowhere
    NoProcess = NoProcess
SPECIFICATION FairSpec
INVARIANTS
    IndexFollowsFiles
PROPERTIES
    EveryProcessEnds
