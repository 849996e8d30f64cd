CONSTANTS
    Runners = {r1, r2, r3}
    Stoppers = {s1}
    Outcomes = {"idle", "failed", "exhausted", "completed"}
    Overlap = FALSE
    CrashAt <- SafeCrashes
    RaiseAt <- SafeRaises
    NoProcess = NoProcess
SPECIFICATION FairSpec
INVARIANTS
    RestIsResumable
PROPERTIES
    TerminalIsFinal
