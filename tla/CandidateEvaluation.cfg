CONSTANTS
    NumSlots = 2
    MaxSessions = 2
    Workers = 2
    MaxDeaths = 1
    Replay = TRUE
    Graphs = {g1}
    NoGraph = NoGraph
    Jobs <- AllJobs
    Auc <- EarlierIsBetter
SPECIFICATION Spec
INVARIANTS
    TypeOK
    EndingsAreTrue
