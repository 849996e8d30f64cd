SPECIFICATION Spec
CONSTANTS
    Turns = {t1, t2}
    Keys = {k1, k2}
    Identity <- OneIdentity
    Answers <- AllAnswers
    Costs = {1}
    HourlyLimit = 1
    Retries = 1
    Crashes <- SafePoints
    Locks = TRUE
    MaxServed = 3
    MaxSessions = 2
SYMMETRY Sym
INVARIANTS
    TypeOK
    OneFinalAnswer
    TokensConserved
    OvershootBounded
PROPERTIES
    EvidenceKept
    ImplementsRequirements
CHECK_DEADLOCK FALSE
