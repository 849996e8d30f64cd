SPECIFICATION LedgerSpec
CONSTANTS
    Workers = {w1, w2}
    Emitters = {h1}
    Service = svc
    StorageKeys = {e1, e2}
    MaxEmits = 2
    SessionLimit = 2
INVARIANTS LedgerTypeOK WholeBetweenRecords LogInOrder
PROPERTIES SessionEnds
CHECK_DEADLOCK FALSE
