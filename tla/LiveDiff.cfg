SPECIFICATION DiffSpec
CONSTANTS
    W1 = W1
    W2 = W2
    Workers = {W1, W2}
    Inputs <- MCInputs
    StoredRefs <- MCStoredRefs
    Wants <- MCWants
    RunSize = 3
    BatchSize = 2
    PageMax = 2
    MaxFaults = 1
CHECK_DEADLOCK FALSE
INVARIANTS ScanIsCorrect DiffIsCorrect
PROPERTIES ScansEnd
