SPECIFICATION Spec
CONSTANTS
    w1 = w1  w2 = w2  good = good  bad = bad
    None = None  Ghost = Ghost
    Requests <- OneRequest
    Contents = {good}
    BadContents = {}
    Workers = {w1, w2}
    ApiProcesses = 1
    MaxRetries = 2
    TaskMaxRetries = 1
    Deleting = TRUE
    Sweeping = FALSE
    FaultSites = {"db", "vector", "publish"}
    MaxFaults = 2
    MaxCrashes = 3
    MaxBatches = 7
    QueueBound = 2
SYMMETRY WorkerSymmetry
INVARIANTS TypeOK VerdictsAgree
PROPERTIES CompletedStays ServesConsistently
