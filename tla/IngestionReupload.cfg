SPECIFICATION Spec
CONSTANTS
    w1 = w1  w2 = w2  good = good  bad = bad
    None = None  Ghost = Ghost
    Requests <- TwoRequests
    Contents = {good, bad}
    BadContents = {bad}
    Workers = {w1, w2}
    ApiProcesses = 2
    MaxRetries = 1
    TaskMaxRetries = 3
    Deleting = TRUE
    Sweeping = FALSE
    FaultSites = {"vector", "publish"}
    MaxFaults = 1
    MaxCrashes = 1
    MaxBatches = 7
    QueueBound = 2
SYMMETRY WorkerSymmetry
INVARIANTS NotWedged PursuitInv ReadyHasChunks NoRowsWithoutDocument
