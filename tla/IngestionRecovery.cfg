SPECIFICATION FairSpec
CONSTANTS
    w1 = w1  w2 = w2  good = good  bad = bad
    None = None  Ghost = Ghost
    Requests <- OneRequest
    Contents = {good}
    BadContents = {}
    Workers = {w1, w2}
    ApiProcesses = 1
    MaxRetries = 1
    TaskMaxRetries = 3
    Deleting = FALSE
    Sweeping = TRUE
    FaultSites = {"vector", "send"}
    MaxFaults = 1
    MaxCrashes = 2
    MaxBatches = 7
    QueueBound = 1
INVARIANTS ReadyIndexed JobExclusion CoreInv
PROPERTIES JobsSettle
