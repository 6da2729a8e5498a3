SPECIFICATION FairSpec
CONSTANTS
    w1 = w1  w2 = w2  good = good  bad = bad
    None = None  Ghost = Ghost
    Requests <- OneRequest
    Contents = {good}
    BadContents = {}
    Workers = {w1}
    ApiProcesses = 1
    MaxRetries = 1
    TaskMaxRetries = 3
    Deleting = FALSE
    Sweeping = TRUE
    FaultSites = {}
    MaxFaults = 0
    MaxCrashes = 1
    MaxBatches = 7
    QueueBound = 1

PROPERTY DocumentsSettle
