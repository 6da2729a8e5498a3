SPECIFICATION FairSpec
CONSTANTS
    w1 = w1  w2 = w2  good = good  bad = bad
    None = None  Ghost = Ghost
    Requests <- TwoRequests
    Contents = {good, bad}
    BadContents = {bad}
    Workers = {w1, w2}
    ApiProcesses = 1
    MaxRetries = 1
    TaskMaxRetries = 3
    Deleting = FALSE
    Sweeping = FALSE
    FaultSites = {"vector"}
    MaxFaults = 1
    MaxCrashes = 0
    MaxBatches = 7
    QueueBound = 1
INVARIANTS ActiveJobCarried SpoolOwned SpoolInv
PROPERTIES JobsSettle DocumentsSettle
