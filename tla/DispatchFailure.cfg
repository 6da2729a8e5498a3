SPECIFICATION Spec
CONSTANTS
    w1 = w1  w2 = w2  good = good  bad = bad
    None = None  Ghost = Ghost
    Requests <- OneRequest
    Contents = {good}
    BadContents = {}
    Workers = {w1}
    ApiProcesses = 1
    MaxRetries = 1
    TaskMaxRetries = 3
    Deleting = FALSE
    Sweeping = FALSE
    FaultSites = {"send"}
    MaxFaults = 1
    MaxCrashes = 0
    MaxBatches = 7
    QueueBound = 2

INVARIANT NotWedged
