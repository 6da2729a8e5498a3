SPECIFICATION TrafficSpec
CONSTANTS
    t1 = t1  t2 = t2  
    Threads = {t1, t2}
    Callers = {t1, t2}
    MaxRetries = 1
    Threshold = 2
    Reset = 2
    Limit = 1
    Window = 2
    MaxClock = 4
INVARIANTS TypeOK FailuresBounded BucketTypeOK AdmissionsBounded
PROPERTIES ResetComes
