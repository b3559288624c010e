CONSTANTS
    Replicas = {r1, r2}
    Execs = {e1, e2}
    MaxAttempts = 2
    Keyed = FALSE
    MaxRequests = 2
    Faults = {"write", "crash"}
    MaxFaults = 1
    None = None
SPECIFICATION FairSpec
PROPERTIES TaskEnds
CHECK_DEADLOCK FALSE
