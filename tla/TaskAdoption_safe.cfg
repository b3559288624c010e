CONSTANTS
    Replicas = {r1, r2}
    Execs = {e1, e2}
    MaxAttempts = 1
    Keyed = TRUE
    MaxRequests = 2
    Faults = {"write", "crash", "lapse", "cleanup"}
    MaxFaults = 1
    None = None
SYMMETRY Symmetry
SPECIFICATION Spec
INVARIANTS OneExecutorPerLease  CancelledOnlyOnDemand CancelIsDurable
PROPERTIES TerminalTaskIsFinal
CHECK_DEADLOCK FALSE
