SPECIFICATION Spec
CONSTANTS
    Replicas = {r1, r2}
    Requests = {q1, q2}
    Calls = {c1, c2}
    Waiters = {w1}
    MaxWrites = 3
    MaxEvents = 1
    None = None
SYMMETRY Symmetry
INVARIANTS ReadsAreFresh OneKeyOneRequest DepartureContract NoUpdateMissed
CHECK_DEADLOCK FALSE
