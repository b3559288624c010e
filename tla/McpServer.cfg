CONSTANTS
    Gateways = {g1}
    Callers = {k1, k2}
    Ids = {1}
    Inputs = {x}
    Metas = {None, 0}
    MaxBound = 1
    MaxTracked = 1
    Calls = {c1, c2}
    MaxEvents = 3
    None = None
SPECIFICATION FairSpec
INVARIANTS RetryFindsOriginal 
PROPERTIES CallsReturn
CHECK_DEADLOCK FALSE
