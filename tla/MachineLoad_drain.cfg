CONSTANTS
    Replicas = {r1}
    Requests = {q1}
    Drains = {d1}
    Calls = {c1, c2}
    Capacity = 1
    MaxEpoch = 2
    MaxGrants = 1
    MaxErrors = 1
    MaxRegisters = 1
    MaxLookups = 1
    MaxRemovals = 1
    None = None
SPECIFICATION FairSpec
PROPERTIES  DrainFlagStays 
CHECK_DEADLOCK FALSE
