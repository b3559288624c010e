CONSTANTS
    Replicas = {r1, r2}
    Machines = {m1, m2}
    Calls = {c1, c2}
    MaxEvents = 3
    None = None
SPECIFICATION FairSpec
PROPERTIES LiveOwnerKeepsTool CacheConverges
CHECK_DEADLOCK FALSE
