CONSTANTS
    Machines = {m1, m2}
    NoMachine = NoMachine
    MaxAttempts = 2
    LeaseDuration = 2
    RequestTimeouts = {3}
    RetryBackoff = 1
    RetentionAge = 1
    Requests = {1, 2}
    Tools = {t1}
    ToolOf <- MCToolOf
    MaxPending = 2
    ProviderStatuses <- MCProviderStatuses
SPECIFICATION FairSpec
PROPERTIES RequestsFinish EveryLeaseEnds
