CONSTANTS
    Machines = {m1, m2}
    NoMachine = NoMachine
    MaxAttempts = 3
    LeaseDuration = 2
    RequestTimeouts = {1, 3}
    RetryBackoff = 1
    RetentionAge = 2
    Requests = {1}
    Tools = {t1}
    ToolOf <- MCToolOf
    MaxPending = 1
    ProviderStatuses <- UpdateStatuses
SYMMETRY MCSymmetry
SPECIFICATION Spec
INVARIANTS TypeOK AttemptsAreGrants LeaseIsLatestGrant LeaseWithinAttempt
PROPERTIES ResultFromHolder GrantsAreFinal CancelledIsFinal DeliveredResultStays ImplementsFencedLease
