CONSTANTS
    Replicas = {r1, r2}
    Calls = {c1, c2}
    Users = {u1, u2}
    Interval = 1
    MaxDelay = 1
    MaxDeletes = 1
    MaxRestarts = 1
    None = None
SPECIFICATION Spec
SYMMETRY Symmetry
INVARIANTS
    AcceptedWasLive
    RevocationIsFinal
    OneOwner
