CONSTANTS
    Calls = {c1, c2, c3}
    MaxConcurrent = 2
    Trip = 2
    MaxFlips = 3
    MaxRollovers = 1
SPECIFICATION FairSpec
INVARIANTS
    SlotsAccountedFor
PROPERTIES
    ColdStartNeverTrips
    Recovers
