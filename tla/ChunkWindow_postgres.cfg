CONSTANTS
    Replicas = {r1, r2}
    InMemory = FALSE
    WindowChunks = 2
    WindowBytes = 3
    ChunkSizes = {1}
    BatchBytes = 5
    TrailingSizes = {2, 4}
    MaxBatch = 2
    MaxSeq = 3
SPECIFICATION FairSpec
INVARIANTS WindowMatchesTable NoSilentSkip TrimKeepsNewest
PROPERTIES StreamEnds
CHECK_DEADLOCK FALSE
