CONSTANTS
    NDocs = 3
    Workers = {w1}
    Size <- EmptyFitsHuge
    MaxChunks = 1
    EmbedBatch = 1
    Cap = 9
    MaxPaid = 2
    MaxCrashes = 1
    SlowRuns = FALSE
    Supervised = TRUE
    Nobody = Nobody
CHECK_DEADLOCK FALSE
SPECIFICATION FairSpec
PROPERTIES QueueDrains ImplementsLife
