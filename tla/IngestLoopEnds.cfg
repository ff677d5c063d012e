CONSTANTS
    NDocs = 2
    Workers = {w1}
    Size <- LongThenShort
    MaxChunks = 9
    EmbedBatch = 1
    Cap = 9
    MaxPaid = 2
    MaxCrashes = 0
    SlowRuns = FALSE
    Supervised = FALSE
    Nobody = Nobody
CHECK_DEADLOCK FALSE
SPECIFICATION FairSpec
PROPERTIES QueueDrains
