CONSTANTS
    NDocs = 3
    Workers = {w1, w2}
    Size <- LongTwoShort
    MaxChunks = 9
    EmbedBatch = 1
    Cap = 2
    MaxPaid = 2
    MaxCrashes = 1
    SlowRuns = FALSE
    Supervised = TRUE
    Nobody = Nobody
SYMMETRY Interchangeable
CHECK_DEADLOCK FALSE
SPECIFICATION Spec
INVARIANTS TypeOK ReadyComplete KeywordsComplete NoOrphanChunks CapOvershoot
PROPERTIES NeverRepays
