CONSTANTS
    Requests = {r1}
    Turns = {t1}
    NItems = 1
    MaxBatches = 1
    MaxGrades = 2
    Moves = {"none", "mastered", "gap"}
    Overlap = FALSE
    CanCrash = FALSE
    NoBatch = NoBatch
    Expired = Expired
    NoRecap = NoRecap
    Nobody = Nobody
SPECIFICATION HSpec
PROPERTY SummaryMergesOnly
