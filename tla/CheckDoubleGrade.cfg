CONSTANTS
    Requests = {r1, r2}
    Turns = {t1}
    NItems = 1
    MaxBatches = 1
    MaxGrades = 2
    Moves = {}
    Overlap = TRUE
    CanCrash = FALSE
    NoBatch = NoBatch
    Expired = Expired
    NoRecap = NoRecap
    Nobody = Nobody
SPECIFICATION HSpec
INVARIANT GradedOnce
