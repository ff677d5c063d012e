CONSTANTS
    Requests = {r1}
    Turns = {t1}
    NItems = 2
    MaxBatches = 2
    MaxGrades = 2
    Moves = {"gap"}
    Overlap = FALSE
    CanCrash = TRUE
    NoBatch = NoBatch
    Expired = Expired
    NoRecap = NoRecap
    Nobody = Nobody
SPECIFICATION HSpec
INVARIANTS TypeOK MasteryFollowsNewest FollowupOnce RecapHonest LockNotHeldAcrossLLM
PROPERTIES DeclaredLevelStands NoBatchDisplaced DiagnosticNotLost ImplementsQuiz
