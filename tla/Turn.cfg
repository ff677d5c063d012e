CONSTANTS
    Turns = {t1, t2}
    MaxIters = 2
    Cap = 3
    Plans <- AllPlans
    Silent = FALSE
    Blank = FALSE
    SameSession = TRUE
    Settles = FALSE
    OneLoop = FALSE
CHECK_DEADLOCK FALSE
SPECIFICATION FairSpec
INVARIANTS TypeOK BilledOnce StreamedTextKept NoLockAcrossCall AskEndsTurn SpendKept CapHolds
PROPERTIES TurnEnds
