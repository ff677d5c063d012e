CONSTANTS
    Turns = {t1, t2}
    MaxIters = 1
    Cap = 9
    Plans <- FewPlans
    Silent = FALSE
    Blank = FALSE
    SameSession = FALSE
    Settles = FALSE
    OneLoop = TRUE
CHECK_DEADLOCK FALSE
SPECIFICATION FairSpec
PROPERTIES TurnEnds
