CONSTANTS
    Turns = {t1}
    MaxIters = 1
    Cap = 9
    Plans <- FewPlans
    Silent = TRUE
    Blank = FALSE
    SameSession = FALSE
    Settles = FALSE
    OneLoop = FALSE
SYMMETRY Interchangeable
CHECK_DEADLOCK FALSE
SPECIFICATION Spec
INVARIANTS SpendKept
