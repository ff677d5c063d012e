CONSTANTS
    x = x
    y = y
    Names = {x, y}
    Canon <- OwnSpelling
    ListCap = 2
    None = None
    MaxSessions = 2
    MaxAnswers = 3
    MaxDay = 2
    MaxChanges = 4
    WeekDays = 2
    WindowWeeks = 2
    BaseInterval = 1
    MaxInterval = 2
CHECK_DEADLOCK FALSE
SPECIFICATION Spec
INVARIANTS TypeOK WrongIsNotMastered ReviewComesBack
PROPERTIES PastWeeksStand
SYMMETRY Renamings
