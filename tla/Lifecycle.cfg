CONSTANTS
    Sids = {a, b}
    Topics = {x, y}
    Reqs = {r1, r2, r3}
    None = None
    DailyCap = 2
    HardCap = 1
SYMMETRY Interchangeable
CHECK_DEADLOCK FALSE
SPECIFICATION Spec
INVARIANTS TypeOK SummaryPaidOnce SlotBeforeSpend TurnKept NoFutileEnd
PROPERTIES ImplementsRegistry
