SPECIFICATION MCSpec
CONSTANTS
    r1 = r1
    r2 = r2
    p1 = p1
    p2 = p2
    k1 = k1
    Refs = {r1, r2}
    Plans = {p1, p2}
    Packs = {k1}
    SignupUnits = 2
    PlanUnits = 2
    PackUnits = 1
    HoldUnits = 3
    MinUnits = 1
    Costs = {1, 2, 5}
    Periods = {1, 2}
    SweepLimit = 1
    MaxTime = 2
    Created = 3
    Bad = {1}
    Limit = 2
    MaxThrows = 1
INVARIANTS
    BooksAgree
    RefundRestoresBatches
PROPERTIES
    UnitsMoveInOrder
    PastDueBatchesEndEmpty
    EveryTurnComes
CHECK_DEADLOCK FALSE
