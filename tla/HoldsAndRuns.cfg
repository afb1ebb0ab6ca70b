SPECIFICATION MCSpec
CONSTANTS
    u1 = u1
    r1 = r1
    r2 = r2
    t1 = t1
    w1 = w1
    a1 = a1
    a2 = a2
    e1 = e1
    c1 = c1
    NoOne = NoOne
    Users = {u1}
    Refs = {r1, r2}
    TopUps = {t1}
    Sweepers = {w1}
    Owner <- MCOwner
    HoldUnits = 3
    MinUnits = 1
    SignupUnits = 4
    PackUnits = 2
    Costs = {1, 6}
    SweepLimit = 1
    MaxFailures = 2
    Runs = {a1, a2}
    Editors = {e1}
    Calls = {c1}
    MaxRetries = 1
    MaxSteps = 2
    MaxEdits = 1
    MaxStoreFailures = 0
INVARIANTS
    BooksAreTrue
    WritesAreAccepted
    ChargeWithinCost
    ErrorMeansNotSaved
PROPERTIES
    ImplementsHoldLifecycle
    EveryHoldIsClosed
    EveryRunAnswers
CHECK_DEADLOCK FALSE
