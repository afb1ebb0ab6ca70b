SPECIFICATION RunSpec
CONSTANTS
    r1 = r1
    r2 = r2
    e1 = e1
    c1 = c1
    c2 = c2
    Runs = {r1}
    Editors = {}
    Calls = {c1, c2}
    MaxRetries = 0
    MaxSteps = 2
    MaxEdits = 0
    MaxStoreFailures = 0
INVARIANTS
    GaveUpMeansNotSaved
CHECK_DEADLOCK FALSE
