SPECIFICATION RunSpec
CONSTANTS
    r1 = r1
    r2 = r2
    e1 = e1
    c1 = c1
    c2 = c2
    Runs = {r1, r2}
    Editors = {e1}
    Calls = {c1, c2}
    MaxRetries = 1
    MaxSteps = 2
    MaxEdits = 1
    MaxStoreFailures = 1
SYMMETRY Symmetry
INVARIANTS
    NoLostUpdate
    OneSavePerRun
    ReportedFilmIsSaved
CHECK_DEADLOCK FALSE
