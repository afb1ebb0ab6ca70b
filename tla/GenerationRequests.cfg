SPECIFICATION MCSpec
CONSTANTS
    p1 = p1
    r1 = r1
    r2 = r2
    r3 = r3
    NoLease = NoLease
    Requests = {r1, r2, r3}
    Projects = {p1}
    ProjectOf <- MCProjectOf
    LeaseTtl = 2
    StaleAfter = 2
    MaxTime = 4
    MaxFailures = 1
    a1 = a1
    s1 = s1
    cut1 = cut1
    noModule = noModule
    Pictures = {a1}
    Tracks = {s1}
    Htmls <- MCHtmls
    Timelines = {cut1, noModule}
    Broken = {noModule}
    Starter <- MCStarter
    Absent = Absent
    Contents <- MCContents
    Faults <- MCFaults
    MaxRetries = 1
    MaxRuns = 1
    MaxEdits = 1
SYMMETRY Symmetry
INVARIANTS
    ResultsAreCharged
PROPERTIES
    LocksFollowTheirRequests
    HoldsFollowTheirRequests
    GateIsTrue
    AnswersAreTrue
CHECK_DEADLOCK FALSE
