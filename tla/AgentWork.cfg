SPECIFICATION MCSpec
CONSTANTS
    t1 = t1
    t2 = t2
    t3 = t3
    r1 = r1
    r2 = r2
    Tables = {t1, t2, t3}
    Runs = {r1, r2}
    NumRows = 3
    MaxTables = 2
    MaxBatchSize = 2
    MaxSubagents = 2
    Sizes <- SmallSizes
    Lackable = {1}
    Concurrency <- MCConcurrency
    MaxSessions = 2
    l1 = l1
    l2 = l2
    w1 = w1
    w2 = w2
    n1 = n1
    Duration = 5
    Frame = 2
    Lengths = {3, 5, 7}
    Layers = {l1, l2}
    Spans <- MCSpans
    Tweens = {w1, w2}
    TweensOf <- MCTweensOf
    OwnScale <- MCOwnScale
    Speeds = {0, 16}
    Eases = {"none"}
    Texts <- MCTexts
    Unset = Unset
    Listeners = {n1}
    Throttle = 3
    MaxGap = 2
    MaxChanges = 2
    Columns <- MCColumns
    Values <- MCValues
    Records <- MCRecords
    Given <- MCGiven
    MaxNesting = 3
INVARIANTS
    OppositeTakesTheRest
    PlayerIsTrue
PROPERTIES
    ResultsAreKept
CHECK_DEADLOCK FALSE
