SPECIFICATION MCSpec
CONSTANTS
    p1 = p1
    p2 = p2
    p3 = p3
    u1 = u1
    u2 = u2
    starter = starter
    pro = pro
    pack = pack
    poll = poll
    reconciler = reconciler
    None = None
    Payments = {p1, p3}
    Legacy = {p3}
    Users = {u1}
    Owners = {u1}
    Plans = {starter}
    Packs = {pack}
    Creditless = {}
    Polls = {poll}
    Reconciler = reconciler
    QrTtl = 1
    Grace = 1
    MinRemaining = 0
    MinInterval = 1
    Period = 3
    Subscriptions <- FirstSubscription
    MaxTime = 4
    MaxFailures = 1
    q1 = q1
    q2 = q2
    c1 = c1
    c2 = c2
    w1 = w1
    Requests = {q1, q2}
    Reconcilers = {c1, c2}
    Sweepers = {w1}
    Lookups = {q1, q2}
    Price = 2
    Parts = 4
INVARIANTS
    AnswersMeanWhatTheySay
PROPERTIES
    PaymentsEnd
    ShutdownIsSafe
    ServerGoesOn
CHECK_DEADLOCK FALSE
