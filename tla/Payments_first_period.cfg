SPECIFICATION Spec
CONSTANTS
    p1 = p1
    p2 = p2
    p3 = p3
    u1 = u1
    u2 = u2
    starter = starter
    pro = pro
    pack = pack
    poll = poll
    reconciler = reconciler
    None = None
    Payments = {p1, p2}
    Legacy = {}
    Users = {u1}
    Owners = {u1}
    Plans = {starter}
    Packs = {}
    Creditless = {}
    Polls = {poll}
    Reconciler = reconciler
    QrTtl = 1
    Grace = 1
    MinRemaining = 0
    MinInterval = 1
    Period = 3
    Subscriptions <- FirstSubscription
    MaxTime = 5
    MaxFailures = 0
SYMMETRY Symmetry
PROPERTIES
    NoPeriodLost
CHECK_DEADLOCK FALSE
