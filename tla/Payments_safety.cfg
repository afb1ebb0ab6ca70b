SPECIFICATION MCSpec
CONSTANTS
    p1 = p1
    p2 = p2
    p3 = p3
    u1 = u1
    u2 = u2
    starter = starter
    pro = pro
    pack = pack
    poll = poll
    reconciler = reconciler
    None = None
    Payments = {p1, p2}
    Legacy = {}
    Users = {u1}
    Owners = {u1}
    Plans = {starter, pro}
    Packs = {}
    Creditless = {pro}
    Polls = {poll}
    Reconciler = reconciler
    QrTtl = 1
    Grace = 1
    MinRemaining = 0
    MinInterval = 0
    Period = 3
    Subscriptions <- RunningSubscription
    MaxTime = 4
    MaxFailures = 1
    basic = basic
    b1 = b1
    b2 = b2
    r1 = r1
    Environments <- Deployments
    PlanIds = {basic}
    Buyers = {b1, b2}
    Purchasers = {b1}
    Rows = {r1}
    MaxPacks = 2
    Absent = Absent
SYMMETRY Symmetry
INVARIANTS
    PaidIsHonoured
PROPERTIES
    PaidOnceAndForGood
    NoPeriodLost
    TermsAreKept
CHECK_DEADLOCK FALSE
