SPECIFICATION MCSpec
CONSTANTS
    img1 = img1
    img2 = img2
    aud = aud
    fnt = fnt
    r1 = r1
    b1 = b1
    r2 = r2
    b2 = b2
    r3 = r3
    b3 = b3
    t1 = t1
    t2 = t2
    Images = {img1, img2}
    Sounds = {aud}
    Fonts = {fnt}
    Requests = {r1, r2, r3}
    Edits = {b1, b2, b3}
    Texts = {t1, t2}
    MaxLinks = 1
    hello = hello
    again = again
    Sayings = {hello, again}
    Reports <- MCReports
    HistoryLimit = 3
    InputRate = 1
    OutputRate = 5
    UnitCost = 14
    Grain = 4
    MinCharge = 1
    MaxCharge = 3
    UnreportedCharge = 2
    MaxTurns = 4
    MaxCalls = 3
    MaxSaves = 1
    Generations = {2, 4}
    Grants = {1}
    Expiries = {3}
    Limit = 1
    HoldUnits = 3
    Costs = {2}
    GrantUnits = 5
    MaxTime = 1
SYMMETRY Symmetry
INVARIANTS
    ChargeCoversCost
    PagesAddUp
PROPERTIES
    FilesAreThere
    PeoplesWorkIsKept
    ChatIsWhole
CHECK_DEADLOCK FALSE
