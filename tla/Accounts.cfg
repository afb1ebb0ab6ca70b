SPECIFICATION MCSpec
CONSTANTS
    u1 = u1
    u2 = u2
    team = team
    e1 = e1
    e2 = e2
    a1 = a1
    l1 = l1
    l2 = l2
    l3 = l3
    x1 = x1
    x2 = x2
    Users = {u1, u2}
    Teams = {team}
    TeamEdits = {e1, e2}
    Attempts = {a1}
    Logins = {l1, l2, l3}
    Logouts = {x1, x2}
INVARIANTS
    AccountsAreWhole
PROPERTIES
    LoginsEnd
    FreshDecisionsKeepAnOwner
    RemovedStaysOut
CHECK_DEADLOCK FALSE
