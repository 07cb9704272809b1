CONSTANTS
    p1 = p1
    p2 = p2
    a1 = a1
    a2 = a2
    r1 = r1
    r2 = r2
    s1 = s1
    s2 = s2
    People = {p1,p2}
    Accounts = {a1,a2}
    Rows = {r1,r2}
    Slots = {s1,s2}
    Calls = {"request", "feed", "cancel", "byhand", "check", "reply", "reassign", "warn"}
    Outcomes = {"sent", "profile_gone", "no_button", "blocked"}
    MaxTurns = 2
    Quota = 1
    MaxSession = 2
    MaxDay = 2
    Faults = TRUE

SPECIFICATION Spec
CONSTRAINT Explored
SYMMETRY Symmetry
CHECK_DEADLOCK FALSE
INVARIANTS
    DayWithinQuota
    HeldReportIsWhole
    

    
