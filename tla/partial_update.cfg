SPECIFICATION GSpec
CONSTANTS
    r1 = r1  r2 = r2  t1 = t1  t2 = t2  p1 = p1  su1 = su1  su2 = su2  gs1 = gs1  eyJ = eyJ
    NoRef = NoRef  Blank = Blank
    Slots = {r1, r2}
    Senders <- MCSenders
    Marked = {eyJ}
    Long = {}
    Strays <- MCStrays
    MaxFaults = 0
    Menu <- MCNamelessMenu
    Configs <- MCConfigs
    Tenants = {t1, t2}
    Principals = {p1}
    Members <- MCMembers
    Unsteady = {t1}
    Records <- MCRecords
    Sources = {gs1}
    TTL = 0
    MaxEntries = 2
    MaxNow = 1
    MaxChanges = 1
INVARIANTS FailedUpdatesLeaveNothing
CHECK_DEADLOCK FALSE
