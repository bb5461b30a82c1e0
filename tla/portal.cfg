SPECIFICATION Spec
CONSTANTS
    e1 = e1  e2 = e2  i1 = i1  i2 = i2  u1 = u1  t1 = t1  t2 = t2  p1 = p1  p2 = p2
    g1 = g1  g2 = g2  d1 = d1  d2 = d2  a1 = a1  a2 = a2  a3 = a3
    NoTenant = NoTenant  NoSource = NoSource  NoDatabase = NoDatabase
    NoMarker = NoMarker
    MarkerFor <- MCMarker
    Edges = {e1, e2}
    Servers = {i1, i2, u1}
    Serves <- MCServes
    Tenants = {t1, t2}
    Principals = {p1, p2}
    Sources = {g1, g2}
    Directory = {g1}
    Databases = {d1, d2}
    Assocs = {a1, a2, a3}
    DatabaseOf <- MCDatabaseOf
    Keyed = {t1}
    Menu <- MCMenu
    Registered <- MCRegistered
    Puts <- MCPuts
    Copies <- MCCopies
    Enrolled <- MCEnrolled
    Joiners <- MCJoiners
    MaxRequests = 1
    MaxInternal = 1
    MaxPuts = 1
    MaxFaults = 1
INVARIANTS ImportsAreWhole AnswersAreTrue LockServes
PROPERTIES WritesAreGranted CallsEnd
CHECK_DEADLOCK FALSE
