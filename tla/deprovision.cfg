SPECIFICATION DSpec
CONSTANTS
    t1 = t1  w1 = w1  o1 = o1  d1 = d1  d1b = d1b  dc = dc
    rA = rA  rB = rB  rC = rC  control = control  NoDb = NoDb
    Tenants = {t1}
    Databases = {d1, d1b, dc}
    ControlName = control
    NameOf <- MCNameOf
    ControlDb = dc
    Refs = {rA, rB, rC}
    ControlRef = rC
    Workers = {w1}
    Allowed <- MCRedrive
    Canonical <- MCCanonical
    Legacy = {}
    Faults = {"raise", "crash"}
    MaxOps = 3
    Operators = {o1}
    Homes <- MCHomes
    MaxDrops = 1
INVARIANTS OneTerminal CensusIsSound ReportAgrees
PROPERTIES DataOutlivesCalls ImplementsContract
CHECK_DEADLOCK FALSE
