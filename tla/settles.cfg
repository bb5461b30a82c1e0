SPECIFICATION FairSpec
CONSTANTS
    t1 = t1  t2 = t2  t3 = t3  w1 = w1  w2 = w2  w3 = w3  d1 = d1  d2 = d2  dc = dc
    rA = rA  rB = rB  rC = rC  rD = rD  control = control  NoDb = NoDb
    Tenants = {t1, t2, t3}
    Databases = {d1, d2, dc}
    ControlName = control
    NameOf <- MCNameOf2
    ControlDb = dc
    Refs = {rA, rB, rC, rD}
    ControlRef = rC
    Workers = {w1, w2, w3}
    Allowed <- MCGates
    Canonical <- MCCanonical3
    Legacy = {t3}
    Faults = {}
    MaxOps = 3
INVARIANTS NoSharedDatabase SnapshotsCoherent HistoryNeverResumes
PROPERTY VerifyingSettles
CHECK_DEADLOCK FALSE
