SPECIFICATION Spec
CONSTANTS
    t1 = t1  t2 = t2  t3 = t3  w1 = w1  w2 = w2  w3 = w3  d1 = d1  d2 = d2  dc = dc
    rA = rA  rB = rB  rC = rC  rD = rD  control = control  NoDb = NoDb
    Tenants = {t1}
    Databases = {d1, dc}
    ControlName = control
    NameOf <- MCNameOf1
    ControlDb = dc
    Refs = {rA, rB, rC}
    ControlRef = rC
    Workers = {w1, w2, w3}
    Allowed <- MCRaces
    Canonical <- MCCanonical1
    Legacy = {}
    Faults = {"crash", "raise"}
    MaxOps = 4
INVARIANTS AnomalyHolds TrailMatchesState ReadyIsVerified
PROPERTY ImplementsContract
CHECK_DEADLOCK FALSE
