SPECIFICATION Spec
CONSTANTS
    t1 = t1  t2 = t2  a1 = a1  a2 = a2  a3 = a3  b1 = b1  c1 = c1  c2 = c2
    x1 = x1  x2 = x2  v1 = v1  v2 = v2
    NoTenant = NoTenant  NoRef = NoRef  NoConn = NoConn
    Tenants = {t1, t2}
    Refs = {a1, a2, a3, b1}
    RefsOf <- MCRefsOf
    VersionOf <- MCVersions
    Versions = {v1, v2}
    Clients = {c1, c2}
    Conns = {x1, x2}
    Managers = {"interactive"}
    Max = 1
    Misread <- MCMisread
    Changing = {t1}
    Faults = {"audit"}
SYMMETRY MCSymmetry
INVARIANTS NoLeak RightDatabase AuditedBeforeUse Exclusive DrainedStaysOut
