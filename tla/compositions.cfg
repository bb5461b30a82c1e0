SPECIFICATION Spec
CONSTANTS
    p1 = p1  p2 = p2  t1 = t1
    Tenants <- MCTenants
    Procs <- MCProcs
    Down = Down  Idle = Idle  Inactive = Inactive  Refused = Refused
SYMMETRY MCSymmetry
INVARIANTS NoOrphan EvidenceIsReal DurableChoicesHold
PROPERTY RegistryMatchesCluster
