---------------------------- MODULE MCDeployment -----------------------------
EXTENDS Deployment, TLC

CONSTANTS p1, p2, t1

MCProcs == {p1, p2}
MCTenants == {t1}
MCSymmetry == Permutations(MCProcs)
=============================================================================
