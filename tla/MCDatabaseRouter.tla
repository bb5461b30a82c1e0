-------------------------- MODULE MCDatabaseRouter --------------------------
(***************************************************************************)
(* Instances of DatabaseRouter for TLC: a tenant that is re-associated,    *)
(* and a second whose view may be taken for the first one's.               *)
(***************************************************************************)
EXTENDS DatabaseRouter, TLC

CONSTANTS t1, t2, a1, a2, a3, b1, c1, c2, x1, x2, v1, v2

MCRefsOf == t1 :> {a1, a2, a3} @@ t2 :> {b1}

\* A re-association may come with another version, or keep the one it replaces.
MCVersions == a1 :> v1 @@ a2 :> v2 @@ a3 :> v1 @@ b1 :> v1

MCMisread == t1 :> {t2} @@ t2 :> {}

MCSymmetry ==
    Permutations({x1, x2}) \cup Permutations({c1, c2}) \cup Permutations({a1, a3})
=============================================================================
