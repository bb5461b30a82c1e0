-------------------------- MODULE MCTenantLifecycle --------------------------
(***************************************************************************)
(* Instances of TenantLifecycle for TLC.  Tenants share the databases of   *)
(* two clusters; every reference may lead to any database.                 *)
(***************************************************************************)
EXTENDS TenantLifecycle, TLC

CONSTANTS t1, t2, t3, w1, w2, w3, d1, d2, dc, rA, rB, rC, rD, control

MCNameOf1 == d1 :> t1 @@ dc :> control
MCNameOf2 == d1 :> t1 @@ d2 :> t2 @@ dc :> control

MCCanonical1 == t1 :> rA

MCCanonical3 == t1 :> rA @@ t2 :> rB @@ t3 :> rD

(***************************************************************************)
(* Races on one tenant: an onboarding worker, one that re-points, one that *)
(* administers.                                                            *)
(***************************************************************************)
MCRaces ==
    w1 :> ({"onboard", "recover"} \X {t1})
    @@ w2 :> ({"verify", "reassociate", "quarantine"} \X {t1})
    @@ w3 :> ({"suspend", "decommission", "disable"} \X {t1})

(***************************************************************************)
(* Gates of one tenant race each other and a reassociation, the gate of a  *)
(* second tenant runs beside them, and a third has an anomaly history.     *)
(***************************************************************************)
MCGates ==
    w1 :> ({"onboard", "verify", "recover"} \X {t1})
    @@ w2 :> ({"verify", "reassociate", "suspend"} \X {t1})
    @@ w3 :> {<<"recover", t3>>, <<"onboard", t2>>}
=============================================================================
