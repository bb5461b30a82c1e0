--------------------------- MODULE MCDeprovisioning ---------------------------
(***************************************************************************)
(* Instances of Deprovisioning for TLC: one tenant, and a cluster on which *)
(* its database may be created twice.                                      *)
(***************************************************************************)
EXTENDS Deprovisioning, TLC

CONSTANTS t1, w1, o1, d1, d1b, dc, rA, rB, rC, control

MCNameOf == d1 :> t1 @@ d1b :> t1 @@ dc :> control
MCCanonical == t1 :> rA
MCHomes == t1 :> <<d1, d1b>>

\* A worker that onboards and re-drives the tenant while it is dropped.
MCRedrive == w1 :> ({"onboard", "recover", "verify", "reassociate"} \X {t1})
=============================================================================
