-------------------------- MODULE LifecycleContract --------------------------
(***************************************************************************)
(* What the control plane promises about a tenant's lifecycle state,       *)
(* whatever it does inside: the record is created once, every later change *)
(* is an edge of a fixed table, and the audit trail names the edge that    *)
(* was taken.                                                              *)
(*                                                                         *)
(* `trail[t]` is the last transition record of t in control_audit          *)
(* (from_state, to_state); every earlier one is abstracted.                *)
(***************************************************************************)
CONSTANT Tenants

VARIABLES state, trail

vars == <<state, trail>>

\* TenantLifecycleState, the enumeration of records.py.
States == {"Registered", "Provisioning", "Verifying", "Ready", "Suspended",
           "Failed", "Quarantined", "Decommissioned"}

\* A tenant id with no row in control_tenants.
Absent == "Absent"

(***************************************************************************)
(* The transition table: what the registry's transitions allow, and the    *)
(* gate's own edges.  Entry into Verifying is open to every state but the  *)
(* two that ReassociateDatabase refuses, which is wider than the table of  *)
(* IC-002: verify takes Registered and Ready tenants into Verifying.       *)
(***************************************************************************)
Edges ==
    ({"Registered"} \X {"Provisioning"})
    \cup ((States \ {"Quarantined", "Decommissioned"}) \X {"Verifying"})
    \cup ({"Verifying"} \X {"Ready", "Failed", "Quarantined"})
    \cup ({"Ready"} \X {"Suspended"})
    \cup ({"Provisioning", "Failed"} \X {"Quarantined"})
    \cup ({"Registered", "Provisioning", "Suspended", "Failed", "Quarantined"}
            \X {"Decommissioned"})

\* A tenant is new, or failed its verification before the history begins.
Init ==
    \E Legacy \in SUBSET Tenants :
        /\ state = [t \in Tenants |-> IF t \in Legacy THEN "Failed" ELSE Absent]
        /\ trail = [t \in Tenants |-> IF t \in Legacy
                                      THEN [from |-> "Verifying", to |-> "Failed"]
                                      ELSE [from |-> Absent, to |-> Absent]]

\* RegisterTenant writes its audit record before the row exists.
AuditRegistration(t) ==
    /\ state[t] = Absent
    /\ trail' = [trail EXCEPT ![t] = [from |-> Absent, to |-> "Registered"]]
    /\ UNCHANGED state

Register(t) ==
    /\ state[t] = Absent
    /\ trail[t].to = "Registered"
    /\ state' = [state EXCEPT ![t] = "Registered"]
    /\ UNCHANGED trail

\* Every other change is one audited edge, state and trail together.
Transition(t) ==
    \E s \in States :
        /\ <<state[t], s>> \in Edges
        /\ state' = [state EXCEPT ![t] = s]
        /\ trail' = [trail EXCEPT ![t] = [from |-> state[t], to |-> s]]

Next == \E t \in Tenants : AuditRegistration(t) \/ Register(t) \/ Transition(t)

Spec == Init /\ [][Next]_vars
=============================================================================
