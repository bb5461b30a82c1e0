---------------------------- MODULE Distinctness ----------------------------
(***************************************************************************)
(* Physical Distinctness Verification (control_plane/distinctness.py): the *)
(* decision of the verifier and the write guard of the evidence ledger, as *)
(* operators on evidence.                                                  *)
(*                                                                         *)
(* A physical database d is what a connection reaches.  Its fingerprint    *)
(* (system_identifier, datname:oid) is unique to d, its datname -- the     *)
(* observed_target of the evidence -- is NameOf[d] and need not be: a      *)
(* restored copy on another cluster keeps its name.                        *)
(***************************************************************************)
CONSTANTS
    Tenants,        \* tenant ids; t stands for the name sp2_tenant_<t> too
    Databases,      \* physical databases a secret may lead to
    ControlName,    \* datname of the Control DB
    NameOf,         \* the datname of each physical database
    ControlDb,      \* the Control DB itself
    NoDb,           \* the database of no evidence
    Refs,           \* store_refs of the secret store
    ControlRef      \* the store_ref of the Control DB

ASSUME DistinctnessAssumption ==
    /\ ControlName \notin Tenants
    /\ NameOf \in [Databases -> Tenants \cup {ControlName}]
    /\ ControlDb \in Databases
    /\ NameOf[ControlDb] = ControlName
    /\ NoDb \notin Databases
    /\ ControlRef \in Refs

(***************************************************************************)
(* DistinctnessEvidence.  `ids` says that system_identifier was read,      *)
(* `sentinel` that the write-sentinel was read back, `key` is the          *)
(* store_ref the connection went through.  A sentinel token is a fresh     *)
(* uuid and a sentinel namespace ends in the tenant id ("control" is a     *)
(* reserved id), so the sentinel legs of the comparisons never match and   *)
(* are left out.                                                           *)
(***************************************************************************)
Evidence == [db : Databases \cup {NoDb}, key : Refs, ids : BOOLEAN, sentinel : BOOLEAN]

NoEvidence == [db |-> NoDb, key |-> ControlRef, ids |-> FALSE, sentinel |-> FALSE]

Results == {"Verified", "Failed", "Incomplete", "Anomaly"}

(***************************************************************************)
(* What DistinctnessEvidenceProvider.gather may return for a reference:    *)
(* nothing, or the identity of whichever database the secret leads to.     *)
(***************************************************************************)
Gathered(ref) ==
    {NoEvidence} \cup [db : Databases, key : {ref}, ids : BOOLEAN, sentinel : BOOLEAN]

\* DV-C7A: some leg of the candidate resolves to the Control DB.
HitsControl(ev) ==
    \/ ev.db = ControlDb
    \/ NameOf[ev.db] = ControlName
    \/ ev.key = ControlRef

\* DV-C5/C6: some leg of the candidate is another tenant's.
HitsTenant(t, ev, inventory) ==
    \E u \in Tenants \ {t} :
        /\ inventory[u] # NoEvidence
        /\ \/ ev.db = inventory[u].db
           \/ NameOf[ev.db] = NameOf[inventory[u].db]
           \/ ev.key = inventory[u].key

(***************************************************************************)
(* PhysicalDistinctnessVerifier.verify.  DV-C1/C2/C4 first: without both   *)
(* identifiers and the sentinel nothing is compared.  DV-C3: the intended  *)
(* target of t is the database named after t.                              *)
(***************************************************************************)
Complete(ev) == ev # NoEvidence /\ ev.ids /\ ev.sentinel

\* Mutant: DV-C3, the provisioning-target check, is missing.
DecideAnyTarget(t, ev, inventory) ==
    IF ~Complete(ev) THEN "Incomplete"
    ELSE IF HitsControl(ev) \/ HitsTenant(t, ev, inventory) THEN "Anomaly" ELSE "Verified"

Decide(t, ev, inventory) ==
    IF ~Complete(ev) THEN "Incomplete"
    ELSE IF \/ NameOf[ev.db] # t
            \/ HitsControl(ev)
            \/ HitsTenant(t, ev, inventory)
         THEN "Anomaly"
         ELSE "Verified"

\* DistinctnessLedger.record_evidence raises DistinctnessCollisionError.
Collides(t, ev, ledger) ==
    \E u \in Tenants \ {t} : ledger[u] # NoEvidence /\ ledger[u].db = ev.db
=============================================================================
