--------------------------- MODULE TenantLifecycle ---------------------------
(***************************************************************************)
(* The control plane's tenant lifecycle: TenantRegistry (registry.py), the *)
(* readiness gate ProvisioningVerificationService (provisioning.py) and    *)
(* OnboardingOrchestrator (onboarding.py), run by several workers -- the   *)
(* operators and processes that share one Control DB.                      *)
(*                                                                         *)
(* One step is one committed transaction or one call to the outside.  The  *)
(* durable store commits a compare-and-swap together with its audit record *)
(* (postgres_store.py), so a transition is one step with three outcomes:   *)
(* both are written, the version has moved and neither is, or the store    *)
(* raises and neither is (Raise).  Between two steps of one call every     *)
(* other worker may run, and the caller keeps the record it read.          *)
(***************************************************************************)
EXTENDS Distinctness, Naturals

CONSTANTS
    Workers,        \* concurrent callers of the control plane
    Allowed,        \* the <<operation, tenant>> pairs each worker may call
    Canonical,      \* tenant_dsn_ref: the store_ref minted at onboarding
    Legacy,         \* tenants Failed with an isolation anomaly on record
    Faults,         \* which of "crash" and "raise" happen
    MaxOps          \* bound: calls started in one behaviour

Ops == {"onboard", "verify", "recover", "reassociate", "suspend",
        "decommission", "quarantine", "disable"}

ASSUME LifecycleAssumption ==
    /\ Allowed \in [Workers -> SUBSET (Ops \X Tenants)]
    /\ Canonical \in [Tenants -> Refs]
    /\ Legacy \subseteq Tenants
    /\ MaxOps \in Nat

VARIABLES
    tenants,        \* control_tenants: lifecycle state, version, association
    ledger,         \* control_distinctness_ledger: evidence by tenant
    trail,          \* last from_state/to_state pair of control_audit, by tenant
    anomalies,      \* tenants with an IsolationAnomaly record in control_audit
    dbs,            \* tenants whose target database exists
    verified,       \* history: the evidence on which the tenant became Ready
    unpaired,       \* history: tenants with a recovery attempt that has no terminal record
    job,            \* the call each worker is in, and its local variables
    ops             \* calls started so far

vars == <<tenants, ledger, trail, anomalies, dbs, verified, unpaired, job, ops>>

LC == INSTANCE LifecycleContract
        WITH state <- [t \in Tenants |-> tenants[t].state], trail <- trail

Absent == LC!Absent
States == LC!States

\* A row of control_tenants; NoRow is a tenant id with none.
Rows == [state : States \cup {Absent}, version : Nat, assoc : Refs]
NoRow == [state |-> Absent, version |-> 0, assoc |-> ControlRef]

(***************************************************************************)
(* A call's local variables.  `rec` is the TenantRecord it read or last    *)
(* wrote, `to` the target of a registry transition, `ref` the argument of  *)
(* reassociate, `ev` gathered evidence, `out` the gate's result.  `leg`    *)
(* tells which recovery attempt the call has announced in the audit trail: *)
(* "resume" and "recover" are inside the try that guarantees a terminal    *)
(* record, "classify" is the part of recover() that is not.                *)
(***************************************************************************)
Pcs == {"idle", "fence", "regRead", "regAudit", "regPut", "tRead", "tCas",
        "provision", "apply", "vRead", "vEnter", "vReread", "vProbe", "vDecide",
        "vDrop", "vRemove", "vRecord", "vReady", "vFail", "vAnomaly",
        "recRead", "recHistory", "reRead", "reCas", "disable", "terminal"}

Legs == {"none", "resume", "recover", "classify"}

Idle == [pc |-> "idle", t |-> ControlName, rec |-> NoRow, to |-> Absent,
         ref |-> ControlRef, ev |-> NoEvidence, out |-> "Incomplete",
         leg |-> "none", tries |-> 1]

Jobs == [pc : Pcs, t : Tenants \cup {ControlName}, rec : Rows,
         to : States \cup {Absent}, ref : Refs, ev : Evidence, out : Results,
         leg : Legs, tries : {1, 2}]

Init ==
    /\ tenants = [t \in Tenants |->
                    IF t \in Legacy
                    THEN [state |-> "Failed", version |-> 0, assoc |-> Canonical[t]]
                    ELSE NoRow]
    /\ ledger = [t \in Tenants |-> NoEvidence]
    /\ trail = [t \in Tenants |-> IF t \in Legacy
                                  THEN [from |-> "Verifying", to |-> "Failed"]
                                  ELSE [from |-> Absent, to |-> Absent]]
    /\ anomalies = Legacy
    /\ dbs = Legacy
    /\ verified = [t \in Tenants |-> NoEvidence]
    /\ unpaired = {}
    /\ job = [w \in Workers |-> Idle]
    /\ ops = 0

-----------------------------------------------------------------------------
(***************************************************************************)
(* How a call goes on.                                                     *)
(***************************************************************************)
Goto(w, pc) == job' = [job EXCEPT ![w].pc = pc]

GotoWith(w, pc, rec) == job' = [job EXCEPT ![w].pc = pc, ![w].rec = rec]

Done(w) == job' = [job EXCEPT ![w] = Idle]

\* The call has its result: a recovery attempt still writes its terminal record.
Settle(w) == IF job[w].leg = "none" THEN Done(w) ELSE Goto(w, "terminal")

\* The call raises: the except clauses of _resume and recover write it too.
Throw(w) ==
    /\ IF job[w].leg \in {"resume", "recover"} THEN Goto(w, "terminal") ELSE Done(w)
    /\ unpaired' = unpaired \cup (IF job[w].leg = "classify" THEN {job[w].t} ELSE {})

Quiet == UNCHANGED <<tenants, trail, verified>>
Local == Quiet /\ UNCHANGED <<ledger, anomalies, dbs, ops>>

\* Mutant: the UPDATE loses its version predicate.
FreshAlways(w) == job[w].pc # "idle"

(***************************************************************************)
(* compare_and_swap_tenant and the append_audit that commits it: the row   *)
(* of the snapshot, with a new state and association, at version + 1.      *)
(***************************************************************************)
Fresh(w) == tenants[job[w].t].version = job[w].rec.version

\* Mutant: the UPDATE does not increment the version.
SwappedSameVersion(w, s, ref) ==
    [state |-> s, version |-> job[w].rec.version, assoc |-> ref]

Swapped(w, s, ref) ==
    [state |-> s, version |-> job[w].rec.version + 1, assoc |-> ref]

Commit(w, s, ref) ==
    LET t == job[w].t IN
    /\ tenants' = [tenants EXCEPT ![t] = Swapped(w, s, ref)]
    /\ trail' = [trail EXCEPT ![t] = [from |-> job[w].rec.state, to |-> s]]
    /\ verified' = [verified EXCEPT ![t] = IF s = "Ready" THEN job[w].ev ELSE NoEvidence]
    /\ UNCHANGED <<ledger, anomalies, dbs, unpaired, ops>>

-----------------------------------------------------------------------------
(***************************************************************************)
(* A worker starts a call.                                                 *)
(***************************************************************************)
Entry == [onboard |-> "fence", verify |-> "vRead", recover |-> "recRead",
          reassociate |-> "reRead", suspend |-> "tRead", decommission |-> "tRead",
          quarantine |-> "tRead", disable |-> "disable"]

Target(op) ==
    CASE op = "suspend"      -> "Suspended"
      [] op = "decommission" -> "Decommissioned"
      [] op = "quarantine"   -> "Quarantined"
      [] OTHER               -> Absent

Start(w) ==
    /\ job[w].pc = "idle"
    /\ ops < MaxOps
    /\ \E c \in Allowed[w] :
        \E r \in (IF c[1] = "reassociate" THEN Refs ELSE {ControlRef}) :
            job' = [job EXCEPT ![w] = [Idle EXCEPT !.pc = Entry[c[1]], !.t = c[2],
                                                   !.to = Target(c[1]), !.ref = r]]
    /\ ops' = ops + 1
    /\ Quiet /\ UNCHANGED <<ledger, anomalies, dbs, unpaired>>

-----------------------------------------------------------------------------
(***************************************************************************)
(* TenantRegistry._transition, behind mark_provisioning, suspend_tenant,   *)
(* decommission_tenant and quarantine_tenant.                              *)
(***************************************************************************)
AllowedFrom ==
    [Provisioning   |-> {"Registered"},
     Suspended      |-> {"Ready"},
     Quarantined    |-> {"Provisioning", "Failed"},
     Decommissioned |-> {"Registered", "Provisioning", "Suspended", "Failed",
                         "Quarantined"}]

\* What the caller of the transition does next: onboard provisions, recover
\* writes its terminal record, a bare operation returns.
Proceed(w) ==
    IF job[w].to = "Provisioning" THEN Goto(w, "provision") ELSE Settle(w)

TransitionRead(w) ==
    LET j == job[w]  r == tenants[job[w].t] IN
    /\ j.pc = "tRead"
    /\ \/ r.state = j.to /\ Proceed(w) /\ UNCHANGED unpaired
       \/ r.state \in AllowedFrom[j.to] /\ GotoWith(w, "tCas", r) /\ UNCHANGED unpaired
       \/ r.state \notin AllowedFrom[j.to] \cup {j.to} /\ Throw(w)
    /\ Local

TransitionCas(w) ==
    /\ job[w].pc = "tCas"
    /\ \/ Fresh(w) /\ Commit(w, job[w].to, job[w].rec.assoc) /\ Proceed(w)
       \/ ~Fresh(w) /\ Throw(w) /\ Local

-----------------------------------------------------------------------------
(***************************************************************************)
(* OnboardingOrchestrator.onboard: the fence, RegisterTenant, and the tail *)
(* that a resumed run shares.                                              *)
(***************************************************************************)
Fence(w) ==
    LET s == tenants[job[w].t].state IN
    /\ job[w].pc = "fence"
    /\ \/ s \in {Absent, "Registered"} /\ Goto(w, "regRead")
       \/ s = "Provisioning"
          /\ job' = [job EXCEPT ![w].pc = "provision", ![w].leg = "resume"]
       \/ s \notin {Absent, "Registered", "Provisioning"} /\ Done(w)
    /\ Local /\ UNCHANGED unpaired

\* Mutant: RegisterTenant does not look for an existing record.
RegisterReadBlind(w) ==
    /\ job[w].pc = "regRead"
    /\ Goto(w, "regAudit")
    /\ Local /\ UNCHANGED unpaired

RegisterRead(w) ==
    /\ job[w].pc = "regRead"
    /\ IF tenants[job[w].t].state = Absent
       THEN Goto(w, "regAudit")
       ELSE job' = [job EXCEPT ![w].pc = "tRead", ![w].to = "Provisioning"]
    /\ Local /\ UNCHANGED unpaired

\* The registration record is committed before the row is written.
RegisterAudit(w) ==
    /\ job[w].pc = "regAudit"
    /\ trail' = [trail EXCEPT ![job[w].t] = [from |-> Absent, to |-> "Registered"]]
    /\ Goto(w, "regPut")
    /\ UNCHANGED <<tenants, verified, ledger, anomalies, dbs, unpaired, ops>>

\* put_tenant is an upsert: it does not look at the row it replaces.
RegisterPut(w) ==
    LET t == job[w].t IN
    /\ job[w].pc = "regPut"
    /\ tenants' = [tenants EXCEPT ![t] =
                    [state |-> "Registered", version |-> 0, assoc |-> Canonical[t]]]
    /\ verified' = [verified EXCEPT ![t] = NoEvidence]
    /\ job' = [job EXCEPT ![w].pc = "tRead", ![w].to = "Provisioning"]
    /\ UNCHANGED <<trail, ledger, anomalies, dbs, unpaired, ops>>

\* operator.provision is existence-checked; its failure is a result, no raise.
Provision(w) ==
    /\ job[w].pc = "provision"
    /\ \/ dbs' = dbs \cup {job[w].t} /\ Goto(w, "apply")
       \/ Settle(w) /\ UNCHANGED dbs
    /\ Quiet /\ UNCHANGED <<ledger, anomalies, unpaired, ops>>

ApplySchema(w) ==
    /\ job[w].pc = "apply"
    /\ Goto(w, "vRead") \/ Settle(w)
    /\ Local /\ UNCHANGED unpaired

Terminal(w) ==
    /\ job[w].pc = "terminal"
    /\ Done(w)
    /\ Local /\ UNCHANGED unpaired

-----------------------------------------------------------------------------
(***************************************************************************)
(* OnboardingOrchestrator.recover.  The started record is written as soon  *)
(* as the tenant was seen Failed; the try begins after the classification. *)
(***************************************************************************)
RecoverRead(w) ==
    /\ job[w].pc = "recRead"
    /\ \/ tenants[job[w].t].state = "Failed"
          /\ job' = [job EXCEPT ![w].pc = "recHistory", ![w].leg = "classify"]
          /\ UNCHANGED unpaired
       \/ tenants[job[w].t].state # "Failed" /\ Throw(w)
    /\ Local

\* Mutant: recover does not re-classify.
RecoverHistoryIgnored(w) ==
    /\ job[w].pc = "recHistory"
    /\ job' = [job EXCEPT ![w].pc = "vRead", ![w].leg = "recover"]
    /\ Local /\ UNCHANGED unpaired

RecoverHistory(w) ==
    /\ job[w].pc = "recHistory"
    /\ job' = IF job[w].t \in anomalies
              THEN [job EXCEPT ![w].pc = "tRead", ![w].to = "Quarantined"]
              ELSE [job EXCEPT ![w].pc = "vRead", ![w].leg = "recover"]
    /\ Local /\ UNCHANGED unpaired

-----------------------------------------------------------------------------
(***************************************************************************)
(* ProvisioningVerificationService.verify, the only writer of Ready.       *)
(***************************************************************************)
Refused == {Absent, "Decommissioned", "Suspended", "Quarantined"}

\* Mutant: the gate refuses a tenant that is already Verifying.
VerifyReadFirstOnly(w) ==
    LET r == tenants[job[w].t] IN
    /\ job[w].pc = "vRead"
    /\ \/ r.state \in Refused \cup {"Verifying"} /\ Throw(w)
       \/ r.state \notin Refused \cup {"Verifying"} /\ GotoWith(w, "vEnter", r) /\ UNCHANGED unpaired
    /\ Local

VerifyRead(w) ==
    LET r == tenants[job[w].t] IN
    /\ job[w].pc = "vRead"
    /\ \/ r.state \in Refused /\ Throw(w)
       \/ r.state \notin Refused /\ GotoWith(w, "vEnter", r) /\ UNCHANGED unpaired
    /\ Local

\* The CAS that arbitrates between verifiers and other lifecycle writers.
VerifyEnter(w) ==
    /\ job[w].pc = "vEnter"
    /\ \/ /\ Fresh(w)
          /\ Commit(w, "Verifying", job[w].rec.assoc)
          /\ GotoWith(w, "vProbe", Swapped(w, "Verifying", job[w].rec.assoc))
       \/ ~Fresh(w) /\ job[w].tries = 1 /\ Goto(w, "vReread") /\ Local /\ UNCHANGED unpaired
       \/ ~Fresh(w) /\ job[w].tries = 2 /\ Throw(w) /\ Local

\* Mutant: the loser retries whatever the winner did.
VerifyRereadNoYield(w) ==
    /\ job[w].pc = "vReread"
    /\ job' = [job EXCEPT ![w].pc = "vEnter", ![w].rec = tenants[job[w].t], ![w].tries = 2]
    /\ Local /\ UNCHANGED unpaired

\* The loser of the race yields, retries once at the new version, or raises.
VerifyReread(w) ==
    LET r == tenants[job[w].t] IN
    /\ job[w].pc = "vReread"
    /\ \/ /\ r.state \in {"Suspended", "Quarantined", "Decommissioned", "Failed"}
          /\ Settle(w) /\ UNCHANGED unpaired
       \/ /\ r.state \in {"Verifying", "Provisioning"}
          /\ job' = [job EXCEPT ![w].pc = "vEnter", ![w].rec = r, ![w].tries = 2]
          /\ UNCHANGED unpaired
       \/ r.state \in {Absent, "Registered", "Ready"} /\ Throw(w)
    /\ Local

Fail(w, pc, out) == job' = [job EXCEPT ![w].pc = pc, ![w].out = out]

\* Reachability and schema, then the secret-reference leg of DV-C7A.
VerifyProbe(w) ==
    /\ job[w].pc = "vProbe"
    /\ \/ Fail(w, "vRemove", "Incomplete")
       \/ Fail(w, "vRemove", "Failed")
       \/ job[w].rec.assoc = ControlRef /\ Fail(w, "vRemove", "Anomaly")
       \/ job[w].rec.assoc # ControlRef /\ Goto(w, "vDecide")
    /\ Local /\ UNCHANGED unpaired

\* gather, and the decision on the inventory as it is now.
VerifyDecide(w) ==
    LET t == job[w].t IN
    /\ job[w].pc = "vDecide"
    /\ \E ev \in Gathered(job[w].rec.assoc) :
        LET out == Decide(t, ev, ledger) IN
        job' = IF out = "Verified"
               THEN [job EXCEPT ![w].pc = "vRecord", ![w].ev = ev]
               ELSE [job EXCEPT ![w].pc = "vDrop", ![w].out = out]
    /\ Local /\ UNCHANGED unpaired

\* DistinctnessLedger.remove, in verify (vDrop) and again in _fail (vRemove).
VerifyRemove(w) ==
    /\ job[w].pc \in {"vDrop", "vRemove"}
    /\ ledger' = [ledger EXCEPT ![job[w].t] = NoEvidence]
    /\ Goto(w, IF job[w].pc = "vDrop" THEN "vRemove" ELSE "vFail")
    /\ Quiet /\ UNCHANGED <<anomalies, dbs, unpaired, ops>>

\* record_evidence arbitrates between tenants.
VerifyRecord(w) ==
    LET t == job[w].t IN
    /\ job[w].pc = "vRecord"
    /\ \/ /\ Collides(t, job[w].ev, ledger)
          /\ Fail(w, "vRemove", "Anomaly") /\ UNCHANGED ledger
       \/ /\ ~Collides(t, job[w].ev, ledger)
          /\ ledger' = [ledger EXCEPT ![t] = job[w].ev]
          /\ Goto(w, "vReady")
    /\ Quiet /\ UNCHANGED <<anomalies, dbs, unpaired, ops>>

\* Mutant: the Ready commit updates the state column of whatever row is there.
VerifyReadyBlind(w) ==
    LET t == job[w].t IN
    /\ job[w].pc = "vReady"
    /\ tenants' = [tenants EXCEPT ![t].state = "Ready", ![t].version = @ + 1]
    /\ trail' = [trail EXCEPT ![t] = [from |-> tenants[t].state, to |-> "Ready"]]
    /\ verified' = [verified EXCEPT ![t] = job[w].ev]
    /\ Settle(w)
    /\ UNCHANGED <<ledger, anomalies, dbs, unpaired, ops>>

VerifyReady(w) ==
    /\ job[w].pc = "vReady"
    /\ \/ Fresh(w) /\ Commit(w, "Ready", job[w].rec.assoc) /\ Settle(w)
       \/ ~Fresh(w) /\ Throw(w) /\ Local

\* _fail: an anomaly is quarantined at once, then put on record.
VerifyFail(w) ==
    /\ job[w].pc = "vFail"
    /\ \/ /\ Fresh(w) /\ job[w].out = "Anomaly"
          /\ Commit(w, "Quarantined", job[w].rec.assoc) /\ Goto(w, "vAnomaly")
       \/ /\ Fresh(w) /\ job[w].out # "Anomaly"
          /\ Commit(w, "Failed", job[w].rec.assoc) /\ Settle(w)
       \/ ~Fresh(w) /\ Throw(w) /\ Local

VerifyAnomaly(w) ==
    /\ job[w].pc = "vAnomaly"
    /\ anomalies' = anomalies \cup {job[w].t}
    /\ Settle(w)
    /\ Quiet /\ UNCHANGED <<ledger, dbs, unpaired, ops>>

-----------------------------------------------------------------------------
(***************************************************************************)
(* ProvisioningVerificationService.reassociate and disable_routing.        *)
(***************************************************************************)
ReassociateRead(w) ==
    LET r == tenants[job[w].t] IN
    /\ job[w].pc = "reRead"
    /\ \/ r.state \in {Absent, "Quarantined", "Decommissioned"} /\ Throw(w)
       \/ r.state \notin {Absent, "Quarantined", "Decommissioned"}
          /\ GotoWith(w, "reCas", r) /\ UNCHANGED unpaired
    /\ Local

ReassociateCas(w) ==
    /\ job[w].pc = "reCas"
    /\ \/ Fresh(w) /\ Commit(w, "Verifying", job[w].ref) /\ Goto(w, "vRead")
       \/ ~Fresh(w) /\ Throw(w) /\ Local

DisableRouting(w) ==
    /\ job[w].pc = "disable"
    /\ ledger' = [ledger EXCEPT ![job[w].t] = NoEvidence]
    /\ Done(w)
    /\ Quiet /\ UNCHANGED <<anomalies, dbs, unpaired, ops>>

-----------------------------------------------------------------------------
(***************************************************************************)
(* Faults: the store, the ledger or the audit log raises, or the process   *)
(* dies and its local variables with it.                                   *)
(***************************************************************************)
Raise(w) ==
    /\ "raise" \in Faults
    /\ job[w].pc \notin {"idle", "terminal"}
    /\ Throw(w)
    /\ Local

Crash(w) ==
    /\ "crash" \in Faults
    /\ job[w].pc # "idle"
    /\ Done(w)
    /\ Local /\ UNCHANGED unpaired

Step(w) ==
    \/ TransitionRead(w) \/ TransitionCas(w)
    \/ Fence(w) \/ RegisterRead(w) \/ RegisterAudit(w) \/ RegisterPut(w)
    \/ Provision(w) \/ ApplySchema(w) \/ Terminal(w)
    \/ RecoverRead(w) \/ RecoverHistory(w)
    \/ VerifyRead(w) \/ VerifyEnter(w) \/ VerifyReread(w) \/ VerifyProbe(w)
    \/ VerifyDecide(w) \/ VerifyRemove(w) \/ VerifyRecord(w) \/ VerifyReady(w)
    \/ VerifyFail(w) \/ VerifyAnomaly(w)
    \/ ReassociateRead(w) \/ ReassociateCas(w) \/ DisableRouting(w)

Next == \E w \in Workers : Start(w) \/ Step(w) \/ Raise(w) \/ Crash(w)

Spec == Init /\ [][Next]_vars

\* A worker that is in a call keeps running it.
FairSpec == Spec /\ \A w \in Workers : WF_vars(Step(w))

-----------------------------------------------------------------------------
(***************************************************************************)
(* Properties.                                                             *)
(***************************************************************************)
TypeOK ==
    /\ tenants \in [Tenants -> Rows]
    /\ ledger \in [Tenants -> Evidence]
    /\ trail \in [Tenants -> [from : States \cup {Absent}, to : States \cup {Absent}]]
    /\ anomalies \subseteq Tenants
    /\ dbs \subseteq Tenants
    /\ verified \in [Tenants -> Evidence]
    /\ unpaired \subseteq Tenants
    /\ job \in [Workers -> Jobs]
    /\ \A w \in Workers : job[w].pc # "idle" => job[w].t \in Tenants
    /\ ops \in 0..MaxOps

(***************************************************************************)
(* No two workers onboard the same tenant.  RegisterTenant is a read       *)
(* followed by an upsert and nothing in it arbitrates a race, so what      *)
(* follows is claimed for deployments that serialise registration.         *)
(***************************************************************************)
SingleRegistrar ==
    \A w1, w2 \in Workers, t \in Tenants :
        <<"onboard", t>> \in Allowed[w1] /\ <<"onboard", t>> \in Allowed[w2] => w1 = w2

(***************************************************************************)
(* The lifecycle implements its contract: whatever calls race, retry, fail *)
(* or die, a registered row only moves along the edges the contract allows *)
(* -- out of Quarantined only to Decommissioned -- and the audit trail     *)
(* shows exactly the edge that was taken.                                  *)
(***************************************************************************)
ImplementsContract == LC!Spec

(***************************************************************************)
(* The registry and the audit trail never disagree: the last transition on *)
(* record for a tenant ends in the state the registry holds, although the  *)
(* registration record is committed before the row (registry.py:98-109).   *)
(***************************************************************************)
TrailMatchesState ==
    \A t \in Tenants :
        tenants[t].state # Absent => trail[t].to = tenants[t].state

(***************************************************************************)
(* What a call may rely on between two of its steps, in terms of the job j *)
(* of worker w: its snapshot is never newer than the row and is the row    *)
(* while the version has not moved, so that a compare-and-swap that finds  *)
(* its version overwrites nothing unseen; the states it was admitted from  *)
(* are the ones its guards let through; a registration under way is of a   *)
(* tenant that still has no row.                                           *)
(***************************************************************************)
SnapshotPcs == {"tCas", "vEnter", "reCas", "vProbe", "vDecide", "vDrop", "vRemove",
                "vRecord", "vReady", "vFail"}
GatePcs == SnapshotPcs \ {"tCas", "vEnter", "reCas"}

Coherent(rec, row) ==
    /\ rec.state # Absent
    /\ row.state # Absent
    /\ rec.version <= row.version
    /\ rec.version = row.version => rec = row

Proven(t, ev, ref) ==
    /\ ev.db # NoDb /\ ev.ids /\ ev.sentinel
    /\ ev.key = ref
    /\ NameOf[ev.db] = t
    /\ ev.db # ControlDb /\ ref # ControlRef

JobCoherent(w, j, rows, last) ==
    /\ j.pc \in SnapshotPcs => Coherent(j.rec, rows[j.t])
    /\ j.pc \in {"tRead", "tCas"} => j.to \in DOMAIN AllowedFrom
    /\ j.pc = "tCas" => j.rec.state \in AllowedFrom[j.to]
    /\ j.pc = "vEnter" => j.rec.state \notin Refused
    /\ j.pc = "reCas" => j.rec.state \notin {"Quarantined", "Decommissioned"}
    /\ j.pc \in GatePcs => j.rec.state = "Verifying"
    /\ j.pc \in {"vRecord", "vReady"} => Proven(j.t, j.ev, j.rec.assoc)
    /\ j.pc \in {"fence", "regRead", "regAudit", "regPut"} =>
           <<"onboard", j.t>> \in Allowed[w]
    /\ j.pc \in {"regAudit", "regPut"} => rows[j.t].state = Absent
    /\ j.pc = "regPut" => last[j.t].to = "Registered"
    /\ j.pc = "vAnomaly" => rows[j.t].state \in {"Quarantined", "Decommissioned"}

SnapshotsCoherent == \A w \in Workers : JobCoherent(w, job[w], tenants, trail)

(***************************************************************************)
(* A tenant is Ready only on complete evidence that the association it has *)
(* now -- not one that a reassociation replaced while the gate was running *)
(* -- leads to its own database and not to the Control DB.                 *)
(***************************************************************************)
ReadyIsVerified ==
    \A t \in Tenants : tenants[t].state = "Ready" =>
        Proven(t, verified[t], tenants[t].assoc)

(***************************************************************************)
(* Isolation: two tenants are never both Ready on one physical database,   *)
(* even when their gates run interleaved and a sibling gate of one of them *)
(* drops evidence from the ledger in between.                              *)
(***************************************************************************)
NoSharedDatabase ==
    \A t, u \in Tenants :
        /\ t # u
        /\ tenants[t].state = "Ready"
        /\ tenants[u].state = "Ready"
        => verified[t].db # verified[u].db

(***************************************************************************)
(* An isolation anomaly that the gate put on record holds the tenant for   *)
(* good: no later call, and none that was already under way, brings it     *)
(* back (provisioning.py:405-413, "so a tenant resting in Failed is by     *)
(* construction non-anomalous").                                           *)
(***************************************************************************)
AnomalyHolds ==
    \A t \in anomalies \ Legacy :
        tenants[t].state \in {"Quarantined", "Decommissioned"}

(***************************************************************************)
(* RecoverTenant never re-enters the gate on an isolation-class history:   *)
(* a Failed tenant that carries one is quarantined, whoever else moves it  *)
(* meanwhile (onboarding.py:171-174).  Holds where recover() is the only   *)
(* gate operation called for such a tenant.                                *)
(***************************************************************************)
HistoryNeverResumes ==
    \A t \in Legacy : tenants[t].state \in {"Failed", "Quarantined", "Decommissioned"}

RecoverOnly ==
    \A w \in Workers, t \in Legacy :
        {<<"verify", t>>, <<"reassociate", t>>} \cap Allowed[w] = {}

(***************************************************************************)
(* A recovery attempt that announced itself ends with a terminal record    *)
(* (IC-002, Audit Requirements; onboarding.py:196).                        *)
(***************************************************************************)
AttemptsPaired == unpaired = {}

(***************************************************************************)
(* The gate settles: a tenant does not stay Verifying, however many        *)
(* verifiers and reassociations race for it, if no worker dies.            *)
(***************************************************************************)
VerifyingSettles ==
    \A t \in Tenants :
        tenants[t].state = "Verifying" ~> tenants[t].state # "Verifying"
=============================================================================
