----------------------------- MODULE Deployment ------------------------------
(***************************************************************************)
(* The processes operators start and stop, side by side, over one Control  *)
(* DB and one cluster, and what they do there: a control plane of any      *)
(* composition registers, onboards, verifies, drops and disables; an edge  *)
(* answers.  What a process holds in memory ends with it, at any step.     *)
(*                                                                         *)
(* The steps inside the operations of the control plane are those of       *)
(* TenantLifecycle and Deprovisioning.  Here an operation has the steps    *)
(* that reach different parts (registry, cluster, schema, gate), because   *)
(* the parts of a process may not belong together.                         *)
(***************************************************************************)
EXTENDS Composition, FiniteSets

CONSTANTS
    Tenants,
    Procs,          \* process slots
    Down,           \* the process is not running
    Idle            \* the process is in no operation

\* A control plane that runs is not one that is down.
ASSUME DeploymentAssumption ==
    Down \notin [kind : {"plane"}, store : {"memory", "durable"}, factory : {"fresh", "shared"},
                 operator : {"memory", "durable"}, applicator : {"memory", "durable"}, ledger : {"memory", "durable"},
                 gate : {"inMemory", "unresolved", "proven"}, chose : SUBSET {"registry"}]

VARIABLES
    proc,       \* what each process is composed of, or Down
    memory,     \* the in-memory registry of each process
    work,       \* the control-plane operation each process is in, or Idle
    rows,       \* lifecycle states in the Control DB's registry
    evidence,   \* control_distinctness_ledger: what kind of evidence a tenant has
    physical,   \* the tenant databases of the cluster
    accepted,   \* tenants registered where the operator had chosen the store
    held,       \* classes of events that only the process's memory holds
    lost        \* classes of a chosen sink that ended with a process

vars == <<proc, memory, work, rows, evidence, physical, accepted, held, lost>>

States == {"absent", "Registered", "Provisioning", "Verifying", "Ready", "Failed"}
NoRows == [t \in Tenants |-> "absent"]

-----------------------------------------------------------------------------
(***************************************************************************)
(* Everything some setting of the environment composes.                    *)
(***************************************************************************)
Planes == {ControlPlane(env, explicit) :
              env \in [Selectors -> Raw], explicit \in {"none", "memory", "durable"}}

ReadEdges ==
    LET envs == [Selectors -> Raw] IN
    {ReadApp(env) : env \in envs}
        \cup {ReadServer(env, host, port) : env \in envs, host \in Hosts, port \in Numbers}

AuthEdges ==
    LET envs == [authRead : Urls, issuers : Numbers] IN
    {AuthenticateApp(env) : env \in envs}
        \cup {AuthenticateServer(env, host, port) : env \in envs, host \in Hosts, port \in Numbers}

RouterEdges ==
    LET envs == [routingRead : Urls, routingAudit : Urls, routingAuditTimeout : Numbers] IN
    {DispatchApp(env) : env \in envs} \cup {TenantStartupApp(env) : env \in envs}
        \cup {DispatchServer(env, host, port) : env \in envs, host \in Hosts, port \in Numbers}
        \cup {TenantStartupServer(env, host, port) : env \in envs, host \in Hosts, port \in Numbers}

ImportEdges ==
    LET envs == [routingRead : Urls, routingAudit : Urls, routingAuditTimeout : Numbers,
                 directoryRead : Urls, importAudit : Urls] IN
    {ImportApp(env) : env \in envs}
        \cup {ImportServer(env, host, port) : env \in envs, host \in Hosts, port \in Numbers}

IngestEdges ==
    {RoutingAuditApp(ref) : ref \in References} \cup {GatewayAuditApp(ref) : ref \in References}
        \cup {ImportAuditApp(ref) : ref \in References}
        \cup UNION {{RoutingAuditServer(ref, host, port), GatewayAuditServer(ref, host, port),
                     ImportAuditServer(ref, host, port)} :
                        ref \in References, host \in Hosts, port \in Numbers}

GatewayEdges ==
    LET envs == [auth : Urls, router : Urls, controlRead : Urls,
                 audit : Urls, import : Urls, startup : Urls] IN
    {GatewayApp(env) : env \in envs}
        \cup {GatewayServer(env, host, port) : env \in envs, host \in Hosts, port \in Numbers}

Launches == (Planes \cup ReadEdges \cup AuthEdges \cup RouterEdges \cup ImportEdges
                \cup IngestEdges \cup GatewayEdges) \ {Refused}

-----------------------------------------------------------------------------
Init ==
    /\ proc = [p \in Procs |-> Down]
    /\ memory = [p \in Procs |-> NoRows]
    /\ work = [p \in Procs |-> Idle]
    /\ rows = NoRows
    /\ evidence = [t \in Tenants |-> "none"]
    /\ physical = [t \in Tenants |-> "absent"]
    /\ accepted = {}
    /\ held = [p \in Procs |-> {}]
    /\ lost = {}

\* Starting a process reads the environment of that moment.
Start(p) ==
    /\ proc[p] = Down
    /\ \E composed \in Launches : proc' = [proc EXCEPT ![p] = composed]
    /\ UNCHANGED <<memory, work, rows, evidence, physical, accepted, held, lost>>

\* A stop, or a crash in the middle of an operation.
Stop(p) ==
    /\ proc[p] # Down
    /\ proc' = [proc EXCEPT ![p] = Down]
    /\ memory' = [memory EXCEPT ![p] = NoRows]
    /\ work' = [work EXCEPT ![p] = Idle]
    /\ held' = [held EXCEPT ![p] = {}]
    /\ lost' = lost \cup (held[p] \cap proc[p].chose)
    /\ UNCHANGED <<rows, evidence, physical, accepted>>

\* An edge answers; the event is durable or the process's own.
Answer(p) ==
    /\ proc[p] # Down /\ proc[p].kind \notin {"plane", "read"}
    /\ \E class \in DOMAIN proc[p].audit :
        /\ proc[p].audit[class] = "memory"
        /\ held' = [held EXCEPT ![p] = @ \cup {class}]
    /\ UNCHANGED <<proc, memory, work, rows, evidence, physical, accepted, lost>>

-----------------------------------------------------------------------------
(***************************************************************************)
(* The registry of a plane: its own memory or the Control DB.              *)
(***************************************************************************)
Plane(p) == proc[p] # Down /\ proc[p].kind = "plane"
Calls(p) == Plane(p) /\ work[p] = Idle

Row(p, t) == IF proc[p].store = "durable" THEN rows[t] ELSE memory[p][t]

PutRow(p, t, s) ==
    IF proc[p].store = "durable"
    THEN rows' = [rows EXCEPT ![t] = s] /\ UNCHANGED memory
    ELSE memory' = [memory EXCEPT ![p][t] = s] /\ UNCHANGED rows

\* An operation begins through the guarded orchestrator or at the gate itself.
Begin(p, t, pc, via) == work' = [work EXCEPT ![p] = [t |-> t, pc |-> pc, via |-> via]]
Goto(p, pc) == work' = [work EXCEPT ![p].pc = pc]
Return(p) == work' = [work EXCEPT ![p] = Idle]

\* TenantRegistry.register_tenant: open to every plane, matched or mixed.
Register(p, t) ==
    /\ Calls(p) /\ Row(p, t) = "absent"
    /\ PutRow(p, t, "Registered")
    /\ accepted' = IF "registry" \in proc[p].chose THEN accepted \cup {t} ELSE accepted
    /\ UNCHANGED <<proc, work, evidence, physical, held, lost>>

MarkProvisioning(p, t) ==
    /\ Calls(p) /\ Row(p, t) = "Registered"
    /\ PutRow(p, t, "Provisioning")
    /\ UNCHANGED <<proc, work, evidence, physical, accepted, held, lost>>

(***************************************************************************)
(* OnboardingOrchestrator behind its guard: onboard, recover, reassociate. *)
(***************************************************************************)
Onboard(p, t) ==
    /\ Calls(p) /\ ~OnboardingDenied(proc[p])
    /\ Row(p, t) \in {"absent", "Registered", "Provisioning"}
    /\ PutRow(p, t, "Provisioning")
    /\ accepted' = IF "registry" \in proc[p].chose THEN accepted \cup {t} ELSE accepted
    /\ Begin(p, t, "provision", "guarded")
    /\ UNCHANGED <<proc, evidence, physical, held, lost>>

Recover(p, t) ==
    /\ Calls(p) /\ ~OnboardingDenied(proc[p])
    /\ Row(p, t) = "Failed"
    /\ Begin(p, t, "control", "guarded")
    /\ UNCHANGED <<proc, memory, rows, evidence, physical, accepted, held, lost>>

Reassociate(p, t) ==
    /\ Calls(p) /\ ~OnboardingDenied(proc[p])
    /\ Row(p, t) # "absent"
    /\ PutRow(p, t, "Verifying")
    /\ Begin(p, t, "control", "guarded")
    /\ UNCHANGED <<proc, evidence, physical, accepted, held, lost>>

(***************************************************************************)
(* The gate itself is a member of the plane (main.py:397): verify and      *)
(* reassociate look at the row, not at how the plane is composed.          *)
(***************************************************************************)
GateVerify(p, t) ==
    /\ Calls(p) /\ Row(p, t) # "absent"
    /\ Begin(p, t, "control", "gate")
    /\ UNCHANGED <<proc, memory, rows, evidence, physical, accepted, held, lost>>

GateReassociate(p, t) ==
    /\ Calls(p) /\ Row(p, t) # "absent"
    /\ PutRow(p, t, "Verifying")
    /\ Begin(p, t, "control", "gate")
    /\ UNCHANGED <<proc, evidence, physical, accepted, held, lost>>

\* The operator creates the target if it is not there; the applicator fills it.
\* Either may fail, and the call returns with the row as it is.
Provision(p) ==
    LET t == work[p].t IN
    /\ work[p] # Idle /\ work[p].pc = "provision"
    /\ \/ /\ physical' = IF proc[p].operator = "durable" /\ physical[t] = "absent"
                         THEN [physical EXCEPT ![t] = "bare"] ELSE physical
          /\ Goto(p, "apply")
       \/ Return(p) /\ UNCHANGED physical
    /\ UNCHANGED <<proc, memory, rows, evidence, accepted, held, lost>>

ApplySchema(p) ==
    LET t == work[p].t IN
    /\ work[p] # Idle /\ work[p].pc = "apply"
    /\ \/ /\ proc[p].applicator = "durable" => physical[t] # "absent"
          /\ physical' = IF proc[p].applicator = "durable"
                         THEN [physical EXCEPT ![t] = "schema"] ELSE physical
          /\ Goto(p, "control")
       \/ Return(p) /\ UNCHANGED physical
    /\ UNCHANGED <<proc, memory, rows, evidence, accepted, held, lost>>

-----------------------------------------------------------------------------
(***************************************************************************)
(* The gate.  _LazyControlEvidenceGate.verify gathers the Control DB's     *)
(* evidence when it is first called, and keeps it.                         *)
(***************************************************************************)
Gathers == {"proven", "unwritten", "nothing"}

\* Mutant: whatever the gather returned counts.
AnyEvidence(g) == IF g = "unwritten" THEN g ELSE "proven"

\* _proven_control_evidence: None unless the sentinel was written and read back.
ProvenControlEvidence(g) == IF g = "proven" THEN "proven" ELSE "nothing"

\* verify's entry: the row says Verifying, or a sibling's write was first.
Enter(p) ==
    \/ PutRow(p, work[p].t, "Verifying") /\ Goto(p, "verify")
    \/ UNCHANGED <<memory, rows>> /\ Return(p)

\* Mutant: the gate counts as resolved before the answer is looked at.
ResolveFirst(p) ==
    /\ work[p] # Idle /\ work[p].pc = "control"
    /\ \/ proc[p].gate # "unresolved" /\ Enter(p) /\ UNCHANGED proc
       \/ proc[p].gate = "unresolved"
          /\ \E g \in Gathers :
              LET control == ProvenControlEvidence(g) IN
              /\ proc' = [proc EXCEPT ![p].gate = control]
              /\ IF control = "nothing" THEN UNCHANGED <<memory, rows>> /\ Return(p) ELSE Enter(p)
    /\ UNCHANGED <<evidence, physical, accepted, held, lost>>

ResolveControl(p) ==
    /\ work[p] # Idle /\ work[p].pc = "control"
    /\ \/ proc[p].gate # "unresolved" /\ Enter(p) /\ UNCHANGED proc
       \/ proc[p].gate = "unresolved"
          /\ \E g \in Gathers :
              LET control == ProvenControlEvidence(g) IN
              IF control = "nothing"
              THEN Return(p) /\ UNCHANGED <<proc, memory, rows>>
              ELSE proc' = [proc EXCEPT ![p].gate = control] /\ Enter(p)
    /\ UNCHANGED <<evidence, physical, accepted, held, lost>>

\* What the gate's provider knows: a real gather beside proven control evidence,
\* or what the in-memory provider makes of the reference alone.
Gathered(p) ==
    IF proc[p].operator = "memory" THEN "derived"
    ELSE IF proc[p].gate = "proven" THEN "real" ELSE "unproven"

\* The row moves on from the gate's own Verifying; where a sibling's write is
\* first, or the store fails, it stays.  (Whose Verifying it is, the version
\* tells: TenantLifecycle has it.)
Conclude(p, t, s) ==
    \/ Row(p, t) = "Verifying" /\ PutRow(p, t, s)
    \/ UNCHANGED <<memory, rows>>

\* Probe, evidence, and the row, which the ledger is ahead of.  A live gate finds
\* what is there, the in-memory one (and its applicator) every target in order.
Verify(p) ==
    LET t == work[p].t
        live == proc[p].operator = "durable"
        inLedger(kind) == evidence' = IF proc[p].ledger = "durable"
                                      THEN [evidence EXCEPT ![t] = kind] ELSE evidence
    IN
    /\ work[p] # Idle /\ work[p].pc = "verify"
    /\ \/ /\ live => physical[t] = "schema"
          /\ inLedger(Gathered(p)) /\ Conclude(p, t, "Ready")
       \/ inLedger("none") /\ Conclude(p, t, "Failed")
    /\ Return(p)
    /\ UNCHANGED <<proc, physical, accepted, held, lost>>

-----------------------------------------------------------------------------
\* disable_routing: the guard of a mixed plane delegates it.
DisableRouting(p, t) ==
    /\ Calls(p)
    /\ evidence' = IF proc[p].ledger = "durable" THEN [evidence EXCEPT ![t] = "none"] ELSE evidence
    /\ UNCHANGED <<proc, memory, work, rows, physical, accepted, held, lost>>

\* deprovision_tenant_database: the plane's operator drops what its registry
\* calls unfinished, unless the inspection refuses.
Deprovision(p, t) ==
    /\ Calls(p) /\ ~RecoveryDenied(proc[p])
    /\ Row(p, t) \in {"Provisioning", "Failed"}
    /\ physical' = IF proc[p].operator = "durable" THEN [physical EXCEPT ![t] = "absent"] ELSE physical
    /\ UNCHANGED <<proc, memory, work, rows, evidence, accepted, held, lost>>

Next ==
    \E p \in Procs :
        \/ Start(p) \/ Stop(p) \/ Answer(p)
        \/ Provision(p) \/ ApplySchema(p) \/ ResolveControl(p) \/ Verify(p)
        \/ \E t \in Tenants :
            \/ Register(p, t) \/ MarkProvisioning(p, t)
            \/ Onboard(p, t) \/ Recover(p, t) \/ Reassociate(p, t)
            \/ GateVerify(p, t) \/ GateReassociate(p, t)
            \/ DisableRouting(p, t) \/ Deprovision(p, t)

Spec == Init /\ [][Next]_vars

-----------------------------------------------------------------------------

(***************************************************************************)
(* No database without a tenant: the cluster holds a tenant database only  *)
(* for a tenant the Control DB knows, whatever processes came and went.    *)
(* (A live operator beside an in-memory registry would leave an orphan     *)
(* when its process ends: the blocked half-live composition of RULE 1.)    *)
(***************************************************************************)
NoOrphan == \A t \in Tenants : physical[t] # "absent" => rows[t] # "absent"

(***************************************************************************)
(* The Control DB and the cluster tell of the same tenants.  A tenant is   *)
(* called Ready only at a moment its database is there with its schema,    *)
(* whatever a simulated provision and a simulated probe would have said,   *)
(* unless the writer is the gate of a mixed plane called by itself: no     *)
(* guard stands before that (see NoFakeReady).  And a plane drops a        *)
(* database only for a tenant the Control DB itself calls unfinished,      *)
(* never by what a registry of its own memory says.  (The window between   *)
(* the last inspection and the DROP is Deprovisioning's.)                  *)
(***************************************************************************)
MixedGateConcludes(t) ==
    \E p \in Procs :
        /\ work[p] # Idle /\ work[p].t = t /\ work[p].pc = "verify" /\ work[p].via = "gate"
        /\ Mixed(proc[p])
        /\ proc'[p] = proc[p] /\ work'[p] = Idle

ReadyIsPhysical(t) ==
    rows'[t] = "Ready" =>
        rows[t] = "Ready" \/ physical[t] = "schema" \/ MixedGateConcludes(t)

DropsAreTheRegistrys(t) ==
    physical[t] # "absent" /\ physical'[t] = "absent" => rows[t] \in {"Provisioning", "Failed"}

RegistryMatchesCluster ==
    [][\A t \in Tenants : ReadyIsPhysical(t) /\ DropsAreTheRegistrys(t)]_vars

(***************************************************************************)
(* No fake Ready: the Control DB never calls a tenant Ready that has no    *)
(* database (test_b5_runtime_deferral_guard.py:178-179: the guard closes   *)
(* "the documented 07D-2a residual (durable fake-READY)").  The guard has  *)
(* the orchestrator's entry points; the gate's own is open.                *)
(***************************************************************************)
NoFakeReady == \A t \in Tenants : rows[t] = "Ready" => physical[t] = "schema"

(***************************************************************************)
(* Durable distinctness evidence was gathered from the two databases: the  *)
(* ledger never holds what an in-memory provider derived from a reference  *)
(* or what stands beside a control database whose sentinel was not read    *)
(* back, whichever process of whichever composition wrote it.              *)
(***************************************************************************)
EvidenceIsReal == \A t \in Tenants : evidence[t] \in {"none", "real"}

(***************************************************************************)
(* What the operator gave a durable home survives the process: a           *)
(* registration taken where the registry was chosen is in the Control DB   *)
(* (a selector that is there and empty must not put it in memory), and no  *)
(* event of a class with a durable sink goes with a stop or a crash.       *)
(***************************************************************************)
DurableChoicesHold ==
    /\ \A t \in accepted : rows[t] # "absent"
    /\ lost = {}
=============================================================================
