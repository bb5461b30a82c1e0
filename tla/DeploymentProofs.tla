-------------------------- MODULE DeploymentProofs ---------------------------
(***************************************************************************)
(* Proofs about Deployment, for any tenants, any number of processes and   *)
(* everything the composition roots can compose: the cluster holds no      *)
(* database the Control DB does not know, evidence in it is real and so is *)
(* readiness, but for the gate of a mixed plane called by itself, and what *)
(* the operator gave a durable home does not end with a process.           *)
(***************************************************************************)
EXTENDS Deployment, TLAPS

-----------------------------------------------------------------------------
(***************************************************************************)
(* What every composed process is: a control plane whose live side is all  *)
(* live or all simulated, with a store the operator chose only if it is    *)
(* durable; or an edge that keeps in memory no event whose sink was named. *)
(***************************************************************************)
PlaneParts(c) ==
    /\ c = [kind |-> c.kind, store |-> c.store, factory |-> c.factory, operator |-> c.operator,
            applicator |-> c.applicator, ledger |-> c.ledger, gate |-> c.gate, chose |-> c.chose]
    /\ c.store \in {"memory", "durable"} /\ c.operator \in {"memory", "durable"}
    /\ c.factory \in {"fresh", "shared"} /\ c.chose \subseteq {"registry"}
    /\ c.applicator = c.operator /\ c.ledger = c.operator
    /\ c.gate \in IF c.operator = "memory" THEN {"inMemory"} ELSE {"unresolved", "proven"}
    /\ "registry" \in c.chose => c.store = "durable"

KeepsNothingNamed(c) == \A class \in DOMAIN c.audit : c.audit[class] = "memory" => class \notin c.chose

Composed(c) ==
    /\ c.kind = "plane" => PlaneParts(c)
    /\ c.kind \notin {"plane", "read"} => KeepsNothingNamed(c)

-----------------------------------------------------------------------------
(***************************************************************************)
(* The inductive invariant.                                                *)
(***************************************************************************)
TypeOk ==
    /\ proc = [p \in Procs |-> proc[p]]
    /\ memory \in [Procs -> [Tenants -> States]]
    /\ work = [p \in Procs |-> work[p]]
    /\ rows \in [Tenants -> States]
    /\ evidence = [t \in Tenants |-> evidence[t]]
    /\ physical \in [Tenants -> {"absent", "bare", "schema"}]
    /\ held = [p \in Procs |-> held[p]]

ProcInv == \A p \in Procs : proc[p] # Down => Composed(proc[p])

\* An operation under way is of a tenant the plane's registry knows.  Through the
\* orchestrator it is of a plane that is not mixed, and only so does it provision.
WorkOk(p) ==
    work[p] # Idle =>
        /\ work[p] = [t |-> work[p].t, pc |-> work[p].pc, via |-> work[p].via]
        /\ work[p].t \in Tenants /\ work[p].pc \in {"provision", "apply", "control", "verify"}
        /\ work[p].via \in {"guarded", "gate"}
        /\ work[p].via = "guarded" => ~Mixed(proc[p])
        /\ work[p].pc \in {"provision", "apply"} => work[p].via = "guarded"
        /\ Plane(p)
        /\ Row(p, work[p].t) # "absent"
        /\ work[p].pc = "verify" => proc[p].gate # "unresolved"

WorkInv == \A p \in Procs : WorkOk(p)

HeldOk(p) ==
    /\ proc[p] = Down => held[p] = {}
    /\ proc[p] # Down => held[p] \cap proc[p].chose = {}

HeldInv == \A p \in Procs : HeldOk(p)

IInv ==
    /\ TypeOk /\ ProcInv /\ WorkInv /\ HeldInv /\ NoOrphan /\ EvidenceIsReal
    /\ accepted \subseteq Tenants /\ DurableChoicesHold

-----------------------------------------------------------------------------
(***************************************************************************)
(* What the composition roots compose.                                     *)
(***************************************************************************)
LEMMA PlanesAreComposed ==
    ASSUME NEW env, NEW explicit \in {"none", "memory", "durable"}, ControlPlane(env, explicit) # Refused
    PROVE  /\ ControlPlane(env, explicit).kind = "plane"
           /\ PlaneParts(ControlPlane(env, explicit))
PROOF
<1> DEFINE c == ControlPlane(env, explicit)
<1>1. PICK store, operator, applicator, ledger :
        /\ store = Store(env, explicit) /\ operator = Provisioning(env)
        /\ applicator = SchemaApplicator(env) /\ ledger = Ledger(env)
  OBVIOUS
<1>2. PICK chose : chose = IF explicit = "none" /\ env.store \notin {"unset", "in_memory"} THEN {"registry"} ELSE {}
  OBVIOUS
<1>3. /\ Coherent(env) /\ Refused \notin {store, operator, applicator, ledger}
      /\ c = [kind |-> "plane", store |-> store, factory |-> StoreFactory(store, explicit), operator |-> operator,
              applicator |-> applicator, ledger |-> ledger, gate |-> Gate(operator), chose |-> chose]
  BY <1>1, <1>2 DEF ControlPlane
<1> HIDE DEF c
<1>4. \A token : Backend(token) # Refused =>
          Backend(token) = IF token = "postgres" THEN "durable" ELSE "memory"
  BY DEF Backend
<1>5. \A token : Backend(token) # Refused => token \in {"in_memory", "postgres"}
  BY DEF Backend
<1>6. operator = applicator /\ operator = ledger /\ operator \in {"memory", "durable"}
  BY <1>1, <1>3, <1>4, <1>5 DEF Coherent, Provisioning, SchemaApplicator, Ledger, Live, Selectors
<1>7. store \in {"memory", "durable"}
  BY <1>1, <1>3, <1>4 DEF Store
<1>8. ASSUME "registry" \in chose PROVE store = "durable"
  <2>1. explicit = "none" /\ env.store \notin {"unset", "in_memory"}
    BY <1>2, <1>8
  <2>2. store = Backend(ControlStoreSelector(env.store))
    BY <1>1, <2>1 DEF Store
  <2>3. ControlStoreSelector(env.store) \in {"in_memory", "postgres"}
    BY <1>3, <1>5, <2>2
  <2>4. ControlStoreSelector(env.store) # "in_memory"
    BY <2>1, CompositionAssumption DEF ControlStoreSelector
  <2> QED BY <1>3, <1>4, <2>2, <2>3, <2>4
<1>9. Gate(operator) = IF operator = "memory" THEN "inMemory" ELSE "unresolved"
  BY <1>6 DEF Gate
<1>10. /\ c.kind = "plane" /\ c.store = store /\ c.operator = operator /\ c.applicator = applicator
       /\ c.ledger = ledger /\ c.gate = Gate(operator) /\ c.chose = chose
  BY <1>3
<1>11. c = [kind |-> c.kind, store |-> c.store, factory |-> c.factory, operator |-> c.operator,
            applicator |-> c.applicator, ledger |-> c.ledger, gate |-> c.gate, chose |-> c.chose]
  BY <1>3
<1>12. c.factory = StoreFactory(store, explicit) /\ c.factory \in {"fresh", "shared"} /\ c.chose \subseteq {"registry"}
  BY <1>2, <1>3, <1>10 DEF StoreFactory
<1>13. PlaneParts(c)
  BY <1>6, <1>7, <1>8, <1>9, <1>10, <1>11, <1>12 DEF PlaneParts
<1> QED BY <1>10, <1>13 DEF c

\* A control plane is not down.
LEMMA PlaneIsUp ==
    ASSUME NEW c, PlaneParts(c), c.kind = "plane"
    PROVE  c # Down
PROOF
<1>1. PICK kind, store, factory, operator, gate, chose :
        /\ kind = "plane" /\ store = c.store /\ factory = c.factory /\ operator = c.operator /\ gate = c.gate
        /\ chose = c.chose
  OBVIOUS
<1>2. c = [kind |-> kind, store |-> store, factory |-> factory, operator |-> operator, applicator |-> operator,
           ledger |-> operator, gate |-> gate, chose |-> chose]
  BY <1>1 DEF PlaneParts
<1>3. /\ store \in {"memory", "durable"} /\ factory \in {"fresh", "shared"} /\ operator \in {"memory", "durable"}
      /\ gate \in {"inMemory", "unresolved", "proven"} /\ chose \in SUBSET {"registry"}
  BY <1>1 DEF PlaneParts
<1> QED BY <1>1, <1>2, <1>3, DeploymentAssumption

\* An edge, or the lack of one.
Edge(app) == app \notin {Inactive, Refused} => app.kind \notin {"plane", "read"} /\ KeepsNothingNamed(app)

LEMMA EntriesAreEdges ==
    ASSUME NEW app, Edge(app), NEW host, NEW port
    PROVE  /\ Entry(app) # Refused => Composed(Entry(app))
           /\ Entry(Server(app, host, port)) # Refused => Composed(Entry(Server(app, host, port)))
PROOF
<1>1. ASSUME app \notin {Inactive, Refused} PROVE Composed(app)
  BY <1>1 DEF Edge, Composed
<1>2. Server(app, host, port) \in {Inactive, Refused} \/ (Server(app, host, port) = app /\ app \notin {Inactive, Refused})
  BY DEF Server
<1>3. Entry(app) \in {app, Refused} /\ (Entry(app) # Refused => app \notin {Inactive, Refused})
  BY DEF Entry
<1>4. Entry(Server(app, host, port)) # Refused =>
          Entry(Server(app, host, port)) = app /\ app \notin {Inactive, Refused}
  BY <1>2 DEF Entry
<1> QED BY <1>1, <1>3, <1>4

\* A sink that a variable names is durable, wherever the process was composed.
LEMMA NamedIsDurable ==
    ASSUME NEW url, NEW class
    PROVE  Sink(Client(url)) = "memory" => Named(url, class) = {}
PROOF
BY CompositionAssumption DEF Sink, Client, Named

LEMMA OneClass ==
    ASSUME NEW kind, kind \notin {"plane", "read"}, NEW class, NEW audit, NEW chose,
           DOMAIN audit = {class}, audit[class] = "memory" => class \notin chose
    PROVE  Edge(App(kind, audit, chose))
PROOF
<1> DEFINE app == App(kind, audit, chose)
<1>1. app.kind = kind /\ app.audit = audit /\ app.chose = chose
  BY DEF App
<1> HIDE DEF app
<1>2. DOMAIN app.audit = {class}
  BY <1>1
<1> QED BY <1>1, <1>2 DEF Edge, KeepsNothingNamed, app

LEMMA RoutersAreEdges ==
    ASSUME NEW env, NEW kind \in {"dispatch", "startup", "router"}
    PROVE  /\ Edge(Router(env, kind))
           /\ Router(env, kind) \notin {Inactive, Refused} =>
                /\ Router(env, kind).audit["route"] = Sink(Client(env.routingAudit))
                /\ Router(env, kind).chose = Named(env.routingAudit, "route")
PROOF
<1>1. CASE Router(env, kind) \in {Inactive, Refused}
  BY <1>1 DEF Edge
<1>2. CASE Router(env, kind) \notin {Inactive, Refused}
  <2>1. PICK sink, chose, audit :
          /\ sink = Sink(RoutingAudit(env)) /\ chose = Named(env.routingAudit, "route") /\ audit = [route |-> sink]
    OBVIOUS
  <2>2. Router(env, kind) = App(kind, audit, chose) /\ RoutingAudit(env) = Client(env.routingAudit)
    BY <1>2, <2>1 DEF Router, RoutingAudit
  <2>3. DOMAIN audit = {"route"} /\ audit["route"] = sink
    BY <2>1
  <2>4. sink = "memory" => chose = {}
    BY <2>1, <2>2, NamedIsDurable
  <2>5. Edge(App(kind, audit, chose))
    BY <2>3, <2>4, OneClass
  <2>6. App(kind, audit, chose).audit = audit /\ App(kind, audit, chose).chose = chose
    BY DEF App
  <2> QED BY <2>1, <2>2, <2>3, <2>5, <2>6
<1> QED BY <1>1, <1>2

LEMMA ImportsAreEdges ==
    ASSUME NEW env, NEW router, router = Router(env, "router"), router \notin {Inactive, Refused}
    PROVE  ImportService(env, router) # Refused =>
               ImportService(env, router).kind = "import" /\ KeepsNothingNamed(ImportService(env, router))
PROOF
<1> SUFFICES ASSUME ImportService(env, router) # Refused
             PROVE  ImportService(env, router).kind = "import" /\ KeepsNothingNamed(ImportService(env, router))
  OBVIOUS
<1>1. PICK route, sink, chose, audit :
        /\ route = router.audit["route"] /\ sink = Sink(ImportAuditSink(env))
        /\ chose = router.chose \cup Named(env.importAudit, "import")
        /\ audit = [route |-> route, import |-> sink]
  OBVIOUS
<1>2. ImportService(env, router) = App("import", audit, chose)
  BY <1>1 DEF ImportService
<1>3. route = Sink(Client(env.routingAudit)) /\ router.chose = Named(env.routingAudit, "route")
  BY <1>1, RoutersAreEdges
<1>4. sink = Sink(Client(env.importAudit))
  BY <1>1 DEF ImportAuditSink
<1>5. chose = Named(env.routingAudit, "route") \cup Named(env.importAudit, "import")
  BY <1>1, <1>3
<1>6. (route = "memory" => "route" \notin chose) /\ (sink = "memory" => "import" \notin chose)
  BY <1>3, <1>4, <1>5, NamedIsDurable DEF Named
<1>7. DOMAIN audit = {"route", "import"} /\ audit["route"] = route /\ audit["import"] = sink
  BY <1>1
<1> DEFINE app == App("import", audit, chose)
<1>8. app.kind = "import" /\ app.audit = audit /\ app.chose = chose
  BY DEF App
<1> HIDE DEF app
<1>9. KeepsNothingNamed(app)
  BY <1>6, <1>7, <1>8 DEF KeepsNothingNamed
<1> QED BY <1>2, <1>8, <1>9 DEF app

LEMMA AuthenticatorsAreEdges == ASSUME NEW env PROVE Edge(Authenticator(env))
PROOF
<1>1. PICK audit, chose : audit = [auth |-> "memory"] /\ chose = {}
  OBVIOUS
<1>2. DOMAIN audit = {"auth"}
  BY <1>1
<1>3. Edge(App("auth", audit, chose))
  BY <1>1, <1>2, OneClass
<1>4. Authenticator(env) \in {Inactive, Refused, App("auth", audit, chose)}
  BY <1>1 DEF Authenticator
<1> QED BY <1>3, <1>4 DEF Edge

LEMMA IngestsAreEdges ==
    ASSUME NEW kind \in {"routing_audit", "gateway_audit", "import_audit"}, NEW store \in {Refused, "durable"}
    PROVE  Edge(Ingest(kind, store))
PROOF
<1>1. PICK audit, chose : audit = [row |-> store] /\ chose = {"row"}
  OBVIOUS
<1>2. DOMAIN audit = {"row"} /\ audit["row"] = store
  BY <1>1
<1>3. store = "durable" => Edge(App(kind, audit, chose))
  BY <1>2, OneClass
<1>4. Ingest(kind, store) = IF store = Refused THEN Refused ELSE App(kind, audit, chose)
  BY <1>1 DEF Ingest
<1> QED BY <1>3, <1>4 DEF Edge

LEMMA GatewaysAreEdges == ASSUME NEW env PROVE Edge(GatewayDeps(env))
PROOF
<1> SUFFICES ASSUME GatewayDeps(env) \notin {Inactive, Refused}
             PROVE  Edge(GatewayDeps(env))
  BY DEF Edge
<1>1. PICK required, audit, chose :
        /\ required = {GatewayAuthenticator(env), GatewayControlRead(env), GatewayRouterDispatch(env)}
        /\ audit = Partition(Sink(AuditEmitter(env)))
        /\ chose = IF Blank(env.audit) THEN {} ELSE Homed
  OBVIOUS
<1>2. GatewayDeps(env) = [kind |-> "gateway", required |-> required, audit |-> audit, chose |-> chose]
  BY <1>1 DEF GatewayDeps
<1>3. PICK app : app = GatewayDeps(env)
  OBVIOUS
<1>4. app.kind = "gateway" /\ app.audit = audit /\ app.chose = chose
  BY <1>2, <1>3
<1>5. Sink(AuditEmitter(env)) = "memory" => Blank(env.audit)
  BY CompositionAssumption DEF Sink, AuditEmitter, Client
<1>6. ASSUME NEW class \in DOMAIN audit, audit[class] = "memory" PROVE class \notin chose
  <2>1. class \in Homed => Sink(AuditEmitter(env)) = "memory"
    BY <1>1, <1>6 DEF Partition
  <2> QED BY <1>1, <1>5, <2>1
<1> QED BY <1>3, <1>4, <1>6 DEF Edge, KeepsNothingNamed

\* Whatever a process starts as is well composed.
LEMMA LaunchesAreComposed == \A composed \in Launches : Composed(composed)
PROOF
<1> SUFFICES ASSUME NEW composed \in Launches PROVE Composed(composed)
  OBVIOUS
<1>0. composed # Refused
  BY DEF Launches
<1>1. CASE composed \in Planes
  <2>1. PICK env \in [Selectors -> Raw], explicit \in {"none", "memory", "durable"} : composed = ControlPlane(env, explicit)
    BY <1>1 DEF Planes
  <2> QED BY <1>0, <2>1, PlanesAreComposed DEF Composed
<1>2. CASE composed \in ReadEdges
  <2>1. ASSUME NEW env PROVE ReadEdge(env) # Refused => ReadEdge(env).kind = "read"
    <3>1. PICK plane : plane = ControlPlane(env, "none")
      OBVIOUS
    <3> QED BY <3>1 DEF ReadEdge
  <2>2. PICK env \in [Selectors -> Raw] :
          composed = ReadApp(env) \/ \E host \in Hosts, port \in Numbers : composed = ReadServer(env, host, port)
    BY <1>2 DEF ReadEdges
  <2>3. \A host, port : Entry(Server(ReadEdge(env), GatedHost(host), port)) \in {ReadEdge(env), Refused}
    BY DEF Entry, Server
  <2>4. composed = ReadEdge(env)
    BY <1>0, <2>2, <2>3 DEF ReadApp, ReadServer, Entry
  <2> QED BY <1>0, <2>1, <2>4 DEF Composed
<1>3. CASE composed \in AuthEdges
  <2>1. PICK env : composed = AuthenticateApp(env) \/ \E host, port : composed = AuthenticateServer(env, host, port)
    BY <1>3 DEF AuthEdges
  <2>2. Edge(Authenticator(env))
    BY AuthenticatorsAreEdges
  <2>3. \/ composed = Entry(Authenticator(env))
        \/ \E host, port : composed = Entry(Server(Authenticator(env), DefaultHost(host), port))
    BY <2>1 DEF AuthenticateApp, AuthenticateServer
  <2> QED BY <1>0, <2>2, <2>3, EntriesAreEdges
<1>4. CASE composed \in RouterEdges
  <2>1. ASSUME NEW env, NEW kind \in {"dispatch", "startup"},
               \/ composed = Entry(Router(env, kind))
               \/ \E host, port : composed = Entry(Server(Router(env, kind), DefaultHost(host), port))
        PROVE  Composed(composed)
    <3>1. Edge(Router(env, kind))
      BY RoutersAreEdges
    <3> QED BY <1>0, <2>1, <3>1, EntriesAreEdges
  <2>2. PICK env : \/ composed = DispatchApp(env) \/ composed = TenantStartupApp(env)
                   \/ \E host, port : composed = DispatchServer(env, host, port)
                   \/ \E host, port : composed = TenantStartupServer(env, host, port)
    BY <1>4 DEF RouterEdges
  <2>3. CASE composed = DispatchApp(env) \/ \E host, port : composed = DispatchServer(env, host, port)
    BY <2>1, <2>3 DEF DispatchApp, DispatchServer
  <2>4. CASE composed = TenantStartupApp(env) \/ \E host, port : composed = TenantStartupServer(env, host, port)
    BY <2>1, <2>4 DEF TenantStartupOps, TenantStartupApp, TenantStartupServer
  <2> QED BY <2>2, <2>3, <2>4
<1>5. CASE composed \in ImportEdges
  <2>1. PICK env : composed = ImportApp(env) \/ \E host, port : composed = ImportServer(env, host, port)
    BY <1>5 DEF ImportEdges
  <2>2. PICK router : router = Router(env, "router")
    OBVIOUS
  <2>3. router \notin {Inactive, Refused}
    BY <1>0, <2>1, <2>2 DEF ImportApp, ImportServer
  <2>4. PICK app : app = ImportService(env, router)
    OBVIOUS
  <2>5. app # Refused => app.kind = "import" /\ KeepsNothingNamed(app)
    BY <2>2, <2>3, <2>4, ImportsAreEdges
  <2>6. ASSUME composed = ImportApp(env) PROVE Composed(composed)
    <3>1. composed = app
      BY <2>2, <2>3, <2>4, <2>6 DEF ImportApp
    <3> QED BY <1>0, <2>5, <3>1 DEF Composed
  <2>7. ASSUME NEW host, NEW port, composed = ImportServer(env, host, port) PROVE Composed(composed)
    <3>1. composed = Entry(Server(app, LoopbackHost(host), port))
      BY <2>2, <2>3, <2>4, <2>7 DEF ImportServer
    <3>2. Edge(app)
      BY <2>5 DEF Edge
    <3> QED BY <1>0, <3>1, <3>2, EntriesAreEdges
  <2> QED BY <2>1, <2>6, <2>7
<1>6. CASE composed \in IngestEdges
  <2>1. \A ref : {RoutingAuditStore(ref), GatewayAuditStore(ref), ImportAuditStore(ref)} \subseteq {Refused, "durable"}
    BY DEF RoutingAuditStore, GatewayAuditStore, ImportAuditStore
  <2>2. \A ref, host, port :
          /\ RoutingAuditApp(ref) # Refused => Composed(RoutingAuditApp(ref))
          /\ GatewayAuditApp(ref) # Refused => Composed(GatewayAuditApp(ref))
          /\ ImportAuditApp(ref) # Refused => Composed(ImportAuditApp(ref))
          /\ RoutingAuditServer(ref, host, port) # Refused => Composed(RoutingAuditServer(ref, host, port))
          /\ GatewayAuditServer(ref, host, port) # Refused => Composed(GatewayAuditServer(ref, host, port))
          /\ ImportAuditServer(ref, host, port) # Refused => Composed(ImportAuditServer(ref, host, port))
    BY <2>1, IngestsAreEdges, EntriesAreEdges DEF RoutingAuditApp, GatewayAuditApp, ImportAuditApp,
       RoutingAuditServer, GatewayAuditServer, ImportAuditServer
  <2> QED BY <1>0, <1>6, <2>2 DEF IngestEdges
<1>7. CASE composed \in GatewayEdges
  BY <1>0, <1>7, GatewaysAreEdges, EntriesAreEdges DEF GatewayEdges, GatewayApp, GatewayServer
<1> QED BY <1>1, <1>2, <1>3, <1>4, <1>5, <1>6, <1>7 DEF Launches

-----------------------------------------------------------------------------
(***************************************************************************)
(* What the steps of a process have in common: no other process changes,   *)
(* and no registry forgets a tenant but with its process.                  *)
(***************************************************************************)
PlaneStep(p) ==
    \/ Provision(p) \/ ApplySchema(p) \/ ResolveControl(p) \/ Verify(p)
    \/ \E t \in Tenants :
        \/ Register(p, t) \/ MarkProvisioning(p, t) \/ Onboard(p, t) \/ Recover(p, t) \/ Reassociate(p, t)
        \/ GateVerify(p, t) \/ GateReassociate(p, t)
        \/ DisableRouting(p, t) \/ Deprovision(p, t)

Others(p) ==
    \A q \in Procs \ {p} : proc'[q] = proc[q] /\ memory'[q] = memory[q] /\ work'[q] = work[q] /\ held'[q] = held[q]

RowsStay == \A t \in Tenants : rows[t] # "absent" => rows'[t] # "absent"

LEMMA PutRowEffect ==
    ASSUME TypeOk, NEW p \in Procs, NEW t \in Tenants, NEW s \in States \ {"absent"}, PutRow(p, t, s)
    PROVE  /\ memory' \in [Procs -> [Tenants -> States]] /\ rows' \in [Tenants -> States]
           /\ \A q \in Procs \ {p} : memory'[q] = memory[q]
           /\ \A u \in Tenants \ {t} : rows'[u] = rows[u] /\ memory'[p][u] = memory[p][u]
           /\ IF proc[p].store = "durable" THEN rows'[t] = s /\ memory' = memory ELSE memory'[p][t] = s /\ rows' = rows
           /\ RowsStay
PROOF
<1>1. CASE proc[p].store = "durable"
  <2>1. rows' = [rows EXCEPT ![t] = s] /\ memory' = memory
    BY <1>1 DEF PutRow
  <2> QED BY <1>1, <2>1 DEF TypeOk, RowsStay
<1>2. CASE proc[p].store # "durable"
  <2>1. memory' = [memory EXCEPT ![p][t] = s] /\ rows' = rows
    BY <1>2 DEF PutRow
  <2> QED BY <1>2, <2>1 DEF TypeOk, RowsStay
<1> QED BY <1>1, <1>2

LEMMA BeginEffect ==
    ASSUME TypeOk, NEW p \in Procs, NEW t, NEW pc, NEW via, Begin(p, t, pc, via)
    PROVE  /\ work' = [q \in Procs |-> work'[q]] /\ work'[p] = [t |-> t, pc |-> pc, via |-> via]
           /\ \A q \in Procs \ {p} : work'[q] = work[q]
PROOF
BY DEF TypeOk, Begin

LEMMA GotoEffect ==
    ASSUME TypeOk, NEW p \in Procs, NEW pc, Goto(p, pc)
    PROVE  /\ work' = [q \in Procs |-> work'[q]]
           /\ \A q \in Procs \ {p} : work'[q] = work[q]
           /\ \A t, old, via : work[p] = [t |-> t, pc |-> old, via |-> via] =>
                  work'[p] = [t |-> t, pc |-> pc, via |-> via]
PROOF
<1>1. work'[p] = [work[p] EXCEPT !.pc = pc]
  BY DEF TypeOk, Goto
<1>2. ASSUME NEW t, NEW old, NEW via, work[p] = [t |-> t, pc |-> old, via |-> via]
      PROVE  work'[p] = [t |-> t, pc |-> pc, via |-> via]
  <2>1. PICK w : w = [t |-> t, pc |-> old, via |-> via]
    OBVIOUS
  <2>2. [w EXCEPT !.pc = pc] = [t |-> t, pc |-> pc, via |-> via]
    BY <2>1
  <2> QED BY <1>1, <1>2, <2>1, <2>2
<1> QED BY <1>2 DEF TypeOk, Goto

LEMMA ReturnEffect ==
    ASSUME TypeOk, NEW p \in Procs, Return(p)
    PROVE  /\ work' = [q \in Procs |-> work'[q]] /\ work'[p] = Idle
           /\ \A q \in Procs \ {p} : work'[q] = work[q]
PROOF
BY DEF TypeOk, Return

\* The gate of a plane may come to be resolved, and nothing else of what it is composed of changes.
SamePlane(p) ==
    /\ proc' = [q \in Procs |-> proc'[q]] /\ \A q \in Procs \ {p} : proc'[q] = proc[q]
    /\ \/ proc'[p] = proc[p]
       \/ /\ proc[p].gate = "unresolved"
          /\ proc'[p] = [kind |-> proc[p].kind, store |-> proc[p].store, factory |-> proc[p].factory,
                         operator |-> proc[p].operator, applicator |-> proc[p].applicator,
                         ledger |-> proc[p].ledger, gate |-> "proven", chose |-> proc[p].chose]

LEMMA ResolveEffect ==
    ASSUME TypeOk, ProcInv, WorkInv, NEW p \in Procs, ResolveControl(p)
    PROVE  /\ SamePlane(p)
           /\ \/ UNCHANGED <<memory, rows>> /\ Return(p)
              \/ /\ PutRow(p, work[p].t, "Verifying") /\ Goto(p, "verify")
                 /\ proc'[p].gate # "unresolved"
PROOF
<1>1. proc = [q \in Procs |-> proc[q]] /\ PlaneParts(proc[p]) /\ work[p] # Idle
  BY DEF TypeOk, WorkInv, WorkOk, ProcInv, Composed, Plane, ResolveControl
<1> DEFINE Proves(g) == /\ ProvenControlEvidence(g) # "nothing" /\ proc[p].gate = "unresolved"
                        /\ proc' = [proc EXCEPT ![p].gate = ProvenControlEvidence(g)]
                        /\ Enter(p)
<1>2. CASE ~\E g \in Gathers : Proves(g)
  <2>1. \/ proc[p].gate # "unresolved" /\ Enter(p) /\ UNCHANGED proc
        \/ Return(p) /\ UNCHANGED <<proc, memory, rows>>
    BY <1>2 DEF ResolveControl
  <2> QED BY <1>1, <2>1 DEF SamePlane, Enter
<1>3. CASE \E g \in Gathers : Proves(g)
  <2>1. PICK g \in Gathers : Proves(g)
    BY <1>3
  <2>2. ProvenControlEvidence(g) = "proven"
    BY <2>1 DEF ProvenControlEvidence
  <2>3. PICK old, new : old = proc[p] /\ new = [old EXCEPT !.gate = "proven"]
    OBVIOUS
  <2>4. proc' = [proc EXCEPT ![p] = new]
    BY <2>1, <2>2, <2>3
  <2>5. new = [kind |-> old.kind, store |-> old.store, factory |-> old.factory, operator |-> old.operator,
               applicator |-> old.applicator, ledger |-> old.ledger, gate |-> "proven", chose |-> old.chose]
    <3>1. old = [kind |-> old.kind, store |-> old.store, factory |-> old.factory, operator |-> old.operator,
                 applicator |-> old.applicator, ledger |-> old.ledger, gate |-> old.gate, chose |-> old.chose]
      BY <1>1, <2>3 DEF PlaneParts
    <3> QED BY <2>3, <3>1
  <2>6. proc'[p] = new /\ proc' = [q \in Procs |-> proc'[q]] /\ \A q \in Procs \ {p} : proc'[q] = proc[q]
    BY <1>1, <2>4
  <2>7. new.gate = "proven"
    BY <2>5
  <2>8. SamePlane(p)
    BY <2>1, <2>3, <2>5, <2>6 DEF SamePlane
  <2> QED BY <2>1, <2>6, <2>7, <2>8 DEF Enter
<1> QED BY <1>2, <1>3

\* The operation a process is in.
LEMMA WorkingOn ==
    ASSUME ProcInv, WorkInv, NEW p \in Procs, work[p] # Idle
    PROVE  /\ work[p].t \in Tenants /\ Plane(p) /\ PlaneParts(proc[p])
           /\ work[p] = [t |-> work[p].t, pc |-> work[p].pc, via |-> work[p].via]
           /\ work[p].via \in {"guarded", "gate"}
           /\ work[p].via = "guarded" => ~Mixed(proc[p])
           /\ work[p].pc \in {"provision", "apply"} => work[p].via = "guarded"
           /\ Row(p, work[p].t) # "absent"
           /\ work[p].pc = "verify" => proc[p].gate # "unresolved"
PROOF
<1>1. WorkOk(p)
  BY DEF WorkInv
<1>2. Plane(p) => PlaneParts(proc[p])
  BY DEF Plane, ProcInv, Composed
<1> QED BY <1>1, <1>2 DEF WorkOk

LEMMA StepFrames ==
    ASSUME TypeOk, ProcInv, WorkInv, NEW p \in Procs, PlaneStep(p)
    PROVE  TypeOk' /\ Others(p) /\ RowsStay /\ SamePlane(p) /\ UNCHANGED <<held, lost>>
PROOF
<1> DEFINE Framed == TypeOk' /\ Others(p) /\ RowsStay /\ SamePlane(p) /\ UNCHANGED <<held, lost>>
           Works == \/ UNCHANGED work \/ Return(p) \/ \E pc : Goto(p, pc)
                    \/ \E u, pc, via : Begin(p, u, pc, via)
           Rows == \/ UNCHANGED <<memory, rows>>
                   \/ \E t \in Tenants, s \in States \ {"absent"} : PutRow(p, t, s)
<1>0. UNCHANGED proc => SamePlane(p)
  BY DEF TypeOk, SamePlane
<1>1. ASSUME SamePlane(p), Rows, Works, UNCHANGED <<held, lost>>,
             evidence' = [t \in Tenants |-> evidence'[t]],
             physical' \in [Tenants -> {"absent", "bare", "schema"}]
      PROVE  Framed
  <2>1. work' = [q \in Procs |-> work'[q]] /\ \A q \in Procs \ {p} : work'[q] = work[q]
    BY <1>1, BeginEffect, GotoEffect, ReturnEffect DEF TypeOk
  <2>2. /\ memory' \in [Procs -> [Tenants -> States]] /\ rows' \in [Tenants -> States] /\ RowsStay
        /\ \A q \in Procs \ {p} : memory'[q] = memory[q]
    <3>1. CASE UNCHANGED <<memory, rows>>
      BY <3>1 DEF TypeOk, RowsStay
    <3>2. CASE \E t \in Tenants, s \in States \ {"absent"} : PutRow(p, t, s)
      BY <3>2, PutRowEffect
    <3> QED BY <1>1, <3>1, <3>2
  <2>3. /\ proc' = [q \in Procs |-> proc'[q]] /\ \A q \in Procs \ {p} : proc'[q] = proc[q]
        /\ held' = [q \in Procs |-> held'[q]]
    BY <1>1 DEF SamePlane, TypeOk
  <2>4. TypeOk'
    BY <1>1, <2>1, <2>2, <2>3 DEF TypeOk
  <2>5. Others(p)
    BY <1>1, <2>1, <2>2, <2>3 DEF Others
  <2> QED BY <1>1, <2>2, <2>4, <2>5
<1> HIDE DEF Framed
<1>2. UNCHANGED evidence => evidence' = [t \in Tenants |-> evidence'[t]]
  BY DEF TypeOk
<1>3. UNCHANGED physical => physical' \in [Tenants -> {"absent", "bare", "schema"}]
  BY DEF TypeOk
<1>4. CASE Provision(p) \/ ApplySchema(p)
  <2>1. UNCHANGED <<proc, memory, rows, evidence, held, lost>>
    BY <1>4 DEF Provision, ApplySchema
  <2>2. physical' \in [Tenants -> {"absent", "bare", "schema"}]
    BY <1>4 DEF Provision, ApplySchema, TypeOk
  <2>3. Works
    <3>1. Return(p) \/ Goto(p, "apply") \/ Goto(p, "control")
      BY <1>4 DEF Provision, ApplySchema
    <3> QED BY <3>1
  <2> QED BY <1>0, <1>1, <1>2, <2>1, <2>2, <2>3 DEF Framed
<1>5. CASE ResolveControl(p)
  <2>1. SamePlane(p) /\ Works /\ Rows
    <3>1. work[p].t \in Tenants
      BY <1>5, WorkingOn DEF ResolveControl
    <3>2. Works /\ (UNCHANGED <<memory, rows>> \/ PutRow(p, work[p].t, "Verifying"))
      BY <1>5, ResolveEffect, Zenon
    <3>3. "Verifying" \in States \ {"absent"}
      BY DEF States
    <3>4. Rows
      BY <3>1, <3>2, <3>3, Zenon
    <3> QED BY <1>5, <3>2, <3>4, ResolveEffect
  <2>2. UNCHANGED <<evidence, physical, held, lost>>
    BY <1>5 DEF ResolveControl
  <2> QED BY <1>1, <1>2, <1>3, <2>1, <2>2 DEF Framed
<1>6. CASE Verify(p)
  <2>1. work[p].t \in Tenants
    BY <1>6, WorkingOn DEF Verify
  <2>2. Works /\ UNCHANGED <<proc, physical, held, lost>>
    BY <1>6 DEF Verify
  <2>3. Rows
    <3>1. UNCHANGED <<memory, rows>> \/ PutRow(p, work[p].t, "Ready") \/ PutRow(p, work[p].t, "Failed")
      BY <1>6 DEF Verify, Conclude
    <3>2. "Ready" \in States \ {"absent"} /\ "Failed" \in States \ {"absent"}
      BY DEF States
    <3> QED BY <2>1, <3>1, <3>2, Zenon
  <2>4. evidence' = [t \in Tenants |-> evidence'[t]]
    <3>1. evidence' = evidence \/ \E kind : evidence' = [evidence EXCEPT ![work[p].t] = kind]
      BY <1>6 DEF Verify
    <3> QED BY <3>1 DEF TypeOk
  <2> QED BY <1>0, <1>1, <1>3, <2>2, <2>3, <2>4 DEF Framed
<1>7. ASSUME NEW t \in Tenants,
             \/ Register(p, t) \/ MarkProvisioning(p, t) \/ Onboard(p, t) \/ Reassociate(p, t)
             \/ GateReassociate(p, t)
      PROVE  Framed
  <2>1. UNCHANGED <<proc, evidence, physical, held, lost>>
    BY <1>7 DEF Register, MarkProvisioning, Onboard, Reassociate, GateReassociate
  <2>2. Works
    BY <1>7 DEF Register, MarkProvisioning, Onboard, Reassociate, GateReassociate
  <2>3. Rows
    BY <1>7 DEF Register, MarkProvisioning, Onboard, Reassociate, GateReassociate, States
  <2> QED BY <1>0, <1>1, <1>2, <1>3, <2>1, <2>2, <2>3
<1>8. ASSUME NEW t \in Tenants, Recover(p, t) \/ GateVerify(p, t) PROVE Framed
  <2>1. UNCHANGED <<proc, memory, rows, evidence, physical, held, lost>> /\ Works
    BY <1>8 DEF Recover, GateVerify
  <2> QED BY <1>0, <1>1, <1>2, <1>3, <2>1
<1>9. ASSUME NEW t \in Tenants, Deprovision(p, t) \/ DisableRouting(p, t) PROVE Framed
  <2>1. UNCHANGED <<proc, memory, work, rows, held, lost>>
    BY <1>9 DEF Deprovision, DisableRouting
  <2>2. evidence' = [u \in Tenants |-> evidence'[u]]
    BY <1>9 DEF Deprovision, DisableRouting, TypeOk
  <2>3. physical' \in [Tenants -> {"absent", "bare", "schema"}]
    BY <1>9 DEF Deprovision, DisableRouting, TypeOk
  <2> QED BY <1>0, <1>1, <2>1, <2>2, <2>3
<1> QED BY <1>4, <1>5, <1>6, <1>7, <1>8, <1>9 DEF PlaneStep, Framed

LEMMA ProcessFrames ==
    ASSUME TypeOk, NEW p \in Procs, Start(p) \/ Stop(p) \/ Answer(p)
    PROVE  TypeOk' /\ Others(p) /\ UNCHANGED <<rows, evidence, physical, accepted>>
PROOF
<1>1. CASE Start(p)
  BY <1>1 DEF Start, TypeOk, Others
<1>2. CASE Stop(p)
  <2>1. NoRows \in [Tenants -> States]
    BY DEF NoRows, States
  <2> QED BY <1>2, <2>1 DEF Stop, TypeOk, Others
<1>3. CASE Answer(p)
  BY <1>3 DEF Answer, TypeOk, Others
<1> QED BY <1>1, <1>2, <1>3

LEMMA NextSteps ==
    ASSUME [Next]_vars
    PROVE  UNCHANGED vars \/ \E p \in Procs : Start(p) \/ Stop(p) \/ Answer(p) \/ PlaneStep(p)
PROOF
BY DEF Next, PlaneStep

LEMMA TypeKept == TypeOk /\ ProcInv /\ WorkInv /\ [Next]_vars => TypeOk'
PROOF
<1> SUFFICES ASSUME TypeOk, ProcInv, WorkInv, [Next]_vars PROVE TypeOk'
  OBVIOUS
<1>1. UNCHANGED vars => TypeOk'
  BY DEF vars, TypeOk
<1> QED BY <1>1, NextSteps, StepFrames, ProcessFrames

\* A resolved gate leaves the plane well composed.
LEMMA SamePlaneComposed ==
    ASSUME NEW p \in Procs, SamePlane(p), Composed(proc[p]), Plane(p)
    PROVE  /\ Composed(proc'[p]) /\ Plane(p)' /\ proc'[p].store = proc[p].store
           /\ proc'[p].operator = proc[p].operator /\ proc'[p].chose = proc[p].chose
PROOF
<1>1. CASE proc'[p] = proc[p]
  BY <1>1 DEF Plane
<1>2. CASE proc'[p] # proc[p]
  <2>1. PICK old, new : old = proc[p] /\ new = proc'[p]
    OBVIOUS
  <2>2. /\ old.gate = "unresolved"
        /\ new = [kind |-> old.kind, store |-> old.store, factory |-> old.factory, operator |-> old.operator,
                  applicator |-> old.applicator, ledger |-> old.ledger, gate |-> "proven", chose |-> old.chose]
    BY <1>2, <2>1 DEF SamePlane
  <2>3. PlaneParts(old) /\ old.kind = "plane"
    BY <2>1 DEF Plane, Composed
  <2>4. PlaneParts(new) /\ new.kind = "plane"
    BY <2>2, <2>3 DEF PlaneParts
  <2>5. Composed(new) /\ new # Down
    BY <2>4, PlaneIsUp DEF Composed
  <2> QED BY <2>1, <2>2, <2>4, <2>5 DEF Plane
<1> QED BY <1>1, <1>2

\* Every step of a plane's operation or call is one of a plane.
LEMMA StepsArePlanes ==
    ASSUME ProcInv, WorkInv, NEW p \in Procs, PlaneStep(p)
    PROVE  Plane(p) /\ proc[p] # Down /\ Composed(proc[p]) /\ PlaneParts(proc[p])
PROOF
<1>1. work[p] # Idle => Plane(p)
  BY WorkingOn
<1>2. Plane(p)
  BY <1>1 DEF PlaneStep, Provision, ApplySchema, ResolveControl, Verify, Register, MarkProvisioning, Onboard, Recover,
     Reassociate, GateVerify, GateReassociate, DisableRouting, Deprovision, Calls
<1> QED BY <1>2 DEF Plane, ProcInv, Composed

LEMMA ProcKept == TypeOk /\ ProcInv /\ WorkInv /\ [Next]_vars => ProcInv'
PROOF
<1> SUFFICES ASSUME TypeOk, ProcInv, WorkInv, [Next]_vars PROVE ProcInv'
  OBVIOUS
<1>1. ASSUME NEW p \in Procs, Others(p), proc'[p] # Down => Composed(proc'[p]) PROVE ProcInv'
  BY <1>1 DEF ProcInv, Others
<1>2. ASSUME NEW p \in Procs, Start(p) PROVE ProcInv'
  <2>1. PICK composed \in Launches : proc' = [proc EXCEPT ![p] = composed]
    BY <1>2 DEF Start
  <2>2. proc'[p] = composed
    BY <2>1 DEF TypeOk
  <2> QED BY <1>1, <1>2, <2>2, LaunchesAreComposed, ProcessFrames
<1>3. ASSUME NEW p \in Procs, Stop(p) PROVE ProcInv'
  <2>1. proc'[p] = Down
    BY <1>3 DEF Stop, TypeOk
  <2> QED BY <1>1, <1>3, <2>1, ProcessFrames
<1>4. ASSUME NEW p \in Procs, Answer(p) PROVE ProcInv'
  BY <1>4 DEF Answer, ProcInv
<1>5. ASSUME NEW p \in Procs, PlaneStep(p) PROVE ProcInv'
  BY <1>1, <1>5, StepFrames, StepsArePlanes, SamePlaneComposed
<1>6. UNCHANGED vars => ProcInv'
  BY DEF vars, ProcInv
<1> QED BY <1>2, <1>3, <1>4, <1>5, <1>6, NextSteps

LEMMA HeldKept ==
    TypeOk /\ ProcInv /\ WorkInv /\ HeldInv /\ lost = {} /\ [Next]_vars => HeldInv' /\ lost' = {}
PROOF
<1> SUFFICES ASSUME TypeOk, ProcInv, WorkInv, HeldInv, lost = {}, [Next]_vars PROVE HeldInv' /\ lost' = {}
  OBVIOUS
<1>1. ASSUME NEW p \in Procs, Others(p), HeldOk(p)' PROVE HeldInv'
  BY <1>1 DEF HeldInv, HeldOk, Others
<1>2. ASSUME NEW p \in Procs, Start(p) PROVE HeldInv' /\ lost' = {}
  <2>1. held' = held /\ held[p] = {} /\ lost' = {}
    BY <1>2 DEF Start, HeldInv, HeldOk
  <2>2. HeldOk(p)'
    BY <2>1 DEF HeldOk
  <2> QED BY <1>1, <1>2, <2>1, <2>2, ProcessFrames
<1>3. ASSUME NEW p \in Procs, Stop(p) PROVE HeldInv' /\ lost' = {}
  <2>1. held'[p] = {} /\ lost' = {}
    BY <1>3 DEF Stop, TypeOk, HeldInv, HeldOk
  <2>2. HeldOk(p)'
    BY <2>1 DEF HeldOk
  <2> QED BY <1>1, <1>3, <2>1, <2>2, ProcessFrames
<1>4. ASSUME NEW p \in Procs, Answer(p) PROVE HeldInv' /\ lost' = {}
  <2>1. PICK class \in DOMAIN proc[p].audit : /\ proc[p].audit[class] = "memory"
                                              /\ held' = [held EXCEPT ![p] = @ \cup {class}]
    BY <1>4 DEF Answer
  <2>2. UNCHANGED <<proc, lost>> /\ proc[p] # Down /\ proc[p].kind \notin {"plane", "read"}
    BY <1>4 DEF Answer
  <2>3. class \notin proc[p].chose
    BY <2>1, <2>2 DEF ProcInv, Composed, KeepsNothingNamed
  <2>4. held'[p] = held[p] \cup {class}
    BY <2>1 DEF TypeOk
  <2>5. held'[p] \cap proc'[p].chose = {}
    BY <2>2, <2>3, <2>4 DEF HeldInv, HeldOk
  <2>6. HeldOk(p)'
    BY <2>2, <2>5 DEF HeldOk
  <2> QED BY <1>1, <1>4, <2>2, <2>6, ProcessFrames
<1>5. ASSUME NEW p \in Procs, PlaneStep(p) PROVE HeldInv' /\ lost' = {}
  <2>1. Others(p) /\ SamePlane(p) /\ UNCHANGED <<held, lost>>
    BY <1>5, StepFrames
  <2>2. proc'[p].chose = proc[p].chose /\ proc[p] # Down /\ proc'[p] # Down
    BY <1>5, <2>1, StepsArePlanes, SamePlaneComposed DEF Plane
  <2>3. HeldOk(p)'
    BY <2>1, <2>2 DEF HeldInv, HeldOk
  <2> QED BY <1>1, <2>1, <2>3
<1>6. UNCHANGED vars => HeldInv' /\ lost' = {}
  BY DEF vars, HeldInv, HeldOk
<1> QED BY <1>2, <1>3, <1>4, <1>5, <1>6, NextSteps

-----------------------------------------------------------------------------
(***************************************************************************)
(* An operation under way stays what WorkOk says of it.                    *)
(***************************************************************************)
LEMMA KnownStays ==
    ASSUME TypeOk, NEW p \in Procs, NEW t \in Tenants, proc'[p].store = proc[p].store, RowsStay,
           memory'[p] = memory[p], Row(p, t) # "absent"
    PROVE  Row(p, t)' # "absent"
PROOF
BY DEF Row, RowsStay

LEMMA PutIsKnown ==
    ASSUME TypeOk, NEW p \in Procs, NEW t \in Tenants, NEW s \in States \ {"absent"}, PutRow(p, t, s),
           proc'[p].store = proc[p].store
    PROVE  Row(p, t)' # "absent"
PROOF
BY PutRowEffect DEF Row

LEMMA GoesOn ==
    ASSUME TypeOk, NEW p \in Procs, NEW t \in Tenants, NEW pc \in {"provision", "apply", "control", "verify"},
           NEW via \in {"guarded", "gate"}, work'[p] = [t |-> t, pc |-> pc, via |-> via],
           SamePlane(p), Composed(proc[p]), Plane(p), via = "guarded" => ~Mixed(proc[p]),
           pc \in {"provision", "apply"} => via = "guarded",
           Row(p, t)' # "absent", pc = "verify" => proc'[p].gate # "unresolved"
    PROVE  WorkOk(p)'
PROOF
<1>1. PICK w : w = [t |-> t, pc |-> pc, via |-> via] /\ work'[p] = w
  OBVIOUS
<1>2. w = [t |-> w.t, pc |-> w.pc, via |-> w.via] /\ w.t = t /\ w.pc = pc /\ w.via = via
  BY <1>1
<1>3. Plane(p)' /\ proc'[p].store = proc[p].store /\ proc'[p].operator = proc[p].operator
  BY SamePlaneComposed
<1>4. via = "guarded" => ~Mixed(proc'[p])
  BY <1>3 DEF Mixed
<1>5. \A u : u = work'[p].t => Row(p, u)' # "absent"
  BY <1>1, <1>2
<1> QED BY <1>1, <1>2, <1>3, <1>4, <1>5 DEF WorkOk

LEMMA WorkKept == TypeOk /\ ProcInv /\ WorkInv /\ [Next]_vars => WorkInv'
PROOF
<1> SUFFICES ASSUME TypeOk, ProcInv, WorkInv, [Next]_vars PROVE WorkInv'
  OBVIOUS
<1>1. ASSUME NEW p \in Procs, Others(p), RowsStay, WorkOk(p)' PROVE WorkInv'
  <2>1. ASSUME NEW q \in Procs \ {p} PROVE WorkOk(q)'
    <3>1. proc'[q] = proc[q] /\ memory'[q] = memory[q] /\ work'[q] = work[q]
      BY <1>1 DEF Others
    <3> QED BY <1>1, <3>1 DEF WorkInv, WorkOk, Plane, Row, RowsStay
  <2> QED BY <1>1, <2>1 DEF WorkInv
<1>2. ASSUME NEW p \in Procs, Start(p) \/ Stop(p) \/ Answer(p) PROVE WorkInv'
  <2>1. Others(p) /\ rows' = rows
    BY <1>2, ProcessFrames
  <2>2. CASE Start(p)
    <3>1. work'[p] = Idle
      BY <2>2 DEF Start, WorkInv, WorkOk, Plane
    <3> QED BY <1>1, <2>1, <3>1 DEF WorkOk, RowsStay
  <2>3. CASE Stop(p)
    <3>1. work'[p] = Idle
      BY <2>3 DEF Stop, TypeOk
    <3> QED BY <1>1, <2>1, <3>1 DEF WorkOk, RowsStay
  <2>4. CASE Answer(p)
    BY <2>4 DEF Answer, WorkInv, WorkOk, Plane, Row
  <2> QED BY <1>2, <2>2, <2>3, <2>4
<1>3. ASSUME NEW p \in Procs, PlaneStep(p) PROVE WorkInv'
  <2>1. Others(p) /\ RowsStay /\ SamePlane(p)
    BY <1>3, StepFrames
  <2>2. Plane(p) /\ Composed(proc[p])
    BY <1>3, StepsArePlanes
  <2>3. work'[p] = Idle => WorkInv'
    BY <1>1, <2>1 DEF WorkOk
  <2>4. ASSUME NEW t \in Tenants, NEW pc \in {"provision", "apply", "control", "verify"},
               NEW via \in {"guarded", "gate"}, work'[p] = [t |-> t, pc |-> pc, via |-> via],
               via = "guarded" => ~Mixed(proc[p]), pc \in {"provision", "apply"} => via = "guarded",
               Row(p, t)' # "absent", pc = "verify" => proc'[p].gate # "unresolved"
        PROVE  WorkInv'
    BY <1>1, <2>1, <2>2, <2>4, GoesOn
  <2>5. Return(p) => WorkInv'
    BY <2>3, ReturnEffect
  <2>6. CASE Provision(p) \/ ApplySchema(p)
    <3>1. PICK t, via : t = work[p].t /\ via = work[p].via
      OBVIOUS
    <3>2. /\ t \in Tenants /\ ~Mixed(proc[p]) /\ Row(p, t) # "absent" /\ UNCHANGED <<proc, memory, rows>>
          /\ via = "guarded"
      BY <2>6, <3>1, WorkingOn DEF Provision, ApplySchema
    <3>3. Row(p, t)' # "absent"
      BY <3>2 DEF Row
    <3>4. Return(p) \/ Goto(p, "apply") \/ Goto(p, "control")
      BY <2>6 DEF Provision, ApplySchema
    <3>5. ASSUME NEW pc \in {"apply", "control"}, Goto(p, pc) PROVE WorkInv'
      <4>1. work[p] = [t |-> t, pc |-> work[p].pc, via |-> via]
        BY <2>6, <3>1, WorkingOn DEF Provision, ApplySchema
      <4>2. work'[p] = [t |-> t, pc |-> pc, via |-> via]
        BY <3>5, <4>1, GotoEffect
      <4> QED BY <2>4, <3>2, <3>3, <4>2
    <3> QED BY <2>5, <3>4, <3>5
  <2>7. CASE ResolveControl(p)
    <3>1. PICK t, via : t = work[p].t /\ via = work[p].via
      OBVIOUS
    <3>2. t \in Tenants /\ via \in {"guarded", "gate"} /\ (via = "guarded" => ~Mixed(proc[p]))
      BY <2>7, <3>1, WorkingOn DEF ResolveControl
    <3>3. proc'[p].store = proc[p].store
      BY <2>1, <2>2, SamePlaneComposed
    <3>4. ASSUME PutRow(p, t, "Verifying"), Goto(p, "verify"), proc'[p].gate # "unresolved" PROVE WorkInv'
      <4>1. Row(p, t)' # "absent"
        BY <3>2, <3>3, <3>4, PutIsKnown DEF States
      <4>2. work[p] = [t |-> t, pc |-> work[p].pc, via |-> via]
        BY <2>7, <3>1, WorkingOn DEF ResolveControl
      <4>3. work'[p] = [t |-> t, pc |-> "verify", via |-> via]
        BY <3>4, <4>2, GotoEffect
      <4> QED BY <2>4, <3>2, <3>4, <4>1, <4>3
    <3> QED BY <2>5, <2>7, <3>1, <3>4, ResolveEffect
  <2>8. CASE Verify(p)
    BY <2>5, <2>8 DEF Verify
  <2>9. ASSUME NEW t \in Tenants,
               Register(p, t) \/ MarkProvisioning(p, t) \/ DisableRouting(p, t) \/ Deprovision(p, t)
        PROVE  WorkInv'
    <3>1. work'[p] = Idle
      BY <2>9 DEF Register, MarkProvisioning, DisableRouting, Deprovision, Calls
    <3> QED BY <2>3, <3>1
  <2>10. ASSUME NEW t \in Tenants, Onboard(p, t) \/ Reassociate(p, t) \/ GateReassociate(p, t) PROVE WorkInv'
    <3>1. Row(p, t)' # "absent"
      BY <2>10, PutIsKnown DEF Onboard, Reassociate, GateReassociate, States
    <3>2. \/ ~Mixed(proc[p]) /\ \E pc \in {"provision", "control"} : Begin(p, t, pc, "guarded")
          \/ Begin(p, t, "control", "gate")
      BY <2>10 DEF Onboard, Reassociate, GateReassociate, OnboardingDenied
    <3>3. ASSUME NEW pc \in {"provision", "control"}, Begin(p, t, pc, "guarded"), ~Mixed(proc[p])
          PROVE  WorkInv'
      <4>1. work'[p] = [t |-> t, pc |-> pc, via |-> "guarded"]
        BY <3>3, BeginEffect
      <4> QED BY <2>4, <3>1, <3>3, <4>1
    <3>4. ASSUME Begin(p, t, "control", "gate") PROVE WorkInv'
      <4>1. work'[p] = [t |-> t, pc |-> "control", via |-> "gate"]
        BY <3>4, BeginEffect
      <4> QED BY <2>4, <3>1, <4>1
    <3> QED BY <3>2, <3>3, <3>4
  <2>11. ASSUME NEW t \in Tenants, Recover(p, t) \/ GateVerify(p, t) PROVE WorkInv'
    <3>1. Row(p, t)' # "absent"
      BY <2>11 DEF Recover, GateVerify, Row
    <3>2. \/ ~Mixed(proc[p]) /\ Begin(p, t, "control", "guarded")
          \/ Begin(p, t, "control", "gate")
      BY <2>11 DEF Recover, GateVerify, OnboardingDenied
    <3>3. ASSUME NEW via \in {"guarded", "gate"}, Begin(p, t, "control", via),
                 via = "guarded" => ~Mixed(proc[p])
          PROVE  WorkInv'
      <4>1. work'[p] = [t |-> t, pc |-> "control", via |-> via]
        BY <3>3, BeginEffect
      <4> QED BY <2>4, <3>1, <3>3, <4>1
    <3> QED BY <3>2, <3>3
  <2> QED BY <1>3, <2>6, <2>7, <2>8, <2>9, <2>10, <2>11 DEF PlaneStep
<1>4. CASE UNCHANGED vars
  BY <1>4 DEF vars, WorkInv, WorkOk, Plane, Row
<1> QED BY <1>2, <1>3, <1>4, NextSteps

-----------------------------------------------------------------------------
(***************************************************************************)
(* Registry, cluster and ledger.  A plane that provisions with a live side *)
(* works on the Control DB's rows.                                         *)
(***************************************************************************)
LEMMA LiveIsDurable ==
    ASSUME ProcInv, WorkInv, NEW p \in Procs, work[p] # Idle, work[p].pc \in {"provision", "apply"},
           "durable" \in {proc[p].operator, proc[p].applicator, proc[p].ledger}
    PROVE  /\ proc[p].store = "durable" /\ proc[p].operator = "durable"
           /\ rows[work[p].t] # "absent"
PROOF
<1>1. PlaneParts(proc[p]) /\ ~Mixed(proc[p]) /\ Row(p, work[p].t) # "absent"
  BY WorkingOn
<1> QED BY <1>1 DEF PlaneParts, Mixed, Row

\* What any step makes of the cluster, and of a row that comes to say Ready.
LEMMA ClusterSteps ==
    ASSUME TypeOk, ProcInv, WorkInv, NEW p \in Procs, PlaneStep(p), NEW t \in Tenants
    PROVE  /\ physical'[t] = physical[t] \/ (rows[t] # "absent" /\ physical'[t] # "absent")
              \/ (rows[t] \in {"Provisioning", "Failed"} /\ physical'[t] = "absent")
           /\ rows'[t] = "Ready" => rows[t] = "Ready" \/ physical[t] = "schema" \/ MixedGateConcludes(t)
PROOF
<1>1. ASSUME NEW u \in Tenants, NEW s \in States \ {"absent", "Ready"}, PutRow(p, u, s)
      PROVE  rows'[t] = "Ready" => rows[t] = "Ready"
  <2>1. rows'[t] = rows[t] \/ rows'[t] = s
    BY <1>1, PutRowEffect DEF TypeOk
  <2> QED BY <2>1
<1>2. CASE Provision(p)
  <2>1. physical' = physical \/ (proc[p].operator = "durable" /\ physical' = [physical EXCEPT ![work[p].t] = "bare"])
    BY <1>2 DEF Provision
  <2>2. work[p] # Idle /\ work[p].pc = "provision" /\ rows' = rows
    BY <1>2 DEF Provision
  <2>3. proc[p].operator = "durable" => rows[work[p].t] # "absent"
    BY <2>2, LiveIsDurable
  <2> QED BY <2>1, <2>2, <2>3 DEF TypeOk
<1>3. CASE ApplySchema(p)
  <2>1. physical' = physical \/ (proc[p].applicator = "durable" /\ physical' = [physical EXCEPT ![work[p].t] = "schema"])
    BY <1>3 DEF ApplySchema
  <2>2. work[p] # Idle /\ work[p].pc = "apply" /\ rows' = rows
    BY <1>3 DEF ApplySchema
  <2>3. proc[p].applicator = "durable" => rows[work[p].t] # "absent"
    BY <2>2, LiveIsDurable
  <2> QED BY <2>1, <2>2, <2>3 DEF TypeOk
<1>4. CASE ResolveControl(p)
  <2>1. work[p].t \in Tenants /\ physical' = physical
    BY <1>4, WorkingOn DEF ResolveControl
  <2>2. rows' = rows \/ PutRow(p, work[p].t, "Verifying")
    BY <1>4, ResolveEffect
  <2> QED BY <1>1, <2>1, <2>2 DEF States
<1>5. CASE Verify(p)
  <2>1. work[p] # Idle /\ physical' = physical /\ work[p].t \in Tenants
    BY <1>5, WorkingOn DEF Verify
  <2>2. CASE rows' = rows
    BY <2>1, <2>2
  <2>3. CASE PutRow(p, work[p].t, "Failed")
    BY <1>1, <2>1, <2>3 DEF States
  <2>4. CASE PutRow(p, work[p].t, "Ready") /\ (proc[p].operator = "durable" => physical[work[p].t] = "schema")
    <3>1. \/ rows'[t] = rows[t]
          \/ proc[p].store = "durable" /\ t = work[p].t
      BY <2>1, <2>4, PutRowEffect DEF States
    <3>2. CASE proc[p].operator = "durable"
      BY <2>1, <2>4, <3>1, <3>2
    <3>3. CASE proc[p].operator # "durable" /\ proc[p].store = "durable"
      <4>1. Mixed(proc[p])
        BY <3>3 DEF Mixed
      <4>2. work[p].via = "gate"
        BY <2>1, <4>1, WorkingOn
      <4>3. work[p].pc = "verify" /\ proc' = proc /\ work'[p] = Idle
        BY <1>5, ReturnEffect DEF Verify
      <4>4. t = work[p].t => MixedGateConcludes(t)
        BY <2>1, <4>1, <4>2, <4>3 DEF MixedGateConcludes
      <4> QED BY <2>1, <3>1, <4>4
    <3> QED BY <2>1, <3>1, <3>2, <3>3
  <2> QED BY <1>5, <2>2, <2>3, <2>4 DEF Verify, Conclude
<1>6. ASSUME NEW u \in Tenants,
             \/ Register(p, u) \/ MarkProvisioning(p, u) \/ Onboard(p, u) \/ Reassociate(p, u)
             \/ GateReassociate(p, u)
      PROVE  physical' = physical /\ (rows'[t] = "Ready" => rows[t] = "Ready")
  BY <1>1, <1>6 DEF Register, MarkProvisioning, Onboard, Reassociate, GateReassociate, States
<1>7. ASSUME NEW u \in Tenants, Recover(p, u) \/ GateVerify(p, u) \/ DisableRouting(p, u)
      PROVE  UNCHANGED <<physical, rows>>
  BY <1>7 DEF Recover, GateVerify, DisableRouting
<1>8. ASSUME NEW u \in Tenants, Deprovision(p, u)
      PROVE  /\ rows' = rows
             /\ physical'[t] = physical[t] \/ (rows[t] \in {"Provisioning", "Failed"} /\ physical'[t] = "absent")
  <2>1. rows' = rows /\ Row(p, u) \in {"Provisioning", "Failed"} /\ ~Mixed(proc[p])
    BY <1>8 DEF Deprovision, RecoveryDenied
  <2>2. physical' = physical \/ (proc[p].operator = "durable" /\ physical' = [physical EXCEPT ![u] = "absent"])
    BY <1>8 DEF Deprovision
  <2>3. proc[p].operator = "durable" => rows[u] \in {"Provisioning", "Failed"}
    BY <2>1 DEF Mixed, Row
  <2> QED BY <2>1, <2>2, <2>3 DEF TypeOk
<1> QED BY <1>2, <1>3, <1>4, <1>5, <1>6, <1>7, <1>8 DEF PlaneStep

LEMMA EvidenceKept ==
    ASSUME TypeOk, ProcInv, WorkInv, EvidenceIsReal, NEW p \in Procs, PlaneStep(p)
    PROVE  EvidenceIsReal'
PROOF
<1>1. ASSUME NEW t, NEW kind \in {"none", "real"}, evidence' = evidence \/ evidence' = [evidence EXCEPT ![t] = kind]
      PROVE  EvidenceIsReal'
  BY <1>1 DEF EvidenceIsReal, TypeOk
<1>2. CASE evidence' = evidence
  BY <1>1, <1>2
<1>3. CASE Verify(p)
  <2>1. work[p] # Idle /\ work[p].pc = "verify"
    BY <1>3 DEF Verify
  <2>2. PlaneParts(proc[p]) /\ proc[p].gate # "unresolved"
    BY <2>1, WorkingOn
  <2>3. proc[p].ledger = "durable" => Gathered(p) = "real"
    BY <2>2 DEF PlaneParts, Gathered
  <2>4. \/ evidence' = evidence
        \/ \E kind \in {Gathered(p), "none"} : proc[p].ledger = "durable" /\ evidence' = [evidence EXCEPT ![work[p].t] = kind]
    BY <1>3 DEF Verify
  <2> QED BY <1>1, <2>3, <2>4
<1>4. ASSUME NEW t \in Tenants, DisableRouting(p, t) PROVE EvidenceIsReal'
  <2>1. evidence' = evidence \/ evidence' = [evidence EXCEPT ![t] = "none"]
    BY <1>4 DEF DisableRouting
  <2> QED BY <1>1, <2>1
<1> QED BY <1>2, <1>3, <1>4 DEF PlaneStep, Provision, ApplySchema, ResolveControl, Register, MarkProvisioning, Onboard,
     Recover, Reassociate, GateVerify, GateReassociate, Deprovision

\* A registration is accepted for the Control DB only where the plane writes there.
LEMMA AcceptedKept ==
    ASSUME TypeOk, ProcInv, WorkInv, \A t \in accepted : rows[t] # "absent", accepted \subseteq Tenants,
           NEW p \in Procs, PlaneStep(p)
    PROVE  accepted' \subseteq Tenants /\ \A t \in accepted' : rows'[t] # "absent"
PROOF
<1>1. RowsStay /\ PlaneParts(proc[p])
  BY StepFrames, StepsArePlanes
<1>2. CASE accepted' = accepted
  BY <1>1, <1>2 DEF RowsStay
<1>3. ASSUME NEW t \in Tenants, Register(p, t) \/ Onboard(p, t), accepted' # accepted
      PROVE  accepted' \subseteq Tenants /\ \A u \in accepted' : rows'[u] # "absent"
  <2>1. "registry" \in proc[p].chose /\ accepted' = accepted \cup {t}
    BY <1>3 DEF Register, Onboard
  <2>2. PutRow(p, t, "Registered") \/ PutRow(p, t, "Provisioning")
    BY <1>3 DEF Register, Onboard
  <2>3. proc[p].store = "durable"
    BY <1>1, <2>1 DEF PlaneParts
  <2>4. rows'[t] # "absent"
    BY <2>2, <2>3, PutRowEffect DEF States
  <2> QED BY <1>1, <2>1, <2>4 DEF RowsStay
<1> QED BY <1>2, <1>3 DEF PlaneStep, Provision, ApplySchema, ResolveControl, Verify, MarkProvisioning,
     Recover, Reassociate, GateVerify, GateReassociate, DisableRouting, Deprovision

-----------------------------------------------------------------------------
(***************************************************************************)
(* IInv holds first and is kept.                                           *)
(***************************************************************************)
LEMMA InitInv == Init => IInv
PROOF
<1> SUFFICES ASSUME Init PROVE IInv
  OBVIOUS
<1>1. TypeOk
  BY DEF Init, TypeOk, NoRows, States
<1>2. \A p \in Procs : proc[p] = Down /\ work[p] = Idle /\ held[p] = {}
  BY DEF Init
<1>3. ProcInv /\ WorkInv /\ HeldInv
  BY <1>2 DEF ProcInv, WorkInv, WorkOk, HeldInv, HeldOk
<1>4. NoOrphan /\ EvidenceIsReal
  BY DEF Init, NoOrphan, EvidenceIsReal
<1>5. accepted \subseteq Tenants /\ DurableChoicesHold
  BY DEF Init, DurableChoicesHold
<1> QED BY <1>1, <1>3, <1>4, <1>5 DEF IInv

LEMMA NextInv == IInv /\ [Next]_vars => IInv'
PROOF
<1> SUFFICES ASSUME IInv, [Next]_vars PROVE IInv'
  OBVIOUS
<1>1. TypeOk' /\ ProcInv' /\ WorkInv'
  BY TypeKept, ProcKept, WorkKept DEF IInv
<1>2. HeldInv' /\ lost' = {}
  BY HeldKept DEF IInv, DurableChoicesHold
<1>3. NoOrphan' /\ EvidenceIsReal' /\ accepted' \subseteq Tenants /\ \A t \in accepted' : rows'[t] # "absent"
  <2>1. CASE UNCHANGED vars
    BY <2>1 DEF vars, IInv, NoOrphan, EvidenceIsReal, DurableChoicesHold
  <2>2. ASSUME NEW p \in Procs, Start(p) \/ Stop(p) \/ Answer(p)
        PROVE  NoOrphan' /\ EvidenceIsReal' /\ accepted' \subseteq Tenants /\ \A t \in accepted' : rows'[t] # "absent"
    BY <2>2, ProcessFrames DEF IInv, NoOrphan, EvidenceIsReal, DurableChoicesHold
  <2>3. ASSUME NEW p \in Procs, PlaneStep(p)
        PROVE  NoOrphan' /\ EvidenceIsReal' /\ accepted' \subseteq Tenants /\ \A t \in accepted' : rows'[t] # "absent"
    <3>1. NoOrphan'
      BY <2>3, StepFrames, ClusterSteps DEF IInv, NoOrphan, RowsStay
    <3> QED BY <2>3, <3>1, EvidenceKept, AcceptedKept DEF IInv, DurableChoicesHold
  <2> QED BY <2>1, <2>2, <2>3, NextSteps
<1> QED BY <1>1, <1>2, <1>3 DEF IInv, DurableChoicesHold

-----------------------------------------------------------------------------
(***************************************************************************)
(* The theorems.                                                           *)
(***************************************************************************)

(***************************************************************************)
(* Processes of any composition come and go: each that runs has a live     *)
(* side of one piece, an operation under way is of a tenant its registry   *)
(* has and, through the orchestrator, of a plane that is not mixed, and an *)
(* edge's memory holds only events the operator has named no sink for.     *)
(***************************************************************************)
THEOREM DeploymentInvariance == Spec => []IInv
PROOF
<1>1. Init => IInv
  BY InitInv
<1>2. IInv /\ [Next]_vars => IInv'
  BY NextInv
<1> QED BY <1>1, <1>2, PTL DEF Spec

(***************************************************************************)
(* The cluster holds a tenant database only for a tenant the Control DB    *)
(* knows: _check_selector_coherence and the guard of a mixed plane keep    *)
(* every live operator beside the durable registry.                        *)
(***************************************************************************)
THEOREM NoOrphans == Spec => []NoOrphan
PROOF
<1>1. IInv => NoOrphan
  BY DEF IInv
<1> QED BY <1>1, DeploymentInvariance, PTL

(***************************************************************************)
(* The distinctness ledger of the Control DB holds only what was gathered  *)
(* live beside a control database whose sentinel was read back             *)
(* (_LazyControlEvidenceGate).                                             *)
(***************************************************************************)
THEOREM RealEvidence == Spec => []EvidenceIsReal
PROOF
<1>1. IInv => EvidenceIsReal
  BY DEF IInv
<1> QED BY <1>1, DeploymentInvariance, PTL

(***************************************************************************)
(* A registration taken where the registry was chosen is in the Control    *)
(* DB, and no event of a class whose sink the operator has named ends with *)
(* its process, in any composition of any environment.                     *)
(***************************************************************************)
THEOREM ChoicesHold == Spec => []DurableChoicesHold
PROOF
<1>1. IInv => DurableChoicesHold
  BY DEF IInv
<1> QED BY <1>1, DeploymentInvariance, PTL

(***************************************************************************)
(* A tenant comes to be called Ready in the Control DB only while its      *)
(* database is there with its schema, or by the gate of a mixed plane that *)
(* was called by itself (main.py:397), and a database is dropped only for  *)
(* a tenant the Control DB calls unfinished.                               *)
(***************************************************************************)
THEOREM RegistryAndCluster == Spec => RegistryMatchesCluster
PROOF
<1>1. ASSUME IInv, [Next]_vars PROVE \A t \in Tenants : ReadyIsPhysical(t) /\ DropsAreTheRegistrys(t)
  <2> SUFFICES ASSUME NEW t \in Tenants PROVE ReadyIsPhysical(t) /\ DropsAreTheRegistrys(t)
    OBVIOUS
  <2>1. CASE UNCHANGED <<rows, physical>>
    BY <2>1 DEF ReadyIsPhysical, DropsAreTheRegistrys
  <2>2. ASSUME NEW p \in Procs, PlaneStep(p) PROVE ReadyIsPhysical(t) /\ DropsAreTheRegistrys(t)
    BY <1>1, <2>2, ClusterSteps DEF IInv, ReadyIsPhysical, DropsAreTheRegistrys
  <2>3. ASSUME NEW p \in Procs, Start(p) \/ Stop(p) \/ Answer(p) PROVE UNCHANGED <<rows, physical>>
    BY <1>1, <2>3, ProcessFrames DEF IInv
  <2> QED BY <1>1, <2>1, <2>2, <2>3, NextSteps DEF vars
<1>2. IInv /\ [Next]_vars => [\A t \in Tenants : ReadyIsPhysical(t) /\ DropsAreTheRegistrys(t)]_vars
  BY <1>1
<1>3. []IInv /\ [][Next]_vars => RegistryMatchesCluster
  BY <1>2, PTL DEF RegistryMatchesCluster
<1> QED BY <1>3, DeploymentInvariance, PTL DEF Spec
=============================================================================
