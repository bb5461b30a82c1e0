----------------------------- MODULE Composition -----------------------------
(***************************************************************************)
(* What a process is made of: the composition roots of the control plane,  *)
(* the routers, the import service and the gateway (the main.py of each    *)
(* and the entry points of the edges).                                     *)
(*                                                                         *)
(* The operator sets environment variables.  A value is "unset", "blank"   *)
(* (set, but empty or whitespace), a recognized token, "other" (a token    *)
(* the selector does not know) or "malformed" (a URL, port, number or JSON *)
(* its reader refuses).  A builder yields the parts of a process; Inactive *)
(* when its gate variable is not set; or Refused, when it raises.          *)
(***************************************************************************)
CONSTANTS Inactive, Refused

\* Neither is a value that a builder hands on.
ASSUME CompositionAssumption ==
    Inactive # Refused /\ {Inactive, Refused} \cap {"in_memory", "postgres", "http", "memory", "durable"} = {}

-----------------------------------------------------------------------------
(***************************************************************************)
(* control_plane/main.py: the four selectors, their coherence, and what    *)
(* each builder makes of its own.                                          *)
(***************************************************************************)
Raw == {"unset", "blank", "in_memory", "postgres", "other"}
Live == {"provisioning", "applicator", "ledger"}
Selectors == Live \cup {"store"}

\* _selector_value, by which the matrix compares: blank counts as the default.
SelectorValue(raw) == IF raw \in {"unset", "blank"} THEN "in_memory" ELSE raw

\* Mutant: the normalization before the Gate-A addendum.
SelectorOrDefault(raw) == SelectorValue(raw)

\* control_store_selector: a store somebody meant to choose is never defaulted.
ControlStoreSelector(raw) ==
    CASE raw = "unset" -> "in_memory"
      [] raw = "blank" -> Refused
      [] OTHER -> raw

\* What a token selects; a builder raises on one it does not know.
Backend(token) ==
    CASE token = "in_memory" -> "memory"
      [] token = "postgres" -> "durable"
      [] OTHER -> Refused

\* Mutant: every combination of selectors is composed.
NoRule(env) == TRUE

\* Mutant: RULE 1 forgets the ledger, and so accepts it on its own.
RuleWithoutLedger(env) ==
    (\E s \in Live \ {"ledger"} : SelectorValue(env[s]) = "postgres")
        => \A s \in Selectors : SelectorValue(env[s]) = "postgres"

\* _check_selector_coherence, RULE 1.
Coherent(env) ==
    (\E s \in Live : SelectorValue(env[s]) = "postgres")
        => \A s \in Selectors : SelectorValue(env[s]) = "postgres"

\* _build_store and the three other builders.  An explicit store= wins over the
\* selector, which is then not read.
Store(env, explicit) ==
    IF explicit = "none" THEN Backend(ControlStoreSelector(env.store)) ELSE explicit
Provisioning(env) == Backend(SelectorValue(env.provisioning))
SchemaApplicator(env) == Backend(SelectorValue(env.applicator))
Ledger(env) == Backend(SelectorValue(env.ledger))

\* _build_store_factory: the composed store for every unit of work, or a durable
\* store for each.
StoreFactory(store, explicit) ==
    IF explicit = "none" /\ store = "durable" THEN "fresh" ELSE "shared"

\* _build_postgres_provisioning composes the gate that resolves on first use.
Gate(operator) == IF operator = "durable" THEN "unresolved" ELSE "inMemory"

\* ControlPlane.__init__: the matrix first, then part by part.
ControlPlane(env, explicit) ==
    LET store == Store(env, explicit)
        operator == Provisioning(env)
        applicator == SchemaApplicator(env)
        ledger == Ledger(env)
    IN  IF ~Coherent(env) \/ Refused \in {store, operator, applicator, ledger}
        THEN Refused
        ELSE [kind |-> "plane", store |-> store, factory |-> StoreFactory(store, explicit),
              operator |-> operator, applicator |-> applicator, ledger |-> ledger,
              gate |-> Gate(operator),
              chose |-> IF explicit = "none" /\ env.store \notin {"unset", "in_memory"}
                        THEN {"registry"} ELSE {}]

\* Mutant: only a durable registry without a live side is mixed.
OneWayMixed(p) == p.store = "durable" /\ p.operator = "memory"

\* Mutant: only a live side without a durable registry is mixed.
OtherWayMixed(p) == p.store = "memory" /\ p.operator = "durable"

\* _mixed_effective_posture: from the objects composed, never from the env.
Mixed(p) == (p.store = "durable") # (p.operator = "durable")

\* Mutant: the recovery orchestrator is composed without its guard.
NeverDenied(p) == FALSE

\* _guarded_onboarding and _guarded_recovery: what a mixed plane refuses.
OnboardingDenied(p) == Mixed(p)
RecoveryDenied(p) == Mixed(p)

-----------------------------------------------------------------------------
(***************************************************************************)
(* Readers of single variables.                                            *)
(***************************************************************************)
Urls == {"unset", "blank", "url", "malformed"}
Hosts == {"unset", "blank", "loopback", "other"}
Numbers == {"unset", "blank", "ok", "malformed"}

Blank(raw) == raw \in {"unset", "blank"}

\* Mutant: a URL that cannot be used counts as one that is not there.
Lenient(url) == IF url = "url" THEN "http" ELSE Inactive

\* The selection every *_from_env seam makes: absent, a client, or ValueError.
Client(url) ==
    IF Blank(url) THEN Inactive ELSE IF url = "url" THEN "http" ELSE Refused

\* The bind knobs.  An edge gated by its host stays inactive without one; an
\* internal one takes loopback hosts only; the others default to loopback.
PortOk(port) == port # "malformed"
GatedHost(host) == IF Blank(host) THEN Inactive ELSE host
LoopbackHost(host) ==
    IF Blank(host) THEN Inactive ELSE IF host = "loopback" THEN host ELSE Refused
DefaultHost(host) == IF Blank(host) THEN "loopback" ELSE host

\* A server over `app`: nothing is bound unless host, port and app all stand.
Server(app, host, port) ==
    IF host = Inactive THEN Inactive
    ELSE IF host = Refused \/ ~PortOk(port) \/ app = Refused THEN Refused
    ELSE IF app = Inactive THEN Inactive
    ELSE app

\* An entry point: create_app_from_env and serve_* raise on what is inactive.
Entry(app) == IF app = Inactive THEN Refused ELSE app

-----------------------------------------------------------------------------
(***************************************************************************)
(* The edges.  `audit` says where each class of a process's events goes;   *)
(* `chose` are the classes whose sink the operator has named (a blank      *)
(* value names none).                                                      *)
(***************************************************************************)
App(kind, audit, chose) == [kind |-> kind, audit |-> audit, chose |-> chose]

Sink(client) == IF client = Inactive THEN "memory" ELSE "durable"
Named(url, class) == IF Blank(url) THEN {} ELSE {class}

\* auth_router: the trust anchors are required once the read URL is active.
Issuers(raw) == IF raw = "ok" THEN "anchors" ELSE Refused

Authenticator(env) ==
    LET read == Client(env.authRead) IN
    IF read = Inactive THEN Inactive
    ELSE IF read = Refused \/ Issuers(env.issuers) = Refused THEN Refused
    ELSE App("auth", [auth |-> "memory"], {})

AuthenticateApp(env) == Entry(Authenticator(env))
AuthenticateServer(env, host, port) ==
    Entry(Server(Authenticator(env), DefaultHost(host), port))

\* database_router: the audit variables are read once the routing URL stands.
RoutingAudit(env) ==
    LET client == Client(env.routingAudit) IN
    IF client = "http" /\ ~PortOk(env.routingAuditTimeout) THEN Refused ELSE client

Router(env, kind) ==
    LET read == Client(env.routingRead)
        audit == RoutingAudit(env)
    IN  IF read = Inactive THEN Inactive
        ELSE IF read = Refused \/ audit = Refused THEN Refused
        ELSE App(kind, [route |-> Sink(audit)], Named(env.routingAudit, "route"))

DispatchApp(env) == Entry(Router(env, "dispatch"))
DispatchServer(env, host, port) ==
    Entry(Server(Router(env, "dispatch"), DefaultHost(host), port))

TenantStartupOps(env) == Router(env, "startup")
TenantStartupApp(env) == Entry(TenantStartupOps(env))
TenantStartupServer(env, host, port) ==
    Entry(Server(TenantStartupOps(env), DefaultHost(host), port))

\* import_service: the session provider and the lineage port are injected by
\* deployment/import_edge.py, which may import both packages.
DirectoryRead(env) == Client(env.directoryRead)
ImportAuditSink(env) == Client(env.importAudit)

ImportService(env, router) ==
    LET sink == ImportAuditSink(env) IN
    IF router = Inactive \/ DirectoryRead(env) # "http" \/ sink = Refused THEN Refused
    ELSE App("import", [route |-> router.audit["route"], import |-> Sink(sink)],
             router.chose \cup Named(env.importAudit, "import"))

ImportApp(env) ==
    LET router == Router(env, "router") IN
    IF router \in {Inactive, Refused} THEN Refused ELSE ImportService(env, router)

\* serve_import_api with the ports of a deployment root.
ImportServer(env, host, port) ==
    LET router == Router(env, "router") IN
    IF router \in {Inactive, Refused} THEN Refused
    ELSE Entry(Server(ImportService(env, router), LoopbackHost(host), port))

\* control_plane: the three audit ingest edges.  Their store is durable, or the
\* edge is not composed: "" stands for the default reference, blanks do not.
References == {"unset", "empty", "whitespace", "ok"}
RoutingAuditStore(ref) == IF ref = "whitespace" THEN Refused ELSE "durable"
GatewayAuditStore(ref) == IF ref = "whitespace" THEN Refused ELSE "durable"
ImportAuditStore(ref) == IF ref = "whitespace" THEN Refused ELSE "durable"

Ingest(kind, store) ==
    IF store = Refused THEN Refused ELSE App(kind, [row |-> store], {"row"})

RoutingAuditApp(ref) == Entry(Ingest("routing_audit", RoutingAuditStore(ref)))
RoutingAuditServer(ref, host, port) ==
    Entry(Server(Ingest("routing_audit", RoutingAuditStore(ref)), LoopbackHost(host), port))
GatewayAuditApp(ref) == Entry(Ingest("gateway_audit", GatewayAuditStore(ref)))
GatewayAuditServer(ref, host, port) ==
    Entry(Server(Ingest("gateway_audit", GatewayAuditStore(ref)), LoopbackHost(host), port))
ImportAuditApp(ref) == Entry(Ingest("import_audit", ImportAuditStore(ref)))
ImportAuditServer(ref, host, port) ==
    Entry(Server(Ingest("import_audit", ImportAuditStore(ref)), LoopbackHost(host), port))

\* control_plane: the read edge serves a plane of its own, composed by the
\* selectors alone, and opens a unit of work for each GET.
ReadEdge(env) ==
    LET plane == ControlPlane(env, "none") IN
    IF plane = Refused THEN Refused
    ELSE [kind |-> "read", store |-> plane.store, factory |-> plane.factory,
          chose |-> plane.chose]

ReadApp(env) == Entry(ReadEdge(env))
ReadServer(env, host, port) == Entry(Server(ReadEdge(env), GatedHost(host), port))

-----------------------------------------------------------------------------
(***************************************************************************)
(* api_gateway/main.py: the edge is composed of three real transports or   *)
(* not at all; the other three have a default each.                        *)
(***************************************************************************)
GatewayAuthenticator(env) == Client(env.auth)
GatewayRouterDispatch(env) == Client(env.router)
GatewayControlRead(env) == Client(env.controlRead)
GatewayImportInitiation(env) == Client(env.import)
GatewayTenantStartup(env) == Client(env.startup)

\* _CLM_DURABLE_ACTIONS: what the partition sends to the durable emitter.
Homed == {"success", "denial"}
GatewayClasses == Homed \cup {"anomaly"}

\* Mutant: the partition homes the answers it served and not its denials.
SuccessPartition(sink) ==
    [c \in GatewayClasses |-> IF c = "success" THEN sink ELSE "memory"]

\* ClmDurableAuditPartition.emit.
Partition(sink) == [c \in GatewayClasses |-> IF c \in Homed THEN sink ELSE "memory"]

\* build_audit_emitter_from_env: without a URL build_gateway's in-memory default.
AuditEmitter(env) == Client(env.audit)

\* The None check of build_gateway_edge_deps_from_env.
Incomplete(required) == Inactive \in required

GatewayDeps(env) ==
    LET required == {GatewayAuthenticator(env), GatewayControlRead(env),
                     GatewayRouterDispatch(env)}
        optional == {AuditEmitter(env), GatewayImportInitiation(env),
                     GatewayTenantStartup(env)}
    IN  IF Refused \in required THEN Refused
        ELSE IF Incomplete(required) THEN Inactive
        ELSE IF Refused \in optional THEN Refused
        ELSE [kind |-> "gateway", required |-> required,
              audit |-> Partition(Sink(AuditEmitter(env))),
              chose |-> IF Blank(env.audit) THEN {} ELSE Homed]

GatewayApp(env) == Entry(GatewayDeps(env))
GatewayServer(env, host, port) == Entry(Server(GatewayDeps(env), DefaultHost(host), port))
=============================================================================
