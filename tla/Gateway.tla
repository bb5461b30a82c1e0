------------------------------- MODULE Gateway -------------------------------
(***************************************************************************)
(* The served request path: the gateway's edge and pipeline, the auth      *)
(* router with its cache of control-plane facts, and the data-plane edges  *)
(* (tenant startups, import, dispatch), each evidenced in the audit sinks  *)
(* of AuditIngest.                                                         *)
(*                                                                         *)
(* Every edge runs its handler to the end on its event loop, so a process  *)
(* has one request inside it at a time; those it has given up on elsewhere *)
(* are still served by the process they were sent to.  A slot is a request *)
(* and everything done for it.                                             *)
(***************************************************************************)
EXTENDS AuditIngest, Sequences

CONSTANTS
    Slots,       \* the requests of a behaviour, in no order
    Menu,        \* slot -> the requests it may be
    Configs,     \* compositions: [audit, startup, imports] on or off
    Tenants, Principals,
    Members,     \* the memberships there are at first: <<tenant, principal>>
    Records,     \* <<tenant, reference>> -> "named" or "unnamed" startup rows
    Sources,     \* references of the global directory that can be imported
    Unsteady,    \* tenants whose readiness an operator changes
    TTL, MaxEntries,   \* the auth router's cache
    MaxNow, MaxChanges \* bounds on the clock and on control-plane changes

ASSUME GatewayAssumption ==
    /\ Senders = Slots \X Kinds
    /\ TTL \in Nat /\ MaxEntries \in Nat \ {0}
    /\ NoRef \notin Tenants \union Principals
    /\ Members \subseteq Tenants \X Principals
    /\ \A s \in Slots : \A q \in Menu[s] :
           /\ q.token.flaw \in {"none", "missing", "invalid", "undecodable"}
           /\ q.token.sub \in Principals

VARIABLES
    cfg,     \* the composition
    req,     \* slot -> its request, or NoRef
    pc,      \* slot -> idle, auth, read, data, emit, done
    resp,    \* slot -> status and code, pending while pc is emit
    au,      \* slot -> the auth router's work on it
    dp,      \* slot -> a data-plane edge's work on it
    cp,      \* control plane: [ready, member, lost, changes]
    now, cache,
    did      \* data operations committed: [slot, op, tenant, ref, actor]

pathVars == <<cfg, req, pc, resp, au, dp, cp, now, cache, did>>
gvars == <<sinkVars, pathVars>>

Op(q) == IF q.route = "startup" THEN (IF q.method = "GET" THEN "read" ELSE "update") ELSE q.route

(***************************************************************************)
(* The edge: bounds, the closed route list, and the correlation id.        *)
(***************************************************************************)
Methods ==
    [memberships |-> {"GET", "OPTIONS"}, startup |-> {"GET", "PATCH", "OPTIONS"},
     import |-> {"POST", "OPTIONS"}, readiness |-> {"GET"}]

\* The status the edge answers by itself, or 0 when the core is reached.
EdgeStatus(q) ==
    IF q.wire = "oversized" THEN 413
    ELSE IF q.wire = "malformed" THEN 400
    ELSE IF q.wire = "query" \/ q.route \notin DOMAIN Methods THEN 404
    ELSE IF q.wire = "clean" /\ q.method \notin Methods[q.route] THEN 405
    ELSE IF q.route \in {"startup", "import"} /\ q.ref \in {NoRef, Blank} \union Long THEN 404
    ELSE IF q.method = "OPTIONS" THEN 204
    ELSE IF q.route = "readiness" THEN 200
    ELSE 0

Minted(s) == <<"minted", s>>
Correlation(s) == IF req[s].cor \in {NoRef, Blank} \union Long THEN Minted(s) ELSE req[s].cor

Carriers(q) == {q.carriers[i] : i \in DOMAIN q.carriers}
Claim(s) == req[s].token.claim
Actor(s) == req[s].token.sub

(***************************************************************************)
(* What the code makes itself -- idempotency keys and correlation ids that *)
(* are fresh uuids, clock values, its version, a rendered carrier -- is no *)
(* blank and looks like no secret; nobody else posts under a fresh key.    *)
(* Tenants and subjects have names (jwt_validation.py:89).                 *)
(***************************************************************************)
ASSUME NamesAssumption ==
    /\ MaxNow \in Nat
    /\ \A v \in Senders \union {Minted(s) : s \in Slots} \union {Iso(n) : n \in 0..MaxNow}
               \union {<<"version">>} :
           v \notin {NoRef, Blank} /\ Clean(v)
    /\ Blank \notin Tenants \union Principals
    /\ \A s \in Slots : \A q \in Menu[s] :
           q.carriers # <<>> => Opaque(q.carriers[1]) # NoRef
    /\ \A x \in Strays :
           DOMAIN x.event = WireKeys[x.kind] => x.event[IdKey[x.kind]] \notin Senders

Answer(status, code) == [status |-> status, code |-> code]
Unavailable == Answer(503, "unavailable")

(***************************************************************************)
(* Answers of the core, and the event that must be on record first.        *)
(***************************************************************************)
GatewayEvent(s, action, actor, tenant) ==
    [audit_id |-> <<s, "gateway">>, event_version |-> 1, occurred_at |-> Iso(now),
     correlation_id |-> Correlation(s), action |-> action,
     outcome |-> IF action \in {"RouteDenied", "CarrierMismatch"} THEN "rejected" ELSE "success",
     actor_ref |-> actor, subject_ref |-> NoRef, tenant_ref |-> tenant,
     carrier_ref |-> NoRef, record_ref |-> NoRef]

\* ClmDurableAuditPartition: the durable classes, when a sink is composed.
Emits(e) == cfg.audit /\ e.action \in GatewayActions

Respond(s, r) == pc' = [pc EXCEPT ![s] = "done"] /\ resp' = [resp EXCEPT ![s] = r]

\* The answer waits for its event; a sink that fails turns it into a 503.
EmitThen(s, e, r) ==
    IF Emits(e)
    THEN /\ Begin(<<s, "gateway">>, "gateway", e)
         /\ pc' = [pc EXCEPT ![s] = "emit"]
         /\ resp' = [resp EXCEPT ![s] = r]
    ELSE Respond(s, r) /\ UNCHANGED em

RouteDenied(s, actor, tenant, r) == EmitThen(s, GatewayEvent(s, "RouteDenied", actor, tenant), r)

EmittedAnyway(s) ==
    /\ pc[s] = "emit"
    /\ em[<<s, "gateway">>].pc \in {"acked", "raised"}
    /\ Respond(s, resp[s])
    /\ UNCHANGED <<sinkVars, cfg, req, au, dp, cp, now, cache, did>>

Emitted(s) ==
    /\ pc[s] = "emit"
    /\ em[<<s, "gateway">>].pc \in {"acked", "raised"}
    /\ Respond(s, IF em[<<s, "gateway">>].pc = "acked" THEN resp[s] ELSE Unavailable)
    /\ UNCHANGED <<sinkVars, cfg, req, au, dp, cp, now, cache, did>>

(***************************************************************************)
(* A request arrives.                                                      *)
(***************************************************************************)
Busy == \E t \in Slots : pc[t] \notin {"idle", "done"}

NoWork == [stage |-> "none", answer |-> "none"]
NoAuth == [stage |-> "none", answer |-> "none", ready |-> NoRef, member |-> FALSE, at |-> 0]

Handle(s, q) ==
    /\ pc[s] = "idle" /\ ~Busy
    /\ req' = [req EXCEPT ![s] = q]
    /\ IF EdgeStatus(q) # 0 THEN Respond(s, Answer(EdgeStatus(q), "edge")) /\ UNCHANGED au
       ELSE IF Cardinality(Carriers(q)) > 1
       THEN Respond(s, Answer(403, "isolation_anomaly")) /\ UNCHANGED au
       ELSE /\ pc' = [pc EXCEPT ![s] = "auth"]
            /\ au' = [au EXCEPT ![s].stage = "queued"]
            /\ UNCHANGED resp
    /\ UNCHANGED <<sinkVars, cfg, dp, cp, now, cache, did>>

(***************************************************************************)
(* The auth router.                                                        *)
(***************************************************************************)
AuthBusy == \E t \in Slots : au[t].stage \in {"state", "member", "role"}

\* The bearer token: issuer, key, signature, audience, lifetime, subject.
Validate(token) ==
    CASE token.flaw \in {"missing", "invalid"} -> "401"
      [] token.flaw = "undecodable" -> "503"
      [] OTHER -> "valid"

\* The signed claim is authoritative: every carrier must name its tenant.
CarriersMatch(q) == Carriers(q) \subseteq {q.token.claim}

\* What is decided before the control plane is read.
Stage1(q) ==
    IF Validate(q.token) # "valid" THEN Validate(q.token)
    ELSE IF q.token.claim = NoRef THEN "ok"
    ELSE IF ~CarriersMatch(q) THEN "carrier_mismatch"
    ELSE "reads"

Authenticate(s) ==
    /\ au[s].stage = "queued" /\ ~AuthBusy
    /\ au' = IF Stage1(req[s]) = "reads" THEN [au EXCEPT ![s].stage = "state"]
             ELSE [au EXCEPT ![s].stage = "answered", ![s].answer = Stage1(req[s])]
    /\ UNCHANGED <<sinkVars, cfg, req, pc, resp, dp, cp, now, cache, did>>

CacheKey(s) ==
    IF au[s].stage = "state" THEN <<"state", Claim(s)>>
    ELSE <<au[s].stage, Claim(s), Actor(s)>>

\* What the control plane answers for a key; an unknown tenant and a missing
\* role are None, which is never cached.
Fact(key) ==
    CASE key[1] = "state" -> IF key[2] \in Tenants THEN cp.ready[key[2]] ELSE NoRef
      [] key[1] = "member" -> <<key[2], key[3]>> \in cp.member
      [] key[1] = "role" -> IF <<key[2], key[3]>> \in cp.member THEN "role" ELSE NoRef

Hits(key) == {i \in DOMAIN cache : cache[i].key = key}
LiveForever(i) == cache[i].at <= now
Live(i) == now <= cache[i].at + TTL

\* pop: a key has at most one entry.
Without(key) ==
    IF Hits(key) = {} THEN cache
    ELSE LET i == CHOOSE i \in Hits(key) : TRUE IN
         SubSeq(cache, 1, i - 1) \o SubSeq(cache, i + 1, Len(cache))

\* put: at the bound the entry inserted first goes.
Put(c, key, value) ==
    IF value = NoRef THEN c
    ELSE Append(IF Len(c) >= MaxEntries THEN Tail(c) ELSE c, [key |-> key, val |-> value, at |-> now])

\* A read went wrong: whatever was read, the answer is 503.
AuthFails(s) == au' = [au EXCEPT ![s].stage = "answered", ![s].answer = "503"]

\* A read returned v.
AuthLearns(s, v) ==
    au' = CASE au[s].stage = "state" -> [au EXCEPT ![s].stage = "member", ![s].ready = v]
            [] au[s].stage = "member" ->
                 IF au[s].ready # TRUE \/ ~v
                 THEN [au EXCEPT ![s].stage = "answered", ![s].answer = "forbidden"]
                 ELSE [au EXCEPT ![s].stage = "role", ![s].member = TRUE, ![s].at = now]
            [] au[s].stage = "role" -> [au EXCEPT ![s].stage = "answered", ![s].answer = "ok"]

AuthReads(s) ==
    /\ au[s].stage \in {"state", "member", "role"}
    /\ LET key == CacheKey(s)  live == {i \in Hits(key) : Live(i)} IN
        IF live # {}
        THEN /\ \E i \in live : AuthLearns(s, cache[i].val)
             /\ UNCHANGED <<cache, faults>>
        ELSE \/ AuthLearns(s, Fact(key)) /\ cache' = Put(Without(key), key, Fact(key))
                /\ UNCHANGED faults
             \/ AuthFails(s) /\ cache' = Without(key) /\ Fault(1)
    /\ UNCHANGED <<em, wire, rows, conn, dropped, cfg, req, pc, resp, dp, cp, now, did>>

(***************************************************************************)
(* The pipeline after authentication.                                      *)
(***************************************************************************)
\* build_request_context: the tenant of a request is the signed claim.
TargetOfCarrier(s) == IF req[s].carriers # <<>> THEN req[s].carriers[1] ELSE Claim(s)

Target(s) == Claim(s)

CarrierEvent(s) ==
    [GatewayEvent(s, "CarrierMismatch", NoRef, NoRef)
        EXCEPT !.carrier_ref = Opaque(req[s].carriers[1])]

\* What the gateway's client makes of the auth router's status.
Denial(code) ==
    CASE code = "401" -> Answer(401, "unauthenticated")
      [] code \in {"forbidden", "carrier_mismatch"} -> Answer(403, code)
      [] OTHER -> Unavailable

Reject(s, code) ==
    IF code = "carrier_mismatch" THEN EmitThen(s, CarrierEvent(s), Denial(code))
    ELSE RouteDenied(s, NoRef, NoRef, Denial(code))

\* default_classifier, by path alone: one request, one domain, one database.
Domain(q) == IF q.route = "memberships" THEN "control" ELSE "tenant"

\* The edge a data operation goes to: its own port, or the dispatch handoff.
Edge(q) ==
    IF q.route = "startup" THEN (IF cfg.startup THEN Op(q) ELSE "dispatch")
    ELSE IF cfg.imports THEN "import" ELSE "dispatch"

\* parse_tenant_startup_update_request: one field, a string or null, bounded.
Parsed(body) == body # "refused"

Proceed(s) ==
    LET q == req[s] IN
    IF Domain(q) = "control"
    THEN pc' = [pc EXCEPT ![s] = "read"] /\ UNCHANGED <<em, resp, dp>>
    ELSE IF Target(s) = NoRef
    THEN RouteDenied(s, Actor(s), NoRef, Answer(403, "tenant_context_required")) /\ UNCHANGED dp
    ELSE IF Edge(q) = "update" /\ ~Parsed(q.body)
    THEN Respond(s, Answer(403, "forbidden")) /\ UNCHANGED <<em, dp>>
    ELSE /\ pc' = [pc EXCEPT ![s] = "data"]
         /\ dp' = [dp EXCEPT ![s].stage = "queued"]
         /\ UNCHANGED <<em, resp>>

Authenticated(s) ==
    /\ pc[s] = "auth" /\ au[s].stage = "answered"
    /\ IF au[s].answer = "ok" THEN Proceed(s) ELSE Reject(s, au[s].answer) /\ UNCHANGED dp
    /\ UNCHANGED <<wire, rows, conn, dropped, faults, cfg, req, au, cp, now, cache, did>>

\* The gateway gives up on the auth router, which carries on.
AuthTimesOut(s) ==
    /\ pc[s] = "auth"
    /\ Fault(1)
    /\ Reject(s, "503")
    /\ UNCHANGED <<wire, rows, conn, dropped, cfg, req, au, dp, cp, now, cache, did>>

\* MembershipsForPrincipal: a control-plane read, with its success event.
ReadMemberships(s) ==
    /\ pc[s] = "read"
    /\ \/ /\ EmitThen(s, [GatewayEvent(s, "workspace_memberships_read", Actor(s), NoRef)
                            EXCEPT !.subject_ref = Actor(s)], Answer(200, "ok"))
          /\ UNCHANGED faults
       \/ RouteDenied(s, Actor(s), Target(s), Answer(403, "forbidden")) /\ Fault(1)
       \/ Respond(s, Unavailable) /\ UNCHANGED em /\ Fault(1)
    /\ UNCHANGED <<wire, rows, conn, dropped, cfg, req, au, dp, cp, now, cache, did>>

(***************************************************************************)
(* A data-plane edge: envelope, route, operation.                          *)
(***************************************************************************)
Working == {"routing", "run", "record"}
EdgeBusy(e) == \E t \in Slots : dp[t].stage \in Working /\ Edge(req[t]) = e

RoutingEvent(s, action, code) ==
    LET success == action = "Route" IN
    [event_id |-> <<s, "routing">>, event_version |-> 1, occurred_at |-> Iso(now),
     correlation_id |-> Correlation(s), actor_ref |-> Actor(s), action |-> action,
     outcome |-> IF success THEN <<"success">> ELSE <<"denied:", code>>,
     source_service |-> "database_router", source_version |-> <<"version">>, request_ref |-> NoRef,
     tenant_ref |-> Target(s), resolved_tenant_ref |-> IF success THEN Target(s) ELSE NoRef,
     public_code |-> IF success THEN NoRef ELSE code, error_class |-> NoRef,
     association_store_ref |-> NoRef, association_version |-> NoRef,
     lane |-> IF ~success THEN NoRef
              ELSE IF Edge(req[s]) = "import" THEN "bulk" ELSE "interactive"]

ImportEvent(s, action, outcome) ==
    [audit_id |-> <<s, "import">>, event_version |-> 1, occurred_at |-> Iso(now),
     correlation_id |-> Correlation(s), action |-> action, outcome |-> outcome,
     actor_ref |-> Actor(s), target_ref |-> Target(s), source_ref |-> req[s].ref]

Replies(s, answer) == dp' = [dp EXCEPT ![s].stage = "answered", ![s].answer = answer]

\* The startup and the import edge refuse secret-shaped references.
EnvelopeOk(s) ==
    Edge(req[s]) = "dispatch" \/
        /\ \A v \in {req[s].ref, Actor(s), Target(s), Correlation(s)} : Clean(v)
        /\ req[s].body # "marked"

\* Route: one routing event, whether it is allowed or denied.
Routes(s, action, code) ==
    IF cfg.audit
    THEN /\ Begin(<<s, "routing">>, "routing", RoutingEvent(s, action, code))
         /\ dp' = [dp EXCEPT ![s].stage = "routing"]
    ELSE /\ dp' = [dp EXCEPT ![s].stage = IF action = "Route" THEN "run" ELSE "answered",
                             ![s].answer = IF action = "Route" THEN "none" ELSE "denied"]
         /\ UNCHANGED em

OpenSession(s) ==
    /\ dp[s].stage = "queued" /\ ~EdgeBusy(Edge(req[s]))
    /\ IF ~EnvelopeOk(s) THEN Replies(s, "refused") /\ UNCHANGED <<em, faults>>
       ELSE \/ /\ IF cp.ready[Target(s)] THEN Routes(s, "Route", NoRef)
                  ELSE Routes(s, "RouteDenied", "not_ready")
               /\ UNCHANGED faults
            \/ Fault(1) /\ Routes(s, "RouteDenied", "connection_unavailable")
    /\ UNCHANGED <<wire, rows, conn, dropped, cfg, req, pc, resp, au, cp, now, cache, did>>

\* The router learns how its event fared; an unevidenced route is not used.
Routed(s) ==
    /\ dp[s].stage = "routing"
    /\ LET m == em[<<s, "routing">>] IN
        /\ m.pc \in {"acked", "raised", "swallowed"}
        /\ IF m.event.action = "Route" /\ m.pc = "acked"
           THEN dp' = [dp EXCEPT ![s].stage = "run"]
           ELSE Replies(s, "denied")
    /\ UNCHANGED <<sinkVars, cfg, req, pc, resp, au, cp, now, cache, did>>

Performs(s) ==
    did' = did \union {[slot |-> s, op |-> Edge(req[s]), tenant |-> Target(s),
                        ref |-> req[s].ref, actor |-> Actor(s)]}

\* One transaction on the bound tenant database.  The record is composed
\* after the commit, and refused when the row has no name.
RunStartupUncommitted(s) ==
    LET key == <<Target(s), req[s].ref>> IN
    IF key \notin DOMAIN Records THEN Replies(s, "absent") /\ UNCHANGED <<em, did>>
    ELSE /\ Replies(s, IF Records[key] = "named" THEN "record" ELSE "failed")
         /\ UNCHANGED <<em, did>>

RunStartup(s) ==
    LET key == <<Target(s), req[s].ref>> IN
    IF key \notin DOMAIN Records THEN Replies(s, "absent") /\ UNCHANGED <<em, did>>
    ELSE /\ Performs(s)
         /\ Replies(s, IF Records[key] = "named" THEN "record" ELSE "failed")
         /\ UNCHANGED em

\* The import itself is ImportRun's; its last event must be on record.
Imported(s) == IF req[s].ref \in Sources THEN "applied" ELSE "nothing"

RunImport(s) ==
    /\ IF Imported(s) = "applied" THEN Performs(s) ELSE UNCHANGED did
    /\ IF cfg.audit
       THEN /\ Begin(<<s, "import">>, "import", ImportEvent(s, "ImportCompleted", <<"success">>))
            /\ dp' = [dp EXCEPT ![s].stage = "record"]
       ELSE Replies(s, Imported(s)) /\ UNCHANGED em

\* Otherwise the transaction fails: rolled back, or its commit left in doubt.
RunData(s) ==
    /\ dp[s].stage = "run"
    /\ \/ /\ CASE Edge(req[s]) \in {"read", "update"} -> RunStartup(s)
               [] Edge(req[s]) = "import" -> RunImport(s)
               [] Edge(req[s]) = "dispatch" -> Replies(s, "dispatched") /\ UNCHANGED <<em, did>>
          /\ UNCHANGED faults
       \/ /\ Edge(req[s]) # "dispatch" /\ Fault(1)
          /\ Replies(s, "failed") /\ UNCHANGED em
          /\ \/ UNCHANGED did
             \/ <<Target(s), req[s].ref>> \in DOMAIN Records /\ Performs(s)
    /\ UNCHANGED <<wire, rows, conn, dropped, cfg, req, pc, resp, au, cp, now, cache>>

ImportRecorded(s) ==
    /\ dp[s].stage = "record"
    /\ em[<<s, "import">>].pc \in {"acked", "raised"}
    /\ Replies(s, IF em[<<s, "import">>].pc = "acked" THEN Imported(s) ELSE "failed")
    /\ UNCHANGED <<sinkVars, cfg, req, pc, resp, au, cp, now, cache, did>>

(***************************************************************************)
(* What the gateway makes of the answer.                                   *)
(***************************************************************************)
StartupEvent(s) ==
    [GatewayEvent(s, IF Edge(req[s]) = "read" THEN "tenant_startup_read" ELSE "tenant_startup_update",
                  Actor(s), Target(s)) EXCEPT !.record_ref = req[s].ref]

Conclude(s, answer) ==
    CASE answer = "record" -> EmitThen(s, StartupEvent(s), Answer(200, "ok"))
      [] answer = "absent" -> Respond(s, Answer(404, "not_found")) /\ UNCHANGED em
      [] answer = "applied" -> Respond(s, Answer(200, "ok")) /\ UNCHANGED em
      [] answer = "nothing" -> RouteDenied(s, Actor(s), Target(s), Answer(403, "forbidden"))
      [] OTHER -> Respond(s, Unavailable) /\ UNCHANGED em

Concluded(s) ==
    /\ pc[s] = "data" /\ dp[s].stage = "answered"
    /\ Conclude(s, dp[s].answer)
    /\ UNCHANGED <<wire, rows, conn, dropped, faults, cfg, req, au, dp, cp, now, cache, did>>

\* The gateway gives up; the edge carries on, and may yet commit.
DataTimesOut(s) ==
    /\ pc[s] = "data"
    /\ Fault(1)
    /\ Respond(s, Unavailable)
    /\ UNCHANGED <<em, wire, rows, conn, dropped, cfg, req, au, dp, cp, now, cache, did>>

(***************************************************************************)
(* The control plane and the clock.                                        *)
(***************************************************************************)
Changes(c) ==
    /\ cp.changes < MaxChanges
    /\ cp' = [c EXCEPT !.changes = @ + 1]
    /\ UNCHANGED <<sinkVars, cfg, req, pc, resp, au, dp, now, cache, did>>

Revoke(t, p) ==
    <<t, p>> \in cp.member /\ Changes([cp EXCEPT !.member = @ \ {<<t, p>>}, !.lost[t][p] = now])

Grant(t, p) == <<t, p>> \notin cp.member /\ Changes([cp EXCEPT !.member = @ \union {<<t, p>>}])

SetReady(t) == Changes([cp EXCEPT !.ready[t] = ~@])

Tick ==
    /\ now < MaxNow
    /\ now' = now + 1
    /\ UNCHANGED <<sinkVars, cfg, req, pc, resp, au, dp, cp, cache, did>>

GInit ==
    /\ SinkInit
    /\ cfg \in Configs
    /\ req = [s \in Slots |-> NoRef]
    /\ pc = [s \in Slots |-> "idle"]
    /\ resp = [s \in Slots |-> Answer(0, "none")]
    /\ au = [s \in Slots |-> NoAuth]
    /\ dp = [s \in Slots |-> NoWork]
    /\ cp = [ready |-> [t \in Tenants |-> TRUE],
             member |-> Members,
             lost |-> [t \in Tenants |-> [p \in Principals |-> 0]],
             changes |-> 0]
    /\ now = 0 /\ cache = <<>>
    /\ did = {}

Arrives(s) == \E q \in Menu[s] : Handle(s, q)
GatewayStep(s) == Authenticated(s) \/ ReadMemberships(s) \/ Concluded(s) \/ Emitted(s)

AuthStep(s) == Authenticate(s) \/ AuthReads(s)
DataStep(s) == OpenSession(s) \/ Routed(s) \/ RunData(s) \/ ImportRecorded(s)

ControlPlaneChanges ==
    \/ \E t \in Tenants, p \in Principals : Revoke(t, p) \/ Grant(t, p)
    \/ \E t \in Unsteady : SetReady(t)

GNext ==
    \/ \E s \in Slots : Arrives(s) \/ GatewayStep(s) \/ AuthStep(s) \/ DataStep(s)
    \/ \E s \in Slots : AuthTimesOut(s) \/ DataTimesOut(s)
    \/ SinkStep /\ UNCHANGED pathVars
    \/ ControlPlaneChanges
    \/ Tick

Progress ==
    \/ \E s \in Slots : GatewayStep(s) \/ AuthStep(s) \/ DataStep(s)
    \/ (\E x \in Senders : SenderStep(x)) /\ UNCHANGED pathVars

\* While some process or client can go on, one of them does (a client's timer
\* expires in the end); nobody has to ask.
GSpec == GInit /\ [][GNext]_gvars /\ WF_gvars(Progress)

(***************************************************************************)
(* Properties.                                                             *)
(***************************************************************************)
\* gateway.py: an answer of a durable class is handed back only when its
\* event, with its actor, tenant and record, is on record.
Tells(s, answer, e) ==
    /\ e.correlation_id = Correlation(s)
    /\ IF answer.status = 200
       THEN IF req[s].route = "startup"
            THEN /\ e.action = (IF req[s].method = "GET" THEN "tenant_startup_read"
                                ELSE "tenant_startup_update")
                 /\ e.actor_ref = Actor(s) /\ e.tenant_ref = Claim(s) /\ e.record_ref = req[s].ref
            ELSE e.action = "workspace_memberships_read" /\ e.subject_ref = Actor(s)
       ELSE IF answer.code = "carrier_mismatch"
       THEN e.action = "CarrierMismatch" /\ e.carrier_ref = Opaque(req[s].carriers[1])
       ELSE e.action = "RouteDenied"

Evidence(s) == {r \in rows.gateway : r.audit_id = <<s, "gateway">> /\ Tells(s, resp[s], r)}

NeedsEvidence(s) ==
    /\ cfg.audit /\ pc[s] = "done"
    /\ \/ resp[s].status = 200 /\ req[s].route \in {"startup", "memberships"}
       \/ resp[s].code \in {"unauthenticated", "carrier_mismatch", "tenant_context_required"}
       \/ resp[s].code = "forbidden" /\ req[s].body # "refused"

AnsweredWithEvidence == \A s \in Slots : NeedsEvidence(s) => Evidence(s) # {}

\* Found invalid only for a reference that is too long or secret-shaped, or by
\* a damaged answer.
References ==
    {"correlation_id", "actor_ref", "subject_ref", "tenant_ref", "carrier_ref",
     "record_ref", "target_ref", "source_ref"}
Suspect(e) == \E f \in References \intersect DOMAIN e : ~Optional(e, f)

NoFalseAlarm ==
    \A x \in Senders :
        /\ em[x].fail # "conflict"
        /\ em[x].fail = "invalid" => Suspect(em[x].event) \/ faults > 0

(***************************************************************************)
(* The audit stores tell the truth.  An event that says a startup was read *)
(* or updated, or an import completed, is true: the operation was          *)
(* committed, for that actor, tenant and record.  And the repeat of an     *)
(* event after a lost answer is recognized as the row that is there: the   *)
(* emitters never raise a conflict of their own (postgres_store.py:619).   *)
(***************************************************************************)
RowsAreTrue ==
    /\ NoFalseAlarm
    /\ \A s \in Slots, r \in rows.gateway :
        r.audit_id = <<s, "gateway">> /\ r.action \in Startup =>
            \E d \in did : d.slot = s /\ d.tenant = r.tenant_ref /\ d.ref = r.record_ref
                           /\ d.actor = r.actor_ref
                           /\ d.op = (IF r.action = "tenant_startup_read" THEN "read" ELSE "update")
    /\ \A s \in Slots, r \in rows.import :
        r.audit_id = <<s, "import">> =>
            \/ req[s].ref \notin Sources
            \/ \E d \in did : d.slot = s /\ d.op = "import" /\ d.tenant = r.target_ref

\* IC-010 par. K: whatever a client asserts, data of one tenant is touched,
\* the signed one, by an authenticated principal, over a route that is on
\* record.
DataFollowsTheClaim ==
    \A d \in did :
        LET q == req[d.slot] IN
        /\ q.token.flaw = "none" /\ d.tenant = q.token.claim /\ d.actor = q.token.sub
        /\ Carriers(q) \subseteq {d.tenant}
        /\ cfg.audit => \E r \in rows.routing :
               /\ r.event_id = <<d.slot, "routing">> /\ r.action = "Route"
               /\ r.resolved_tenant_ref = d.tenant /\ r.actor_ref = d.actor

\* caching.py: a principal is let in no longer than TTL after the membership
\* ended.
RevocationBites ==
    \A s \in Slots :
        au[s].answer = "ok" /\ Claim(s) # NoRef =>
            \/ <<Claim(s), Actor(s)>> \in cp.member
            \/ au[s].at <= cp.lost[Claim(s)][Actor(s)] + TTL

\* The three sinks keep what they promise the emitters.
ImplementsAuditContract == Abstract!Contract

\* Every request that entered the core is answered, and the loop is free
\* for the next one.
EveryRequestIsAnswered == Busy ~> ~Busy

\* http_tenant_startup_api.py, of an operation that failed: "the executor
\* rolled back, so no partial write survives."
FailedUpdatesLeaveNothing ==
    \A d \in did : d.op = "update" => dp[d.slot].answer # "failed"
=============================================================================
