----------------------------- MODULE AuditIngest -----------------------------
(***************************************************************************)
(* The control plane's three durable audit sinks and their clients: the    *)
(* gateway, the database router and the import service each post an event  *)
(* to an ingest edge of the control plane, which validates it and appends  *)
(* it, once per idempotency key, to a table of the control database.       *)
(*                                                                         *)
(* A client is one emission: the event, the attempt it is at and how the   *)
(* attempt ended.  A request may be lost, answered late or delivered after *)
(* its sender has given up; an answer may be lost or damaged; a database   *)
(* connection may break before or after the commit.  An edge keeps one     *)
(* cached connection for the life of its process.                          *)
(***************************************************************************)
EXTENDS Integers, FiniteSets

CONSTANTS
    Senders,    \* the emissions, one per sender
    NoRef,      \* Python's None
    Blank,      \* an empty string
    Marked,     \* references with a secret-, token- or DSN-shaped part
    Long,       \* references of more than 512 characters
    Strays,     \* other posts the edges receive: [kind, event]
    MaxFaults   \* bound on lost messages, broken connections and restarts

Kinds == {"gateway", "routing", "import"}

ASSUME SinkAssumption ==
    /\ NoRef # Blank
    /\ MaxFaults \in Nat
    /\ \A x \in Strays : x.kind \in Kinds

VARIABLES
    em,      \* sender -> [kind, event, try, pc, fail]
    wire,    \* <<sender, attempt>> still on its way to an edge
    rows,    \* kind -> the rows of its table
    conn,    \* kind -> the edge's cached connection: none, open or broken
    dropped, \* kind of routing event -> times its audit failure was swallowed
    faults

sinkVars == <<em, wire, rows, conn, dropped, faults>>

(***************************************************************************)
(* The wire.  An event maps the keys of its kind to values; a wall clock   *)
(* value travels as ISO text and is stored as a timestamp.                 *)
(***************************************************************************)
WireKeys ==
    [gateway |-> {"audit_id", "event_version", "occurred_at", "correlation_id",
                  "action", "outcome", "actor_ref", "subject_ref", "tenant_ref",
                  "carrier_ref", "record_ref"},
     routing |-> {"event_id", "event_version", "occurred_at", "correlation_id",
                  "actor_ref", "action", "outcome", "source_service",
                  "source_version", "request_ref", "tenant_ref",
                  "resolved_tenant_ref", "public_code", "error_class",
                  "association_store_ref", "association_version", "lane"},
     import  |-> {"audit_id", "event_version", "occurred_at", "correlation_id",
                  "action", "outcome", "actor_ref", "target_ref", "source_ref"}]

IdKey == [gateway |-> "audit_id", routing |-> "event_id", import |-> "audit_id"]

Iso(n) == <<"iso", n>>
Timestamp(text) == <<"timestamptz", text[2]>>
SameInstantAsText(stored, text) == stored = text
SameInstant(stored, text) == stored = Timestamp(text)

\* api_gateway's opaque rendering of a carrier value, cut at 64 characters.
Opaque(v) == <<"carrier:", IF v \in Long THEN "cut" ELSE v>>

Clean(v) ==
    /\ v \notin Long \union Marked
    /\ \A bad \in Marked : v # Opaque(bad)
Required(e, k) == e[k] \notin {NoRef, Blank} /\ Clean(e[k])
Optional(e, k) == e[k] = NoRef \/ Clean(e[k])

Startup == {"tenant_startup_read", "tenant_startup_update"}
GatewayActions ==
    Startup \union {"workspace_memberships_read", "RouteDenied", "CarrierMismatch"}

ParseGateway(e) ==
    /\ \A k \in {"audit_id", "occurred_at", "correlation_id"} : Required(e, k)
    /\ \A k \in {"actor_ref", "subject_ref", "tenant_ref", "carrier_ref", "record_ref"} :
           Optional(e, k)
    /\ e.event_version = 1
    /\ e.action \in GatewayActions
    /\ e.outcome = IF e.action \in {"RouteDenied", "CarrierMismatch"}
                   THEN "rejected" ELSE "success"
    /\ e.action = "CarrierMismatch" =>
           /\ e.record_ref = NoRef /\ e.tenant_ref = NoRef
           /\ e.carrier_ref # NoRef /\ e.carrier_ref[1] = "carrier:"
    /\ e.action \in Startup =>
           /\ Required(e, "actor_ref") /\ Required(e, "record_ref")
           /\ e.tenant_ref # NoRef
    /\ e.action = "workspace_memberships_read" =>
           /\ Required(e, "actor_ref") /\ Required(e, "subject_ref")
           /\ e.record_ref = NoRef

PublicCodes ==
    {"not_found", "no_active_tenant", "not_ready", "schema_out_of_range",
     "administratively_disabled", "unavailable", "control_plane_unavailable",
     "connection_unavailable", "tenant_routing_unavailable", "routing_isolation_fault"}

ParseRouting(e) ==
    /\ \A k \in {"event_id", "occurred_at", "correlation_id", "actor_ref", "source_version"} :
           Required(e, k)
    /\ \A k \in {"request_ref", "tenant_ref", "resolved_tenant_ref",
                 "association_store_ref", "association_version"} : Optional(e, k)
    /\ e.event_version = 1
    /\ \/ /\ e.action \in {"Route", "RouteControl"}
          /\ e.outcome = <<"success">> /\ e.public_code = NoRef
       \/ /\ e.action = "RouteDenied"
          /\ e.public_code \in PublicCodes /\ e.outcome = <<"denied:", e.public_code>>
       \/ /\ e.action = "IsolationAnomaly"
          /\ e.outcome = <<"anomaly:", "tenant_binding">> /\ e.public_code = NoRef
    /\ e.error_class # NoRef =>
           /\ e.error_class \in {"secret_resolution", "pool", "connect", "driver"}
           /\ e.public_code = "connection_unavailable"
    /\ e.lane \in {NoRef, "interactive", "bulk"}
    /\ e.source_service = "database_router"

CheckActionOutcome(action, outcome) ==
    \/ /\ action \in {"ImportRequested", "ImportStarted", "ImportResumed"}
       /\ outcome = <<"success">>
    \/ action = "ImportCompleted" /\ outcome \in {<<"success">>, <<"replayed">>}
    \/ action = "ImportFailed" /\ outcome[1] = "error:" /\ outcome[2] # Blank

ParseImport(e) ==
    /\ \A k \in {"audit_id", "occurred_at", "correlation_id", "actor_ref",
                 "target_ref", "source_ref"} : Required(e, k)
    /\ e.event_version = 1
    /\ CheckActionOutcome(e.action, e.outcome)

Parses(k, e) ==
    /\ DOMAIN e = WireKeys[k]
    /\ CASE k = "gateway" -> ParseGateway(e)
         [] k = "routing" -> ParseRouting(e)
         [] k = "import"  -> ParseImport(e)

(***************************************************************************)
(* The stores: one INSERT .. ON CONFLICT DO NOTHING, committed only when   *)
(* it inserted; otherwise the stored row is compared with the replay.  The *)
(* cached connection is opened once and, when it breaks, never replaced.   *)
(***************************************************************************)
\* How the database behaves during one append.
DbConduct == {"works", "refuses", "fails", "breaks", "breaks_committed"}

Row(e) == [e EXCEPT !.occurred_at = Timestamp(@)]
Under(k, e) == {r \in rows[k] : r[IdKey[k]] = e[IdKey[k]]}

ReplayMatches(r, e) ==
    /\ SameInstant(r.occurred_at, e.occurred_at)
    /\ \A f \in DOMAIN e \ {"occurred_at"} : r[f] = e[f]

\* Does the statement reach the server, and does its transaction survive?
Reaches(k, c) == conn[k] # "broken" /\ ~(c = "refuses" /\ conn[k] = "none")
Commits(k, c) == Reaches(k, c) /\ c \in {"works", "refuses", "breaks_committed"}

Inserted(k, e, c) ==
    IF Commits(k, c) /\ Under(k, e) = {} THEN rows[k] \union {Row(e)} ELSE rows[k]

ConnAfter(k, c) ==
    CASE ~Reaches(k, c) -> conn[k]
      [] c \in {"breaks", "breaks_committed"} -> "broken"
      [] OTHER -> "open"

AppendAnswerEarly(k, e, c) ==
    IF ~Reaches(k, c) \/ c = "fails" THEN "503"
    ELSE IF Under(k, e) = {} THEN "INSERTED"
    ELSE IF \E r \in Under(k, e) : ReplayMatches(r, e) THEN "DUPLICATE_MATCH"
    ELSE "409"

AppendAnswer(k, e, c) ==
    IF ~Reaches(k, c) \/ c \in {"fails", "breaks", "breaks_committed"} THEN "503"
    ELSE IF Under(k, e) = {} THEN "INSERTED"
    ELSE IF \E r \in Under(k, e) : ReplayMatches(r, e) THEN "DUPLICATE_MATCH"
    ELSE "409"

(***************************************************************************)
(* The clients.                                                            *)
(***************************************************************************)
NoEmission == [kind |-> "none", event |-> NoRef, try |-> 0, pc |-> "idle", fail |-> "none"]

Emission(k, e) == [kind |-> k, event |-> e, try |-> 1, pc |-> "post", fail |-> "none"]

\* One more fault may happen.
Fault(n) == faults + n <= MaxFaults /\ faults' = faults + n

\* Exactly one retry, of the same event, and only of a transient failure.
RetryableForever(m, kind) == kind = "unavailable"
Retryable(m, kind) == kind = "unavailable" /\ m.try = 1

\* A finally failed denial or anomaly of the router is swallowed and counted.
Swallowed(m) == m.kind = "routing" /\ m.event.action \in {"RouteDenied", "IsolationAnomaly"}

Failed(m, kind) ==
    IF Retryable(m, kind) THEN [m EXCEPT !.try = 2, !.pc = "post"]
    ELSE [m EXCEPT !.pc = IF Swallowed(m) THEN "swallowed" ELSE "raised", !.fail = kind]

\* What the answer of an edge means to the client.
Answered(m, answer) ==
    IF answer \in {"INSERTED", "DUPLICATE_MATCH"} THEN [m EXCEPT !.pc = "acked"]
    ELSE Failed(m, CASE answer = "409" -> "conflict"
                     [] answer = "503" -> "unavailable"
                     [] OTHER -> "invalid")

\* The emission ends, and a swallowed failure is counted.
Becomes(s, m) ==
    /\ em' = [em EXCEPT ![s] = m]
    /\ dropped' = IF m.pc = "swallowed" /\ em[s].pc # "swallowed"
                  THEN [dropped EXCEPT ![m.event.action] = @ + 1] ELSE dropped

\* The emitters mint the idempotency key and the clock value once, and post.
Begin(s, k, e) == em' = [em EXCEPT ![s] = Emission(k, e)]

Post(s) ==
    /\ em[s].pc = "post"
    /\ em' = [em EXCEPT ![s].pc = "wait"]
    /\ wire' = wire \union {<<s, em[s].try>>}
    /\ UNCHANGED <<rows, conn, dropped, faults>>

Refused(s) ==
    /\ em[s].pc = "post"
    /\ Fault(1)
    /\ Becomes(s, Failed(em[s], "unavailable"))
    /\ UNCHANGED <<wire, rows, conn>>

Waits(w) == em[w[1]].pc = "wait" /\ em[w[1]].try = w[2]

\* The edge: parse, append, answer.  The answer is lost when c says so or
\* when its sender no longer waits for this attempt.
Ingest(w) ==
    /\ w \in wire
    /\ wire' = wire \ {w}
    /\ \E c \in DbConduct, delivered \in {"whole", "damaged", "lost"} :
        LET s == w[1]  k == em[s].kind  e == em[s].event
            parsed == Parses(k, e)
            answer == IF parsed THEN AppendAnswer(k, e, c) ELSE "400" IN
        /\ Fault((IF c = "works" THEN 0 ELSE 1) + (IF delivered = "whole" THEN 0 ELSE 1))
        /\ ~parsed => c = "works"
        /\ rows' = IF parsed THEN [rows EXCEPT ![k] = Inserted(k, e, c)] ELSE rows
        /\ conn' = IF parsed THEN [conn EXCEPT ![k] = ConnAfter(k, c)] ELSE conn
        /\ IF Waits(w) /\ delivered # "lost"
           THEN Becomes(s, IF delivered = "damaged" THEN Failed(em[s], "invalid")
                           ELSE Answered(em[s], answer))
           ELSE UNCHANGED <<em, dropped>>

\* Something else posts to an edge: a malformed body, or a key already used.
StrayPost(x) ==
    /\ Fault(1)
    /\ LET parsed == Parses(x.kind, x.event) IN
        /\ rows' = IF parsed THEN [rows EXCEPT ![x.kind] = Inserted(x.kind, x.event, "works")]
                   ELSE rows
        /\ conn' = IF parsed THEN [conn EXCEPT ![x.kind] = ConnAfter(x.kind, "works")] ELSE conn
    /\ UNCHANGED <<em, wire, dropped>>

\* A request that is lost is lost to its edge; the client learns by timeout.
Lost(w) ==
    /\ w \in wire
    /\ Fault(1)
    /\ wire' = wire \ {w}
    /\ UNCHANGED <<em, rows, conn, dropped>>

\* The client gives up.  A request still on its way is delivered later.
TimeOut(s) ==
    /\ em[s].pc = "wait"
    /\ IF <<s, em[s].try>> \in wire THEN Fault(1) ELSE UNCHANGED faults
    /\ Becomes(s, Failed(em[s], "unavailable"))
    /\ UNCHANGED <<wire, rows, conn>>

\* An operator restarts an ingest edge: its cached connection goes with it.
EdgeRestarts(k) ==
    /\ conn[k] # "none"
    /\ Fault(1)
    /\ conn' = [conn EXCEPT ![k] = "none"]
    /\ UNCHANGED <<em, wire, rows, dropped>>

SinkInit ==
    /\ em = [s \in Senders |-> NoEmission]
    /\ wire = {}
    /\ rows = [k \in Kinds |-> {}]
    /\ conn = [k \in Kinds |-> "none"]
    /\ dropped = [a \in {"RouteDenied", "IsolationAnomaly"} |-> 0]
    /\ faults = 0

SenderStep(s) ==
    \/ Post(s) \/ Refused(s) \/ TimeOut(s)
    \/ \E w \in wire : w[1] = s /\ (Ingest(w) \/ Lost(w))

SinkStep ==
    \/ \E s \in Senders : SenderStep(s)
    \/ \E x \in Strays : StrayPost(x)
    \/ \E k \in Kinds : EdgeRestarts(k)

(***************************************************************************)
(* What the sinks promise.                                                 *)
(***************************************************************************)
Keys(k) == {r[IdKey[k]] : r \in rows[k]}
AllRows == UNION {{<<k, r>> : r \in rows[k]} : k \in Kinds}
Key(kr) == <<kr[1], kr[2][IdKey[kr[1]]]>>

\* The audit tables as the contract sees them.
Recorded == [key \in {Key(kr) : kr \in AllRows} |-> {kr[2] : kr \in {x \in AllRows : Key(x) = key}}]
Confirmed == {<<em[s].kind, em[s].event[IdKey[em[s].kind]]>> : s \in {t \in Senders : em[t].pc = "acked"}}

Abstract == INSTANCE AuditContract WITH recorded <- Recorded, confirmed <- Confirmed
=============================================================================
