------------------------------- MODULE Portal -------------------------------
(***************************************************************************)
(* The second stack (snackportal2): the backend-for-frontend, its access   *)
(* control and audit, the registry and router it asks, and the two tenant  *)
(* services that write, import_service and startups, on the tenant         *)
(* databases the router grants them.                                       *)
(*                                                                         *)
(* Every handler is an async function that calls synchronously, so a       *)
(* process serves one request at a time: `edge` are the processes of the   *)
(* BFF, `srv` those of the services, and `inbox` holds what has been sent  *)
(* and not been taken up -- also after its sender gave up waiting.  A step *)
(* is one call to another process or one statement of a transaction; the   *)
(* services have no state but the tenant database.                         *)
(***************************************************************************)
EXTENDS LineageChain, Sequences, FiniteSets

CONSTANTS
    Edges, Servers,     \* processes of the BFF, and of the services behind it
    Serves,             \* each server's service
    Tenants, NoTenant, Principals,
    Sources, NoSource,  \* records of the global startup directory
    Directory,          \* those the control plane has
    Databases, NoDatabase,
    Assocs, DatabaseOf, \* associations (store_ref, version), and the database the secret store has for each
    Keyed,              \* tenants with a lineage chain key
    Menu,               \* the requests each edge may receive
    Registered,         \* the registry a behaviour begins with
    Puts,               \* the descriptors an operator may write for each tenant
    Copies,             \* the (tenant, source) pairs an internal caller may copy by hand
    Enrolled, Joiners,  \* the memberships there are, and those an operator may write
    MaxRequests,        \* bound: requests received by each edge
    MaxInternal,        \* bound: startups created by an internal caller
    MaxPuts, MaxFaults  \* bounds: control-plane writes; lost answers, failing calls, dying processes

Tickets == (Edges \X (1..MaxRequests)) \cup ({"internal"} \X (1..MaxInternal))
NoTicket == <<"none", 0>>

\* The row of a tenant: how far it is, and the association its databases are bound by.
Descriptors == [state : {"PROVISIONING", "ACTIVE", "SUSPENDED", "DISABLED"}, assoc : Assocs]

\* What an answer without a record of a tenant tells.
Nothing == [tenant |-> NoTenant, id |-> NoTicket]

ASSUME PortalAssumption ==
    /\ Serves \in [Servers -> {"import_service", "startups"}]
    /\ NoTenant \notin Tenants /\ NoSource \notin Sources /\ Directory \subseteq Sources
    /\ DatabaseOf \in [Assocs -> Databases \cup {NoDatabase}] /\ NoDatabase \notin Databases
    /\ Keyed \subseteq Tenants
    /\ {MaxRequests, MaxInternal, MaxPuts, MaxFaults} \subseteq Nat
    /\ "internal" \notin Edges
    /\ \A e \in Edges : \A req \in Menu[e] : req.op = "create" => req.arg = NoSource
    /\ Registered \in [Tenants -> Seq(Descriptors)] /\ \A t \in Tenants : Puts[t] \subseteq Descriptors
    /\ Enrolled \cup Joiners \subseteq Principals \X Tenants /\ Copies \subseteq Tenants \X Sources

VARIABLES
    registry,   \* control_tenants: every descriptor a tenant has had, the last one is the row
    members,    \* control_memberships
    trail,      \* the ingress audit
    edge,       \* each BFF process and the request it serves
    inbox,      \* calls sent to a service and not taken up yet
    replies,    \* answers on their way to an edge
    srv,        \* each service process and the call it serves
    data,       \* the tenant databases, committed
    tx,         \* what each server's open transaction has written
    locks,      \* the servers that hold IMPORT_LOCK_KEY
    answers,    \* history: what the clients were told
    committed,  \* history: the calls whose writes are committed
    refused,    \* history: the writes a UNIQUE constraint refused, with the row in their way
    puts, internals, faults \* used up so far

ctrl == <<registry, members>>
edges == <<trail, edge, answers>>
servers == <<srv, data, tx, locks, committed, refused>>
vars == <<registry, members, trail, edge, inbox, replies, srv, data, tx, locks, answers, committed, refused, puts, internals, faults>>

-----------------------------------------------------------------------------
(***************************************************************************)
(* Operations, their domain and their permission.                          *)
(***************************************************************************)
TenantOps == {"import", "create", "update", "read"}
ControlOps == {"memberships", "directory"}

\* The service that owns an operation.
ServiceOf(op) == IF op = "import" THEN "import_service" ELSE "startups"

TenantAgents == {"MASTER_AGENT", "TENANT_ADMIN", "TENANT_AGENT"}

Granted(role) ==
    CASE role \in TenantAgents -> TenantOps \cup ControlOps
      [] role = "INVESTOR_USER" -> {"memberships"}
      [] OTHER -> ControlOps

(***************************************************************************)
(* What decide allows: a context of its own domain, membership of the      *)
(* claimed tenant -- `known` is false when the lookup failed -- and the    *)
(* permission.                                                             *)
(***************************************************************************)
Allowed(req) ==
    /\ req.op \in TenantOps => <<req.token.principal, req.token.tenant>> \in members
    /\ req.op \in Granted(req.token.role)

\* resolve: the one database of an ACTIVE tenant whose association has a secret.
Row(t) == IF registry[t] = <<>> THEN [state |-> "none"] ELSE registry[t][Len(registry[t])]

Resolution(t) ==
    CASE Row(t).state = "none" -> "not_found"
      [] Row(t).state \notin {"none", "ACTIVE"} -> "tenant_not_ready"
      [] OTHER -> IF DatabaseOf[Row(t).assoc] = NoDatabase THEN "tenant_unavailable" ELSE "bound"

-----------------------------------------------------------------------------
Idle == [pc |-> "idle", n |-> 0, req |-> [op |-> "none"]]

NoServer == [pc |-> "idle", call |-> [ticket |-> NoTicket], since |-> 0, rev |-> 0, db |-> NoDatabase]

NoTx == [rows |-> {}, lineage |-> {}]

EmptyDatabase == [rows |-> {}, lineage |-> {}, jobs |-> {}]

Init ==
    /\ registry = Registered
    /\ members = Enrolled
    /\ trail = {} /\ answers = {} /\ committed = {} /\ refused = {}
    /\ edge = [e \in Edges |-> Idle]
    /\ inbox = {} /\ replies = {}
    /\ srv = [s \in Servers |-> NoServer]
    /\ data = [d \in Databases |-> EmptyDatabase]
    /\ tx = [s \in Servers |-> NoTx]
    /\ locks = [d \in Databases |-> {}]
    /\ puts = 0 /\ internals = 0 /\ faults = 0

\* Something goes wrong that this step survives, or does not.
Fault == faults < MaxFaults /\ faults' = faults + 1

-----------------------------------------------------------------------------
(***************************************************************************)
(* The BFF.                                                                *)
(***************************************************************************)
Ticket(e) == <<e, edge[e].n>>

Goto(e, pc) == edge' = [edge EXCEPT ![e].pc = pc]

\* The client gets a canonical denial: which one is left out.
Deny(e) == Goto(e, "idle") /\ UNCHANGED answers

Serve(e, body) ==
    /\ Goto(e, "idle")
    /\ answers' = answers \cup {[ticket |-> Ticket(e), op |-> edge[e].req.op, arg |-> edge[e].req.arg, body |-> body]}

\* HttpAudit.emit: a row of its own for every submission; a failure is swallowed.
Emit(e, action, outcome) ==
    \/ /\ trail' = trail \cup {[ticket |-> Ticket(e), action |-> action, outcome |-> outcome]}
       /\ UNCHANGED faults
    \/ Fault /\ UNCHANGED trail

NoEmit == UNCHANGED <<trail, faults>>

Receive(e) ==
    /\ edge[e].pc = "idle" /\ edge[e].n < MaxRequests
    /\ \E req \in Menu[e] : edge' = [edge EXCEPT ![e] = [pc |-> "establish", n |-> edge[e].n + 1, req |-> req]]
    /\ UNCHANGED <<ctrl, trail, answers, inbox, replies, servers, puts, internals, faults>>

(***************************************************************************)
(* establish: the carrier never makes a context, it can only end one.      *)
(***************************************************************************)
Mismatch(req) ==
    \/ req.carriers = "conflicting"
    \/ req.carriers \in Tenants /\ req.token.tenant # NoTenant /\ req.carriers # req.token.tenant

Anomalous(req) == req.carriers \in Tenants /\ req.token.tenant = NoTenant

Establish(e) ==
    /\ edge[e].pc = "establish"
    /\ \/ /\ ~edge[e].req.signed
          /\ Deny(e) /\ NoEmit
       \/ /\ Fault /\ UNCHANGED trail   \* the authentication service does not answer
          /\ Deny(e)
       \/ /\ edge[e].req.signed /\ Mismatch(edge[e].req)
          /\ Emit(e, "CarrierMismatch", "denied")
          /\ Deny(e)
       \/ /\ edge[e].req.signed /\ ~Mismatch(edge[e].req)
          /\ IF Anomalous(edge[e].req) THEN Emit(e, "CarrierOnControlAnomaly", "anomaly") ELSE NoEmit
          /\ Goto(e, "authorize") /\ UNCHANGED answers
    /\ UNCHANGED <<ctrl, inbox, replies, servers, puts, internals>>

\* authorize: the decision is Access Control's, made on a membership read now.
Authorize(e) ==
    /\ edge[e].pc = "authorize"
    /\ \/ /\ Allowed(edge[e].req)
          /\ Goto(e, IF edge[e].req.op \in TenantOps THEN "route" ELSE "control")
          /\ NoEmit /\ UNCHANGED answers
       \/ /\ ~Allowed(edge[e].req)
          /\ Emit(e, "RouteDenied", "denied")
          /\ Deny(e)
       \/ /\ Fault                      \* Access Control or its lookup does not answer
          /\ trail' = trail \cup {[ticket |-> Ticket(e), action |-> "RouteDenied", outcome |-> "denied"]}
          /\ Deny(e)
    /\ UNCHANGED <<ctrl, inbox, replies, servers, puts, internals>>

\* A Control-resident read: memberships are audited, directories are not.
ControlRead(e) ==
    /\ edge[e].pc = "control"
    /\ \/ /\ IF edge[e].req.op = "memberships" THEN Emit(e, "memberships_read", "allowed") ELSE NoEmit
          /\ Serve(e, Nothing)
       \/ Fault /\ UNCHANGED trail /\ Deny(e)
    /\ UNCHANGED <<ctrl, inbox, replies, servers, puts, internals>>

Call(e) ==
    [ticket |-> Ticket(e), op |-> edge[e].req.op, tenant |-> edge[e].req.token.tenant,
     arg |-> edge[e].req.arg, actor |-> edge[e].req.token.principal]

\* routed, and the call of the owning service that follows it.
Route(e) ==
    /\ edge[e].pc = "route"
    /\ LET bound == Resolution(edge[e].req.token.tenant) IN
       \/ /\ bound = "bound"
          /\ inbox' = inbox \cup {Call(e)} /\ Goto(e, "wait") /\ UNCHANGED <<answers, faults>>
       \/ /\ bound # "bound"
          /\ Deny(e) /\ UNCHANGED <<inbox, faults>>
       \/ Fault /\ Deny(e) /\ UNCHANGED inbox
    /\ UNCHANGED <<ctrl, trail, replies, servers, puts, internals>>

\* The success classes: reads and updates of a startup, nothing else.
AuditedAs(op) == CASE op = "read" -> "startup_read" [] op = "update" -> "startup_update" [] OTHER -> "none"

\* The service answers in time: a denial is propagated, a success audited and composed.
TakeReply(e) ==
    /\ edge[e].pc = "wait"
    /\ \E r \in replies :
        /\ r.ticket = Ticket(e)
        /\ replies' = replies \ {r}
        /\ \/ ~r.ok /\ Deny(e) /\ NoEmit
           \/ /\ r.ok /\ Serve(e, r.body)
              /\ IF AuditedAs(edge[e].req.op) = "none" THEN NoEmit
                 ELSE Emit(e, AuditedAs(edge[e].req.op), "allowed")
    /\ UNCHANGED <<ctrl, inbox, servers, puts, internals>>

\* Five seconds have passed, or the answer is lost: the call itself goes on.
GiveUp(e) ==
    /\ edge[e].pc = "wait"
    /\ Fault
    /\ replies' = {r \in replies : r.ticket # Ticket(e)}
    /\ Deny(e)
    /\ UNCHANGED <<ctrl, trail, inbox, servers, puts, internals>>

-----------------------------------------------------------------------------
(***************************************************************************)
(* The control plane: both writes are upserts that read nothing.           *)
(***************************************************************************)
PutTenant(t) ==
    /\ puts < MaxPuts /\ puts' = puts + 1
    /\ \E d \in Puts[t] : registry' = [registry EXCEPT ![t] = Append(@, d)]
    /\ UNCHANGED <<members, edges, inbox, replies, servers, internals, faults>>

PutMembership ==
    /\ puts < MaxPuts /\ puts' = puts + 1
    /\ \E m \in Joiners \ members : members' = members \cup {m}
    /\ UNCHANGED <<registry, edges, inbox, replies, servers, internals, faults>>

-----------------------------------------------------------------------------
(***************************************************************************)
(* The tenant services.                                                    *)
(***************************************************************************)
After ==
    [findGrant |-> "find", writeGrant |-> "lock",
     createGrant |-> "create", updateGrant |-> "update", readbackGrant |-> "readback", readGrant |-> "read"]

Entry == [import |-> "findGrant", create |-> "createGrant", update |-> "updateGrant", read |-> "readGrant"]

ImportTx == {"existing", "holds", "copy", "append", "book"}

\* Mutant: the lock belongs to the session, and a pooled session outlives the call.
EndTxKeepLock(s) ==
    /\ tx' = [tx EXCEPT ![s] = NoTx]
    /\ locks' = IF srv[s].pc = "book" THEN [d \in Databases |-> locks[d] \ {s}] ELSE locks

\* The transaction ends, with it the advisory lock.
EndTx(s) ==
    /\ tx' = [tx EXCEPT ![s] = NoTx]
    /\ locks' = [d \in Databases |-> locks[d] \ {s}]

\* The call ends.  Its answer matters to an edge that still waits for it.
Respond(s, ok, body) ==
    LET ticket == srv[s].call.ticket IN
    /\ srv' = [srv EXCEPT ![s].pc = "idle"]
    /\ replies' = IF \E e \in Edges : edge[e].pc = "wait" /\ Ticket(e) = ticket
                  THEN replies \cup {[ticket |-> ticket, ok |-> ok, body |-> body]} ELSE replies

Answer(s, body) == Respond(s, TRUE, body)

Reject(s) == Respond(s, FALSE, Nothing)

Step(s, pc) == srv' = [srv EXCEPT ![s].pc = pc]

\* The rest of the world, for a step of a service.
Elsewhere == UNCHANGED <<ctrl, edges, puts, internals>>

(***************************************************************************)
(* A call is taken up.  An import of a tenant without a chain key and an   *)
(* update or read of another tenant's reference end before any grant.      *)
(***************************************************************************)
Admissible(call) ==
    CASE call.op = "import" -> call.tenant \in Keyed
      [] call.op \in {"update", "read"} -> call.arg.tenant = call.tenant
      [] OTHER -> TRUE

Accept(s) ==
    /\ srv[s].pc = "idle"
    /\ \E call \in inbox :
        /\ ServiceOf(call.op) = Serves[s]
        /\ inbox' = inbox \ {call}
        /\ srv' = [srv EXCEPT ![s] = [@ EXCEPT !.pc = IF Admissible(call) THEN Entry[call.op] ELSE "refuse",
                                               !.call = call, !.since = Len(registry[call.tenant])]]
    /\ UNCHANGED <<replies, data, tx, locks, committed, refused, faults>> /\ Elsewhere

Refuse(s) ==
    /\ srv[s].pc = "refuse"
    /\ Reject(s)
    /\ UNCHANGED <<inbox, data, tx, locks, committed, refused, faults>> /\ Elsewhere

\* Mutant: the provider keeps the grant it was given for a tenant.
GrantCached(s) ==
    LET t == srv[s].call.tenant IN
    /\ srv[s].pc \in DOMAIN After
    /\ IF Resolution(t) = "bound" \/ srv[s].db # NoDatabase
       THEN /\ srv' = [srv EXCEPT ![s].pc = After[srv[s].pc],
                                  ![s].rev = IF srv[s].db # NoDatabase THEN @ ELSE Len(registry[t]),
                                  ![s].db = IF srv[s].db # NoDatabase THEN @ ELSE DatabaseOf[Row(t).assoc]]
            /\ UNCHANGED replies
       ELSE Reject(s)
    /\ UNCHANGED <<inbox, data, tx, locks, committed, refused, faults>> /\ Elsewhere

\* grant_for: the router resolves now, and nothing keeps its answer.
Grant(s) ==
    LET t == srv[s].call.tenant IN
    /\ srv[s].pc \in DOMAIN After
    /\ IF Resolution(t) = "bound"
       THEN /\ srv' = [srv EXCEPT ![s].pc = After[srv[s].pc], ![s].rev = Len(registry[t]), ![s].db = DatabaseOf[Row(t).assoc]]
            /\ UNCHANGED replies
       ELSE Reject(s)
    /\ UNCHANGED <<inbox, data, tx, locks, committed, refused, faults>> /\ Elsewhere

-----------------------------------------------------------------------------
(***************************************************************************)
(* import_startup and PostgresImportStore.                                 *)
(***************************************************************************)
Db(s) == data[srv[s].db]
Arg(s) == srv[s].call.arg
Ref(s) == [tenant |-> srv[s].call.tenant, id |-> srv[s].call.ticket]

\* operation_key.
Key(s) == <<srv[s].call.tenant, Arg(s)>>

\* The lineage row a key leads to, where the key's job is on record.
Existing(s) == {row \in Db(s).lineage : row.event.key = Key(s) /\ Key(s) \in Db(s).jobs}

Imported(s, target, fresh) == [db |-> srv[s].db, target |-> target, fresh |-> fresh]

Find(s) ==
    /\ srv[s].pc = "find"
    /\ \/ Existing(s) = {} /\ Step(s, "directory") /\ UNCHANGED replies
       \/ \E row \in Existing(s) : Answer(s, Imported(s, row.event.target, FALSE))
    /\ UNCHANGED <<inbox, data, tx, locks, committed, refused, faults>> /\ Elsewhere

\* A directory that does not answer and one that has no such record look the same.
ReadDirectory(s) ==
    /\ srv[s].pc = "directory"
    /\ \/ Arg(s) \in Directory /\ Step(s, "writeGrant") /\ UNCHANGED replies
       \/ Arg(s) \notin Directory /\ Reject(s)
    /\ UNCHANGED <<inbox, data, tx, locks, committed, refused, faults>> /\ Elsewhere

\* Mutant: every statement is its own transaction, so the lock is gone with the next.
LockOnce(s) ==
    /\ srv[s].pc = "lock" /\ locks[srv[s].db] = {}
    /\ Step(s, "existing")
    /\ UNCHANGED <<inbox, replies, data, tx, locks, committed, refused, faults>> /\ Elsewhere

\* pg_advisory_xact_lock: waits for whoever holds it.
Lock(s) ==
    /\ srv[s].pc = "lock" /\ locks[srv[s].db] = {}
    /\ locks' = [locks EXCEPT ![srv[s].db] = {s}]
    /\ Step(s, "existing")
    /\ UNCHANGED <<inbox, replies, data, tx, committed, refused, faults>> /\ Elsewhere

\* Mutant: what another request completed meanwhile is called created.
RecheckAsCreated(s) ==
    /\ srv[s].pc = "existing"
    /\ \/ Existing(s) = {} /\ Step(s, "holds") /\ UNCHANGED <<replies, tx, locks>>
       \/ \E row \in Existing(s) : Answer(s, Imported(s, row.event.target, TRUE)) /\ EndTx(s)
    /\ UNCHANGED <<inbox, data, committed, refused, faults>> /\ Elsewhere

Recheck(s) ==
    /\ srv[s].pc = "existing"
    /\ \/ Existing(s) = {} /\ Step(s, "holds") /\ UNCHANGED <<replies, tx, locks>>
       \/ \E row \in Existing(s) : Answer(s, Imported(s, row.event.target, FALSE)) /\ EndTx(s)
    /\ UNCHANGED <<inbox, data, committed, refused, faults>> /\ Elsewhere

Holders(d, source) == {row \in data[d].rows : row.source = source /\ source # NoSource}

HoldsSource(s) ==
    /\ srv[s].pc = "holds"
    /\ \/ Holders(srv[s].db, Arg(s)) = {} /\ Step(s, "copy") /\ UNCHANGED <<replies, tx, locks>>
       \/ Holders(srv[s].db, Arg(s)) # {} /\ Reject(s) /\ EndTx(s)
    /\ UNCHANGED <<inbox, data, committed, refused, faults>> /\ Elsewhere

NewRow(s, source) == [id |-> srv[s].call.ticket, source |-> source, text |-> srv[s].call.ticket]

\* The rows other sessions have written in this database and not committed.
Pending(s) == UNION {tx[other].rows : other \in {o \in Servers \ {s} : srv[o].db = srv[s].db}}

\* A UNIQUE index on global_startup_id makes an INSERT wait for one that may commit.
MayInsert(s, source) == \A row \in Pending(s) : row.source = source => source = NoSource

\* The constraint refuses the write: the whole transaction is gone, the edge is told 500.
Violation(s, constraint, inTheWay) ==
    /\ refused' = refused \cup {[constraint |-> constraint, by |-> row.id] : row \in inTheWay}
    /\ Reject(s) /\ EndTx(s)

WriteCopy(s) ==
    /\ srv[s].pc = "copy" /\ MayInsert(s, Arg(s))
    /\ \/ /\ Holders(srv[s].db, Arg(s)) = {}
          /\ tx' = [tx EXCEPT ![s].rows = {NewRow(s, Arg(s))}]
          /\ Step(s, "append") /\ UNCHANGED <<replies, locks, refused>>
       \/ /\ Holders(srv[s].db, Arg(s)) # {}
          /\ Violation(s, "global_startup_id", Holders(srv[s].db, Arg(s)))
    /\ UNCHANGED <<inbox, data, committed, faults>> /\ Elsewhere

Event(s) == [key |-> Key(s), source |-> Arg(s), target |-> Ref(s), actor |-> srv[s].call.actor]

\* Reading the head and the INSERT behind it, under the lock that every append takes.
AppendLineage(s) ==
    /\ srv[s].pc = "append"
    /\ tx' = [tx EXCEPT ![s].lineage = {NextRow(ChainHead(Db(s).lineage), Event(s))}]
    /\ Step(s, "book")
    /\ UNCHANGED <<inbox, replies, data, locks, committed, refused, faults>> /\ Elsewhere

\* Mutant: copy and lineage are committed before the bookkeeping.
BookApart(s) ==
    /\ srv[s].pc = "book"
    /\ data' = [data EXCEPT ![srv[s].db] =
            [rows |-> @.rows \cup tx[s].rows, lineage |-> @.lineage \cup tx[s].lineage,
             jobs |-> IF tx[s].rows = {} THEN @.jobs \cup {Key(s)} ELSE @.jobs]]
    /\ IF tx[s].rows # {}
       THEN tx' = [tx EXCEPT ![s] = NoTx] /\ UNCHANGED <<srv, replies, locks, committed, faults>>
       ELSE /\ committed' = committed \cup {srv[s].call.ticket} /\ EndTx(s)
            /\ Answer(s, Imported(s, Ref(s), TRUE)) /\ UNCHANGED faults
    /\ UNCHANGED <<inbox, refused>> /\ Elsewhere

(***************************************************************************)
(* The bookkeeping rows and the commit.  A connection that breaks while    *)
(* the commit is under way fails a call whose writes are there.            *)
(***************************************************************************)
Book(s) ==
    /\ srv[s].pc = "book"
    /\ data' = [data EXCEPT ![srv[s].db] =
            [rows |-> @.rows \cup tx[s].rows, lineage |-> @.lineage \cup tx[s].lineage, jobs |-> @.jobs \cup {Key(s)}]]
    /\ committed' = committed \cup {srv[s].call.ticket} /\ EndTx(s)
    /\ \/ Answer(s, Imported(s, Ref(s), TRUE)) /\ UNCHANGED faults
       \/ Reject(s) /\ Fault
    /\ UNCHANGED <<inbox, refused>> /\ Elsewhere

-----------------------------------------------------------------------------
(***************************************************************************)
(* PostgresStartupRepository: each method is one transaction on one        *)
(* granted connection; an update reads its row back on a second one.       *)
(***************************************************************************)
Create(s) ==
    /\ srv[s].pc = "create" /\ MayInsert(s, Arg(s))
    /\ \/ /\ Holders(srv[s].db, Arg(s)) = {}
          /\ data' = [data EXCEPT ![srv[s].db].rows = @ \cup {NewRow(s, Arg(s))}]
          /\ committed' = committed \cup {srv[s].call.ticket}
          /\ \/ Answer(s, Ref(s)) /\ UNCHANGED faults
             \/ Reject(s) /\ Fault
          /\ UNCHANGED <<tx, locks, refused>>
       \/ /\ Holders(srv[s].db, Arg(s)) # {}
          /\ Violation(s, "create", Holders(srv[s].db, Arg(s)))
          /\ UNCHANGED <<data, committed, faults>>
    /\ UNCHANGED inbox /\ Elsewhere

Addressed(s) == {row \in Db(s).rows : row.id = Arg(s).id}

Update(s) ==
    /\ srv[s].pc = "update"
    /\ \/ /\ Addressed(s) # {}
          /\ data' = [data EXCEPT ![srv[s].db].rows =
                (@ \ Addressed(s)) \cup {[row EXCEPT !.text = srv[s].call.ticket] : row \in Addressed(s)}]
          /\ committed' = committed \cup {srv[s].call.ticket}
          /\ Step(s, "readbackGrant") /\ UNCHANGED replies
       \/ /\ Addressed(s) = {}
          /\ Reject(s) /\ UNCHANGED <<data, committed>>
    /\ UNCHANGED <<inbox, tx, locks, refused, faults>> /\ Elsewhere

\* read, and the read-back of an update.
Read(s) ==
    /\ srv[s].pc \in {"read", "readback"}
    /\ IF Addressed(s) = {} THEN Reject(s) ELSE Answer(s, Arg(s))
    /\ UNCHANGED <<inbox, data, tx, locks, committed, refused, faults>> /\ Elsewhere

-----------------------------------------------------------------------------
(***************************************************************************)
(* The router or the database does not answer: the call fails, with it its *)
(* open transaction.  Or the process dies, and nobody answers.             *)
(***************************************************************************)
Fail(s) ==
    /\ srv[s].pc \notin {"idle", "refuse"} /\ Fault
    /\ EndTx(s)
    /\ \/ Reject(s)
       \/ Step(s, "idle") /\ UNCHANGED replies
    /\ UNCHANGED <<inbox, data, committed, refused>> /\ Elsewhere

\* Another holder of a service credential creates a copy of a source by hand.
InternalCreate ==
    /\ internals < MaxInternal /\ internals' = internals + 1
    /\ \E copy \in Copies :
        inbox' = inbox \cup {[ticket |-> <<"internal", internals + 1>>, op |-> "create", tenant |-> copy[1],
                              arg |-> copy[2], actor |-> "internal"]}
    /\ UNCHANGED <<ctrl, edges, replies, servers, puts, faults>>

EdgeStep(e) ==
    \/ Establish(e) \/ Authorize(e) \/ ControlRead(e) \/ Route(e) \/ TakeReply(e) \/ GiveUp(e)

ServerStep(s) ==
    \/ Accept(s) \/ Refuse(s) \/ Grant(s)
    \/ Find(s) \/ ReadDirectory(s) \/ Lock(s) \/ Recheck(s) \/ HoldsSource(s)
    \/ WriteCopy(s) \/ AppendLineage(s) \/ Book(s)
    \/ Create(s) \/ Update(s) \/ Read(s)

Next ==
    \/ \E e \in Edges : Receive(e) \/ EdgeStep(e)
    \/ \E s \in Servers : ServerStep(s) \/ Fail(s)
    \/ \E t \in Tenants : PutTenant(t)
    \/ PutMembership
    \/ InternalCreate

\* Processes that live go on; nobody has to ask, to write, or to fail.
Fairness == \A s \in Servers : WF_vars(ServerStep(s))

Spec == Init /\ [][Next]_vars /\ Fairness

-----------------------------------------------------------------------------
(***************************************************************************)
(* An import is all there or not at all (import_service/store.py, "in one  *)
(* transaction"): in every tenant database the copies made from a global   *)
(* source, the lineage and the bookkeeping tell of the same imports, each  *)
(* once, and the lineage is one unbroken chain -- whatever dies, whoever   *)
(* competes.  Only a copy made by hand has no provenance.                  *)
(***************************************************************************)
ImportsAreWhole ==
    \A d \in Databases :
        LET lineage == data[d].lineage IN
        /\ Findings(lineage) = {}
        /\ {row.event.key : row \in lineage} = data[d].jobs
        /\ \A row, other \in lineage : row.event.key = other.event.key => row = other
        /\ \A row \in lineage :
            \E copy \in data[d].rows : copy.id = row.event.target.id /\ copy.source = row.event.source
        /\ \A copy \in data[d].rows :
            \/ copy.source = NoSource \/ copy.id[1] = "internal"
            \/ \E row \in lineage : row.event.target.id = copy.id

(***************************************************************************)
(* What a client is told has happened, and only once: two answers about    *)
(* one source in one database name one record, and at most one of them     *)
(* says created -- also when the calls raced, when a first answer was lost *)
(* and the client asked again, or when a late call overtook its retry.     *)
(* An update that is answered or audited as a success is committed.        *)
(***************************************************************************)
AnswersAreTrue ==
    /\ \A a \in answers :
        /\ a.op \in {"create", "update"} => a.ticket \in committed
        /\ a.op = "import" =>
            /\ \E row \in data[a.body.db].lineage : row.event.source = a.arg /\ row.event.target = a.body.target
            /\ a.body.fresh <=> a.body.target.id = a.ticket
    /\ \A a, b \in {c \in answers : c.op = "import"} :
        a.body.db = b.body.db /\ a.arg = b.arg /\ a # b =>
            a.body.target = b.body.target /\ ~(a.body.fresh /\ b.body.fresh)
    /\ \A row \in trail : row.action = "startup_update" => row.ticket \in committed

(***************************************************************************)
(* The lock is what lets concurrent imports succeed (store.py:88, "the     *)
(* liveness guarantee, not the correctness one"): under it a constraint    *)
(* stops an import only because of a copy that was made by hand.           *)
(***************************************************************************)
LockServes == \A r \in refused : r.constraint = "create" \/ r.by[1] = "internal"

(***************************************************************************)
(* A tenant database changes only under a grant that is younger than the   *)
(* call it serves, of a descriptor that was ACTIVE and named this          *)
(* database, for a member of that tenant (tenant_data.py:71, "a cached     *)
(* grant would outlive the resolution that justified it"): of a suspended  *)
(* tenant, what was granted before is all that can still write.            *)
(***************************************************************************)
Justified(s, d) ==
    LET call == srv[s].call IN
    /\ srv[s].db = d /\ srv[s].rev >= srv[s].since
    /\ registry[call.tenant][srv[s].rev].state = "ACTIVE"
    /\ DatabaseOf[registry[call.tenant][srv[s].rev].assoc] = d
    /\ call.actor = "internal" \/ <<call.actor, call.tenant>> \in members

WritesAreGranted ==
    [][\A d \in Databases : data'[d] # data[d] => \E s \in Servers : srv'[s] # srv[s] /\ Justified(s, d)]_vars

(***************************************************************************)
(* When no more requests come, every call that was sent is taken up and    *)
(* ends: no import waits for ever for the lock, whoever died holding it    *)
(* (store.py:87, "releases at transaction end -- so a crashed import       *)
(* cannot leave the chain locked").                                        *)
(***************************************************************************)
CallsEnd == <>[](inbox = {} /\ \A s \in Servers : srv[s].pc = "idle")
=============================================================================
