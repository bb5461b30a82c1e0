# SnackPortal2 in TLA+

SnackPortal2 is a multi-tenant portal with one PostgreSQL database per tenant.
Its promise is isolation: a request, a connection, an import or a recovery
never touches another tenant's data, and a tenant serves requests only after
its own database has been verified. This directory holds TLA+ models of the
parts of `backend/` that keep this promise, TLC configurations that check them
on small instances, and TLAPS proofs of the central invariants.

## The system

| Part | State | Operations | Talks to |
|---|---|---|---|
| Tenant registry (`control_plane/registry.py`, `postgres_store.py`) | `control_tenants` rows with a version, `control_audit` | register, mark provisioning, suspend, quarantine, decommission: read, check, compare-and-swap with the audit record in one transaction | Control DB |
| Readiness gate (`control_plane/provisioning.py`) | none of its own | verify, reassociate, disable_routing | registry, prober, distinctness verifier and ledger; an invalidation port that no composition wires |
| Physical distinctness (`control_plane/distinctness.py`, ledger adapter) | `control_distinctness_ledger` | gather evidence, decide, record (unique), remove | tenant databases, Control DB |
| Onboarding and recovery (`control_plane/onboarding.py`) | none | onboard, recover, reassociate | registry, gate, provisioner, schema applicator, audit trail |
| Compensation (`control_plane/recovery.py`) | none | prove ownership, inspect, prove again, drop a database; scan for orphans | all of the above |
| Durable audit stores (`control_plane/*_audit.py`, `postgres_store.py`) | three append-only tables, one cached connection per ingest edge | append once per event_id | router, gateway, import service |
| Database router (`database_router/`) | cache of routing views, two pool managers | route, release, invalidate | control plane (views, audit), tenant databases |
| Tenant sessions (`session_provider.py`, `tenant_startup_ops.py`) | one connection | begin, commit, rollback, upsert, append | router |
| Import service (`import_service/service.py`) | job, checkpoint, idempotency rows in the tenant database | start or resume an import, status | sessions, lineage, audit |
| Lineage service (`lineage_service/`) | hash-chained rows in the tenant database | emit, verify, query, walk | sessions |
| Auth router (`auth_router/`) | TTL caches | authenticate, resolve the tenant context | identity provider, control plane |
| API gateway (`api_gateway/`) | none | admit, authenticate, dispatch, audit | auth router, startup and import edges, control plane (memberships), audit ingest |
| Composition (`main.py` of each service, `deployment/`) | the environment of a process | choose each part, or refuse to start | everything |
| Second stack (`snackportal2/`) | registry, memberships, audit trail; startups, jobs, lineage of each tenant database | import, create, update, read startups; memberships, directory; grants | a backend-for-frontend, the services behind it, PostgreSQL |

What is hard about it: several operators and processes work on one Control DB
with no lock above a row's version, so every call acts on a record it read some
steps ago; a call may die or lose its store between two of its commits; the
router caches what the registry has since changed, and threads share its pools;
an audit write may be stored although its answer is lost; a request passes four
processes that each give up on their own clock while the next one goes on; and
what a process keeps in memory, or in a database, was decided by environment
variables. The hazards of `PROJECT.json` are these, at the line where each one
bites.

What makes each part correct: the registry follows its contract's transition
table and agrees with its audit trail; Ready means verified, about the database
the tenant has now, and no two tenants are Ready on one database; an isolation
anomaly is final; a pool never exceeds its bound, never shares a connection,
never revives a drained one; a connection is audited before it is used and is
of the caller's tenant, and of the version its view names; a tenant's lineage is one
hash chain that agrees with the rows it accounts for, and an import is called
applied only when all of it is there; a database is dropped only with proof that
it is the tenant's and holds nothing but what the platform wrote; an audit row
tells the truth and a success has its row; data follows the signed claim; no
mixture of durable and in-memory parts leaves a database nobody knows.

## Modules

| Module | Models |
|---|---|
| `LifecycleContract` | The abstract specification: a tenant's state moves along the allowed edges, one at a time, with its audit record. |
| `Distinctness` | `PhysicalDistinctnessVerifier.verify` and the ledger's uniqueness guard, as operators over evidence. |
| `TenantLifecycle` | Registry, gate, onboarding and recovery, run by several workers. Extends `Distinctness`, refines `LifecycleContract`. |
| `Deprovisioning` | The compensation of a failed onboarding and the orphan report, over everything in `TenantLifecycle`, which it extends. |
| `DatabaseRouter` | `route`, `release`, the resolver with its cache, both pool managers, the bounded audit policy. |
| `LineageChain` | The rows of the lineage table: what `LineageEmit` appends, what `LineageVerifier` reports. |
| `ImportContract` | The abstract specification of an import: a job applies its batches in order, each in one step over rows and provenance. |
| `ImportRun` | `ImportService.start_import` and its session, run by several import processes on one tenant database. Extends `LineageChain`, refines `ImportContract`. |
| `AuditContract` | The abstract specification of a durable audit sink: one event per key, never changed, confirmed only when recorded. |
| `AuditIngest` | The three sinks with their ingest edges and clients, over an unreliable network. Refines `AuditContract`. |
| `Gateway` | A request's whole path: gateway, auth router, startup, import and dispatch edges, and the evidence each writes. Extends `AuditIngest`. |
| `Composition` | What each process is composed of, as operators of its environment. |
| `Deployment` | Processes of any composition on one Control DB and cluster, started and stopped. Extends `Composition`. |
| `Portal` | The second stack: the backend-for-frontend, router, services, and the transactions of an import. Extends `LineageChain`. |
| `TenantLifecycleProofs`, `DeprovisioningProofs`, `DatabaseRouterProofs`, `LineageChainProofs`, `ImportRunProofs`, `GatewayProofs`, `DeploymentProofs`, `PortalProofs` | The theorems. |
| `MCTenantLifecycle`, `MCDeprovisioning`, `MCDatabaseRouter`, `MCImportRun`, `MCGateway`, `MCDeployment`, `MCPortal` | Values for TLC. |

A definition that begins with a comment "Mutant:" is a faulty variant of the one
after it; nothing uses it. `PROJECT.json` names the property each one breaks.

### TenantLifecycle

One step is one committed transaction or one call to the outside. `tenants` is
the table `control_tenants` (state, version, association), `ledger` the
distinctness ledger, `trail` the last state change in `control_audit`,
`anomalies` the tenants with an IsolationAnomaly record, `dbs` the databases the
provisioner has created. `job[w]` is the call worker `w` is in: its program
counter and the local variables of the Python frame, above all the `TenantRecord`
it read. `verified` and `unpaired` are history variables: the evidence on which
a tenant became Ready, and recovery attempts that raised without a terminal
record.

The PostgreSQL store commits `compare_and_swap_tenant` together with the
`append_audit` that follows, so `Commit` writes both and a lost race or a raising
store writes neither. `register_tenant` is different: audit record and row are
two transactions, `RegisterAudit` and `RegisterPut`, and the row is an upsert.
`Raise` lets the store fail at any step, `Crash` ends a worker between two steps.

Evidence is what the verifier compares: which database answered, which key was
used, whether its system identifiers and the sentinel could be read. The
comparison of sentinel tokens is left out because the token is fresh on every
run and matches nothing earlier. Names, DSNs and identifiers are model values.

What a reader of the code should know, and no run asserts:

- Two registrations of one tenant race, because `register_tenant` upserts: the
  later one replaces even a Quarantined row. The properties are about
  deployments where one worker registers a tenant (`SingleRegistrar` in the
  proofs; `AnomalyHolds` needs it).
- `_fail` removes the ledger evidence before its compare-and-swap tells it that
  it lost; with two gates of one tenant the winner is Ready without evidence in
  the ledger, and `disable_routing` drops it under a tenant that stays Ready.
  Nothing is therefore claimed of the ledger's rows of Ready tenants, and no
  property rests on them: `verified` keeps what a tenant became Ready on.
- An operator's `verify` or `reassociate` brings a Failed tenant back whatever its
  history; only `recover` looks at it. `HistoryNeverResumes` is claimed where
  recovery is what is called for such a tenant (`RecoverOnly`).
- `recover` quarantines outside its `try`: if the store raises there, its started
  record has no terminal record (`unpaired`).
- A worker that dies inside the gate leaves the tenant Verifying. Neither
  `onboard` nor `recover` takes it from there; an operator's `verify` does.

### Deprovisioning

`drop[o]` is the frame of `deprovision_tenant_database` for operator `o`: pass 1
is the first proof, pass 2 the re-validation, one step per port call. `content`
is what the tenant's target database holds, relation by relation in five classes
of row contents, and `InspectDatabase` and `ClassifyContent` are the census and
its verdict over them. A database that was dropped and created again is another
one: `Homes[t]` are the physical databases the target name may stand for, `inc[t]`
the present one. Onboarding applies the schema; the verifier writes its sentinel
when it gathers, before it decides anything, into whichever database the
reference led to. A tenant's services write while it is Ready and after that as
long as a router has its view (`routed`): a router reads the registry again only
when the view's TTL has passed (`ViewExpires`). `filed` keeps how each ended call
left the audit trail.

The de-provision emits one terminal record through a latch. If a port raises,
the handler outside emits it; if the sink itself raised, there may be none
(`OneTerminal` says exactly that). `ReportAgrees` compares the classification of
`ScanForOrphans` with the operation. A relation with the sentinel's name is
exempt from the census whatever it holds, also a materialized view that cannot
be counted; `HoldsData` therefore does not speak of it. That the database may
become Ready after the re-validation is a window the code documents; that it may
become Ready *and fall back* before the re-validation is not, and is the finding
`redriven`. What a service writes by a cached view after the census is lost with
the database: the code looks at no cache, so `DataOutlivesCalls` is about calls
that found no view out when they first read the registry. With two operators, a
DROP by name may meet a re-creation nobody inspected; the run has one.

### DatabaseRouter

A pool operation runs under the pool's lock and is one step. Resolving, reading
a view, caching it, acquiring, binding and each attempt of the audit transport
are steps of their own, with other clients and the control plane in between.
`registry` is the control plane's view of each tenant as the router may read it;
`Reassociate` and `Regate` are the control plane's writers. `conns` gives each
connection its binding and, in `ref`, the association that opened it, which the
code does not keep: it is how `RightDatabase` can ask where a connection leads.
`drained` and `logged` are history variables. Time is abstracted: expiry,
overdue idleness and breakage may happen at any moment. `Misread` are the
tenants an answer about a tenant may really be about, so that a view, a pool key
and a connection of another tenant can reach the comparison with the active one
(`Bind`), whose failure is the IsolationAnomaly. Nothing makes a re-association
bring a new version -- neither `reassociate` nor the store compares it, only the
dormant `lifecycle.py` does -- and the pool's key is the version, so one that
keeps it is served from the old pool. The model has that, and `RightDatabase`
says what remains true: the tenant is the caller's, the version the one the view
names, the reference one that the tenant has or had. The pool's lock is held
while a connection is opened; that is a matter of time bounds, which this module
does not have.

### LineageChain and ImportRun

A runner is an import process; its HTTP edge serves one call at a time, so a
runner is in at most one call and `pc[r]` and `call[r]` are the frame of
`start_import`. One step is one SQL statement, or the transaction that touches
one contended row and commits (`BeginPut`, `MarkFailed`, `Finalize`). `table`,
`lineage`, `idem`, `jobs` and `ckpt` are the committed tables of the tenant
database; `tally` holds the counts of the idempotency row. A batch is one long
transaction: `written[r]` and `emitted[r]` are what it has written and not
committed, and `RowSeen` and `LineageSeen` are what a statement at READ
COMMITTED then reads. `upsert` is two steps, the read that decides `changed` and
the INSERT ... ON CONFLICT that waits for another transaction's row; an append
is two as well, the head under the chain lock and the INSERT that UNIQUE(seq)
may refuse. `locking`, chosen at the start, says whether the sessions have
`lock_chain` at all: `LineageEmit` uses it only if they do, so every property is
checked both ways.

External, modelled from what the code relies on: the row locks, the advisory
lock and the deadlock detection of PostgreSQL (`RowHolders`, `WaitsFor`,
`DeadlockVictim`).

`ImportContract` is what a caller may rely on, without transactions, locks and
resumption points. Its `table` is the target table and its `done` the checkpoints;
`log` is the events of the lineage rows in the order of `seq` (`LineageLog`), `owner`
the operation of each job (`Owners`), and `told` what `get_status` says of an
operation (`Told`). Everything inside a call that is not one of its four actions --
`BeginPut`, a batch's commit, `Finalize`, `MarkFailed` -- is a stutter. `Apply` leaves
open which records of a batch are "noop", since that depends on what another import
has committed by the time each was looked at; it does not leave open that a row
ends as the last record for its key says whenever the batch has changed it at
all, and that each record has its entry, in order. `Withdraw` is there because
the code has it: a runner that fails marks an operation failed that another one
has called applied meanwhile (the upsert at service.py:185 has no guard).

`Unsupported` are the calls whose source kind has no adapter: `_collect` answers
failed and leaves the job in progress, not failed (`NoAdapter`).

Abstracted: `upsert` compares and, on conflict, sets only the columns that the
record supplies. Here all records copied into one table supply the same columns, as
the composed import does (the startup directory) and a CSV file does by its header;
then what it compares and sets is the whole content. Two JSON uploads whose objects
leave out different columns would end in a row that mixes both, and are not
modelled. The marker is a constant operator of place, content and prior
marker; the model's markers are injective in what the properties tell apart. The
records read from a source are the same at every read, as an upload's payload
is. The audit policy's bounded retry is one step that records or raises, and an
exception that leaves `start_import` and a process that dies are both `Abandon`:
either way the open transaction is gone and the caller got no status. `FreshJobs`
picks one unused id, since a uuid4 tells apart and means nothing else. PII
classification is left out.

### AuditIngest

A client's emission is `em[s]`: the event, the attempt it is at, and how the last
attempt failed. `wire` holds what has been sent and not taken up, so a post may be
late, lost, or answered after its sender gave up; `rows` are the three tables;
`conn` is the edge's connection, which it caches for the life of its process and
which may break before or after a commit. An edge validates the wire form
(`WireKeys` and the marked, overlong, blank and missing references), converts the
time it carries to the instant it stores, and appends: an equal event under the
same key is a replay, another one a conflict. The three sinks differ in their
keys, their retries and in who raises when the attempts are used up, and the
model keeps these differences.

### Gateway

A slot is a request and everything done for it: `req`, `resp`, `au` (the auth
router's work), `dp` (the data-plane edge's work) and its three emissions. The
edges' handlers are `async` functions that block, so each process has one
request inside it at a time, and those its caller has given up on are still
served. `cp` is the control plane as the others read it (readiness and
membership), `cache` the auth router's with its TTL over the clock `now`, and `did`
what data operations have committed, the history the properties compare with
audit rows and answers. `Configs` are the compositions: with and without a
durable audit, startup and import edge.

Abstracted: a control-plane read is one atomic call; the router behind the
startup edge is its readiness check, its detail being `DatabaseRouter`'s; an
import is its validation and its result, its detail being `ImportRun`'s, and only
its last event is modelled; both router denials are the 503 the edge makes of
them. Signatures are valid or not. Two classes of event stay in memory whatever
the composition and have no effect here (IsolationAnomaly,
CarrierOnControlAnomaly). `/directory` is not served by the edge.

### Composition and Deployment

`Composition` gives each environment variable the values its reader tells apart
(unset, blank, a recognized token, another one, malformed) and each builder as an
operator that yields the parts of a process, `Inactive`, or `Refused`. `Launches`
in `Deployment` is everything some environment composes, and a process slot may
start as any of it. `rows`, `evidence` and `physical` are in the Control DB and the
cluster; `memory` and `held` end with the process.

Operations have only the steps that reach different parts, since the question is
whether the parts belong together; the steps inside are those of
`TenantLifecycle` and `Deprovisioning`. The gate is reached in two ways (`via`):
through the orchestrator, which `_guarded_onboarding` wraps, and by itself
(`GateVerify`, `GateReassociate`), since `plane.provisioning` (main.py:397) is a
member of the plane that nothing wraps. On a durable store beside an in-memory
live side, which RULE 2 allows, the second way writes a durable Ready out of a
simulated probe: the finding `simulated_ready`. `RegistryMatchesCluster` says
that it is the only way (`MixedGateConcludes`). The other two members of the
plane that touch the cluster, the operator and the applicator, are ports:
calling them directly is what a test does and no operation of the system.
`_control_store_secret_binding` does not reject a blank reference, unlike its
neighbours; the connect then fails. The guard of a mixed plane denies
onboarding, recovery and compensation, and delegates `disable_routing`
(main.py:301): live parts beside an explicit in-memory store then remove durable
evidence while the RoutingDisabled event stays in memory. That loses evidence,
which is safe, and no property says more.

### Portal

`edge[e]` is the request a BFF process is serving, `srv[s]` the call a service
process is in, `inbox` what was sent and not taken up, `replies` what comes back
to a caller that may have given up (its timeout is five seconds; the call goes
on). `data[d]` are the tables of a tenant database, `tx` and `lock` the open
transactions and the advisory lock. One step is a call to another process or a
statement. An operator may suspend, re-associate or enrol (`Put`, `Join`); an
internal caller may make a copy by hand.

What the model assumes or simplifies: answers are "ok" or "denied" where a
property needs no more. A failed read of the directory is answered like an absent
record, an unreachable registry like an absent tenant. The role is the token's,
the membership the store's. Two references may lead to one variable of the
secret store, because names fold case and punctuation; the model lets one
tenant's associations lead to different databases and no two tenants' to one.
`expires_at` of a grant is never looked at, so what was granted before a
suspension may still write; `WritesAreGranted` says this much and no more. A
completed import has no audit event of its own. An update may be committed and
answered as failed, since the record is read back on a second grant;
`AnswersAreTrue` is about the successes. UNIQUE(seq) and the key of the
operation are backstops that the lock keeps from firing (`LockServes` is about
the constraint that can still fire, UNIQUE on the source of a copy).

## Runs

Passing:

- `races`: one tenant, three workers (onboard and recover; verify, reassociate
  and quarantine; suspend, decommission and disable), crashes and a raising
  store, four calls (1,698,000 states). The registry implements the contract,
  agrees with its audit trail, Ready rests on evidence about the present
  association, and a recorded anomaly is final.
- `settles`: two workers onboard, verify, recover, reassociate and suspend one
  tenant; beside them a second tenant, whose secret may lead to the first one's
  database and the other way round, is onboarded, and a third, with an anomaly on
  record before the history begins, is recovered; nobody dies (478,000 states).
  The two are never both Ready on one database, snapshots stay coherent with the
  row, a tenant leaves Verifying, the anomaly's tenant is never brought back.
- `deprovision`: one tenant whose database may be created twice; an operator
  de-provisions it while a worker onboards, verifies, recovers and re-associates
  it and its services write, by views that outlive Ready too; ports raise, callers
  die (1,686,000 states). Every call leaves one terminal record, the census is
  sound, data from before a call survives it, the report and the operation agree,
  and the lifecycle still implements its contract.
- `routes`: two tenants, of which one has three associations, two of them with one
  version, and may be answered about as the other; two clients, a pool of one with
  two connections, audit attempts that are lost, refused and retried (1,330,000
  states). No leak, no unaudited hand-over, no connection in two hands, none
  revived after a drain, every one of the caller's tenant and of the version its
  view names.
- `imports`: two runners, two uploads that copy the same natural keys in
  opposite order, one of them called by both runners, and a call whose source no
  adapter reads; a rejected record, a second and short batch; failing
  statements, dying calls, deadlocks, resumptions and replays, with and without
  the chain lock (482,000 states). The lineage is one chain that agrees with the
  rows, the whole implements `ImportContract` (a batch of a job is applied in
  one step, in its turn, once or not at all), nothing incomplete is called
  applied, and every call returns.
- `requests`: a request of sixteen kinds (reads, updates, imports, memberships;
  tokens that are invalid, undecodable or claim another tenant; carriers,
  references and correlation ids that are refused) and a read after or beside it;
  one fault anywhere on the network, in a store or at an edge, one change in the
  control plane, with and without the optional parts. A success has its row, a
  row tells the truth and no repeat raises an alarm, data follows the claim, a
  revocation bites within the TTL, the sinks keep `AuditContract`, every request
  is answered.
- `compositions`: two processes, each of anything some environment composes,
  that start, work, also at the gate itself, crash and start as something else
  (225,000 states). No database without a durable row, no durable Ready without
  a database and its schema but by the unguarded gate, no drop by what only
  memory knows, no evidence in the ledger that was not gathered, nothing lost
  that somebody gave a durable home.
- `portal`: two BFF processes, two of the import service and one of startups. The
  same record imported by two requests, another one, an update, a read, a
  stranger, a foreign tenant, a forged token; one lost answer, failing statement
  or dying process, one suspension or re-association, one copy made by hand.
  Imports are whole and unique, answers are true, the lock serves its purpose,
  nothing is written without a grant, every call ends.

Runs that show where the code and its documents part:

- `import_once`: two starts of one operation key read before either has written.
  The later upsert replaces the earlier job, and both jobs apply every batch; the
  schema says "exactly-once under concurrency" of that key.
- `redriven`: while the census of an empty database is under way, the tenant is
  driven to Ready, used, and falls back to Failed. The re-validation compares its
  state with the eligible set and not with the record the first proof read, and
  its data is about to be dropped; the code says that a concurrent state change
  refuses.
- `simulated_ready`: a durable store beside an in-memory live side; a tenant is
  registered and verified at the gate itself, whose simulated probe finds every
  target in order, and the Control DB calls a tenant Ready that has no database.
  The guard's test says that this residual is closed and the code that the posture
  is audit- and registry-only; its guards have the orchestrator and the recovery
  services, not the gate.
- `partial_update`: the update of a startup whose name is blank is committed, then
  composing the record raises and the edge answers that it failed; the code says
  that no partial write survives.

## Bounds

The races of interest in the lifecycle are between two calls and one writer that
overtakes them: two or three workers and three or four calls (`MaxOps`) reach
every pair of operations and one interloper. Two tenants with gates, three databases
(one the Control DB) and a reference for each cover own, foreign and control target.
De-provisioning needs one tenant, since proof and drop are by the tenant's own
name; two incarnations and one call with three calls of a worker around it reach
every window of that call.

In the router two clients and two connections for a pool bound of one make
waiting, reuse, breakage and overflow happen; two versions of one tenant make a
drained pool and its successor coexist, a third reference keeps the version of
the first, and a second tenant is who an answer may be about. The managers of
the two lanes share nothing, and the theorems hold for any set of tenants and
managers.

In the import two runners, three calls (`MaxStarts`) and one fault (`MaxFaults`)
give a failed or abandoned call, its resumption and a competitor; a batch size
of two with three accepted records gives a full and a short batch, so that a
resumption has something to skip, and two keys in opposite order give a deadlock
over rows and over the chain lock.

A request's faults do not compound, since each client has at most one retry: one
fault reaches every outcome of every client, and one change in the control plane
(`MaxChanges`) reaches every reading that is stale. A TTL of 0 and a clock that
ticks once tell an entry that is fresh from one that has expired.

Two process slots suffice for compositions: what two processes share is the
Control DB and the cluster, and a third one could only repeat what one of the two
did before it was restarted as something else; one tenant, since tenants meet only
within a process's memory and in the gate.

In the portal each edge serves one request, which with a timeout gives two calls
about one record in two import processes; one fault, one write of an operator and
one copy by hand each meet every step of these.

`CHECK_DEADLOCK FALSE` appears where a behaviour ends when its bounds are used up:
in the lifecycle, the requests and the portal.

## Fairness

`settles` and `imports` assume weak fairness of each worker's or runner's steps: a
call that has begun keeps running, which holds of a process that does not die.
`settles` has no crashes; in `imports` a call that dies is an `Abandon`, after
which it owes nothing. A deadlock victim is one of these steps because PostgreSQL
looks for deadlocks by itself. `requests` assumes that
while the gateway, the auth router, a data-plane edge or a client can go on, one
of them does: event loops that run, with calls that all have timeouts. It needs
no more, since a retry is bounded. `portal` assumes weak fairness of each service
process. Starting a call, asking, writing, failing and dying are never assumed.

## Proofs

`TenantLifecycleProofs` proves, for any sets of tenants, workers, databases and
references and any number of calls, under the assumption `SingleRegistrar` (no
two workers may onboard the same tenant): type correctness, `SnapshotsCoherent`,
`TrailMatchesState`, `ReadyIsVerified`, `NoSharedDatabase`, `AnomalyHolds`, and
`ImplementsContract`. None is inductive alone. The argument is that a record read
by a call is the row itself as long as the version has not moved, so a swap that
succeeds overwrites nothing unseen (`SnapshotsCoherent`); what a gate has in hand
between two of its steps is complete evidence about the association in that
record (`Proven`); hence what it commits as Ready is evidence about the row's
association. Two Ready tenants cannot share a database because evidence that
passed the verifier comes from the database that carries the tenant's own name:
isolation does not rest on the ledger, which a sibling gate may have emptied.

One more is about a particular deployment: `HistoryNeverResumes`, under
`RecoverOnly`. A call about a tenant whose anomaly is on record is at one of the
steps that move it only towards quarantine or decommissioning (`HistoryJob`),
because `recover` reads the history before it resumes anything, and no step of
another tenant's call reaches the row.

`DeprovisioningProofs` extends them to the operators, for any operators, any
number of databases under a target's name and every content a database may have:
`OneTerminal`, `CensusIsSound`, `ReportAgrees`, `DataOutlivesCalls`, and again
`ImplementsContract`, now with operators beside the workers, under the same
assumption. It adds to the lifecycle's invariant: what onboarding, the verifier
and the services leave in a database (`ContentInv`), which the census accepts
without data and refuses with it; a ledger row that has evidence has a database
(`LedgerInv`), on which the report and the operation must agree; the terminal
record's latch (`TerminalInv`); and of each call under way (`DropCoherent`) that
as long as nobody made its tenant Ready, the tenant is not Ready, nobody is
routed to it and its database holds no more than the census counted, and that a
call past its census counted nothing. The last is why `DataOutlivesCalls` is
what holds: a tenant that became Ready since is exactly what the call cannot
see, and what the run `redriven` shows.

`DatabaseRouterProofs` proves, for any tenants, clients, connections and bound:
type correctness, `Exclusive`, `NoLeak`, `PoolBound` (borrowed and idle
connections never exceed the bound; no run repeats it), `DrainedStaysOut`,
`AuditedBeforeUse`, and `RightDatabase`, whatever versions the references have
and whichever tenant an answer is about. The invariant says of each connection
which pool it belongs to by its binding, that a client in a late step holds an
open one of the tenant it routes, and that idle and borrowed sets are disjoint,
bound to their key and no larger than the bound.

`ImportRunProofs` proves, for any runners, operations, sources, natural keys,
batch size and bounds, and whether or not there is a chain lock: `ChainIntact`,
`AppendsBehind`, `AppliedIsComplete`, `Provenance`, `BatchOnce` (which the contract
contains, so that no run repeats it) and `ImplementsImportContract`. The invariant
has six parts. Types.
Jobs: a status row names a job of its own operation, and a call past
`_begin_job` works for one; a job about to be put is nobody else's. Checkpoints:
those of a job are its first batches, a runner works behind the ones it has
seen, and what is complete stays so; the key of `import_checkpoint` makes the
later of two runners on one batch fail. Chain: what each transaction sees is one
chain (numbered 1 to n, each row sealed over the marker of the one before it),
its uncommitted rows lie behind all committed ones, and **at most one runner has
any**: an append behind a head needs the next place, and if somebody else has
uncommitted rows that place is among them, so the INSERT waits. The chain lock
is therefore not needed for soundness, only to wait early instead of failing
late. That one chain has no findings is `ChainHasNoFindings`, about
`LineageVerifier`'s own comparison; it and the other lemmas about chains are in
`LineageChainProofs`, where both imports take them from. Provenance
(`ProvenanceInv`): a row of the target table, and a row an open transaction has
written, is the copy its newest created lineage row tells of, except the row that
is written and not yet emitted; nobody else writes that row meanwhile, because its
lock is held to the end of the transaction, and nobody's lineage comes between,
because only one runner has rows. Once (`OnceInv`): a record of a batch has one
lineage row of its job when the batch has its checkpoint, none when it has not,
and in an open transaction one up to the runner's place in the batch; that two
batches share no record is arithmetic about `Batch`.

The refinement needs more, because a commit must be *exactly* one `Apply`, and
what a batch has done so far says neither in which order its lineage rows stand
nor which of two records for one key wrote last. `OrderInv` adds both: the n-th
record's row has the n-th place behind the committed lineage (`PlacedInv`; it
stays true while others run because nobody can commit lineage while this
transaction has some), and a row the batch has written holds what the last
record for it says, among the records compared so far (`LastWriteInv`; a "noop"
counts, since it found that content). `CommitAppendsLog` and `CommitOverwrites`
conclude that a commit appends the batch's entries to the log and overwrites the
rows as `Apply` does, `CommitIsNext` that it is the turn of this batch -- the
checkpoints are 1 to b-1, and the key of `import_checkpoint` has refused it
otherwise -- and `StepRefines` goes through the remaining steps.

That `_collect` returns every record the ingress floor accepts, no other, and each
once is `CollectionIsExact`, about the loop itself (`Collected`, a recursive
function). The library's induction theorems are out of the prover's reach, but its
least-element theorem is not: `SetInduction` is induction for a set of naturals,
and with it `CollectLoop` shows that a function with the loop's equations exists,
so that the definition is one. Besides the assumptions on the constants the proofs
use `SourceAssumption`: a reference names one record of its source, with that
record's content.

`GatewayProofs` proves, for any slots, requests, tenants, records, composition,
rows of strangers and faults, that the sinks of `AuditIngest` implement
`AuditContract` under the whole request path. The argument: each of a slot's three
emitters stands at a place of the pipeline that is passed once (`EmitsOnce`), so
an emission in progress is never begun again under the same key; every step
touches the sinks in one of three ways (an emission begins, one goes on, rows are
added under free keys); and a client is told of a recording only by an edge that
found or put a row with its key and its contents (`AckedIsRecorded`).

The second half of the module is about the request path: `AnsweredWithEvidence`,
`DataFollowsTheClaim` and `RevocationBites`. Its invariant says of each slot that
the auth router's conclusion agrees with the token, that an edge works only where
token and carriers agree, that the events in hand tell of the request and of the
answer about to be given, and that what was done for the slot was done for its
claim over a route on record. A slot that a step leaves alone keeps its parts
(`UntouchedKeeps`), because a request does not change once it arrived and tables
only grow; so one lemma per handler is about its own slot. For revocations the
invariant follows a reading: a cache entry or a decision made at a time held then,
or the membership ended no earlier; an entry is used for TTL at most, and an
answer from it is therefore at most TTL late. All of this rests on `GatewayAssumption`
and `SinkAssumption` only: an emission per slot and kind, the flaws a token may
have, `MaxEntries` positive, and initial memberships of known tenants.

The last part of the module proves `RowsAreTrue`. Its invariant, `TruthInv`,
follows an event from the step that sends it: a startup event is begun only from a
record the edge answered, and a record is answered only of what was committed in
the same step (`WorkTrue`); an import's last event is begun in the step that
committed its rows; what was done stays done and a request does not change, so a
true event stays true while it is posted, retried and delivered late (`EventStays`).
A row under an emitter's key is that emitter's event, stored (`RowOwned`), hence as
true as the event; and because the timestamp is compared as an instant, the repeat
of an event after a lost answer always matches it (`RepeatMatches`): no emitter
raises a conflict. An event is refused only for a reference that somebody gave: one
lemma per event the code makes (`DenialParses` to `ImportParses`) shows that the
rest of it parses at the edge of its kind, which needs that the gateway mints a
correlation id for a missing or blank one, that blank references do not pass the
edge, and that the codes of a denied route are public ones. This part also assumes
`NamesAssumption`: keys, ids, clock values and the version that the code makes
itself look like no secret and are not blank, tenants and subjects have names, and
nobody else posts under an emitter's fresh key.

`DeploymentProofs` proves, for any tenants, any number of processes and every
value of every variable, all safety properties of `Deployment`: `NoOrphan`,
`EvidenceIsReal`, `DurableChoicesHold` and `RegistryMatchesCluster`. First it
says of each builder in `Composition` what it can yield (`LaunchesAreComposed`):
a control plane whose operator, applicator and ledger are all live or all
simulated (RULE 1), with a durable registry if one was chosen; or an edge that
keeps in memory no class of events whose sink was named. The invariant then
follows an operation: begun through the orchestrator it is of a plane that is
not mixed (the guards), so a live side means the Control DB's rows; begun at the
gate of a mixed plane it creates and drops nothing, its ledger is of its live
side, and its Ready is the exception that `RegistryMatchesCluster` names; its
tenant has a row, and rows only go with their process; and what it writes into
the ledger comes after the gate was resolved. Assumed are only that `Inactive`,
`Refused` and `Down` are none of the values they stand beside.

`PortalProofs` proves, for any edges, servers, tenants, registry, menus, databases
and bounds, all safety properties of `Portal`: `ImportsAreWhole`, `AnswersAreTrue`,
`LockServes` and `WritesAreGranted`. The invariant has five parts. Calls: a ticket
has one call at most, in the inbox or at one server, it is the call of the edge that
still waits for it, and its actor is a member (memberships only grow here). Grants:
between a grant and the next, a server's database is the one an ACTIVE descriptor
of the tenant named when the registry was at least as long as at the call's start.
Transactions: from the lock on the server is the only holder, so what it read under
it stands: no job of its key, no copy of its source but one made by hand, and its
lineage row is the next behind the committed head. Data: each database is whole --
one chain, a job and a copy for each row, one row for each source -- and no call
under way is the one a committed row was made by. Answers: what is told, on its way
or about to be sent names a row that is there, and rows and commits stay. The
advisory lock is what keeps a constraint from firing over another import
(`LockServes`); that imports stay whole rests on it too, since the head is read and
continued under it.

Only model-checked: the liveness properties `VerifyingSettles`, `Returns`,
`EveryRequestIsAnswered` and `CallsEnd`, which are out of the prover's reach. Every
other property of a passing run is a theorem.

## Plan

1. A module that composes lifecycle and router over one registry, with a clock
   for the window in which a cached view outlives a re-association or a
   suspension (no composition wires the invalidation port, so it is the cache's
   TTL, cache.py:46).
2. The rest of the lineage service (key versions, segmentation, retention, the
   keyset queries), and a directory source that changes between a run and its
   resumption (service.py:176).

## Not modelled

The lifecycle service in the first stack, which no composition uses. The shared
kernel and its portability checks, pure validation of documents. Key rotation of
lineage (verification.py:47), its search and graph queries. The federation reads
and the paging of the read API. In the second stack investors, deals and
contacts, which repeat startups, listing, the lineage reader and the inert
sharing service. HTTP parsing, the wording of denials, DDL and infrastructure
scripts: they keep no state the properties are about.
