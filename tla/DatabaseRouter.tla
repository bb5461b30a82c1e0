--------------------------- MODULE DatabaseRouter ---------------------------
(***************************************************************************)
(* The Database Router: DatabaseRouter.route and release (router.py), the  *)
(* RoutingResolver and its RoutingViewCache, the ConnectionPoolManager of  *)
(* each lane, and the bounded audit policy a route ends with (main.py).    *)
(* Clients are the threads that share one router.                          *)
(*                                                                         *)
(* A pool operation holds the pool's lock and is one step.  Resolving a    *)
(* view, acquiring, and every call of the audit transport are steps of     *)
(* their own, with the other clients and the control plane in between.     *)
(*                                                                         *)
(* Time is abstracted: a cached view may expire (or be dropped by the      *)
(* cache's bound, or by the invalidation port, to which no composition     *)
(* wires the control plane), an idle connection be overdue and a           *)
(* connection break at any moment.  An absent pool and an empty one behave *)
(* alike and are the same here; the order of the idle list is not kept.    *)
(***************************************************************************)
EXTENDS FiniteSets, Naturals

CONSTANTS
    Tenants,
    Refs,           \* SecretRefs {store_ref, version}
    RefsOf,         \* the references a tenant may be associated with
    VersionOf,      \* the version of each reference
    Versions,
    Clients,
    Conns,          \* bound: identities of the connections open at a time
    NoTenant, NoRef, NoConn,
    Managers,       \* the pool managers: interactive, and bulk where composed
    Max,            \* max_per_tenant
    Misread,        \* the tenants an answer about a tenant may really be about
    Changing,       \* bound: tenants that the control plane changes meanwhile
    Faults          \* "audit": the audit transport fails

ASSUME RouterAssumption ==
    /\ RefsOf \in [Tenants -> SUBSET Refs]
    /\ \A t \in Tenants : RefsOf[t] # {}
    /\ VersionOf \in [Refs -> Versions]
    /\ Misread \in [Tenants -> SUBSET Tenants]
    /\ Changing \subseteq Tenants
    /\ NoTenant \notin Tenants
    /\ NoRef \notin Refs
    /\ NoConn \notin Conns
    /\ "interactive" \in Managers
    /\ Managers \subseteq {"interactive", "bulk"}
    /\ Max \in Nat

VARIABLES
    registry,       \* the control plane's routing view of each tenant
    cache,          \* RoutingViewCache: tenant -> view
    conns,          \* every connection: its binding, and the ref that opened it
    idle,           \* the idle connections of each pool
    inUse,          \* the borrowed ones
    drained,        \* history: borrowed when their pool was drained
    logged,         \* clients whose current Route event is stored
    client          \* the route() each client is in, and its local variables

vars == <<registry, cache, conns, idle, inUse, drained, logged, client>>
poolVars == <<conns, idle, inUse, drained>>
viewVars == <<registry, cache>>

(***************************************************************************)
(* TenantRoutingView.  `gate` is what the resolver makes of lifecycle      *)
(* state, readiness flag and schema version: routable or denied.           *)
(***************************************************************************)
Views == [t : Tenants, ref : Refs, gate : {"routable", "denied"}]
NoView == [t |-> NoTenant, ref |-> NoRef, gate |-> "denied"]

Lanes == {"interactive", "bulk"}
Actions == {"Route", "RouteControl", "RouteDenied", "IsolationAnomaly"}
Pcs == {"idle", "resolve", "read", "put", "acquire", "bind", "audit", "held"}

Idle == [pc |-> "idle", t |-> NoTenant, lane |-> "interactive", view |-> NoView,
         conn |-> NoConn, action |-> "Route", tries |-> 1]

ClientStates ==
    [pc : Pcs, t : Tenants \cup {NoTenant}, lane : Lanes, view : Views \cup {NoView},
     conn : Conns \cup {NoConn}, action : Actions, tries : {1, 2}]

Closed == [up |-> "closed", t |-> NoTenant, v |-> NoRef, ref |-> NoRef]

\* A connection is bound to a tenant and a version; `ref` is what it leads to.
Bound == [up : {"open", "broken"}, t : Tenants, v : Versions, ref : Refs]

PoolIds == Managers \X Tenants \X Versions

Init ==
    /\ registry \in [Tenants -> Views]
    /\ \A t \in Tenants : registry[t].t = t /\ registry[t].ref \in RefsOf[t]
    /\ \A t \in Tenants \ Changing : registry[t].gate = "routable"
    /\ cache = [t \in Tenants |-> NoView]
    /\ conns = [x \in Conns |-> Closed]
    /\ idle = [p \in PoolIds |-> {}]
    /\ inUse = [p \in PoolIds |-> {}]
    /\ drained = {}
    /\ logged = {}
    /\ client = [c \in Clients |-> Idle]

-----------------------------------------------------------------------------
(***************************************************************************)
(* Pools.                                                                  *)
(***************************************************************************)
\* _pool_for: the bulk lane has a manager of its own only where one is composed.
PoolFor(lane) == IF lane = "bulk" /\ "bulk" \in Managers THEN "bulk" ELSE "interactive"

Key(m, t, v) == <<m, t, v>>

\* The pool a client acquires from, and the one its connection returns to.
Wanted(c) == Key(PoolFor(client[c].lane), client[c].view.t, VersionOf[client[c].view.ref])
Home(c) == Key(PoolFor(client[c].lane), conns[client[c].conn].t, conns[client[c].conn].v)

IdleIn(m) == UNION {idle[p] : p \in {q \in PoolIds : q[1] = m}}

\* The connections of X are closed; the others are as f has them.
Closing(f, X) == [x \in Conns |-> IF x \in X THEN Closed ELSE f[x]]

Broken(X) == {x \in X : conns[x].up = "broken"}

-----------------------------------------------------------------------------
(***************************************************************************)
(* The control plane, as the router sees it.                               *)
(***************************************************************************)
\* reassociate: a new reference, and Verifying until the gate passes.  Nothing
\* makes the new reference carry a new version.
Reassociate(t) ==
    /\ t \in Changing
    /\ \E r \in RefsOf[t] : registry' = [registry EXCEPT ![t].ref = r, ![t].gate = "denied"]
    /\ UNCHANGED <<cache, logged, client>> /\ UNCHANGED poolVars

\* The gate's result, a suspension, a schema that moves out of range.
Regate(t) ==
    /\ t \in Changing
    /\ \E g \in {"routable", "denied"} : registry' = [registry EXCEPT ![t].gate = g]
    /\ UNCHANGED <<cache, logged, client>> /\ UNCHANGED poolVars

\* RoutingViewCache: the TTL passes, put drops the entry at the bound, or
\* invalidate_tenant is called.  The pools stay.
Expire(t) ==
    /\ cache[t] # NoView
    /\ cache' = [cache EXCEPT ![t] = NoView]
    /\ UNCHANGED <<registry, logged, client>> /\ UNCHANGED poolVars

-----------------------------------------------------------------------------
(***************************************************************************)
(* DatabaseRouter.route.                                                   *)
(***************************************************************************)
\* The event is minted and its one delivery, with one retry, begins.
Emit(c, st, action) ==
    /\ client' = [client EXCEPT ![c] = [st EXCEPT !.pc = "audit", !.action = action]]
    /\ UNCHANGED logged

Deny(c) == Emit(c, Idle, "RouteDenied")

\* _determine_target: a tenant, the control plane, or a refusal before any.  A
\* lane stands for the manager it is served from.
Start(c) ==
    /\ client[c].pc = "idle"
    /\ \/ /\ \E t \in Tenants, l \in {PoolFor(k) : k \in Lanes} :
               client' = [client EXCEPT ![c] = [Idle EXCEPT !.pc = "resolve", !.t = t, !.lane = l]]
          /\ UNCHANGED logged
       \/ \E a \in {"RouteControl", "RouteDenied"} : Emit(c, Idle, a)
    /\ UNCHANGED viewVars /\ UNCHANGED poolVars

\* denial_for_state and the schema gate.
Gate(c, view) ==
    \/ /\ view.gate = "routable"
       /\ client' = [client EXCEPT ![c].pc = "acquire", ![c].view = view]
       /\ UNCHANGED logged
    \/ view.gate = "denied" /\ Deny(c)

Resolve(c) ==
    LET view == cache[client[c].t] IN
    /\ client[c].pc = "resolve"
    /\ \/ view # NoView /\ Gate(c, view)
       \/ view = NoView
          /\ client' = [client EXCEPT ![c].pc = "read"] /\ UNCHANGED logged
    /\ UNCHANGED viewVars /\ UNCHANGED poolVars

\* get_routing_view: a view, no such tenant, or no answer.  The answer may be
\* about another tenant: route is built to notice.
Read(c) ==
    /\ client[c].pc = "read"
    /\ \/ /\ \E u \in {client[c].t} \cup Misread[client[c].t] :
               client' = [client EXCEPT ![c].pc = "put", ![c].view = registry[u]]
          /\ UNCHANGED logged
       \/ Deny(c)
    /\ UNCHANGED viewVars /\ UNCHANGED poolVars

Put(c) ==
    /\ client[c].pc = "put"
    /\ cache' = [cache EXCEPT ![client[c].t] = client[c].view]
    /\ Gate(c, client[c].view)
    /\ UNCHANGED registry /\ UNCHANGED poolVars

-----------------------------------------------------------------------------
(***************************************************************************)
(* ConnectionPoolManager.acquire, after _evict_idle_locked closed the      *)
(* overdue connections E of this manager.                                  *)
(***************************************************************************)
Borrow(c, x) ==
    /\ client' = [client EXCEPT ![c].pc = "bind", ![c].conn = x]
    /\ UNCHANGED logged

\* Mutant: the idle connection is looked at, not popped.
ReusePeek(c, E) ==
    LET p == Wanted(c) IN
    \E x \in (idle[p] \ E) \ Broken(Conns) :
        /\ idle' = [q \in PoolIds |-> idle[q] \ E]
        /\ inUse' = [inUse EXCEPT ![p] = @ \cup {x}]
        /\ conns' = Closing(conns, E)
        /\ drained' = drained \ E
        /\ Borrow(c, x)

\* An idle connection that is alive; broken ones above it are closed.
Reuse(c, E) ==
    LET p == Wanted(c) IN
    \E x \in (idle[p] \ E) \ Broken(Conns), D \in SUBSET Broken(idle[p] \ E) :
        /\ idle' = [[q \in PoolIds |-> idle[q] \ E] EXCEPT ![p] = @ \ (D \cup {x})]
        /\ inUse' = [inUse EXCEPT ![p] = @ \cup {x}]
        /\ conns' = Closing(conns, E \cup D)
        /\ drained' = drained \ (E \cup D)
        /\ Borrow(c, x)

\* None is alive: all of them are closed.
NoneAlive(c, E) == idle[Wanted(c)] \ E \subseteq Broken(Conns)

EmptyIdle(c, E) ==
    idle' = [[q \in PoolIds |-> idle[q] \ E] EXCEPT ![Wanted(c)] = {}]

HasRoom(c) == Cardinality(inUse[Wanted(c)]) < Max

\* open_fn: the secret is resolved and a connection opened for exactly this key.
Open(c, E) ==
    LET p == Wanted(c)  D == E \cup idle[Wanted(c)]  view == client[c].view IN
    /\ NoneAlive(c, E) /\ HasRoom(c)
    /\ EmptyIdle(c, E)
    /\ \E x \in Conns :
        /\ conns[x] = Closed
        /\ conns' = [Closing(conns, D) EXCEPT ![x] =
                       [up |-> "open", t |-> view.t, v |-> VersionOf[view.ref], ref |-> view.ref]]
        /\ inUse' = [inUse EXCEPT ![p] = @ \cup {x}]
        /\ Borrow(c, x)
    /\ drained' = drained \ D

\* PoolExhausted, or open_fn raised, or what it opened was bound to another key.
Unopened(c, E) ==
    LET D == E \cup idle[Wanted(c)] IN
    /\ NoneAlive(c, E)
    /\ EmptyIdle(c, E)
    /\ conns' = Closing(conns, D)
    /\ drained' = drained \ D
    /\ UNCHANGED inUse
    /\ Deny(c)

Acquire(c) ==
    /\ client[c].pc = "acquire"
    /\ \E E \in SUBSET IdleIn(PoolFor(client[c].lane)) :
        Reuse(c, E) \/ Open(c, E) \/ Unopened(c, E)
    /\ UNCHANGED viewVars

\* ConnectionPoolManager.discard.
Discard(c) ==
    LET x == client[c].conn  p == Home(c) IN
    /\ inUse' = [inUse EXCEPT ![p] = @ \ {x}]
    /\ conns' = Closing(conns, {x})
    /\ drained' = drained \ {x}
    /\ UNCHANGED idle

\* Mutant: the connection's binding is not compared with the active tenant.
BindUnchecked(c) ==
    /\ client[c].pc = "bind"
    /\ Emit(c, client[c], "Route")
    /\ UNCHANGED viewVars /\ UNCHANGED poolVars

\* The connection must be bound to the active tenant.
Bind(c) ==
    /\ client[c].pc = "bind"
    /\ Emit(c, client[c], IF conns[client[c].conn].t = client[c].t
                          THEN "Route" ELSE "IsolationAnomaly")
    /\ UNCHANGED viewVars /\ UNCHANGED poolVars

-----------------------------------------------------------------------------
(***************************************************************************)
(* BoundedRoutingAuditPolicy.initiate: one retry, of an unavailable        *)
(* transport only.  The store keys events by event_id, so an attempt whose *)
(* answer was lost and its retry leave one record.                         *)
(***************************************************************************)
\* How one attempt ends: its answer ("invalid" stands for "conflict" too), and
\* whether the event was stored.
Attempts == {[answer |-> "ok", event |-> "stored"],
             [answer |-> "unavailable", event |-> "stored"],
             [answer |-> "unavailable", event |-> "lost"],
             [answer |-> "invalid", event |-> "stored"],
             [answer |-> "invalid", event |-> "lost"]}

\* Whose Route event is stored once c's attempt ended.
Stored(c, a) ==
    logged \cup (IF a.event = "stored" /\ client[c].action = "Route" THEN {c} ELSE {})

\* route returns, or gives the connection up and denies.
HandOver(c, stored) ==
    /\ client' = [client EXCEPT ![c].pc = "held"]
    /\ logged' = stored
    /\ UNCHANGED poolVars

\* Mutant: the connection is not discarded when the audit fails.
GiveUpLeaking(c) ==
    /\ client' = [client EXCEPT ![c] = Idle]
    /\ logged' = logged \ {c}
    /\ UNCHANGED poolVars

GiveUp(c) ==
    /\ client' = [client EXCEPT ![c] = Idle]
    /\ logged' = logged \ {c}
    /\ IF client[c].conn # NoConn THEN Discard(c) ELSE UNCHANGED poolVars

\* Mutant: a Route event is treated like RouteDenied, its failure is swallowed.
TerminalSwallow(c, stored) ==
    IF client[c].action = "Route" THEN HandOver(c, stored) ELSE GiveUp(c)

\* The final failure of a Route or RouteControl event raises; that of the
\* others is counted, and the denial stands.  Either way the caller is denied.
Terminal(c, stored) == GiveUp(c)

Audit(c) ==
    /\ client[c].pc = "audit"
    /\ \E a \in Attempts :
        /\ a.answer = "ok" \/ "audit" \in Faults
        /\ \/ a.answer = "ok" /\ client[c].action = "Route" /\ HandOver(c, Stored(c, a))
           \/ a.answer = "ok" /\ client[c].action # "Route" /\ GiveUp(c)
           \/ /\ a.answer = "unavailable" /\ client[c].tries = 1
              /\ client' = [client EXCEPT ![c].tries = 2]
              /\ logged' = Stored(c, a)
              /\ UNCHANGED poolVars
           \/ /\ a.answer = "invalid" \/ (a.answer = "unavailable" /\ client[c].tries = 2)
              /\ Terminal(c, Stored(c, a))
    /\ UNCHANGED viewVars

-----------------------------------------------------------------------------
\* Mutant: release does not look whether the pool still counts the connection.
ReleaseUnchecked(c) ==
    LET x == client[c].conn  p == Home(c) IN
    /\ client[c].pc = "held"
    /\ client' = [client EXCEPT ![c] = Idle]
    /\ inUse' = [inUse EXCEPT ![p] = @ \ {x}]
    /\ idle' = [idle EXCEPT ![p] = @ \cup {x}]
    /\ UNCHANGED <<conns, drained, logged>> /\ UNCHANGED viewVars

(***************************************************************************)
(* ConnectionPoolManager.release: back to idle if the pool still counts    *)
(* the connection and it is rolled back, reset and alive; closed if not.   *)
(***************************************************************************)
Release(c) ==
    LET x == client[c].conn  p == Home(c) IN
    /\ client[c].pc = "held"
    /\ client' = [client EXCEPT ![c] = Idle]
    /\ \/ Discard(c)
       \/ /\ x \in inUse[p] /\ conns[x].up = "open"
          /\ inUse' = [inUse EXCEPT ![p] = @ \ {x}]
          /\ \E E \in SUBSET IdleIn(PoolFor(client[c].lane)) :
              /\ idle' = [[q \in PoolIds |-> idle[q] \ E] EXCEPT ![p] = @ \cup {x}]
              /\ conns' = Closing(conns, E)
              /\ drained' = drained \ E
    /\ logged' = logged \ {c}
    /\ UNCHANGED viewVars

\* invalidate_version: the tenant's pools of other versions go; the connections
\* borrowed from them close on release.
InvalidateVersion(m, t, v) ==
    LET gone == {p \in PoolIds : p[1] = m /\ p[2] = t /\ p[3] # v}
        rest == UNION {idle[p] : p \in gone}
    IN
    /\ \E p \in gone : idle[p] \cup inUse[p] # {}
    /\ idle' = [p \in PoolIds |-> IF p \in gone THEN {} ELSE idle[p]]
    /\ inUse' = [p \in PoolIds |-> IF p \in gone THEN {} ELSE inUse[p]]
    /\ conns' = Closing(conns, rest)
    /\ drained' = drained \cup UNION {inUse[p] : p \in gone}
    /\ UNCHANGED <<logged, client>> /\ UNCHANGED viewVars

\* The server closes a connection, or the network does: external.
Break(x) ==
    /\ conns[x].up = "open"
    /\ conns' = [conns EXCEPT ![x].up = "broken"]
    /\ UNCHANGED <<idle, inUse, drained, logged, client>> /\ UNCHANGED viewVars

Next ==
    \/ \E c \in Clients : \/ Start(c) \/ Resolve(c) \/ Read(c) \/ Put(c) \/ Acquire(c)
                          \/ Bind(c) \/ Audit(c) \/ Release(c)
    \/ \E t \in Tenants : Reassociate(t) \/ Regate(t) \/ Expire(t)
    \/ \E m \in Managers, t \in Tenants, v \in Versions : InvalidateVersion(m, t, v)
    \/ \E x \in Conns : Break(x)

Spec == Init /\ [][Next]_vars

-----------------------------------------------------------------------------
(***************************************************************************)
(* Properties.                                                             *)
(***************************************************************************)
\* Clients that have a connection.
Holding(c) == client[c].conn # NoConn

TypeOK ==
    /\ registry \in [Tenants -> Views]
    /\ cache \in [Tenants -> Views \cup {NoView}]
    /\ conns \in [Conns -> Bound \cup {Closed}]
    /\ idle \in [PoolIds -> SUBSET Conns]
    /\ inUse \in [PoolIds -> SUBSET Conns]
    /\ drained \subseteq Conns
    /\ logged \subseteq Clients
    /\ client \in [Clients -> ClientStates]
    /\ \A c \in Clients :
        /\ client[c].pc \in {"resolve", "read", "put"} => client[c].t \in Tenants
        /\ client[c].pc \in {"put", "acquire"} => client[c].view \in Views

(***************************************************************************)
(* Nobody shares a connection: one that a client has is open, is no other  *)
(* client's and is not idle in any pool (D-13, "bound to exactly one       *)
(* tenant for its lifetime").                                              *)
(***************************************************************************)
Exclusive ==
    \A c \in Clients : Holding(c) =>
        /\ conns[client[c].conn] # Closed
        /\ \A d \in Clients \ {c} : client[d].conn # client[c].conn
        /\ \A p \in PoolIds : client[c].conn \notin idle[p]

(***************************************************************************)
(* Nothing leaks: an open connection is idle in a pool or some client has  *)
(* it, and what a pool counts as borrowed some client has, so a failed     *)
(* route costs no capacity.                                                *)
(***************************************************************************)
Held == {client[c].conn : c \in Clients}

NoLeak ==
    /\ \A x \in Conns : conns[x] # Closed =>
           x \in Held \/ \E p \in PoolIds : x \in idle[p]
    /\ \A p \in PoolIds : inUse[p] \subseteq Held

(***************************************************************************)
(* A pool holds no more than its bound, idle and borrowed together, in     *)
(* every order of borrowing, breaking, returning and draining (D-13).      *)
(***************************************************************************)
PoolBound == \A p \in PoolIds : Cardinality(idle[p] \cup inUse[p]) <= Max

(***************************************************************************)
(* A connection that was borrowed when its pool was drained is never idle  *)
(* again, even if the same key has a pool by then (pool.py:129).           *)
(***************************************************************************)
DrainedStaysOut == \A p \in PoolIds : idle[p] \cap drained = {}

(***************************************************************************)
(* A caller gets a connection of its own tenant, whatever view, pool or    *)
(* answer about another tenant led to it, and one that was opened for the  *)
(* version its view names -- not for one before a re-association -- with a *)
(* reference the tenant has or had.  So it leads to the database of the    *)
(* view wherever the tenant's references differ in their versions; one     *)
(* that keeps its version is served from the pool of the old one.          *)
(***************************************************************************)
RightDatabase ==
    \A c \in Clients : client[c].pc = "held" =>
        LET x == conns[client[c].conn]  view == client[c].view IN
        /\ x.t = client[c].t
        /\ x.v = VersionOf[view.ref]
        /\ x.ref \in RefsOf[client[c].t]

(***************************************************************************)
(* No connection is handed back before its Route event is stored, whatever *)
(* attempts were lost (router.py:106-113).                                 *)
(***************************************************************************)
AuditedBeforeUse == \A c \in Clients : client[c].pc = "held" => c \in logged
=============================================================================
