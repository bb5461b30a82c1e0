------------------------- MODULE DatabaseRouterProofs -------------------------
(***************************************************************************)
(* Proofs about DatabaseRouter, for any number of tenants, references,     *)
(* clients and connections and any pool bound.                             *)
(*                                                                         *)
(* The inductive invariant says where a connection is.  One that is open   *)
(* is idle in exactly one pool, the one its binding names, or is one       *)
(* client's; a pool counts as borrowed only what a client of its lane has; *)
(* and what a client has carries the tenant and the version of the view    *)
(* the client resolved, and a reference that the tenant has or had.        *)
(***************************************************************************)
EXTENDS DatabaseRouter, FiniteSetTheorems, TLAPS

ViewSound(view) == view \in Views /\ view.ref \in RefsOf[view.t]

\* What the job j of client c may rely on, given the connections and the log.
ClientSound(c, j, cs, log) ==
    /\ j.pc \in {"idle", "resolve", "read", "put", "acquire"} => j.conn = NoConn
    /\ j.pc \in {"resolve", "read", "put"} => j.t \in Tenants
    /\ j.pc \in {"put", "acquire", "bind", "held"} => j.view # NoView
    /\ j.view # NoView => ViewSound(j.view)
    /\ j.pc \in {"bind", "held"} => j.conn # NoConn
    /\ j.conn # NoConn => /\ ViewSound(j.view)
                          /\ cs[j.conn] # Closed
                          /\ cs[j.conn].t = j.view.t
                          /\ cs[j.conn].v = VersionOf[j.view.ref]
    /\ j.pc = "audit" /\ j.action = "Route" => j.conn # NoConn /\ cs[j.conn].t = j.t
    /\ j.pc = "held" => cs[j.conn].t = j.t /\ c \in log

ViewsSound ==
    /\ \A t \in Tenants : registry[t].t = t /\ ViewSound(registry[t])
    /\ \A t \in Tenants : cache[t] # NoView => ViewSound(cache[t])

ClientsSound == \A c \in Clients : ClientSound(c, client[c], conns, logged)

Alone ==
    \A c, d \in Clients : Holding(c) /\ client[c].conn = client[d].conn => c = d

ConnSound(b) == b # Closed => b.ref \in RefsOf[b.t] /\ b.v = VersionOf[b.ref]

ConnsSound == \A x \in Conns : ConnSound(conns[x])

IdleSound ==
    \A p \in PoolIds : \A x \in idle[p] :
        /\ conns[x] # Closed
        /\ conns[x].t = p[2] /\ conns[x].v = p[3]
        /\ \A c \in Clients : client[c].conn # x
        /\ x \notin drained
        /\ \A q \in PoolIds : x \in idle[q] => q = p

\* Client c has x and returns it to p.
Returns(c, x, p, clients, cs) ==
    clients[c].conn = x /\ p = <<PoolFor(clients[c].lane), cs[x].t, cs[x].v>>

InUseSound ==
    \A p \in PoolIds : \A x \in inUse[p] :
        /\ x \notin drained
        /\ \E c \in Clients : Returns(c, x, p, client, conns)

DrainedHeld == \A x \in drained : \E c \in Clients : client[c].conn = x

Reached ==
    \A x \in Conns : conns[x] # Closed =>
        \/ \E c \in Clients : client[c].conn = x
        \/ \E p \in PoolIds : x \in idle[p]

IInv ==
    /\ TypeOK /\ ViewsSound /\ ClientsSound /\ Alone /\ ConnsSound
    /\ IdleSound /\ InUseSound /\ DrainedHeld /\ Reached

-----------------------------------------------------------------------------
(***************************************************************************)
(* Facts about the constants.                                              *)
(***************************************************************************)
\* A lane's manager is one of the composed ones.
LEMMA PoolForManager == \A l : PoolFor(l) \in Managers
  BY RouterAssumption DEF PoolFor

\* Pool ids are triples.
LEMMA Triples ==
    ASSUME NEW m \in Managers, NEW t \in Tenants, NEW v \in Versions
    PROVE  /\ <<m, t, v>> \in PoolIds
           /\ <<m, t, v>>[1] = m /\ <<m, t, v>>[2] = t /\ <<m, t, v>>[3] = v
  BY DEF PoolIds

\* The markers for nothing are none of the things.
LEMMA Nothing ==
    /\ NoView \notin Views
    /\ Closed \notin Bound
    /\ Idle \in ClientStates
  <1>1. NoView \notin Views
    BY RouterAssumption DEF NoView, Views
  <1>2. Closed \notin Bound
    BY DEF Closed, Bound
  <1>3. Idle \in ClientStates
    BY DEF Idle, ClientStates, Pcs, Lanes, Actions
  <1> QED BY <1>1, <1>2, <1>3

\* A client without a view or a connection relies on nothing.
LEMMA IdleIsSound ==
    ASSUME NEW c, NEW cs, NEW log
    PROVE  ClientSound(c, Idle, cs, log)
  BY DEF ClientSound, Idle

\* The initial states satisfy the invariant.
LEMMA InitInv == Init => IInv
  <1> SUFFICES ASSUME Init PROVE IInv
    OBVIOUS
  <1>1. TypeOK
    BY Nothing DEF Init, TypeOK, Idle
  <1>2. ViewsSound
    BY DEF Init, ViewsSound, ViewSound
  <1>3. ClientsSound
    BY IdleIsSound DEF Init, ClientsSound
  <1>4. Alone
    BY DEF Init, Alone, Holding, Idle
  <1>5. ConnsSound /\ Reached
    BY DEF Init, ConnsSound, ConnSound, Reached
  <1>6. IdleSound /\ InUseSound /\ DrainedHeld
    BY DEF Init, IdleSound, InUseSound, DrainedHeld
  <1> QED BY <1>1, <1>2, <1>3, <1>4, <1>5, <1>6 DEF IInv

-----------------------------------------------------------------------------
(***************************************************************************)
(* Three kinds of steps.                                                   *)
(***************************************************************************)
\* The control plane or the cache moves; no client and no pool does.
LEMMA ViewStep ==
    ASSUME IInv, ViewsSound',
           registry' \in [Tenants -> Views],
           cache' \in [Tenants -> Views \cup {NoView}],
           UNCHANGED poolVars, UNCHANGED <<logged, client>>
    PROVE  IInv'
  <1> USE DEF IInv, poolVars
  <1>1. TypeOK'
    BY DEF TypeOK
  <1>2. ClientsSound' /\ Alone' /\ ConnsSound' /\ IdleSound' /\ InUseSound'
        /\ DrainedHeld' /\ Reached'
    BY DEF ClientsSound, Alone, Holding, ConnsSound, IdleSound, InUseSound, DrainedHeld, Reached
  <1> QED BY <1>1, <1>2

\* A client goes on to j and keeps the connection it has or has none.
LEMMA ClientStep ==
    ASSUME IInv, ViewsSound',
           registry' \in [Tenants -> Views],
           cache' \in [Tenants -> Views \cup {NoView}],
           NEW c \in Clients, NEW j \in ClientStates,
           j.conn = client[c].conn, j.lane = client[c].lane \/ j.conn = NoConn,
           client' = [client EXCEPT ![c] = j],
           logged' \in SUBSET Clients, \A d \in Clients \ {c} : d \in logged => d \in logged',
           ClientSound(c, j, conns, logged'),
           UNCHANGED poolVars
    PROVE  IInv'
  <1> USE DEF IInv, poolVars
  <1>0. client \in [Clients -> ClientStates] /\ client' \in [Clients -> ClientStates]
    BY DEF TypeOK
  <1>a. client'[c] = j /\ \A d \in Clients \ {c} : client'[d] = client[d]
    BY <1>0
  <1>b. \A d \in Clients : client'[d].conn = client[d].conn
    BY <1>a
  <1>2. ClientsSound'
    BY <1>a DEF ClientsSound, ClientSound
  <1>1. TypeOK'
    <2>1. \A d \in Clients : /\ client'[d].pc \in {"resolve", "read", "put"} => client'[d].t \in Tenants
                             /\ client'[d].pc \in {"put", "acquire"} => client'[d].view \in Views
      BY <1>2 DEF ClientsSound, ClientSound, ViewSound
    <2> QED BY <1>0, <2>1 DEF TypeOK
  <1>3. Alone' /\ ConnsSound' /\ IdleSound' /\ DrainedHeld' /\ Reached'
    BY <1>b DEF Alone, Holding, ConnsSound, IdleSound, DrainedHeld, Reached
  <1>4. InUseSound'
    <2> SUFFICES ASSUME NEW p \in PoolIds, NEW x \in inUse[p]
                 PROVE  \E d \in Clients : Returns(d, x, p, client', conns)
      BY DEF InUseSound
    <2>1. PICK d \in Clients : Returns(d, x, p, client, conns)
      BY DEF InUseSound
    <2>2. x # NoConn
      BY RouterAssumption DEF TypeOK
    <2>3. Returns(d, x, p, client', conns)
      BY <2>1, <2>2, <1>a DEF Returns
    <2> QED BY <2>3
  <1> QED BY <1>1, <1>2, <1>3, <1>4

\* What the views of a step that leaves them alone have for ClientStep.
LEMMA ViewsKept ==
    ASSUME IInv, UNCHANGED viewVars
    PROVE  /\ ViewsSound'
           /\ registry' \in [Tenants -> Views]
           /\ cache' \in [Tenants -> Views \cup {NoView}]
  BY DEF IInv, viewVars, ViewsSound, TypeOK

-----------------------------------------------------------------------------
(***************************************************************************)
(* Closing.                                                                *)
(***************************************************************************)
\* Closing connections that are idle touches no client and nothing borrowed.
LEMMA Closes ==
    ASSUME IInv, NEW Z \in SUBSET Conns,
           \A z \in Z : \E p \in PoolIds : z \in idle[p]
    PROVE  /\ \A c \in Clients : client[c].conn \notin Z
           /\ \A p \in PoolIds : \A x \in inUse[p] : x \notin Z
           /\ \A x \in Z : Closing(conns, Z)[x] = Closed
           /\ \A x \in Conns \ Z : Closing(conns, Z)[x] = conns[x]
           /\ Closing(conns, Z) \in [Conns -> Bound \cup {Closed}]
           /\ \A c \in Clients : ClientSound(c, client[c], Closing(conns, Z), logged)
  <1> USE DEF IInv
  <1>0. conns \in [Conns -> Bound \cup {Closed}] /\ client \in [Clients -> ClientStates]
    BY DEF TypeOK
  <1>1. \A c \in Clients : client[c].conn \notin Z
    BY DEF IdleSound
  <1>2. \A p \in PoolIds : \A x \in inUse[p] : x \notin Z
    BY <1>1 DEF InUseSound, Returns
  <1>3. /\ \A x \in Z : Closing(conns, Z)[x] = Closed
        /\ \A x \in Conns \ Z : Closing(conns, Z)[x] = conns[x]
        /\ Closing(conns, Z) \in [Conns -> Bound \cup {Closed}]
    BY <1>0 DEF Closing
  <1>4. ASSUME NEW c \in Clients
        PROVE  ClientSound(c, client[c], Closing(conns, Z), logged)
    <2>1. ClientSound(c, client[c], conns, logged)
      BY DEF ClientsSound
    <2>2. client[c].conn # NoConn => client[c].conn \in Conns \ Z
      BY <1>0, <1>1 DEF ClientStates
    <2>3. client[c].conn # NoConn => Closing(conns, Z)[client[c].conn] = conns[client[c].conn]
      BY <2>2, <1>3
    <2> QED BY <2>1, <2>3 DEF ClientSound
  <1> QED BY <1>1, <1>2, <1>3, <1>4

\* The pool a holder returns to is a pool, and the only one that counts its
\* connection as borrowed.
LEMMA HomeOnly ==
    ASSUME IInv, NEW c \in Clients, Holding(c)
    PROVE  /\ client[c].conn \in Conns
           /\ conns[client[c].conn] \in Bound
           /\ Home(c) \in PoolIds
           /\ Home(c)[2] = conns[client[c].conn].t
           /\ Home(c)[3] = conns[client[c].conn].v
           /\ Home(c) = <<PoolFor(client[c].lane), conns[client[c].conn].t,
                          conns[client[c].conn].v>>
           /\ \A p \in PoolIds : client[c].conn \in inUse[p] => p = Home(c)
           /\ \A p \in PoolIds : client[c].conn \notin idle[p]
  <1> USE DEF IInv, Holding
  <1>1. client[c].conn \in Conns
    BY DEF TypeOK, ClientStates
  <1>2. conns[client[c].conn] \in Bound
    BY <1>1 DEF TypeOK, ClientsSound, ClientSound
  <1>3. conns[client[c].conn].t \in Tenants /\ conns[client[c].conn].v \in Versions
    BY <1>2 DEF Bound
  <1>4. Home(c) = <<PoolFor(client[c].lane), conns[client[c].conn].t, conns[client[c].conn].v>>
    BY DEF Home, Key
  <1>5. /\ Home(c) \in PoolIds
        /\ Home(c)[2] = conns[client[c].conn].t
        /\ Home(c)[3] = conns[client[c].conn].v
    BY <1>3, <1>4, PoolForManager, Triples
  <1>6. ASSUME NEW p \in PoolIds, client[c].conn \in inUse[p]
        PROVE  p = Home(c)
    <2>1. PICK d \in Clients : Returns(d, client[c].conn, p, client, conns)
      BY <1>6 DEF InUseSound
    <2>2. d = c
      BY <2>1 DEF Returns, Alone
    <2> QED BY <2>1, <2>2, <1>4 DEF Returns
  <1>7. \A p \in PoolIds : client[c].conn \notin idle[p]
    BY DEF IdleSound
  <1> QED BY <1>1, <1>2, <1>4, <1>5, <1>6, <1>7

\* A client ends its call and its connection is closed.
LEMMA DropStep ==
    ASSUME IInv, NEW c \in Clients, Holding(c), Discard(c),
           client' = [client EXCEPT ![c] = Idle],
           logged' = logged \ {c}, UNCHANGED viewVars
    PROVE  IInv'
  <1> DEFINE x == client[c].conn
  <1> USE DEF IInv
  <1>0. /\ client \in [Clients -> ClientStates] /\ conns \in [Conns -> Bound \cup {Closed}]
        /\ idle \in [PoolIds -> SUBSET Conns] /\ inUse \in [PoolIds -> SUBSET Conns]
        /\ drained \in SUBSET Conns /\ logged \in SUBSET Clients
    BY DEF TypeOK
  <1>a. client'[c] = Idle /\ \A d \in Clients \ {c} : client'[d] = client[d]
    BY <1>0
  <1>b. /\ conns' \in [Conns -> Bound \cup {Closed}]
        /\ conns'[x] = Closed /\ \A y \in Conns \ {x} : conns'[y] = conns[y]
    BY <1>0, HomeOnly DEF Discard, Closing
  <1>c. /\ inUse' \in [PoolIds -> SUBSET Conns]
        /\ \A p \in PoolIds : inUse'[p] = inUse[p] \ {x}
    BY <1>0, HomeOnly DEF Discard
  <1>d. idle' = idle /\ drained' = drained \ {x}
    BY DEF Discard
  <1>e. \A d \in Clients \ {c} : client[d].conn # x
    BY DEF Alone, Holding
  <1>f. Idle.conn = NoConn /\ x # NoConn
    BY DEF Idle, Holding
  <1>2. ClientsSound'
    <2> SUFFICES ASSUME NEW d \in Clients \ {c}
                 PROVE  ClientSound(d, client[d], conns', logged')
      BY <1>a, IdleIsSound DEF ClientsSound
    <2>1. ClientSound(d, client[d], conns, logged)
      BY DEF ClientsSound
    <2>2. client[d].conn # NoConn => conns'[client[d].conn] = conns[client[d].conn]
      BY <1>0, <1>b, <1>e DEF ClientStates
    <2>3. d \in logged => d \in logged'
      OBVIOUS
    <2> QED BY <2>1, <2>2, <2>3 DEF ClientSound
  <1>1. TypeOK'
    <2>1. client' \in [Clients -> ClientStates]
      BY <1>0, Nothing
    <2>2. \A d \in Clients : /\ client'[d].pc \in {"resolve", "read", "put"} => client'[d].t \in Tenants
                             /\ client'[d].pc \in {"put", "acquire"} => client'[d].view \in Views
      BY <1>2 DEF ClientsSound, ClientSound, ViewSound
    <2> QED BY <2>1, <2>2, <1>0, <1>b, <1>c, <1>d, ViewsKept DEF TypeOK
  <1>3. Alone'
    BY <1>a, <1>f DEF Alone, Holding
  <1>4. ConnsSound'
    BY <1>b DEF ConnsSound, ConnSound
  <1>5. IdleSound'
    <2> SUFFICES ASSUME NEW p \in PoolIds, NEW y \in idle[p]
                 PROVE  /\ conns'[y] = conns[y]
                        /\ \A d \in Clients : client'[d].conn # y
                        /\ y \notin drained'
      BY <1>d DEF IdleSound
    <2>1. y \in Conns \ {x}
      BY <1>0, HomeOnly
    <2>2. y # NoConn
      BY <2>1, RouterAssumption
    <2> QED BY <2>1, <2>2, <1>a, <1>b, <1>d, <1>f DEF IdleSound
  <1>6. InUseSound'
    <2> SUFFICES ASSUME NEW p \in PoolIds, NEW y \in inUse'[p]
                 PROVE  y \notin drained' /\ \E d \in Clients : Returns(d, y, p, client', conns')
      BY DEF InUseSound
    <2>1. y \in inUse[p] /\ y # x /\ y \in Conns
      BY <1>0, <1>c
    <2>2. PICK d \in Clients : Returns(d, y, p, client, conns)
      BY <2>1 DEF InUseSound
    <2>3. d # c
      BY <2>1, <2>2 DEF Returns
    <2>4. Returns(d, y, p, client', conns')
      BY <2>1, <2>2, <2>3, <1>a, <1>b DEF Returns
    <2>5. y \notin drained'
      BY <2>1, <1>d DEF InUseSound
    <2> QED BY <2>4, <2>5
  <1>7. Reached'
    <2> SUFFICES ASSUME NEW y \in Conns, conns'[y] # Closed
                 PROVE  \/ \E d \in Clients : client'[d].conn = y
                        \/ \E p \in PoolIds : y \in idle'[p]
      BY DEF Reached
    <2>1. y # x /\ conns[y] # Closed
      BY <1>b
    <2>2. ASSUME NEW d \in Clients, client[d].conn = y
          PROVE  client'[d].conn = y
      BY <2>1, <2>2, <1>a
    <2> QED BY <2>1, <2>2, <1>d DEF Reached
  <1>8. DrainedHeld'
    BY <1>a, <1>d DEF DrainedHeld
  <1> QED BY <1>1, <1>2, <1>3, <1>4, <1>5, <1>6, <1>7, <1>8, ViewsKept

-----------------------------------------------------------------------------
(***************************************************************************)
(* Acquiring and returning.                                                *)
(***************************************************************************)
\* Client c borrows x, idle or new, bound as b, from pool p and goes on to j;
\* the idle connections Z close.
Borrows(c, Z, x, b, j, p) ==
    /\ Z \in SUBSET Conns /\ \A z \in Z : \E q \in PoolIds : z \in idle[q]
    /\ x \in Conns /\ x \notin Z /\ \A d \in Clients : client[d].conn # x
    /\ b \in Bound /\ ConnSound(b) /\ j \in ClientStates /\ j.conn = x
    /\ p \in PoolIds /\ p = <<PoolFor(j.lane), b.t, b.v>>
    /\ conns' = [Closing(conns, Z) EXCEPT ![x] = b]
    /\ ClientSound(c, j, conns', logged)
    /\ client' = [client EXCEPT ![c] = j] /\ logged' = logged
    /\ idle' \in [PoolIds -> SUBSET Conns]
    /\ \A q \in PoolIds : idle'[q] = idle[q] \ (Z \cup {x})
    /\ inUse' = [inUse EXCEPT ![p] = @ \cup {x}]
    /\ drained' = drained \ Z /\ UNCHANGED viewVars

\* Borrowing preserves the invariant.
LEMMA BorrowStep ==
    ASSUME IInv, NEW c \in Clients, client[c].conn = NoConn,
           NEW Z, NEW x, NEW b, NEW j, NEW p, Borrows(c, Z, x, b, j, p)
    PROVE  IInv'
  <1> USE DEF IInv, Borrows
  <1>0. /\ client \in [Clients -> ClientStates] /\ conns \in [Conns -> Bound \cup {Closed}]
        /\ idle \in [PoolIds -> SUBSET Conns] /\ inUse \in [PoolIds -> SUBSET Conns]
        /\ drained \in SUBSET Conns /\ logged \in SUBSET Clients
    BY DEF TypeOK
  <1>a. client'[c] = j /\ \A d \in Clients \ {c} : client'[d] = client[d]
    BY <1>0
  <1>b. /\ conns' \in [Conns -> Bound \cup {Closed}] /\ conns'[x] = b
        /\ \A y \in Z : conns'[y] = Closed
        /\ \A y \in Conns \ (Z \cup {x}) : conns'[y] = conns[y]
    BY Closes
  <1>c. /\ inUse' \in [PoolIds -> SUBSET Conns]
        /\ \A q \in PoolIds \ {p} : inUse'[q] = inUse[q]
        /\ inUse'[p] = inUse[p] \cup {x}
    BY <1>0
  <1>d. \A d \in Clients : client[d].conn \notin Z
    BY Closes
  <1>e. x # NoConn /\ x \notin drained /\ b # Closed
    BY RouterAssumption, Nothing DEF DrainedHeld
  <1>2. ClientsSound'
    <2>1. ClientSound(c, client'[c], conns', logged')
      BY <1>a
    <2>2. ASSUME NEW d \in Clients \ {c}
          PROVE  ClientSound(d, client'[d], conns', logged')
      <3>1. ClientSound(d, client[d], conns, logged)
        BY DEF ClientsSound
      <3>2. client[d].conn # NoConn => conns'[client[d].conn] = conns[client[d].conn]
        BY <1>0, <1>b, <1>d DEF ClientStates
      <3>3. client'[d] = client[d] /\ logged' = logged
        BY <1>a
      <3> QED BY <3>1, <3>2, <3>3 DEF ClientSound
    <2> QED BY <2>1, <2>2 DEF ClientsSound
  <1>1. TypeOK'
    <2>1. client' \in [Clients -> ClientStates]
      BY <1>0
    <2>2. \A d \in Clients : /\ client'[d].pc \in {"resolve", "read", "put"} => client'[d].t \in Tenants
                             /\ client'[d].pc \in {"put", "acquire"} => client'[d].view \in Views
      BY <1>2 DEF ClientsSound, ClientSound, ViewSound
    <2> QED BY <2>1, <2>2, <1>0, <1>b, <1>c, ViewsKept DEF TypeOK
  <1>3. Alone'
    BY <1>a DEF Alone, Holding
  <1>4. ConnsSound'
    <2> SUFFICES ASSUME NEW y \in Conns PROVE ConnSound(conns'[y])
      BY DEF ConnsSound
    <2>1. ConnSound(conns[y]) /\ ConnSound(Closed)
      BY DEF ConnsSound, ConnSound
    <2> QED BY <2>1, <1>b
  <1>5. IdleSound'
    <2> SUFFICES ASSUME NEW q \in PoolIds, NEW y \in idle'[q]
                 PROVE  /\ y \in idle[q] /\ conns'[y] = conns[y]
                        /\ \A d \in Clients : client'[d].conn # y
                        /\ y \notin drained'
                        /\ \A r \in PoolIds : y \in idle'[r] => y \in idle[r]
      BY DEF IdleSound
    <2>1. y \in idle[q] /\ y \in Conns \ (Z \cup {x})
      BY <1>0
    <2> QED BY <2>1, <1>a, <1>b DEF IdleSound
  <1>6. InUseSound'
    <2> SUFFICES ASSUME NEW q \in PoolIds, NEW y \in inUse'[q]
                 PROVE  y \notin drained' /\ \E d \in Clients : Returns(d, y, q, client', conns')
      BY DEF InUseSound
    <2>1. CASE y \in inUse[q]
      <3>1. PICK d \in Clients : Returns(d, y, q, client, conns)
        BY <2>1 DEF InUseSound
      <3>2. y \in Conns \ (Z \cup {x}) /\ d # c
        BY <2>1, <3>1, <1>0, <1>d, RouterAssumption DEF Returns
      <3>3. Returns(d, y, q, client', conns')
        BY <3>1, <3>2, <1>a, <1>b DEF Returns
      <3>4. y \notin drained'
        BY <2>1 DEF InUseSound
      <3> QED BY <3>3, <3>4
    <2>2. CASE y \notin inUse[q]
      <3>1. q = p /\ y = x
        BY <2>2, <1>c
      <3>2. Returns(c, x, p, client', conns')
        BY <1>a, <1>b DEF Returns
      <3> QED BY <3>1, <3>2, <1>e
    <2> QED BY <2>1, <2>2
  <1>7. Reached'
    <2> SUFFICES ASSUME NEW y \in Conns, conns'[y] # Closed
                 PROVE  \/ \E d \in Clients : client'[d].conn = y
                        \/ \E q \in PoolIds : y \in idle'[q]
      BY DEF Reached
    <2>1. CASE y = x
      BY <2>1, <1>a
    <2>2. CASE y # x
      <3>1. y \notin Z /\ conns[y] # Closed
        BY <2>2, <1>b
      <3>2. ASSUME NEW d \in Clients, client[d].conn = y PROVE client'[d].conn = y
        BY <3>2, <1>a, RouterAssumption
      <3>3. ASSUME NEW q \in PoolIds, y \in idle[q] PROVE y \in idle'[q]
        BY <3>1, <3>3, <2>2
      <3> QED BY <3>1, <3>2, <3>3 DEF Reached
    <2> QED BY <2>1, <2>2
  <1>8. DrainedHeld'
    <2> SUFFICES ASSUME NEW y \in drained' PROVE \E d \in Clients : client'[d].conn = y
      BY DEF DrainedHeld
    <2>1. PICK d \in Clients : client[d].conn = y
      BY DEF DrainedHeld
    <2> QED BY <2>1, <1>0, <1>a, RouterAssumption
  <1> QED BY <1>1, <1>2, <1>3, <1>4, <1>5, <1>6, <1>7, <1>8, ViewsKept

\* The idle connections Z close and the client, which has none, gets none.
LEMMA CloseStep ==
    ASSUME IInv, NEW c \in Clients, client[c].conn = NoConn,
           NEW Z \in SUBSET Conns, \A z \in Z : \E q \in PoolIds : z \in idle[q],
           NEW j \in ClientStates, j.conn = NoConn,
           ClientSound(c, j, conns, logged),
           conns' = Closing(conns, Z),
           client' = [client EXCEPT ![c] = j], logged' = logged,
           idle' \in [PoolIds -> SUBSET Conns],
           \A q \in PoolIds : idle'[q] = idle[q] \ Z,
           inUse' = inUse, drained' = drained \ Z, UNCHANGED viewVars
    PROVE  IInv'
  <1> USE DEF IInv
  <1>0. /\ client \in [Clients -> ClientStates] /\ conns \in [Conns -> Bound \cup {Closed}]
        /\ idle \in [PoolIds -> SUBSET Conns] /\ inUse \in [PoolIds -> SUBSET Conns]
        /\ drained \in SUBSET Conns /\ logged \in SUBSET Clients
    BY DEF TypeOK
  <1>a. client'[c] = j /\ \A d \in Clients \ {c} : client'[d] = client[d]
    BY <1>0
  <1>b. /\ conns' \in [Conns -> Bound \cup {Closed}]
        /\ \A y \in Z : conns'[y] = Closed
        /\ \A y \in Conns \ Z : conns'[y] = conns[y]
    BY Closes
  <1>c. \A d \in Clients : client'[d].conn = client[d].conn
    BY <1>a
  <1>2. ClientsSound'
    <2>1. ClientSound(c, j, conns', logged)
      BY DEF ClientSound
    <2> QED BY <2>1, <1>a, Closes DEF ClientsSound
  <1>1. TypeOK'
    <2>1. client' \in [Clients -> ClientStates]
      BY <1>0
    <2>2. \A d \in Clients : /\ client'[d].pc \in {"resolve", "read", "put"} => client'[d].t \in Tenants
                             /\ client'[d].pc \in {"put", "acquire"} => client'[d].view \in Views
      BY <1>2 DEF ClientsSound, ClientSound, ViewSound
    <2> QED BY <2>1, <2>2, <1>0, <1>b, ViewsKept DEF TypeOK
  <1>3. Alone'
    BY <1>c DEF Alone, Holding
  <1>4. ConnsSound'
    <2> SUFFICES ASSUME NEW y \in Conns PROVE ConnSound(conns'[y])
      BY DEF ConnsSound
    <2>1. ConnSound(conns[y]) /\ ConnSound(Closed)
      BY DEF ConnsSound, ConnSound
    <2> QED BY <2>1, <1>b
  <1>5. IdleSound'
    <2> SUFFICES ASSUME NEW q \in PoolIds, NEW y \in idle'[q]
                 PROVE  /\ y \in idle[q] /\ conns'[y] = conns[y]
                        /\ \A d \in Clients : client'[d].conn # y
                        /\ y \notin drained'
                        /\ \A r \in PoolIds : y \in idle'[r] => y \in idle[r]
      BY DEF IdleSound
    <2>1. y \in idle[q] /\ y \in Conns \ Z
      BY <1>0
    <2> QED BY <2>1, <1>b, <1>c DEF IdleSound
  <1>6. InUseSound'
    <2> SUFFICES ASSUME NEW q \in PoolIds, NEW y \in inUse[q]
                 PROVE  y \notin drained' /\ \E d \in Clients : Returns(d, y, q, client', conns')
      BY DEF InUseSound
    <2>1. PICK d \in Clients : Returns(d, y, q, client, conns)
      BY DEF InUseSound
    <2>2. y \in Conns \ Z /\ d # c
      BY <2>1, <1>0, Closes, RouterAssumption DEF Returns
    <2>3. Returns(d, y, q, client', conns')
      BY <2>1, <2>2, <1>a, <1>b DEF Returns
    <2>4. y \notin drained'
      BY DEF InUseSound
    <2> QED BY <2>3, <2>4
  <1>7. Reached'
    BY <1>b, <1>c DEF Reached
  <1>8. DrainedHeld'
    BY <1>c DEF DrainedHeld
  <1> QED BY <1>1, <1>2, <1>3, <1>4, <1>5, <1>6, <1>7, <1>8, ViewsKept

\* Overdue connections are idle ones.
LEMMA OverdueIdle ==
    ASSUME IInv, NEW m, NEW E \in SUBSET IdleIn(m)
    PROVE  /\ E \in SUBSET Conns
           /\ \A z \in E : \E q \in PoolIds : z \in idle[q]
  BY DEF IInv, TypeOK, IdleIn

\* A client returns its connection to the pool that counts it.
LEMMA ReturnStep ==
    ASSUME IInv, NEW c \in Clients, Holding(c),
           client[c].conn \in inUse[Home(c)],
           NEW E \in SUBSET Conns, \A z \in E : \E q \in PoolIds : z \in idle[q],
           client' = [client EXCEPT ![c] = Idle], logged' = logged \ {c},
           inUse' = [inUse EXCEPT ![Home(c)] = @ \ {client[c].conn}],
           idle' = [[q \in PoolIds |-> idle[q] \ E] EXCEPT ![Home(c)] = @ \cup {client[c].conn}],
           conns' = Closing(conns, E), drained' = drained \ E, UNCHANGED viewVars
    PROVE  IInv'
  <1> DEFINE x == client[c].conn
             p == Home(c)
  <1> USE DEF IInv
  <1>0. /\ client \in [Clients -> ClientStates] /\ conns \in [Conns -> Bound \cup {Closed}]
        /\ idle \in [PoolIds -> SUBSET Conns] /\ inUse \in [PoolIds -> SUBSET Conns]
        /\ drained \in SUBSET Conns /\ logged \in SUBSET Clients
    BY DEF TypeOK
  <1>h. /\ x \in Conns /\ conns[x] \in Bound /\ p \in PoolIds
        /\ p[2] = conns[x].t /\ p[3] = conns[x].v
        /\ \A q \in PoolIds : x \in inUse[q] => q = p
        /\ \A q \in PoolIds : x \notin idle[q]
    BY HomeOnly
  <1>f. Idle.conn = NoConn /\ x # NoConn /\ x \notin E /\ x \notin drained
    BY <1>h DEF Idle, Holding, InUseSound
  <1>a. client'[c] = Idle /\ \A d \in Clients \ {c} : client'[d] = client[d]
    BY <1>0
  <1>b. /\ conns' \in [Conns -> Bound \cup {Closed}]
        /\ \A y \in E : conns'[y] = Closed
        /\ \A y \in Conns \ E : conns'[y] = conns[y]
    BY Closes
  <1>c. /\ inUse' \in [PoolIds -> SUBSET Conns]
        /\ \A q \in PoolIds : inUse'[q] = inUse[q] \ {x}
    BY <1>0, <1>h
  <1>d. /\ idle' \in [PoolIds -> SUBSET Conns]
        /\ idle'[p] = (idle[p] \ E) \cup {x}
        /\ \A q \in PoolIds \ {p} : idle'[q] = idle[q] \ E
    <2> DEFINE left == [q \in PoolIds |-> idle[q] \ E]
    <2>1. left \in [PoolIds -> SUBSET Conns] /\ \A q \in PoolIds : left[q] = idle[q] \ E
      BY <1>0
    <2>2. idle' = [left EXCEPT ![p] = @ \cup {x}]
      OBVIOUS
    <2> HIDE DEF left, p, x
    <2> QED BY <2>1, <2>2, <1>h
  <1>e. \A d \in Clients \ {c} : client[d].conn # x
    BY DEF Alone, Holding
  <1>2. ClientsSound'
    <2>1. ClientSound(c, client'[c], conns', logged')
      BY <1>a, IdleIsSound
    <2>2. ASSUME NEW d \in Clients \ {c}
          PROVE  ClientSound(d, client'[d], conns', logged')
      <3>1. ClientSound(d, client[d], conns', logged)
        BY Closes
      <3>2. d \in logged => d \in logged'
        OBVIOUS
      <3> QED BY <3>1, <3>2, <1>a DEF ClientSound
    <2> QED BY <2>1, <2>2 DEF ClientsSound
  <1>1. TypeOK'
    <2>1. client' \in [Clients -> ClientStates]
      BY <1>0, Nothing
    <2>2. \A d \in Clients : /\ client'[d].pc \in {"resolve", "read", "put"} => client'[d].t \in Tenants
                             /\ client'[d].pc \in {"put", "acquire"} => client'[d].view \in Views
      BY <1>2 DEF ClientsSound, ClientSound, ViewSound
    <2> QED BY <2>1, <2>2, <1>0, <1>b, <1>c, <1>d, ViewsKept DEF TypeOK
  <1>3. Alone'
    BY <1>a, <1>f DEF Alone, Holding
  <1>4. ConnsSound'
    <2> SUFFICES ASSUME NEW y \in Conns PROVE ConnSound(conns'[y])
      BY DEF ConnsSound
    <2>1. ConnSound(conns[y]) /\ ConnSound(Closed)
      BY DEF ConnsSound, ConnSound
    <2> QED BY <2>1, <1>b
  <1>5. IdleSound'
    <2> SUFFICES ASSUME NEW q \in PoolIds, NEW y \in idle'[q]
                 PROVE  /\ conns'[y] # Closed
                        /\ conns'[y].t = q[2] /\ conns'[y].v = q[3]
                        /\ \A d \in Clients : client'[d].conn # y
                        /\ y \notin drained'
                        /\ \A r \in PoolIds : y \in idle'[r] => r = q
      BY DEF IdleSound
    <2>0. y # NoConn
      BY <1>d, RouterAssumption
    <2>1. CASE y = x
      <3>1. q = p /\ \A r \in PoolIds : y \in idle'[r] => r = q
        BY <2>1, <1>d, <1>h
      <3>2. conns'[y] = conns[x] /\ conns[x] # Closed
        BY <2>1, <1>b, <1>f, <1>h, Nothing
      <3> QED BY <2>0, <2>1, <3>1, <3>2, <1>a, <1>e, <1>f, <1>h
    <2>2. CASE y # x
      <3>1. y \in idle[q] /\ y \in Conns \ E /\ \A r \in PoolIds : y \in idle'[r] => y \in idle[r]
        BY <2>2, <1>0, <1>d
      <3>2. conns'[y] = conns[y]
        BY <3>1, <1>b
      <3> QED BY <2>0, <3>1, <3>2, <1>a, <1>f DEF IdleSound
    <2> QED BY <2>1, <2>2
  <1>6. InUseSound'
    <2> SUFFICES ASSUME NEW q \in PoolIds, NEW y \in inUse'[q]
                 PROVE  y \notin drained' /\ \E d \in Clients : Returns(d, y, q, client', conns')
      BY DEF InUseSound
    <2>1. y \in inUse[q] /\ y # x
      BY <1>c
    <2>2. PICK d \in Clients : Returns(d, y, q, client, conns)
      BY <2>1 DEF InUseSound
    <2>3. d # c /\ y \in Conns \ E
      BY <2>1, <2>2, <1>0, Closes DEF Returns
    <2>4. Returns(d, y, q, client', conns')
      BY <2>2, <2>3, <1>a, <1>b DEF Returns
    <2>5. y \notin drained'
      BY <2>1 DEF InUseSound
    <2> QED BY <2>4, <2>5
  <1>7. Reached'
    <2> SUFFICES ASSUME NEW y \in Conns, conns'[y] # Closed
                 PROVE  \/ \E d \in Clients : client'[d].conn = y
                        \/ \E q \in PoolIds : y \in idle'[q]
      BY DEF Reached
    <2>1. CASE y = x
      BY <2>1, <1>d, <1>h
    <2>2. CASE y # x
      <3>1. y \notin E /\ conns[y] # Closed
        BY <1>b
      <3>2. ASSUME NEW d \in Clients, client[d].conn = y PROVE client'[d].conn = y
        BY <3>2, <2>2, <1>a
      <3>3. ASSUME NEW q \in PoolIds, y \in idle[q] PROVE y \in idle'[q]
        BY <3>1, <3>3, <1>d
      <3> QED BY <3>1, <3>2, <3>3 DEF Reached
    <2> QED BY <2>1, <2>2
  <1>8. DrainedHeld'
    BY <1>a, <1>f DEF DrainedHeld
  <1> QED BY <1>1, <1>2, <1>3, <1>4, <1>5, <1>6, <1>7, <1>8, ViewsKept

\* Draining the pools of a tenant's other versions.
LEMMA DrainStep ==
    ASSUME IInv, NEW m \in Managers, NEW t \in Tenants, NEW v \in Versions,
           InvalidateVersion(m, t, v)
    PROVE  IInv'
  <1> DEFINE gone == {p \in PoolIds : p[1] = m /\ p[2] = t /\ p[3] # v}
             Z == UNION {idle[p] : p \in gone}
             B == UNION {inUse[p] : p \in gone}
  <1> USE DEF IInv
  <1>0. /\ client \in [Clients -> ClientStates] /\ conns \in [Conns -> Bound \cup {Closed}]
        /\ idle \in [PoolIds -> SUBSET Conns] /\ inUse \in [PoolIds -> SUBSET Conns]
        /\ drained \in SUBSET Conns /\ logged \in SUBSET Clients
    BY DEF TypeOK
  <1>z. Z \in SUBSET Conns /\ \A z \in Z : \E q \in PoolIds : z \in idle[q]
    BY <1>0
  <1>a. /\ client' = client /\ logged' = logged /\ UNCHANGED viewVars
        /\ conns' = Closing(conns, Z) /\ drained' = drained \cup B
    BY DEF InvalidateVersion
  <1>b. /\ conns' \in [Conns -> Bound \cup {Closed}]
        /\ \A y \in Z : conns'[y] = Closed
        /\ \A y \in Conns \ Z : conns'[y] = conns[y]
    BY <1>a, <1>z, Closes
  <1>c. /\ inUse' \in [PoolIds -> SUBSET Conns] /\ idle' \in [PoolIds -> SUBSET Conns]
        /\ \A q \in gone : inUse'[q] = {} /\ idle'[q] = {}
        /\ \A q \in PoolIds \ gone : inUse'[q] = inUse[q] /\ idle'[q] = idle[q]
    BY <1>0 DEF InvalidateVersion
  <1>d. B \in SUBSET Conns /\ \A y \in B : \E d \in Clients : client[d].conn = y
    BY <1>0 DEF InUseSound, Returns
  <1>2. ClientsSound'
    BY <1>a, <1>z, Closes DEF ClientsSound
  <1>1. TypeOK'
    BY <1>0, <1>a, <1>b, <1>c, <1>d, ViewsKept DEF TypeOK
  <1>3. Alone'
    BY <1>a DEF Alone, Holding
  <1>4. ConnsSound'
    <2> SUFFICES ASSUME NEW y \in Conns PROVE ConnSound(conns'[y])
      BY DEF ConnsSound
    <2>1. ConnSound(conns[y]) /\ ConnSound(Closed)
      BY DEF ConnsSound, ConnSound
    <2> QED BY <2>1, <1>b
  <1>5. IdleSound'
    <2> SUFFICES ASSUME NEW q \in PoolIds, NEW y \in idle'[q]
                 PROVE  /\ y \in idle[q] /\ conns'[y] = conns[y] /\ y \notin drained'
                        /\ \A r \in PoolIds : y \in idle'[r] => y \in idle[r]
      BY <1>a DEF IdleSound
    <2>1. q \in PoolIds \ gone /\ y \in idle[q]
      BY <1>c
    <2>2. y \in Conns \ Z
      <3>1. \A r \in PoolIds : y \in idle[r] => r = q
        BY <2>1 DEF IdleSound
      <3> QED BY <2>1, <3>1, <1>0
    <2>3. y \notin B
      BY <2>1, <1>d DEF IdleSound
    <2>4. y \notin drained'
      BY <2>1, <2>3, <1>a DEF IdleSound
    <2>5. \A r \in PoolIds : y \in idle'[r] => y \in idle[r]
      BY <1>c
    <2> QED BY <2>1, <2>2, <2>4, <2>5, <1>b
  <1>6. InUseSound'
    <2> SUFFICES ASSUME NEW q \in PoolIds, NEW y \in inUse'[q]
                 PROVE  y \notin drained' /\ \E d \in Clients : Returns(d, y, q, client', conns')
      BY DEF InUseSound
    <2>1. q \in PoolIds \ gone /\ y \in inUse[q]
      BY <1>c
    <2>2. PICK d \in Clients : Returns(d, y, q, client, conns)
      BY <2>1 DEF InUseSound
    <2>3. y \in Conns \ Z
      BY <2>1, <1>0, <1>z, Closes
    <2>4. Returns(d, y, q, client', conns')
      BY <2>2, <2>3, <1>a, <1>b DEF Returns
    <2>5. ASSUME NEW r \in PoolIds, y \in inUse[r] PROVE r = q
      <3>1. PICK e \in Clients : Returns(e, y, r, client, conns)
        BY <2>5 DEF InUseSound
      <3>2. y # NoConn
        BY <2>3, RouterAssumption
      <3>3. e = d
        BY <3>1, <3>2, <2>2 DEF Returns, Alone, Holding
      <3> QED BY <3>1, <3>3, <2>2 DEF Returns
    <2>6. y \notin B
      BY <2>1, <2>5
    <2> QED BY <2>1, <2>4, <2>6, <1>a DEF InUseSound
  <1>7. Reached'
    <2> SUFFICES ASSUME NEW y \in Conns, conns'[y] # Closed, NEW q \in PoolIds, y \in idle[q]
                 PROVE  y \in idle'[q]
      BY <1>a, <1>b DEF Reached
    <2> QED BY <1>b, <1>c
  <1>8. DrainedHeld'
    BY <1>a, <1>d DEF DrainedHeld
  <1> QED BY <1>1, <1>2, <1>3, <1>4, <1>5, <1>6, <1>7, <1>8, <1>a, ViewsKept

\* A connection breaks.
LEMMA BreakStep ==
    ASSUME IInv, NEW x \in Conns, Break(x)
    PROVE  IInv'
  <1> USE DEF IInv
  <1>0. conns \in [Conns -> Bound \cup {Closed}]
    BY DEF TypeOK
  <1>a. /\ client' = client /\ logged' = logged /\ idle' = idle /\ inUse' = inUse
        /\ drained' = drained /\ UNCHANGED viewVars
    BY DEF Break
  <1>b. conns[x] \in Bound
    BY <1>0 DEF Break, Closed
  <1>c. /\ conns' \in [Conns -> Bound \cup {Closed}]
        /\ \A y \in Conns \ {x} : conns'[y] = conns[y]
        /\ conns'[x] \in Bound /\ conns'[x].t = conns[x].t
        /\ conns'[x].v = conns[x].v /\ conns'[x].ref = conns[x].ref
    BY <1>0, <1>b DEF Break, Bound
  <1>d. \A y \in Conns : /\ conns'[y] = Closed <=> conns[y] = Closed
                         /\ conns'[y].t = conns[y].t /\ conns'[y].v = conns[y].v
                         /\ conns'[y].ref = conns[y].ref
    BY <1>b, <1>c, Nothing
  <1>2. ClientsSound'
    <2> SUFFICES ASSUME NEW c \in Clients PROVE ClientSound(c, client[c], conns', logged)
      BY <1>a DEF ClientsSound
    <2>1. ClientSound(c, client[c], conns, logged)
      BY DEF ClientsSound
    <2>2. client[c].conn # NoConn => client[c].conn \in Conns
      BY DEF TypeOK, ClientStates
    <2> QED BY <2>1, <2>2, <1>d DEF ClientSound
  <1>1. TypeOK'
    BY <1>a, <1>c, ViewsKept DEF TypeOK
  <1>3. Alone' /\ DrainedHeld'
    BY <1>a DEF Alone, Holding, DrainedHeld
  <1>4. ConnsSound'
    BY <1>d DEF ConnsSound, ConnSound
  <1>5. IdleSound' /\ Reached'
    BY <1>a, <1>d DEF IdleSound, Reached, TypeOK
  <1>6. InUseSound'
    BY <1>a, <1>d DEF InUseSound, Returns, TypeOK
  <1> QED BY <1>1, <1>2, <1>3, <1>4, <1>5, <1>6, <1>a, ViewsKept

-----------------------------------------------------------------------------
(***************************************************************************)
(* The actions.                                                            *)
(***************************************************************************)
\* Forgetting the view and going to the audit is a sound job.
LEMMA Denied ==
    ASSUME IInv, NEW c \in Clients, Deny(c)
    PROVE  \E j \in ClientStates :
              /\ client' = [client EXCEPT ![c] = j]
              /\ j.conn = NoConn /\ ClientSound(c, j, conns, logged) /\ logged' = logged
  <1> DEFINE j == [Idle EXCEPT !.pc = "audit", !.action = "RouteDenied"]
  <1>1. /\ j \in ClientStates /\ j.conn = NoConn /\ j.pc = "audit"
        /\ j.action = "RouteDenied" /\ j.view = NoView
    BY Nothing DEF ClientStates, Idle, Pcs, Actions
  <1>2. client' = [client EXCEPT ![c] = j] /\ logged' = logged
    BY DEF Deny, Emit
  <1>3. ClientSound(c, j, conns, logged)
    <2> HIDE DEF j
    <2> QED BY <1>1 DEF ClientSound
  <1> QED BY <1>1, <1>2, <1>3

\* Passing the gate with a sound view, or being denied by it.
LEMMA GateStep ==
    ASSUME IInv, ViewsSound',
           registry' \in [Tenants -> Views],
           cache' \in [Tenants -> Views \cup {NoView}],
           NEW c \in Clients, client[c].conn = NoConn,
           NEW view, ViewSound(view), Gate(c, view), UNCHANGED poolVars
    PROVE  IInv'
  <1>0. client \in [Clients -> ClientStates] /\ client[c] \in ClientStates
        /\ ClientSound(c, client[c], conns, logged) /\ logged \in SUBSET Clients
    BY DEF IInv, TypeOK, ClientsSound
  <1>1. CASE Deny(c)
    <2>1. PICK j \in ClientStates :
              /\ client' = [client EXCEPT ![c] = j]
              /\ j.conn = NoConn /\ ClientSound(c, j, conns, logged) /\ logged' = logged
      BY <1>1, Denied
    <2> QED BY <2>1, <1>0, ClientStep
  <1>2. CASE ~Deny(c)
    <2> DEFINE j == [client[c] EXCEPT !.pc = "acquire", !.view = view]
    <2>1. client' = [client EXCEPT ![c] = j] /\ logged' = logged
      BY <1>0, <1>2 DEF Gate
    <2>2. /\ j \in ClientStates /\ j.conn = client[c].conn /\ j.lane = client[c].lane
          /\ j.pc = "acquire" /\ j.view = view
      BY <1>0 DEF ClientStates, Pcs, ViewSound
    <2> HIDE DEF j
    <2>3. ClientSound(c, j, conns, logged)
      BY <2>2, Nothing DEF ClientSound, ViewSound
    <2> QED BY <1>0, <2>1, <2>2, <2>3, ClientStep
  <1> QED BY <1>1, <1>2

\* route() starts.
LEMMA StartInv ==
    ASSUME IInv, NEW c \in Clients, Start(c)
    PROVE  IInv'
  <1>0. /\ client \in [Clients -> ClientStates] /\ client[c].conn = NoConn
        /\ logged \in SUBSET Clients /\ Idle \in ClientStates
    BY Nothing DEF IInv, TypeOK, ClientsSound, ClientSound, Start
  <1>1. PICK j \in ClientStates :
            /\ client' = [client EXCEPT ![c] = j] /\ logged' = logged
            /\ j.conn = NoConn /\ j.view = NoView
            /\ \/ j.pc = "resolve" /\ j.t \in Tenants
               \/ j.pc = "audit" /\ j.action # "Route"
    <2>1. CASE \E t \in Tenants, l \in {PoolFor(k) : k \in Lanes} :
                  client' = [client EXCEPT ![c] = [Idle EXCEPT !.pc = "resolve", !.t = t, !.lane = l]]
      <3>1. PICK t \in Tenants, l \in Lanes :
                client' = [client EXCEPT ![c] = [Idle EXCEPT !.pc = "resolve", !.t = t, !.lane = l]]
        BY <2>1 DEF PoolFor, Lanes
      <3> DEFINE j == [Idle EXCEPT !.pc = "resolve", !.t = t, !.lane = l]
      <3>2. /\ j \in ClientStates /\ j.conn = NoConn /\ j.view = NoView
            /\ j.pc = "resolve" /\ j.t \in Tenants
        BY <1>0 DEF ClientStates, Idle, Pcs
      <3>3. logged' = logged
        BY DEF Start, Emit
      <3> QED BY <3>1, <3>2, <3>3
    <2>2. CASE \E a \in {"RouteControl", "RouteDenied"} : Emit(c, Idle, a)
      <3>1. PICK a \in {"RouteControl", "RouteDenied"} : Emit(c, Idle, a)
        BY <2>2
      <3> DEFINE j == [Idle EXCEPT !.pc = "audit", !.action = a]
      <3>2. /\ j \in ClientStates /\ j.conn = NoConn /\ j.view = NoView
            /\ j.pc = "audit" /\ j.action # "Route"
        BY <1>0 DEF ClientStates, Idle, Pcs, Actions
      <3> QED BY <3>1, <3>2 DEF Emit
    <2> QED BY <2>1, <2>2 DEF Start
  <1>2. ClientSound(c, j, conns, logged)
    BY <1>1 DEF ClientSound
  <1>3. UNCHANGED viewVars /\ UNCHANGED poolVars
    BY DEF Start
  <1> QED BY <1>0, <1>1, <1>2, <1>3, ViewsKept, ClientStep

\* The resolver looks into the cache.
LEMMA ResolveInv ==
    ASSUME IInv, NEW c \in Clients, Resolve(c)
    PROVE  IInv'
  <1>0. /\ client \in [Clients -> ClientStates] /\ client[c] \in ClientStates
        /\ client[c].conn = NoConn /\ client[c].t \in Tenants
        /\ ClientSound(c, client[c], conns, logged) /\ logged \in SUBSET Clients
    BY DEF IInv, TypeOK, ClientsSound, ClientSound, Resolve
  <1>a. UNCHANGED viewVars /\ UNCHANGED poolVars
    BY DEF Resolve
  <1>1. CASE cache[client[c].t] # NoView
    <2>1. Gate(c, cache[client[c].t]) /\ ViewSound(cache[client[c].t])
      BY <1>0, <1>1 DEF Resolve, IInv, ViewsSound
    <2> QED BY <2>1, <1>0, <1>a, ViewsKept, GateStep
  <1>2. CASE cache[client[c].t] = NoView
    <2> DEFINE j == [client[c] EXCEPT !.pc = "read"]
    <2>1. client' = [client EXCEPT ![c] = j] /\ logged' = logged
      BY <1>0, <1>2 DEF Resolve
    <2>2. /\ j \in ClientStates /\ j.conn = client[c].conn /\ j.lane = client[c].lane
          /\ j.pc = "read" /\ j.view = client[c].view /\ j.t = client[c].t
      BY <1>0 DEF ClientStates, Pcs
    <2> HIDE DEF j
    <2>3. ClientSound(c, j, conns, logged)
      BY <2>2, <1>0 DEF ClientSound
    <2> QED BY <1>0, <1>a, <2>1, <2>2, <2>3, ViewsKept, ClientStep
  <1> QED BY <1>1, <1>2

\* The resolver reads the control plane.
LEMMA ReadInv ==
    ASSUME IInv, NEW c \in Clients, Read(c)
    PROVE  IInv'
  <1>0. /\ client \in [Clients -> ClientStates] /\ client[c] \in ClientStates
        /\ client[c].conn = NoConn /\ client[c].t \in Tenants
        /\ ClientSound(c, client[c], conns, logged) /\ logged \in SUBSET Clients
    BY DEF IInv, TypeOK, ClientsSound, ClientSound, Read
  <1>a. UNCHANGED viewVars /\ UNCHANGED poolVars
    BY DEF Read
  <1>1. CASE Deny(c)
    <2>1. PICK j \in ClientStates :
              /\ client' = [client EXCEPT ![c] = j]
              /\ j.conn = NoConn /\ ClientSound(c, j, conns, logged) /\ logged' = logged
      BY <1>1, Denied
    <2> QED BY <2>1, <1>0, <1>a, ViewsKept, ClientStep
  <1>2. CASE ~Deny(c)
    <2>1. PICK u \in Tenants :
              client' = [client EXCEPT ![c].pc = "put", ![c].view = registry[u]] /\ logged' = logged
      BY <1>0, <1>2, RouterAssumption DEF Read
    <2>2. ViewSound(registry[u])
      BY DEF IInv, ViewsSound
    <2> DEFINE j == [client[c] EXCEPT !.pc = "put", !.view = registry[u]]
    <2>3. client' = [client EXCEPT ![c] = j]
      BY <1>0, <2>1
    <2>4. /\ j \in ClientStates /\ j.conn = client[c].conn /\ j.lane = client[c].lane
          /\ j.pc = "put" /\ j.view = registry[u] /\ j.t = client[c].t
      BY <1>0, <2>2 DEF ClientStates, Pcs, ViewSound
    <2> HIDE DEF j
    <2>5. ClientSound(c, j, conns, logged)
      BY <2>2, <2>4, <1>0, Nothing DEF ClientSound, ViewSound
    <2> QED BY <1>0, <1>a, <2>1, <2>3, <2>4, <2>5, ViewsKept, ClientStep
  <1> QED BY <1>1, <1>2

\* The resolver caches the view and gates on it.
LEMMA PutInv ==
    ASSUME IInv, NEW c \in Clients, Put(c)
    PROVE  IInv'
  <1>0. /\ client[c] \in ClientStates /\ client[c].conn = NoConn /\ client[c].t \in Tenants
        /\ ViewSound(client[c].view)
    BY DEF IInv, TypeOK, ClientsSound, ClientSound, Put
  <1>1. /\ registry' = registry /\ UNCHANGED poolVars
        /\ cache' = [cache EXCEPT ![client[c].t] = client[c].view]
        /\ Gate(c, client[c].view)
    BY DEF Put
  <1>2. /\ registry' \in [Tenants -> Views]
        /\ cache' \in [Tenants -> Views \cup {NoView}]
    BY <1>0, <1>1 DEF IInv, TypeOK, ViewSound
  <1>3. ViewsSound'
    BY <1>0, <1>1 DEF IInv, TypeOK, ViewsSound
  <1> QED BY <1>0, <1>1, <1>2, <1>3, GateStep

\* The connection's tenant is compared with the active one.
LEMMA BindInv ==
    ASSUME IInv, NEW c \in Clients, Bind(c)
    PROVE  IInv'
  <1>0. /\ client \in [Clients -> ClientStates] /\ client[c] \in ClientStates
        /\ client[c].conn # NoConn
        /\ ClientSound(c, client[c], conns, logged) /\ logged \in SUBSET Clients
    BY DEF IInv, TypeOK, ClientsSound, ClientSound, Bind
  <1>a. UNCHANGED viewVars /\ UNCHANGED poolVars
    BY DEF Bind
  <1> DEFINE a == IF conns[client[c].conn].t = client[c].t THEN "Route" ELSE "IsolationAnomaly"
             j == [client[c] EXCEPT !.pc = "audit", !.action = a]
  <1>1. client' = [client EXCEPT ![c] = j] /\ logged' = logged
    BY DEF Bind, Emit
  <1>2. /\ j \in ClientStates /\ j.conn = client[c].conn /\ j.lane = client[c].lane
        /\ j.pc = "audit" /\ j.view = client[c].view /\ j.t = client[c].t
        /\ j.action = "Route" => conns[client[c].conn].t = client[c].t
    BY <1>0 DEF ClientStates, Pcs, Actions
  <1> HIDE DEF j
  <1>3. ClientSound(c, j, conns, logged)
    BY <1>0, <1>2 DEF ClientSound
  <1> QED BY <1>0, <1>a, <1>1, <1>2, <1>3, ViewsKept, ClientStep

\* What a client that acquires has, and the pool it wants.
LEMMA Acquiring ==
    ASSUME IInv, NEW c \in Clients, client[c].pc = "acquire"
    PROVE  /\ client[c] \in ClientStates /\ client[c].conn = NoConn
           /\ ViewSound(client[c].view)
           /\ VersionOf[client[c].view.ref] \in Versions
           /\ Wanted(c) \in PoolIds
           /\ Wanted(c)[2] = client[c].view.t
           /\ Wanted(c)[3] = VersionOf[client[c].view.ref]
           /\ Wanted(c) = <<PoolFor(client[c].lane), client[c].view.t,
                            VersionOf[client[c].view.ref]>>
  <1>1. /\ client[c] \in ClientStates /\ client[c].conn = NoConn
        /\ ViewSound(client[c].view)
    BY DEF IInv, TypeOK, ClientsSound, ClientSound
  <1>2. client[c].view.t \in Tenants /\ VersionOf[client[c].view.ref] \in Versions
    BY <1>1, RouterAssumption DEF ViewSound, Views
  <1>3. Wanted(c) = <<PoolFor(client[c].lane), client[c].view.t, VersionOf[client[c].view.ref]>>
    BY DEF Wanted, Key
  <1> QED BY <1>1, <1>2, <1>3, PoolForManager, Triples

\* The job of a client that borrowed x.
LEMMA Borrowed ==
    ASSUME IInv, NEW c \in Clients, client[c].pc = "acquire", NEW x \in Conns, Borrow(c, x),
           NEW cs, cs[x] # Closed, cs[x].t = client[c].view.t,
           cs[x].v = VersionOf[client[c].view.ref]
    PROVE  \E j \in ClientStates :
              /\ client' = [client EXCEPT ![c] = j] /\ logged' = logged
              /\ j.conn = x /\ j.lane = client[c].lane
              /\ ClientSound(c, j, cs, logged)
  <1> DEFINE j == [client[c] EXCEPT !.pc = "bind", !.conn = x]
  <1>0. client \in [Clients -> ClientStates]
    BY DEF IInv, TypeOK
  <1>1. client' = [client EXCEPT ![c] = j] /\ logged' = logged
    BY <1>0 DEF Borrow
  <1>2. /\ j \in ClientStates /\ j.conn = x /\ j.lane = client[c].lane
        /\ j.pc = "bind" /\ j.view = client[c].view
    BY <1>0 DEF ClientStates, Pcs
  <1>3. ClientSound(c, j, cs, logged)
    <2> HIDE DEF j
    <2>1. x # NoConn /\ client[c].view # NoView
      BY RouterAssumption, Nothing, Acquiring DEF ViewSound
    <2> QED BY <1>2, <2>1, Acquiring DEF ClientSound
  <1> QED BY <1>1, <1>2, <1>3

\* An idle connection is reused.
LEMMA ReuseInv ==
    ASSUME IInv, NEW c \in Clients, client[c].pc = "acquire", UNCHANGED viewVars,
           NEW E \in SUBSET IdleIn(PoolFor(client[c].lane)), Reuse(c, E)
    PROVE  IInv'
  <1> DEFINE p == Wanted(c)
  <1>0. /\ conns \in [Conns -> Bound \cup {Closed}] /\ idle \in [PoolIds -> SUBSET Conns]
    BY DEF IInv, TypeOK
  <1>p. p \in PoolIds /\ p[2] = client[c].view.t /\ p[3] = VersionOf[client[c].view.ref]
        /\ p = <<PoolFor(client[c].lane), client[c].view.t, VersionOf[client[c].view.ref]>>
        /\ client[c].conn = NoConn
    BY Acquiring
  <1>1. PICK x \in (idle[p] \ E) \ Broken(Conns), D \in SUBSET Broken(idle[p] \ E) :
            /\ idle' = [[q \in PoolIds |-> idle[q] \ E] EXCEPT ![p] = @ \ (D \cup {x})]
            /\ inUse' = [inUse EXCEPT ![p] = @ \cup {x}]
            /\ conns' = Closing(conns, E \cup D)
            /\ drained' = drained \ (E \cup D)
            /\ Borrow(c, x)
    BY DEF Reuse
  <1> HIDE DEF p
  <1> DEFINE Z == E \cup D
  <1>2. D \in SUBSET idle[p] /\ x \in Conns /\ x \in idle[p]
    BY <1>0, <1>p DEF Broken
  <1>3. Z \in SUBSET Conns /\ \A z \in Z : \E q \in PoolIds : z \in idle[q]
    BY <1>0, <1>2, <1>p, OverdueIdle
  <1>4. x \notin Z
    BY <1>2 DEF Broken
  <1>5. /\ conns[x] # Closed /\ conns[x].t = p[2] /\ conns[x].v = p[3]
        /\ \A d \in Clients : client[d].conn # x
    BY <1>2, <1>p DEF IInv, IdleSound
  <1>6. conns[x] \in Bound /\ ConnSound(conns[x])
    BY <1>0, <1>2, <1>5 DEF IInv, ConnsSound
  <1>7. Closing(conns, Z) = [Closing(conns, Z) EXCEPT ![x] = conns[x]]
    BY <1>2, <1>4 DEF Closing
  <1>8. /\ idle' \in [PoolIds -> SUBSET Conns]
        /\ \A q \in PoolIds : idle'[q] = idle[q] \ (Z \cup {x})
    <2> DEFINE left == [q \in PoolIds |-> idle[q] \ E]
    <2>1. left \in [PoolIds -> SUBSET Conns] /\ \A q \in PoolIds : left[q] = idle[q] \ E
      BY <1>0
    <2>2. idle' = [left EXCEPT ![p] = @ \ (D \cup {x})]
      BY <1>1
    <2> HIDE DEF left
    <2>3. /\ idle' \in [PoolIds -> SUBSET Conns]
          /\ idle'[p] = (idle[p] \ E) \ (D \cup {x})
          /\ \A q \in PoolIds \ {p} : idle'[q] = idle[q] \ E
      BY <2>1, <2>2, <1>p
    <2>4. \A q \in PoolIds \ {p} : \A y \in D \cup {x} : y \notin idle[q]
      BY <1>2, <1>p DEF IInv, IdleSound
    <2> QED BY <2>3, <2>4
  <1>9. conns'[x] = conns[x]
    BY <1>1, <1>2, <1>4 DEF Closing
  <1>10. PICK j \in ClientStates :
              /\ client' = [client EXCEPT ![c] = j] /\ logged' = logged
              /\ j.conn = x /\ j.lane = client[c].lane
              /\ ClientSound(c, j, conns', logged)
    <2>1. x \in Conns /\ Borrow(c, x) /\ conns'[x] # Closed
      BY <1>1, <1>2, <1>5, <1>9
    <2>2. conns'[x].t = client[c].view.t /\ conns'[x].v = VersionOf[client[c].view.ref]
      BY <1>5, <1>9, <1>p
    <2> QED BY <2>1, <2>2, Borrowed
  <1>11. p = <<PoolFor(j.lane), conns[x].t, conns[x].v>>
    BY <1>5, <1>10, <1>p
  <1>12. conns' = [Closing(conns, Z) EXCEPT ![x] = conns[x]] /\ drained' = drained \ Z
    BY <1>1, <1>7
  <1> HIDE DEF Z
  <1>13. Borrows(c, Z, x, conns[x], j, p)
    BY <1>p, <1>1, <1>2, <1>3, <1>4, <1>5, <1>6, <1>8, <1>10, <1>11, <1>12 DEF Borrows
  <1> QED BY <1>13, <1>p, BorrowStep

\* Every idle connection of the wanted pool is closed, whatever follows.
LEMMA Emptied ==
    ASSUME IInv, NEW c \in Clients, client[c].pc = "acquire",
           NEW E \in SUBSET IdleIn(PoolFor(client[c].lane)), EmptyIdle(c, E)
    PROVE  /\ E \cup idle[Wanted(c)] \in SUBSET Conns
           /\ \A z \in E \cup idle[Wanted(c)] : \E q \in PoolIds : z \in idle[q]
           /\ idle' \in [PoolIds -> SUBSET Conns]
           /\ \A q \in PoolIds : idle'[q] = idle[q] \ (E \cup idle[Wanted(c)])
  <1> DEFINE p == Wanted(c)
             left == [q \in PoolIds |-> idle[q] \ E]
  <1>0. idle \in [PoolIds -> SUBSET Conns] /\ p \in PoolIds
    BY Acquiring DEF IInv, TypeOK
  <1>1. left \in [PoolIds -> SUBSET Conns] /\ \A q \in PoolIds : left[q] = idle[q] \ E
    BY <1>0
  <1>2. idle' = [left EXCEPT ![p] = {}]
    BY DEF EmptyIdle
  <1> HIDE DEF left, p
  <1>3. /\ idle' \in [PoolIds -> SUBSET Conns] /\ idle'[p] = {}
        /\ \A q \in PoolIds \ {p} : idle'[q] = idle[q] \ E
    BY <1>0, <1>1, <1>2
  <1>4. \A q \in PoolIds \ {p} : \A y \in idle[p] : y \notin idle[q]
    BY <1>0 DEF IInv, IdleSound
  <1>5. \A q \in PoolIds : idle'[q] = idle[q] \ (E \cup idle[p])
    BY <1>3, <1>4
  <1> QED BY <1>0, <1>3, <1>5, OverdueIdle DEF p

\* A new connection is opened.
LEMMA OpenInv ==
    ASSUME IInv, NEW c \in Clients, client[c].pc = "acquire", UNCHANGED viewVars,
           NEW E \in SUBSET IdleIn(PoolFor(client[c].lane)), Open(c, E)
    PROVE  IInv'
  <1> DEFINE p == Wanted(c)
             Z == E \cup idle[Wanted(c)]
             b == [up |-> "open", t |-> client[c].view.t, v |-> VersionOf[client[c].view.ref],
                   ref |-> client[c].view.ref]
  <1>0. conns \in [Conns -> Bound \cup {Closed}]
    BY DEF IInv, TypeOK
  <1>p. p \in PoolIds /\ client[c].conn = NoConn /\ ViewSound(client[c].view)
        /\ p = <<PoolFor(client[c].lane), client[c].view.t, VersionOf[client[c].view.ref]>>
        /\ VersionOf[client[c].view.ref] \in Versions
    BY Acquiring
  <1>e. EmptyIdle(c, E)
    BY DEF Open
  <1>1. PICK x \in Conns :
            /\ conns[x] = Closed
            /\ conns' = [Closing(conns, Z) EXCEPT ![x] = b]
            /\ inUse' = [inUse EXCEPT ![p] = @ \cup {x}]
            /\ Borrow(c, x)
    BY DEF Open
  <1>d. drained' = drained \ Z
    BY DEF Open
  <1>2. /\ b \in Bound /\ b.t = client[c].view.t /\ b.v = VersionOf[client[c].view.ref]
        /\ b.ref = client[c].view.ref
    BY <1>p DEF Bound, ViewSound, Views
  <1>3. /\ Z \in SUBSET Conns /\ \A z \in Z : \E q \in PoolIds : z \in idle[q]
        /\ idle' \in [PoolIds -> SUBSET Conns]
        /\ \A q \in PoolIds : idle'[q] = idle[q] \ Z
    BY <1>e, Emptied
  <1> HIDE DEF p, Z, b
  <1>4. ConnSound(b)
    BY <1>2, <1>p DEF ConnSound, ViewSound
  <1>5. /\ \A d \in Clients : client[d].conn # x
        /\ \A q \in PoolIds : x \notin idle[q]
    BY <1>1, RouterAssumption DEF IInv, ClientsSound, ClientSound, IdleSound
  <1>6. x \notin Z /\ \A q \in PoolIds : idle'[q] = idle[q] \ (Z \cup {x})
    BY <1>3, <1>5
  <1>c. Closing(conns, Z) \in [Conns -> Bound \cup {Closed}]
    BY <1>3, Closes
  <1>7. conns'[x] = b
    BY <1>1, <1>c
  <1>8. /\ conns'[x] # Closed /\ conns'[x].t = client[c].view.t
        /\ conns'[x].v = VersionOf[client[c].view.ref]
    BY <1>2, <1>7, Nothing
  <1>9. PICK j \in ClientStates :
              /\ client' = [client EXCEPT ![c] = j] /\ logged' = logged
              /\ j.conn = x /\ j.lane = client[c].lane
              /\ ClientSound(c, j, conns', logged)
    BY <1>1, <1>8, Borrowed
  <1>10. p = <<PoolFor(j.lane), b.t, b.v>>
    BY <1>2, <1>9, <1>p
  <1>11. Borrows(c, Z, x, b, j, p)
    BY <1>p, <1>1, <1>2, <1>3, <1>4, <1>5, <1>6, <1>9, <1>10, <1>d DEF Borrows
  <1> QED BY <1>11, <1>p, BorrowStep

\* No connection is to be had.
LEMMA UnopenedInv ==
    ASSUME IInv, NEW c \in Clients, client[c].pc = "acquire", UNCHANGED viewVars,
           NEW E \in SUBSET IdleIn(PoolFor(client[c].lane)), Unopened(c, E)
    PROVE  IInv'
  <1> DEFINE Z == E \cup idle[Wanted(c)]
  <1>1. /\ EmptyIdle(c, E) /\ conns' = Closing(conns, Z) /\ drained' = drained \ Z
        /\ inUse' = inUse /\ Deny(c)
    BY DEF Unopened
  <1>2. /\ Z \in SUBSET Conns /\ \A z \in Z : \E q \in PoolIds : z \in idle[q]
        /\ idle' \in [PoolIds -> SUBSET Conns]
        /\ \A q \in PoolIds : idle'[q] = idle[q] \ Z
    BY <1>1, Emptied
  <1>3. PICK j \in ClientStates :
              /\ client' = [client EXCEPT ![c] = j]
              /\ j.conn = NoConn /\ ClientSound(c, j, conns, logged) /\ logged' = logged
    BY <1>1, Denied
  <1> HIDE DEF Z
  <1> QED BY <1>1, <1>2, <1>3, Acquiring, CloseStep

\* A connection is acquired, or not.
LEMMA AcquireInv ==
    ASSUME IInv, NEW c \in Clients, Acquire(c)
    PROVE  IInv'
  <1>1. PICK E \in SUBSET IdleIn(PoolFor(client[c].lane)) :
            Reuse(c, E) \/ Open(c, E) \/ Unopened(c, E)
    BY DEF Acquire
  <1>2. client[c].pc = "acquire" /\ UNCHANGED viewVars
    BY DEF Acquire
  <1> QED BY <1>1, <1>2, ReuseInv, OpenInv, UnopenedInv

\* The caller is denied; a connection it had is closed.
LEMMA GiveUpInv ==
    ASSUME IInv, NEW c \in Clients, GiveUp(c), UNCHANGED viewVars
    PROVE  IInv'
  <1>1. client' = [client EXCEPT ![c] = Idle] /\ logged' = logged \ {c}
    BY DEF GiveUp
  <1>2. CASE client[c].conn # NoConn
    BY <1>1, <1>2, DropStep DEF GiveUp, Holding
  <1>3. CASE client[c].conn = NoConn
    <2>1. UNCHANGED poolVars
      BY <1>3 DEF GiveUp
    <2>2. logged' \in SUBSET Clients /\ \A d \in Clients \ {c} : d \in logged => d \in logged'
      BY <1>1 DEF IInv, TypeOK
    <2>3. PICK j \in ClientStates : j = Idle
      BY Nothing
    <2>4. j.conn = client[c].conn /\ j.conn = NoConn
      BY <2>3, <1>3 DEF Idle
    <2>5. ClientSound(c, j, conns, logged')
      BY <2>3, IdleIsSound
    <2>6. client' = [client EXCEPT ![c] = j]
      BY <1>1, <2>3
    <2> QED BY <2>1, <2>2, <2>4, <2>5, <2>6, ViewsKept, ClientStep
  <1> QED BY <1>2, <1>3

\* One attempt to deliver the audit event, and what follows from its answer.
LEMMA AuditInv ==
    ASSUME IInv, NEW c \in Clients, Audit(c)
    PROVE  IInv'
  <1>0. /\ client \in [Clients -> ClientStates] /\ client[c] \in ClientStates
        /\ client[c].pc = "audit"
        /\ ClientSound(c, client[c], conns, logged) /\ logged \in SUBSET Clients
    BY DEF IInv, TypeOK, ClientsSound, Audit
  <1>a. UNCHANGED viewVars
    BY DEF Audit
  <1>1. PICK a \in Attempts :
            \/ a.answer = "ok" /\ client[c].action = "Route" /\ HandOver(c, Stored(c, a))
            \/ GiveUp(c)
            \/ /\ client' = [client EXCEPT ![c].tries = 2]
               /\ logged' = Stored(c, a) /\ UNCHANGED poolVars
    BY DEF Audit, Terminal
  <1>2. /\ Stored(c, a) \in SUBSET Clients
        /\ \A d \in Clients : d \in logged => d \in Stored(c, a)
        /\ a.answer = "ok" /\ client[c].action = "Route" => c \in Stored(c, a)
    BY <1>0 DEF Stored, Attempts
  <1>3. CASE a.answer = "ok" /\ client[c].action = "Route" /\ HandOver(c, Stored(c, a))
    <2> DEFINE j == [client[c] EXCEPT !.pc = "held"]
    <2>1. client' = [client EXCEPT ![c] = j] /\ logged' = Stored(c, a) /\ UNCHANGED poolVars
      BY <1>0, <1>3 DEF HandOver
    <2>2. /\ j \in ClientStates /\ j.conn = client[c].conn /\ j.lane = client[c].lane
          /\ j.pc = "held" /\ j.view = client[c].view /\ j.t = client[c].t
      BY <1>0 DEF ClientStates, Pcs
    <2> HIDE DEF j
    <2>3. ClientSound(c, j, conns, logged')
      BY <2>1, <2>2, <1>0, <1>2, <1>3, Nothing DEF ClientSound, ViewSound
    <2> QED BY <1>0, <1>a, <1>2, <2>1, <2>2, <2>3, ViewsKept, ClientStep
  <1>4. CASE /\ client' = [client EXCEPT ![c].tries = 2]
             /\ logged' = Stored(c, a) /\ UNCHANGED poolVars
    <2> DEFINE j == [client[c] EXCEPT !.tries = 2]
    <2>1. client' = [client EXCEPT ![c] = j]
      BY <1>0, <1>4
    <2>2. /\ j \in ClientStates /\ j.conn = client[c].conn /\ j.lane = client[c].lane
          /\ j.pc = "audit" /\ j.view = client[c].view /\ j.t = client[c].t
          /\ j.action = client[c].action
      BY <1>0 DEF ClientStates
    <2> HIDE DEF j
    <2>3. ClientSound(c, j, conns, logged')
      BY <2>2, <1>0 DEF ClientSound
    <2> QED BY <1>0, <1>a, <1>2, <1>4, <2>1, <2>2, <2>3, ViewsKept, ClientStep
  <1> QED BY <1>1, <1>3, <1>4, <1>a, GiveUpInv

\* The caller returns its connection.
LEMMA ReleaseInv ==
    ASSUME IInv, NEW c \in Clients, Release(c)
    PROVE  IInv'
  <1>1. /\ client' = [client EXCEPT ![c] = Idle] /\ logged' = logged \ {c}
        /\ UNCHANGED viewVars
    BY DEF Release
  <1>2. Holding(c)
    BY DEF Release, Holding, IInv, ClientsSound, ClientSound
  <1>3. CASE Discard(c)
    BY <1>1, <1>2, <1>3, DropStep
  <1>4. CASE ~Discard(c)
    <2>1. PICK E \in SUBSET IdleIn(PoolFor(client[c].lane)) :
              /\ idle' = [[q \in PoolIds |-> idle[q] \ E] EXCEPT ![Home(c)] = @ \cup {client[c].conn}]
              /\ conns' = Closing(conns, E)
              /\ drained' = drained \ E
      BY <1>4 DEF Release
    <2>2. /\ client[c].conn \in inUse[Home(c)]
          /\ inUse' = [inUse EXCEPT ![Home(c)] = @ \ {client[c].conn}]
      BY <1>4 DEF Release
    <2>3. E \in SUBSET Conns /\ \A z \in E : \E q \in PoolIds : z \in idle[q]
      BY OverdueIdle
    <2> QED BY <1>1, <1>2, <2>1, <2>2, <2>3, ReturnStep
  <1> QED BY <1>3, <1>4

\* The control plane moves a tenant's view, within its references.
LEMMA RegistryInv ==
    ASSUME IInv, NEW t \in Tenants, Reassociate(t) \/ Regate(t)
    PROVE  IInv'
  <1>0. /\ registry \in [Tenants -> Views]
        /\ registry[t].t = t /\ ViewSound(registry[t])
        /\ cache \in [Tenants -> Views \cup {NoView}]
    BY DEF IInv, TypeOK, ViewsSound
  <1>1. PICK r \in RefsOf[t], g \in {"routable", "denied"} :
            registry' = [registry EXCEPT ![t].ref = r, ![t].gate = g]
    <2>1. CASE Reassociate(t)
      BY <2>1 DEF Reassociate
    <2>2. CASE Regate(t)
      <3>1. PICK g \in {"routable", "denied"} : registry' = [registry EXCEPT ![t].gate = g]
        BY <2>2 DEF Regate
      <3>2. registry[t].ref \in RefsOf[t]
        BY <1>0 DEF ViewSound
      <3>3. registry' = [registry EXCEPT ![t].ref = registry[t].ref, ![t].gate = g]
        BY <1>0, <3>1 DEF Views
      <3> QED BY <3>2, <3>3
    <2> QED BY <2>1, <2>2
  <1>2. /\ UNCHANGED poolVars /\ UNCHANGED <<logged, client>> /\ cache' = cache

    BY <1>0 DEF Reassociate, Regate
  <1>3. r \in Refs
    BY RouterAssumption
  <1>4. /\ registry' \in [Tenants -> Views]
        /\ registry'[t].t = t /\ registry'[t].ref = r /\ registry'[t] \in Views
        /\ \A u \in Tenants \ {t} : registry'[u] = registry[u]
    <2> DEFINE view == [registry[t] EXCEPT !.ref = r, !.gate = g]
    <2>1. view \in Views /\ view.t = t /\ view.ref = r
      <3>1. registry[t] \in Views /\ registry[t].t = t
        BY <1>0
      <3>2. \A w \in Views : /\ [w EXCEPT !.ref = r, !.gate = g] \in Views
                             /\ [w EXCEPT !.ref = r, !.gate = g].t = w.t
                             /\ [w EXCEPT !.ref = r, !.gate = g].ref = r
        BY <1>3 DEF Views
      <3> QED BY <3>1, <3>2
    <2>2. registry' = [registry EXCEPT ![t] = view]
      BY <1>0, <1>1
    <2> HIDE DEF view
    <2> QED BY <1>0, <2>1, <2>2
  <1>5. ViewsSound'
    <2>1. \A u \in Tenants : registry'[u].t = u /\ ViewSound(registry'[u])
      BY <1>4 DEF IInv, ViewsSound, ViewSound
    <2> QED BY <2>1, <1>2 DEF IInv, ViewsSound
  <1> QED BY <1>0, <1>2, <1>4, <1>5, ViewStep

\* A cache entry goes.
LEMMA ForgetInv ==
    ASSUME IInv, NEW t \in Tenants, Expire(t)
    PROVE  IInv'
  <1>1. /\ UNCHANGED poolVars /\ UNCHANGED <<logged, client>> /\ registry' = registry
        /\ cache' = [cache EXCEPT ![t] = NoView]
    BY DEF IInv, TypeOK, Expire
  <1>2. registry' \in [Tenants -> Views] /\ cache' \in [Tenants -> Views \cup {NoView}]
    BY <1>1 DEF IInv, TypeOK
  <1>3. ViewsSound'
    BY <1>1 DEF IInv, TypeOK, ViewsSound
  <1> QED BY <1>1, <1>2, <1>3, ViewStep

\* A step that leaves every variable alone.
LEMMA StutterInv == ASSUME IInv, UNCHANGED vars PROVE IInv'
  <1>1. UNCHANGED viewVars /\ UNCHANGED poolVars /\ UNCHANGED <<logged, client>>
    BY DEF vars, viewVars, poolVars
  <1> QED BY <1>1, ViewsKept, ViewStep

-----------------------------------------------------------------------------
(***************************************************************************)
(* The theorems.                                                           *)
(***************************************************************************)
\* IInv is an invariant of the router: of route and release, of the pools
\* draining and breaking under them, and of a control plane that moves on.
THEOREM Invariance == Spec => []IInv
  <1>1. IInv /\ [Next]_vars => IInv'
    <2> SUFFICES ASSUME IInv, [Next]_vars PROVE IInv'
      OBVIOUS
    <2>1. ASSUME NEW c \in Clients,
                 \/ Start(c) \/ Resolve(c) \/ Read(c) \/ Put(c) \/ Acquire(c)
                 \/ Bind(c) \/ Audit(c) \/ Release(c)
          PROVE  IInv'
      BY <2>1, StartInv, ResolveInv, ReadInv, PutInv, AcquireInv, BindInv, AuditInv, ReleaseInv
    <2>2. ASSUME NEW t \in Tenants,
                 Reassociate(t) \/ Regate(t) \/ Expire(t)
          PROVE  IInv'
      BY <2>2, RegistryInv, ForgetInv
    <2>3. ASSUME NEW m \in Managers, NEW t \in Tenants, NEW v \in Versions,
                 InvalidateVersion(m, t, v)
          PROVE  IInv'
      BY <2>3, DrainStep
    <2>4. ASSUME NEW x \in Conns, Break(x) PROVE IInv'
      BY <2>4, BreakStep
    <2> QED BY <2>1, <2>2, <2>3, <2>4, StutterInv DEF Next
  <1> QED BY <1>1, InitInv, PTL DEF Spec

\* The router's state stays in its type.
THEOREM TypeCorrect == Spec => []TypeOK
  <1>1. IInv => TypeOK
    BY DEF IInv
  <1> QED BY <1>1, Invariance, PTL

\* No connection is shared: reuse pops it, release and discard give it up once.
THEOREM ExclusiveUse == Spec => []Exclusive
  <1>1. IInv => Exclusive
    BY DEF IInv, Exclusive, ClientsSound, ClientSound, Holding, Alone, IdleSound
  <1> QED BY <1>1, Invariance, PTL

\* No connection and no capacity is lost, whichever step of a route fails.
THEOREM LeakFree == Spec => []NoLeak
  <1>1. IInv => NoLeak
    BY DEF IInv, NoLeak, Held, Reached, InUseSound, Returns
  <1> QED BY <1>1, Invariance, PTL

\* A connection borrowed while its pool was drained never becomes idle again.
THEOREM DrainIsFinal == Spec => []DrainedStaysOut
  <1>1. IInv => DrainedStaysOut
    BY DEF IInv, DrainedStaysOut, IdleSound
  <1> QED BY <1>1, Invariance, PTL

\* A connection is handed to the caller only after its Route event is stored.
THEOREM AuditComesFirst == Spec => []AuditedBeforeUse
  <1>1. IInv => AuditedBeforeUse
    BY DEF IInv, AuditedBeforeUse, ClientsSound, ClientSound
  <1> QED BY <1>1, Invariance, PTL

\* The connection a caller gets was opened for its own tenant, for the version
\* its view names, and with a reference the tenant has or had: no pool, cached
\* view or answer about another tenant, and no re-association, changes that.
THEOREM Routing == Spec => []RightDatabase
  <1>1. IInv => RightDatabase
    <2> SUFFICES ASSUME IInv, NEW c \in Clients, client[c].pc = "held"
                 PROVE  /\ conns[client[c].conn].t = client[c].t
                        /\ conns[client[c].conn].v = VersionOf[client[c].view.ref]
                        /\ conns[client[c].conn].ref \in RefsOf[client[c].t]
      BY DEF RightDatabase
    <2>1. /\ ClientSound(c, client[c], conns, logged)
          /\ client[c].conn \in Conns \cup {NoConn}
      BY DEF IInv, TypeOK, ClientStates, ClientsSound
    <2>2. /\ client[c].conn \in Conns
          /\ conns[client[c].conn] # Closed
          /\ conns[client[c].conn].v = VersionOf[client[c].view.ref]
          /\ conns[client[c].conn].t = client[c].t
      BY <2>1 DEF ClientSound
    <2>3. conns[client[c].conn].ref \in RefsOf[conns[client[c].conn].t]
      BY <2>2 DEF IInv, ConnsSound, ConnSound
    <2> QED BY <2>2, <2>3
  <1> QED BY <1>1, Invariance, PTL

-----------------------------------------------------------------------------
(***************************************************************************)
(* The bound of a pool.                                                    *)
(***************************************************************************)
Content(p) == idle[p] \cup inUse[p]

\* What PoolBound needs to be inductive: Cardinality says nothing of an infinite set.
Bounded == \A p \in PoolIds : IsFiniteSet(Content(p)) /\ Cardinality(Content(p)) <= Max

\* Acquiring moves a connection within a pool, or opens one where there is room.
LEMMA AcquireContent ==
    ASSUME IInv, NEW c \in Clients, Acquire(c), NEW p \in PoolIds
    PROVE  \/ Content(p)' \subseteq Content(p)
           \/ /\ \E x \in Conns : Content(p)' = inUse[p] \cup {x}
              /\ Cardinality(inUse[p]) < Max
  <1>0. idle \in [PoolIds -> SUBSET Conns] /\ inUse \in [PoolIds -> SUBSET Conns]
    BY DEF IInv, TypeOK
  <1>1. PICK E \in SUBSET IdleIn(PoolFor(client[c].lane)) :
            Reuse(c, E) \/ Open(c, E) \/ Unopened(c, E)
    BY DEF Acquire
  <1>2. PICK w \in PoolIds : w = Wanted(c)
    BY Acquiring DEF Acquire
  <1> DEFINE left == [q \in PoolIds |-> idle[q] \ E]
  <1>3. left \in [PoolIds -> SUBSET Conns] /\ \A q \in PoolIds : left[q] = idle[q] \ E
    BY <1>0
  <1>4. CASE Reuse(c, E)
    <2>1. PICK x \in idle[w], D \in SUBSET Conns :
              /\ idle' = [left EXCEPT ![w] = @ \ (D \cup {x})]
              /\ inUse' = [inUse EXCEPT ![w] = @ \cup {x}]
      BY <1>0, <1>2, <1>4 DEF Reuse, Broken
    <2> HIDE DEF left
    <2>2. idle'[p] \subseteq idle[p] /\ inUse'[p] \subseteq Content(p)
      BY <1>0, <1>3, <2>1 DEF Content
    <2> QED BY <2>2 DEF Content
  <1>5. ASSUME EmptyIdle(c, E)
        PROVE  idle'[p] \subseteq idle[p] /\ (p = w => idle'[p] = {})
    <2>1. idle' = [left EXCEPT ![w] = {}]
      BY <1>2, <1>5 DEF EmptyIdle
    <2> HIDE DEF left
    <2> QED BY <1>3, <2>1
  <1>6. CASE Open(c, E)
    <2>1. PICK x \in Conns : inUse' = [inUse EXCEPT ![w] = @ \cup {x}]
      BY <1>2, <1>6 DEF Open
    <2>2. EmptyIdle(c, E) /\ Cardinality(inUse[w]) < Max
      BY <1>2, <1>6 DEF Open, HasRoom
    <2>3. CASE p = w
      <3>1. idle'[p] = {} /\ inUse'[p] = inUse[p] \cup {x}
        BY <1>0, <1>5, <2>1, <2>2, <2>3
      <3>2. Content(p)' = inUse[p] \cup {x}
        BY <3>1 DEF Content
      <3> QED BY <2>2, <2>3, <3>2
    <2>4. CASE p # w
      BY <1>0, <1>5, <2>1, <2>2, <2>4 DEF Content
    <2> QED BY <2>3, <2>4
  <1>7. CASE Unopened(c, E)
    BY <1>5, <1>7 DEF Unopened, Content
  <1> QED BY <1>1, <1>4, <1>6, <1>7

\* Discarding takes a connection out of its pool.
LEMMA DiscardContent ==
    ASSUME IInv, NEW c \in Clients, Discard(c), NEW p \in PoolIds
    PROVE  Content(p)' \subseteq Content(p)
  <1>1. inUse \in [PoolIds -> SUBSET Conns]
    BY DEF IInv, TypeOK
  <1>2. idle' = idle /\ inUse'[p] \subseteq inUse[p]
    BY <1>1 DEF Discard
  <1> QED BY <1>2 DEF Content

\* A connection that comes back was counted already.
LEMMA ReleaseContent ==
    ASSUME IInv, NEW c \in Clients, Release(c), NEW p \in PoolIds
    PROVE  Content(p)' \subseteq Content(p)
  <1>0. idle \in [PoolIds -> SUBSET Conns] /\ inUse \in [PoolIds -> SUBSET Conns]
    BY DEF IInv, TypeOK
  <1>1. CASE Discard(c)
    BY <1>1, DiscardContent
  <1>2. CASE ~Discard(c)
    <2>0. Holding(c)
      BY DEF Release, Holding, IInv, ClientsSound, ClientSound
    <2>1. PICK h \in PoolIds, x \in Conns : h = Home(c) /\ x = client[c].conn
      BY <2>0, HomeOnly
    <2>2. PICK E \in SUBSET IdleIn(PoolFor(client[c].lane)) :
              idle' = [[q \in PoolIds |-> idle[q] \ E] EXCEPT ![h] = @ \cup {x}]
      BY <1>2, <2>1 DEF Release
    <2>3. x \in inUse[h] /\ inUse' = [inUse EXCEPT ![h] = @ \ {x}]
      BY <1>2, <2>1 DEF Release
    <2> DEFINE left == [q \in PoolIds |-> idle[q] \ E]
    <2>4. left \in [PoolIds -> SUBSET Conns] /\ \A q \in PoolIds : left[q] = idle[q] \ E
      BY <1>0
    <2>5. idle' = [left EXCEPT ![h] = @ \cup {x}]
      BY <2>2
    <2> HIDE DEF left
    <2>6. idle'[p] \subseteq Content(p) /\ inUse'[p] \subseteq inUse[p]
      BY <1>0, <2>3, <2>4, <2>5 DEF Content
    <2> QED BY <2>6 DEF Content
  <1> QED BY <1>1, <1>2

\* No step takes a pool beyond its bound.
LEMMA BoundedStep ==
    ASSUME IInv, Bounded, [Next]_vars
    PROVE  Bounded'
  <1> SUFFICES ASSUME NEW p \in PoolIds
               PROVE  IsFiniteSet(Content(p)') /\ Cardinality(Content(p)') <= Max
    BY DEF Bounded
  <1>0. /\ IsFiniteSet(Content(p)) /\ Cardinality(Content(p)) <= Max
        /\ Cardinality(Content(p)) \in Nat /\ Max \in Nat
    BY FS_CardinalityType, RouterAssumption DEF Bounded
  <1>1. CASE Content(p)' \subseteq Content(p)
    <2>1. /\ IsFiniteSet(Content(p)') /\ Cardinality(Content(p)') <= Cardinality(Content(p))
      BY <1>0, <1>1, FS_Subset
    <2>2. Cardinality(Content(p)') \in Nat
      BY <2>1, FS_CardinalityType
    <2> QED BY <1>0, <2>1, <2>2
  <1>2. CASE /\ \E x \in Conns : Content(p)' = inUse[p] \cup {x}
             /\ Cardinality(inUse[p]) < Max
    <2>1. PICK x \in Conns : Content(p)' = inUse[p] \cup {x}
      BY <1>2
    <2>2. IsFiniteSet(inUse[p])
      BY <1>0, FS_Subset DEF Content
    <2>3. /\ IsFiniteSet(inUse[p] \cup {x})
          /\ \/ Cardinality(inUse[p] \cup {x}) = Cardinality(inUse[p])
             \/ Cardinality(inUse[p] \cup {x}) = Cardinality(inUse[p]) + 1
      BY <2>2, FS_AddElement
    <2>4. Cardinality(inUse[p]) \in Nat
      BY <2>2, FS_CardinalityType
    <2>5. Cardinality(inUse[p] \cup {x}) <= Max
      <3>1. \A k, n \in Nat : k < n => k <= n /\ k + 1 <= n
        OBVIOUS
      <3> QED BY <1>0, <1>2, <2>3, <2>4, <3>1
    <2> QED BY <2>1, <2>3, <2>5
  <1>3. ASSUME NEW c \in Clients, GiveUp(c) PROVE Content(p)' \subseteq Content(p)
    BY <1>3, DiscardContent DEF GiveUp, poolVars, Content
  <1>4. ASSUME NEW c \in Clients,
               \/ Start(c) \/ Resolve(c) \/ Read(c) \/ Put(c) \/ Bind(c) \/ Audit(c)
        PROVE  Content(p)' \subseteq Content(p)
    BY <1>3, <1>4
       DEF Start, Resolve, Read, Put, Bind, Audit, HandOver, Terminal, poolVars, Content
  <1>5. ASSUME NEW t \in Tenants,
               Reassociate(t) \/ Regate(t) \/ Expire(t)
        PROVE  Content(p)' \subseteq Content(p)
    BY <1>5 DEF Reassociate, Regate, Expire, poolVars, Content
  <1>6. ASSUME NEW m \in Managers, NEW t \in Tenants, NEW v \in Versions,
               InvalidateVersion(m, t, v)
        PROVE  Content(p)' \subseteq Content(p)
    BY <1>6 DEF InvalidateVersion, Content
  <1>7. ASSUME NEW x \in Conns, Break(x) PROVE Content(p)' \subseteq Content(p)
    BY <1>7 DEF Break, Content
  <1>8. CASE UNCHANGED vars
    BY <1>1, <1>8 DEF vars, Content
  <1>9. CASE Next
    BY <1>1, <1>2, <1>4, <1>5, <1>6, <1>7, <1>9, AcquireContent, ReleaseContent DEF Next
  <1> QED BY <1>8, <1>9

\* A pool never holds more than max_per_tenant connections, idle and borrowed
\* together, in whatever order they are opened, returned, broken and drained.
THEOREM PoolsBounded == Spec => []PoolBound
  <1>1. Init => Bounded
    <2>1. Init => \A p \in PoolIds : Content(p) = {}
      BY DEF Init, Content
    <2>2. IsFiniteSet({}) /\ Cardinality({}) = 0
      BY FS_EmptySet
    <2>3. 0 <= Max
      BY RouterAssumption
    <2> HIDE DEF Content
    <2> QED BY <2>1, <2>2, <2>3 DEF Bounded
  <1>2. Bounded => PoolBound
    BY DEF Bounded, PoolBound, Content
  <1>3. IInv /\ Bounded /\ [Next]_vars => Bounded'
    BY BoundedStep
  <1> QED BY <1>1, <1>2, <1>3, Invariance, PTL DEF Spec
=============================================================================
