---------------------------- MODULE PortalProofs ----------------------------
(***************************************************************************)
(* Proofs about Portal, for any edges, servers, tenants, registry, menu    *)
(* and bounds: an import is all there or not at all, what a client is told *)
(* has happened, the lock keeps constraints out of the imports' way, and a *)
(* tenant database changes only under a grant that is younger than the     *)
(* call.                                                                   *)
(***************************************************************************)
EXTENDS Portal, LineageChainProofs, SequenceTheorems, TLAPS

-----------------------------------------------------------------------------
(***************************************************************************)
(* The inductive invariant.                                                *)
(***************************************************************************)
EdgePcs == {"idle", "establish", "authorize", "control", "route", "wait"}

ImportPcs == {"findGrant", "find", "directory", "writeGrant", "lock"} \cup ImportTx

ServerPcs ==
    {"idle", "refuse", "createGrant", "create", "updateGrant", "update", "readbackGrant", "readback", "readGrant", "read"}
    \cup ImportPcs

ControlShapes ==
    /\ registry \in [Tenants -> Seq(Descriptors)]
    /\ members \subseteq Principals \X Tenants
    /\ internals \in Nat

EdgeShapes ==
    /\ edge = [e \in Edges |-> edge[e]]
    /\ \A e \in Edges :
        /\ edge[e] = [pc |-> edge[e].pc, n |-> edge[e].n, req |-> edge[e].req]
        /\ edge[e].pc \in EdgePcs /\ edge[e].n \in Nat

ServerShapes ==
    /\ srv = [s \in Servers |-> srv[s]]
    /\ \A s \in Servers :
        /\ srv[s] = [pc |-> srv[s].pc, call |-> srv[s].call, since |-> srv[s].since, rev |-> srv[s].rev, db |-> srv[s].db]
        /\ srv[s].pc \in ServerPcs

DataShapes ==
    /\ data = [d \in Databases |-> data[d]]
    /\ \A d \in Databases :
        /\ data[d] = [rows |-> data[d].rows, lineage |-> data[d].lineage, jobs |-> data[d].jobs]
        /\ \A row \in data[d].rows : row = [id |-> row.id, source |-> row.source, text |-> row.text]

TxShapes ==
    /\ tx = [s \in Servers |-> tx[s]]
    /\ \A s \in Servers : tx[s] = [rows |-> tx[s].rows, lineage |-> tx[s].lineage]
    /\ locks = [d \in Databases |-> locks[d]]

Shapes == ControlShapes /\ EdgeShapes /\ ServerShapes /\ DataShapes /\ TxShapes

\* What an edge has found out about the request it serves.
EdgeInv ==
    \A e \in Edges :
        /\ edge[e].pc # "idle" => edge[e].n # 0 /\ edge[e].req \in Menu[e]
        /\ edge[e].pc = "control" => edge[e].req.op \notin TenantOps
        /\ edge[e].pc \in {"route", "wait"} =>
            /\ edge[e].req.op \in TenantOps
            /\ <<edge[e].req.token.principal, edge[e].req.token.tenant>> \in members

\* The tickets there may have been a call for.
Sent(ticket) ==
    \/ \E e \in Edges :
        /\ ticket[1] = e /\ ticket[2] \in 1..edge[e].n
        /\ ticket[2] = edge[e].n => edge[e].pc \in {"wait", "idle"}
    \/ ticket[1] = "internal" /\ ticket[2] \in 1..internals

CallOk(c) ==
    /\ c.op \in TenantOps /\ c.tenant \in Tenants
    /\ c.op = "create" /\ c.arg # NoSource => c.ticket[1] = "internal"
    /\ c.actor = "internal" \/ <<c.actor, c.tenant>> \in members
    /\ Sent(c.ticket)

Busy == {s \in Servers : srv[s].pc # "idle"}

\* What a server at each place is asked for.
OpAt(pc) ==
    CASE pc \in ImportPcs -> {"import"}
      [] pc \in {"createGrant", "create"} -> {"create"}
      [] pc \in {"updateGrant", "update", "readbackGrant", "readback"} -> {"update"}
      [] pc \in {"readGrant", "read"} -> {"read"}
      [] OTHER -> TenantOps

\* The calls under way: each is of a ticket of its own, and of the edge that waits for it.
CallsInv ==
    /\ \A c \in inbox : CallOk(c)
    /\ \A s \in Busy : CallOk(srv[s].call) /\ srv[s].call.op \in OpAt(srv[s].pc)
    /\ \A c, b \in inbox : c.ticket = b.ticket => c = b
    /\ \A s \in Busy : \A c \in inbox : srv[s].call.ticket # c.ticket
    /\ \A s, o \in Busy : srv[s].call.ticket = srv[o].call.ticket => s = o
    /\ \A e \in Edges : edge[e].pc = "wait" =>
        /\ \A c \in inbox : c.ticket = Ticket(e) => c = Call(e)
        /\ \A s \in Busy : srv[s].call.ticket = Ticket(e) => srv[s].call = Call(e)

\* Where a server holds the grant it was given last.
Bound == ImportTx \cup {"find", "lock", "create", "update", "readback", "read"}

Held(s) ==
    /\ srv[s].db \in Databases
    /\ srv[s].rev \in 1..Len(registry[srv[s].call.tenant])
    /\ Justified(s, srv[s].db)

GrantInv ==
    \A s \in Busy :
        /\ srv[s].since \in Nat /\ srv[s].since <= Len(registry[srv[s].call.tenant])
        /\ srv[s].pc \in Bound => Held(s)

\* What an import's transaction has seen and written stands while it holds the lock.
TxOk(s) ==
    /\ srv[s].pc \in {"writeGrant", "lock"} \cup ImportTx => Arg(s) \in Directory
    /\ srv[s].pc \in ImportTx => locks[srv[s].db] = {s}
    /\ srv[s].pc \notin {"append", "book"} => tx[s] = NoTx
    /\ srv[s].pc = "copy" => \A row \in Holders(srv[s].db, Arg(s)) : row.id[1] = "internal"
    /\ srv[s].pc \in {"append", "book"} =>
        /\ Holders(srv[s].db, Arg(s)) = {}
        /\ tx[s].rows = {NewRow(s, Arg(s))}
        /\ tx[s].lineage = IF srv[s].pc = "append" THEN {} ELSE {NextRow(ChainHead(Db(s).lineage), Event(s))}

TxInv == \A s \in Servers : TxOk(s)

\* A committed database: one chain, a job and a copy for each of its rows, one row for each source.
Whole(db) ==
    /\ OneChain(db.lineage)
    /\ {row.event.key : row \in db.lineage} = db.jobs
    /\ \A row \in db.lineage :
        /\ row.event.source \in Sources /\ row.event.key[2] = row.event.source
        /\ \E copy \in db.rows : copy.id = row.event.target.id /\ copy.source = row.event.source
    /\ \A row, other \in db.lineage : row.event.source = other.event.source => row = other
    /\ \A copy \in db.rows :
        \/ copy.source = NoSource \/ copy.id[1] = "internal"
        \/ \E row \in db.lineage : row.event.target.id = copy.id

DataInv == \A d \in Databases : Whole(data[d])

\* No call under way is the one a committed import was made by.
SpentInv ==
    \A d \in Databases : \A row \in data[d].lineage :
        /\ Sent(row.event.target.id)
        /\ \A c \in inbox : c.ticket # row.event.target.id
        /\ \A s \in Busy : srv[s].call.ticket # row.event.target.id

TrueBody(op, arg, ticket, body) ==
    /\ op \in {"create", "update"} => ticket \in committed
    /\ op = "import" =>
        /\ body = [db |-> body.db, target |-> body.target, fresh |-> body.fresh]
        /\ body.db \in Databases /\ body.fresh \in BOOLEAN
        /\ \E row \in data[body.db].lineage : row.event.source = arg /\ row.event.target = body.target
        /\ body.fresh <=> body.target.id = ticket

AnswersTold ==
    \A a \in answers :
        /\ a = [ticket |-> a.ticket, op |-> a.op, arg |-> a.arg, body |-> a.body]
        /\ TrueBody(a.op, a.arg, a.ticket, a.body)

AnswersOnTheirWay ==
    \A r \in replies :
        /\ Sent(r.ticket)
        /\ \A e \in Edges : r.ok /\ edge[e].pc = "wait" /\ r.ticket = Ticket(e) =>
               TrueBody(edge[e].req.op, edge[e].req.arg, r.ticket, r.body)

ReadbackInv == \A s \in Servers : srv[s].pc \in {"readbackGrant", "readback"} => srv[s].call.ticket \in committed

TrailInv == \A row \in trail : row.action = "startup_update" => row.ticket \in committed

AnswersInv == AnswersTold /\ AnswersOnTheirWay /\ ReadbackInv /\ TrailInv

IInv ==
    /\ Shapes /\ EdgeInv /\ CallsInv /\ GrantInv /\ TxInv /\ DataInv /\ SpentInv /\ AnswersInv /\ LockServes

-----------------------------------------------------------------------------
(***************************************************************************)
(* What the steps have in common.  An edge step moves one edge on and      *)
(* leaves the services alone; a server's step after it has taken up a call *)
(* moves that server on along Turns, or ends the call.                     *)
(***************************************************************************)
EdgeMoves(e, pc) ==
    /\ edge' = [f \in Edges |-> edge'[f]]
    /\ edge'[e] = [pc |-> pc, n |-> edge[e].n, req |-> edge[e].req]
    /\ \A f \in Edges \ {e} : edge'[f] = edge[f]

Moves(s, pc) ==
    /\ srv' = [o \in Servers |-> srv'[o]]
    /\ srv'[s] = [pc |-> pc, call |-> srv[s].call, since |-> srv[s].since, rev |-> srv[s].rev, db |-> srv[s].db]
    /\ \A o \in Servers \ {s} : srv'[o] = srv[o]

LEMMA GotoMoves ==
    ASSUME Shapes, NEW e \in Edges, NEW pc, Goto(e, pc)
    PROVE  EdgeMoves(e, pc)
PROOF
<1>1. edge = [f \in Edges |-> edge[f]] /\ edge[e] = [pc |-> edge[e].pc, n |-> edge[e].n, req |-> edge[e].req]
  BY DEF Shapes, EdgeShapes
<1> QED BY <1>1 DEF Goto, EdgeMoves

LEMMA StepMoves ==
    ASSUME Shapes, NEW s \in Servers, NEW pc, Step(s, pc)
    PROVE  Moves(s, pc)
PROOF
<1>1. /\ srv = [o \in Servers |-> srv[o]]
      /\ srv[s] = [pc |-> srv[s].pc, call |-> srv[s].call, since |-> srv[s].since, rev |-> srv[s].rev, db |-> srv[s].db]
  BY DEF Shapes, ServerShapes
<1> QED BY <1>1 DEF Step, Moves

LEMMA RespondMoves ==
    ASSUME Shapes, NEW s \in Servers, NEW ok, NEW body, Respond(s, ok, body)
    PROVE  Moves(s, "idle")
PROOF
<1>1. Step(s, "idle")
  BY DEF Respond, Step
<1> QED BY <1>1, StepMoves

LEMMA EndsIdle ==
    ASSUME Shapes, NEW s \in Servers, Reject(s) \/ (\E body : Answer(s, body)) \/ Step(s, "idle")
    PROVE  Moves(s, "idle") /\ srv'[s].pc = "idle"
PROOF
<1>1. Moves(s, "idle")
  BY StepMoves, RespondMoves DEF Reject, Answer
<1> QED BY <1>1 DEF Moves

EdgeTurns ==
    {<<"establish", "authorize">>, <<"authorize", "route">>, <<"authorize", "control">>, <<"route", "wait">>}
    \cup {<<pc, "idle">> : pc \in EdgePcs \ {"idle"}}

EdgeWorks(e) ==
    /\ UNCHANGED <<ctrl, servers, internals>>
    /\ EdgeMoves(e, edge'[e].pc)
    /\ <<edge[e].pc, edge'[e].pc>> \in EdgeTurns
    /\ replies' \subseteq replies
    /\ \/ inbox' = inbox /\ edge'[e].pc # "wait"
       \/ inbox' = inbox \cup {Call(e)} /\ edge'[e].pc = "wait"

Turns ==
    {<<"findGrant", "find">>, <<"find", "directory">>, <<"directory", "writeGrant">>, <<"writeGrant", "lock">>,
     <<"lock", "existing">>, <<"existing", "holds">>, <<"holds", "copy">>, <<"copy", "append">>, <<"append", "book">>,
     <<"createGrant", "create">>, <<"updateGrant", "update">>, <<"update", "readbackGrant">>,
     <<"readbackGrant", "readback">>, <<"readGrant", "read">>}

Works(s) ==
    /\ Elsewhere /\ inbox' = inbox
    /\ s \in Busy
    /\ srv' = [o \in Servers |-> srv'[o]]
    /\ srv'[s] = [pc |-> srv'[s].pc, call |-> srv[s].call, since |-> srv[s].since, rev |-> srv'[s].rev, db |-> srv'[s].db]
    /\ \A o \in Servers \ {s} : srv'[o] = srv[o]
    /\ srv'[s].pc = "idle" \/ <<srv[s].pc, srv'[s].pc>> \in Turns
    /\ ~Grant(s) => srv'[s].rev = srv[s].rev /\ srv'[s].db = srv[s].db

LEMMA EdgeStepWorks ==
    ASSUME Shapes, NEW e \in Edges, EdgeStep(e)
    PROVE  EdgeWorks(e)
PROOF
<1>0. \A pc : EdgeMoves(e, pc) => edge'[e].pc = pc
  BY DEF EdgeMoves
<1>1. \A pc : Goto(e, pc) => edge'[e].pc = pc /\ EdgeMoves(e, edge'[e].pc)
  BY <1>0, GotoMoves
<1>2. \A body : Deny(e) \/ Serve(e, body) => edge'[e].pc = "idle" /\ EdgeMoves(e, edge'[e].pc)
  BY <1>1 DEF Deny, Serve
<1>3. CASE Establish(e)
  BY <1>1, <1>2, <1>3 DEF Establish, EdgeWorks, EdgeTurns, EdgePcs
<1>4. CASE Authorize(e)
  BY <1>1, <1>2, <1>4 DEF Authorize, EdgeWorks, EdgeTurns, EdgePcs
<1>5. CASE ControlRead(e)
  BY <1>1, <1>2, <1>5 DEF ControlRead, EdgeWorks, EdgeTurns, EdgePcs
<1>6. CASE Route(e)
  BY <1>1, <1>2, <1>6 DEF Route, EdgeWorks, EdgeTurns, EdgePcs
<1>7. CASE TakeReply(e)
  BY <1>1, <1>2, <1>7 DEF TakeReply, EdgeWorks, EdgeTurns, EdgePcs
<1>8. CASE GiveUp(e)
  BY <1>1, <1>2, <1>8 DEF GiveUp, EdgeWorks, EdgeTurns, EdgePcs
<1> QED BY <1>3, <1>4, <1>5, <1>6, <1>7, <1>8 DEF EdgeStep

LEMMA MovesWorks ==
    ASSUME NEW s \in Servers, NEW pc, Moves(s, pc), Elsewhere, inbox' = inbox, srv[s].pc # "idle",
           pc = "idle" \/ <<srv[s].pc, pc>> \in Turns
    PROVE  Works(s)
PROOF
<1>1. srv'[s].pc = pc /\ srv'[s].rev = srv[s].rev /\ srv'[s].db = srv[s].db
  BY DEF Moves
<1> QED BY <1>1 DEF Moves, Works, Busy

\* A grant was given: s goes on with what the registry says now.
GrantedBy(s, pc, rev, db) ==
    /\ Resolution(srv[s].call.tenant) = "bound" /\ UNCHANGED replies
    /\ pc = After[srv[s].pc] /\ rev = Len(registry[srv[s].call.tenant])
    /\ db = DatabaseOf[Row(srv[s].call.tenant).assoc]
    /\ srv' = [o \in Servers |-> srv'[o]]
    /\ srv'[s] = [pc |-> pc, call |-> srv[s].call, since |-> srv[s].since, rev |-> rev, db |-> db]
    /\ \A o \in Servers \ {s} : srv'[o] = srv[o]

LEMMA GrantEffect ==
    ASSUME Shapes, NEW s \in Servers, Grant(s)
    PROVE  Reject(s) \/ \E pc, rev, db : GrantedBy(s, pc, rev, db)
PROOF
<1> DEFINE t == srv[s].call.tenant
<1>1. CASE Resolution(t) # "bound"
  BY <1>1 DEF Grant
<1>2. CASE Resolution(t) = "bound"
  <2>1. PICK pc, rev, db : pc = After[srv[s].pc] /\ rev = Len(registry[t]) /\ db = DatabaseOf[Row(t).assoc]
    OBVIOUS
  <2>2. srv' = [srv EXCEPT ![s].pc = pc, ![s].rev = rev, ![s].db = db] /\ UNCHANGED replies
    BY <1>2, <2>1 DEF Grant
  <2>3. /\ srv = [o \in Servers |-> srv[o]]
        /\ srv[s] = [pc |-> srv[s].pc, call |-> srv[s].call, since |-> srv[s].since, rev |-> srv[s].rev, db |-> srv[s].db]
    BY DEF Shapes, ServerShapes
  <2>4. /\ srv' = [o \in Servers |-> srv'[o]]
        /\ srv'[s] = [pc |-> pc, call |-> srv[s].call, since |-> srv[s].since, rev |-> rev, db |-> db]
        /\ \A o \in Servers \ {s} : srv'[o] = srv[o]
    <3> DEFINE x == [srv EXCEPT ![s].pc = pc]
               y == [x EXCEPT ![s].rev = rev]
    <3>1. /\ x = [o \in Servers |-> x[o]] /\ \A o \in Servers \ {s} : x[o] = srv[o]
          /\ x[s] = [pc |-> pc, call |-> srv[s].call, since |-> srv[s].since, rev |-> srv[s].rev, db |-> srv[s].db]
      BY <2>3
    <3>2. srv' = [y EXCEPT ![s].db = db]
      BY <2>2
    <3> HIDE DEF x
    <3>3. /\ y = [o \in Servers |-> y[o]] /\ \A o \in Servers \ {s} : y[o] = srv[o]
          /\ y[s] = [pc |-> pc, call |-> srv[s].call, since |-> srv[s].since, rev |-> rev, db |-> srv[s].db]
      BY <3>1
    <3> HIDE DEF y
    <3> QED BY <3>2, <3>3
  <2>5. GrantedBy(s, pc, rev, db)
    BY <1>2, <2>1, <2>2, <2>4 DEF GrantedBy
  <2> QED BY <2>5
<1> QED BY <1>1, <1>2

LEMMA ServerStepWorks ==
    ASSUME Shapes, NEW s \in Servers, ServerStep(s) \/ Fail(s)
    PROVE  Accept(s) \/ Works(s)
PROOF
<1>1. \A pc : Step(s, pc) => Moves(s, pc)
  BY StepMoves
<1>2. \A body : Answer(s, body) => Moves(s, "idle")
  BY RespondMoves DEF Answer
<1>3. Reject(s) => Moves(s, "idle")
  BY RespondMoves DEF Reject
<1>4. CASE Refuse(s)
  BY <1>3, <1>4, MovesWorks DEF Refuse
<1>5. CASE Grant(s)
  <2>1. srv[s].pc # "idle" /\ <<srv[s].pc, After[srv[s].pc]>> \in Turns
    BY <1>5 DEF Grant, After, Turns
  <2>2. Elsewhere /\ inbox' = inbox
    BY <1>5 DEF Grant
  <2>3. CASE Reject(s)
    BY <1>3, <2>1, <2>2, <2>3, MovesWorks
  <2>4. CASE ~Reject(s)
    <3>1. PICK pc, rev, db : GrantedBy(s, pc, rev, db)
      BY <1>5, <2>4, GrantEffect
    <3>2. srv'[s].pc = pc /\ srv'[s].rev = rev /\ srv'[s].db = db
      BY <3>1 DEF GrantedBy
    <3> QED BY <1>5, <2>1, <2>2, <3>1, <3>2 DEF Works, Busy, GrantedBy
  <2> QED BY <2>3, <2>4
<1>6. CASE Find(s)
  BY <1>1, <1>2, <1>6, MovesWorks DEF Find, Turns
<1>7. CASE ReadDirectory(s)
  BY <1>1, <1>3, <1>7, MovesWorks DEF ReadDirectory, Turns
<1>8. CASE Lock(s)
  BY <1>1, <1>8, MovesWorks DEF Lock, Turns
<1>9. CASE Recheck(s)
  BY <1>1, <1>2, <1>9, MovesWorks DEF Recheck, Turns
<1>10. CASE HoldsSource(s)
  BY <1>1, <1>3, <1>10, MovesWorks DEF HoldsSource, Turns
<1>11. CASE WriteCopy(s)
  BY <1>1, <1>3, <1>11, MovesWorks DEF WriteCopy, Violation, Turns
<1>12. CASE AppendLineage(s)
  BY <1>1, <1>12, MovesWorks DEF AppendLineage, Turns
<1>13. CASE Book(s)
  BY <1>2, <1>3, <1>13, MovesWorks DEF Book, Turns
<1>14. CASE Create(s)
  BY <1>2, <1>3, <1>14, MovesWorks DEF Create, Violation, Turns
<1>15. CASE Update(s)
  BY <1>1, <1>3, <1>15, MovesWorks DEF Update, Turns
<1>16. CASE Read(s)
  BY <1>2, <1>3, <1>16, MovesWorks DEF Read, Turns
<1>17. CASE Fail(s)
  BY <1>1, <1>3, <1>17, MovesWorks DEF Fail, Turns
<1> QED
  BY <1>4, <1>5, <1>6, <1>7, <1>8, <1>9, <1>10, <1>11, <1>12, <1>13, <1>14, <1>15, <1>16, <1>17 DEF ServerStep

-----------------------------------------------------------------------------
(***************************************************************************)
(* What a server's write makes of a database and of its transaction.       *)
(***************************************************************************)
DataBecomes(d, rows, lineage, jobs) ==
    /\ data' = [x \in Databases |-> data'[x]]
    /\ data'[d] = [rows |-> rows, lineage |-> lineage, jobs |-> jobs]
    /\ \A x \in Databases \ {d} : data'[x] = data[x]

TxBecomes(s, rows, lineage) ==
    /\ tx' = [o \in Servers |-> tx'[o]]
    /\ tx'[s] = [rows |-> rows, lineage |-> lineage]
    /\ \A o \in Servers \ {s} : tx'[o] = tx[o]

LEMMA BookEffect ==
    ASSUME Shapes, NEW s \in Servers, srv[s].db \in Databases, Book(s)
    PROVE  DataBecomes(srv[s].db, Db(s).rows \cup tx[s].rows, Db(s).lineage \cup tx[s].lineage, Db(s).jobs \cup {Key(s)})
PROOF
<1> DEFINE d == srv[s].db
<1>1. PICK m : m = [rows |-> data[d].rows \cup tx[s].rows, lineage |-> data[d].lineage \cup tx[s].lineage,
                    jobs |-> data[d].jobs \cup {Key(s)}]
  OBVIOUS
<1>2. data' = [data EXCEPT ![d] = m]
  BY <1>1 DEF Book
<1>3. data = [x \in Databases |-> data[x]]
  BY DEF Shapes, DataShapes
<1>4. data' = [x \in Databases |-> data'[x]] /\ data'[d] = m /\ \A x \in Databases \ {d} : data'[x] = data[x]
  BY <1>2, <1>3
<1> QED BY <1>1, <1>4 DEF DataBecomes, Db

LEMMA RowsEffect ==
    ASSUME Shapes, NEW d \in Databases, NEW rows, data' = [data EXCEPT ![d].rows = rows]
    PROVE  DataBecomes(d, rows, data[d].lineage, data[d].jobs)
PROOF
<1>1. /\ data = [x \in Databases |-> data[x]]
      /\ data[d] = [rows |-> data[d].rows, lineage |-> data[d].lineage, jobs |-> data[d].jobs]
  BY DEF Shapes, DataShapes
<1> QED BY <1>1 DEF DataBecomes

LEMMA CreateEffect ==
    ASSUME Shapes, NEW s \in Servers, srv[s].db \in Databases, Create(s)
    PROVE  \/ UNCHANGED <<data, committed>> /\ Violation(s, "create", Holders(srv[s].db, Arg(s)))
           \/ /\ Holders(srv[s].db, Arg(s)) = {} /\ UNCHANGED <<tx, locks, refused>>
              /\ committed' = committed \cup {srv[s].call.ticket}
              /\ Answer(s, Ref(s)) \/ Reject(s)
              /\ DataBecomes(srv[s].db, Db(s).rows \cup {NewRow(s, Arg(s))}, Db(s).lineage, Db(s).jobs)
PROOF
<1>1. CASE Holders(srv[s].db, Arg(s)) # {}
  BY <1>1 DEF Create
<1>2. CASE Holders(srv[s].db, Arg(s)) = {}
  <2>1. PICK rows : rows = data[srv[s].db].rows \cup {NewRow(s, Arg(s))}
    OBVIOUS
  <2>2. data' = [data EXCEPT ![srv[s].db].rows = rows]
    BY <1>2, <2>1 DEF Create
  <2>3. DataBecomes(srv[s].db, rows, data[srv[s].db].lineage, data[srv[s].db].jobs)
    BY <2>2, RowsEffect
  <2> QED BY <1>2, <2>1, <2>3 DEF Create, Db
<1> QED BY <1>1, <1>2

\* The rows an update by s leaves.
Updated(s) == (Db(s).rows \ Addressed(s)) \cup {[row EXCEPT !.text = srv[s].call.ticket] : row \in Addressed(s)}

LEMMA UpdateEffect ==
    ASSUME Shapes, NEW s \in Servers, srv[s].db \in Databases, Update(s)
    PROVE  \/ UNCHANGED <<data, committed>> /\ Reject(s)
           \/ /\ committed' = committed \cup {srv[s].call.ticket}
              /\ Step(s, "readbackGrant") /\ UNCHANGED replies
              /\ DataBecomes(srv[s].db, Updated(s), Db(s).lineage, Db(s).jobs)
PROOF
<1>1. CASE Addressed(s) = {}
  BY <1>1 DEF Update
<1>2. CASE Addressed(s) # {}
  <2>1. PICK rows : rows = Updated(s)
    OBVIOUS
  <2>2. data' = [data EXCEPT ![srv[s].db].rows = rows]
    BY <1>2, <2>1 DEF Update, Updated, Db
  <2>3. DataBecomes(srv[s].db, rows, data[srv[s].db].lineage, data[srv[s].db].jobs)
    BY <2>2, RowsEffect
  <2> QED BY <1>2, <2>1, <2>3 DEF Update, Db
<1> QED BY <1>1, <1>2

\* An update keeps the places and the sources of the rows.
LEMMA UpdatedRows ==
    ASSUME Shapes, NEW s \in Servers, srv[s].db \in Databases
    PROVE  /\ \A row \in Updated(s) : /\ row = [id |-> row.id, source |-> row.source, text |-> row.text]
                                      /\ \E old \in Db(s).rows : old.id = row.id /\ old.source = row.source
           /\ \A old \in Db(s).rows : \E row \in Updated(s) : old.id = row.id /\ old.source = row.source
PROOF
<1>1. \A row \in Db(s).rows : row = [id |-> row.id, source |-> row.source, text |-> row.text]
  BY DEF Shapes, DataShapes, Db
<1>2. Addressed(s) \subseteq Db(s).rows
  BY DEF Addressed
<1> DEFINE New(row) == [row EXCEPT !.text = srv[s].call.ticket]
<1>3. ASSUME NEW row \in Addressed(s)
      PROVE  /\ New(row) = [id |-> New(row).id, source |-> New(row).source, text |-> New(row).text]
             /\ New(row).id = row.id /\ New(row).source = row.source
  <2>1. row = [id |-> row.id, source |-> row.source, text |-> row.text]
    BY <1>1, <1>2
  <2> QED BY <2>1
<1> HIDE DEF New
<1>4. Updated(s) = (Db(s).rows \ Addressed(s)) \cup {New(row) : row \in Addressed(s)}
  BY DEF Updated, New
<1> QED BY <1>1, <1>2, <1>3, <1>4

LEMMA EndTxEffect ==
    ASSUME Shapes, NEW s \in Servers, EndTx(s)
    PROVE  /\ TxBecomes(s, {}, {})
           /\ locks' = [d \in Databases |-> locks'[d]]
           /\ \A d \in Databases : locks'[d] = locks[d] \ {s}
PROOF
<1>1. tx = [o \in Servers |-> tx[o]]
  BY DEF Shapes, TxShapes
<1>2. PICK none : none = NoTx
  OBVIOUS
<1>3. tx' = [tx EXCEPT ![s] = none]
  BY <1>2 DEF EndTx
<1>4. tx' = [o \in Servers |-> tx'[o]] /\ tx'[s] = none /\ \A o \in Servers \ {s} : tx'[o] = tx[o]
  BY <1>1, <1>3
<1>5. TxBecomes(s, {}, {})
  BY <1>2, <1>4 DEF TxBecomes, NoTx
<1> QED BY <1>5 DEF EndTx

LEMMA CopyEffect ==
    ASSUME Shapes, NEW s \in Servers, NEW rows, tx' = [tx EXCEPT ![s].rows = rows]
    PROVE  TxBecomes(s, rows, tx[s].lineage)
PROOF
<1>1. tx = [o \in Servers |-> tx[o]] /\ tx[s] = [rows |-> tx[s].rows, lineage |-> tx[s].lineage]
  BY DEF Shapes, TxShapes
<1> QED BY <1>1 DEF TxBecomes

LEMMA AppendEffect ==
    ASSUME Shapes, NEW s \in Servers, NEW lineage, tx' = [tx EXCEPT ![s].lineage = lineage]
    PROVE  TxBecomes(s, tx[s].rows, lineage)
PROOF
<1>1. tx = [o \in Servers |-> tx[o]] /\ tx[s] = [rows |-> tx[s].rows, lineage |-> tx[s].lineage]
  BY DEF Shapes, TxShapes
<1> QED BY <1>1 DEF TxBecomes

-----------------------------------------------------------------------------
(***************************************************************************)
(* The shapes are kept.                                                    *)
(***************************************************************************)
LEMMA RowIs ==
    ASSUME ControlShapes, NEW t \in Tenants, Resolution(t) = "bound"
    PROVE  /\ Len(registry[t]) \in Nat \ {0}
           /\ Row(t) = registry[t][Len(registry[t])] /\ Row(t) \in Descriptors
           /\ Row(t).state = "ACTIVE" /\ DatabaseOf[Row(t).assoc] \in Databases
PROOF
<1>1. registry[t] # <<>>
  <2>1. SUFFICES ASSUME registry[t] = <<>> PROVE FALSE
    OBVIOUS
  <2>2. Row(t) = [state |-> "none"]
    BY <2>1 DEF Row
  <2> HIDE DEF Row
  <2>3. Row(t).state = "none"
    BY <2>2
  <2> QED BY <2>3 DEF Resolution
<1>2. registry[t] \in Seq(Descriptors)
  BY DEF ControlShapes
<1>3. Row(t) = registry[t][Len(registry[t])] /\ Len(registry[t]) \in Nat \ {0}
  BY <1>1, <1>2, EmptySeq DEF Row
<1>4. Row(t) \in Descriptors
  BY <1>2, <1>3, ElementOfSeq
<1>5. Row(t).state = "ACTIVE" /\ DatabaseOf[Row(t).assoc] # NoDatabase
  BY <1>4 DEF Resolution, Descriptors
<1>6. Row(t).assoc \in Assocs
  BY <1>4 DEF Descriptors
<1> QED BY <1>3, <1>4, <1>5, <1>6, PortalAssumption

\* The control plane appends and adds: no descriptor and no membership goes.
RegistryGrows ==
    /\ members \subseteq members'
    /\ \A t \in Tenants :
        /\ Len(registry[t]) \in Nat /\ Len(registry'[t]) \in Nat
        /\ Len(registry[t]) <= Len(registry'[t])
        /\ \A k \in 1..Len(registry[t]) : registry'[t][k] = registry[t][k]

\* Elsewhere, or a step that leaves the services alone.
LEMMA NextFrames ==
    ASSUME Shapes, [Next]_vars
    PROVE  \/ \E e \in Edges : Receive(e) \/ EdgeStep(e)
           \/ \E s \in Servers : ServerStep(s) \/ Fail(s)
           \/ UNCHANGED <<edges, inbox, replies, servers, internals>>
           \/ InternalCreate
PROOF
<1>1. ASSUME NEW t \in Tenants, PutTenant(t) PROVE UNCHANGED <<edges, inbox, replies, servers, internals>>
  BY <1>1 DEF PutTenant
<1>2. ASSUME PutMembership PROVE UNCHANGED <<edges, inbox, replies, servers, internals>>
  BY <1>2 DEF PutMembership
<1>3. ASSUME UNCHANGED vars PROVE UNCHANGED <<edges, inbox, replies, servers, internals>>
  BY <1>3 DEF vars, edges, servers
<1> QED BY <1>1, <1>2, <1>3 DEF Next

LEMMA ControlFrame ==
    ASSUME Shapes, [Next]_vars
    PROVE  \/ UNCHANGED ctrl
           \/ \E t \in Tenants : PutTenant(t)
           \/ PutMembership
PROOF
<1>1. \A e \in Edges : EdgeStep(e) => UNCHANGED ctrl
  BY EdgeStepWorks DEF EdgeWorks
<1>2. \A e \in Edges : Receive(e) => UNCHANGED ctrl
  BY DEF Receive
<1>3. \A s \in Servers : ServerStep(s) \/ Fail(s) => UNCHANGED ctrl
  BY ServerStepWorks DEF Works, Accept, Elsewhere
<1>4. InternalCreate => UNCHANGED ctrl
  BY DEF InternalCreate
<1>5. UNCHANGED vars => UNCHANGED ctrl
  BY DEF vars, ctrl
<1> QED BY <1>1, <1>2, <1>3, <1>4, <1>5 DEF Next

LEMMA ControlKept ==
    ASSUME Shapes, [Next]_vars
    PROVE  RegistryGrows /\ registry' \in [Tenants -> Seq(Descriptors)] /\ members' \subseteq Principals \X Tenants
PROOF
<1>1. /\ registry \in [Tenants -> Seq(Descriptors)] /\ members \subseteq Principals \X Tenants
      /\ \A t \in Tenants : Len(registry[t]) \in Nat
  BY DEF Shapes, ControlShapes
<1>2. CASE UNCHANGED ctrl
  BY <1>1, <1>2 DEF ctrl, RegistryGrows
<1>3. ASSUME NEW t \in Tenants, PutTenant(t)
      PROVE  RegistryGrows /\ registry' \in [Tenants -> Seq(Descriptors)] /\ members' \subseteq Principals \X Tenants
  <2>1. PICK d \in Puts[t] : registry' = [registry EXCEPT ![t] = Append(@, d)]
    BY <1>3 DEF PutTenant
  <2>2. d \in Descriptors /\ members' = members
    BY <1>3, <2>1, PortalAssumption DEF PutTenant
  <2>3. /\ Append(registry[t], d) \in Seq(Descriptors)
        /\ Len(Append(registry[t], d)) = Len(registry[t]) + 1
        /\ \A k \in 1..Len(registry[t]) : Append(registry[t], d)[k] = registry[t][k]
    BY <1>1, <2>2, AppendProperties
  <2>4. registry'[t] = Append(registry[t], d) /\ \A u \in Tenants \ {t} : registry'[u] = registry[u]
    BY <1>1, <2>1
  <2>5. registry' \in [Tenants -> Seq(Descriptors)]
    BY <1>1, <2>1, <2>3
  <2>6. \A u \in Tenants : /\ Len(registry'[u]) \in Nat /\ Len(registry[u]) <= Len(registry'[u])
                           /\ \A k \in 1..Len(registry[u]) : registry'[u][k] = registry[u][k]
    BY <1>1, <2>3, <2>4
  <2> QED BY <1>1, <2>2, <2>5, <2>6 DEF RegistryGrows
<1>4. CASE PutMembership
  <2>1. registry' = registry /\ members \subseteq members' /\ members' \subseteq members \cup Joiners
    BY <1>4 DEF PutMembership
  <2> QED BY <1>1, <2>1, PortalAssumption DEF RegistryGrows
<1> QED BY <1>2, <1>3, <1>4, ControlFrame

\* s takes the call up, and is at pc with it.
Takes(s, call, pc) ==
    /\ inbox' = inbox \ {call}
    /\ pc = IF Admissible(call) THEN Entry[call.op] ELSE "refuse"
    /\ srv' = [o \in Servers |-> srv'[o]]
    /\ srv'[s] = [pc |-> pc, call |-> call, since |-> Len(registry[call.tenant]), rev |-> srv[s].rev, db |-> srv[s].db]
    /\ \A o \in Servers \ {s} : srv'[o] = srv[o]

LEMMA AcceptEffect ==
    ASSUME Shapes, NEW s \in Servers, Accept(s)
    PROVE  /\ srv[s].pc = "idle" /\ Elsewhere
           /\ UNCHANGED <<replies, data, tx, locks, committed, refused>>
           /\ \E call \in inbox : \E pc : Takes(s, call, pc)
PROOF
<1>1. PICK call \in inbox :
        /\ inbox' = inbox \ {call}
        /\ srv' = [srv EXCEPT ![s] = [@ EXCEPT !.pc = IF Admissible(call) THEN Entry[call.op] ELSE "refuse",
                                               !.call = call, !.since = Len(registry[call.tenant])]]
  BY DEF Accept
<1>2. PICK pc, since : /\ pc = IF Admissible(call) THEN Entry[call.op] ELSE "refuse"
                       /\ since = Len(registry[call.tenant])
  OBVIOUS
<1>3. /\ srv = [o \in Servers |-> srv[o]]
      /\ srv[s] = [pc |-> srv[s].pc, call |-> srv[s].call, since |-> srv[s].since, rev |-> srv[s].rev, db |-> srv[s].db]
  BY DEF Shapes, ServerShapes
<1> DEFINE x == [srv[s] EXCEPT !.pc = pc]
           y == [x EXCEPT !.call = call]
           z == [y EXCEPT !.since = since]
<1>4. srv' = [srv EXCEPT ![s] = z]
  BY <1>1, <1>2
<1>5. x = [pc |-> pc, call |-> srv[s].call, since |-> srv[s].since, rev |-> srv[s].rev, db |-> srv[s].db]
  BY <1>3
<1> HIDE DEF x
<1>6. y = [pc |-> pc, call |-> call, since |-> srv[s].since, rev |-> srv[s].rev, db |-> srv[s].db]
  BY <1>5
<1> HIDE DEF y
<1>7. z = [pc |-> pc, call |-> call, since |-> since, rev |-> srv[s].rev, db |-> srv[s].db]
  BY <1>6
<1> HIDE DEF z
<1>8. /\ srv' = [o \in Servers |-> srv'[o]] /\ srv'[s] = z
      /\ \A o \in Servers \ {s} : srv'[o] = srv[o]
  BY <1>3, <1>4
<1>9. Takes(s, call, pc)
  BY <1>1, <1>2, <1>7, <1>8 DEF Takes
<1> QED BY <1>9 DEF Accept

LEMMA EdgeShapesKept == Shapes /\ [Next]_vars => EdgeShapes'
PROOF
<1> SUFFICES ASSUME Shapes, [Next]_vars PROVE EdgeShapes'
  OBVIOUS
<1> USE DEF Shapes, EdgeShapes
<1>1. ASSUME NEW e \in Edges, Receive(e) PROVE EdgeShapes'
  <2>1. PICK req \in Menu[e] : edge' = [edge EXCEPT ![e] = [pc |-> "establish", n |-> edge[e].n + 1, req |-> req]]
    BY <1>1 DEF Receive
  <2> QED BY <2>1 DEF EdgePcs
<1>2. ASSUME NEW e \in Edges, EdgeStep(e) PROVE EdgeShapes'
  <2>1. EdgeMoves(e, edge'[e].pc) /\ edge'[e].pc \in EdgePcs
    BY <1>2, EdgeStepWorks DEF EdgeWorks, EdgeTurns, EdgePcs
  <2> QED BY <2>1 DEF EdgeMoves
<1>3. ASSUME NEW s \in Servers, ServerStep(s) \/ Fail(s) PROVE UNCHANGED edge
  BY <1>3, ServerStepWorks DEF Works, Accept, Elsewhere, edges
<1>4. CASE UNCHANGED edges
  BY <1>4 DEF edges
<1>5. CASE InternalCreate
  BY <1>5 DEF InternalCreate, edges
<1> QED BY <1>1, <1>2, <1>3, <1>4, <1>5, NextFrames

LEMMA ServerShapesKept == Shapes /\ CallsInv /\ [Next]_vars => ServerShapes'
PROOF
<1> SUFFICES ASSUME Shapes, CallsInv, [Next]_vars PROVE ServerShapes'
  OBVIOUS
<1> USE DEF Shapes, ServerShapes
<1>1. CASE UNCHANGED srv
  BY <1>1
<1>2. ASSUME NEW e \in Edges, Receive(e) \/ EdgeStep(e) PROVE UNCHANGED srv
  BY <1>2, EdgeStepWorks DEF Receive, EdgeWorks, servers
<1>3. ASSUME NEW s \in Servers, Works(s) PROVE ServerShapes'
  <2>1. srv'[s].pc \in ServerPcs
    BY <1>3 DEF Works, Turns, ServerPcs, ImportPcs, ImportTx
  <2> QED BY <1>3, <2>1 DEF Works
<1>4. ASSUME NEW s \in Servers, Accept(s) PROVE ServerShapes'
  <2>0. PICK call \in inbox : \E pc : Takes(s, call, pc)
    BY <1>4, AcceptEffect
  <2>1. PICK pc : Takes(s, call, pc)
    BY <2>0
  <2>2. call.op \in TenantOps
    BY DEF CallsInv, CallOk
  <2>3. pc \in ServerPcs
    BY <2>1, <2>2 DEF Takes, TenantOps, Entry, ServerPcs, ImportPcs
  <2> QED BY <2>1, <2>3 DEF Takes
<1>5. CASE UNCHANGED servers
  BY <1>1, <1>5 DEF servers
<1>6. CASE InternalCreate
  BY <1>1, <1>6 DEF InternalCreate, servers
<1> QED BY <1>1, <1>2, <1>3, <1>4, <1>5, <1>6, NextFrames, ServerStepWorks

\* Only these three write a database.
LEMMA WritersOnly ==
    ASSUME Shapes, [Next]_vars, data' # data \/ committed' # committed
    PROVE  \E s \in Servers : Book(s) \/ Create(s) \/ Update(s)
PROOF
<1>1. ASSUME NEW e \in Edges, Receive(e) \/ EdgeStep(e) PROVE UNCHANGED <<data, committed>>
  BY <1>1, EdgeStepWorks DEF Receive, EdgeWorks, servers
<1>2. CASE UNCHANGED servers
  BY <1>2 DEF servers
<1>3. CASE InternalCreate
  BY <1>3 DEF InternalCreate, servers
<1>4. ASSUME NEW s \in Servers, ServerStep(s) \/ Fail(s), ~Book(s), ~Create(s), ~Update(s)
      PROVE  UNCHANGED <<data, committed>>
  BY <1>4 DEF ServerStep, Accept, Refuse, Grant, Find, ReadDirectory, Lock, Recheck, HoldsSource, WriteCopy,
     AppendLineage, Read, Fail
<1> QED BY <1>1, <1>2, <1>3, <1>4, NextFrames

\* Where a server is when it writes, its grant names a database.
LEMMA WritersAreBound ==
    ASSUME Shapes, GrantInv, NEW s \in Servers, Book(s) \/ Create(s) \/ Update(s)
    PROVE  s \in Busy /\ srv[s].pc \in Bound /\ srv[s].db \in Databases
PROOF
<1>1. srv[s].pc \in {"book", "create", "update"}
  BY DEF Book, Create, Update
<1> QED BY <1>1 DEF Busy, Bound, ImportTx, GrantInv, Held

LEMMA DataShapesKept == Shapes /\ GrantInv /\ TxInv /\ [Next]_vars => DataShapes'
PROOF
<1> SUFFICES ASSUME Shapes, GrantInv, TxInv, [Next]_vars PROVE DataShapes'
  OBVIOUS
<1>0. ASSUME NEW d \in Databases, NEW rows, NEW lineage, NEW jobs, DataBecomes(d, rows, lineage, jobs),
             \A row \in rows : row = [id |-> row.id, source |-> row.source, text |-> row.text]
      PROVE  DataShapes'
  <2>1. ASSUME NEW x \in Databases
        PROVE  /\ data'[x] = [rows |-> data'[x].rows, lineage |-> data'[x].lineage, jobs |-> data'[x].jobs]
               /\ \A row \in data'[x].rows : row = [id |-> row.id, source |-> row.source, text |-> row.text]
    <3>1. CASE x = d
      BY <1>0, <3>1 DEF DataBecomes
    <3>2. CASE x # d
      BY <1>0, <3>2 DEF DataBecomes, Shapes, DataShapes
    <3> QED BY <3>1, <3>2
  <2> QED BY <1>0, <2>1 DEF DataBecomes, DataShapes
<1>1. ASSUME NEW s \in Servers, NEW source, NEW row \in {NewRow(s, source)}
      PROVE  row = [id |-> row.id, source |-> row.source, text |-> row.text]
  BY DEF NewRow
<1>2. \A d \in Databases : \A row \in data[d].rows : row = [id |-> row.id, source |-> row.source, text |-> row.text]
  BY DEF Shapes, DataShapes
<1>3. CASE data' = data
  BY <1>3 DEF Shapes, DataShapes
<1>4. ASSUME NEW s \in Servers, Book(s) PROVE DataShapes'
  <2>1. srv[s].db \in Databases /\ tx[s].rows = {NewRow(s, Arg(s))}
    BY <1>4, WritersAreBound DEF Book, TxInv, TxOk
  <2>2. \A row \in Db(s).rows \cup tx[s].rows : row = [id |-> row.id, source |-> row.source, text |-> row.text]
    BY <1>1, <1>2, <2>1 DEF Db
  <2>3. PICK rows, lineage, jobs :
          /\ DataBecomes(srv[s].db, rows, lineage, jobs)
          /\ rows = Db(s).rows \cup tx[s].rows
    BY <1>4, <2>1, BookEffect
  <2> QED BY <1>0, <2>1, <2>2, <2>3
<1>5. ASSUME NEW s \in Servers, Create(s) PROVE DataShapes'
  <2>1. srv[s].db \in Databases
    BY <1>5, WritersAreBound
  <2>2. \A row \in Db(s).rows \cup {NewRow(s, Arg(s))} : row = [id |-> row.id, source |-> row.source, text |-> row.text]
    BY <1>1, <1>2, <2>1 DEF Db
  <2>3. data' = data \/ \E rows, lineage, jobs :
          /\ DataBecomes(srv[s].db, rows, lineage, jobs)
          /\ rows = Db(s).rows \cup {NewRow(s, Arg(s))}
    BY <1>5, <2>1, CreateEffect
  <2> QED BY <1>0, <1>3, <2>1, <2>2, <2>3
<1>6. ASSUME NEW s \in Servers, Update(s) PROVE DataShapes'
  <2>1. srv[s].db \in Databases
    BY <1>6, WritersAreBound
  <2> QED BY <1>0, <1>3, <1>6, <2>1, UpdateEffect, UpdatedRows
<1> QED BY <1>3, <1>4, <1>5, <1>6, WritersOnly

\* What becomes of the transactions and the locks in a server's step.
LEMMA TxSteps ==
    ASSUME Shapes, NEW s \in Servers, ServerStep(s) \/ Fail(s)
    PROVE  /\ tx' = tx \/ \E rows, lineage : TxBecomes(s, rows, lineage)
           /\ locks' = locks \/ EndTx(s) \/ Lock(s)
PROOF
<1>1. EndTx(s) => \E rows, lineage : TxBecomes(s, rows, lineage)
  BY EndTxEffect
<1>2. CASE Accept(s) \/ Refuse(s) \/ Grant(s) \/ Find(s) \/ ReadDirectory(s) \/ Update(s) \/ Read(s)
  BY <1>2 DEF Accept, Refuse, Grant, Find, ReadDirectory, Update, Read
<1>3. CASE Recheck(s) \/ HoldsSource(s) \/ Book(s) \/ Create(s) \/ Fail(s)
  BY <1>1, <1>3 DEF Recheck, HoldsSource, Book, Create, Violation, Fail
<1>4. CASE Lock(s)
  BY <1>4 DEF Lock
<1>5. CASE WriteCopy(s)
  <2>1. CASE Holders(srv[s].db, Arg(s)) = {}
    <3>1. PICK rows : rows = {NewRow(s, Arg(s))}
      OBVIOUS
    <3>2. tx' = [tx EXCEPT ![s].rows = rows] /\ UNCHANGED locks
      BY <1>5, <2>1, <3>1 DEF WriteCopy
    <3> QED BY <3>2, CopyEffect
  <2>2. CASE Holders(srv[s].db, Arg(s)) # {}
    BY <1>1, <1>5, <2>2 DEF WriteCopy, Violation
  <2> QED BY <2>1, <2>2
<1>6. CASE AppendLineage(s)
  <2>1. PICK lineage : lineage = {NextRow(ChainHead(Db(s).lineage), Event(s))}
    OBVIOUS
  <2>2. tx' = [tx EXCEPT ![s].lineage = lineage] /\ UNCHANGED locks
    BY <1>6, <2>1 DEF AppendLineage
  <2> QED BY <2>2, AppendEffect
<1> QED BY <1>2, <1>3, <1>4, <1>5, <1>6 DEF ServerStep

LEMMA TxShapesKept == Shapes /\ [Next]_vars => TxShapes'
PROOF
<1> SUFFICES ASSUME Shapes, [Next]_vars PROVE TxShapes'
  OBVIOUS
<1>1. CASE UNCHANGED <<tx, locks>>
  BY <1>1 DEF Shapes, TxShapes
<1>2. ASSUME NEW s \in Servers, ServerStep(s) \/ Fail(s) PROVE TxShapes'
  <2>1. tx' = [o \in Servers |-> tx'[o]] /\ \A o \in Servers : tx'[o] = [rows |-> tx'[o].rows, lineage |-> tx'[o].lineage]
    <3>1. CASE tx' = tx
      BY <3>1 DEF Shapes, TxShapes
    <3>2. ASSUME NEW rows, NEW lineage, TxBecomes(s, rows, lineage), NEW o \in Servers
          PROVE  tx'[o] = [rows |-> tx'[o].rows, lineage |-> tx'[o].lineage]
      <4>1. CASE o = s
        BY <3>2, <4>1 DEF TxBecomes
      <4>2. CASE o # s
        BY <3>2, <4>2 DEF TxBecomes, Shapes, TxShapes
      <4> QED BY <4>1, <4>2
    <3>3. (\E rows, lineage : TxBecomes(s, rows, lineage)) => tx' = [o \in Servers |-> tx'[o]]
      BY DEF TxBecomes
    <3> QED BY <1>2, <3>1, <3>2, <3>3, TxSteps
  <2>2. locks' = [d \in Databases |-> locks'[d]]
    <3>1. EndTx(s) => locks' = [d \in Databases |-> locks'[d]]
      BY EndTxEffect
    <3>2. Lock(s) => locks' = [d \in Databases |-> locks'[d]]
      BY DEF Lock, Shapes, TxShapes
    <3> QED BY <1>2, <3>1, <3>2, TxSteps DEF Shapes, TxShapes
  <2> QED BY <2>1, <2>2 DEF TxShapes
<1>3. ASSUME NEW e \in Edges, Receive(e) \/ EdgeStep(e) PROVE UNCHANGED <<tx, locks>>
  BY <1>3, EdgeStepWorks DEF Receive, EdgeWorks, servers
<1>4. CASE UNCHANGED servers
  BY <1>1, <1>4 DEF servers
<1>5. CASE InternalCreate
  BY <1>1, <1>5 DEF InternalCreate, servers
<1> QED BY <1>1, <1>2, <1>3, <1>4, <1>5, NextFrames

LEMMA ShapesKept == Shapes /\ CallsInv /\ GrantInv /\ TxInv /\ [Next]_vars => Shapes'
PROOF
<1> SUFFICES ASSUME Shapes, CallsInv, GrantInv, TxInv, [Next]_vars PROVE Shapes'
  OBVIOUS
<1>1. internals' \in Nat
  <2>1. \A e \in Edges : Receive(e) \/ EdgeStep(e) => UNCHANGED internals
    BY EdgeStepWorks DEF Receive, EdgeWorks
  <2>2. \A s \in Servers : ServerStep(s) \/ Fail(s) => UNCHANGED internals
    BY ServerStepWorks DEF Works, Accept, Elsewhere
  <2>3. InternalCreate => internals' = internals + 1
    BY DEF InternalCreate
  <2> QED BY <2>1, <2>2, <2>3, NextFrames DEF Shapes, ControlShapes
<1>2. ControlShapes'
  BY <1>1, ControlKept DEF ControlShapes
<1> QED BY <1>2, EdgeShapesKept, ServerShapesKept, DataShapesKept, TxShapesKept DEF Shapes

-----------------------------------------------------------------------------
(***************************************************************************)
(* The requests and the calls.                                             *)
(***************************************************************************)
LEMMA EdgeKept == Shapes /\ EdgeInv /\ [Next]_vars => EdgeInv'
PROOF
<1> SUFFICES ASSUME Shapes, EdgeInv, [Next]_vars PROVE EdgeInv'
  OBVIOUS
<1>0. members \subseteq members'
  BY ControlKept DEF RegistryGrows
<1>1. CASE edge' = edge
  BY <1>0, <1>1 DEF EdgeInv
<1>2. ASSUME NEW e \in Edges, Receive(e) PROVE EdgeInv'
  <2>1. PICK req \in Menu[e] : edge' = [edge EXCEPT ![e] = [pc |-> "establish", n |-> edge[e].n + 1, req |-> req]]
    BY <1>2 DEF Receive
  <2>2. edge = [f \in Edges |-> edge[f]] /\ edge[e].n + 1 # 0
    BY DEF Shapes, EdgeShapes
  <2>3. edge'[e].pc = "establish" /\ edge'[e].n # 0 /\ edge'[e].req = req /\ \A f \in Edges \ {e} : edge'[f] = edge[f]
    BY <2>1, <2>2
  <2> QED BY <1>0, <2>3 DEF EdgeInv
<1>3. ASSUME NEW e \in Edges, EdgeStep(e) PROVE EdgeInv'
  <2>1. /\ EdgeMoves(e, edge'[e].pc) /\ <<edge[e].pc, edge'[e].pc>> \in EdgeTurns
    BY <1>3, EdgeStepWorks DEF EdgeWorks
  <2>2. edge'[e].n = edge[e].n /\ edge'[e].req = edge[e].req /\ \A f \in Edges \ {e} : edge'[f] = edge[f]
    BY <2>1 DEF EdgeMoves
  <2>3. edge'[e].pc # "idle" => edge[e].pc # "idle"
    BY <2>1 DEF EdgeTurns, EdgePcs
  <2>4. edge'[e].pc = "wait" => edge[e].pc = "route"
    BY <2>1 DEF EdgeTurns, EdgePcs
  <2>5. ASSUME edge'[e].pc \in {"route", "control"}
        PROVE  /\ Allowed(edge[e].req)
               /\ edge'[e].pc = "route" <=> edge[e].req.op \in TenantOps
    <3>1. edge[e].pc = "authorize"
      BY <2>1, <2>5 DEF EdgeTurns, EdgePcs
    <3>2. Authorize(e)
      BY <1>3, <3>1 DEF EdgeStep, Establish, ControlRead, Route, TakeReply, GiveUp
    <3>0. \A pc : Goto(e, pc) => edge'[e].pc = pc
      <4>1. \A pc : EdgeMoves(e, pc) => edge'[e].pc = pc
        BY DEF EdgeMoves
      <4> QED BY <4>1, GotoMoves
    <3>3. Deny(e) => edge'[e].pc = "idle"
      BY <3>0 DEF Deny
    <3>4. Allowed(edge[e].req) /\ Goto(e, IF edge[e].req.op \in TenantOps THEN "route" ELSE "control")
      BY <2>5, <3>2, <3>3 DEF Authorize
    <3>5. edge'[e].pc = IF edge[e].req.op \in TenantOps THEN "route" ELSE "control"
      BY <3>0, <3>4
    <3> QED BY <3>4, <3>5
  <2>6. edge'[e].pc = "control" => edge'[e].req.op \notin TenantOps
    BY <2>2, <2>5
  <2>7. edge'[e].pc \in {"route", "wait"} =>
            /\ edge'[e].req.op \in TenantOps
            /\ <<edge'[e].req.token.principal, edge'[e].req.token.tenant>> \in members'
    BY <1>0, <2>2, <2>4, <2>5 DEF EdgeInv, Allowed
  <2> QED BY <1>0, <2>2, <2>3, <2>6, <2>7 DEF EdgeInv
<1>4. ASSUME NEW s \in Servers, ServerStep(s) \/ Fail(s) PROVE edge' = edge
  BY <1>4, ServerStepWorks DEF Works, Accept, Elsewhere, edges
<1>5. CASE UNCHANGED edges
  BY <1>1, <1>5 DEF edges
<1>6. CASE InternalCreate
  BY <1>1, <1>6 DEF InternalCreate, edges
<1> QED BY <1>1, <1>2, <1>3, <1>4, <1>5, <1>6, NextFrames

\* What was sent stays sent, and a request on its way to the router has not been sent.
LEMMA SentStays ==
    ASSUME Shapes, [Next]_vars, NEW ticket, Sent(ticket)
    PROVE  Sent(ticket)'
PROOF
<1>1. CASE UNCHANGED <<edge, internals>>
  BY <1>1 DEF Sent
<1>2. ASSUME NEW e \in Edges, Receive(e) PROVE Sent(ticket)'
  <2>1. PICK req \in Menu[e] : edge' = [edge EXCEPT ![e] = [pc |-> "establish", n |-> edge[e].n + 1, req |-> req]]
    BY <1>2 DEF Receive
  <2>2. edge = [f \in Edges |-> edge[f]] /\ edge[e].n \in Nat
    BY DEF Shapes, EdgeShapes
  <2>3. edge'[e].n = edge[e].n + 1 /\ \A f \in Edges \ {e} : edge'[f] = edge[f]
    BY <2>1, <2>2
  <2>4. internals' = internals
    BY <1>2 DEF Receive
  <2> QED BY <2>2, <2>3, <2>4 DEF Sent
<1>3. ASSUME NEW e \in Edges, EdgeStep(e) PROVE Sent(ticket)'
  <2>1. /\ EdgeMoves(e, edge'[e].pc) /\ <<edge[e].pc, edge'[e].pc>> \in EdgeTurns /\ internals' = internals
    BY <1>3, EdgeStepWorks DEF EdgeWorks
  <2>2. edge'[e].n = edge[e].n /\ \A f \in Edges \ {e} : edge'[f] = edge[f]
    BY <2>1 DEF EdgeMoves
  <2>3. edge[e].pc \in {"wait", "idle"} => edge'[e].pc \in {"wait", "idle"}
    BY <2>1 DEF EdgeTurns, EdgePcs
  <2> QED BY <2>1, <2>2, <2>3 DEF Sent
<1>4. ASSUME NEW s \in Servers, ServerStep(s) \/ Fail(s) PROVE UNCHANGED <<edge, internals>>
  BY <1>4, ServerStepWorks DEF Works, Accept, Elsewhere, edges
<1>5. CASE UNCHANGED <<edges, internals>>
  BY <1>1, <1>5 DEF edges
<1>6. CASE InternalCreate
  <2>1. edge' = edge /\ internals' = internals + 1 /\ internals \in Nat
    BY <1>6 DEF InternalCreate, edges, Shapes, ControlShapes
  <2> QED BY <2>1 DEF Sent
<1> QED BY <1>1, <1>2, <1>3, <1>4, <1>5, <1>6, NextFrames

LEMMA NotSentYet ==
    ASSUME Shapes
    PROVE  /\ \A e \in Edges : edge[e].pc = "route" => ~Sent(Ticket(e))
           /\ ~Sent(<<"internal", internals + 1>>)
PROOF
<1>1. ASSUME NEW e \in Edges, edge[e].pc = "route", Sent(Ticket(e)) PROVE FALSE
  <2>1. Ticket(e)[1] = e /\ Ticket(e)[2] = edge[e].n
    BY DEF Ticket
  <2> QED BY <1>1, <2>1, PortalAssumption DEF Sent
<1>2. ASSUME Sent(<<"internal", internals + 1>>) PROVE FALSE
  <2>1. internals \in Nat
    BY DEF Shapes, ControlShapes
  <2> QED BY <1>2, <2>1, PortalAssumption DEF Sent
<1> QED BY <1>1, <1>2

LEMMA CallOkStays ==
    ASSUME Shapes, [Next]_vars, NEW c, CallOk(c)
    PROVE  CallOk(c)'
PROOF
<1>1. members \subseteq members'
  BY ControlKept DEF RegistryGrows
<1>2. Sent(c.ticket)'
  BY SentStays DEF CallOk
<1> QED BY <1>1, <1>2 DEF CallOk

LEMMA NewCall ==
    ASSUME Shapes, EdgeInv, [Next]_vars, NEW e \in Edges, edge[e].pc = "route", EdgeMoves(e, "wait")
    PROVE  (\A c : c = Call(e) => CallOk(c)') /\ Call(e)' = Call(e) /\ Call(e).ticket = Ticket(e)
PROOF
<1>1. edge'[e].n = edge[e].n /\ edge'[e].req = edge[e].req /\ edge'[e].pc = "wait"
  BY DEF EdgeMoves
<1>2. Call(e)' = Call(e)
  BY <1>1 DEF Call, Ticket
<1>3. /\ edge[e].n \in Nat \ {0} /\ edge[e].req \in Menu[e] /\ edge[e].req.op \in TenantOps
      /\ <<edge[e].req.token.principal, edge[e].req.token.tenant>> \in members
  BY DEF EdgeInv, Shapes, EdgeShapes
<1>4. /\ Call(e).ticket = Ticket(e) /\ Call(e).op = edge[e].req.op /\ Call(e).tenant = edge[e].req.token.tenant
      /\ Call(e).arg = edge[e].req.arg /\ Call(e).actor = edge[e].req.token.principal
  BY DEF Call
<1>5. edge[e].req.token.tenant \in Tenants
  BY <1>3 DEF Shapes, ControlShapes
<1>6. <<edge[e].req.token.principal, edge[e].req.token.tenant>> \in members'
  BY <1>3, ControlKept DEF RegistryGrows
<1>7. edge[e].req.op = "create" => edge[e].req.arg = NoSource
  BY <1>3, PortalAssumption
<1>8. Sent(Ticket(e))'
  <2>1. Ticket(e)[1] = e /\ Ticket(e)[2] = edge[e].n
    BY DEF Ticket
  <2>2. Ticket(e)' = Ticket(e)
    BY <1>1 DEF Ticket
  <2>3. edge'[e].n \in 1..edge'[e].n
    BY <1>1, <1>3
  <2> QED BY <1>1, <2>1, <2>2, <2>3 DEF Sent
<1>9. \A c : c = Call(e) => CallOk(c)'
  <2> SUFFICES ASSUME NEW c, c = Call(e) PROVE CallOk(c)'
    OBVIOUS
  <2>1. /\ c.ticket = Ticket(e) /\ c.op \in TenantOps /\ c.tenant \in Tenants
        /\ c.op = "create" => c.arg = NoSource
        /\ <<c.actor, c.tenant>> \in members'
    BY <1>3, <1>4, <1>5, <1>6, <1>7
  <2>2. Sent(c.ticket)'
    BY <1>1, <1>8, <2>1 DEF Ticket
  <2> QED BY <2>1, <2>2 DEF CallOk
<1> QED BY <1>2, <1>4, <1>9

\* The calls under way are one each of a ticket, wherever they are.
LEMMA CallsKept == Shapes /\ EdgeInv /\ CallsInv /\ [Next]_vars => CallsInv'
PROOF
<1> SUFFICES ASSUME Shapes, EdgeInv, CallsInv, [Next]_vars PROVE CallsInv'
  OBVIOUS
<1> USE DEF CallsInv
<1>0. /\ \A c \in inbox : CallOk(c)'
      /\ \A s \in Busy : \A c : c = srv[s].call => CallOk(c)'
      /\ \A c \in inbox : Sent(c.ticket)
      /\ \A s \in Busy : Sent(srv[s].call.ticket)
  <2>1. \A c : CallOk(c) => CallOk(c)' /\ Sent(c.ticket)
    BY CallOkStays DEF CallOk
  <2> QED BY <2>1
<1>1. CASE UNCHANGED <<edge, inbox, srv>>
  BY <1>0, <1>1 DEF Busy, Call, Ticket
<1>2. ASSUME NEW e \in Edges, UNCHANGED <<inbox, srv>>, edge'[e].pc # "wait",
             \A f \in Edges \ {e} : edge'[f] = edge[f]
      PROVE  CallsInv'
  <2>1. ASSUME NEW f \in Edges, edge'[f].pc = "wait" PROVE edge'[f] = edge[f] /\ Ticket(f)' = Ticket(f) /\ Call(f)' = Call(f)
    BY <1>2, <2>1 DEF Ticket, Call
  <2> QED BY <1>0, <1>2, <2>1 DEF Busy
<1>3. ASSUME NEW e \in Edges, Receive(e) PROVE CallsInv'
  <2>1. PICK req \in Menu[e] : edge' = [edge EXCEPT ![e] = [pc |-> "establish", n |-> edge[e].n + 1, req |-> req]]
    BY <1>3 DEF Receive
  <2>2. edge'[e].pc = "establish" /\ \A f \in Edges \ {e} : edge'[f] = edge[f]
    BY <2>1 DEF Shapes, EdgeShapes
  <2> QED BY <1>2, <1>3, <2>2 DEF Receive, servers
<1>4. ASSUME NEW e \in Edges, EdgeStep(e) PROVE CallsInv'
  <2>1. EdgeWorks(e)
    BY <1>4, EdgeStepWorks
  <2>2. UNCHANGED srv /\ \A f \in Edges \ {e} : edge'[f] = edge[f]
    BY <2>1 DEF EdgeWorks, EdgeMoves, servers
  <2>3. CASE inbox' = inbox /\ edge'[e].pc # "wait"
    BY <1>2, <2>2, <2>3
  <2>4. CASE inbox' = inbox \cup {Call(e)} /\ edge'[e].pc = "wait"
    <3>1. edge[e].pc = "route" /\ EdgeMoves(e, "wait")
      BY <2>1, <2>4 DEF EdgeWorks, EdgeTurns, EdgePcs
    <3>2. (\A c : c = Call(e) => CallOk(c)') /\ Call(e)' = Call(e) /\ Call(e).ticket = Ticket(e)
      BY <3>1, NewCall
    <3>3. ~Sent(Ticket(e)) /\ Ticket(e)' = Ticket(e)
      BY <3>1, NotSentYet DEF EdgeMoves, Ticket
    <3>4. /\ \A c \in inbox : c.ticket # Ticket(e)
          /\ \A s \in Busy : srv[s].call.ticket # Ticket(e)
      BY <1>0, <3>3
    <3>5. ASSUME NEW f \in Edges \ {e} PROVE edge'[f] = edge[f] /\ Ticket(f)' = Ticket(f) /\ Call(f)' = Call(f) /\ Ticket(f) # Ticket(e)
      BY <2>2 DEF Ticket, Call
    <3>6. Busy' = Busy
      BY <2>2 DEF Busy
    <3>7. \A c \in inbox' : CallOk(c)'
      BY <1>0, <2>4, <3>2
    <3>8. \A c, b \in inbox' : c.ticket = b.ticket => c = b
      BY <2>4, <3>2, <3>4
    <3>9. \A s \in Busy : \A c \in inbox' : srv[s].call.ticket # c.ticket
      BY <2>4, <3>2, <3>4
    <3>10. ASSUME NEW f \in Edges, edge'[f].pc = "wait"
           PROVE  /\ \A c \in inbox' : c.ticket = Ticket(f)' => c = Call(f)'
                  /\ \A s \in Busy : srv[s].call.ticket = Ticket(f)' => srv[s].call = Call(f)'
      <4>1. CASE f = e
        BY <2>4, <3>2, <3>3, <3>4, <4>1
      <4>2. CASE f # e
        BY <2>4, <3>2, <3>5, <3>10, <4>2
      <4> QED BY <4>1, <4>2
    <3> QED BY <1>0, <2>2, <3>6, <3>7, <3>8, <3>9, <3>10
  <2> QED BY <2>1, <2>3, <2>4 DEF EdgeWorks
<1>5. ASSUME UNCHANGED edge
      PROVE  \A f \in Edges : edge'[f] = edge[f] /\ Ticket(f)' = Ticket(f) /\ Call(f)' = Call(f)
  BY <1>5 DEF Ticket, Call
<1>6. ASSUME NEW s \in Servers, Works(s) PROVE CallsInv'
  <2>1. /\ UNCHANGED <<edge, inbox>> /\ srv'[s].call = srv[s].call /\ s \in Busy
        /\ \A o \in Servers \ {s} : srv'[o] = srv[o]
    BY <1>6 DEF Works, Elsewhere, edges
  <2>2. Busy' \subseteq Busy /\ \A o \in Busy : srv'[o].call = srv[o].call
    BY <2>1 DEF Busy
  <2>3. srv'[s].pc # "idle" => OpAt(srv[s].pc) \subseteq OpAt(srv'[s].pc)
    BY <1>6 DEF Works, Turns, OpAt, ImportPcs, ImportTx
  <2>4. \A o \in Busy' : srv'[o].call.op \in OpAt(srv'[o].pc)
    BY <2>1, <2>2, <2>3 DEF Busy
  <2> QED BY <1>0, <1>5, <2>1, <2>2, <2>4
<1>7. ASSUME NEW s \in Servers, Accept(s) PROVE CallsInv'
  <2>0. PICK call \in inbox : \E pc : Takes(s, call, pc)
    BY <1>7, AcceptEffect
  <2>1. PICK pc : Takes(s, call, pc)
    BY <2>0
  <2>2. /\ UNCHANGED edge /\ inbox' = inbox \ {call} /\ srv'[s].call = call /\ srv'[s].pc = pc /\ s \notin Busy
        /\ \A o \in Servers \ {s} : srv'[o] = srv[o]
    BY <1>7, <2>1, AcceptEffect DEF Takes, Elsewhere, edges, Busy
  <2>3. Busy' \subseteq Busy \cup {s}
    BY <2>2 DEF Busy
  <2>4. call.op \in OpAt(pc)
    <3>1. call.op \in TenantOps
      BY DEF CallOk
    <3>2. pc = "refuse" \/ pc = Entry[call.op]
      BY <2>1 DEF Takes
    <3>3. CASE pc = "refuse"
      BY <3>1, <3>3 DEF OpAt, ImportPcs, ImportTx
    <3>4. CASE pc = Entry[call.op]
      BY <3>1, <3>4 DEF OpAt, Entry, TenantOps, ImportPcs, ImportTx
    <3> QED BY <3>2, <3>3, <3>4
  <2>5. \A o \in Busy : srv'[o] = srv[o]
    BY <2>2 DEF Busy
  <2> QED BY <1>0, <1>5, <2>2, <2>3, <2>4, <2>5
<1>8. CASE InternalCreate
  <2>1. PICK copy \in Copies :
          /\ UNCHANGED <<edge, srv, members>> /\ internals' = internals + 1
          /\ inbox' = inbox \cup {[ticket |-> <<"internal", internals + 1>>, op |-> "create", tenant |-> copy[1],
                                   arg |-> copy[2], actor |-> "internal"]}
    BY <1>8 DEF InternalCreate, edges, servers, ctrl
  <2>2. PICK new : new = [ticket |-> <<"internal", internals + 1>>, op |-> "create", tenant |-> copy[1],
                          arg |-> copy[2], actor |-> "internal"]
    OBVIOUS
  <2>3. copy[1] \in Tenants
    BY PortalAssumption
  <2>4. ~Sent(new.ticket) /\ new.ticket = <<"internal", internals + 1>>
    BY <2>2, NotSentYet
  <2>5. Sent(new.ticket)'
    BY <2>1, <2>4 DEF Sent, Shapes, ControlShapes
  <2>6. CallOk(new)'
    BY <2>2, <2>3, <2>5 DEF CallOk, TenantOps
  <2>7. \A e \in Edges : Ticket(e) # new.ticket
    BY <2>4, PortalAssumption DEF Ticket
  <2>8. Busy' = Busy
    BY <2>1 DEF Busy
  <2>9. inbox' = inbox \cup {new}
    BY <2>1, <2>2
  <2>10. /\ \A c \in inbox : c.ticket # new.ticket
         /\ \A s \in Busy : srv[s].call.ticket # new.ticket
    BY <1>0, <2>4
  <2> QED BY <1>0, <1>5, <2>1, <2>6, <2>7, <2>8, <2>9, <2>10
<1>9. CASE UNCHANGED <<edges, inbox, replies, servers, internals>>
  BY <1>1, <1>9 DEF edges, servers
<1> QED BY <1>3, <1>4, <1>6, <1>7, <1>8, <1>9, NextFrames, ServerStepWorks

-----------------------------------------------------------------------------
(***************************************************************************)
(* The grants.                                                             *)
(***************************************************************************)
LEMMA HeldStays ==
    ASSUME Shapes, [Next]_vars, NEW s \in Servers, srv[s].call.tenant \in Tenants, Held(s),
           srv'[s].call = srv[s].call, srv'[s].since = srv[s].since, srv'[s].rev = srv[s].rev, srv'[s].db = srv[s].db
    PROVE  Held(s)'
PROOF
<1>1. RegistryGrows
  BY ControlKept
<1>2. /\ srv[s].rev \in 1..Len(registry'[srv[s].call.tenant])
      /\ registry'[srv[s].call.tenant][srv[s].rev] = registry[srv[s].call.tenant][srv[s].rev]
  BY <1>1 DEF Held, RegistryGrows
<1>3. Justified(s, srv[s].db)'
  BY <1>1, <1>2 DEF Held, Justified, RegistryGrows
<1> QED BY <1>2, <1>3 DEF Held

LEMMA GrantedIsHeld ==
    ASSUME Shapes, [Next]_vars, UNCHANGED ctrl, NEW s \in Servers, CallOk(srv[s].call),
           srv[s].since \in Nat, srv[s].since <= Len(registry[srv[s].call.tenant]),
           NEW pc, NEW rev, NEW db, GrantedBy(s, pc, rev, db)
    PROVE  Held(s)'
PROOF
<1> DEFINE t == srv[s].call.tenant
<1>1. t \in Tenants /\ (srv[s].call.actor = "internal" \/ <<srv[s].call.actor, t>> \in members)
  BY DEF CallOk
<1>2. /\ srv'[s].call = srv[s].call /\ srv'[s].since = srv[s].since /\ srv'[s].rev = Len(registry[t])
      /\ srv'[s].db = DatabaseOf[Row(t).assoc] /\ Resolution(t) = "bound"
      /\ registry' = registry /\ members' = members
  BY DEF GrantedBy, ctrl
<1>3. /\ Len(registry[t]) \in Nat \ {0} /\ Row(t) = registry[t][Len(registry[t])]
      /\ Row(t).state = "ACTIVE" /\ DatabaseOf[Row(t).assoc] \in Databases
  BY <1>1, <1>2, RowIs DEF Shapes
<1>4. srv'[s].db \in Databases /\ srv'[s].rev \in 1..Len(registry'[srv'[s].call.tenant])
  <2>1. srv'[s].db \in Databases
    BY <1>2, <1>3
  <2>2. Len(registry[t]) \in 1..Len(registry[t])
    BY <1>3
  <2>3. registry'[srv'[s].call.tenant] = registry[t]
    BY <1>2
  <2> QED BY <1>2, <2>1, <2>2, <2>3
<1>5. Justified(s, srv[s].db)'
  BY <1>1, <1>2, <1>3 DEF Justified
<1> QED BY <1>4, <1>5 DEF Held

LEMMA GrantKept == Shapes /\ CallsInv /\ GrantInv /\ [Next]_vars => GrantInv'
PROOF
<1> SUFFICES ASSUME Shapes, CallsInv, GrantInv, [Next]_vars PROVE GrantInv'
  OBVIOUS
<1>1. RegistryGrows
  BY ControlKept
<1>2. \A s \in Busy : CallOk(srv[s].call) /\ srv[s].call.tenant \in Tenants
  BY DEF CallsInv, CallOk
<1>3. ASSUME NEW s \in Busy, srv'[s].call = srv[s].call, srv'[s].since = srv[s].since
      PROVE  srv'[s].since \in Nat /\ srv'[s].since <= Len(registry'[srv'[s].call.tenant])
  BY <1>1, <1>2, <1>3 DEF GrantInv, RegistryGrows
<1>4. ASSUME NEW s \in Busy, srv'[s] = srv[s]
      PROVE  /\ srv'[s].since \in Nat /\ srv'[s].since <= Len(registry'[srv'[s].call.tenant])
             /\ srv'[s].pc \in Bound => Held(s)'
  BY <1>2, <1>3, <1>4, HeldStays DEF GrantInv, Busy
<1>5. CASE UNCHANGED srv
  BY <1>4, <1>5 DEF GrantInv, Busy
<1>6. ASSUME NEW s \in Servers, Works(s), ServerStep(s) \/ Fail(s) PROVE GrantInv'
  <2>1. /\ s \in Busy /\ UNCHANGED ctrl /\ srv'[s].call = srv[s].call /\ srv'[s].since = srv[s].since
        /\ \A o \in Servers \ {s} : srv'[o] = srv[o]
    BY <1>6 DEF Works, Elsewhere
  <2>2. ASSUME srv'[s].pc \in Bound PROVE Held(s)'
    <3>1. srv'[s].pc # "idle" /\ <<srv[s].pc, srv'[s].pc>> \in Turns
      BY <1>6, <2>2 DEF Bound, ImportTx, Works
    <3>2. CASE srv[s].pc \in DOMAIN After
      <4>1. Grant(s)
        <5>1. Reject(s) \/ Step(s, "idle") => srv'[s].pc = "idle"
          BY EndsIdle
        <5>2. ~Fail(s)
          BY <3>1, <5>1 DEF Fail
        <5> QED
          BY <1>6, <3>2, <5>2 DEF ServerStep, After, Accept, Refuse, Find, ReadDirectory, Lock, Recheck, HoldsSource,
             WriteCopy, AppendLineage, Book, Create, Update, Read
      <4>2. ~Reject(s)
        BY <3>1, EndsIdle
      <4>3. PICK pc, rev, db : GrantedBy(s, pc, rev, db)
        BY <4>1, <4>2, GrantEffect
      <4> QED BY <1>2, <2>1, <4>3, GrantedIsHeld DEF GrantInv
    <3>3. CASE srv[s].pc \notin DOMAIN After
      <4>1. srv'[s].rev = srv[s].rev /\ srv'[s].db = srv[s].db
        BY <1>6, <3>3 DEF Works, Grant
      <4>2. srv[s].pc \in Bound
        BY <2>2, <3>1, <3>3 DEF Turns, Bound, ImportTx, After
      <4> QED BY <1>2, <2>1, <4>1, <4>2, HeldStays DEF GrantInv
    <3> QED BY <3>2, <3>3
  <2>3. \A o \in Busy' : o = s \/ (o \in Busy /\ srv'[o] = srv[o])
    BY <2>1 DEF Busy
  <2>4. s \in Busy
    BY <2>1
  <2>5. srv'[s].since \in Nat /\ srv'[s].since <= Len(registry'[srv'[s].call.tenant])
    BY <1>3, <2>1
  <2> QED BY <1>4, <2>2, <2>3, <2>5 DEF GrantInv
<1>7. ASSUME NEW s \in Servers, Accept(s) PROVE GrantInv'
  <2>0. PICK call \in inbox : \E pc : Takes(s, call, pc)
    BY <1>7, AcceptEffect
  <2>1. PICK pc : Takes(s, call, pc)
    BY <2>0
  <2>2. UNCHANGED ctrl
    BY <1>7 DEF Accept, Elsewhere
  <2>3. call.op \in TenantOps /\ call.tenant \in Tenants
    BY DEF CallsInv, CallOk
  <2>4. /\ srv'[s].pc = pc /\ srv'[s].call = call /\ srv'[s].since = Len(registry[call.tenant])
        /\ \A o \in Servers \ {s} : srv'[o] = srv[o]
        /\ pc = "refuse" \/ pc = Entry[call.op]
    BY <2>1 DEF Takes
  <2>5. pc \notin Bound
    BY <2>3, <2>4 DEF Entry, TenantOps, Bound, ImportTx
  <2>6. srv'[s].since \in Nat /\ srv'[s].since <= Len(registry'[srv'[s].call.tenant])
    BY <1>1, <2>2, <2>3, <2>4 DEF RegistryGrows, ctrl
  <2>7. \A o \in Busy' : o = s \/ (o \in Busy /\ srv'[o] = srv[o])
    BY <2>4 DEF Busy
  <2> QED BY <1>4, <2>4, <2>5, <2>6, <2>7 DEF GrantInv
<1>8. \A e \in Edges : Receive(e) \/ EdgeStep(e) => UNCHANGED srv
  BY EdgeStepWorks DEF Receive, EdgeWorks, servers
<1>9. UNCHANGED servers \/ InternalCreate => UNCHANGED srv
  BY DEF InternalCreate, servers
<1> QED BY <1>5, <1>6, <1>7, <1>8, <1>9, NextFrames, ServerStepWorks

-----------------------------------------------------------------------------
(***************************************************************************)
(* The transactions: who holds the lock of a database is alone in it.      *)
(***************************************************************************)
LEMMA OneHolder ==
    ASSUME TxInv, NEW s \in Servers, NEW o \in Servers, srv[s].pc \in ImportTx, srv[o].pc \in ImportTx, srv[s].db = srv[o].db
    PROVE  s = o
PROOF
<1>1. locks[srv[s].db] = {s} /\ locks[srv[s].db] = {o}
  BY DEF TxInv, TxOk
<1> QED BY <1>1

\* What s writes in a database another server works in, under the lock.
LEMMA OthersData ==
    ASSUME Shapes, CallsInv, GrantInv, TxInv, NEW s \in Servers, ServerStep(s) \/ Fail(s),
           NEW o \in Servers \ {s}, srv[o].pc \in ImportTx, srv[o].db \in Databases
    PROVE  /\ data'[srv[o].db].lineage = data[srv[o].db].lineage
           /\ \A row \in data'[srv[o].db].rows :
                \/ \E old \in data[srv[o].db].rows : old.id = row.id /\ old.source = row.source
                \/ row = NewRow(s, Arg(s)) /\ Create(s) /\ srv[s].db = srv[o].db
PROOF
<1> DEFINE d == srv[o].db
<1>1. CASE UNCHANGED data \/ \E x \in Databases \ {d} : \E rows, lineage, jobs : DataBecomes(x, rows, lineage, jobs)
  <2>1. data'[d] = data[d]
    BY <1>1 DEF DataBecomes
  <2> QED BY <2>1
<1>2. CASE Book(s)
  <2>1. srv[s].pc \in ImportTx /\ srv[s].db \in Databases
    BY <1>2, WritersAreBound DEF Book, ImportTx
  <2>2. srv[s].db # d
    BY <2>1, OneHolder
  <2> QED BY <1>1, <1>2, <2>1, <2>2, BookEffect
<1>3. CASE Create(s)
  <2>1. srv[s].db \in Databases
    BY <1>3, WritersAreBound
  <2>2. CASE srv[s].db # d
    BY <1>1, <1>3, <2>1, <2>2, CreateEffect
  <2>3. CASE srv[s].db = d /\ ~UNCHANGED data
    <3>1. DataBecomes(d, data[d].rows \cup {NewRow(s, Arg(s))}, data[d].lineage, data[d].jobs)
      BY <1>3, <2>1, <2>3, CreateEffect DEF Db
    <3>2. data'[d].lineage = data[d].lineage /\ data'[d].rows = data[d].rows \cup {NewRow(s, Arg(s))}
      BY <3>1 DEF DataBecomes
    <3> QED BY <1>3, <2>3, <3>2
  <2> QED BY <1>1, <2>2, <2>3
<1>4. CASE Update(s)
  <2>1. srv[s].db \in Databases
    BY <1>4, WritersAreBound
  <2>2. CASE srv[s].db # d
    BY <1>1, <1>4, <2>1, <2>2, UpdateEffect
  <2>3. CASE srv[s].db = d /\ ~UNCHANGED data
    <3>1. DataBecomes(d, Updated(s), data[d].lineage, data[d].jobs)
      BY <1>4, <2>1, <2>3, UpdateEffect DEF Db
    <3>2. data'[d].lineage = data[d].lineage /\ data'[d].rows = Updated(s)
      BY <3>1 DEF DataBecomes
    <3> QED BY <2>1, <2>3, <3>2, UpdatedRows DEF Db
  <2> QED BY <1>1, <2>2, <2>3
<1>5. CASE ~Book(s) /\ ~Create(s) /\ ~Update(s)
  BY <1>1, <1>5 DEF ServerStep, Accept, Refuse, Grant, Find, ReadDirectory, Lock, Recheck, HoldsSource, WriteCopy,
     AppendLineage, Read, Fail
<1> QED BY <1>2, <1>3, <1>4, <1>5

LEMMA OthersTx ==
    ASSUME Shapes, CallsInv, GrantInv, TxInv, [Next]_vars, NEW s \in Servers, ServerStep(s) \/ Fail(s), NEW o \in Servers \ {s}
    PROVE  TxOk(o)'
PROOF
<1>1. srv'[o] = srv[o]
  BY ServerStepWorks, AcceptEffect DEF Works, Takes
<1>2. tx'[o] = tx[o]
  BY TxSteps DEF TxBecomes
<1>3. Arg(o)' = Arg(o) /\ Event(o)' = Event(o) /\ NewRow(o, Arg(o))' = NewRow(o, Arg(o))
  BY <1>1 DEF Arg, Event, Key, Ref, NewRow
<1>4. CASE srv[o].pc \notin ImportTx
  BY <1>1, <1>2, <1>3, <1>4 DEF TxInv, TxOk, ImportTx
<1>5. CASE srv[o].pc \in ImportTx
  <2>0. PICK d : srv[o].db = d /\ srv'[o].db = d
    BY <1>1
  <2>1. d \in Databases /\ locks[d] = {o}
    <3>1. o \in Busy /\ srv[o].pc \in Bound
      BY <1>5 DEF Busy, Bound, ImportTx
    <3>2. d \in Databases
      BY <2>0, <3>1 DEF GrantInv, Held
    <3> QED BY <1>5, <2>0, <3>2 DEF TxInv, TxOk
  <2>2. locks'[d] = {o}
    <3>1. EndTx(s) => locks'[d] = {o}
      BY <2>1, EndTxEffect
    <3>2. Lock(s) => locks'[d] = {o}
      <4>1. Lock(s) => srv[s].db # d /\ locks' = [locks EXCEPT ![srv[s].db] = {s}]
        BY <2>1 DEF Lock
      <4>2. locks = [x \in Databases |-> locks[x]]
        BY DEF Shapes, TxShapes
      <4> QED BY <2>1, <4>1, <4>2
    <3> QED BY <2>1, <3>1, <3>2, TxSteps
  <2>3. /\ data'[d].lineage = data[d].lineage
        /\ \A row \in data'[d].rows :
                \/ \E old \in data[d].rows : old.id = row.id /\ old.source = row.source
                \/ row = NewRow(s, Arg(s)) /\ Create(s) /\ srv[s].db = d
    BY <1>5, <2>0, <2>1, OthersData
  <2>4. Db(o)'.lineage = Db(o).lineage
    BY <2>0, <2>3 DEF Db
  <2>5. ASSUME srv[o].pc = "copy", NEW row \in Holders(d, Arg(o))' PROVE row.id[1] = "internal"
    <3>1. row \in data'[d].rows /\ row.source = Arg(o) /\ Arg(o) # NoSource
      BY <1>3, <2>5 DEF Holders
    <3>2. CASE row = NewRow(s, Arg(s)) /\ Create(s)
      <4>1. row.id = srv[s].call.ticket /\ row.source = Arg(s)
        BY <3>2 DEF NewRow
      <4>2. s \in Busy /\ srv[s].pc = "create"
        BY <3>2 DEF Create, Busy
      <4>3. srv[s].call.op = "create" /\ CallOk(srv[s].call)
        BY <4>2 DEF CallsInv, OpAt, ImportPcs, ImportTx
      <4> QED BY <3>1, <4>1, <4>3 DEF CallOk, Arg
    <3>3. ASSUME NEW old \in data[d].rows, old.id = row.id, old.source = row.source PROVE row.id[1] = "internal"
      <4>1. old \in Holders(d, Arg(o))
        BY <3>1, <3>3 DEF Holders
      <4>2. \A x \in Holders(d, Arg(o)) : x.id[1] = "internal"
        BY <2>0, <2>5 DEF TxInv, TxOk
      <4> QED BY <3>3, <4>1, <4>2
    <3> QED BY <2>3, <3>1, <3>2, <3>3
  <2>6. ASSUME srv[o].pc \in {"append", "book"} PROVE Holders(d, Arg(o))' = {}
    <3>1. Holders(d, Arg(o)) = {} /\ tx[o].rows = {NewRow(o, Arg(o))}
      BY <2>0, <2>6 DEF TxInv, TxOk
    <3> SUFFICES ASSUME NEW row \in data'[d].rows, row.source = Arg(o), Arg(o) # NoSource PROVE FALSE
      BY <1>3 DEF Holders
    <3>2. CASE row = NewRow(s, Arg(s)) /\ Create(s) /\ srv[s].db = d
      <4>1. row.source = Arg(s)
        BY <3>2 DEF NewRow
      <4>2. NewRow(o, Arg(o)) \in Pending(s)
        BY <2>0, <3>1, <3>2 DEF Pending
      <4>3. NewRow(o, Arg(o)).source = Arg(o)
        BY DEF NewRow
      <4>4. MayInsert(s, Arg(s))
        BY <3>2 DEF Create
      <4> QED BY <4>1, <4>2, <4>3, <4>4 DEF MayInsert
    <3>3. ASSUME NEW old \in data[d].rows, old.source = row.source PROVE FALSE
      BY <3>1, <3>3 DEF Holders
    <3> QED BY <2>3, <3>2, <3>3
  <2>7. Holders(srv[o].db, Arg(o))' = Holders(d, Arg(o))'
    BY <2>0 DEF Holders
  <2> QED BY <1>1, <1>2, <1>3, <1>5, <2>0, <2>2, <2>4, <2>5, <2>6, <2>7 DEF TxInv, TxOk, ImportTx
<1> QED BY <1>4, <1>5

LEMMA OwnTx ==
    ASSUME Shapes, CallsInv, GrantInv, TxInv, NEW s \in Servers, ServerStep(s) \/ Fail(s)
    PROVE  TxOk(s)'
PROOF
<1>1. ASSUME srv'[s].pc = "idle", tx'[s] = NoTx PROVE TxOk(s)'
  BY <1>1 DEF TxOk, ImportTx
<1>2. EndTx(s) => tx'[s] = NoTx
  BY EndTxEffect DEF TxBecomes, NoTx
<1>3. Reject(s) \/ (\E body : Answer(s, body)) \/ Step(s, "idle") => srv'[s].pc = "idle"
  BY EndsIdle
<1>4. ASSUME NEW pc, Step(s, pc)
      PROVE  srv'[s].pc = pc /\ srv'[s].call = srv[s].call /\ srv'[s].db = srv[s].db
  <2>1. Moves(s, pc)
    BY <1>4, StepMoves
  <2> QED BY <2>1 DEF Moves
<1>5. ASSUME srv'[s].call = srv[s].call, srv'[s].db = srv[s].db
      PROVE  /\ Arg(s)' = Arg(s) /\ NewRow(s, Arg(s))' = NewRow(s, Arg(s)) /\ Event(s)' = Event(s)
             /\ data' = data => /\ Holders(srv[s].db, Arg(s))' = Holders(srv[s].db, Arg(s))
                                /\ Db(s)' = Db(s)
  BY <1>5 DEF Arg, Event, Key, Ref, NewRow, Holders, Db
<1>6. srv[s].pc \in Bound /\ srv[s].pc # "idle" => srv[s].db \in Databases
  BY DEF GrantInv, Held, Busy
<1>7. TxOk(s)
  BY DEF TxInv
<1>8. CASE Accept(s)
  <2>0. PICK call \in inbox : \E pc : Takes(s, call, pc)
    BY <1>8, AcceptEffect
  <2>1. PICK pc : Takes(s, call, pc)
    BY <2>0
  <2>2. tx' = tx /\ srv[s].pc = "idle"
    BY <1>8 DEF Accept
  <2>3. call.op \in TenantOps
    BY DEF CallsInv, CallOk
  <2>4. srv'[s].pc = "refuse" \/ srv'[s].pc = Entry[call.op]
    BY <2>1 DEF Takes
  <2>5. srv'[s].pc \notin {"writeGrant", "lock"} \cup ImportTx
    BY <2>3, <2>4 DEF Entry, TenantOps, ImportTx
  <2> QED BY <1>7, <2>2, <2>5 DEF TxOk, ImportTx
<1>9. CASE Refuse(s) \/ Read(s)
  <2>1. srv'[s].pc = "idle" /\ tx' = tx /\ srv[s].pc \in {"refuse", "read", "readback"}
    BY <1>3, <1>9 DEF Refuse, Read
  <2> QED BY <1>1, <1>7, <2>1 DEF TxOk
<1>10. CASE Grant(s)
  <2>1. tx' = tx /\ srv[s].pc \in DOMAIN After
    BY <1>10 DEF Grant
  <2>2. CASE Reject(s)
    BY <1>1, <1>3, <1>7, <2>1, <2>2 DEF TxOk, After
  <2>3. CASE ~Reject(s)
    <3>1. PICK pc, rev, db : GrantedBy(s, pc, rev, db)
      BY <1>10, <2>3, GrantEffect
    <3>2. srv'[s].pc = After[srv[s].pc] /\ srv'[s].call = srv[s].call
      BY <3>1 DEF GrantedBy
    <3>3. srv'[s].pc = "lock" => srv[s].pc = "writeGrant"
      BY <2>1, <3>2 DEF After
    <3>4. srv'[s].pc \notin {"writeGrant"} \cup ImportTx
      BY <2>1, <3>2 DEF After, ImportTx
    <3>5. Arg(s)' = Arg(s)
      BY <3>2 DEF Arg
    <3>6. tx[s] = NoTx
      BY <1>7, <2>1 DEF TxOk, After
    <3> QED BY <1>7, <2>1, <3>3, <3>4, <3>5, <3>6 DEF TxOk, ImportTx
  <2> QED BY <2>2, <2>3
<1>11. CASE Find(s)
  <2>1. tx' = tx /\ srv[s].pc = "find" /\ srv'[s].pc \in {"idle", "directory"}
    BY <1>3, <1>4, <1>11 DEF Find
  <2> QED BY <1>7, <2>1 DEF TxOk, ImportTx
<1>12. CASE ReadDirectory(s)
  <2>1. tx' = tx /\ srv[s].pc = "directory"
    BY <1>12 DEF ReadDirectory
  <2>2. CASE Reject(s)
    BY <1>1, <1>3, <1>7, <2>1, <2>2 DEF TxOk
  <2>3. CASE Arg(s) \in Directory /\ Step(s, "writeGrant")
    BY <1>4, <1>5, <1>7, <2>1, <2>3 DEF TxOk, ImportTx
  <2> QED BY <1>12, <2>2, <2>3 DEF ReadDirectory
<1>13. CASE Lock(s)
  <2>1. tx' = tx /\ srv[s].pc = "lock" /\ locks' = [locks EXCEPT ![srv[s].db] = {s}] /\ Step(s, "existing")
    BY <1>13 DEF Lock
  <2>2. srv[s].db \in Databases /\ locks = [d \in Databases |-> locks[d]]
    BY <1>6, <2>1 DEF Bound, Shapes, TxShapes
  <2>3. locks'[srv[s].db] = {s}
    BY <2>1, <2>2
  <2> QED BY <1>4, <1>5, <1>7, <2>1, <2>3 DEF TxOk, ImportTx
<1>14. CASE Recheck(s)
  <2>1. CASE EndTx(s) /\ \E body : Answer(s, body)
    BY <1>1, <1>2, <1>3, <2>1
  <2>2. CASE Step(s, "holds") /\ UNCHANGED <<tx, locks>> /\ srv[s].pc = "existing"
    BY <1>4, <1>5, <1>7, <2>2 DEF TxOk, ImportTx
  <2> QED BY <1>14, <2>1, <2>2 DEF Recheck
<1>15. CASE HoldsSource(s)
  <2>1. CASE EndTx(s) /\ Reject(s)
    BY <1>1, <1>2, <1>3, <2>1
  <2>2. CASE /\ Holders(srv[s].db, Arg(s)) = {} /\ Step(s, "copy") /\ UNCHANGED <<tx, locks, data>>
             /\ srv[s].pc = "holds"
    BY <1>4, <1>5, <1>7, <2>2 DEF TxOk, ImportTx
  <2> QED BY <1>15, <2>1, <2>2 DEF HoldsSource
<1>16. CASE WriteCopy(s)
  <2>1. CASE EndTx(s) /\ Reject(s)
    BY <1>1, <1>2, <1>3, <2>1
  <2>2. CASE Holders(srv[s].db, Arg(s)) = {}
    <3>1. PICK rows : rows = {NewRow(s, Arg(s))}
      OBVIOUS
    <3>2. /\ tx' = [tx EXCEPT ![s].rows = rows] /\ UNCHANGED <<locks, data>> /\ Step(s, "append")
          /\ srv[s].pc = "copy"
      BY <1>16, <2>2, <3>1 DEF WriteCopy
    <3>3. TxBecomes(s, rows, tx[s].lineage)
      BY <3>2, CopyEffect
    <3>4. tx[s].lineage = {}
      BY <1>7, <3>2 DEF TxOk, NoTx
    <3>5. tx'[s].rows = {NewRow(s, Arg(s))} /\ tx'[s].lineage = {}
      BY <3>1, <3>3, <3>4 DEF TxBecomes
    <3>6. srv'[s].pc = "append" /\ locks'[srv'[s].db] = {s} /\ Arg(s)' \in Directory
      BY <1>4, <1>5, <1>7, <3>2 DEF TxOk, ImportTx
    <3>7. Holders(srv[s].db, Arg(s))' = {} /\ NewRow(s, Arg(s))' = NewRow(s, Arg(s))
      BY <1>4, <1>5, <2>2, <3>2
    <3> QED BY <3>5, <3>6, <3>7 DEF TxOk, ImportTx
  <2> QED BY <1>16, <2>1, <2>2 DEF WriteCopy, Violation
<1>17. CASE AppendLineage(s)
  <2>1. PICK lineage : lineage = {NextRow(ChainHead(Db(s).lineage), Event(s))}
    OBVIOUS
  <2>2. /\ tx' = [tx EXCEPT ![s].lineage = lineage] /\ UNCHANGED <<locks, data>> /\ Step(s, "book")
        /\ srv[s].pc = "append"
    BY <1>17, <2>1 DEF AppendLineage
  <2>3. TxBecomes(s, tx[s].rows, lineage)
    BY <2>2, AppendEffect
  <2>4. tx'[s].rows = {NewRow(s, Arg(s))} /\ tx'[s].lineage = lineage
    BY <1>7, <2>2, <2>3 DEF TxBecomes, TxOk
  <2>5. srv'[s].pc = "book" /\ locks'[srv'[s].db] = {s} /\ Arg(s)' \in Directory
    BY <1>4, <1>5, <1>7, <2>2 DEF TxOk, ImportTx
  <2>6. /\ Holders(srv[s].db, Arg(s))' = {} /\ NewRow(s, Arg(s))' = NewRow(s, Arg(s))
        /\ Event(s)' = Event(s) /\ Db(s)' = Db(s)
    BY <1>4, <1>5, <1>7, <2>2 DEF TxOk
  <2>7. lineage = {NextRow(ChainHead(Db(s).lineage), Event(s))}'
    BY <2>1, <2>6
  <2> QED BY <2>4, <2>5, <2>6, <2>7 DEF TxOk, ImportTx
<1>18. CASE Book(s) \/ Fail(s)
  BY <1>1, <1>2, <1>3, <1>18 DEF Book, Fail
<1>19. CASE Create(s)
  <2>1. srv'[s].pc = "idle" /\ (tx' = tx \/ EndTx(s)) /\ srv[s].pc = "create"
    BY <1>3, <1>19 DEF Create, Violation
  <2> QED BY <1>1, <1>2, <1>7, <2>1 DEF TxOk
<1>20. CASE Update(s)
  <2>1. tx' = tx /\ srv[s].pc = "update" /\ srv'[s].pc \in {"idle", "readbackGrant"}
    BY <1>3, <1>4, <1>20 DEF Update
  <2> QED BY <1>7, <2>1 DEF TxOk, ImportTx
<1> QED
  BY <1>8, <1>9, <1>10, <1>11, <1>12, <1>13, <1>14, <1>15, <1>16, <1>17, <1>18, <1>19, <1>20 DEF ServerStep

LEMMA TxKept == Shapes /\ CallsInv /\ GrantInv /\ TxInv /\ [Next]_vars => TxInv'
PROOF
<1> SUFFICES ASSUME Shapes, CallsInv, GrantInv, TxInv, [Next]_vars PROVE TxInv'
  OBVIOUS
<1>1. CASE UNCHANGED <<srv, tx, locks, data>>
  BY <1>1 DEF TxInv, TxOk, Arg, Event, Key, Ref, NewRow, Holders, Db
<1>2. \A s \in Servers : ServerStep(s) \/ Fail(s) => TxInv'
  BY OwnTx, OthersTx DEF TxInv
<1>3. \A e \in Edges : Receive(e) \/ EdgeStep(e) => UNCHANGED <<srv, tx, locks, data>>
  BY EdgeStepWorks DEF Receive, EdgeWorks, servers
<1>4. UNCHANGED servers \/ InternalCreate => UNCHANGED <<srv, tx, locks, data>>
  BY DEF InternalCreate, servers
<1> QED BY <1>1, <1>2, <1>3, <1>4, NextFrames

-----------------------------------------------------------------------------
(***************************************************************************)
(* The databases.                                                          *)
(***************************************************************************)

\* A database without the row of an import takes the whole of it.
LEMMA BookedIsWhole ==
    ASSUME NEW db, Whole(db), NEW source, source \in Sources, NEW copy, copy.source = source,
           NEW key, key[2] = source, NEW new, new = NextRow(ChainHead(db.lineage), new.event),
           new.event.key = key, new.event.source = source, new.event.target.id = copy.id,
           \A row \in db.rows : row.source # source,
           NEW after, after.rows = db.rows \cup {copy}, after.lineage = db.lineage \cup {new},
           after.jobs = db.jobs \cup {key}
    PROVE  Whole(after)
PROOF
<1>1. OneChain(after.lineage)
  <2>1. OneChain(db.lineage)
    BY DEF Whole
  <2>2. IsHead(ChainHead(db.lineage), db.lineage) /\ Seqs(db.lineage) = 1..ChainHead(db.lineage).seq
        /\ ChainHead(db.lineage).seq \in Nat
    BY <2>1, HeadOfChain
  <2>3. \A row \in db.lineage : row.seq # ChainHead(db.lineage).seq + 1
    BY <2>2 DEF Seqs
  <2>4. OneChain(db.lineage \cup {NextRow(ChainHead(db.lineage), new.event)})
    BY <2>1, <2>2, <2>3, AppendKeepsChain
  <2> QED BY <2>4
<1>2. \A row \in db.lineage : row.event.source # source
  BY DEF Whole
<1>3. {row.event.key : row \in after.lineage} = after.jobs
  BY DEF Whole
<1>4. \A row \in after.lineage :
        /\ row.event.source \in Sources /\ row.event.key[2] = row.event.source
        /\ \E c \in after.rows : c.id = row.event.target.id /\ c.source = row.event.source
  BY DEF Whole
<1>5. \A row, other \in after.lineage : row.event.source = other.event.source => row = other
  BY <1>2 DEF Whole
<1>6. \A c \in after.rows :
        \/ c.source = NoSource \/ c.id[1] = "internal"
        \/ \E row \in after.lineage : row.event.target.id = c.id
  BY DEF Whole
<1> QED BY <1>1, <1>3, <1>4, <1>5, <1>6 DEF Whole

\* Rows that keep their places and sources, and rows made by hand, change nothing for the lineage.
LEMMA RewrittenIsWhole ==
    ASSUME NEW db, Whole(db), NEW after, after.lineage = db.lineage, after.jobs = db.jobs,
           \A old \in db.rows : \E row \in after.rows : old.id = row.id /\ old.source = row.source,
           \A row \in after.rows :
               \/ row.source = NoSource \/ row.id[1] = "internal"
               \/ \E old \in db.rows : old.id = row.id /\ old.source = row.source
    PROVE  Whole(after)
PROOF
<1>1. \A row \in after.lineage :
        /\ row.event.source \in Sources /\ row.event.key[2] = row.event.source
        /\ \E c \in after.rows : c.id = row.event.target.id /\ c.source = row.event.source
  BY DEF Whole
<1>2. \A c \in after.rows :
        \/ c.source = NoSource \/ c.id[1] = "internal"
        \/ \E row \in after.lineage : row.event.target.id = c.id
  BY DEF Whole
<1> QED BY <1>1, <1>2 DEF Whole

LEMMA DataKept == Shapes /\ CallsInv /\ GrantInv /\ TxInv /\ DataInv /\ [Next]_vars => DataInv'
PROOF
<1> SUFFICES ASSUME Shapes, CallsInv, GrantInv, TxInv, DataInv, [Next]_vars PROVE DataInv'
  OBVIOUS
<1>0. ASSUME NEW d \in Databases, NEW rows, NEW lineage, NEW jobs, DataBecomes(d, rows, lineage, jobs), Whole(data'[d])
      PROVE  DataInv'
  <2>1. \A x \in Databases : Whole(data'[x])
    BY <1>0 DEF DataBecomes, DataInv
  <2>2. \A x \in Databases : Whole(data[x])'
    BY <2>1 DEF Whole, OneChain, Numbered, Linked, Seqs
  <2> QED BY <2>2 DEF DataInv
<1>1. CASE data' = data
  BY <1>1 DEF DataInv, Whole, OneChain, Numbered, Linked, Seqs
<1>2. ASSUME NEW s \in Servers, Book(s) PROVE DataInv'
  <2>0. PICK d \in Databases : srv[s].db = d /\ srv[s].pc = "book"
    BY <1>2, WritersAreBound DEF Book
  <2>1. DataBecomes(d, data[d].rows \cup tx[s].rows, data[d].lineage \cup tx[s].lineage, data[d].jobs \cup {Key(s)})
    BY <1>2, <2>0, BookEffect DEF Db
  <2>2. /\ Holders(d, Arg(s)) = {} /\ tx[s].rows = {NewRow(s, Arg(s))}
        /\ tx[s].lineage = {NextRow(ChainHead(data[d].lineage), Event(s))} /\ Arg(s) \in Directory
    BY <2>0 DEF TxInv, TxOk, ImportTx, Db
  <2>3. Arg(s) \in Sources /\ Arg(s) # NoSource
    BY <2>2, PortalAssumption
  <2>4. \A row \in data[d].rows : row.source # Arg(s)
    BY <2>2, <2>3 DEF Holders
  <2>5. PICK copy : copy = NewRow(s, Arg(s))
    OBVIOUS
  <2>6. PICK new : new = NextRow(ChainHead(data[d].lineage), Event(s))
    OBVIOUS
  <2>7. new.event = Event(s)
    BY <2>6 DEF NextRow
  <2>8. /\ Event(s).key = Key(s) /\ Key(s)[2] = Arg(s) /\ Event(s).source = Arg(s)
        /\ Event(s).target.id = srv[s].call.ticket
    BY DEF Event, Key, Ref
  <2>9. copy.source = Arg(s) /\ copy.id = srv[s].call.ticket
    BY <2>5 DEF NewRow
  <2>10. /\ data'[d].rows = data[d].rows \cup {copy} /\ data'[d].lineage = data[d].lineage \cup {new}
         /\ data'[d].jobs = data[d].jobs \cup {Key(s)}
    BY <2>1, <2>2, <2>5, <2>6 DEF DataBecomes
  <2>11. Whole(data[d])
    BY DEF DataInv
  <2>12. PICK after : after = data'[d]
    OBVIOUS
  <2>13. Whole(after)
    BY <2>3, <2>4, <2>6, <2>7, <2>8, <2>9, <2>10, <2>11, <2>12, BookedIsWhole
  <2> QED BY <1>0, <2>1, <2>12, <2>13
<1>3. ASSUME NEW s \in Servers, Create(s) PROVE DataInv'
  <2>0. PICK d \in Databases : srv[s].db = d /\ srv[s].pc = "create" /\ s \in Busy
    BY <1>3, WritersAreBound DEF Create
  <2>1. CASE DataBecomes(d, data[d].rows \cup {NewRow(s, Arg(s))}, data[d].lineage, data[d].jobs)
    <3>1. srv[s].call.op = "create" /\ CallOk(srv[s].call)
      BY <2>0 DEF CallsInv, OpAt, ImportPcs, ImportTx
    <3>2. NewRow(s, Arg(s)).source = NoSource \/ NewRow(s, Arg(s)).id[1] = "internal"
      BY <3>1 DEF CallOk, NewRow, Arg
    <3>3. PICK after : after = data'[d]
      OBVIOUS
    <3>4. after.rows = data[d].rows \cup {NewRow(s, Arg(s))} /\ after.lineage = data[d].lineage /\ after.jobs = data[d].jobs
      BY <2>1, <3>3 DEF DataBecomes
    <3>5. Whole(after)
      BY <3>2, <3>4, RewrittenIsWhole DEF DataInv
    <3> QED BY <1>0, <2>1, <3>3, <3>5
  <2> QED BY <1>1, <1>3, <2>0, <2>1, CreateEffect DEF Db
<1>4. ASSUME NEW s \in Servers, Update(s) PROVE DataInv'
  <2>0. PICK d \in Databases : srv[s].db = d
    BY <1>4, WritersAreBound
  <2>1. CASE DataBecomes(d, Updated(s), data[d].lineage, data[d].jobs)
    <3>1. PICK after : after = data'[d]
      OBVIOUS
    <3>2. after.rows = Updated(s) /\ after.lineage = data[d].lineage /\ after.jobs = data[d].jobs
      BY <2>1, <3>1 DEF DataBecomes
    <3>3. Whole(after)
      BY <2>0, <3>2, RewrittenIsWhole, UpdatedRows DEF DataInv, Db
    <3> QED BY <1>0, <2>1, <3>1, <3>3
  <2> QED BY <1>1, <1>4, <2>0, <2>1, UpdateEffect DEF Db
<1> QED BY <1>1, <1>2, <1>3, <1>4, WritersOnly

\* Lineages only grow, by the row of a booked import.
LEMMA LineageSteps ==
    ASSUME Shapes, GrantInv, TxInv, [Next]_vars, NEW d \in Databases
    PROVE  /\ committed \subseteq committed'
           /\ data[d].lineage \subseteq data'[d].lineage
           /\ \A row \in data'[d].lineage \ data[d].lineage :
                  \E s \in Servers : Book(s) /\ srv[s].db = d /\ row.event = Event(s)
PROOF
<1>1. CASE data' = data /\ committed' = committed
  BY <1>1
<1>2. ASSUME NEW s \in Servers, Book(s)
      PROVE  /\ committed \subseteq committed'
             /\ data[d].lineage \subseteq data'[d].lineage
             /\ \A row \in data'[d].lineage \ data[d].lineage : srv[s].db = d /\ row.event = Event(s)
  <2>0. srv[s].db \in Databases /\ srv[s].pc = "book"
    BY <1>2, WritersAreBound DEF Book
  <2>1. DataBecomes(srv[s].db, Db(s).rows \cup tx[s].rows, Db(s).lineage \cup tx[s].lineage, Db(s).jobs \cup {Key(s)})
    BY <1>2, <2>0, BookEffect
  <2>2. \A row \in tx[s].lineage : row.event = Event(s)
    <3>1. tx[s].lineage = {NextRow(ChainHead(Db(s).lineage), Event(s))}
      BY <2>0 DEF TxInv, TxOk
    <3>2. NextRow(ChainHead(Db(s).lineage), Event(s)).event = Event(s)
      BY DEF NextRow
    <3> QED BY <3>1, <3>2
  <2>3. committed \subseteq committed'
    BY <1>2 DEF Book
  <2>4. CASE srv[s].db = d
    <3>1. data'[d].lineage = data[d].lineage \cup tx[s].lineage
      BY <2>1, <2>4 DEF DataBecomes, Db
    <3> QED BY <2>2, <2>3, <2>4, <3>1
  <2>5. CASE srv[s].db # d
    BY <2>1, <2>3, <2>5 DEF DataBecomes
  <2> QED BY <2>4, <2>5
<1>3. ASSUME NEW s \in Servers, Create(s) \/ Update(s)
      PROVE  committed \subseteq committed' /\ data'[d].lineage = data[d].lineage
  <2>0. srv[s].db \in Databases
    BY <1>3, WritersAreBound
  <2>1. \/ UNCHANGED <<data, committed>>
        \/ /\ committed' = committed \cup {srv[s].call.ticket}
           /\ \E rows : DataBecomes(srv[s].db, rows, Db(s).lineage, Db(s).jobs)
    BY <1>3, <2>0, CreateEffect, UpdateEffect
  <2>2. ASSUME NEW rows, DataBecomes(srv[s].db, rows, Db(s).lineage, Db(s).jobs) PROVE data'[d].lineage = data[d].lineage
    BY <2>2 DEF DataBecomes, Db
  <2> QED BY <2>1, <2>2
<1> QED BY <1>1, <1>2, <1>3, WritersOnly

\* A call that is under way after a step was before, or its ticket is new.
LEMMA CallSteps ==
    ASSUME Shapes, [Next]_vars
    PROVE  /\ \A c \in inbox' : c \in inbox \/ ~Sent(c.ticket)
           /\ \A s \in Busy' : (s \in Busy /\ srv'[s].call = srv[s].call) \/ srv'[s].call \in inbox
PROOF
<1>1. CASE UNCHANGED <<inbox, srv>>
  BY <1>1 DEF Busy
<1>2. ASSUME NEW e \in Edges, Receive(e)
      PROVE  UNCHANGED <<inbox, srv>>
  BY <1>2 DEF Receive, servers
<1>3. ASSUME NEW e \in Edges, EdgeStep(e)
      PROVE  UNCHANGED srv /\ \A c \in inbox' : c \in inbox \/ ~Sent(c.ticket)
  <2>1. EdgeWorks(e)
    BY <1>3, EdgeStepWorks
  <2>2. CASE inbox' = inbox \cup {Call(e)} /\ edge'[e].pc = "wait"
    <3>1. edge[e].pc = "route"
      BY <2>1, <2>2 DEF EdgeWorks, EdgeTurns, EdgePcs
    <3>2. ~Sent(Ticket(e)) /\ Call(e).ticket = Ticket(e)
      BY <3>1, NotSentYet DEF Call
    <3> QED BY <2>1, <2>2, <3>2 DEF EdgeWorks, servers
  <2> QED BY <2>1, <2>2 DEF EdgeWorks, servers
<1>4. ASSUME NEW s \in Servers, Works(s)
      PROVE  inbox' = inbox /\ \A o \in Busy' : o \in Busy /\ srv'[o].call = srv[o].call
  BY <1>4 DEF Works, Busy
<1>5. ASSUME NEW s \in Servers, Accept(s)
      PROVE  /\ inbox' \subseteq inbox
             /\ \A o \in Busy' : (o \in Busy /\ srv'[o].call = srv[o].call) \/ srv'[o].call \in inbox
  <2>0. PICK call \in inbox : \E pc : Takes(s, call, pc)
    BY <1>5, AcceptEffect
  <2> QED BY <2>0 DEF Takes, Busy
<1>6. CASE InternalCreate
  <2>1. PICK copy \in Copies :
          /\ UNCHANGED srv
          /\ inbox' = inbox \cup {[ticket |-> <<"internal", internals + 1>>, op |-> "create", tenant |-> copy[1],
                                   arg |-> copy[2], actor |-> "internal"]}
    BY <1>6 DEF InternalCreate, servers
  <2> QED BY <2>1, NotSentYet DEF Busy
<1>7. UNCHANGED servers => UNCHANGED srv
  BY DEF servers
<1>8. \A e \in Edges : EdgeStep(e) => \A s \in Busy' : s \in Busy /\ srv'[s].call = srv[s].call
  BY <1>3 DEF Busy
<1> QED BY <1>1, <1>2, <1>3, <1>4, <1>5, <1>6, <1>7, <1>8, NextFrames, ServerStepWorks

LEMMA SpentKept == Shapes /\ CallsInv /\ GrantInv /\ TxInv /\ SpentInv /\ [Next]_vars => SpentInv'
PROOF
<1> SUFFICES ASSUME Shapes, CallsInv, GrantInv, TxInv, SpentInv, [Next]_vars,
                    NEW d \in Databases, NEW row \in data'[d].lineage
             PROVE  /\ Sent(row.event.target.id)'
                    /\ \A c \in inbox' : c.ticket # row.event.target.id
                    /\ \A s \in Busy' : srv'[s].call.ticket # row.event.target.id
  BY DEF SpentInv
<1>1. CASE row \in data[d].lineage
  BY <1>1, SentStays, CallSteps DEF SpentInv
<1>2. CASE row \notin data[d].lineage
  <2>1. PICK s \in Servers : Book(s) /\ srv[s].db = d /\ row.event = Event(s)
    BY <1>2, LineageSteps
  <2>2. row.event.target.id = srv[s].call.ticket
    BY <2>1 DEF Event, Ref
  <2>3. s \in Busy
    BY <2>1, WritersAreBound
  <2>4. inbox' = inbox /\ srv'[s].pc = "idle" /\ \A o \in Servers \ {s} : srv'[o] = srv[o]
    <3>1. inbox' = inbox /\ (Reject(s) \/ \E body : Answer(s, body))
      BY <2>1 DEF Book
    <3> QED BY <3>1, EndsIdle DEF Moves
  <2>5. Sent(srv[s].call.ticket)
    BY <2>3 DEF CallsInv, CallOk
  <2>6. Sent(row.event.target.id)'
    BY <2>2, <2>5, SentStays
  <2>7. \A o \in Busy' : o \in Busy /\ o # s /\ srv'[o] = srv[o]
    BY <2>4 DEF Busy
  <2> QED BY <2>2, <2>3, <2>4, <2>6, <2>7 DEF CallsInv
<1> QED BY <1>1, <1>2

-----------------------------------------------------------------------------
(***************************************************************************)
(* The answers.                                                            *)
(***************************************************************************)
LEMMA TrueBodyStays ==
    ASSUME Shapes, GrantInv, TxInv, [Next]_vars, NEW op, NEW arg, NEW ticket, NEW body, TrueBody(op, arg, ticket, body)
    PROVE  TrueBody(op, arg, ticket, body)'
PROOF
<1>1. committed \subseteq committed' \/ Databases = {}
  BY LineageSteps
<1>2. \A d \in Databases : data[d].lineage \subseteq data'[d].lineage
  BY LineageSteps
<1>3. CASE op = "import"
  BY <1>2, <1>3 DEF TrueBody
<1>4. CASE op \in {"create", "update"}
  <2>1. committed' = committed \/ \E s \in Servers : Book(s) \/ Create(s) \/ Update(s)
    BY WritersOnly
  <2>2. Databases = {} => committed' = committed
    BY <2>1, WritersAreBound
  <2> QED BY <1>1, <1>4, <2>2 DEF TrueBody
<1>5. CASE op \notin {"import", "create", "update"}
  BY <1>5 DEF TrueBody
<1> QED BY <1>3, <1>4, <1>5

\* The row an import finds on record is the one of its source, and another call's.
LEMMA FoundIsTrue ==
    ASSUME GrantInv, DataInv, SpentInv, NEW s \in Busy, srv[s].pc \in Bound, data' = data,
           NEW row \in Existing(s), NEW arg, arg = Arg(s), NEW ticket, ticket = srv[s].call.ticket,
           NEW body, body = Imported(s, row.event.target, FALSE)
    PROVE  TrueBody("import", arg, ticket, body)'
PROOF
<1>1. srv[s].db \in Databases
  BY DEF GrantInv, Held
<1>2. row \in data[srv[s].db].lineage /\ row.event.key = Key(s)
  BY DEF Existing, Db
<1>3. row.event.source = arg
  <2>1. row.event.key[2] = row.event.source
    BY <1>1, <1>2 DEF DataInv, Whole
  <2> QED BY <1>2, <2>1 DEF Key
<1>4. row.event.target.id # ticket
  BY <1>1, <1>2 DEF SpentInv
<1>5. /\ body = [db |-> body.db, target |-> body.target, fresh |-> body.fresh]
      /\ body.db = srv[s].db /\ body.target = row.event.target /\ body.fresh = FALSE
  BY DEF Imported
<1> QED BY <1>1, <1>2, <1>3, <1>4, <1>5 DEF TrueBody

\* What a server answers with is true of the call it serves.
LEMMA AnswersTrue ==
    ASSUME Shapes, CallsInv, GrantInv, TxInv, DataInv, SpentInv, AnswersInv, NEW s \in Servers, ServerStep(s) \/ Fail(s)
    PROVE  \/ replies' = replies \/ Reject(s)
           \/ \E body : /\ Answer(s, body)
                        /\ \A op, arg, ticket :
                             op = srv[s].call.op /\ arg = Arg(s) /\ ticket = srv[s].call.ticket => TrueBody(op, arg, ticket, body)'
PROOF
<1>0. ASSUME s \in Busy PROVE srv[s].call.op \in OpAt(srv[s].pc)
  BY <1>0 DEF CallsInv
<1>1. CASE Find(s) \/ Recheck(s)
  <2>1. s \in Busy /\ srv[s].pc \in Bound /\ data' = data /\ srv[s].pc \in {"find", "existing"}
    BY <1>1 DEF Find, Recheck, Busy, Bound, ImportTx
  <2>2. srv[s].call.op = "import"
    BY <1>0, <2>1 DEF OpAt, ImportPcs, ImportTx
  <2>3. replies' = replies \/ \E row \in Existing(s) : Answer(s, Imported(s, row.event.target, FALSE))
    BY <1>1 DEF Find, Recheck
  <2>4. ASSUME NEW row \in Existing(s), Answer(s, Imported(s, row.event.target, FALSE))
        PROVE  \E body : /\ Answer(s, body)
                         /\ \A op, arg, ticket :
                              op = srv[s].call.op /\ arg = Arg(s) /\ ticket = srv[s].call.ticket => TrueBody(op, arg, ticket, body)'
    <3>1. PICK body : body = Imported(s, row.event.target, FALSE)
      OBVIOUS
    <3>2. Answer(s, body)
      BY <2>4, <3>1
    <3>3. \A arg, ticket : arg = Arg(s) /\ ticket = srv[s].call.ticket => TrueBody("import", arg, ticket, body)'
      BY <2>1, <3>1, FoundIsTrue
    <3> QED BY <2>2, <3>2, <3>3
  <2> QED BY <2>3, <2>4
<1>2. CASE Book(s)
  <2>1. srv[s].db \in Databases /\ s \in Busy /\ srv[s].pc = "book"
    BY <1>2, WritersAreBound DEF Book
  <2>2. srv[s].call.op = "import"
    BY <1>0, <2>1 DEF OpAt, ImportPcs, ImportTx
  <2>3. PICK new : new = NextRow(ChainHead(Db(s).lineage), Event(s))
    OBVIOUS
  <2>4. new.event.source = Arg(s) /\ new.event.target = Ref(s)
    <3>1. new.event = Event(s)
      BY <2>3 DEF NextRow
    <3> QED BY <3>1 DEF Event
  <2>5. tx[s].lineage = {new}
    BY <2>1, <2>3 DEF TxInv, TxOk
  <2>6. new \in data'[srv[s].db].lineage
    <3>1. DataBecomes(srv[s].db, Db(s).rows \cup tx[s].rows, Db(s).lineage \cup tx[s].lineage, Db(s).jobs \cup {Key(s)})
      BY <1>2, <2>1, BookEffect
    <3>2. data'[srv[s].db].lineage = Db(s).lineage \cup tx[s].lineage
      BY <3>1 DEF DataBecomes
    <3> QED BY <2>5, <3>2
  <2>7. PICK body : body = Imported(s, Ref(s), TRUE)
    OBVIOUS
  <2>8. /\ body = [db |-> body.db, target |-> body.target, fresh |-> body.fresh]
        /\ body.db = srv[s].db /\ body.target = Ref(s) /\ body.fresh = TRUE
    BY <2>7 DEF Imported
  <2>9. body.target.id = srv[s].call.ticket
    BY <2>8 DEF Ref
  <2>10. \A arg, ticket : arg = Arg(s) /\ ticket = srv[s].call.ticket => TrueBody("import", arg, ticket, body)'
    BY <2>1, <2>4, <2>6, <2>8, <2>9 DEF TrueBody
  <2>11. Reject(s) \/ Answer(s, body)
    BY <1>2, <2>7 DEF Book
  <2> QED BY <2>2, <2>10, <2>11
<1>3. CASE Create(s)
  <2>1. srv[s].db \in Databases /\ s \in Busy /\ srv[s].pc = "create"
    BY <1>3, WritersAreBound DEF Create
  <2>2. srv[s].call.op = "create"
    BY <1>0, <2>1 DEF OpAt, ImportPcs, ImportTx
  <2>3. Reject(s) \/ (srv[s].call.ticket \in committed' /\ Answer(s, Ref(s)))
    BY <1>3, <2>1, CreateEffect DEF Violation
  <2>4. PICK body : body = Ref(s)
    OBVIOUS
  <2>5. srv[s].call.ticket \in committed' =>
            \A arg, ticket : ticket = srv[s].call.ticket => TrueBody("create", arg, ticket, body)'
    BY DEF TrueBody
  <2> QED BY <2>2, <2>3, <2>4, <2>5
<1>4. CASE Read(s)
  <2>1. s \in Busy /\ srv[s].pc \in {"read", "readback"} /\ committed' = committed
    BY <1>4 DEF Read, Busy
  <2>2. srv[s].pc = "readback" => srv[s].call.ticket \in committed
    BY DEF AnswersInv, ReadbackInv
  <2>3. srv[s].call.op = IF srv[s].pc = "read" THEN "read" ELSE "update"
    BY <1>0, <2>1 DEF OpAt, ImportPcs, ImportTx
  <2>4. PICK body : body = Arg(s)
    OBVIOUS
  <2>5. Reject(s) \/ Answer(s, body)
    BY <1>4, <2>4 DEF Read
  <2>6. \A op, arg, ticket : op = srv[s].call.op /\ ticket = srv[s].call.ticket => TrueBody(op, arg, ticket, body)'
    BY <2>1, <2>2, <2>3 DEF TrueBody
  <2> QED BY <2>5, <2>6
<1>5. CASE Accept(s) \/ Refuse(s) \/ Grant(s) \/ ReadDirectory(s) \/ Lock(s) \/ HoldsSource(s) \/ WriteCopy(s)
           \/ AppendLineage(s) \/ Update(s) \/ Fail(s)
  BY <1>5 DEF Accept, Refuse, Grant, ReadDirectory, Lock, HoldsSource, WriteCopy, Violation, AppendLineage, Update, Fail
<1> QED BY <1>1, <1>2, <1>3, <1>4, <1>5 DEF ServerStep

LEMMA CommittedStays == ASSUME Shapes, GrantInv, [Next]_vars PROVE committed \subseteq committed'
PROOF
<1>1. \A s \in Servers : Book(s) => committed \subseteq committed'
  BY DEF Book
<1>2. ASSUME NEW s \in Servers, Create(s) \/ Update(s) PROVE committed \subseteq committed'
  BY <1>2, WritersAreBound, CreateEffect, UpdateEffect
<1> QED BY <1>1, <1>2, WritersOnly

\* An answer that is handed on tells the truth, and so does the trail.
LEMMA ServedIsTrue ==
    ASSUME Shapes, EdgeInv, AnswersInv, NEW e \in Edges, EdgeStep(e)
    PROVE  /\ \A a \in answers' : a \in answers \/
                  /\ a = [ticket |-> a.ticket, op |-> a.op, arg |-> a.arg, body |-> a.body]
                  /\ TrueBody(a.op, a.arg, a.ticket, a.body)
           /\ \A row \in trail' : row \in trail \/ (row.action = "startup_update" => row.ticket \in committed)
PROOF
<1>1. ASSUME NEW body, Serve(e, body), TrueBody(edge[e].req.op, edge[e].req.arg, Ticket(e), body)
      PROVE  \A a \in answers' : a \in answers \/
                  /\ a = [ticket |-> a.ticket, op |-> a.op, arg |-> a.arg, body |-> a.body]
                  /\ TrueBody(a.op, a.arg, a.ticket, a.body)
  <2>1. PICK new : new = [ticket |-> Ticket(e), op |-> edge[e].req.op, arg |-> edge[e].req.arg, body |-> body]
    OBVIOUS
  <2>2. answers' = answers \cup {new}
    BY <1>1, <2>1 DEF Serve
  <2>3. new.ticket = Ticket(e) /\ new.op = edge[e].req.op /\ new.arg = edge[e].req.arg /\ new.body = body
    BY <2>1
  <2>4. new = [ticket |-> new.ticket, op |-> new.op, arg |-> new.arg, body |-> new.body]
    BY <2>1, <2>3
  <2>5. TrueBody(new.op, new.arg, new.ticket, new.body)
    BY <1>1, <2>3
  <2> QED BY <2>2, <2>4, <2>5
<1>2. \A action, outcome : Emit(e, action, outcome) =>
          trail' = trail \/ trail' = trail \cup {[ticket |-> Ticket(e), action |-> action, outcome |-> outcome]}
  BY DEF Emit
<1>3. CASE TakeReply(e)
  <2>1. PICK r \in replies :
          /\ r.ticket = Ticket(e)
          /\ \/ ~r.ok /\ Deny(e) /\ NoEmit
             \/ /\ r.ok /\ Serve(e, r.body)
                /\ IF AuditedAs(edge[e].req.op) = "none" THEN NoEmit ELSE Emit(e, AuditedAs(edge[e].req.op), "allowed")
    BY <1>3 DEF TakeReply
  <2>2. CASE ~r.ok
    BY <2>1, <2>2 DEF Deny, NoEmit
  <2>3. CASE r.ok
    <3>1. TrueBody(edge[e].req.op, edge[e].req.arg, Ticket(e), r.body)
      BY <1>3, <2>1, <2>3 DEF TakeReply, AnswersInv, AnswersOnTheirWay
    <3>2. ASSUME NEW row \in trail' \ trail, row.action = "startup_update" PROVE row.ticket \in committed
      <4>1. row = [ticket |-> Ticket(e), action |-> AuditedAs(edge[e].req.op), outcome |-> "allowed"]
        BY <1>2, <2>1, <2>3, <3>2 DEF NoEmit
      <4>2. AuditedAs(edge[e].req.op) = "startup_update" /\ row.ticket = Ticket(e)
        BY <3>2, <4>1
      <4>3. edge[e].req.op = "update"
        BY <4>2 DEF AuditedAs
      <4> QED BY <3>1, <4>2, <4>3 DEF TrueBody
    <3> QED BY <1>1, <2>1, <2>3, <3>1, <3>2
  <2> QED BY <2>2, <2>3
<1>4. CASE ControlRead(e)
  <2>1. edge[e].req.op \notin TenantOps
    BY <1>4 DEF ControlRead, EdgeInv
  <2>2. TrueBody(edge[e].req.op, edge[e].req.arg, Ticket(e), Nothing)
    BY <2>1 DEF TrueBody, TenantOps
  <2>3. answers' = answers \/ Serve(e, Nothing)
    BY <1>4 DEF ControlRead, Deny
  <2>4. \A row \in trail' : row \in trail \/ row.action = "memberships_read"
    BY <1>2, <1>4 DEF ControlRead, NoEmit
  <2> QED BY <1>1, <2>2, <2>3, <2>4
<1>5. CASE Establish(e)
  <2>1. answers' = answers
    BY <1>5 DEF Establish, Deny
  <2>2. \A row \in trail' : row \in trail \/ row.action \in {"CarrierMismatch", "CarrierOnControlAnomaly"}
    BY <1>2, <1>5 DEF Establish, NoEmit
  <2> QED BY <2>1, <2>2
<1>6. CASE Authorize(e)
  <2>1. answers' = answers
    BY <1>6 DEF Authorize, Deny
  <2>2. \A row \in trail' : row \in trail \/ row.action = "RouteDenied"
    BY <1>2, <1>6 DEF Authorize, NoEmit
  <2> QED BY <2>1, <2>2
<1>7. CASE Route(e) \/ GiveUp(e)
  BY <1>7 DEF Route, GiveUp, Deny
<1> QED BY <1>3, <1>4, <1>5, <1>6, <1>7 DEF EdgeStep

LEMMA ToldKept ==
    Shapes /\ EdgeInv /\ GrantInv /\ TxInv /\ AnswersInv /\ [Next]_vars => AnswersTold' /\ TrailInv'
PROOF
<1> SUFFICES ASSUME Shapes, EdgeInv, GrantInv, TxInv, AnswersInv, [Next]_vars PROVE AnswersTold' /\ TrailInv'
  OBVIOUS
<1>1. committed \subseteq committed'
  BY CommittedStays
<1>2. /\ \A a \in answers' : a \in answers \/
            /\ a = [ticket |-> a.ticket, op |-> a.op, arg |-> a.arg, body |-> a.body]
            /\ TrueBody(a.op, a.arg, a.ticket, a.body)
      /\ \A row \in trail' : row \in trail \/ (row.action = "startup_update" => row.ticket \in committed)
  <2>1. \A e \in Edges : Receive(e) => UNCHANGED <<answers, trail>>
    BY DEF Receive
  <2>2. \A s \in Servers : ServerStep(s) \/ Fail(s) => UNCHANGED <<answers, trail>>
    BY ServerStepWorks DEF Works, Accept, Elsewhere, edges
  <2>3. UNCHANGED edges \/ InternalCreate => UNCHANGED <<answers, trail>>
    BY DEF InternalCreate, edges
  <2> QED BY <2>1, <2>2, <2>3, NextFrames, ServedIsTrue
<1>3. ASSUME NEW a \in answers'
      PROVE  /\ a = [ticket |-> a.ticket, op |-> a.op, arg |-> a.arg, body |-> a.body]
             /\ TrueBody(a.op, a.arg, a.ticket, a.body)'
  BY <1>2, TrueBodyStays DEF AnswersInv, AnswersTold
<1> QED BY <1>1, <1>2, <1>3 DEF AnswersInv, AnswersTold, TrailInv

LEMMA ReadbackKept ==
    Shapes /\ CallsInv /\ GrantInv /\ ReadbackInv /\ [Next]_vars => ReadbackInv'
PROOF
<1> SUFFICES ASSUME Shapes, CallsInv, GrantInv, ReadbackInv, [Next]_vars PROVE ReadbackInv'
  OBVIOUS
<1>1. committed \subseteq committed'
  BY CommittedStays
<1>2. CASE UNCHANGED srv
  BY <1>1, <1>2 DEF ReadbackInv
<1>3. ASSUME NEW s \in Servers, Works(s), ServerStep(s) \/ Fail(s) PROVE ReadbackInv'
  <2>1. srv'[s].call = srv[s].call /\ \A o \in Servers \ {s} : srv'[o] = srv[o]
    BY <1>3 DEF Works
  <2>2. ASSUME srv'[s].pc \in {"readbackGrant", "readback"} PROVE srv[s].call.ticket \in committed'
    <3>1. srv[s].pc \in {"update", "readbackGrant"}
      BY <1>3, <2>2 DEF Works, Turns
    <3>2. CASE srv[s].pc = "readbackGrant"
      BY <1>1, <3>2 DEF ReadbackInv
    <3>3. CASE srv[s].pc = "update"
      <4>1. ~Reject(s) /\ ~Step(s, "idle")
        BY <2>2, EndsIdle
      <4>2. ~Fail(s)
        BY <4>1 DEF Fail
      <4>3. Update(s)
        BY <1>3, <3>3, <4>2 DEF ServerStep, After, Accept, Refuse, Grant, Find, ReadDirectory, Lock, Recheck, HoldsSource,
           WriteCopy, AppendLineage, Book, Create, Read
      <4> QED BY <4>1, <4>3 DEF Update
    <3> QED BY <3>1, <3>2, <3>3
  <2> QED BY <1>1, <2>1, <2>2 DEF ReadbackInv
<1>4. ASSUME NEW s \in Servers, Accept(s) PROVE ReadbackInv'
  <2>0. PICK call \in inbox : \E pc : Takes(s, call, pc)
    BY <1>4, AcceptEffect
  <2>1. PICK pc : Takes(s, call, pc)
    BY <2>0
  <2>2. srv'[s].pc = "refuse" \/ srv'[s].pc = Entry[call.op]
    BY <2>1 DEF Takes
  <2>3. call.op \in TenantOps
    BY DEF CallsInv, CallOk
  <2>4. srv'[s].pc \notin {"readbackGrant", "readback"}
    BY <2>2, <2>3 DEF Entry, TenantOps
  <2> QED BY <1>1, <2>1, <2>4 DEF ReadbackInv, Takes
<1>5. \A e \in Edges : Receive(e) \/ EdgeStep(e) => UNCHANGED srv
  BY EdgeStepWorks DEF Receive, EdgeWorks, servers
<1>6. UNCHANGED servers \/ InternalCreate => UNCHANGED srv
  BY DEF InternalCreate, servers
<1> QED BY <1>2, <1>3, <1>4, <1>5, <1>6, NextFrames, ServerStepWorks

\* An answer under way still tells the truth to the edge that waits for it, and no new wait finds an old answer.
LEMMA OnTheirWayKept ==
    Shapes /\ EdgeInv /\ CallsInv /\ GrantInv /\ TxInv /\ DataInv /\ SpentInv /\ AnswersInv /\ [Next]_vars
        => AnswersOnTheirWay'
PROOF
<1> SUFFICES ASSUME Shapes, EdgeInv, CallsInv, GrantInv, TxInv, DataInv, SpentInv, AnswersInv, [Next]_vars,
                    NEW r \in replies'
             PROVE  /\ Sent(r.ticket)'
                    /\ \A e \in Edges : r.ok /\ edge'[e].pc = "wait" /\ r.ticket = Ticket(e)' =>
                           TrueBody(edge[e].req.op, edge[e].req.arg, r.ticket, r.body)'
  BY DEF AnswersOnTheirWay
<1>1. ASSUME r \in replies
      PROVE  Sent(r.ticket)'
  BY <1>1, SentStays DEF AnswersInv, AnswersOnTheirWay
<1>2. ASSUME r \in replies, NEW e \in Edges, edge'[e] = edge[e], r.ok, edge'[e].pc = "wait", r.ticket = Ticket(e)'
      PROVE  TrueBody(edge[e].req.op, edge[e].req.arg, r.ticket, r.body)'
  <2>1. r.ticket = Ticket(e) /\ edge[e].pc = "wait"
    BY <1>2 DEF Ticket
  <2>2. TrueBody(edge[e].req.op, edge[e].req.arg, r.ticket, r.body)
    BY <1>2, <2>1 DEF AnswersInv, AnswersOnTheirWay
  <2>3. PICK op, arg : op = edge[e].req.op /\ arg = edge[e].req.arg
    OBVIOUS
  <2>4. TrueBody(op, arg, r.ticket, r.body)'
    BY <2>2, <2>3, TrueBodyStays
  <2>5. op = edge'[e].req.op /\ arg = edge'[e].req.arg
    BY <1>2, <2>3
  <2> QED BY <2>4, <2>5
<1>3. CASE UNCHANGED <<edge, replies>>
  BY <1>1, <1>2, <1>3
<1>4. ASSUME NEW e \in Edges, Receive(e)
      PROVE  r \in replies /\ edge'[e].pc # "wait" /\ \A f \in Edges \ {e} : edge'[f] = edge[f]
  <2>1. PICK req \in Menu[e] : edge' = [edge EXCEPT ![e] = [pc |-> "establish", n |-> edge[e].n + 1, req |-> req]]
    BY <1>4 DEF Receive
  <2> QED BY <1>4, <2>1 DEF Receive, Shapes, EdgeShapes
<1>5. ASSUME NEW e \in Edges, EdgeStep(e)
      PROVE  /\ r \in replies /\ \A f \in Edges \ {e} : edge'[f] = edge[f]
             /\ edge'[e].pc = "wait" => r.ticket # Ticket(e)'
  <2>1. EdgeWorks(e)
    BY <1>5, EdgeStepWorks
  <2>2. ASSUME edge'[e].pc = "wait" PROVE r.ticket # Ticket(e)'
    <3>1. edge[e].pc = "route" /\ Ticket(e)' = Ticket(e)
      BY <2>1, <2>2 DEF EdgeWorks, EdgeTurns, EdgePcs, EdgeMoves, Ticket
    <3>2. Sent(r.ticket)
      BY <2>1 DEF EdgeWorks, AnswersInv, AnswersOnTheirWay
    <3> QED BY <3>1, <3>2, NotSentYet
  <2> QED BY <2>1, <2>2 DEF EdgeWorks, EdgeMoves
<1>6. ASSUME NEW s \in Servers, ServerStep(s) \/ Fail(s)
      PROVE  /\ Sent(r.ticket)'
             /\ \A e \in Edges : r.ok /\ edge'[e].pc = "wait" /\ r.ticket = Ticket(e)' =>
                    TrueBody(edge[e].req.op, edge[e].req.arg, r.ticket, r.body)'
  <2>1. edge' = edge
    BY <1>6, ServerStepWorks DEF Works, Accept, Elsewhere, edges
  <2>2. CASE r \in replies
    BY <1>1, <1>2, <2>1, <2>2
  <2>3. CASE r \notin replies
    <3>1. PICK ok, body :
            /\ Respond(s, ok, body)
            /\ ok = FALSE \/ \A op, arg, ticket :
                   op = srv[s].call.op /\ arg = Arg(s) /\ ticket = srv[s].call.ticket => TrueBody(op, arg, ticket, body)'
      BY <1>6, <2>3, AnswersTrue DEF Answer, Reject
    <3>2. r = [ticket |-> srv[s].call.ticket, ok |-> ok, body |-> body]
      BY <2>3, <3>1 DEF Respond
    <3>3. r.ticket = srv[s].call.ticket /\ r.ok = ok /\ r.body = body
      BY <3>2
    <3>4. s \in Busy
      <4>1. ~Accept(s)
        BY <2>3, AcceptEffect
      <4> QED BY <1>6, <4>1, ServerStepWorks DEF Works
    <3>5. Sent(r.ticket)'
      BY <3>3, <3>4, SentStays DEF CallsInv, CallOk
    <3>6. ASSUME NEW e \in Edges, r.ok, edge'[e].pc = "wait", r.ticket = Ticket(e)'
          PROVE  TrueBody(edge[e].req.op, edge[e].req.arg, r.ticket, r.body)'
      <4>1. edge[e].pc = "wait" /\ srv[s].call.ticket = Ticket(e)
        BY <2>1, <3>3, <3>6 DEF Ticket
      <4>2. srv[s].call = Call(e)
        BY <3>4, <4>1 DEF CallsInv
      <4>3. srv[s].call.op = edge[e].req.op /\ Arg(s) = edge[e].req.arg
        BY <4>2 DEF Call, Arg
      <4>4. PICK op, arg, ticket : op = srv[s].call.op /\ arg = Arg(s) /\ ticket = srv[s].call.ticket
        OBVIOUS
      <4>5. TrueBody(op, arg, ticket, body)'
        BY <3>1, <3>3, <3>6, <4>4
      <4>6. op = edge'[e].req.op /\ arg = edge'[e].req.arg /\ ticket = r.ticket /\ body = r.body
        BY <2>1, <3>3, <4>3, <4>4
      <4> QED BY <4>5, <4>6
    <3> QED BY <3>5, <3>6
  <2> QED BY <2>2, <2>3
<1>7. CASE UNCHANGED <<edges, inbox, replies, servers, internals>>
  BY <1>3, <1>7 DEF edges
<1>8. CASE InternalCreate
  BY <1>3, <1>8 DEF InternalCreate, edges
<1> QED BY <1>1, <1>2, <1>4, <1>5, <1>6, <1>7, <1>8, NextFrames

\* A constraint refuses an import only over a copy made by hand.
LEMMA RefusedKept == Shapes /\ TxInv /\ LockServes /\ [Next]_vars => LockServes'
PROOF
<1> SUFFICES ASSUME Shapes, TxInv, LockServes, [Next]_vars PROVE LockServes'
  OBVIOUS
<1>1. CASE UNCHANGED refused
  BY <1>1 DEF LockServes
<1>2. ASSUME NEW s \in Servers, WriteCopy(s) PROVE LockServes'
  <2>1. CASE Holders(srv[s].db, Arg(s)) = {}
    BY <1>1, <1>2, <2>1 DEF WriteCopy
  <2>2. CASE Holders(srv[s].db, Arg(s)) # {}
    <3>1. refused' = refused \cup {[constraint |-> "global_startup_id", by |-> row.id] : row \in Holders(srv[s].db, Arg(s))}
      BY <1>2, <2>2 DEF WriteCopy, Violation
    <3>2. \A row \in Holders(srv[s].db, Arg(s)) : row.id[1] = "internal"
      BY <1>2 DEF WriteCopy, TxInv, TxOk
    <3> QED BY <3>1, <3>2 DEF LockServes
  <2> QED BY <2>1, <2>2
<1>3. ASSUME NEW s \in Servers, Create(s) PROVE LockServes'
  <2>1. CASE Holders(srv[s].db, Arg(s)) = {}
    BY <1>1, <1>3, <2>1 DEF Create
  <2>2. CASE Holders(srv[s].db, Arg(s)) # {}
    <3>1. refused' = refused \cup {[constraint |-> "create", by |-> row.id] : row \in Holders(srv[s].db, Arg(s))}
      BY <1>3, <2>2 DEF Create, Violation
    <3> QED BY <3>1 DEF LockServes
  <2> QED BY <2>1, <2>2
<1>4. ASSUME NEW e \in Edges, Receive(e) \/ EdgeStep(e) PROVE UNCHANGED refused
  BY <1>4, EdgeStepWorks DEF Receive, EdgeWorks, servers
<1>5. UNCHANGED servers \/ InternalCreate => UNCHANGED refused
  BY DEF InternalCreate, servers
<1>6. ASSUME NEW s \in Servers, ServerStep(s) \/ Fail(s), ~WriteCopy(s), ~Create(s) PROVE UNCHANGED refused
  BY <1>6 DEF ServerStep, Accept, Refuse, Grant, Find, ReadDirectory, Lock, Recheck, HoldsSource, AppendLineage,
     Book, Update, Read, Fail
<1> QED BY <1>1, <1>2, <1>3, <1>4, <1>5, <1>6, NextFrames

-----------------------------------------------------------------------------
(***************************************************************************)
(* IInv holds first and is kept.                                           *)
(***************************************************************************)
LEMMA EmptyIsWhole == Whole(EmptyDatabase)
PROOF
<1>1. PICK db : db = EmptyDatabase
  OBVIOUS
<1>2. db.rows = {} /\ db.lineage = {} /\ db.jobs = {}
  BY <1>1 DEF EmptyDatabase
<1>3. Seqs(db.lineage) = 1..0
  BY <1>2 DEF Seqs
<1>4. OneChain(db.lineage)
  BY <1>2, <1>3 DEF OneChain, Numbered, Linked
<1>5. Whole(db)
  BY <1>2, <1>4 DEF Whole
<1> QED BY <1>1, <1>5

LEMMA InitInv == Init => IInv
PROOF
<1> SUFFICES ASSUME Init PROVE IInv
  OBVIOUS
<1>1. \A e \in Edges : edge[e] = [pc |-> "idle", n |-> 0, req |-> [op |-> "none"]]
  BY DEF Init, Idle
<1>2. \A s \in Servers :
        srv[s] = [pc |-> "idle", call |-> [ticket |-> NoTicket], since |-> 0, rev |-> 0, db |-> NoDatabase]
  BY DEF Init, NoServer
<1>3. \A s \in Servers : tx[s] = NoTx /\ tx[s] = [rows |-> {}, lineage |-> {}]
  BY DEF Init, NoTx
<1>4. \A d \in Databases : /\ data[d] = EmptyDatabase
                           /\ data[d] = [rows |-> {}, lineage |-> {}, jobs |-> {}]
  BY DEF Init, EmptyDatabase
<1>5. Busy = {}
  BY <1>2 DEF Busy
<1>6. Shapes
  <2>1. ControlShapes
    BY PortalAssumption DEF Init, ControlShapes
  <2>2. EdgeShapes
    BY <1>1 DEF Init, EdgeShapes, EdgePcs
  <2>3. ServerShapes
    BY <1>2 DEF Init, ServerShapes, ServerPcs
  <2>4. DataShapes
    BY <1>4 DEF Init, DataShapes
  <2>5. TxShapes
    BY <1>3 DEF Init, TxShapes
  <2> QED BY <2>1, <2>2, <2>3, <2>4, <2>5 DEF Shapes
<1>7. EdgeInv
  BY <1>1 DEF EdgeInv
<1>8. CallsInv /\ GrantInv
  BY <1>1, <1>5 DEF Init, CallsInv, GrantInv
<1>9. TxInv
  BY <1>2, <1>3 DEF TxInv, TxOk, ImportTx
<1>10. DataInv
  BY <1>4, EmptyIsWhole DEF DataInv
<1>11. SpentInv
  BY <1>4 DEF SpentInv
<1>12. AnswersInv
  BY <1>2 DEF Init, AnswersInv, AnswersTold, AnswersOnTheirWay, ReadbackInv, TrailInv
<1>13. LockServes
  BY DEF Init, LockServes
<1> QED BY <1>6, <1>7, <1>8, <1>9, <1>10, <1>11, <1>12, <1>13 DEF IInv

LEMMA NextInv == IInv /\ [Next]_vars => IInv'
PROOF
<1> SUFFICES ASSUME IInv, [Next]_vars PROVE IInv'
  OBVIOUS
<1>1. Shapes' /\ EdgeInv' /\ CallsInv' /\ GrantInv' /\ TxInv'
  BY ShapesKept, EdgeKept, CallsKept, GrantKept, TxKept DEF IInv
<1>2. DataInv' /\ SpentInv' /\ LockServes'
  BY DataKept, SpentKept, RefusedKept DEF IInv
<1>3. AnswersInv'
  BY ToldKept, ReadbackKept, OnTheirWayKept DEF IInv, AnswersInv
<1> QED BY <1>1, <1>2, <1>3 DEF IInv

-----------------------------------------------------------------------------
(***************************************************************************)
(* The theorems.                                                           *)
(***************************************************************************)

(***************************************************************************)
(* Whatever is sent, refused, lost or killed, the processes of the second  *)
(* stack stay in the states IInv describes: each call under way is of one  *)
(* ticket and one requester, each transaction has written what its place   *)
(* says, each grant is of a descriptor the registry had since the call.    *)
(***************************************************************************)
THEOREM PortalInvariance == Spec => []IInv
PROOF
<1>1. Init => IInv
  BY InitInv
<1>2. IInv /\ [Next]_vars => IInv'
  BY NextInv
<1> QED BY <1>1, <1>2, PTL DEF Spec

(***************************************************************************)
(* import_service commits copy, lineage and bookkeeping as one: in every   *)
(* tenant database they tell of the same imports, each source at most      *)
(* once, the lineage verifies, and only a copy made by hand lacks its row. *)
(***************************************************************************)
THEOREM WholeImports == Spec => []ImportsAreWhole
PROOF
<1>1. ASSUME IInv PROVE ImportsAreWhole
  <2> SUFFICES ASSUME NEW d \in Databases
               PROVE  LET lineage == data[d].lineage IN
                      /\ Findings(lineage) = {}
                      /\ {row.event.key : row \in lineage} = data[d].jobs
                      /\ \A row, other \in lineage : row.event.key = other.event.key => row = other
                      /\ \A row \in lineage :
                          \E copy \in data[d].rows : copy.id = row.event.target.id /\ copy.source = row.event.source
                      /\ \A copy \in data[d].rows :
                          \/ copy.source = NoSource \/ copy.id[1] = "internal"
                          \/ \E row \in lineage : row.event.target.id = copy.id
    BY DEF ImportsAreWhole
  <2>1. Whole(data[d])
    BY <1>1 DEF IInv, DataInv
  <2>2. Findings(data[d].lineage) = {}
    BY <2>1, ChainHasNoFindings DEF Whole
  <2>3. \A row, other \in data[d].lineage : row.event.key = other.event.key => row = other
    BY <2>1 DEF Whole
  <2> QED BY <2>1, <2>2, <2>3 DEF Whole
<1> QED BY <1>1, PortalInvariance, PTL

(***************************************************************************)
(* What the BFF tells a client has happened, once: an import it is told of *)
(* is on record under that source, two answers about one source name one   *)
(* record, one of them at most says created, and an update answered or     *)
(* audited as a success is committed -- whichever answers were lost and    *)
(* whichever calls ran late.                                               *)
(***************************************************************************)
THEOREM TrueAnswers == Spec => []AnswersAreTrue
PROOF
<1>1. ASSUME IInv PROVE AnswersAreTrue
  <2>1. ASSUME NEW a \in answers
        PROVE  /\ a = [ticket |-> a.ticket, op |-> a.op, arg |-> a.arg, body |-> a.body]
               /\ a.op \in {"create", "update"} => a.ticket \in committed
               /\ a.op = "import" =>
                   /\ a.body = [db |-> a.body.db, target |-> a.body.target, fresh |-> a.body.fresh]
                   /\ a.body.db \in Databases /\ a.body.fresh \in BOOLEAN
                   /\ \E row \in data[a.body.db].lineage : row.event.source = a.arg /\ row.event.target = a.body.target
                   /\ a.body.fresh <=> a.body.target.id = a.ticket
    BY <1>1 DEF IInv, AnswersInv, AnswersTold, TrueBody
  <2>2. ASSUME NEW a \in answers, NEW b \in answers, a.op = "import", b.op = "import",
               a.body.db = b.body.db, a.arg = b.arg
        PROVE  a.body.target = b.body.target
    <3>1. PICK row \in data[a.body.db].lineage : row.event.source = a.arg /\ row.event.target = a.body.target
      BY <2>1, <2>2
    <3>2. PICK other \in data[a.body.db].lineage : other.event.source = a.arg /\ other.event.target = b.body.target
      <4>1. \E mine \in data[b.body.db].lineage : mine.event.source = b.arg /\ mine.event.target = b.body.target
        BY <2>1, <2>2
      <4> QED BY <2>2, <4>1
    <3>3. Whole(data[a.body.db])
      BY <1>1, <2>1, <2>2 DEF IInv, DataInv
    <3>4. row = other
      BY <3>1, <3>2, <3>3 DEF Whole
    <3> QED BY <3>1, <3>2, <3>4
  <2>3. ASSUME NEW a \in answers, NEW b \in answers, a.op = "import", b.op = "import",
               a.body.db = b.body.db, a.arg = b.arg, a.body.fresh, b.body.fresh
        PROVE  a = b
    <3>1. a.body.target = b.body.target
      BY <2>2, <2>3
    <3>2. a.ticket = b.ticket
      <4>1. a.body.target.id = a.ticket
        BY <2>1, <2>3
      <4>2. b.body.target.id = b.ticket
        BY <2>1, <2>3
      <4> QED BY <3>1, <4>1, <4>2
    <3>3. a.body.fresh = b.body.fresh
      BY <2>1, <2>3
    <3>4. a.body = b.body
      BY <2>1, <2>3, <3>1, <3>3
    <3>5. /\ a = [ticket |-> a.ticket, op |-> a.op, arg |-> a.arg, body |-> a.body]
          /\ b = [ticket |-> b.ticket, op |-> b.op, arg |-> b.arg, body |-> b.body]
      BY <2>1, <2>3
    <3>6. a.op = b.op /\ a.arg = b.arg
      BY <2>3
    <3> QED BY <3>2, <3>4, <3>5, <3>6, Zenon
  <2>4. \A row \in trail : row.action = "startup_update" => row.ticket \in committed
    BY <1>1 DEF IInv, AnswersInv, TrailInv
  <2> QED BY <2>1, <2>2, <2>3, <2>4 DEF AnswersAreTrue
<1> QED BY <1>1, PortalInvariance, PTL

(***************************************************************************)
(* The advisory lock and the check made under it (store.py:88): a UNIQUE   *)
(* constraint stops an import only over a copy made by hand.               *)
(***************************************************************************)
THEOREM LockSuffices == Spec => []LockServes
PROOF
<1>1. IInv => LockServes
  BY DEF IInv
<1> QED BY <1>1, PortalInvariance, PTL

(***************************************************************************)
(* A tenant database changes only in a step of a service whose grant names *)
(* it, was of an ACTIVE descriptor and is younger than the call, for a     *)
(* member of the tenant (tenant_data.py:71).                               *)
(***************************************************************************)
THEOREM GrantedWrites == Spec => WritesAreGranted
PROOF
<1>1. ASSUME IInv, [Next]_vars
      PROVE  \A d \in Databases : data'[d] # data[d] => \E s \in Servers : srv'[s] # srv[s] /\ Justified(s, d)
  <2> SUFFICES ASSUME NEW d \in Databases, data'[d] # data[d]
               PROVE  \E s \in Servers : srv'[s] # srv[s] /\ Justified(s, d)
    OBVIOUS
  <2>1. Shapes /\ GrantInv
    BY <1>1 DEF IInv
  <2>2. PICK s \in Servers : Book(s) \/ Create(s) \/ Update(s)
    BY <1>1, <2>1, WritersOnly
  <2>3. s \in Busy /\ srv[s].pc \in Bound /\ srv[s].db \in Databases
    BY <2>1, <2>2, WritersAreBound
  <2>4. d = srv[s].db
    <3>1. ASSUME NEW rows, NEW lineage, NEW jobs, DataBecomes(srv[s].db, rows, lineage, jobs) PROVE d = srv[s].db
      BY <3>1 DEF DataBecomes
    <3>2. CASE Book(s)
      BY <2>1, <2>3, <3>1, <3>2, BookEffect
    <3>3. CASE Create(s)
      BY <2>1, <2>3, <3>1, <3>3, CreateEffect
    <3>4. CASE Update(s)
      BY <2>1, <2>3, <3>1, <3>4, UpdateEffect
    <3> QED BY <2>2, <3>2, <3>3, <3>4
  <2>5. Justified(s, srv[s].db)
    BY <2>1, <2>3 DEF GrantInv, Held
  <2>6. srv'[s] # srv[s]
    <3>1. ASSUME Moves(s, "idle") \/ Moves(s, "readbackGrant") PROVE srv'[s] # srv[s]
      <4>1. srv'[s].pc \in {"idle", "readbackGrant"}
        BY <3>1 DEF Moves
      <4>2. srv[s].pc \notin {"idle", "readbackGrant"}
        BY <2>3 DEF Bound, ImportTx
      <4> QED BY <4>1, <4>2
    <3>2. CASE Book(s)
      BY <2>1, <3>1, <3>2, EndsIdle DEF Book
    <3>3. CASE Create(s)
      BY <2>1, <3>1, <3>3, EndsIdle DEF Create, Violation
    <3>4. CASE Update(s)
      BY <2>1, <3>1, <3>4, EndsIdle, StepMoves DEF Update
    <3> QED BY <2>2, <3>2, <3>3, <3>4
  <2> QED BY <2>4, <2>5, <2>6
<1>2. IInv /\ [Next]_vars => [\A d \in Databases :
          data'[d] # data[d] => \E s \in Servers : srv'[s] # srv[s] /\ Justified(s, d)]_vars
  BY <1>1
<1>3. []IInv /\ [][Next]_vars => WritesAreGranted
  BY <1>2, PTL DEF WritesAreGranted
<1> QED BY <1>3, PortalInvariance, PTL DEF Spec
=============================================================================
