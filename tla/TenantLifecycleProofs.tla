------------------------ MODULE TenantLifecycleProofs ------------------------
(***************************************************************************)
(* Proofs about TenantLifecycle, for every set of tenants, workers,        *)
(* databases and references, with every fault enabled.                     *)
(***************************************************************************)
EXTENDS TenantLifecycle, TLAPS

USE LifecycleAssumption, DistinctnessAssumption

\* The steps that only move job[w].
LEMMA JobType ==
    ASSUME TypeOK, NEW w \in Workers, NEW j \in Jobs,
           j.pc # "idle" => j.t \in Tenants,
           job' = [job EXCEPT ![w] = j]
    PROVE  /\ job' \in [Workers -> Jobs]
           /\ \A v \in Workers : job'[v].pc # "idle" => job'[v].t \in Tenants
BY DEF TypeOK

LEMMA IdleType == Idle \in Jobs
BY DEF Idle, Jobs, Pcs, Legs, Rows, NoRow, NoEvidence, Evidence, Results, Absent, States, LC!Absent, LC!States

LEMMA InitType == Init => TypeOK
<1> SUFFICES ASSUME Init PROVE TypeOK
    OBVIOUS
<1>1. job \in [Workers -> Jobs]
    BY IdleType DEF Init
<1>2. \A w \in Workers : job[w].pc = "idle"
    BY DEF Init, Idle
<1>3. /\ tenants \in [Tenants -> Rows]
      /\ trail \in [Tenants -> [from : States \cup {Absent}, to : States \cup {Absent}]]
    BY DEF Init, Rows, NoRow, States, Absent, LC!States, LC!Absent
<1>4. ledger \in [Tenants -> Evidence] /\ verified \in [Tenants -> Evidence]
    BY DEF Init, Evidence, NoEvidence
<1>5. unpaired \subseteq Tenants /\ ops \in 0..MaxOps
    BY DEF Init
<1>6. anomalies \subseteq Tenants /\ dbs \subseteq Tenants
    BY DEF Init
<1> QED
    BY <1>1, <1>2, <1>3, <1>4, <1>5, <1>6 DEF TypeOK

LEMMA StartType ==
    ASSUME TypeOK, NEW w \in Workers, Start(w)
    PROVE  TypeOK'
<1>1. PICK c \in Allowed[w], r \in Refs :
        job' = [job EXCEPT ![w] = [Idle EXCEPT !.pc = Entry[c[1]], !.t = c[2],
                                               !.to = Target(c[1]), !.ref = r]]
    BY DEF Start
<1>2. c \in Ops \X Tenants
    OBVIOUS
<1> DEFINE j == [Idle EXCEPT !.pc = Entry[c[1]], !.t = c[2],
                             !.to = Target(c[1]), !.ref = r]
<1>3. Target(c[1]) \in States \cup {Absent}
    BY <1>2 DEF Target, Ops, States, Absent, LC!States, LC!Absent
<1>4. Entry[c[1]] \in Pcs
    BY <1>2 DEF Entry, Ops, Pcs
<1>5. j \in Jobs /\ j.t \in Tenants
    BY <1>2, <1>3, <1>4, IdleType DEF Jobs
<1>6. /\ job' \in [Workers -> Jobs]
      /\ \A v \in Workers : job'[v].pc # "idle" => job'[v].t \in Tenants
    <2> HIDE DEF j
    <2> QED BY <1>1, <1>5, JobType DEF j
<1>7. ops' \in 0..MaxOps
    BY DEF Start, TypeOK
<1> QED
    BY <1>6, <1>7 DEF Start, TypeOK, Quiet

-----------------------------------------------------------------------------
(***************************************************************************)
(* Type correctness of the ways a call goes on.                            *)
(***************************************************************************)
JobsTyped ==
    /\ job \in [Workers -> Jobs]
    /\ \A w \in Workers : job[w].pc # "idle" => job[w].t \in Tenants

\* The updates of a job that the actions make.
LEMMA JobUpdates ==
    ASSUME NEW j \in Jobs, NEW pc \in Pcs, NEW rec \in Rows, NEW ev \in Evidence,
           NEW out \in Results, NEW leg \in Legs, NEW to \in States \cup {Absent}
    PROVE  /\ [j EXCEPT !.pc = pc] \in Jobs
           /\ [j EXCEPT !.pc = pc, !.rec = rec] \in Jobs
           /\ [j EXCEPT !.pc = pc, !.rec = rec, !.tries = 2] \in Jobs
           /\ [j EXCEPT !.pc = pc, !.ev = ev] \in Jobs
           /\ [j EXCEPT !.pc = pc, !.out = out] \in Jobs
           /\ [j EXCEPT !.pc = pc, !.leg = leg] \in Jobs
           /\ [j EXCEPT !.pc = pc, !.to = to] \in Jobs
BY DEF Jobs

(***************************************************************************)
(* Only the job of w moves, and it stays well-typed.                       *)
(***************************************************************************)
Moved(w) == JobsTyped' /\ \A v \in Workers \ {w} : job'[v] = job[v]

LEMMA MovedTo ==
    ASSUME TypeOK, NEW w \in Workers, NEW j \in Jobs, job[w].pc # "idle",
           j.t = job[w].t, job' = [job EXCEPT ![w] = j]
    PROVE  Moved(w) /\ job'[w] = j
<1>1. job[w].t \in Tenants
    BY DEF TypeOK
<1>2. JobsTyped'
    BY <1>1, JobType DEF JobsTyped
<1> QED
    BY <1>2 DEF Moved, TypeOK

LEMMA GotoMoves ==
    ASSUME TypeOK, NEW w \in Workers, NEW pc \in Pcs, job[w].pc # "idle", Goto(w, pc)
    PROVE  Moved(w) /\ job'[w] = [job[w] EXCEPT !.pc = pc]
<1> DEFINE j == [job[w] EXCEPT !.pc = pc]
<1>1. job[w] \in Jobs
    BY DEF TypeOK
<1>2. j \in Jobs /\ j.t = job[w].t
    BY <1>1, JobUpdates DEF Jobs
<1>3. job' = [job EXCEPT ![w] = j]
    BY DEF Goto, TypeOK
<1> QED
    BY <1>2, <1>3, MovedTo

LEMMA DoneMoves ==
    ASSUME TypeOK, NEW w \in Workers, Done(w)
    PROVE  Moved(w) /\ job'[w].pc = "idle"
<1>1. JobsTyped'
    BY IdleType, JobType DEF JobsTyped, Done, Idle
<1> QED
    BY <1>1, IdleType DEF Moved, Done, TypeOK, Idle

LEMMA SettleMoves ==
    ASSUME TypeOK, NEW w \in Workers, job[w].pc # "idle", Settle(w)
    PROVE  Moved(w) /\ job'[w].pc \in {"idle", "terminal"}
<1>1. CASE Done(w)
    BY <1>1, DoneMoves
<1>2. CASE Goto(w, "terminal")
    <2>1. job[w] \in Jobs /\ "terminal" \in Pcs
        BY DEF TypeOK, Pcs
    <2>2. Moved(w) /\ job'[w] = [job[w] EXCEPT !.pc = "terminal"]
        BY <1>2, <2>1, GotoMoves
    <2> QED BY <2>1, <2>2 DEF Jobs
<1> QED
    BY <1>1, <1>2 DEF Settle

LEMMA ThrowMoves ==
    ASSUME TypeOK, NEW w \in Workers, job[w].pc # "idle", Throw(w)
    PROVE  Moved(w) /\ job'[w].pc \in {"idle", "terminal"} /\ unpaired' \subseteq Tenants
<1>1. CASE Done(w)
    BY <1>1, DoneMoves DEF Throw, TypeOK
<1>2. CASE Goto(w, "terminal")
    <2>1. job[w] \in Jobs /\ "terminal" \in Pcs
        BY DEF TypeOK, Pcs
    <2>2. Moved(w) /\ job'[w] = [job[w] EXCEPT !.pc = "terminal"]
        BY <1>2, <2>1, GotoMoves
    <2>3. unpaired' \subseteq Tenants
        BY DEF Throw, TypeOK
    <2> QED BY <2>1, <2>2, <2>3 DEF Jobs
<1> QED
    BY <1>1, <1>2 DEF Throw

-----------------------------------------------------------------------------
(***************************************************************************)
(* The inductive invariant.                                                *)
(***************************************************************************)
IInv ==
    /\ TypeOK
    /\ SnapshotsCoherent
    /\ TrailMatchesState
    /\ ReadyIsVerified
    /\ AnomalyHolds

\* Where nothing is remembered about a row.
BlankPcs == {"idle", "provision", "apply", "vRead", "vReread", "recRead", "recHistory",
             "reRead", "disable", "terminal"}

LEMMA BlankCoherent ==
    ASSUME NEW w \in Workers, NEW j \in Jobs, j.pc \in BlankPcs, NEW rows, NEW last
    PROVE  JobCoherent(w, j, rows, last)
BY DEF BlankPcs, JobCoherent, SnapshotPcs, GatePcs

\* A step by w that leaves every row and every trail alone.
LEMMA QuietKeeps ==
    ASSUME IInv, NEW w \in Workers, Moved(w), Quiet,
           JobCoherent(w, job'[w], tenants, trail),
           ledger' \in [Tenants -> Evidence],
           anomalies' = anomalies \/ (\E t \in Tenants :
                /\ anomalies' = anomalies \cup {t}
                /\ tenants[t].state \in {"Quarantined", "Decommissioned"}),
           dbs' \subseteq Tenants, unpaired' \subseteq Tenants, ops' \in 0..MaxOps
    PROVE  IInv' /\ UNCHANGED LC!vars
<1>1. TypeOK'
    BY DEF IInv, TypeOK, Quiet, Moved, JobsTyped
<1>2. SnapshotsCoherent'
    BY DEF IInv, SnapshotsCoherent, Moved, Quiet
<1>3. TrailMatchesState' /\ ReadyIsVerified'
    BY DEF IInv, TrailMatchesState, ReadyIsVerified, Quiet
<1>4. AnomalyHolds'
    BY DEF IInv, AnomalyHolds, Quiet
<1>5. UNCHANGED LC!vars
    BY DEF Quiet, LC!vars
<1> QED
    BY <1>1, <1>2, <1>3, <1>4, <1>5 DEF IInv

\* The common case: only job[w] moves, to a place where nothing is remembered.
LEMMA BlankKeeps ==
    ASSUME IInv, NEW w \in Workers, Moved(w), job'[w].pc \in BlankPcs, Local,
           unpaired' \subseteq Tenants
    PROVE  IInv' /\ UNCHANGED LC!vars
<1>1. JobCoherent(w, job'[w], tenants, trail)
    BY BlankCoherent DEF Moved, JobsTyped
<1> QED
    BY <1>1, QuietKeeps DEF Local, IInv, TypeOK

LEMMA ContractStep ==
    ASSUME NEW t \in Tenants,
           LC!AuditRegistration(t) \/ LC!Register(t) \/ LC!Transition(t)
    PROVE  LC!Next
BY DEF LC!Next

LEMMA EdgeFacts ==
    ASSUME NEW r, NEW s, <<r, s>> \in LC!Edges
    PROVE  /\ r \in States /\ s \in States
           /\ r = "Quarantined" => s = "Decommissioned"
           /\ r # "Decommissioned"
BY DEF LC!Edges, LC!States, States

(***************************************************************************)
(* A compare-and-swap that finds its version: the snapshot is the row, so  *)
(* the change is an edge out of the row's own state, and every snapshot    *)
(* another call holds of it becomes old.                                   *)
(***************************************************************************)
LEMMA CommitKeeps ==
    ASSUME IInv, NEW w \in Workers, NEW s \in States, NEW ref \in Refs,
           job[w].pc \in SnapshotPcs, Fresh(w), Commit(w, s, ref), Moved(w),
           <<job[w].rec.state, s>> \in LC!Edges,
           s = "Ready" => Proven(job[w].t, job[w].ev, ref),
           JobCoherent(w, job'[w], tenants', trail')
    PROVE  IInv' /\ LC!Next
<1>0. PICK t \in Tenants : t = job[w].t
    BY DEF IInv, TypeOK, SnapshotPcs
<1> USE <1>0
<1> DEFINE row == Swapped(w, s, ref)
<1>1. /\ job[w] \in Jobs /\ t \in Tenants /\ tenants[t] \in Rows
      /\ job[w].rec \in Rows /\ job[w].ev \in Evidence
    BY DEF IInv, TypeOK, SnapshotPcs, Jobs
<1>2. job[w].rec = tenants[t] /\ tenants[t].state # Absent
    BY DEF IInv, SnapshotsCoherent, JobCoherent, Coherent, Fresh
<1>3. /\ row \in Rows /\ row.state = s /\ row.assoc = ref
      /\ row.version = tenants[t].version + 1
    BY <1>1, <1>2 DEF Swapped, Rows
<1>4. /\ tenants' = [tenants EXCEPT ![t] = row]
      /\ trail' = [trail EXCEPT ![t] = [from |-> tenants[t].state, to |-> s]]
      /\ verified' = [verified EXCEPT ![t] = IF s = "Ready" THEN job[w].ev ELSE NoEvidence]
      /\ UNCHANGED <<ledger, anomalies, dbs, unpaired, ops>>
    BY <1>2 DEF Commit
<1> HIDE DEF row
<1>5. s # Absent
    BY DEF States, Absent, LC!States, LC!Absent
<1>6. TypeOK'
    <2>1. tenants' \in [Tenants -> Rows]
        BY <1>1, <1>3, <1>4 DEF IInv, TypeOK
    <2>2. trail' \in [Tenants -> [from : States \cup {Absent}, to : States \cup {Absent}]]
        BY <1>1, <1>4 DEF IInv, TypeOK, Rows
    <2>3. verified' \in [Tenants -> Evidence]
        BY <1>1, <1>4 DEF IInv, TypeOK, NoEvidence, Evidence
    <2> QED
        BY <2>1, <2>2, <2>3, <1>4 DEF IInv, TypeOK, Moved, JobsTyped
<1>7. SnapshotsCoherent'
    <2>1. SUFFICES ASSUME NEW v \in Workers, v # w
                   PROVE  JobCoherent(v, job[v], tenants', trail')
        BY DEF SnapshotsCoherent, Moved
    <2>2. JobCoherent(v, job[v], tenants, trail) /\ job[v] \in Jobs
        BY DEF IInv, SnapshotsCoherent, TypeOK
    <2>3. CASE job[v].t # t \/ job[v].pc = "idle"
        BY <2>2, <2>3, <1>1, <1>4 DEF JobCoherent, IInv, TypeOK, SnapshotPcs, GatePcs
    <2>4. CASE job[v].t = t /\ job[v].pc # "idle"
        <3>1. tenants'[t] = row /\ tenants[t].version \in Nat /\ job[v].rec.version \in Nat
            BY <2>2, <1>1, <1>4 DEF IInv, TypeOK, Jobs, Rows
        <3>2. job[v].pc \in SnapshotPcs => Coherent(job[v].rec, row)
            BY <3>1, <2>2, <2>4, <1>3, <1>5 DEF JobCoherent, Coherent
        <3>3. job[v].pc \notin {"regAudit", "regPut"}
            BY <2>2, <2>4, <1>2 DEF JobCoherent
        <3>4. job[v].pc = "vAnomaly" => row.state \in {"Quarantined", "Decommissioned"}
            BY <2>2, <2>4, <1>2, <1>3, EdgeFacts DEF JobCoherent
        <3> QED
            BY <3>1, <3>2, <3>3, <3>4, <2>2, <2>4 DEF JobCoherent
    <2> QED BY <2>3, <2>4
<1>8. TrailMatchesState'
    BY <1>1, <1>3, <1>4 DEF IInv, TrailMatchesState, TypeOK
<1>9. ReadyIsVerified'
    <2>1. SUFFICES ASSUME NEW u \in Tenants, tenants'[u].state = "Ready"
                   PROVE  Proven(u, verified'[u], tenants'[u].assoc)
        BY DEF ReadyIsVerified
    <2>2. CASE u = t
        BY <2>1, <2>2, <1>1, <1>3, <1>4 DEF IInv, TypeOK
    <2>3. CASE u # t
        <3>1. tenants'[u] = tenants[u] /\ verified'[u] = verified[u]
            BY <2>3, <1>4 DEF IInv, TypeOK
        <3> QED BY <2>1, <3>1 DEF IInv, ReadyIsVerified
    <2> QED BY <2>2, <2>3
<1>10. AnomalyHolds'
    BY <1>1, <1>2, <1>3, <1>4, EdgeFacts DEF IInv, AnomalyHolds, TypeOK
<1>11. LC!Transition(t)
    <2>1. [u \in Tenants |-> tenants'[u].state]
            = [[u \in Tenants |-> tenants[u].state] EXCEPT ![t] = s]
        BY <1>1, <1>3, <1>4 DEF IInv, TypeOK
    <2> QED
        BY <2>1, <1>1, <1>2, <1>4, EdgeFacts DEF LC!Transition, States
<1>12. IInv'
    BY <1>6, <1>7, <1>8, <1>9, <1>10 DEF IInv
<1>13. LC!Next
    BY <1>1, <1>11, ContractStep
<1> QED
    BY <1>12, <1>13

-----------------------------------------------------------------------------
(***************************************************************************)
(* One lemma per action.                                                   *)
(***************************************************************************)
Keeps == IInv' /\ (LC!Next \/ UNCHANGED LC!vars)

\* Where a Goto ends, field by field.
LEMMA GotoFields ==
    ASSUME IInv, NEW w \in Workers, NEW pc \in Pcs, job[w].pc # "idle", Goto(w, pc)
    PROVE  /\ Moved(w) /\ job'[w] \in Jobs /\ job'[w].pc = pc
           /\ job'[w].t = job[w].t /\ job'[w].rec = job[w].rec
           /\ job'[w].to = job[w].to /\ job'[w].ev = job[w].ev
<1>1. job[w] \in Jobs /\ TypeOK
    BY DEF IInv, TypeOK
<1>2. Moved(w) /\ job'[w] = [job[w] EXCEPT !.pc = pc]
    BY <1>1, GotoMoves
<1>3. job'[w] \in Jobs
    BY <1>2 DEF Moved, JobsTyped
<1> QED
    BY <1>1, <1>2, <1>3 DEF Jobs

LEMMA GotoWithFields ==
    ASSUME IInv, NEW w \in Workers, NEW pc \in Pcs, NEW rec \in Rows, job[w].pc # "idle",
           GotoWith(w, pc, rec)
    PROVE  /\ Moved(w) /\ job'[w] \in Jobs /\ job'[w].pc = pc
           /\ job'[w].t = job[w].t /\ job'[w].rec = rec
           /\ job'[w].to = job[w].to /\ job'[w].ev = job[w].ev
<1>1. job[w] \in Jobs /\ TypeOK
    BY DEF IInv, TypeOK
<1> DEFINE j == [job[w] EXCEPT !.pc = pc, !.rec = rec]
<1>4. j \in Jobs /\ j.t = job[w].t
    BY <1>1, JobUpdates DEF Jobs
<1>5. job' = [job EXCEPT ![w] = j]
    BY <1>1 DEF GotoWith, TypeOK
<1>2. Moved(w) /\ job'[w] = j
    BY <1>1, <1>4, <1>5, MovedTo
<1>3. job'[w] \in Jobs
    BY <1>2 DEF Moved, JobsTyped
<1> QED
    BY <1>1, <1>2, <1>3 DEF Jobs

LEMMA ThrowKeeps ==
    ASSUME IInv, NEW w \in Workers, job[w].pc # "idle", Throw(w), Local
    PROVE  Keeps
<1>1. Moved(w) /\ job'[w].pc \in BlankPcs /\ unpaired' \subseteq Tenants
    BY ThrowMoves DEF IInv, BlankPcs
<1> QED
    BY <1>1, BlankKeeps DEF Keeps

LEMMA SettleKeeps ==
    ASSUME IInv, NEW w \in Workers, job[w].pc # "idle", Settle(w), Local, UNCHANGED unpaired
    PROVE  Keeps
<1>1. Moved(w) /\ job'[w].pc \in BlankPcs /\ unpaired' \subseteq Tenants
    BY SettleMoves DEF IInv, BlankPcs, TypeOK
<1> QED
    BY <1>1, BlankKeeps DEF Keeps

LEMMA DoneKeeps ==
    ASSUME IInv, NEW w \in Workers, Done(w), Local, UNCHANGED unpaired
    PROVE  Keeps
<1>1. Moved(w) /\ job'[w].pc \in BlankPcs /\ unpaired' \subseteq Tenants
    BY DoneMoves DEF IInv, BlankPcs, TypeOK
<1> QED
    BY <1>1, BlankKeeps DEF Keeps

LEMMA GotoKeeps ==
    ASSUME IInv, NEW w \in Workers, NEW pc \in BlankPcs, job[w].pc # "idle",
           Goto(w, pc), Local, UNCHANGED unpaired
    PROVE  Keeps
<1>1. pc \in Pcs
    BY DEF BlankPcs, Pcs
<1>2. Moved(w) /\ job'[w].pc \in BlankPcs /\ unpaired' \subseteq Tenants
    BY <1>1, GotoFields DEF IInv, TypeOK
<1> QED
    BY <1>2, BlankKeeps DEF Keeps

\* A step that moves only job[w], to a coherent place.
LEMMA LocalKeeps ==
    ASSUME IInv, NEW w \in Workers, Moved(w), Local, UNCHANGED unpaired,
           JobCoherent(w, job'[w], tenants, trail)
    PROVE  Keeps
BY QuietKeeps DEF Keeps, Local, IInv, TypeOK

\* A read that keeps the row it saw.
LEMMA ReadCoherent ==
    ASSUME IInv, NEW t \in Tenants, tenants[t].state # Absent
    PROVE  Coherent(tenants[t], tenants[t]) /\ tenants[t] \in Rows
BY DEF IInv, TypeOK, Coherent, Rows

LEMMA ProceedMoves ==
    ASSUME IInv, NEW w \in Workers, job[w].pc # "idle", Proceed(w)
    PROVE  Moved(w) /\ job'[w].pc \in BlankPcs
<1>1. CASE Goto(w, "provision")
    BY <1>1, GotoFields DEF Pcs, BlankPcs
<1>2. CASE Settle(w)
    BY <1>2, SettleMoves DEF IInv, BlankPcs
<1> QED
    BY <1>1, <1>2 DEF Proceed

LEMMA TransitionReadKeeps ==
    ASSUME IInv, NEW w \in Workers, TransitionRead(w)
    PROVE  Keeps
<1>0. PICK t \in Tenants : t = job[w].t
    BY DEF IInv, TypeOK, TransitionRead
<1>1. job[w].pc = "tRead" /\ Local /\ job[w].to \in DOMAIN AllowedFrom
    BY DEF TransitionRead, IInv, SnapshotsCoherent, JobCoherent
<1>2. CASE Proceed(w) /\ UNCHANGED unpaired
    <2>1. Moved(w) /\ job'[w].pc \in BlankPcs
        BY <1>1, <1>2, ProceedMoves
    <2> QED
        BY <2>1, <1>1, <1>2, BlankKeeps DEF Keeps, IInv, TypeOK
<1>3. CASE /\ tenants[t].state \in AllowedFrom[job[w].to]
           /\ GotoWith(w, "tCas", tenants[t]) /\ UNCHANGED unpaired
    <2>1. tenants[t].state # Absent
        BY <1>1, <1>3 DEF AllowedFrom, Absent, LC!Absent
    <2>2. Coherent(tenants[t], tenants[t]) /\ tenants[t] \in Rows
        BY <2>1, ReadCoherent
    <2>3. /\ Moved(w) /\ job'[w].pc = "tCas" /\ job'[w].t = t
          /\ job'[w].rec = tenants[t] /\ job'[w].to = job[w].to
        <3>1. "tCas" \in Pcs /\ job[w].pc # "idle"
            BY <1>1 DEF Pcs
        <3> QED BY <2>2, <1>0, <1>3, <3>1, GotoWithFields
    <2>4. JobCoherent(w, job'[w], tenants, trail)
        BY <2>2, <2>3, <1>1, <1>3 DEF JobCoherent, GatePcs
    <2> QED
        BY <2>3, <2>4, <1>1, <1>3, LocalKeeps
<1>4. CASE Throw(w)
    BY <1>1, <1>4, ThrowKeeps
<1> QED
    BY <1>0, <1>2, <1>3, <1>4 DEF TransitionRead

\* The edges that a registry transition takes.
LEMMA RegistryEdges ==
    ASSUME NEW to \in DOMAIN AllowedFrom, NEW s \in AllowedFrom[to]
    PROVE  <<s, to>> \in LC!Edges /\ to \in States /\ to # "Ready"
BY DEF AllowedFrom, LC!Edges, LC!States, States

LEMMA TransitionCasKeeps ==
    ASSUME IInv, NEW w \in Workers, TransitionCas(w)
    PROVE  Keeps
<1>1. /\ job[w].pc = "tCas" /\ job[w] \in Jobs /\ job[w].to \in DOMAIN AllowedFrom
      /\ job[w].rec.state \in AllowedFrom[job[w].to]
    BY DEF TransitionCas, IInv, TypeOK, SnapshotsCoherent, JobCoherent
<1>2. CASE Fresh(w) /\ Commit(w, job[w].to, job[w].rec.assoc) /\ Proceed(w)
    <2>1. Moved(w) /\ job'[w].pc \in BlankPcs
        BY <1>1, <1>2, ProceedMoves
    <2>2. JobCoherent(w, job'[w], tenants', trail')
        BY <2>1, BlankCoherent DEF Moved, JobsTyped
    <2>3. job[w].rec.assoc \in Refs
        BY <1>1 DEF Jobs, Rows
    <2>4. /\ <<job[w].rec.state, job[w].to>> \in LC!Edges
          /\ job[w].to \in States /\ job[w].to # "Ready"
        BY <1>1, RegistryEdges
    <2> QED
        BY <2>1, <2>2, <2>3, <2>4, <1>1, <1>2, CommitKeeps DEF Keeps, SnapshotPcs
<1>3. CASE Throw(w) /\ Local
    BY <1>1, <1>3, ThrowKeeps
<1> QED
    BY <1>2, <1>3 DEF TransitionCas

LEMMA FenceKeeps ==
    ASSUME IInv, NEW w \in Workers, Fence(w)
    PROVE  Keeps
<1>1. /\ job[w].pc = "fence" /\ job[w] \in Jobs /\ Local /\ UNCHANGED unpaired
      /\ <<"onboard", job[w].t>> \in Allowed[w]
    BY DEF Fence, IInv, TypeOK, SnapshotsCoherent, JobCoherent
<1>2. CASE Goto(w, "regRead")
    <2>1. Moved(w) /\ job'[w].pc = "regRead" /\ job'[w].t = job[w].t
        BY <1>1, <1>2, GotoFields DEF Pcs
    <2>2. JobCoherent(w, job'[w], tenants, trail)
        BY <2>1, <1>1 DEF JobCoherent, SnapshotPcs, GatePcs
    <2> QED
        BY <2>1, <2>2, <1>1, LocalKeeps
<1>3. CASE job' = [job EXCEPT ![w].pc = "provision", ![w].leg = "resume"]
    <2> DEFINE j == [job[w] EXCEPT !.pc = "provision", !.leg = "resume"]
    <2>1. j \in Jobs /\ j.t = job[w].t /\ j.pc = "provision"
        BY <1>1 DEF Jobs, Pcs, Legs
    <2>2. job' = [job EXCEPT ![w] = j]
        BY <1>3 DEF IInv, TypeOK
    <2>3. Moved(w) /\ job'[w] = j
        BY <2>1, <2>2, <1>1, MovedTo DEF IInv
    <2> QED
        BY <2>1, <2>3, <1>1, BlankKeeps DEF Keeps, BlankPcs, IInv, TypeOK
<1>4. CASE Done(w)
    BY <1>1, <1>4, DoneKeeps
<1> QED
    BY <1>2, <1>3, <1>4 DEF Fence

\* onboard goes on to mark_provisioning, recover to quarantine_tenant.
LEMMA ToTransition ==
    ASSUME IInv, NEW w \in Workers, NEW to \in {"Provisioning", "Quarantined"},
           job[w].pc # "idle",
           job' = [job EXCEPT ![w].pc = "tRead", ![w].to = to], NEW rows, NEW last
    PROVE  /\ Moved(w) /\ JobCoherent(w, job'[w], rows, last)
           /\ job'[w].pc = "tRead" /\ job'[w].to = to
<1> DEFINE j == [job[w] EXCEPT !.pc = "tRead", !.to = to]
<1>1. job[w] \in Jobs /\ to \in States /\ "tRead" \in Pcs
    BY DEF IInv, TypeOK, States, LC!States, Pcs
<1>2. j \in Jobs /\ j.t = job[w].t /\ j.pc = "tRead" /\ j.to = to
    BY <1>1 DEF Jobs
<1>3. job' = [job EXCEPT ![w] = j]
    BY DEF IInv, TypeOK
<1>4. Moved(w) /\ job'[w] = j
    BY <1>2, <1>3, MovedTo DEF IInv
<1>5. JobCoherent(w, j, rows, last)
    BY <1>2 DEF JobCoherent, SnapshotPcs, GatePcs, AllowedFrom
<1> QED
    BY <1>2, <1>4, <1>5

LEMMA RegisterReadKeeps ==
    ASSUME IInv, NEW w \in Workers, RegisterRead(w)
    PROVE  Keeps
<1>1. /\ job[w].pc = "regRead" /\ Local /\ UNCHANGED unpaired
      /\ <<"onboard", job[w].t>> \in Allowed[w]
    BY DEF RegisterRead, IInv, SnapshotsCoherent, JobCoherent
<1>2. CASE tenants[job[w].t].state = Absent /\ Goto(w, "regAudit")
    <2>1. Moved(w) /\ job'[w].pc = "regAudit" /\ job'[w].t = job[w].t
        BY <1>1, <1>2, GotoFields DEF Pcs
    <2>2. JobCoherent(w, job'[w], tenants, trail)
        BY <2>1, <1>1, <1>2 DEF JobCoherent, SnapshotPcs, GatePcs
    <2> QED
        BY <2>1, <2>2, <1>1, LocalKeeps
<1>3. CASE job' = [job EXCEPT ![w].pc = "tRead", ![w].to = "Provisioning"]
    BY <1>1, <1>3, ToTransition, LocalKeeps
<1> QED
    BY <1>2, <1>3 DEF RegisterRead

(***************************************************************************)
(* Registration is the one pair of writes no compare-and-swap protects:    *)
(* that the row is still missing when it is put rests on SingleRegistrar.  *)
(***************************************************************************)
LEMMA RegisterAuditKeeps ==
    ASSUME IInv, SingleRegistrar, NEW w \in Workers, RegisterAudit(w)
    PROVE  Keeps
<1>0. PICK t \in Tenants : t = job[w].t
    BY DEF IInv, TypeOK, RegisterAudit
<1>1. /\ job[w].pc = "regAudit" /\ Goto(w, "regPut")
      /\ <<"onboard", t>> \in Allowed[w] /\ tenants[t].state = Absent
      /\ trail' = [trail EXCEPT ![t] = [from |-> Absent, to |-> "Registered"]]
      /\ UNCHANGED <<tenants, verified, ledger, anomalies, dbs, unpaired, ops>>
    BY <1>0 DEF RegisterAudit, IInv, SnapshotsCoherent, JobCoherent
<1>2. Moved(w) /\ job'[w].pc = "regPut" /\ job'[w].t = t
    BY <1>0, <1>1, GotoFields DEF Pcs
<1>3. TypeOK'
    <2>1. trail' \in [Tenants -> [from : States \cup {Absent}, to : States \cup {Absent}]]
        BY <1>1 DEF IInv, TypeOK, States, LC!States
    <2> QED
        BY <2>1, <1>1, <1>2 DEF IInv, TypeOK, Moved, JobsTyped
<1>4. SnapshotsCoherent'
    <2>1. JobCoherent(w, job'[w], tenants', trail')
        BY <1>1, <1>2 DEF JobCoherent, SnapshotPcs, GatePcs, IInv, TypeOK
    <2>2. ASSUME NEW v \in Workers, v # w
          PROVE  JobCoherent(v, job[v], tenants, trail')
        <3>1. JobCoherent(v, job[v], tenants, trail)
            BY DEF IInv, SnapshotsCoherent
        <3>2. job[v].pc = "regPut" => job[v].t # t /\ job[v].t \in Tenants
            BY <3>1, <2>2, <1>1 DEF JobCoherent, SingleRegistrar, IInv, TypeOK
        <3> QED
            BY <3>1, <3>2, <1>1 DEF JobCoherent, IInv, TypeOK
    <2> QED
        BY <2>1, <2>2, <1>1, <1>2 DEF SnapshotsCoherent, Moved
<1>5. TrailMatchesState' /\ ReadyIsVerified' /\ AnomalyHolds'
    BY <1>1 DEF IInv, TrailMatchesState, ReadyIsVerified, AnomalyHolds, TypeOK
<1>6. LC!AuditRegistration(t)
    BY <1>1 DEF LC!AuditRegistration, Absent
<1>7. LC!Next
    BY <1>6, ContractStep
<1> QED
    BY <1>3, <1>4, <1>5, <1>7 DEF IInv, Keeps

LEMMA RegisterPutKeeps ==
    ASSUME IInv, SingleRegistrar, NEW w \in Workers, RegisterPut(w)
    PROVE  Keeps
<1>0. PICK t \in Tenants : t = job[w].t
    BY DEF IInv, TypeOK, RegisterPut
<1> DEFINE row == [state |-> "Registered", version |-> 0, assoc |-> Canonical[t]]
<1>1. /\ job[w].pc = "regPut" /\ <<"onboard", t>> \in Allowed[w]
      /\ tenants[t].state = Absent /\ trail[t].to = "Registered"
      /\ tenants' = [tenants EXCEPT ![t] = row]
      /\ verified' = [verified EXCEPT ![t] = NoEvidence]
      /\ job' = [job EXCEPT ![w].pc = "tRead", ![w].to = "Provisioning"]
      /\ UNCHANGED <<trail, ledger, anomalies, dbs, unpaired, ops>>
    BY <1>0 DEF RegisterPut, IInv, SnapshotsCoherent, JobCoherent
<1>2. row \in Rows /\ row.state = "Registered"
    BY DEF Rows, States, LC!States
<1> HIDE DEF row
<1>3. Moved(w) /\ JobCoherent(w, job'[w], tenants', trail')
    <2>1. Moved(w) /\ job'[w].pc = "tRead" /\ job'[w].to = "Provisioning"
        BY <1>1, ToTransition
    <2>2. JobCoherent(w, job'[w], tenants', trail')
        BY <2>1 DEF JobCoherent, SnapshotPcs, GatePcs, AllowedFrom
    <2> QED BY <2>1, <2>2
<1>4. TypeOK'
    <2>1. tenants' \in [Tenants -> Rows]
        BY <1>1, <1>2 DEF IInv, TypeOK
    <2>2. verified' \in [Tenants -> Evidence]
        BY <1>1 DEF IInv, TypeOK, Evidence, NoEvidence
    <2> QED
        BY <2>1, <2>2, <1>1, <1>3 DEF IInv, TypeOK, Moved, JobsTyped
<1>5. SnapshotsCoherent'
    <2>1. ASSUME NEW v \in Workers, v # w
          PROVE  JobCoherent(v, job[v], tenants', trail)
        <3>1. JobCoherent(v, job[v], tenants, trail)
            BY DEF IInv, SnapshotsCoherent
        <3>2. CASE job[v].t # t \/ job[v].pc = "idle"
            BY <3>1, <3>2, <1>1 DEF JobCoherent, IInv, TypeOK, SnapshotPcs, GatePcs
        <3>3. CASE job[v].t = t /\ job[v].pc # "idle"
            <4>1. job[v].pc \notin SnapshotPcs \cup {"regAudit", "regPut", "vAnomaly"}
                BY <3>1, <3>3, <2>1, <1>1
                   DEF JobCoherent, Coherent, SingleRegistrar, Absent, LC!Absent
            <4> QED
                BY <4>1, <3>1 DEF JobCoherent, SnapshotPcs, GatePcs
        <3> QED BY <3>2, <3>3
    <2> QED
        BY <2>1, <1>1, <1>3 DEF SnapshotsCoherent, Moved
<1>6. TrailMatchesState' /\ ReadyIsVerified'
    BY <1>1, <1>2 DEF IInv, TrailMatchesState, ReadyIsVerified, TypeOK
<1>7. AnomalyHolds'
    BY <1>1, <1>2 DEF IInv, AnomalyHolds, TypeOK, Absent, LC!Absent
<1>8. LC!Register(t)
    <2>1. [u \in Tenants |-> tenants'[u].state]
            = [[u \in Tenants |-> tenants[u].state] EXCEPT ![t] = "Registered"]
        BY <1>1, <1>2 DEF IInv, TypeOK
    <2> QED
        BY <2>1, <1>1 DEF LC!Register, Absent
<1>9. LC!Next
    BY <1>8, ContractStep
<1> QED
    BY <1>4, <1>5, <1>6, <1>7, <1>9 DEF IInv, Keeps

LEMMA ProvisionKeeps ==
    ASSUME IInv, NEW w \in Workers, Provision(w)
    PROVE  Keeps
<1>1. /\ job[w].pc = "provision" /\ Quiet
      /\ UNCHANGED <<ledger, anomalies, unpaired, ops>>
      /\ dbs' \subseteq Tenants
    BY DEF Provision, IInv, TypeOK
<1>2. Moved(w) /\ job'[w].pc \in BlankPcs
    <2>1. CASE Goto(w, "apply")
        BY <2>1, <1>1, GotoFields DEF Pcs, BlankPcs
    <2>2. CASE Settle(w)
        BY <2>2, <1>1, SettleMoves DEF IInv, BlankPcs
    <2> QED BY <2>1, <2>2 DEF Provision
<1>3. JobCoherent(w, job'[w], tenants, trail)
    BY <1>2, BlankCoherent DEF Moved, JobsTyped
<1> QED
    BY <1>1, <1>2, <1>3, QuietKeeps DEF Keeps, IInv, TypeOK

LEMMA ApplySchemaKeeps ==
    ASSUME IInv, NEW w \in Workers, ApplySchema(w)
    PROVE  Keeps
BY GotoKeeps, SettleKeeps DEF ApplySchema, BlankPcs

LEMMA TerminalKeeps ==
    ASSUME IInv, NEW w \in Workers, Terminal(w)
    PROVE  Keeps
BY DoneKeeps DEF Terminal

\* The moves that also announce a recovery leg.
LEMMA LegKeeps ==
    ASSUME IInv, NEW w \in Workers, NEW pc \in {"recHistory", "vRead"}, NEW leg \in Legs,
           job[w].pc # "idle", Local, UNCHANGED unpaired,
           job' = [job EXCEPT ![w].pc = pc, ![w].leg = leg]
    PROVE  Keeps
<1> DEFINE j == [job[w] EXCEPT !.pc = pc, !.leg = leg]
<1>1. job[w] \in Jobs /\ pc \in Pcs
    BY DEF IInv, TypeOK, Pcs
<1>2. j \in Jobs /\ j.t = job[w].t /\ j.pc = pc
    BY <1>1 DEF Jobs
<1>3. job' = [job EXCEPT ![w] = j]
    BY DEF IInv, TypeOK
<1>4. Moved(w) /\ job'[w] = j
    BY <1>2, <1>3, MovedTo DEF IInv
<1> QED
    BY <1>2, <1>4, BlankKeeps DEF Keeps, BlankPcs, IInv, TypeOK

LEMMA RecoverReadKeeps ==
    ASSUME IInv, NEW w \in Workers, RecoverRead(w)
    PROVE  Keeps
<1>1. job[w].pc = "recRead" /\ Local
    BY DEF RecoverRead
<1>2. CASE /\ job' = [job EXCEPT ![w].pc = "recHistory", ![w].leg = "classify"]
           /\ UNCHANGED unpaired
    BY <1>1, <1>2, LegKeeps DEF Legs
<1>3. CASE Throw(w)
    BY <1>1, <1>3, ThrowKeeps
<1> QED
    BY <1>2, <1>3 DEF RecoverRead

LEMMA RecoverHistoryKeeps ==
    ASSUME IInv, NEW w \in Workers, RecoverHistory(w)
    PROVE  Keeps
<1>1. job[w].pc = "recHistory" /\ Local /\ UNCHANGED unpaired
    BY DEF RecoverHistory
<1>2. CASE job' = [job EXCEPT ![w].pc = "tRead", ![w].to = "Quarantined"]
    BY <1>1, <1>2, ToTransition, LocalKeeps
<1>3. CASE job' = [job EXCEPT ![w].pc = "vRead", ![w].leg = "recover"]
    BY <1>1, <1>3, LegKeeps DEF Legs
<1> QED
    BY <1>2, <1>3 DEF RecoverHistory

-----------------------------------------------------------------------------
LEMMA VerifyReadKeeps ==
    ASSUME IInv, NEW w \in Workers, VerifyRead(w)
    PROVE  Keeps
<1>0. PICK t \in Tenants : t = job[w].t
    BY DEF IInv, TypeOK, VerifyRead
<1>1. job[w].pc = "vRead" /\ Local
    BY DEF VerifyRead
<1>2. CASE Throw(w)
    BY <1>1, <1>2, ThrowKeeps
<1>3. CASE /\ tenants[t].state \notin Refused
           /\ GotoWith(w, "vEnter", tenants[t]) /\ UNCHANGED unpaired
    <2>1. Coherent(tenants[t], tenants[t]) /\ tenants[t] \in Rows
        BY <1>3, ReadCoherent DEF Refused
    <2>2. Moved(w) /\ job'[w].pc = "vEnter" /\ job'[w].t = t /\ job'[w].rec = tenants[t]
        <3>1. "vEnter" \in Pcs /\ job[w].pc # "idle"
            BY <1>1 DEF Pcs
        <3> QED BY <2>1, <1>0, <1>3, <3>1, GotoWithFields
    <2>3. JobCoherent(w, job'[w], tenants, trail)
        BY <2>1, <2>2, <1>3 DEF JobCoherent, GatePcs
    <2> QED
        BY <2>2, <2>3, <1>1, <1>3, LocalKeeps
<1> QED
    BY <1>0, <1>2, <1>3 DEF VerifyRead

LEMMA VerifyEnterKeeps ==
    ASSUME IInv, NEW w \in Workers, VerifyEnter(w)
    PROVE  Keeps
<1>0. PICK t \in Tenants : t = job[w].t
    BY DEF IInv, TypeOK, VerifyEnter
<1>1. /\ job[w].pc = "vEnter" /\ job[w] \in Jobs /\ job[w].rec \in Rows
      /\ job[w].rec.state \notin Refused /\ Coherent(job[w].rec, tenants[t])
    BY <1>0 DEF VerifyEnter, IInv, TypeOK, Jobs, SnapshotsCoherent, JobCoherent, SnapshotPcs
<1>2. CASE /\ Fresh(w)
           /\ Commit(w, "Verifying", job[w].rec.assoc)
           /\ GotoWith(w, "vProbe", Swapped(w, "Verifying", job[w].rec.assoc))
    <2> DEFINE row == Swapped(w, "Verifying", job[w].rec.assoc)
    <2>1. row \in Rows /\ row.state = "Verifying" /\ job[w].rec.assoc \in Refs
        BY <1>1 DEF Swapped, Rows, States, LC!States
    <2>2. tenants'[t] = row
        BY <1>0, <1>2 DEF Commit, IInv, TypeOK
    <2> HIDE DEF row
    <2>3. GotoWith(w, "vProbe", row)
        BY <1>2 DEF row
    <2>4. Moved(w) /\ job'[w].pc = "vProbe" /\ job'[w].t = t /\ job'[w].rec = row
        BY <2>1, <2>3, <1>0, <1>1, GotoWithFields DEF Pcs
    <2>5. JobCoherent(w, job'[w], tenants', trail')
        BY <2>1, <2>2, <2>4 DEF JobCoherent, Coherent, GatePcs, Rows, Absent, LC!Absent
    <2>6. <<job[w].rec.state, "Verifying">> \in LC!Edges
        BY <1>1 DEF LC!Edges, LC!States, Rows, States, Refused
    <2> QED
        BY <2>1, <2>4, <2>5, <2>6, <1>1, <1>2, CommitKeeps
           DEF Keeps, SnapshotPcs, States, LC!States
<1>3. CASE Goto(w, "vReread") /\ Local /\ UNCHANGED unpaired
    BY <1>1, <1>3, GotoKeeps DEF BlankPcs
<1>4. CASE Throw(w) /\ Local
    BY <1>1, <1>4, ThrowKeeps
<1> QED
    BY <1>2, <1>3, <1>4 DEF VerifyEnter

LEMMA VerifyRereadKeeps ==
    ASSUME IInv, NEW w \in Workers, VerifyReread(w)
    PROVE  Keeps
<1>0. PICK t \in Tenants : t = job[w].t
    BY DEF IInv, TypeOK, VerifyReread
<1>1. job[w].pc = "vReread" /\ Local /\ job[w] \in Jobs
    BY DEF VerifyReread, IInv, TypeOK
<1>2. CASE Settle(w) /\ UNCHANGED unpaired
    BY <1>1, <1>2, SettleKeeps
<1>3. CASE /\ tenants[t].state \in {"Verifying", "Provisioning"}
           /\ job' = [job EXCEPT ![w].pc = "vEnter", ![w].rec = tenants[t], ![w].tries = 2]
           /\ UNCHANGED unpaired
    <2> DEFINE j == [job[w] EXCEPT !.pc = "vEnter", !.rec = tenants[t], !.tries = 2]
    <2>1. Coherent(tenants[t], tenants[t]) /\ tenants[t] \in Rows
        BY <1>3, ReadCoherent DEF Absent, LC!Absent
    <2>2. j \in Jobs /\ j.t = t /\ j.pc = "vEnter" /\ j.rec = tenants[t]
        BY <2>1, <1>0, <1>1 DEF Jobs, Pcs
    <2>3. job' = [job EXCEPT ![w] = j]
        BY <1>3 DEF IInv, TypeOK
    <2>4. Moved(w) /\ job'[w] = j
        BY <2>2, <2>3, <1>0, <1>1, MovedTo DEF IInv
    <2>5. JobCoherent(w, j, tenants, trail)
        BY <2>1, <2>2, <1>3 DEF JobCoherent, GatePcs, Refused, Absent, LC!Absent
    <2> QED
        BY <2>4, <2>5, <1>1, <1>3, LocalKeeps
<1>4. CASE Throw(w)
    BY <1>1, <1>4, ThrowKeeps
<1> QED
    BY <1>0, <1>2, <1>3, <1>4 DEF VerifyReread

\* A call inside the gate keeps the row it wrote when it entered Verifying.
LEMMA GateCoherent ==
    ASSUME IInv, NEW w \in Workers, NEW j \in Jobs, job[w].pc \in GatePcs, j.pc \in GatePcs,
           j.t = job[w].t, j.rec = job[w].rec,
           j.pc \in {"vRecord", "vReady"} => Proven(j.t, j.ev, j.rec.assoc)
    PROVE  JobCoherent(w, j, tenants, trail)
<1>1. JobCoherent(w, job[w], tenants, trail)
    BY DEF IInv, SnapshotsCoherent
<1>2. Coherent(j.rec, tenants[j.t]) /\ j.rec.state = "Verifying"
    BY <1>1 DEF JobCoherent, GatePcs
<1> QED
    BY <1>2 DEF JobCoherent, SnapshotPcs, GatePcs

\* Into _fail, with the result it is to report.
LEMMA FailMoves ==
    ASSUME IInv, NEW w \in Workers, NEW pc \in {"vDrop", "vRemove"}, NEW out \in Results,
           job[w].pc \in GatePcs, Fail(w, pc, out)
    PROVE  Moved(w) /\ JobCoherent(w, job'[w], tenants, trail)
<1> DEFINE j == [job[w] EXCEPT !.pc = pc, !.out = out]
<1>1. job[w] \in Jobs /\ pc \in Pcs /\ pc \in GatePcs /\ job[w].pc # "idle"
    BY DEF IInv, TypeOK, Pcs, GatePcs, SnapshotPcs
<1>2. j \in Jobs /\ j.t = job[w].t /\ j.pc = pc /\ j.rec = job[w].rec
    BY <1>1 DEF Jobs
<1>3. job' = [job EXCEPT ![w] = j]
    BY DEF Fail, IInv, TypeOK
<1>4. Moved(w) /\ job'[w] = j
    BY <1>1, <1>2, <1>3, MovedTo DEF IInv
<1>5. JobCoherent(w, j, tenants, trail)
    <2> HIDE DEF j
    <2> QED BY <1>1, <1>2, GateCoherent
<1> QED
    BY <1>4, <1>5

LEMMA VerifyProbeKeeps ==
    ASSUME IInv, NEW w \in Workers, VerifyProbe(w)
    PROVE  Keeps
<1>1. /\ job[w].pc = "vProbe" /\ job[w].pc \in GatePcs /\ Local /\ UNCHANGED unpaired
    BY DEF VerifyProbe, GatePcs, SnapshotPcs
<1>2. CASE Goto(w, "vDecide")
    <2>1. /\ Moved(w) /\ job'[w] \in Jobs /\ job'[w].pc = "vDecide"
          /\ job'[w].t = job[w].t /\ job'[w].rec = job[w].rec
        BY <1>1, <1>2, GotoFields DEF Pcs
    <2>2. JobCoherent(w, job'[w], tenants, trail)
        BY <2>1, <1>1, GateCoherent DEF GatePcs, SnapshotPcs
    <2> QED
        BY <2>1, <2>2, <1>1, LocalKeeps
<1>3. CASE \E out \in Results : Fail(w, "vRemove", out)
    BY <1>1, <1>3, FailMoves, LocalKeeps
<1> QED
    BY <1>2, <1>3 DEF VerifyProbe, Results

\* What the verifier proves of evidence it accepts.
LEMMA VerifiedIsProven ==
    ASSUME NEW t \in Tenants, NEW ref \in Refs, NEW ev \in Gathered(ref), NEW inventory,
           Decide(t, ev, inventory) = "Verified"
    PROVE  ev \in Evidence /\ Proven(t, ev, ref)
<1>1. Complete(ev) /\ NameOf[ev.db] = t /\ ~HitsControl(ev)
    BY DEF Decide
<1>2. ev \in [db : Databases, key : {ref}, ids : BOOLEAN, sentinel : BOOLEAN]
    BY <1>1 DEF Gathered, Complete
<1>3. ev \in Evidence /\ ev.key = ref /\ ev.db # NoDb
    BY <1>2 DEF Evidence
<1> QED
    BY <1>1, <1>3 DEF Proven, Complete, HitsControl

LEMMA VerifyDecideKeeps ==
    ASSUME IInv, NEW w \in Workers, VerifyDecide(w)
    PROVE  Keeps
<1>0. PICK t \in Tenants : t = job[w].t
    BY DEF IInv, TypeOK, VerifyDecide
<1>1. /\ job[w].pc = "vDecide" /\ job[w].pc \in GatePcs /\ Local /\ UNCHANGED unpaired
      /\ job[w] \in Jobs
    BY DEF VerifyDecide, GatePcs, SnapshotPcs, IInv, TypeOK
<1>2. PICK ev \in Gathered(job[w].rec.assoc) :
        job' = IF Decide(t, ev, ledger) = "Verified"
               THEN [job EXCEPT ![w].pc = "vRecord", ![w].ev = ev]
               ELSE [job EXCEPT ![w].pc = "vDrop", ![w].out = Decide(t, ev, ledger)]
    BY <1>0 DEF VerifyDecide
<1>3. CASE Decide(t, ev, ledger) = "Verified"
    <2> DEFINE j == [job[w] EXCEPT !.pc = "vRecord", !.ev = ev]
    <2>1. job[w].rec.assoc \in Refs
        BY <1>1 DEF Jobs, Rows
    <2>2. ev \in Evidence /\ Proven(t, ev, job[w].rec.assoc)
        BY <2>1, <1>3, VerifiedIsProven
    <2>3. /\ j \in Jobs /\ j.t = t /\ j.pc = "vRecord" /\ j.rec = job[w].rec /\ j.ev = ev
          /\ j.pc \in GatePcs
        BY <2>2, <1>0, <1>1 DEF Jobs, Pcs, GatePcs, SnapshotPcs
    <2>4. job' = [job EXCEPT ![w] = j]
        BY <1>2, <1>3 DEF IInv, TypeOK
    <2> HIDE DEF j
    <2>5. Moved(w) /\ job'[w] = j
        BY <2>3, <2>4, <1>0, <1>1, MovedTo DEF IInv
    <2>6. JobCoherent(w, j, tenants, trail)
        BY <2>2, <2>3, <1>0, <1>1, GateCoherent
    <2> QED
        BY <2>5, <2>6, <1>1, LocalKeeps
<1>4. CASE Decide(t, ev, ledger) # "Verified"
    <2>1. Decide(t, ev, ledger) \in Results
        BY DEF Decide, Results
    <2>2. Fail(w, "vDrop", Decide(t, ev, ledger))
        BY <1>2, <1>4 DEF Fail
    <2> QED
        BY <2>1, <2>2, <1>1, FailMoves, LocalKeeps
<1> QED
    BY <1>3, <1>4

LEMMA VerifyRemoveKeeps ==
    ASSUME IInv, NEW w \in Workers, VerifyRemove(w)
    PROVE  Keeps
<1>1. /\ job[w].pc \in {"vDrop", "vRemove"} /\ Quiet
      /\ UNCHANGED <<anomalies, dbs, unpaired, ops>>
      /\ \E pc \in {"vRemove", "vFail"} : Goto(w, pc)
    BY DEF VerifyRemove
<1>2. ledger' \in [Tenants -> Evidence]
    BY DEF VerifyRemove, IInv, TypeOK, NoEvidence, Evidence
<1>3. /\ Moved(w) /\ job'[w] \in Jobs /\ job'[w].pc \in {"vRemove", "vFail"}
      /\ job'[w].t = job[w].t /\ job'[w].rec = job[w].rec
    BY <1>1, GotoFields DEF Pcs
<1>4. JobCoherent(w, job'[w], tenants, trail)
    BY <1>1, <1>3, GateCoherent DEF GatePcs, SnapshotPcs
<1> QED
    BY <1>1, <1>2, <1>3, <1>4, QuietKeeps DEF Keeps, IInv, TypeOK

LEMMA VerifyRecordKeeps ==
    ASSUME IInv, NEW w \in Workers, VerifyRecord(w)
    PROVE  Keeps
<1>1. /\ job[w].pc = "vRecord" /\ job[w].pc \in GatePcs /\ job[w].ev \in Evidence /\ Quiet
      /\ UNCHANGED <<anomalies, dbs, unpaired, ops>>
      /\ Proven(job[w].t, job[w].ev, job[w].rec.assoc)
    BY DEF VerifyRecord, GatePcs, SnapshotPcs, IInv, TypeOK, Jobs, SnapshotsCoherent, JobCoherent
<1>2. ledger' \in [Tenants -> Evidence]
    BY <1>1 DEF VerifyRecord, IInv, TypeOK
<1>3. CASE Fail(w, "vRemove", "Anomaly")
    BY <1>1, <1>2, <1>3, FailMoves, QuietKeeps DEF Results, Keeps, IInv, TypeOK
<1>4. CASE Goto(w, "vReady")
    <2>1. /\ Moved(w) /\ job'[w] \in Jobs /\ job'[w].pc = "vReady"
          /\ job'[w].t = job[w].t /\ job'[w].rec = job[w].rec /\ job'[w].ev = job[w].ev
        BY <1>1, <1>4, GotoFields DEF Pcs
    <2>2. JobCoherent(w, job'[w], tenants, trail)
        BY <2>1, <1>1, GateCoherent DEF GatePcs, SnapshotPcs
    <2> QED
        BY <2>1, <2>2, <1>1, <1>2, QuietKeeps DEF Keeps, IInv, TypeOK
<1> QED
    BY <1>3, <1>4 DEF VerifyRecord

LEMMA VerifyReadyKeeps ==
    ASSUME IInv, NEW w \in Workers, VerifyReady(w)
    PROVE  Keeps
<1>1. /\ job[w].pc = "vReady" /\ job[w].rec.state = "Verifying" /\ job[w].rec.assoc \in Refs
      /\ Proven(job[w].t, job[w].ev, job[w].rec.assoc)
    BY DEF VerifyReady, GatePcs, SnapshotPcs, IInv, TypeOK, Jobs, Rows, SnapshotsCoherent, JobCoherent
<1>2. CASE Fresh(w) /\ Commit(w, "Ready", job[w].rec.assoc) /\ Settle(w)
    <2>1. Moved(w) /\ job'[w].pc \in BlankPcs
        BY <1>1, <1>2, SettleMoves DEF IInv, BlankPcs
    <2>2. JobCoherent(w, job'[w], tenants', trail')
        BY <2>1, BlankCoherent DEF Moved, JobsTyped
    <2>3. <<job[w].rec.state, "Ready">> \in LC!Edges
        BY <1>1 DEF LC!Edges
    <2> QED
        BY <2>1, <2>2, <2>3, <1>1, <1>2, CommitKeeps
           DEF Keeps, SnapshotPcs, States, LC!States
<1>3. CASE Throw(w) /\ Local
    BY <1>1, <1>3, ThrowKeeps
<1> QED
    BY <1>2, <1>3 DEF VerifyReady

LEMMA VerifyFailKeeps ==
    ASSUME IInv, NEW w \in Workers, VerifyFail(w)
    PROVE  Keeps
<1>0. PICK t \in Tenants : t = job[w].t
    BY DEF IInv, TypeOK, VerifyFail
<1>1. job[w].pc = "vFail" /\ job[w].rec.state = "Verifying" /\ job[w].rec.assoc \in Refs
    BY DEF VerifyFail, GatePcs, SnapshotPcs, IInv, TypeOK, Jobs, Rows, SnapshotsCoherent, JobCoherent
<1>2. CASE Fresh(w) /\ Commit(w, "Quarantined", job[w].rec.assoc) /\ Goto(w, "vAnomaly")
    <2>1. Moved(w) /\ job'[w].pc = "vAnomaly" /\ job'[w].t = t
        BY <1>0, <1>1, <1>2, GotoFields DEF Pcs
    <2>2. tenants'[t].state = "Quarantined"
        BY <1>0, <1>2 DEF Commit, Swapped, IInv, TypeOK
    <2>3. JobCoherent(w, job'[w], tenants', trail')
        BY <2>1, <2>2 DEF JobCoherent, SnapshotPcs, GatePcs
    <2>4. <<job[w].rec.state, "Quarantined">> \in LC!Edges
        BY <1>1 DEF LC!Edges
    <2> QED
        BY <2>1, <2>3, <2>4, <1>1, <1>2, CommitKeeps
           DEF Keeps, SnapshotPcs, States, LC!States
<1>3. CASE Fresh(w) /\ Commit(w, "Failed", job[w].rec.assoc) /\ Settle(w)
    <2>1. Moved(w) /\ job'[w].pc \in BlankPcs
        BY <1>1, <1>3, SettleMoves DEF IInv, BlankPcs
    <2>2. JobCoherent(w, job'[w], tenants', trail')
        BY <2>1, BlankCoherent DEF Moved, JobsTyped
    <2>3. <<job[w].rec.state, "Failed">> \in LC!Edges
        BY <1>1 DEF LC!Edges
    <2> QED
        BY <2>1, <2>2, <2>3, <1>1, <1>3, CommitKeeps
           DEF Keeps, SnapshotPcs, States, LC!States
<1>4. CASE Throw(w) /\ Local
    BY <1>1, <1>4, ThrowKeeps
<1> QED
    BY <1>2, <1>3, <1>4 DEF VerifyFail

LEMMA VerifyAnomalyKeeps ==
    ASSUME IInv, NEW w \in Workers, VerifyAnomaly(w)
    PROVE  Keeps
<1>0. PICK t \in Tenants : t = job[w].t
    BY DEF IInv, TypeOK, VerifyAnomaly
<1>1. /\ job[w].pc = "vAnomaly" /\ Settle(w) /\ Quiet
      /\ UNCHANGED <<ledger, dbs, unpaired, ops>>
      /\ anomalies' = anomalies \cup {t}
      /\ tenants[t].state \in {"Quarantined", "Decommissioned"}
    BY <1>0 DEF VerifyAnomaly, IInv, SnapshotsCoherent, JobCoherent
<1>2. Moved(w) /\ job'[w].pc \in BlankPcs
    BY <1>1, SettleMoves DEF IInv, BlankPcs
<1>3. JobCoherent(w, job'[w], tenants, trail)
    BY <1>2, BlankCoherent DEF Moved, JobsTyped
<1> QED
    BY <1>1, <1>2, <1>3, QuietKeeps DEF Keeps, IInv, TypeOK

-----------------------------------------------------------------------------
LEMMA ReassociateReadKeeps ==
    ASSUME IInv, NEW w \in Workers, ReassociateRead(w)
    PROVE  Keeps
<1>0. PICK t \in Tenants : t = job[w].t
    BY DEF IInv, TypeOK, ReassociateRead
<1>1. job[w].pc = "reRead" /\ Local
    BY DEF ReassociateRead
<1>2. CASE Throw(w)
    BY <1>1, <1>2, ThrowKeeps
<1>3. CASE /\ tenants[t].state \notin {Absent, "Quarantined", "Decommissioned"}
           /\ GotoWith(w, "reCas", tenants[t]) /\ UNCHANGED unpaired
    <2>1. Coherent(tenants[t], tenants[t]) /\ tenants[t] \in Rows
        BY <1>3, ReadCoherent
    <2>2. Moved(w) /\ job'[w].pc = "reCas" /\ job'[w].t = t /\ job'[w].rec = tenants[t]
        <3>1. "reCas" \in Pcs /\ job[w].pc # "idle"
            BY <1>1 DEF Pcs
        <3> QED BY <2>1, <1>0, <1>3, <3>1, GotoWithFields
    <2>3. JobCoherent(w, job'[w], tenants, trail)
        BY <2>1, <2>2, <1>3 DEF JobCoherent, GatePcs
    <2> QED
        BY <2>2, <2>3, <1>1, <1>3, LocalKeeps
<1> QED
    BY <1>0, <1>2, <1>3 DEF ReassociateRead

LEMMA ReassociateCasKeeps ==
    ASSUME IInv, NEW w \in Workers, ReassociateCas(w)
    PROVE  Keeps
<1>1. /\ job[w].pc = "reCas" /\ job[w].rec \in Rows /\ job[w].ref \in Refs
      /\ job[w].rec.state \notin {Absent, "Quarantined", "Decommissioned"}
    BY DEF ReassociateCas, IInv, TypeOK, Jobs, SnapshotPcs, SnapshotsCoherent, JobCoherent, Coherent
<1>2. CASE Fresh(w) /\ Commit(w, "Verifying", job[w].ref) /\ Goto(w, "vRead")
    <2>1. Moved(w) /\ job'[w].pc \in BlankPcs
        BY <1>1, <1>2, GotoFields DEF Pcs, BlankPcs
    <2>2. JobCoherent(w, job'[w], tenants', trail')
        BY <2>1, BlankCoherent DEF Moved, JobsTyped
    <2>3. <<job[w].rec.state, "Verifying">> \in LC!Edges
        BY <1>1 DEF LC!Edges, LC!States, Rows, States
    <2> QED
        BY <2>1, <2>2, <2>3, <1>1, <1>2, CommitKeeps
           DEF Keeps, SnapshotPcs, States, LC!States
<1>3. CASE Throw(w) /\ Local
    BY <1>1, <1>3, ThrowKeeps
<1> QED
    BY <1>2, <1>3 DEF ReassociateCas

LEMMA DisableRoutingKeeps ==
    ASSUME IInv, NEW w \in Workers, DisableRouting(w)
    PROVE  Keeps
<1>1. Done(w) /\ Quiet /\ UNCHANGED <<anomalies, dbs, unpaired, ops>>
    BY DEF DisableRouting
<1>2. ledger' \in [Tenants -> Evidence]
    BY DEF DisableRouting, IInv, TypeOK, NoEvidence, Evidence
<1>3. Moved(w) /\ job'[w].pc \in BlankPcs
    BY <1>1, DoneMoves DEF IInv, BlankPcs
<1>4. JobCoherent(w, job'[w], tenants, trail)
    BY <1>3, BlankCoherent DEF Moved, JobsTyped
<1> QED
    BY <1>1, <1>2, <1>3, <1>4, QuietKeeps DEF Keeps, IInv, TypeOK

LEMMA StartKeeps ==
    ASSUME IInv, NEW w \in Workers, Start(w)
    PROVE  Keeps
<1>1. PICK c \in Allowed[w], r \in Refs :
        job' = [job EXCEPT ![w] = [Idle EXCEPT !.pc = Entry[c[1]], !.t = c[2],
                                               !.to = Target(c[1]), !.ref = r]]
    BY DEF Start
<1> DEFINE j == [Idle EXCEPT !.pc = Entry[c[1]], !.t = c[2],
                             !.to = Target(c[1]), !.ref = r]
<1>2. c \in Ops \X Tenants
    OBVIOUS
<1>3. TypeOK'
    BY StartType DEF IInv
<1>4. Moved(w) /\ job'[w] = j
    BY <1>1, <1>3 DEF Moved, JobsTyped, IInv, TypeOK
<1>5. j.pc = Entry[c[1]] /\ j.t = c[2] /\ j.to = Target(c[1])
    BY DEF Idle
<1> HIDE DEF j
<1>6. JobCoherent(w, j, tenants, trail)
    <2>1. CASE c[1] = "onboard"
        <3>1. j.pc = "fence" /\ <<"onboard", j.t>> \in Allowed[w]
            BY <2>1, <1>2, <1>5 DEF Entry
        <3> QED BY <3>1 DEF JobCoherent, SnapshotPcs, GatePcs
    <2>2. CASE c[1] \in {"suspend", "decommission", "quarantine"}
        <3>1. j.pc = "tRead" /\ j.to \in DOMAIN AllowedFrom
            BY <2>2, <1>5 DEF Entry, Target, AllowedFrom
        <3> QED BY <3>1 DEF JobCoherent, SnapshotPcs, GatePcs
    <2>3. CASE c[1] \in {"verify", "recover", "reassociate", "disable"}
        <3>1. j.pc \in BlankPcs
            BY <2>3, <1>5 DEF Entry, BlankPcs
        <3> QED BY <3>1 DEF JobCoherent, SnapshotPcs, GatePcs, BlankPcs
    <2> QED BY <1>2, <2>1, <2>2, <2>3 DEF Ops
<1>7. /\ Quiet /\ UNCHANGED <<ledger, anomalies, dbs, unpaired>> /\ ops' \in 0..MaxOps
    BY <1>3 DEF Start, TypeOK
<1> QED
    BY <1>4, <1>6, <1>7, QuietKeeps DEF Keeps, IInv, TypeOK

-----------------------------------------------------------------------------
LEMMA InitInv == Init => IInv /\ LC!Init
<1> SUFFICES ASSUME Init PROVE IInv /\ LC!Init
    OBVIOUS
<1>1. TypeOK
    BY InitType
<1>2. SnapshotsCoherent
    <2>1. \A w \in Workers : job[w].pc = "idle"
        BY DEF Init, Idle
    <2> QED BY <2>1 DEF SnapshotsCoherent, JobCoherent, SnapshotPcs, GatePcs
<1>3. TrailMatchesState /\ ReadyIsVerified
    BY DEF Init, TrailMatchesState, ReadyIsVerified, NoRow, Absent, LC!Absent
<1>4. AnomalyHolds
    BY DEF Init, AnomalyHolds
<1>5. LC!Init
    <2>1. [t \in Tenants |-> tenants[t].state]
            = [t \in Tenants |-> IF t \in Legacy THEN "Failed" ELSE Absent]
        BY DEF Init, NoRow
    <2> QED BY <2>1 DEF Init, LC!Init, Absent
<1> QED
    BY <1>1, <1>2, <1>3, <1>4, <1>5 DEF IInv

LEMMA NextKeeps ==
    ASSUME IInv, SingleRegistrar, [Next]_vars
    PROVE  IInv' /\ [LC!Next]_(LC!vars)
<1>1. CASE UNCHANGED vars
    <2>1. IInv'
        BY <1>1 DEF vars, IInv, TypeOK, SnapshotsCoherent, JobCoherent, Coherent,
                    TrailMatchesState, ReadyIsVerified, AnomalyHolds
    <2>2. UNCHANGED LC!vars
        BY <1>1 DEF vars, LC!vars
    <2> QED BY <2>1, <2>2
<1>2. CASE \E w \in Workers : Start(w)
    BY <1>2, StartKeeps DEF Keeps
<1>3. CASE \E w \in Workers : Raise(w)
    BY <1>3, ThrowKeeps DEF Keeps, Raise
<1>4. CASE \E w \in Workers : Crash(w)
    BY <1>4, DoneKeeps DEF Keeps, Crash
<1>5. CASE \E w \in Workers : Step(w)
    <2>1. PICK w \in Workers : Step(w)
        BY <1>5
    <2>2. Keeps
        BY <2>1, TransitionReadKeeps, TransitionCasKeeps, FenceKeeps, RegisterReadKeeps,
           RegisterAuditKeeps, RegisterPutKeeps, ProvisionKeeps, ApplySchemaKeeps,
           TerminalKeeps, RecoverReadKeeps, RecoverHistoryKeeps, VerifyReadKeeps,
           VerifyEnterKeeps, VerifyRereadKeeps, VerifyProbeKeeps, VerifyDecideKeeps,
           VerifyRemoveKeeps, VerifyRecordKeeps, VerifyReadyKeeps, VerifyFailKeeps,
           VerifyAnomalyKeeps, ReassociateReadKeeps, ReassociateCasKeeps,
           DisableRoutingKeeps
           DEF Step
    <2> QED BY <2>2 DEF Keeps
<1> QED
    BY <1>1, <1>2, <1>3, <1>4, <1>5 DEF Next

(***************************************************************************)
(* The inductive invariant holds in every reachable state, for every       *)
(* number of tenants, workers and calls and with crashes and store errors  *)
(* anywhere, as long as registration is serialised per tenant.             *)
(***************************************************************************)
THEOREM Invariance ==
    ASSUME SingleRegistrar
    PROVE  Spec => []IInv
<1>1. Init => IInv
    BY InitInv
<1>2. IInv /\ [Next]_vars => IInv'
    BY NextKeeps
<1> QED
    BY <1>1, <1>2, PTL DEF Spec

\* Every variable keeps its type.
THEOREM TypeCorrect ==
    ASSUME SingleRegistrar
    PROVE  Spec => []TypeOK
<1>1. IInv => TypeOK
    BY DEF IInv
<1> QED
    BY <1>1, Invariance, PTL

(***************************************************************************)
(* The compare-and-swap discipline: a snapshot whose version is current is *)
(* the row, so no lifecycle write overwrites one its caller has not seen.  *)
(***************************************************************************)
THEOREM SnapshotsStayCoherent ==
    ASSUME SingleRegistrar
    PROVE  Spec => []SnapshotsCoherent
<1>1. IInv => SnapshotsCoherent
    BY DEF IInv
<1> QED
    BY <1>1, Invariance, PTL

\* The last audited transition of a tenant ends in its registry state.
THEOREM TrailAgrees ==
    ASSUME SingleRegistrar
    PROVE  Spec => []TrailMatchesState
<1>1. IInv => TrailMatchesState
    BY DEF IInv
<1> QED
    BY <1>1, Invariance, PTL

(***************************************************************************)
(* A Ready tenant was verified, through the association it has now, to     *)
(* reach its own database and not the Control DB.                          *)
(***************************************************************************)
THEOREM ReadyOnlyVerified ==
    ASSUME SingleRegistrar
    PROVE  Spec => []ReadyIsVerified
<1>1. IInv => ReadyIsVerified
    BY DEF IInv
<1> QED
    BY <1>1, Invariance, PTL

(***************************************************************************)
(* No two tenants are Ready on one physical database, whatever happens to  *)
(* the ledger: a database has one name, and a Ready tenant's bears its id. *)
(***************************************************************************)
THEOREM Isolation ==
    ASSUME SingleRegistrar
    PROVE  Spec => []NoSharedDatabase
<1>1. IInv => NoSharedDatabase
    BY DEF IInv, ReadyIsVerified, NoSharedDatabase, Proven
<1> QED
    BY <1>1, Invariance, PTL

\* An anomaly on record keeps the tenant Quarantined or Decommissioned.
THEOREM AnomalyIsFinal ==
    ASSUME SingleRegistrar
    PROVE  Spec => []AnomalyHolds
<1>1. IInv => AnomalyHolds
    BY DEF IInv
<1> QED
    BY <1>1, Invariance, PTL

(***************************************************************************)
(* The control plane implements the lifecycle contract: registration once, *)
(* then audited edges of the contract only.                                *)
(***************************************************************************)
THEOREM Refinement ==
    ASSUME SingleRegistrar
    PROVE  Spec => ImplementsContract
<1>1. Init => LC!Init
    BY InitInv
<1>2. IInv /\ [Next]_vars => [LC!Next]_(LC!vars)
    BY NextKeeps
<1> QED
    BY <1>1, <1>2, Invariance, PTL DEF Spec, ImplementsContract, LC!Spec

-----------------------------------------------------------------------------
(***************************************************************************)
(* A step of w is about the tenant of its call: rows, evidence and jobs of *)
(* others stay as they are.                                                *)
(***************************************************************************)
JobFrame(w) ==
    /\ \A v \in Workers \ {w} : job'[v] = job[v]
    /\ job'[w].pc = "idle" \/ job'[w].t = job[w].t

LEMMA JobFrames ==
    ASSUME IInv, NEW w \in Workers
    PROVE  /\ \A pc \in Pcs : Goto(w, pc) => JobFrame(w)
           /\ \A pc \in Pcs, rec \in Rows : GotoWith(w, pc, rec) => JobFrame(w)
           /\ \A pc \in Pcs, out \in Results : Fail(w, pc, out) => JobFrame(w)
           /\ Done(w) => JobFrame(w)
           /\ Settle(w) => JobFrame(w)
           /\ Throw(w) => JobFrame(w)
           /\ Proceed(w) => JobFrame(w)
<1>0. job \in [Workers -> Jobs]
    BY DEF IInv, TypeOK
<1>1. \A pc \in Pcs : Goto(w, pc) => JobFrame(w)
    BY <1>0 DEF Goto, JobFrame, Jobs
<1>2. \A pc \in Pcs, rec \in Rows : GotoWith(w, pc, rec) => JobFrame(w)
    BY <1>0 DEF GotoWith, JobFrame, Jobs
<1>3. \A pc \in Pcs, out \in Results : Fail(w, pc, out) => JobFrame(w)
    BY <1>0 DEF Fail, JobFrame, Jobs
<1>4. Done(w) => JobFrame(w)
    BY <1>0 DEF Done, JobFrame, Idle
<1>5. Settle(w) => JobFrame(w)
    BY <1>1, <1>4 DEF Settle, Pcs
<1>6. Throw(w) => JobFrame(w)
    BY <1>1, <1>4 DEF Throw, Pcs
<1>7. Proceed(w) => JobFrame(w)
    BY <1>1, <1>5 DEF Proceed, Pcs
<1> QED BY <1>1, <1>2, <1>3, <1>4, <1>5, <1>6, <1>7

\* The same of a step that writes fields of its job in place.
LEMMA EditFrames ==
    ASSUME IInv, NEW w \in Workers, NEW a, NEW b, NEW c
    PROVE  /\ job' = [job EXCEPT ![w].pc = a, ![w].leg = b] => JobFrame(w)
           /\ job' = [job EXCEPT ![w].pc = a, ![w].to = b] => JobFrame(w)
           /\ job' = [job EXCEPT ![w].pc = a, ![w].ev = b] => JobFrame(w)
           /\ job' = [job EXCEPT ![w].pc = a, ![w].out = b] => JobFrame(w)
           /\ job' = [job EXCEPT ![w].pc = a, ![w].rec = b, ![w].tries = c] => JobFrame(w)
<1>0. job \in [Workers -> Jobs]
    BY DEF IInv, TypeOK
<1>1. job' = [job EXCEPT ![w].pc = a, ![w].leg = b] => JobFrame(w)
    BY <1>0 DEF JobFrame, Jobs
<1>2. job' = [job EXCEPT ![w].pc = a, ![w].to = b] => JobFrame(w)
    BY <1>0 DEF JobFrame, Jobs
<1>3. job' = [job EXCEPT ![w].pc = a, ![w].ev = b] => JobFrame(w)
    BY <1>0 DEF JobFrame, Jobs
<1>4. job' = [job EXCEPT ![w].pc = a, ![w].out = b] => JobFrame(w)
    BY <1>0 DEF JobFrame, Jobs
<1>5. job' = [job EXCEPT ![w].pc = a, ![w].rec = b, ![w].tries = c] => JobFrame(w)
    BY <1>0 DEF JobFrame, Jobs
<1> QED BY <1>1, <1>2, <1>3, <1>4, <1>5

TablesFrame(w) ==
    /\ \A u \in Tenants \ {job[w].t} :
        /\ tenants'[u] = tenants[u]
        /\ ledger'[u] = ledger[u]
        /\ verified'[u] = verified[u]
    /\ anomalies \subseteq anomalies'

LEMMA StepFrame ==
    ASSUME IInv, NEW w \in Workers, Step(w) \/ Raise(w) \/ Crash(w)
    PROVE  JobFrame(w) /\ TablesFrame(w)
<1>0. /\ job \in [Workers -> Jobs] /\ tenants \in [Tenants -> Rows]
      /\ ledger \in [Tenants -> Evidence] /\ verified \in [Tenants -> Evidence]
    BY DEF IInv, TypeOK
<1>1. Local => TablesFrame(w)
    BY DEF Local, Quiet, TablesFrame
<1>2. \A s \in States, ref \in Refs : Commit(w, s, ref) => TablesFrame(w)
    BY <1>0 DEF Commit, TablesFrame
<1>3. CASE Raise(w) \/ Crash(w)
    BY <1>1, <1>3, JobFrames DEF Raise, Crash
<1>4. ASSUME TransitionRead(w) PROVE JobFrame(w) /\ TablesFrame(w)
    <2>1. job[w].t \in Tenants
        BY <1>4 DEF IInv, TypeOK, TransitionRead
    <2> QED BY <1>0, <1>1, <1>4, <2>1, JobFrames DEF TransitionRead, Pcs
<1>5. ASSUME TransitionCas(w) PROVE JobFrame(w) /\ TablesFrame(w)
    <2>1. job[w].to \in States /\ job[w].rec.assoc \in Refs
        BY <1>5, RegistryEdges DEF IInv, TypeOK, TransitionCas, SnapshotsCoherent, JobCoherent, Jobs, Rows
    <2>2. CASE Commit(w, job[w].to, job[w].rec.assoc) /\ Proceed(w)
        BY <1>2, <2>1, <2>2, JobFrames
    <2>3. CASE Throw(w) /\ Local
        BY <1>1, <2>3, JobFrames
    <2> QED BY <1>5, <2>2, <2>3 DEF TransitionCas
<1>6. ASSUME Fence(w) PROVE JobFrame(w) /\ TablesFrame(w)
    <2>1. "regRead" \in Pcs
        BY DEF Pcs
    <2>2. TablesFrame(w)
        BY <1>1, <1>6 DEF Fence
    <2>3. \/ Goto(w, "regRead") \/ Done(w)
          \/ job' = [job EXCEPT ![w].pc = "provision", ![w].leg = "resume"]
        BY <1>6 DEF Fence
    <2> QED BY <2>1, <2>2, <2>3, JobFrames, EditFrames
<1>7. ASSUME RegisterRead(w) PROVE JobFrame(w) /\ TablesFrame(w)
    <2>1. "regAudit" \in Pcs
        BY DEF Pcs
    <2>2. TablesFrame(w)
        BY <1>1, <1>7 DEF RegisterRead
    <2>3. Goto(w, "regAudit") \/ job' = [job EXCEPT ![w].pc = "tRead", ![w].to = "Provisioning"]
        BY <1>7 DEF RegisterRead
    <2> QED BY <2>1, <2>2, <2>3, JobFrames, EditFrames
<1>8. ASSUME RegisterAudit(w) PROVE JobFrame(w) /\ TablesFrame(w)
    BY <1>0, <1>8, JobFrames DEF RegisterAudit, Pcs, TablesFrame
<1>9. ASSUME RegisterPut(w) PROVE JobFrame(w) /\ TablesFrame(w)
    <2>1. TablesFrame(w)
        BY <1>0, <1>9 DEF RegisterPut, TablesFrame
    <2>2. job' = [job EXCEPT ![w].pc = "tRead", ![w].to = "Provisioning"]
        BY <1>9 DEF RegisterPut
    <2> QED BY <2>1, <2>2, EditFrames
<1>10. ASSUME Provision(w) \/ ApplySchema(w) \/ Terminal(w) PROVE JobFrame(w) /\ TablesFrame(w)
    <2>1. "apply" \in Pcs /\ "vRead" \in Pcs
        BY DEF Pcs
    <2>2. TablesFrame(w)
        BY <1>1, <1>10 DEF Provision, ApplySchema, Terminal, TablesFrame, Quiet
    <2>3. Goto(w, "apply") \/ Goto(w, "vRead") \/ Settle(w) \/ Done(w)
        BY <1>10 DEF Provision, ApplySchema, Terminal
    <2> QED BY <2>1, <2>2, <2>3, JobFrames
<1>11. ASSUME RecoverRead(w) PROVE JobFrame(w) /\ TablesFrame(w)
    <2>1. Throw(w) \/ job' = [job EXCEPT ![w].pc = "recHistory", ![w].leg = "classify"]
        BY <1>11 DEF RecoverRead
    <2>2. TablesFrame(w)
        BY <1>1, <1>11 DEF RecoverRead
    <2> QED BY <2>1, <2>2, JobFrames, EditFrames
<1>12. ASSUME RecoverHistory(w) PROVE JobFrame(w) /\ TablesFrame(w)
    <2>1. \/ job' = [job EXCEPT ![w].pc = "tRead", ![w].to = "Quarantined"]
          \/ job' = [job EXCEPT ![w].pc = "vRead", ![w].leg = "recover"]
        BY <1>12 DEF RecoverHistory
    <2>2. TablesFrame(w)
        BY <1>1, <1>12 DEF RecoverHistory
    <2> QED BY <2>1, <2>2, EditFrames
<1>13. ASSUME VerifyRead(w) PROVE JobFrame(w) /\ TablesFrame(w)
    <2>1. job[w].t \in Tenants
        BY <1>13 DEF IInv, TypeOK, VerifyRead
    <2> QED BY <1>0, <1>1, <1>13, <2>1, JobFrames DEF VerifyRead, Pcs
<1>14. ASSUME VerifyEnter(w) PROVE JobFrame(w) /\ TablesFrame(w)
    <2>1. job[w].rec.assoc \in Refs /\ "Verifying" \in States
        BY <1>0 DEF Jobs, Rows, States, LC!States
    <2>2. Fresh(w) /\ job[w].pc # "idle" => Swapped(w, "Verifying", job[w].rec.assoc) \in Rows
        BY <1>0, <2>1 DEF Jobs, Rows, Swapped
    <2> QED BY <1>1, <1>2, <1>14, <2>1, <2>2, JobFrames DEF VerifyEnter, Pcs
<1>15. ASSUME VerifyReread(w) PROVE JobFrame(w) /\ TablesFrame(w)
    <2>1. \/ Settle(w) \/ Throw(w)
          \/ job' = [job EXCEPT ![w].pc = "vEnter", ![w].rec = tenants[job[w].t], ![w].tries = 2]
        BY <1>15 DEF VerifyReread
    <2>2. TablesFrame(w)
        BY <1>1, <1>15 DEF VerifyReread
    <2> QED BY <2>1, <2>2, JobFrames, EditFrames
<1>16. ASSUME VerifyProbe(w) PROVE JobFrame(w) /\ TablesFrame(w)
    BY <1>1, <1>16, JobFrames DEF VerifyProbe, Pcs, Results
<1>17. ASSUME VerifyDecide(w) PROVE JobFrame(w) /\ TablesFrame(w)
    <2>1. \/ \E ev : job' = [job EXCEPT ![w].pc = "vRecord", ![w].ev = ev]
          \/ \E out : job' = [job EXCEPT ![w].pc = "vDrop", ![w].out = out]
        BY <1>17 DEF VerifyDecide
    <2>2. TablesFrame(w)
        BY <1>1, <1>17 DEF VerifyDecide
    <2> QED BY <2>1, <2>2, EditFrames
<1>18. ASSUME VerifyRemove(w) PROVE JobFrame(w) /\ TablesFrame(w)
    BY <1>0, <1>18, JobFrames DEF VerifyRemove, Pcs, TablesFrame, Quiet
<1>19. ASSUME VerifyRecord(w) PROVE JobFrame(w) /\ TablesFrame(w)
    BY <1>0, <1>19, JobFrames DEF VerifyRecord, Pcs, Results, TablesFrame, Quiet
<1>20. ASSUME VerifyReady(w) \/ VerifyFail(w) PROVE JobFrame(w) /\ TablesFrame(w)
    <2>1. job[w].rec.assoc \in Refs /\ {"Ready", "Quarantined", "Failed"} \subseteq States
        BY <1>0 DEF Jobs, Rows, States, LC!States
    <2> QED BY <1>1, <1>2, <1>20, <2>1, JobFrames DEF VerifyReady, VerifyFail, Pcs
<1>21. ASSUME VerifyAnomaly(w) PROVE JobFrame(w) /\ TablesFrame(w)
    BY <1>0, <1>21, JobFrames DEF VerifyAnomaly, TablesFrame, Quiet
<1>22. ASSUME ReassociateRead(w) PROVE JobFrame(w) /\ TablesFrame(w)
    <2>1. job[w].t \in Tenants
        BY <1>22 DEF IInv, TypeOK, ReassociateRead
    <2> QED BY <1>0, <1>1, <1>22, <2>1, JobFrames DEF ReassociateRead, Pcs
<1>23. ASSUME ReassociateCas(w) PROVE JobFrame(w) /\ TablesFrame(w)
    <2>1. job[w].ref \in Refs /\ "Verifying" \in States
        BY <1>0 DEF Jobs, States, LC!States
    <2> QED BY <1>1, <1>2, <1>23, <2>1, JobFrames DEF ReassociateCas, Pcs
<1>24. ASSUME DisableRouting(w) PROVE JobFrame(w) /\ TablesFrame(w)
    BY <1>0, <1>24, JobFrames DEF DisableRouting, TablesFrame, Quiet
<1> QED
    BY <1>3, <1>4, <1>5, <1>6, <1>7, <1>8, <1>9, <1>10, <1>11, <1>12, <1>13, <1>14, <1>15,
       <1>16, <1>17, <1>18, <1>19, <1>20, <1>21, <1>22, <1>23, <1>24 DEF Step

LEMMA StepIsBusy ==
    ASSUME NEW w \in Workers, Step(w) \/ Raise(w) \/ Crash(w)
    PROVE  job[w].pc # "idle"
BY DEF Step, Raise, Crash, TransitionRead, TransitionCas, Fence, RegisterRead, RegisterAudit,
    RegisterPut, Provision, ApplySchema, Terminal, RecoverRead, RecoverHistory, VerifyRead,
    VerifyEnter, VerifyReread, VerifyProbe, VerifyDecide, VerifyRemove, VerifyRecord,
    VerifyReady, VerifyFail, VerifyAnomaly, ReassociateRead, ReassociateCas, DisableRouting

\* What Start does, field by field.
LEMMA StartFields ==
    ASSUME IInv, NEW w \in Workers, Start(w)
    PROVE  /\ \A v \in Workers \ {w} : job'[v] = job[v]
           /\ \E c \in Allowed[w] : /\ c \in Ops \X Tenants
                                    /\ job'[w].pc = Entry[c[1]] /\ job'[w].t = c[2]
                                    /\ job'[w].to = Target(c[1])
           /\ UNCHANGED <<tenants, ledger, verified, anomalies>>
<1>1. PICK c \in Allowed[w], r \in Refs :
        job' = [job EXCEPT ![w] = [Idle EXCEPT !.pc = Entry[c[1]], !.t = c[2],
                                               !.to = Target(c[1]), !.ref = r]]
    BY DEF Start
<1> DEFINE j == [Idle EXCEPT !.pc = Entry[c[1]], !.t = c[2],
                             !.to = Target(c[1]), !.ref = r]
<1>2. c \in Ops \X Tenants
    OBVIOUS
<1>3. job' = [job EXCEPT ![w] = j] /\ job \in [Workers -> Jobs]
    BY <1>1 DEF IInv, TypeOK
<1>4. j.pc = Entry[c[1]] /\ j.t = c[2] /\ j.to = Target(c[1])
    BY DEF Idle
<1> HIDE DEF j
<1>5. job'[w] = j /\ \A v \in Workers \ {w} : job'[v] = job[v]
    BY <1>3
<1> QED
    BY <1>2, <1>4, <1>5 DEF Start, Quiet

-----------------------------------------------------------------------------
(***************************************************************************)
(* A tenant with an anomaly history: where a call for it may stand, and    *)
(* which transitions it may be about.                                      *)
(***************************************************************************)
HistoryPcs == {"fence", "recRead", "recHistory", "tRead", "tCas", "disable", "terminal"}

HistoryJob(j) ==
    /\ j.pc \in HistoryPcs
    /\ j.pc = "tRead" => j.to \in {"Suspended", "Decommissioned", "Quarantined"}
    /\ j.pc = "tCas" => j.to \in {"Decommissioned", "Quarantined"}

HistoryInv ==
    /\ Legacy \subseteq anomalies
    /\ HistoryNeverResumes
    /\ \A w \in Workers : job[w].pc # "idle" /\ job[w].t \in Legacy => HistoryJob(job[w])

\* Such a call goes on to its end, or through the transition it is about.
LEMMA HistoryStep ==
    ASSUME IInv, HistoryInv, NEW w \in Workers, Step(w) \/ Raise(w) \/ Crash(w),
           job[w].pc # "idle", job[w].t \in Legacy
    PROVE  /\ job'[w].pc # "idle" => HistoryJob(job'[w])
           /\ tenants'[job[w].t].state \in {"Failed", "Quarantined", "Decommissioned"}
<1> DEFINE t == job[w].t
           Holds == /\ job'[w].pc # "idle" => HistoryJob(job'[w])
                    /\ tenants'[t].state \in {"Failed", "Quarantined", "Decommissioned"}
<1>1. /\ job[w] \in Jobs /\ t \in Tenants /\ tenants \in [Tenants -> Rows] /\ TypeOK
      /\ tenants[t].state \in {"Failed", "Quarantined", "Decommissioned"}
      /\ HistoryJob(job[w]) /\ t \in anomalies
    BY DEF IInv, TypeOK, HistoryInv, HistoryNeverResumes
<1>2. Local /\ (Done(w) \/ Settle(w) \/ Throw(w)) => Holds
    <2>1. Done(w) \/ Settle(w) \/ Throw(w) => job'[w].pc \in {"idle", "terminal"}
        BY DoneMoves, SettleMoves, ThrowMoves, <1>1
    <2> QED BY <2>1, <1>1 DEF HistoryJob, HistoryPcs, Local, Quiet
<1>3. CASE Raise(w) \/ Crash(w)
    BY <1>2, <1>3 DEF Raise, Crash
<1>4. CASE Fence(w)
    BY <1>1, <1>2, <1>4 DEF Fence, Absent, LC!Absent
<1>5. CASE RecoverRead(w)
    <2>1. CASE Throw(w)
        BY <1>2, <1>5, <2>1 DEF RecoverRead
    <2>2. CASE job' = [job EXCEPT ![w].pc = "recHistory", ![w].leg = "classify"]
        <3>1. job'[w].pc = "recHistory"
            BY <1>1, <2>2 DEF TypeOK, Jobs
        <3> QED BY <3>1, <1>1, <1>5 DEF RecoverRead, Local, Quiet, HistoryJob, HistoryPcs
    <2> QED BY <1>5, <2>1, <2>2 DEF RecoverRead
<1>6. CASE RecoverHistory(w)
    <2>1. job' = [job EXCEPT ![w].pc = "tRead", ![w].to = "Quarantined"]
        BY <1>1, <1>6 DEF RecoverHistory
    <2>2. job'[w].pc = "tRead" /\ job'[w].to = "Quarantined"
        BY <1>1, <2>1 DEF TypeOK, Jobs
    <2> QED BY <2>2, <1>1, <1>6 DEF RecoverHistory, Local, Quiet, HistoryJob, HistoryPcs
<1>7. CASE TransitionRead(w)
    <2>1. job[w].to \in {"Suspended", "Decommissioned", "Quarantined"}
        BY <1>1, <1>7 DEF TransitionRead, HistoryJob
    <2>2. CASE Proceed(w)
        BY <1>2, <1>7, <2>1, <2>2 DEF TransitionRead, Proceed
    <2>3. CASE tenants[t].state \in AllowedFrom[job[w].to] /\ GotoWith(w, "tCas", tenants[t])
        <3>1. job'[w].pc = "tCas" /\ job'[w].to = job[w].to
            <4>1. "tCas" \in Pcs
                BY DEF Pcs
            <4> QED BY <1>1, <2>3, <4>1, GotoWithFields
        <3>2. job[w].to # "Suspended"
            BY <1>1, <2>3 DEF AllowedFrom
        <3> QED BY <3>1, <3>2, <2>1, <1>1, <1>7 DEF TransitionRead, Local, Quiet, HistoryJob, HistoryPcs
    <2>4. CASE Throw(w)
        BY <1>2, <1>7, <2>4 DEF TransitionRead
    <2> QED BY <1>7, <2>2, <2>3, <2>4 DEF TransitionRead
<1>8. CASE TransitionCas(w)
    <2>1. job[w].to \in {"Decommissioned", "Quarantined"}
        BY <1>1, <1>8 DEF TransitionCas, HistoryJob
    <2>2. CASE Fresh(w) /\ Commit(w, job[w].to, job[w].rec.assoc) /\ Proceed(w)
        <3>1. tenants'[t].state = job[w].to
            BY <1>1, <2>2 DEF Commit, Swapped
        <3>2. job'[w].pc \in {"idle", "terminal"}
            BY <2>1, <2>2, <1>1, SettleMoves DEF Proceed
        <3> QED BY <3>1, <3>2, <2>1 DEF HistoryJob, HistoryPcs
    <2>3. CASE Throw(w) /\ Local
        BY <1>2, <2>3
    <2> QED BY <1>8, <2>2, <2>3 DEF TransitionCas
<1>9. CASE DisableRouting(w)
    <2>1. job'[w].pc = "idle"
        BY <1>9, <1>1, DoneMoves DEF DisableRouting
    <2> QED BY <2>1, <1>1, <1>9 DEF DisableRouting, Quiet
<1>10. CASE Terminal(w)
    BY <1>2, <1>10 DEF Terminal
<1>11. CASE job[w].pc \notin HistoryPcs
    BY <1>1, <1>11 DEF HistoryJob
<1> QED
    BY <1>3, <1>4, <1>5, <1>6, <1>7, <1>8, <1>9, <1>10, <1>11
       DEF Step, HistoryPcs, RegisterRead, RegisterAudit, RegisterPut, Provision, ApplySchema,
           VerifyRead, VerifyEnter, VerifyReread, VerifyProbe, VerifyDecide, VerifyRemove,
           VerifyRecord, VerifyReady, VerifyFail, VerifyAnomaly, ReassociateRead, ReassociateCas

LEMMA HistoryKept ==
    ASSUME IInv, HistoryInv, RecoverOnly, [Next]_vars
    PROVE  HistoryInv'
<1>1. CASE UNCHANGED vars
    BY <1>1 DEF vars, HistoryInv, HistoryNeverResumes
<1>2. CASE \E w \in Workers : Start(w)
    <2>1. PICK w \in Workers : Start(w)
        BY <1>2
    <2>2. PICK c \in Allowed[w] : /\ c \in Ops \X Tenants
                                  /\ job'[w].pc = Entry[c[1]] /\ job'[w].t = c[2]
                                  /\ job'[w].to = Target(c[1])
        BY <2>1, StartFields
    <2>3. c = <<c[1], c[2]>>
        BY <2>2
    <2>4. c[2] \in Legacy => c[1] \in Ops \ {"verify", "reassociate"}
        BY <2>2, <2>3 DEF RecoverOnly
    <2>5. job'[w].t \in Legacy => HistoryJob(job'[w])
        BY <2>2, <2>4 DEF Entry, Target, Ops, HistoryJob, HistoryPcs
    <2>6. /\ \A v \in Workers \ {w} : job'[v] = job[v]
          /\ UNCHANGED <<tenants, anomalies>>
        BY <2>1, StartFields
    <2> QED BY <2>5, <2>6 DEF HistoryInv, HistoryNeverResumes
<1>3. CASE \E w \in Workers : Step(w) \/ Raise(w) \/ Crash(w)
    <2>1. PICK w \in Workers : Step(w) \/ Raise(w) \/ Crash(w)
        BY <1>3
    <2>2. JobFrame(w) /\ TablesFrame(w)
        BY <2>1, StepFrame
    <2>3. CASE job[w].pc # "idle" /\ job[w].t \in Legacy
        <3>1. /\ job'[w].pc # "idle" => HistoryJob(job'[w])
              /\ tenants'[job[w].t].state \in {"Failed", "Quarantined", "Decommissioned"}
            BY <2>1, <2>3, HistoryStep
        <3> QED BY <2>2, <3>1 DEF JobFrame, TablesFrame, HistoryInv, HistoryNeverResumes
    <2>4. CASE job[w].pc # "idle" /\ job[w].t \notin Legacy
        BY <2>2, <2>4 DEF JobFrame, TablesFrame, HistoryInv, HistoryNeverResumes
    <2>5. job[w].pc # "idle"
        BY <2>1, StepIsBusy
    <2> QED BY <2>3, <2>4, <2>5
<1> QED BY <1>1, <1>2, <1>3 DEF Next

(***************************************************************************)
(* recover() quarantines a Failed tenant with an isolation-class history   *)
(* and never sends it through the gate again, whoever else transitions or  *)
(* recovers it meanwhile and whatever raises or dies.                      *)
(***************************************************************************)
THEOREM HistoryIsFinal ==
    ASSUME SingleRegistrar, RecoverOnly
    PROVE  Spec => []HistoryNeverResumes
<1>1. Init => HistoryInv
    <2> SUFFICES ASSUME Init PROVE HistoryInv
        OBVIOUS
    <2>1. \A w \in Workers : job[w].pc = "idle"
        BY DEF Init, Idle
    <2>2. \A t \in Legacy : tenants[t].state = "Failed"
        BY DEF Init
    <2> QED BY <2>1, <2>2 DEF Init, HistoryInv, HistoryNeverResumes
<1>2. IInv /\ HistoryInv /\ [Next]_vars => HistoryInv'
    BY HistoryKept
<1>3. HistoryInv => HistoryNeverResumes
    BY DEF HistoryInv
<1> QED
    BY <1>1, <1>2, <1>3, Invariance, PTL DEF Spec
=============================================================================
