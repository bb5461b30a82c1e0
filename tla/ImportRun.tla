----------------------------- MODULE ImportRun -----------------------------
(***************************************************************************)
(* ImportService.start_import (import_service/service.py) against one      *)
(* tenant database, run by several runners -- the import processes, each   *)
(* of which serves one call at a time.                                     *)
(*                                                                         *)
(* One step is one statement of a PostgreSQL transaction at READ COMMITTED *)
(* or one call to the outside; a transaction that touches one contended    *)
(* row and then commits is one step.  A batch is a long transaction: what  *)
(* it has written stays private until the commit that also writes its      *)
(* checkpoint, its written rows and the chain lock block other runners,    *)
(* and a deadlock among them is broken by the database.                    *)
(***************************************************************************)
EXTENDS LineageChain, Sequences, FiniteSets

CONSTANTS
    Runners,        \* import processes
    Ops,            \* operation keys
    Jobs,           \* job ids, uuid4: as many as there may be fresh jobs
    NoJob,
    Keys,           \* natural keys of the target table
    NoKey,          \* the natural key of a record the ingress floor rejects
    Values,         \* contents of a tenant row, in the columns an import supplies
    NoValue,        \* no such row
    Raw,            \* the records read from each operation's source
    Unsupported,    \* the operations whose source is of a kind with no adapter
    BatchSize,
    Calls,          \* the operations each runner may be called for
    MaxStarts,      \* bound: calls in one behaviour
    MaxFaults       \* bound: failing statements and dying calls

Records == [key : Keys \cup {NoKey}, val : Values, ref : Ops \X Nat]

ASSUME ImportAssumption ==
    /\ NoJob \notin Jobs /\ NoKey \notin Keys /\ NoValue \notin Values
    /\ Ops # {}
    /\ Raw \in [Ops -> Seq(Records)]
    /\ Unsupported \subseteq Ops
    /\ Calls \in [Runners -> SUBSET Ops]
    /\ BatchSize \in Nat \ {0}
    /\ MaxStarts \in Nat /\ MaxFaults \in Nat

VARIABLES
    table,          \* the target table, committed: natural key -> content
    lineage,        \* the lineage table, committed
    idem,           \* import_idempotency by operation key: its job and status
    tally,          \* the counts in that row
    jobs,           \* import_job by job id
    ckpt,           \* import_checkpoint: the committed batch_seq of each job
    pc, call,       \* where each runner is, and its call's local variables
    counts,         \* records each runner's call has applied and found unchanged
    head,           \* the chain head each runner has read
    written, emitted, \* what each runner's open transaction has written to the target table and to the lineage
    locking,        \* whether the sessions of this deployment have lock_chain
    chain,          \* the runner that holds the chain's advisory lock
    trail,          \* the audit actions recorded for each runner's current call
    starts, faults  \* used up so far

store == <<table, lineage, jobs, ckpt>>
vars == <<table, lineage, idem, tally, jobs, ckpt, pc, call, counts, head, written, emitted, locking, chain, trail, starts, faults>>

-----------------------------------------------------------------------------
(***************************************************************************)
(* _collect and the slices of _apply_batches.                              *)
(***************************************************************************)
Accepted(rec) == rec.key # NoKey

(***************************************************************************)
(* The valid records of each operation, in the order of its source: a      *)
(* rejected record is counted and passed over.                             *)
(***************************************************************************)
Collected ==
    [op \in Ops |->
        LET valid[n \in 0..Len(Raw[op])] ==
                IF n = 0 THEN <<>>
                ELSE IF Accepted(Raw[op][n]) THEN Append(valid[n - 1], Raw[op][n])
                ELSE valid[n - 1]
        IN  valid[Len(Raw[op])]]

Valid(op) == Collected[op]

(***************************************************************************)
(* A reference names the record it was given to, or another with the same  *)
(* content, and no two records of one source have the same: the place in   *)
(* an upload, the id in the global directory.                              *)
(***************************************************************************)
ASSUME SourceAssumption ==
    \A op \in Ops : \A n \in 1..Len(Raw[op]) :
        LET ref == Raw[op][n].ref IN
        /\ ref[1] \in Ops /\ ref[2] \in 1..Len(Raw[ref[1]])
        /\ Raw[ref[1]][ref[2]].val = Raw[op][n].val
        /\ \A m \in 1..Len(Raw[op]) : Raw[op][m].ref = ref => m = n

Rejected(op) == Len(Raw[op]) - Len(Valid(op))

NumBatches(op) == (Len(Valid(op)) + BatchSize - 1) \div BatchSize

Least(m, n) == IF m <= n THEN m ELSE n

Batch(op, b) == SubSeq(Valid(op), (b - 1) * BatchSize + 1, Least(b * BatchSize, Len(Valid(op))))

-----------------------------------------------------------------------------
(***************************************************************************)
(* A row of import_idempotency, of import_job, and of the lineage table.   *)
(***************************************************************************)
Statuses == {"none", "in_progress", "failed", "applied"}
IdemRows == [job : Jobs \cup {NoJob}, status : Statuses]
NoIdem == [job |-> NoJob, status |-> "none"]
NoTally == [applied |-> 0, noop |-> 0, rejected |-> 0]

JobRows == [op : Ops, state : {"in_progress", "applied"}]
NoJobRow == [state |-> "none"]

Events == [source : Ops \X Nat, target : Keys, operation : {"created", "noop"}, job : Jobs]

\* A transaction that has written no row.
Nothing == [k \in {} |-> NoValue]

Pcs == {"idle", "begin", "put", "announce", "resume", "read", "write", "head", "append",
        "checkpoint", "markFailed", "failed", "finalize", "complete"}

InBatch == {"read", "write", "head", "append", "checkpoint"}

NoCall == [op |-> CHOOSE op \in Ops : TRUE, job |-> NoJob, resuming |-> FALSE, b |-> 1, i |-> 1,
           changed |-> FALSE, answer |-> "none"]

NoCounts == [applied |-> 0, noop |-> 0]

Init ==
    /\ table = [k \in Keys |-> NoValue]
    /\ lineage = {}
    /\ idem = [op \in Ops |-> NoIdem]
    /\ tally = [op \in Ops |-> NoTally]
    /\ jobs = [j \in Jobs |-> NoJobRow]
    /\ ckpt = [j \in Jobs |-> {}]
    /\ pc = [r \in Runners |-> "idle"]
    /\ call = [r \in Runners |-> NoCall]
    /\ counts = [r \in Runners |-> NoCounts]
    /\ head = [r \in Runners |-> ChainHead({})]
    /\ written = [r \in Runners |-> Nothing]
    /\ emitted = [r \in Runners |-> {}]
    /\ locking \in BOOLEAN
    /\ chain = {}
    /\ trail = [r \in Runners |-> {}]
    /\ starts = 0
    /\ faults = 0

Goto(r, p) == pc' = [pc EXCEPT ![r] = p]

Record(r, action) == trail' = [trail EXCEPT ![r] = @ \cup {action}]

\* The call ends: with a status, or with the exception the edge answers 503 to.
Answer(r, a) ==
    /\ Goto(r, "idle")
    /\ call' = [call EXCEPT ![r].answer = a]

\* Mutant: the chain lock is a session lock and outlives the transaction.
EndTxKeepLock(r) ==
    /\ written' = [written EXCEPT ![r] = Nothing]
    /\ emitted' = [emitted EXCEPT ![r] = {}]
    /\ head' = [head EXCEPT ![r] = ChainHead({})]
    /\ UNCHANGED chain

\* The transaction of r ends; its row locks and the chain lock go with it.
EndTx(r) ==
    /\ written' = [written EXCEPT ![r] = Nothing]
    /\ emitted' = [emitted EXCEPT ![r] = {}]
    /\ head' = [head EXCEPT ![r] = ChainHead({})]
    /\ chain' = chain \ {r}

NoTxStep == UNCHANGED <<head, written, emitted, chain>>
Quiet == UNCHANGED <<locking, starts, faults>>

-----------------------------------------------------------------------------
(***************************************************************************)
(* start_import up to the first batch.                                     *)
(***************************************************************************)
Request(r, op) ==
    /\ pc[r] = "idle"
    /\ op \in Calls[r]
    /\ starts < MaxStarts
    /\ Goto(r, "begin")
    /\ call' = [call EXCEPT ![r] = [NoCall EXCEPT !.op = op]]
    /\ counts' = [counts EXCEPT ![r] = NoCounts]
    /\ trail' = [trail EXCEPT ![r] = {"ImportRequested"}]
    /\ starts' = starts + 1
    /\ NoTxStep /\ UNCHANGED <<store, idem, tally, locking, faults>>

\* Job ids nobody has used: uuid4 mints one, and which one makes no difference.
FreshJobs == {j \in Jobs : jobs[j] = NoJobRow /\ \A r \in Runners : call[r].job # j}

(***************************************************************************)
(* The first read of _begin_job: replay what is applied, resume what is    *)
(* begun, otherwise mint a job.                                            *)
(***************************************************************************)
BeginRead(r) ==
    LET row == idem[call[r].op] IN
    /\ pc[r] = "begin"
    /\ \/ /\ row.status = "applied"
          /\ Record(r, "ImportCompleted")
          /\ Goto(r, "idle")
          /\ call' = [call EXCEPT ![r].job = row.job, ![r].answer = "replayed"]
       \/ /\ row.status \in {"in_progress", "failed"}
          /\ call' = [call EXCEPT ![r].job = row.job, ![r].resuming = TRUE]
          /\ Goto(r, "announce")
          /\ UNCHANGED trail
       \/ /\ row.status = "none"
          /\ FreshJobs # {}
          /\ call' = [call EXCEPT ![r].job = CHOOSE j \in FreshJobs : TRUE]
          /\ Goto(r, "put")
          /\ UNCHANGED trail
    /\ NoTxStep /\ UNCHANGED <<store, idem, tally, counts>> /\ Quiet

(***************************************************************************)
(* The two upserts of _begin_job and their commit.  ON CONFLICT DO UPDATE  *)
(* sets the columns of the new row and keeps the counts of an old one.     *)
(***************************************************************************)
BeginPut(r) ==
    LET c == call[r] IN
    /\ pc[r] = "put"
    /\ jobs' = [jobs EXCEPT ![c.job] = [op |-> c.op, state |-> "in_progress"]]
    /\ idem' = [idem EXCEPT ![c.op] = [job |-> c.job, status |-> "in_progress"]]
    /\ Goto(r, "announce")
    /\ NoTxStep /\ UNCHANGED <<table, lineage, tally, ckpt, call, trail, counts>> /\ Quiet

Announce(r) ==
    /\ pc[r] = "announce"
    /\ Record(r, IF call[r].resuming THEN "ImportResumed" ELSE "ImportStarted")
    /\ Goto(r, "resume")
    /\ NoTxStep /\ UNCHANGED <<store, idem, tally, call, counts>> /\ Quiet

\* Mutant: the loop stops before the last batch.
NextBatchShort(op, b) == IF b < NumBatches(op) THEN "read" ELSE "finalize"

\* Where a call that is about to apply batch b of op goes.
NextBatch(op, b) == IF b <= NumBatches(op) THEN "read" ELSE "finalize"

\* _resume_point: the batch after the latest checkpoint.
ResumePoint(j) ==
    IF ckpt[j] = {} THEN 1 ELSE 1 + CHOOSE b \in ckpt[j] : \A d \in ckpt[j] : d <= b

\* _collect and _resume_point.
Resume(r) ==
    LET next == ResumePoint(call[r].job) IN
    /\ pc[r] = "resume"
    /\ call[r].op \notin Unsupported
    /\ call' = [call EXCEPT ![r].b = next, ![r].i = 1]
    /\ Goto(r, NextBatch(call[r].op, next))
    /\ NoTxStep /\ UNCHANGED <<store, idem, tally, trail, counts>> /\ Quiet

\* _collect finds no adapter: the call fails, and its job stays as it is.
NoAdapter(r) ==
    /\ pc[r] = "resume"
    /\ call[r].op \in Unsupported
    /\ Goto(r, "failed")
    /\ NoTxStep /\ UNCHANGED <<store, idem, tally, call, trail, counts>> /\ Quiet

-----------------------------------------------------------------------------
(***************************************************************************)
(* One record of a batch: PgRoutedSession.upsert, then LineageEmit.emit.   *)
(*                                                                         *)
(* upsert compares, and DO UPDATE sets, the columns the record supplies.   *)
(* The records copied into one table are taken to supply the same ones, as *)
(* those of the startup directory and of a CSV file do: what is compared   *)
(* and set is the whole content, and columns no import supplies are left   *)
(* as they are and are no part of it.                                      *)
(***************************************************************************)
Current(r) == Batch(call[r].op, call[r].b)[call[r].i]

\* What the transaction of r reads: committed rows under its own writes.
RowSeen(r, k) == IF k \in DOMAIN written[r] THEN written[r][k] ELSE table[k]
LineageSeen(r) == lineage \cup emitted[r]

UpsertRead(r) ==
    LET same == RowSeen(r, Current(r).key) = Current(r).val IN
    /\ pc[r] = "read"
    /\ call' = [call EXCEPT ![r].changed = ~same]
    /\ Goto(r, IF same THEN "head" ELSE "write")
    /\ NoTxStep /\ UNCHANGED <<store, idem, tally, trail, counts>> /\ Quiet

\* Runners whose uncommitted write of the same row makes r wait.
RowHolders(r) == {o \in Runners \ {r} : Current(r).key \in DOMAIN written[o]}

UpsertWrite(r) ==
    LET rec == Current(r) IN
    /\ pc[r] = "write"
    /\ RowHolders(r) = {}
    /\ written' = [written EXCEPT ![r] = [k \in DOMAIN @ \cup {rec.key} |->
                                            IF k = rec.key THEN rec.val ELSE @[k]]]
    /\ Goto(r, "head")
    /\ UNCHANGED <<store, idem, tally, call, head, emitted, chain, trail, counts>> /\ Quiet

\* Runners that hold the advisory lock r asks for.
LockHolders(r) == IF locking THEN chain \ {r} ELSE {}

\* lock_chain, then the read of the chain head.
EmitHead(r) ==
    /\ pc[r] = "head"
    /\ LockHolders(r) = {}
    /\ chain' = IF locking THEN {r} ELSE chain
    /\ head' = [head EXCEPT ![r] = ChainHead(LineageSeen(r))]
    /\ Goto(r, "append")
    /\ UNCHANGED <<store, idem, tally, call, written, emitted, trail, counts>> /\ Quiet

EventOf(r) ==
    [source |-> Current(r).ref, target |-> Current(r).key,
     operation |-> IF call[r].changed THEN "created" ELSE "noop", job |-> call[r].job]

\* Rows of other runners, not committed yet, that hold the seq r inserts.
SeqHolders(r) == {o \in Runners \ {r} :
                    \E row \in emitted[o] : row.seq = head[r].seq + 1}

\* Mutant: the lineage table has no UNIQUE(seq).
NoUniqueSeq(r) == head[r].seq + 1 = 0

SeqTaken(r) == \E row \in LineageSeen(r) : row.seq = head[r].seq + 1

\* Mutant: lineage is written in a transaction of its own.
RollBackDataOnly(r) ==
    /\ Goto(r, "markFailed")
    /\ EndTx(r)
    /\ lineage' = LineageSeen(r)
    /\ UNCHANGED <<table, jobs, ckpt, idem, tally, call, trail, counts>>

\* The batch raises: everything it wrote is rolled back.
RollBack(r) ==
    /\ Goto(r, "markFailed")
    /\ EndTx(r)
    /\ UNCHANGED <<store, idem, tally, call, trail, counts>>

\* The INSERT waits for an uncommitted row of the same seq; UNIQUE(seq) refuses a committed one.
EmitAppend(r) ==
    LET last == call[r].i = Len(Batch(call[r].op, call[r].b)) IN
    /\ pc[r] = "append"
    /\ SeqHolders(r) = {}
    /\ \/ SeqTaken(r) /\ RollBack(r)
       \/ /\ ~SeqTaken(r)
          /\ emitted' = [emitted EXCEPT ![r] = @ \cup {NextRow(head[r], EventOf(r))}]
          /\ call' = [call EXCEPT ![r].i = IF last THEN 1 ELSE @ + 1]
          /\ Goto(r, IF last THEN "checkpoint" ELSE "read")
          /\ UNCHANGED <<store, idem, tally, head, written, chain, trail, counts>>
    /\ Quiet

\* How many records of the batch were changed: b_applied.
Applied(r) == Cardinality({row \in emitted[r] : row.event.operation = "created"})

\* Mutant: the checkpoint is upserted, so a second one is no conflict.
NoCheckpointKey(r) == call[r].job = NoJob

CheckpointTaken(r) == call[r].b \in ckpt[call[r].job]

(***************************************************************************)
(* The checkpoint row, whose key (job_id, batch_seq) refuses a second one, *)
(* and the commit of the batch.                                            *)
(***************************************************************************)
CommitBatch(r) ==
    LET c == call[r] IN
    /\ table' = [k \in Keys |-> RowSeen(r, k)]
    /\ lineage' = LineageSeen(r)
    /\ ckpt' = [ckpt EXCEPT ![c.job] = @ \cup {c.b}]
    /\ call' = [call EXCEPT ![r].b = @ + 1]
    /\ counts' = [counts EXCEPT ![r].applied = @ + Applied(r),
                                ![r].noop = @ + Len(Batch(c.op, c.b)) - Applied(r)]
    /\ Goto(r, NextBatch(c.op, c.b + 1))
    /\ EndTx(r)
    /\ UNCHANGED <<jobs, idem, tally, trail>>

Checkpoint(r) ==
    /\ pc[r] = "checkpoint"
    /\ \/ CheckpointTaken(r) /\ RollBack(r)
       \/ ~CheckpointTaken(r) /\ CommitBatch(r)
    /\ Quiet

-----------------------------------------------------------------------------
(***************************************************************************)
(* Failure of a batch.                                                     *)
(***************************************************************************)
StatementFails(r) ==
    /\ pc[r] \in InBatch
    /\ faults < MaxFaults
    /\ RollBack(r)
    /\ faults' = faults + 1
    /\ UNCHANGED <<locking, starts>>

WaitsFor(r) ==
    (IF pc[r] = "write" THEN RowHolders(r) ELSE {})
    \cup (IF pc[r] = "head" THEN LockHolders(r) ELSE {})
    \cup (IF pc[r] = "append" THEN SeqHolders(r) ELSE {})

\* r waits, through others, for itself.
Deadlocked(r) ==
    \E cycle \in SUBSET Runners :
        /\ r \in cycle
        /\ \A p \in cycle : \E q \in cycle : q \in WaitsFor(p)
        /\ \A q \in cycle : \E p \in cycle : q \in WaitsFor(p)

DeadlockVictim(r) == Deadlocked(r) /\ RollBack(r) /\ Quiet

MarkFailed(r) ==
    /\ pc[r] = "markFailed"
    /\ idem' = [idem EXCEPT ![call[r].op] = [job |-> call[r].job, status |-> "failed"]]
    /\ Goto(r, "failed")
    /\ NoTxStep /\ UNCHANGED <<store, tally, call, trail, counts>> /\ Quiet

HandBackFailure(r) ==
    /\ pc[r] = "failed"
    /\ Record(r, "ImportFailed")
    /\ Answer(r, "failed")
    /\ NoTxStep /\ UNCHANGED <<store, idem, tally, counts>> /\ Quiet

\* An exception that leaves start_import (audit, source, route or connection), or a dead process.
Abandon(r) ==
    /\ pc[r] # "idle"
    /\ faults < MaxFaults
    /\ Answer(r, "unavailable")
    /\ EndTx(r)
    /\ faults' = faults + 1
    /\ UNCHANGED <<store, idem, tally, trail, locking, starts, counts>>

-----------------------------------------------------------------------------
(***************************************************************************)
(* _finalize, and the answer.                                              *)
(***************************************************************************)
Finalize(r) ==
    LET c == call[r] IN
    /\ pc[r] = "finalize"
    /\ jobs' = [jobs EXCEPT ![c.job] = [op |-> c.op, state |-> "applied"]]
    /\ idem' = [idem EXCEPT ![c.op] = [job |-> c.job, status |-> "applied"]]
    /\ tally' = [tally EXCEPT ![c.op] = [applied |-> counts[r].applied, noop |-> counts[r].noop,
                                         rejected |-> Rejected(c.op)]]
    /\ Goto(r, "complete")
    /\ NoTxStep /\ UNCHANGED <<table, lineage, ckpt, call, trail, counts>> /\ Quiet

HandBack(r) ==
    /\ pc[r] = "complete"
    /\ Record(r, "ImportCompleted")
    /\ Answer(r, "applied")
    /\ NoTxStep /\ UNCHANGED <<store, idem, tally, counts>> /\ Quiet

\* get_status: the state it reports for an operation.
GetStatus(op) == idem[op].status

-----------------------------------------------------------------------------
Step(r) ==
    \/ BeginRead(r) \/ BeginPut(r) \/ Announce(r) \/ Resume(r) \/ NoAdapter(r)
    \/ UpsertRead(r) \/ UpsertWrite(r) \/ EmitHead(r) \/ EmitAppend(r) \/ Checkpoint(r)
    \/ DeadlockVictim(r) \/ MarkFailed(r) \/ HandBackFailure(r)
    \/ Finalize(r) \/ HandBack(r)

\* Nobody calls any more.
Rest ==
    /\ starts = MaxStarts
    /\ \A r \in Runners : pc[r] = "idle"
    /\ UNCHANGED vars

Next ==
    \/ \E r \in Runners : Step(r) \/ StatementFails(r) \/ Abandon(r)
    \/ \E r \in Runners, op \in Ops : Request(r, op)
    \/ Rest

Spec == Init /\ [][Next]_vars

\* A call that has begun goes on; nobody has to call, fail or verify.
FairSpec == Spec /\ \A r \in Runners : WF_vars(Step(r))

-----------------------------------------------------------------------------
(***************************************************************************)
(* Properties.                                                             *)
(***************************************************************************)
CallStates == [op : Ops, job : Jobs \cup {NoJob}, resuming : BOOLEAN, b : Nat, i : Nat,
               changed : BOOLEAN,
               answer : {"none", "applied", "replayed", "failed", "unavailable"}]

AuditActions == {"ImportRequested", "ImportStarted", "ImportResumed", "ImportCompleted",
                 "ImportFailed"}

(***************************************************************************)
(* The committed lineage is one chain: LineageVerifier.verify would report *)
(* no tampered row, no broken link and no gap, whatever runners emit at    *)
(* the same time, with the chain lock and without it.                      *)
(***************************************************************************)
ChainIntact == Findings(lineage) = {}

(***************************************************************************)
(* A commit adds rows only behind the rows that are already there.  The    *)
(* verifier and the keyset queries read page after page, each its own      *)
(* statement; a row that turned up behind their cursor would be missed,    *)
(* and the verifier would raise ChainBroken over a sound chain.            *)
(***************************************************************************)
AppendsBehind ==
    [][\A new \in lineage' \ lineage, old \in lineage : old.seq < new.seq]_vars

(***************************************************************************)
(* Atomic provenance (IC-003): what the target table holds is what the     *)
(* newest "created" row of the lineage says was copied there, and a row    *)
(* nobody recorded does not exist.                                         *)
(***************************************************************************)
Creations(k) == {row \in lineage : row.event.target = k /\ row.event.operation = "created"}

Provenance ==
    \A k \in Keys :
        IF Creations(k) = {} THEN table[k] = NoValue
        ELSE LET source == Latest(Creations(k)).event.source
             IN  table[k] = Raw[source[1]][source[2]].val

(***************************************************************************)
(* A batch of a job is applied as a whole and once: its records have one   *)
(* lineage row of that job each if the batch has a checkpoint, and none    *)
(* otherwise -- across crashes, resumptions and two runners that resume    *)
(* the same job.                                                           *)
(***************************************************************************)
LineageOf(j, rec) == {row \in lineage : row.event.job = j /\ row.event.source = rec.ref}

BatchOnce ==
    \A j \in {x \in Jobs : jobs[x] # NoJobRow} :
        \A b \in 1..NumBatches(jobs[j].op) :
            \A i \in 1..Len(Batch(jobs[j].op, b)) :
                Cardinality(LineageOf(j, Batch(jobs[j].op, b)[i])) =
                    (IF b \in ckpt[j] THEN 1 ELSE 0)

(***************************************************************************)
(* "applied" is never said of an import that is not there: the status row  *)
(* GetImportStatus reads, and the answer handed back for a fresh, resumed  *)
(* or replayed call, stand for a job of that operation whose batches all   *)
(* have their checkpoint; and the answer has its audit record first.       *)
(***************************************************************************)
Complete(op, j) ==
    /\ j \in Jobs
    /\ jobs[j] = [op |-> op, state |-> "applied"]
    /\ ckpt[j] = 1..NumBatches(op)

AppliedIsComplete ==
    /\ \A op \in Ops : GetStatus(op) = "applied" => Complete(op, idem[op].job)
    /\ \A r \in Runners : call[r].answer \in {"applied", "replayed"} =>
            Complete(call[r].op, call[r].job) /\ "ImportCompleted" \in trail[r]

(***************************************************************************)
(* Every call returns: runners that wait for each other's rows and for the *)
(* chain lock do not wait for ever.                                        *)
(***************************************************************************)
Returns == \A r \in Runners : pc[r] # "idle" ~> pc[r] = "idle"

(***************************************************************************)
(* The contract: a job applies its batches in order, each of them -- rows, *)
(* provenance and checkpoint -- in one indivisible step although it is     *)
(* written statement by statement beside other runners, and "applied" is   *)
(* said on the strength of a job that is through (D-20, D-21 of IC-003).   *)
(***************************************************************************)
\* The rows of the lineage table in the order of their seq.
LineageLog == [n \in 1..ChainHead(lineage).seq |-> (CHOOSE row \in lineage : row.seq = n).event]

Owners == [j \in {x \in Jobs : jobs[x] # NoJobRow} |-> jobs[j].op]

Told == [op \in Ops |-> IF GetStatus(op) = "applied" THEN idem[op].job ELSE NoJob]

Batches == [op \in Ops |-> [b \in 1..NumBatches(op) |-> Batch(op, b)]]

IC == INSTANCE ImportContract
        WITH log <- LineageLog, owner <- Owners, done <- ckpt, told <- Told

ImplementsImportContract == IC!Spec

(***************************************************************************)
(* The comment on import_idempotency.operation_key: "exactly-once under    *)
(* concurrency".  No two jobs of one operation apply batches.              *)
(***************************************************************************)
ExactlyOnce ==
    \A j, k \in {x \in Jobs : ckpt[x] # {}} : jobs[j].op = jobs[k].op => j = k
=============================================================================
