--------------------------- MODULE ImportContract ---------------------------
(***************************************************************************)
(* What an import promises about one tenant database, whatever runs,       *)
(* fails or is resumed inside: a job applies the batches of its operation  *)
(* in order, each in one indivisible step that changes the tenant's rows   *)
(* and appends their provenance, and an operation is only called applied   *)
(* on the strength of a job that has applied them all.                     *)
(***************************************************************************)
EXTENDS Naturals, Sequences

CONSTANTS
    Ops,        \* operation keys
    Jobs, NoJob,
    Keys,       \* natural keys of the target table
    NoValue,    \* no such row
    Batches     \* the batches of each operation: sequences of records

VARIABLES
    table,      \* the tenant's rows by natural key
    log,        \* the provenance, oldest first
    owner,      \* the operation of each job begun so far
    done,       \* the numbers of the batches each job has applied
    told        \* the job an operation is called applied for, or NoJob

vars == <<table, log, owner, done, told>>

Init ==
    /\ table = [k \in Keys |-> NoValue]
    /\ log = <<>>
    /\ owner = [j \in {} |-> NoJob]
    /\ done = [j \in Jobs |-> {}]
    /\ told = [op \in Ops |-> NoJob]

\* A job begins; what its operation was called before counts no more.
Begin(j, op) ==
    /\ j \notin DOMAIN owner
    /\ owner' = [x \in DOMAIN owner \cup {j} |-> IF x = j THEN op ELSE owner[x]]
    /\ told' = [told EXCEPT ![op] = NoJob]
    /\ UNCHANGED <<table, log, done>>

\* The places of the batch that copy to k.
Copies(batch, k) == {n \in 1..Len(batch) : batch[n].key = k}

\* The content of k once the batch has written its rows `changed`: its last record for k decides.
Overwritten(batch, changed, k) ==
    IF Copies(batch, k) \cap changed = {} THEN table[k]
    ELSE batch[CHOOSE n \in Copies(batch, k) : \A m \in Copies(batch, k) : m <= n].val

\* The provenance of a record: what was copied where, for which job, and whether it changed the row.
Entry(batch, changed, j, n) ==
    [source |-> batch[n].ref, target |-> batch[n].key,
     operation |-> IF n \in changed THEN "created" ELSE "noop", job |-> j]

(***************************************************************************)
(* The next batch of a job.  A record whose content the row had when it    *)
(* was looked at is recorded as "noop" and not written; which records were *)
(* found so depends on what other imports committed meanwhile.             *)
(***************************************************************************)
Apply(j, b) ==
    /\ done[j] = 1..(b - 1)
    /\ done' = [done EXCEPT ![j] = 1..b]
    /\ LET batch == Batches[owner[j]][b] IN
       \E changed \in SUBSET (1..Len(batch)) :
           /\ table' = [k \in Keys |-> Overwritten(batch, changed, k)]
           /\ log' = log \o [n \in 1..Len(batch) |-> Entry(batch, changed, j, n)]
    /\ UNCHANGED <<owner, told>>

\* The operation is called applied, by a job that is through.
Declare(j, op) ==
    /\ j \in DOMAIN owner
    /\ owner[j] = op
    /\ done[j] = 1..Len(Batches[op])
    /\ told' = [told EXCEPT ![op] = j]
    /\ UNCHANGED <<table, log, owner, done>>

\* A run that failed says so, whatever was said before.
Withdraw(op) ==
    /\ told' = [told EXCEPT ![op] = NoJob]
    /\ UNCHANGED <<table, log, owner, done>>

Next ==
    \/ \E j \in Jobs, op \in Ops : Begin(j, op) \/ Declare(j, op)
    \/ \E j \in DOMAIN owner : \E b \in 1..Len(Batches[owner[j]]) : Apply(j, b)
    \/ \E op \in Ops : Withdraw(op)

Spec == Init /\ [][Next]_vars
=============================================================================
