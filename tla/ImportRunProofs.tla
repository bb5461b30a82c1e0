-------------------------- MODULE ImportRunProofs --------------------------
(***************************************************************************)
(* Proofs about ImportRun, for any runners, operations, sources, batch     *)
(* size and bounds, with the chain lock and without it: the committed      *)
(* lineage is one chain, commits append behind it, "applied" is said of    *)
(* complete imports only, every row has its provenance, every batch is     *)
(* applied as a whole and once, and the whole implements ImportContract.   *)
(***************************************************************************)
EXTENDS ImportRun, LineageChainProofs, FiniteSetTheorems, SequenceTheorems, WellFoundedInduction, TLAPS

-----------------------------------------------------------------------------
(***************************************************************************)
(* The inductive invariant: types, jobs, checkpoints, chain, provenance.   *)
(***************************************************************************)
TypeInv ==
    /\ idem \in [Ops -> IdemRows]
    /\ jobs \in [Jobs -> JobRows \cup {NoJobRow}]
    /\ ckpt \in [Jobs -> SUBSET Nat]
    /\ pc \in [Runners -> Pcs]
    /\ call \in [Runners -> CallStates]
    /\ trail \in [Runners -> SUBSET AuditActions]
    /\ head = [r \in Runners |-> head[r]]
    /\ emitted = [r \in Runners |-> emitted[r]]

HasRow(op, j) == j \in Jobs /\ jobs[j] \in JobRows /\ jobs[j].op = op

\* A status row names a job of its operation, and a call that is past _begin_job works for one.
JobInv ==
    /\ \A op \in Ops : idem[op].status # "none" => HasRow(op, idem[op].job)
    /\ \A r \in Runners : pc[r] \notin {"idle", "begin", "put"} => HasRow(call[r].op, call[r].job)
    /\ \A r \in Runners : pc[r] = "put" =>
           /\ call[r].job \in Jobs
           /\ jobs[call[r].job] = NoJobRow
           /\ \A q \in Runners \ {r} : call[q].job # call[r].job

UpTo(n, j) == ckpt[j] = 1..n

\* The checkpoints of a job are its first batches.
CheckpointsInv ==
    \A j \in Jobs :
        /\ jobs[j] = NoJobRow => ckpt[j] = {}
        /\ jobs[j] \in JobRows => \E n \in 0..NumBatches(jobs[j].op) : UpTo(n, j)

\* Where runner r is, the checkpoints it relies on are there.
RunnerInv(r) ==
    /\ pc[r] \in InBatch =>
           /\ call[r].b \in 1..NumBatches(call[r].op)
           /\ 1..(call[r].b - 1) \subseteq ckpt[call[r].job]
    /\ pc[r] = "finalize" => UpTo(NumBatches(call[r].op), call[r].job)
    /\ pc[r] = "complete" => Complete(call[r].op, call[r].job)
    /\ pc[r] # "idle" => call[r].answer = "none"
    /\ call[r].answer \in {"applied", "replayed"} =>
           Complete(call[r].op, call[r].job) /\ "ImportCompleted" \in trail[r]

StatusInv == \A op \in Ops : idem[op].status = "applied" => Complete(op, idem[op].job)

CkptInv == CheckpointsInv /\ (\A r \in Runners : RunnerInv(r)) /\ StatusInv

\* One runner at a time has uncommitted lineage rows, and they continue the committed chain.
ChainInv ==
    /\ OneChain(lineage)
    /\ \A r \in Runners : OneChain(LineageSeen(r))
    /\ \A p, q \in Runners : emitted[p] # {} /\ emitted[q] # {} => p = q
    /\ \A r \in Runners : \A new \in emitted[r], old \in lineage : old.seq < new.seq
    /\ \A r \in Runners : pc[r] = "append" => IsHead(head[r], LineageSeen(r))

(***************************************************************************)
(* What an open transaction has written, and what it has recorded of it.   *)
(***************************************************************************)
CreationsIn(rows, k) == {row \in rows : row.event.target = k /\ row.event.operation = "created"}

\* The content of the record a lineage row names.
Copied(row) == Raw[row.event.source[1]][row.event.source[2]].val

\* The newest of these rows that created k copied val there.
LastCopied(rows, k, val) ==
    \E row \in CreationsIn(rows, k) :
        /\ \A other \in CreationsIn(rows, k) : other.seq <= row.seq
        /\ Copied(row) = val

AtRecord == {"read", "write", "head", "append"}

\* r has written its record to the target table and not yet to the lineage.
Unrecorded(r) == pc[r] \in {"head", "append"} /\ call[r].changed

RecordInv(r) ==
    /\ pc[r] \in AtRecord => call[r].i \in 1..Len(Batch(call[r].op, call[r].b))
    /\ pc[r] = "checkpoint" => call[r].i = 1
    /\ pc[r] = "write" => call[r].changed
    /\ Unrecorded(r) => Current(r).key \in DOMAIN written[r] /\ written[r][Current(r).key] = Current(r).val

WrittenInv(r) ==
    /\ \A k \in DOMAIN written[r] :
           (Unrecorded(r) /\ k = Current(r).key) \/ LastCopied(emitted[r], k, written[r][k])
    /\ \A k : CreationsIn(emitted[r], k) # {} => k \in DOMAIN written[r]

ProvenanceInv ==
    /\ written = [r \in Runners |-> written[r]]
    /\ table = [k \in Keys |-> table[k]]
    /\ \A r \in Runners : RecordInv(r) /\ WrittenInv(r)
    /\ \A k \in Keys :
           IF CreationsIn(lineage, k) = {} THEN table[k] = NoValue
           ELSE LastCopied(lineage, k, table[k])

(***************************************************************************)
(* What is recorded of each record: in an open transaction, and committed. *)
(***************************************************************************)
\* The lineage rows of job j about one record.
RowsOf(rows, j, rec) == {row \in rows : row.event.job = j /\ row.event.source = rec.ref}

Once(S) == \E row : S = {row}

\* How many records of its batch r has recorded.
Done(r) == IF pc[r] = "checkpoint" THEN Len(Batch(call[r].op, call[r].b)) ELSE call[r].i - 1

EmittedInv(r) ==
    LET batch == Batch(call[r].op, call[r].b) IN
    /\ pc[r] \notin InBatch => emitted[r] = {}
    /\ \A row \in emitted[r] :
           row.event.job = call[r].job /\ \E n \in 1..Len(batch) : row.event.source = batch[n].ref
    /\ pc[r] \in InBatch => \A n \in 1..Len(batch) :
           IF n <= Done(r) THEN Once(RowsOf(emitted[r], call[r].job, batch[n]))
           ELSE RowsOf(emitted[r], call[r].job, batch[n]) = {}

CommittedInv ==
    /\ \A row \in lineage : row.event.job \in Jobs /\ jobs[row.event.job] \in JobRows
    /\ \A j \in Jobs : jobs[j] \in JobRows =>
           \A b \in 1..NumBatches(jobs[j].op) : \A i \in 1..Len(Batch(jobs[j].op, b)) :
               IF b \in ckpt[j] THEN Once(RowsOf(lineage, j, Batch(jobs[j].op, b)[i]))
               ELSE RowsOf(lineage, j, Batch(jobs[j].op, b)[i]) = {}

OnceInv == CommittedInv /\ (\A r \in Runners : EmittedInv(r))

IInv == TypeInv /\ JobInv /\ CkptInv /\ ChainInv /\ ProvenanceInv /\ OnceInv

-----------------------------------------------------------------------------
(***************************************************************************)
(* Induction over the naturals, for the set of those that have a property. *)
(***************************************************************************)
LEMMA SetInduction ==
    ASSUME NEW P, P \subseteq Nat, 0 \in P, \A n \in P : n + 1 \in P
    PROVE  P = Nat
PROOF
<1> SUFFICES ASSUME Nat \ P # {} PROVE FALSE
  OBVIOUS
<1> DEFINE T == Nat \ P
<1>1. T \subseteq Nat /\ T # {}
  OBVIOUS
<1>2. PICK x \in T : \A y \in T : <<y, x>> \notin OpToRel(<, Nat)
  BY <1>1, WFMin, NatLessThanWellFounded, Zenon
<1>3. \A y \in T : ~(y < x)
  <2> SUFFICES ASSUME NEW y \in T, y < x PROVE FALSE
    OBVIOUS
  <2>1. y \in Nat /\ x \in Nat
    OBVIOUS
  <2>2. <<y, x>> \in OpToRel(<, Nat)
    BY <1>2, <2>1, Zenon DEF OpToRel
  <2> QED BY <1>2, <2>2, Zenon
<1>4. x \in Nat /\ x \notin P /\ x # 0
  BY <1>2
<1>5. x - 1 \in Nat /\ x - 1 < x /\ (x - 1) + 1 = x
  BY <1>4
<1>6. x - 1 \in P
  <2>1. x - 1 \notin T
    BY <1>3, <1>5
  <2> QED BY <1>5, <2>1
<1>7. (x - 1) + 1 \in P
  BY <1>6
<1> QED BY <1>4, <1>5, <1>7

\* One more record: what valid becomes.
Grown(op, f, n) == IF Accepted(Raw[op][n]) THEN Append(f[n - 1], Raw[op][n]) ELSE f[n - 1]

\* f holds what valid is after each of the first n records.
Collects(op, f, n) ==
    f = [i \in 0..n |-> IF i = 0 THEN <<>> ELSE Grown(op, f, i)]

\* valid, after each of the records of op.
Kept(op) == CHOOSE f : Collects(op, f, Len(Raw[op]))

(***************************************************************************)
(* The loop of _collect: nothing at first, and one record at a time.       *)
(***************************************************************************)
LEMMA CollectLoop ==
    ASSUME NEW op \in Ops
    PROVE  /\ Collects(op, Kept(op), Len(Raw[op]))
           /\ Valid(op) = Kept(op)[Len(Raw[op])]
PROOF
<1> DEFINE P == {n \in Nat : \E f : Collects(op, f, n)}
<1>1. 0 \in P
  <2> DEFINE f == [i \in 0..0 |-> <<>>]
  <2>1. f = [i \in 0..0 |-> IF i = 0 THEN <<>> ELSE Grown(op, f, i)]
    OBVIOUS
  <2> QED BY <2>1, Zenon DEF Collects
<1>2. ASSUME NEW n \in P PROVE n + 1 \in P
  <2>1. n \in Nat
    OBVIOUS
  <2>2. PICK f : Collects(op, f, n)
    OBVIOUS
  <2> DEFINE g == [i \in 0..(n + 1) |-> IF i = n + 1 THEN Grown(op, f, n + 1) ELSE f[i]]
  <2>3. \A i \in 0..n : f[i] = IF i = 0 THEN <<>> ELSE Grown(op, f, i)
    BY <2>2, Zenon DEF Collects
  <2>4. \A i \in 0..n : g[i] = f[i]
    BY <2>1
  <2>5. \A i \in 1..(n + 1) : Grown(op, g, i) = Grown(op, f, i)
    <3>1. \A i \in 1..(n + 1) : i - 1 \in 0..n
      BY <2>1
    <3> HIDE DEF g
    <3> QED BY <2>4, <3>1 DEF Grown
  <2>6. \A i \in 0..(n + 1) : g[i] = IF i = 0 THEN <<>> ELSE Grown(op, g, i)
    <3> SUFFICES ASSUME NEW i \in 0..(n + 1) PROVE g[i] = IF i = 0 THEN <<>> ELSE Grown(op, g, i)
      OBVIOUS
    <3>1. g[n + 1] = Grown(op, f, n + 1) /\ n + 1 # 0
      BY <2>1
    <3>2. i = n + 1 \/ i \in 0..n
      BY <2>1
    <3>3. i # 0 => i \in 1..(n + 1)
      BY <2>1
    <3> HIDE DEF g
    <3>4. CASE i = n + 1
      <4>1. i # 0 /\ g[i] = Grown(op, f, i)
        BY <3>1, <3>4
      <4> QED BY <4>1, <3>3, <2>5, Zenon
    <3>5. CASE i \in 0..n
      <4>1. g[i] = IF i = 0 THEN <<>> ELSE Grown(op, f, i)
        BY <3>5, <2>3, <2>4, Zenon
      <4> QED BY <4>1, <3>3, <2>5, Zenon
    <3> QED BY <3>2, <3>4, <3>5
  <2>7. g = [i \in 0..(n + 1) |-> IF i = 0 THEN <<>> ELSE Grown(op, g, i)]
    <3>1. g = [i \in 0..(n + 1) |-> g[i]]
      OBVIOUS
    <3> HIDE DEF g
    <3> QED BY <2>6, <3>1, Zenon
  <2>8. Collects(op, g, n + 1)
    BY <2>7, Zenon DEF Collects
  <2> QED BY <2>1, <2>8
<1>3. P = Nat
  <2> HIDE DEF P
  <2>1. P \subseteq Nat
    BY DEF P
  <2> QED BY <1>1, <1>2, <2>1, SetInduction
<1>4. Len(Raw[op]) \in Nat
  BY ImportAssumption
<1>5. \E f : Collects(op, f, Len(Raw[op]))
  BY <1>3, <1>4, Zenon
<1>6. Collects(op, Kept(op), Len(Raw[op]))
  BY <1>5, Zenon DEF Kept
<1>7. Valid(op) = Kept(op)[Len(Raw[op])]
  BY Zenon DEF Valid, Collected, Kept, Collects, Grown
<1> QED BY <1>6, <1>7

(***************************************************************************)
(* What _collect returns: every record the ingress floor accepts and no    *)
(* other, each of them once, so that the rejected count is never negative. *)
(***************************************************************************)
THEOREM CollectionIsExact ==
    ASSUME NEW op \in Ops
    PROVE  /\ Valid(op) \in Seq(Records)
           /\ \A n \in 1..Len(Valid(op)) :
                  \E m \in 1..Len(Raw[op]) : Accepted(Raw[op][m]) /\ Valid(op)[n] = Raw[op][m]
           /\ \A m \in 1..Len(Raw[op]) :
                  Accepted(Raw[op][m]) => \E n \in 1..Len(Valid(op)) : Valid(op)[n] = Raw[op][m]
           /\ \A m, n \in 1..Len(Valid(op)) : Valid(op)[m].ref = Valid(op)[n].ref => m = n
           /\ Rejected(op) \in Nat
PROOF
<1> DEFINE L == Len(Raw[op])
           f == Kept(op)
           Exact(v, n) == /\ v \in Seq(Records)
                          /\ \A i \in 1..Len(v) : \E m \in 1..n : Accepted(Raw[op][m]) /\ v[i] = Raw[op][m]
                          /\ \A m \in 1..n : Accepted(Raw[op][m]) => \E i \in 1..Len(v) : v[i] = Raw[op][m]
                          /\ Len(v) <= n
                          /\ \A i, j \in 1..Len(v) : v[i].ref = v[j].ref => i = j
           Ok(n) == Exact(f[n], n)
           P == {n \in Nat : n <= L => Ok(n)}
<1>1. L \in Nat /\ Raw[op] \in Seq(Records)
  BY ImportAssumption
<1>2. \A i \in 0..L : f[i] = IF i = 0 THEN <<>> ELSE Grown(op, f, i)
  BY CollectLoop, Zenon DEF Collects
<1>3. 0 \in P
  <2>1. 0 \in 0..L
    BY <1>1
  <2>2. f[0] = <<>>
    BY <1>2, <2>1, Zenon
  <2> HIDE DEF f
  <2>3. <<>> \in Seq(Records) /\ 1..Len(<<>>) = {} /\ 1..0 = {} /\ Len(<<>>) <= 0
    OBVIOUS
  <2>4. Ok(0)
    BY <2>2, <2>3
  <2> QED BY <2>4
<1>4. ASSUME NEW n \in P PROVE n + 1 \in P
  <2>1. n \in Nat
    OBVIOUS
  <2> SUFFICES ASSUME n + 1 <= L PROVE Ok(n + 1)
    BY <2>1
  <2>2. Ok(n)
    BY <1>1, <2>1
  <2>3. n + 1 \in 1..L /\ n + 1 # 0 /\ (n + 1) - 1 = n /\ n + 1 \in 0..L
    BY <1>1, <2>1
  <2> DEFINE s == f[n]
             rec == Raw[op][n + 1]
  <2>4. f[n + 1] = IF Accepted(rec) THEN Append(s, rec) ELSE s
    <3>1. f[n + 1] = Grown(op, f, n + 1)
      BY <1>2, <2>3, Zenon
    <3> QED BY <3>1, <2>3 DEF Grown
  <2>5. rec \in Records
    BY <1>1, <2>3
  <2>6. \A m \in 1..n : m \in 1..(n + 1)
    BY <2>1
  <2>7. CASE ~Accepted(rec)
    <3>1. f[n + 1] = s
      BY <2>4, <2>7
    <3>2. \A m \in 1..(n + 1) : Accepted(Raw[op][m]) => m \in 1..n
      <4> SUFFICES ASSUME NEW m \in 1..(n + 1), Accepted(Raw[op][m]), m \notin 1..n PROVE FALSE
        OBVIOUS
      <4>1. m = n + 1
        BY <2>1
      <4> QED BY <4>1, <2>7
    <3>3. s \in Seq(Records) /\ Len(s) \in Nat /\ Len(s) <= n + 1
      BY <2>1, <2>2
    <3>4. \A i \in 1..Len(s) : \E m \in 1..(n + 1) : Accepted(Raw[op][m]) /\ s[i] = Raw[op][m]
      <4> SUFFICES ASSUME NEW i \in 1..Len(s)
                   PROVE  \E m \in 1..(n + 1) : Accepted(Raw[op][m]) /\ s[i] = Raw[op][m]
        OBVIOUS
      <4>1. PICK m \in 1..n : Accepted(Raw[op][m]) /\ s[i] = Raw[op][m]
        BY <2>2
      <4> QED BY <4>1, <2>6
    <3>5. \A m \in 1..(n + 1) : Accepted(Raw[op][m]) => \E i \in 1..Len(s) : s[i] = Raw[op][m]
      BY <3>2, <2>2, Zenon
    <3>6. \A i, j \in 1..Len(s) : s[i].ref = s[j].ref => i = j
      BY <2>2
    <3> HIDE DEF s
    <3> QED BY <3>1, <3>3, <3>4, <3>5, <3>6, Zenon
  <2>8. CASE Accepted(rec)
    <3> DEFINE t == Append(s, rec)
    <3>1. f[n + 1] = t
      BY <2>4, <2>8
    <3>2. s \in Seq(Records)
      BY <2>2
    <3> HIDE DEF s, rec
    <3>3. /\ t \in Seq(Records) /\ Len(t) = Len(s) + 1 /\ Len(s) \in Nat
          /\ \A i \in 1..Len(s) : t[i] = s[i]
          /\ t[Len(s) + 1] = rec
      BY <2>5, <3>2
    <3> HIDE DEF t
    <3>4. \A i \in 1..Len(t) : i \in 1..Len(s) \/ i = Len(s) + 1
      BY <3>3
    <3>5. \A i \in 1..Len(s) : \E m \in 1..n : Accepted(Raw[op][m]) /\ s[i] = Raw[op][m]
      BY <2>2 DEF s
    <3>6. \A i, j \in 1..Len(s) : s[i].ref = s[j].ref => i = j
      BY <2>2 DEF s
    <3>7. \A i \in 1..Len(t) : \E m \in 1..(n + 1) : Accepted(Raw[op][m]) /\ t[i] = Raw[op][m]
      <4> SUFFICES ASSUME NEW i \in 1..Len(t) PROVE \E m \in 1..(n + 1) : Accepted(Raw[op][m]) /\ t[i] = Raw[op][m]
        OBVIOUS
      <4>1. CASE i \in 1..Len(s)
        <5>1. PICK m \in 1..n : Accepted(Raw[op][m]) /\ s[i] = Raw[op][m]
          BY <4>1, <3>5
        <5>2. t[i] = s[i]
          BY <4>1, <3>3
        <5> QED BY <5>1, <5>2, <2>6
      <4>2. CASE i = Len(s) + 1
        <5>1. n + 1 \in 1..(n + 1)
          BY <2>1
        <5>2. Accepted(Raw[op][n + 1]) /\ t[i] = Raw[op][n + 1]
          BY <2>8, <4>2, <3>3 DEF rec
        <5> QED BY <5>1, <5>2
      <4> QED BY <4>1, <4>2, <3>4
    <3>8. \A i \in 1..Len(s) : s[i].ref # rec.ref
      <4> SUFFICES ASSUME NEW i \in 1..Len(s), s[i].ref = rec.ref PROVE FALSE
        OBVIOUS
      <4>1. PICK m \in 1..n : s[i] = Raw[op][m]
        BY <3>5
      <4>2. m \in 1..L /\ m # n + 1
        BY <1>1, <2>1, <2>3
      <4>3. Raw[op][m].ref = Raw[op][n + 1].ref
        BY <4>1 DEF rec
      <4> QED BY <4>2, <4>3, <2>3, SourceAssumption
    <3>9. \A i, j \in 1..Len(t) : t[i].ref = t[j].ref => i = j
      <4> TAKE i, j \in 1..Len(t)
      <4>1. CASE i \in 1..Len(s) /\ j \in 1..Len(s)
        BY <4>1, <3>3, <3>6
      <4>2. CASE i \in 1..Len(s) /\ j = Len(s) + 1
        BY <4>2, <3>3, <3>8
      <4>3. CASE i = Len(s) + 1 /\ j \in 1..Len(s)
        BY <4>3, <3>3, <3>8
      <4> QED BY <4>1, <4>2, <4>3, <3>4
    <3>10. \A m \in 1..(n + 1) : Accepted(Raw[op][m]) => \E i \in 1..Len(t) : t[i] = Raw[op][m]
      <4> SUFFICES ASSUME NEW m \in 1..(n + 1), Accepted(Raw[op][m])
                   PROVE  \E i \in 1..Len(t) : t[i] = Raw[op][m]
        OBVIOUS
      <4>1. CASE m \in 1..n
        <5>1. PICK i \in 1..Len(s) : s[i] = Raw[op][m]
          BY <2>2, <4>1, Zenon DEF s
        <5>2. i \in 1..Len(t) /\ t[i] = s[i]
          BY <3>3
        <5> QED BY <5>1, <5>2
      <4>2. CASE m = n + 1
        <5>1. Len(s) + 1 \in 1..Len(t) /\ t[Len(s) + 1] = Raw[op][m]
          BY <4>2, <3>3 DEF rec
        <5> QED BY <5>1
      <4>3. m \in 1..n \/ m = n + 1
        BY <2>1
      <4> QED BY <4>1, <4>2, <4>3
    <3>11. Len(s) <= n
      BY <2>2 DEF s
    <3>12. Len(t) <= n + 1
      BY <2>1, <3>3, <3>11
    <3>13. Exact(t, n + 1)
      BY <3>3, <3>7, <3>9, <3>10, <3>12
    <3> HIDE DEF Exact
    <3> QED BY <3>1, <3>13
  <2> QED BY <2>7, <2>8
<1>5. P = Nat
  <2> HIDE DEF P
  <2>1. P \subseteq Nat
    BY DEF P
  <2> QED BY <1>3, <1>4, <2>1, SetInduction
<1>6. Ok(L)
  <2> HIDE DEF Ok, L, Exact
  <2> QED BY <1>1, <1>5
<1>7. Valid(op) = f[L]
  BY CollectLoop
<1>8. Exact(Valid(op), L)
  <2> HIDE DEF Exact, L
  <2> QED BY <1>6, <1>7
<1>9. Rejected(op) \in Nat
  <2>1. Len(Valid(op)) \in Nat /\ Len(Valid(op)) <= L
    BY <1>8
  <2> QED BY <1>1, <2>1 DEF Rejected
<1> QED BY <1>8, <1>9

-----------------------------------------------------------------------------
LEMMA BatchesNat == \A op \in Ops : NumBatches(op) \in Nat
PROOF
<1> SUFFICES ASSUME NEW op \in Ops PROVE NumBatches(op) \in Nat
  OBVIOUS
<1>1. Len(Valid(op)) \in Nat /\ BatchSize \in Nat \ {0}
  BY ImportAssumption, CollectionIsExact
<1>2. \A n \in Nat, d \in Nat \ {0} : n \div d \in Nat
  OBVIOUS
<1>3. Len(Valid(op)) + BatchSize - 1 \in Nat
  BY <1>1
<1> QED BY <1>1, <1>2, <1>3 DEF NumBatches

LEMMA NoCallIsCall == NoCall \in CallStates
PROOF
<1>1. (CHOOSE op \in Ops : TRUE) \in Ops
  BY ImportAssumption
<1> QED BY <1>1 DEF NoCall, CallStates

(***************************************************************************)
(* The checkpoints of a job are 1..n, and the resume point comes after.    *)
(***************************************************************************)
LEMMA ResumeAfter ==
    ASSUME NEW j, NEW n \in Nat, UpTo(n, j)
    PROVE  ResumePoint(j) = n + 1
PROOF
<1>1. CASE n = 0
  BY <1>1 DEF UpTo, ResumePoint
<1>2. CASE n # 0
  <2>1. n \in ckpt[j] /\ \A d \in ckpt[j] : d <= n
    BY <1>2 DEF UpTo
  <2> DEFINE last == CHOOSE b \in ckpt[j] : \A d \in ckpt[j] : d <= b
  <2>2. last \in ckpt[j] /\ \A d \in ckpt[j] : d <= last
    BY <2>1
  <2>3. last = n
    BY <2>1, <2>2 DEF UpTo
  <2>4. ckpt[j] # {} /\ ResumePoint(j) = 1 + last
    BY <2>1 DEF ResumePoint
  <2> HIDE DEF last
  <2> QED BY <2>3, <2>4
<1> QED BY <1>1, <1>2

LEMMA RowsDiffer == NoJobRow \notin JobRows
PROOF
<1>1. \A row \in JobRows : row.state # "none"
  BY DEF JobRows
<1> QED BY <1>1 DEF NoJobRow

-----------------------------------------------------------------------------
(***************************************************************************)
(* Types.                                                                  *)
(***************************************************************************)
LEMMA InitTypes == Init => TypeInv
PROOF
<1> SUFFICES ASSUME Init PROVE TypeInv
  OBVIOUS
<1>1. idem \in [Ops -> IdemRows] /\ jobs \in [Jobs -> JobRows \cup {NoJobRow}]
  BY DEF Init, IdemRows, NoIdem, Statuses
<1>2. pc \in [Runners -> Pcs] /\ ckpt \in [Jobs -> SUBSET Nat]
  BY DEF Init, Pcs
<1>3. call \in [Runners -> CallStates] /\ trail \in [Runners -> SUBSET AuditActions]
  BY NoCallIsCall DEF Init
<1>4. head = [r \in Runners |-> head[r]] /\ emitted = [r \in Runners |-> emitted[r]]
  BY DEF Init
<1> QED BY <1>1, <1>2, <1>3, <1>4 DEF TypeInv

(***************************************************************************)
(* What a step may do to the local variables of a call.                    *)
(***************************************************************************)
LEMMA CallFields ==
    ASSUME NEW c \in CallStates
    PROVE  /\ \A j \in Jobs \cup {NoJob}, u \in BOOLEAN :
                  /\ [c EXCEPT !.job = j] \in CallStates
                  /\ [c EXCEPT !.job = j, !.resuming = u] \in CallStates
                  /\ [c EXCEPT !.job = j, !.answer = "replayed"] \in CallStates
           /\ \A n, m \in Nat : [c EXCEPT !.b = n, !.i = m] \in CallStates
           /\ \A n \in Nat : [c EXCEPT !.b = n] \in CallStates
           /\ \A m \in Nat : [c EXCEPT !.i = m] \in CallStates
           /\ \A u \in BOOLEAN : [c EXCEPT !.changed = u] \in CallStates
           /\ \A a \in {"applied", "failed", "unavailable"} : [c EXCEPT !.answer = a] \in CallStates
           /\ \A op \in Ops : [c EXCEPT !.op = op] \in CallStates
BY DEF CallStates

(***************************************************************************)
(* What happens to the types: to idem and jobs, to pc, to call, to trail.  *)
(***************************************************************************)
LEMMA TypesKept == TypeInv /\ JobInv /\ CkptInv /\ [Next]_vars => TypeInv'
PROOF
<1> SUFFICES ASSUME TypeInv, JobInv, CkptInv, [Next]_vars PROVE TypeInv'
  OBVIOUS
<1> USE DEF Goto, NoTxStep, Quiet, store
<1>0. \A r \in Runners : call[r] \in CallStates /\ call[r].op \in Ops /\ call[r].job \in Jobs \cup {NoJob}
                         /\ call[r].b \in Nat /\ call[r].i \in Nat
  BY DEF TypeInv, CallStates
<1>1. ASSUME NEW r \in Runners, NEW op \in Ops, Request(r, op) PROVE TypeInv'
  <2>1. [NoCall EXCEPT !.op = op] \in CallStates
    BY NoCallIsCall, CallFields
  <2> QED BY <1>1, <2>1 DEF TypeInv, Request, Pcs, AuditActions
<1>2. ASSUME NEW r \in Runners, BeginRead(r) PROVE TypeInv'
  <2>1. idem[call[r].op].job \in Jobs \cup {NoJob}
    BY <1>0 DEF TypeInv, IdemRows
  <2>2. FreshJobs # {} => (CHOOSE j \in FreshJobs : TRUE) \in Jobs
    BY DEF FreshJobs
  <2>3. UNCHANGED <<idem, jobs, ckpt, head, emitted>>
    BY <1>2 DEF BeginRead
  <2>4. pc' \in [Runners -> Pcs]
    BY <1>2 DEF BeginRead, Pcs, TypeInv
  <2>5. call'[r] \in CallStates
    <3> DEFINE known == idem[call[r].op].job
               fresh == CHOOSE j \in FreshJobs : TRUE
    <3>1. \/ call'[r] = [call[r] EXCEPT !.job = known, !.answer = "replayed"]
          \/ call'[r] = [call[r] EXCEPT !.job = known, !.resuming = TRUE]
          \/ FreshJobs # {} /\ call'[r] = [call[r] EXCEPT !.job = fresh]
      BY <1>2 DEF BeginRead, TypeInv
    <3>2. known \in Jobs \cup {NoJob} /\ (FreshJobs # {} => fresh \in Jobs)
      BY <2>1, <2>2
    <3> HIDE DEF known, fresh
    <3>3. /\ [call[r] EXCEPT !.job = known, !.answer = "replayed"] \in CallStates
          /\ FreshJobs # {} => [call[r] EXCEPT !.job = fresh] \in CallStates
      BY <1>0, <3>2, CallFields
    <3>4. [call[r] EXCEPT !.job = known, !.resuming = TRUE] \in CallStates
      BY <1>0, <3>2 DEF CallStates
    <3> QED BY <3>1, <3>3, <3>4
  <2>6. call' = [call EXCEPT ![r] = call'[r]]
    BY <1>2 DEF BeginRead, TypeInv
  <2>7. trail' \in [Runners -> SUBSET AuditActions]
    BY <1>2 DEF BeginRead, Record, AuditActions, TypeInv
  <2> QED BY <2>3, <2>4, <2>5, <2>6, <2>7 DEF TypeInv
<1>3. ASSUME NEW r \in Runners, BeginPut(r) PROVE TypeInv'
  <2>1. [job |-> call[r].job, status |-> "in_progress"] \in IdemRows
    BY <1>0 DEF IdemRows, Statuses
  <2>2. [op |-> call[r].op, state |-> "in_progress"] \in JobRows
    BY <1>0 DEF JobRows
  <2> QED BY <1>3, <2>1, <2>2 DEF TypeInv, BeginPut, Pcs
<1>4. ASSUME NEW r \in Runners, Announce(r) \/ NoAdapter(r) PROVE TypeInv'
  <2>1. CASE Announce(r)
    BY <2>1 DEF TypeInv, Announce, Record, Pcs, AuditActions
  <2>2. CASE NoAdapter(r)
    BY <2>2 DEF TypeInv, NoAdapter, Pcs
  <2> QED BY <1>4, <2>1, <2>2
<1>5. ASSUME NEW r \in Runners, Resume(r) PROVE TypeInv'
  <2>1. HasRow(call[r].op, call[r].job)
    BY <1>5 DEF Resume, JobInv
  <2>2. PICK n \in Nat : UpTo(n, call[r].job)
    BY <2>1, <1>0, BatchesNat DEF HasRow, CkptInv, CheckpointsInv
  <2>3. ResumePoint(call[r].job) \in Nat
    BY <2>2, ResumeAfter
  <2>4. [call[r] EXCEPT !.b = ResumePoint(call[r].job), !.i = 1] \in CallStates
    BY <1>0, <2>3, CallFields
  <2>5. call' = [call EXCEPT ![r] = [call[r] EXCEPT !.b = ResumePoint(call[r].job), !.i = 1]]
    BY <1>5 DEF Resume, TypeInv
  <2> QED BY <1>5, <2>4, <2>5 DEF TypeInv, Resume, NextBatch, Pcs
<1>6. ASSUME NEW r \in Runners, UpsertRead(r) PROVE TypeInv'
  <2>1. PICK u \in BOOLEAN : call' = [call EXCEPT ![r] = [call[r] EXCEPT !.changed = u]]
    BY <1>6 DEF UpsertRead, TypeInv
  <2>2. [call[r] EXCEPT !.changed = u] \in CallStates
    BY <1>0, CallFields
  <2> QED BY <1>6, <2>1, <2>2 DEF TypeInv, UpsertRead, Pcs
<1>7. ASSUME NEW r \in Runners, UpsertWrite(r) PROVE TypeInv'
  BY <1>7 DEF TypeInv, UpsertWrite, Pcs
<1>8. ASSUME NEW r \in Runners, EmitHead(r) PROVE TypeInv'
  BY <1>8 DEF TypeInv, EmitHead, Pcs
<1>9. ASSUME NEW r \in Runners, RollBack(r) PROVE TypeInv'
  BY <1>9 DEF TypeInv, RollBack, EndTx, Pcs
<1>10. ASSUME NEW r \in Runners, EmitAppend(r) PROVE TypeInv'
  <2>1. CASE RollBack(r)
    BY <1>9, <2>1
  <2>2. CASE ~RollBack(r)
    <3> DEFINE m == IF call[r].i = Len(Batch(call[r].op, call[r].b)) THEN 1 ELSE call[r].i + 1
    <3>1. call' = [call EXCEPT ![r] = [call[r] EXCEPT !.i = m]]
      BY <1>10, <2>2 DEF EmitAppend, TypeInv
    <3>3. m \in Nat
      BY <1>0
    <3> HIDE DEF m
    <3>2. [call[r] EXCEPT !.i = m] \in CallStates
      BY <1>0, <3>3, CallFields
    <3> QED BY <1>10, <2>2, <3>1, <3>2 DEF EmitAppend, Pcs, TypeInv
  <2> QED BY <2>1, <2>2
<1>11. ASSUME NEW r \in Runners, Checkpoint(r) PROVE TypeInv'
  <2>1. CASE RollBack(r)
    BY <1>9, <2>1
  <2>2. CASE CommitBatch(r)
    <3>0. call[r].b + 1 \in Nat
      BY <1>0
    <3>1. [call[r] EXCEPT !.b = call[r].b + 1] \in CallStates
      BY <1>0, <3>0, CallFields
    <3>2. call' = [call EXCEPT ![r] = [call[r] EXCEPT !.b = call[r].b + 1]]
      BY <2>2 DEF CommitBatch, TypeInv
    <3>3. ckpt' \in [Jobs -> SUBSET Nat]
      BY <1>0, <2>2 DEF CommitBatch, TypeInv
    <3> QED BY <2>2, <3>1, <3>2, <3>3 DEF CommitBatch, EndTx, NextBatch, Pcs, TypeInv
  <2> QED BY <1>11, <2>1, <2>2 DEF Checkpoint
<1>12. ASSUME NEW r \in Runners, DeadlockVictim(r) \/ StatementFails(r) PROVE TypeInv'
  BY <1>12, <1>9 DEF DeadlockVictim, StatementFails
<1>13. ASSUME NEW r \in Runners, MarkFailed(r) PROVE TypeInv'
  <2>1. [job |-> call[r].job, status |-> "failed"] \in IdemRows
    BY <1>0 DEF IdemRows, Statuses
  <2> QED BY <1>13, <2>1 DEF MarkFailed, Pcs, TypeInv
<1>14. ASSUME NEW r \in Runners, NEW a \in {"applied", "failed", "unavailable"}, Answer(r, a),
              UNCHANGED <<idem, jobs, ckpt>>, trail' \in [Runners -> SUBSET AuditActions],
              \/ UNCHANGED <<head, emitted>>
              \/ EndTx(r)
       PROVE  TypeInv'
  <2>1. [call[r] EXCEPT !.answer = a] \in CallStates
    BY <1>0, CallFields
  <2>2. call' = [call EXCEPT ![r] = [call[r] EXCEPT !.answer = a]]
    BY <1>14 DEF Answer, TypeInv
  <2> QED BY <1>14, <2>1, <2>2 DEF Answer, EndTx, Pcs, TypeInv
<1>15. ASSUME NEW r \in Runners, HandBackFailure(r) \/ HandBack(r) PROVE TypeInv'
  <2>1. trail' \in [Runners -> SUBSET AuditActions]
    BY <1>15 DEF HandBackFailure, HandBack, Record, AuditActions, TypeInv
  <2> QED BY <1>15, <1>14, <2>1 DEF HandBackFailure, HandBack
<1>16. ASSUME NEW r \in Runners, Abandon(r) PROVE TypeInv'
  <2>1. trail' \in [Runners -> SUBSET AuditActions]
    BY <1>16 DEF Abandon, TypeInv
  <2> QED BY <1>16, <1>14, <2>1 DEF Abandon
<1>17. ASSUME NEW r \in Runners, Finalize(r) PROVE TypeInv'
  <2>1. [job |-> call[r].job, status |-> "applied"] \in IdemRows
    BY <1>0 DEF IdemRows, Statuses
  <2>2. [op |-> call[r].op, state |-> "applied"] \in JobRows
    BY <1>0 DEF JobRows
  <2> QED BY <1>17, <2>1, <2>2 DEF TypeInv, Finalize, Pcs
<1>18. CASE UNCHANGED vars
  BY <1>18 DEF vars, TypeInv
<1> QED
  BY <1>1, <1>2, <1>3, <1>4, <1>5, <1>6, <1>7, <1>8, <1>10, <1>11, <1>12, <1>13, <1>15, <1>16,
     <1>17, <1>18 DEF Next, Step, Rest

-----------------------------------------------------------------------------
(***************************************************************************)
(* Jobs.                                                                   *)
(***************************************************************************)
\* Runner r goes on with the job it has, or gives up.
Continues(r) ==
    /\ UNCHANGED jobs
    /\ pc' = [pc EXCEPT ![r] = pc'[r]]
    /\ pc'[r] \in Pcs \ {"begin", "put"}
    /\ pc[r] \in {"idle", "begin", "put"} => pc'[r] = "idle"
    /\ \A q \in Runners : call'[q].op = call[q].op /\ call'[q].job = call[q].job

LEMMA ContinuingKeepsJobs ==
    ASSUME TypeInv, JobInv, NEW r \in Runners, Continues(r), UNCHANGED idem
    PROVE  JobInv'
BY DEF TypeInv, JobInv, Continues, HasRow

LEMMA BatchStepsContinue ==
    ASSUME TypeInv, NEW r \in Runners,
           \/ Announce(r) \/ NoAdapter(r) \/ Resume(r) \/ UpsertRead(r) \/ UpsertWrite(r) \/ EmitHead(r)
           \/ EmitAppend(r) \/ Checkpoint(r) \/ DeadlockVictim(r) \/ StatementFails(r)
           \/ HandBackFailure(r) \/ HandBack(r) \/ Abandon(r)
    PROVE  Continues(r) /\ UNCHANGED idem
PROOF
<1> USE DEF Goto, NoTxStep, Quiet, store, Continues, Pcs
<1>1. CASE Announce(r) \/ NoAdapter(r)
  BY <1>1 DEF Announce, NoAdapter, TypeInv
<1>2. CASE Resume(r)
  BY <1>2 DEF Resume, NextBatch, TypeInv, CallStates
<1>3. CASE UpsertRead(r)
  BY <1>3 DEF UpsertRead, TypeInv, CallStates
<1>4. CASE UpsertWrite(r)
  BY <1>4 DEF UpsertWrite, TypeInv
<1>5. CASE EmitHead(r)
  BY <1>5 DEF EmitHead, TypeInv
<1>6. ASSUME RollBack(r), pc[r] \in InBatch PROVE Continues(r) /\ UNCHANGED idem
  BY <1>6 DEF RollBack, InBatch, TypeInv
<1>7. CASE EmitAppend(r)
  <2>1. CASE RollBack(r)
    BY <1>6, <1>7, <2>1 DEF EmitAppend, InBatch
  <2>2. CASE ~RollBack(r)
    <3>1. PICK x \in {"checkpoint", "read"} : pc' = [pc EXCEPT ![r] = x]
      BY <1>7, <2>2 DEF EmitAppend
    <3>2. /\ pc[r] = "append"
          /\ UNCHANGED <<idem, jobs>>
      BY <1>7, <2>2 DEF EmitAppend
    <3> DEFINE m == IF call[r].i = Len(Batch(call[r].op, call[r].b)) THEN 1 ELSE call[r].i + 1
    <3>4. call' = [call EXCEPT ![r] = [call[r] EXCEPT !.i = m]]
      BY <1>7, <2>2 DEF EmitAppend, TypeInv
    <3> HIDE DEF m
    <3>3. \A q \in Runners : call'[q].op = call[q].op /\ call'[q].job = call[q].job
      BY <3>4 DEF TypeInv, CallStates
    <3> QED BY <3>1, <3>2, <3>3 DEF TypeInv
  <2> QED BY <2>1, <2>2
<1>8. CASE Checkpoint(r)
  <2>1. CASE RollBack(r)
    BY <1>6, <1>8, <2>1 DEF Checkpoint, InBatch
  <2>2. CASE CommitBatch(r)
    BY <1>8, <2>2 DEF Checkpoint, CommitBatch, NextBatch, TypeInv, CallStates
  <2> QED BY <1>8, <2>1, <2>2 DEF Checkpoint
<1>9. CASE DeadlockVictim(r)
  <2>1. pc[r] \in InBatch
    BY <1>9 DEF DeadlockVictim, Deadlocked, WaitsFor, InBatch
  <2> QED BY <1>6, <1>9, <2>1 DEF DeadlockVictim
<1>10. CASE StatementFails(r)
  BY <1>6, <1>10 DEF StatementFails
<1>11. CASE HandBackFailure(r) \/ HandBack(r) \/ Abandon(r)
  <2>1. PICK a \in {"applied", "failed", "unavailable"} : Answer(r, a)
    BY <1>11 DEF HandBackFailure, HandBack, Abandon
  <2>2. UNCHANGED <<idem, jobs>>
    BY <1>11 DEF HandBackFailure, HandBack, Abandon
  <2>3. \A q \in Runners : call'[q].op = call[q].op /\ call'[q].job = call[q].job
    BY <2>1 DEF Answer, TypeInv, CallStates
  <2> QED BY <2>1, <2>2, <2>3 DEF Answer, TypeInv
<1> QED BY <1>1, <1>2, <1>3, <1>4, <1>5, <1>7, <1>8, <1>9, <1>10, <1>11

LEMMA JobsKept == TypeInv /\ JobInv /\ [Next]_vars => JobInv'
PROOF
<1> SUFFICES ASSUME TypeInv, JobInv, [Next]_vars PROVE JobInv'
  OBVIOUS
<1> USE DEF Goto, NoTxStep, Quiet, store
<1>1. ASSUME NEW r \in Runners, NEW op \in Ops, Request(r, op) PROVE JobInv'
  <2>1. call'[r].job = NoJob /\ NoJob \notin Jobs
    BY <1>1, ImportAssumption DEF Request, NoCall, TypeInv
  <2>2. /\ UNCHANGED <<idem, jobs>>
        /\ \A q \in Runners \ {r} : pc'[q] = pc[q] /\ call'[q] = call[q]
        /\ pc'[r] = "begin"
    BY <1>1 DEF Request, TypeInv
  <2> QED BY <2>1, <2>2 DEF JobInv, HasRow
<1>2. ASSUME NEW r \in Runners, BeginRead(r) PROVE JobInv'
  <2>1. /\ UNCHANGED <<idem, jobs>>
        /\ \A q \in Runners \ {r} : pc'[q] = pc[q] /\ call'[q] = call[q]
        /\ pc[r] = "begin" /\ call'[r].op = call[r].op
        /\ \/ /\ idem[call[r].op].status # "none"
              /\ pc'[r] \in {"idle", "announce"}
              /\ call'[r].job = idem[call[r].op].job
           \/ /\ FreshJobs # {}
              /\ pc'[r] = "put"
              /\ call'[r].job = CHOOSE j \in FreshJobs : TRUE
    BY <1>2 DEF BeginRead, TypeInv, CallStates
  <2>2. CASE pc'[r] # "put"
    <3>1. HasRow(call'[r].op, call'[r].job)
      BY <2>1, <2>2 DEF JobInv, TypeInv, CallStates
    <3>2. \A q \in Runners : pc[q] = "put" => call[q].job # call'[r].job
      BY <3>1, RowsDiffer DEF JobInv, HasRow
    <3> QED BY <2>1, <2>2, <3>1, <3>2 DEF JobInv, HasRow
  <2>3. CASE pc'[r] = "put"
    <3>1. call'[r].job \in FreshJobs
      BY <2>1, <2>3
    <3> QED BY <2>1, <2>3, <3>1 DEF JobInv, HasRow, FreshJobs
  <2> QED BY <2>2, <2>3
<1>3. ASSUME NEW r \in Runners, BeginPut(r) PROVE JobInv'
  <2> DEFINE c == call[r]
  <2>1. /\ pc[r] = "put" /\ pc'[r] = "announce"
        /\ \A q \in Runners \ {r} : pc'[q] = pc[q]
        /\ UNCHANGED call
        /\ \A j \in Jobs \ {c.job} : jobs'[j] = jobs[j]
        /\ c.job \in Jobs => jobs'[c.job] = [op |-> c.op, state |-> "in_progress"]
        /\ \A op \in Ops \ {c.op} : idem'[op] = idem[op]
        /\ c.op \in Ops /\ idem'[c.op].job = c.job
    BY <1>3 DEF BeginPut, TypeInv, CallStates
  <2>2. c.job \in Jobs /\ jobs[c.job] = NoJobRow /\ \A q \in Runners \ {r} : call[q].job # c.job
    BY <2>1 DEF JobInv
  <2>3. /\ jobs'[c.job] \in JobRows /\ jobs'[c.job].op = c.op
        /\ \A op, j : HasRow(op, j) => j # c.job
    BY <2>1, <2>2, RowsDiffer DEF HasRow, JobRows
  <2>4. \A op \in Ops, j \in Jobs : HasRow(op, j) => jobs'[j] \in JobRows /\ jobs'[j].op = op
    BY <2>1, <2>3 DEF HasRow
  <2> HIDE DEF c
  <2>5. ASSUME NEW op \in Ops, idem'[op].status # "none" PROVE HasRow(op, idem[op].job)'
    <3>1. CASE op = c.op
      BY <2>1, <2>2, <2>3, <3>1 DEF HasRow
    <3>2. CASE op # c.op
      <4>1. idem'[op] = idem[op] /\ HasRow(op, idem[op].job)
        BY <2>1, <2>5, <3>2 DEF JobInv
      <4> QED BY <2>4, <4>1 DEF HasRow
    <3> QED BY <3>1, <3>2
  <2>6. \A q \in Runners : pc'[q] \notin {"idle", "begin", "put"} => HasRow(call[q].op, call[q].job)'
    <3>1. \A q \in Runners : call[q].op \in Ops
      BY DEF TypeInv, CallStates
    <3> QED BY <2>1, <2>3, <2>4, <3>1 DEF JobInv, HasRow, c
  <2>7. \A q \in Runners : pc'[q] = "put" =>
            /\ call'[q].job \in Jobs
            /\ jobs'[call'[q].job] = NoJobRow
            /\ \A o \in Runners \ {q} : call'[o].job # call'[q].job
    BY <2>1, <2>2 DEF JobInv
  <2> QED BY <2>5, <2>6, <2>7 DEF JobInv
<1>4. ASSUME NEW r \in Runners, MarkFailed(r) PROVE JobInv'
  <2>1. /\ pc[r] = "markFailed" /\ pc'[r] = "failed"
        /\ \A q \in Runners \ {r} : pc'[q] = pc[q]
        /\ UNCHANGED <<call, jobs>>
        /\ \A op \in Ops \ {call[r].op} : idem'[op] = idem[op]
        /\ idem'[call[r].op].job = call[r].job
    BY <1>4 DEF MarkFailed, TypeInv, CallStates
  <2> QED BY <2>1 DEF JobInv, HasRow
<1>5. ASSUME NEW r \in Runners, Finalize(r) PROVE JobInv'
  <2> DEFINE c == call[r]
  <2>1. /\ pc[r] = "finalize" /\ pc'[r] = "complete"
        /\ \A q \in Runners \ {r} : pc'[q] = pc[q]
        /\ UNCHANGED call
        /\ \A j \in Jobs \ {c.job} : jobs'[j] = jobs[j]
        /\ c.job \in Jobs => jobs'[c.job] = [op |-> c.op, state |-> "applied"]
        /\ \A op \in Ops \ {c.op} : idem'[op] = idem[op]
        /\ c.op \in Ops /\ idem'[c.op].job = c.job
    BY <1>5 DEF Finalize, TypeInv, CallStates
  <2>2. HasRow(c.op, c.job) /\ HasRow(c.op, c.job)'
    BY <2>1 DEF JobInv, HasRow, JobRows
  <2>3. \A j \in Jobs : jobs[j] = NoJobRow => jobs'[j] = NoJobRow
    BY <2>1, <2>2, RowsDiffer DEF HasRow
  <2>4. \A op \in Ops, j \in Jobs : HasRow(op, j) => jobs'[j] \in JobRows /\ jobs'[j].op = op
    BY <2>1, <2>2 DEF HasRow
  <2> QED BY <2>1, <2>2, <2>3, <2>4 DEF JobInv, HasRow, TypeInv, CallStates
<1>6. CASE UNCHANGED vars
  BY <1>6 DEF vars, JobInv, HasRow
<1>7. ASSUME NEW r \in Runners,
             \/ Announce(r) \/ NoAdapter(r) \/ Resume(r) \/ UpsertRead(r) \/ UpsertWrite(r) \/ EmitHead(r)
             \/ EmitAppend(r) \/ Checkpoint(r) \/ DeadlockVictim(r) \/ StatementFails(r)
             \/ HandBackFailure(r) \/ HandBack(r) \/ Abandon(r)
      PROVE  JobInv'
  <2>1. Continues(r) /\ UNCHANGED idem
    BY <1>7, BatchStepsContinue
  <2> QED BY <2>1, ContinuingKeepsJobs
<1> QED BY <1>1, <1>2, <1>3, <1>4, <1>5, <1>6, <1>7 DEF Next, Step, Rest

-----------------------------------------------------------------------------
(***************************************************************************)
(* Checkpoints, and what "applied" stands for.                             *)
(***************************************************************************)
\* Checkpoints are only added, and what is complete stays so.
StoreGrows ==
    \A op \in Ops, j \in Jobs :
        /\ ckpt[j] \subseteq ckpt'[j]
        /\ HasRow(op, j) /\ UpTo(NumBatches(op), j) => UpTo(NumBatches(op), j)'
        /\ Complete(op, j) => Complete(op, j)'

\* Only r and its operation move.
OnlyMoves(r) ==
    /\ \A q \in Runners \ {r} : pc'[q] = pc[q] /\ call'[q] = call[q] /\ trail'[q] = trail[q]
    /\ \A op \in Ops : idem'[op].status = "applied" =>
                           idem'[op] = idem[op] \/ Complete(op, idem[op].job)'

LEMMA OthersStand ==
    ASSUME TypeInv, JobInv, CkptInv, NEW r \in Runners, StoreGrows, OnlyMoves(r),
           CheckpointsInv', RunnerInv(r)'
    PROVE  CkptInv'
PROOF
<1>1. \A op \in Ops : \A j : Complete(op, j) => Complete(op, j)'
  BY DEF StoreGrows, Complete
<1>2. ASSUME NEW q \in Runners \ {r} PROVE RunnerInv(q)'
  <2>1. /\ pc'[q] = pc[q] /\ call'[q] = call[q] /\ trail'[q] = trail[q]
        /\ call[q].op \in Ops
    BY DEF OnlyMoves, TypeInv, CallStates
  <2>2. RunnerInv(q)
    BY DEF CkptInv
  <2>3. pc[q] \in InBatch \cup {"finalize"} => HasRow(call[q].op, call[q].job)
    BY DEF JobInv, InBatch
  <2>4. pc[q] \in InBatch => 1..(call[q].b - 1) \subseteq ckpt'[call[q].job]
    BY <2>1, <2>2, <2>3 DEF RunnerInv, StoreGrows, HasRow
  <2>5. pc[q] = "finalize" => UpTo(NumBatches(call[q].op), call[q].job)'
    BY <2>1, <2>2, <2>3 DEF RunnerInv, StoreGrows, HasRow, UpTo
  <2>6. /\ pc[q] = "complete" => Complete(call[q].op, call[q].job)'
        /\ call[q].answer \in {"applied", "replayed"} => Complete(call[q].op, call[q].job)'
    BY <1>1, <2>1, <2>2 DEF RunnerInv, Complete
  <2> QED BY <2>1, <2>2, <2>4, <2>5, <2>6 DEF RunnerInv
<1>3. StatusInv'
  <2> SUFFICES ASSUME NEW op \in Ops, idem'[op].status = "applied"
               PROVE  Complete(op, idem[op].job)'
    BY DEF StatusInv
  <2>1. CASE idem'[op] = idem[op]
    <3>1. Complete(op, idem[op].job)
      BY <2>1 DEF CkptInv, StatusInv
    <3> QED BY <1>1, <2>1, <3>1 DEF Complete
  <2> QED BY <2>1 DEF OnlyMoves
<1> QED BY <1>2, <1>3 DEF CkptInv

LEMMA StandingStoreGrows ==
    ASSUME CkptInv, UNCHANGED <<jobs, ckpt>>
    PROVE  StoreGrows /\ CheckpointsInv'
BY DEF StoreGrows, CkptInv, CheckpointsInv, UpTo, Complete

(***************************************************************************)
(* A runner whose next batch comes right behind the checkpoints of its job *)
(* goes to that batch or, when there is none left, to _finalize.           *)
(***************************************************************************)
LEMMA NextBatchIsBehind ==
    ASSUME NEW op \in Ops, NEW n \in 0..NumBatches(op)
    PROVE  \/ NextBatch(op, n + 1) = "read" /\ n + 1 \in 1..NumBatches(op)
           \/ NextBatch(op, n + 1) = "finalize" /\ n = NumBatches(op)
BY BatchesNat DEF NextBatch

LEMMA CheckpointsKept == TypeInv /\ JobInv /\ CkptInv /\ [Next]_vars => CkptInv'
PROOF
<1> SUFFICES ASSUME TypeInv, JobInv, CkptInv, [Next]_vars PROVE CkptInv'
  OBVIOUS
<1> USE DEF Goto, NoTxStep, Quiet, store, InBatch
<1>0. \A r \in Runners : call[r] \in CallStates /\ call[r].op \in Ops /\ call[r].job \in Jobs \cup {NoJob}
                         /\ call[r].b \in Nat /\ call[r].i \in Nat
  BY DEF TypeInv, CallStates
\* The steps that leave import_job and import_checkpoint alone.
<1>1. ASSUME NEW r \in Runners, UNCHANGED <<jobs, ckpt>>, OnlyMoves(r), RunnerInv(r)'
      PROVE  CkptInv'
  BY <1>1, StandingStoreGrows, OthersStand
<1>2. ASSUME NEW r \in Runners, NEW op \in Ops, Request(r, op) PROVE CkptInv'
  <2>1. pc'[r] = "begin" /\ call'[r].answer = "none"
    BY <1>2 DEF Request, TypeInv, NoCall
  <2>2. OnlyMoves(r) /\ UNCHANGED <<jobs, ckpt>>
    BY <1>2 DEF Request, OnlyMoves, TypeInv
  <2> QED BY <1>1, <2>1, <2>2 DEF RunnerInv
<1>3. ASSUME NEW r \in Runners, BeginRead(r) PROVE CkptInv'
  <2>1. OnlyMoves(r) /\ UNCHANGED <<jobs, ckpt>>
    BY <1>3 DEF BeginRead, OnlyMoves, TypeInv, Record
  <2>2. call[r].answer = "none"
    BY <1>3 DEF BeginRead, CkptInv, RunnerInv
  <2>3. \/ /\ idem[call[r].op].status = "applied"
           /\ pc'[r] = "idle" /\ trail'[r] = trail[r] \cup {"ImportCompleted"}
           /\ call'[r].op = call[r].op /\ call'[r].job = idem[call[r].op].job
        \/ pc'[r] \in {"announce", "put"} /\ call'[r].answer = "none"
    BY <1>3, <2>2, <1>0 DEF BeginRead, Record, TypeInv, CallStates
  <2>4. idem[call[r].op].status = "applied" => Complete(call[r].op, idem[call[r].op].job)
    BY <1>0 DEF CkptInv, StatusInv
  <2>5. RunnerInv(r)'
    BY <2>1, <2>3, <2>4 DEF RunnerInv, Complete
  <2> QED BY <1>1, <2>1, <2>5
<1>4. ASSUME NEW r \in Runners, Announce(r) \/ NoAdapter(r) PROVE CkptInv'
  <2>1. /\ OnlyMoves(r) /\ UNCHANGED <<jobs, ckpt, call>>
        /\ pc[r] # "idle" /\ pc'[r] \in {"resume", "failed"}
    BY <1>4 DEF Announce, NoAdapter, OnlyMoves, TypeInv, Record
  <2>2. RunnerInv(r)'
    BY <2>1 DEF CkptInv, RunnerInv
  <2> QED BY <1>1, <2>1, <2>2
<1>5. ASSUME NEW r \in Runners, Resume(r) PROVE CkptInv'
  <2>1. HasRow(call[r].op, call[r].job)
    BY <1>5 DEF Resume, JobInv
  <2>2. PICK n \in 0..NumBatches(call[r].op) : UpTo(n, call[r].job)
    BY <2>1 DEF HasRow, CkptInv, CheckpointsInv
  <2>3. n \in Nat /\ ResumePoint(call[r].job) = n + 1
    BY <1>0, <2>2, BatchesNat, ResumeAfter
  <2>4. /\ OnlyMoves(r) /\ UNCHANGED <<jobs, ckpt>>
        /\ pc'[r] = NextBatch(call[r].op, n + 1)
        /\ call' = [call EXCEPT ![r] = [call[r] EXCEPT !.b = n + 1, !.i = 1]]
    BY <1>5, <2>3 DEF Resume, OnlyMoves, TypeInv
  <2>5. /\ call'[r].op = call[r].op /\ call'[r].job = call[r].job
        /\ call'[r].b = n + 1 /\ call'[r].answer = "none"
    <3>1. call[r].answer = "none"
      BY <1>5 DEF Resume, CkptInv, RunnerInv
    <3>2. call'[r] = [call[r] EXCEPT !.b = n + 1, !.i = 1]
      BY <2>4 DEF TypeInv
    <3> QED BY <1>0, <3>1, <3>2 DEF CallStates
  <2>6. RunnerInv(r)'
    BY <1>0, <2>2, <2>3, <2>4, <2>5, NextBatchIsBehind DEF RunnerInv, UpTo
  <2> QED BY <1>1, <2>4, <2>6
\* A step from record to record of a batch.
<1>6. ASSUME NEW r \in Runners,
             UpsertRead(r) \/ UpsertWrite(r) \/ EmitHead(r) \/ (EmitAppend(r) /\ ~RollBack(r))
      PROVE  CkptInv'
  <2>1. OnlyMoves(r) /\ UNCHANGED <<jobs, ckpt>> /\ pc[r] \in InBatch /\ pc'[r] \in InBatch
    BY <1>6 DEF UpsertRead, UpsertWrite, EmitHead, EmitAppend, OnlyMoves, TypeInv
  <2>2. \/ UNCHANGED call
        \/ \E u \in BOOLEAN : call' = [call EXCEPT ![r] = [call[r] EXCEPT !.changed = u]]
        \/ \E m : call' = [call EXCEPT ![r] = [call[r] EXCEPT !.i = m]]
    BY <1>6 DEF UpsertRead, UpsertWrite, EmitHead, EmitAppend, TypeInv
  <2>3. /\ call'[r].op = call[r].op /\ call'[r].job = call[r].job
        /\ call'[r].b = call[r].b /\ call'[r].answer = call[r].answer
    BY <1>0, <2>2 DEF TypeInv, CallStates
  <2>4. RunnerInv(r)'
    BY <2>1, <2>3 DEF CkptInv, RunnerInv
  <2> QED BY <1>1, <2>1, <2>4
<1>7. ASSUME NEW r \in Runners, RollBack(r), pc[r] \in InBatch PROVE CkptInv'
  <2>1. /\ OnlyMoves(r) /\ UNCHANGED <<jobs, ckpt, call>>
        /\ pc[r] \in InBatch /\ pc'[r] = "markFailed"
    BY <1>7 DEF RollBack, OnlyMoves, TypeInv
  <2>2. RunnerInv(r)'
    BY <2>1 DEF CkptInv, RunnerInv
  <2> QED BY <1>1, <2>1, <2>2
\* The commit: the first batch without a checkpoint gets one.
<1>8. ASSUME NEW r \in Runners, pc[r] = "checkpoint", ~CheckpointTaken(r), CommitBatch(r)
      PROVE  CkptInv'
  <2> DEFINE c == call[r]
  <2>1. HasRow(c.op, c.job) /\ c.op \in Ops
    BY <1>0, <1>8 DEF JobInv
  <2>2. c.b \in 1..NumBatches(c.op) /\ 1..(c.b - 1) \subseteq ckpt[c.job] /\ c.answer = "none"
    BY <1>8 DEF CkptInv, RunnerInv
  <2>3. PICK n \in 0..NumBatches(c.op) : UpTo(n, c.job)
    BY <2>1 DEF HasRow, CkptInv, CheckpointsInv
  <2>4. NumBatches(c.op) \in Nat
    BY <2>1, BatchesNat
  <2>5. n = c.b - 1
    <3>1. c.b \notin 1..n
      BY <1>8, <2>3 DEF CheckpointTaken, UpTo
    <3>2. 1..(c.b - 1) \subseteq 1..n
      BY <2>2, <2>3 DEF UpTo
    <3>3. c.b \in Nat \ {0} /\ n \in Nat
      BY <2>2, <2>3, <2>4
    <3>4. n < c.b
      BY <3>1, <3>3
    <3>5. c.b - 1 # 0 => c.b - 1 <= n
      <4>1. c.b - 1 # 0 => c.b - 1 \in 1..(c.b - 1)
        BY <3>3
      <4> QED BY <3>2, <3>3, <4>1
    <3> QED BY <3>3, <3>4, <3>5
  <2>6. /\ UNCHANGED <<jobs, idem, trail>>
        /\ \A j \in Jobs \ {c.job} : ckpt'[j] = ckpt[j]
        /\ ckpt'[c.job] = 1..c.b
    <3>1. ckpt' = [ckpt EXCEPT ![c.job] = ckpt[c.job] \cup {c.b}] /\ UNCHANGED <<jobs, idem, trail>>
      BY <1>8 DEF CommitBatch, TypeInv
    <3>2. ckpt[c.job] \cup {c.b} = 1..c.b
      BY <2>2, <2>3, <2>4, <2>5 DEF UpTo
    <3> QED BY <2>1, <3>1, <3>2 DEF HasRow, TypeInv
  <2>7. /\ pc'[r] = NextBatch(c.op, c.b + 1)
        /\ call'[r].op = c.op /\ call'[r].job = c.job
        /\ call'[r].b = c.b + 1 /\ call'[r].answer = "none"
    BY <1>0, <1>8, <2>2 DEF CommitBatch, TypeInv, CallStates
  <2>8. \A q \in Runners \ {r} : pc'[q] = pc[q] /\ call'[q] = call[q]
    BY <1>8 DEF CommitBatch, TypeInv
  <2> HIDE DEF c
  <2>9. OnlyMoves(r)
    BY <2>6, <2>8 DEF OnlyMoves
  <2>10. ckpt[c.job] # 1..NumBatches(c.op)
    BY <1>8, <2>2 DEF CheckpointTaken, c
  <2>11. StoreGrows
    <3> SUFFICES ASSUME NEW op \in Ops, NEW j \in Jobs
                 PROVE  /\ ckpt[j] \subseteq ckpt'[j]
                        /\ HasRow(op, j) /\ UpTo(NumBatches(op), j) => UpTo(NumBatches(op), j)'
                        /\ Complete(op, j) => Complete(op, j)'
      BY DEF StoreGrows
    <3>1. CASE j # c.job
      BY <2>6, <3>1 DEF UpTo, Complete
    <3>2. CASE j = c.job
      <4>1. ckpt[j] \subseteq ckpt'[j]
        BY <2>2, <2>3, <2>4, <2>5, <2>6, <3>2 DEF UpTo
      <4>2. HasRow(op, j) => op = c.op
        BY <2>1, <3>2 DEF HasRow
      <4>3. Complete(op, j) => op = c.op /\ UpTo(NumBatches(op), j)
        BY <2>1, <3>2 DEF HasRow, Complete, UpTo
      <4> QED BY <2>10, <3>2, <4>1, <4>2, <4>3 DEF UpTo
    <3> QED BY <3>1, <3>2
  <2>12. CheckpointsInv'
    <3> SUFFICES ASSUME NEW j \in Jobs
                 PROVE  /\ jobs'[j] = NoJobRow => ckpt'[j] = {}
                        /\ jobs'[j] \in JobRows => \E m \in 0..NumBatches(jobs'[j].op) : UpTo(m, j)'
      BY DEF CheckpointsInv
    <3>1. CASE j # c.job
      BY <2>6, <3>1 DEF CkptInv, CheckpointsInv, UpTo
    <3>2. CASE j = c.job
      <4>1. jobs'[j] # NoJobRow /\ jobs'[j].op = c.op
        BY <2>1, <2>6, <3>2, RowsDiffer DEF HasRow
      <4>2. c.b \in 0..NumBatches(c.op) /\ ckpt'[j] = 1..c.b
        BY <2>2, <2>4, <2>6, <3>2
      <4> QED BY <4>1, <4>2 DEF UpTo
    <3> QED BY <3>1, <3>2
  <2>13. RunnerInv(r)'
    <3>1. \/ pc'[r] = "read" /\ c.b + 1 \in 1..NumBatches(c.op)
          \/ pc'[r] = "finalize" /\ c.b = NumBatches(c.op)
      BY <2>1, <2>2, <2>4, <2>7, NextBatchIsBehind
    <3>2. ckpt'[call'[r].job] = 1..c.b /\ (c.b + 1) - 1 = c.b
      BY <2>2, <2>4, <2>6, <2>7
    <3> QED BY <2>7, <3>1, <3>2 DEF RunnerInv, UpTo
  <2> QED BY <2>9, <2>11, <2>12, <2>13, OthersStand
<1>9. ASSUME NEW r \in Runners, EmitAppend(r) \/ Checkpoint(r) \/ DeadlockVictim(r) \/ StatementFails(r)
      PROVE  CkptInv'
  <2>1. CASE EmitAppend(r)
    BY <1>6, <1>7, <2>1 DEF EmitAppend
  <2>2. CASE Checkpoint(r)
    BY <1>7, <1>8, <2>2 DEF Checkpoint
  <2>3. CASE DeadlockVictim(r)
    BY <1>7, <2>3 DEF DeadlockVictim, Deadlocked, WaitsFor
  <2>4. CASE StatementFails(r)
    BY <1>7, <2>4 DEF StatementFails
  <2> QED BY <1>9, <2>1, <2>2, <2>3, <2>4
<1>10. ASSUME NEW r \in Runners, BeginPut(r) PROVE CkptInv'
  <2> DEFINE c == call[r]
  <2>1. c.job \in Jobs /\ jobs[c.job] = NoJobRow /\ c.op \in Ops
    BY <1>0, <1>10 DEF BeginPut, JobInv
  <2>2. /\ UNCHANGED <<ckpt, call, trail>>
        /\ \A j \in Jobs \ {c.job} : jobs'[j] = jobs[j]
        /\ jobs'[c.job] = [op |-> c.op, state |-> "in_progress"]
        /\ pc[r] # "idle" /\ pc'[r] = "announce"
    BY <1>10, <2>1 DEF BeginPut, TypeInv
  <2>3. OnlyMoves(r)
    BY <1>10 DEF BeginPut, OnlyMoves, TypeInv
  <2>4. StoreGrows
    <3>1. \A op, j : Complete(op, j) => j # c.job
      BY <2>1 DEF Complete, NoJobRow
    <3>2. \A op \in Ops, j \in Jobs : Complete(op, j) => Complete(op, j)'
      BY <2>2, <3>1 DEF Complete
    <3> HIDE DEF c
    <3> QED BY <2>2, <3>2 DEF StoreGrows, UpTo
  <2>5. CheckpointsInv'
    <3>1. jobs'[c.job] \in JobRows /\ jobs'[c.job].op = c.op
      BY <2>1, <2>2 DEF JobRows
    <3>2. ckpt'[c.job] = 1..0 /\ NumBatches(c.op) \in Nat
      BY <2>1, <2>2, BatchesNat DEF CkptInv, CheckpointsInv
    <3>3. UpTo(0, c.job)' /\ 0 \in 0..NumBatches(c.op)
      BY <2>2, <3>2 DEF UpTo
    <3>4. \A j \in Jobs \ {c.job} : /\ jobs'[j] = NoJobRow => ckpt'[j] = {}
                                    /\ jobs'[j] \in JobRows =>
                                         \E n \in 0..NumBatches(jobs'[j].op) : UpTo(n, j)'
      BY <2>2 DEF CkptInv, CheckpointsInv, UpTo
    <3>5. UNCHANGED c /\ jobs'[c.job] # NoJobRow
      BY <2>2, <3>1, RowsDiffer
    <3> HIDE DEF c
    <3> QED BY <3>1, <3>3, <3>4, <3>5 DEF CheckpointsInv
  <2>6. RunnerInv(r)'
    BY <2>2 DEF CkptInv, RunnerInv
  <2> QED BY <2>3, <2>4, <2>5, <2>6, OthersStand
<1>11. ASSUME NEW r \in Runners, MarkFailed(r) PROVE CkptInv'
  <2>1. OnlyMoves(r) /\ UNCHANGED <<jobs, ckpt, call>> /\ pc[r] # "idle" /\ pc'[r] = "failed"
    BY <1>11, <1>0 DEF MarkFailed, OnlyMoves, TypeInv
  <2>2. RunnerInv(r)'
    BY <2>1 DEF CkptInv, RunnerInv
  <2> QED BY <1>1, <2>1, <2>2
<1>12. ASSUME NEW r \in Runners, HandBackFailure(r) \/ HandBack(r) \/ Abandon(r) PROVE CkptInv'
  <2>1. PICK a \in {"applied", "failed", "unavailable"} :
            /\ Answer(r, a)
            /\ a = "applied" => pc[r] = "complete" /\ Record(r, "ImportCompleted")
    BY <1>12 DEF HandBackFailure, HandBack, Abandon
  <2>2. OnlyMoves(r) /\ UNCHANGED <<jobs, ckpt>>
    BY <1>12, <2>1 DEF HandBackFailure, HandBack, Abandon, Answer, Record, OnlyMoves, TypeInv
  <2>3. /\ pc'[r] = "idle" /\ call'[r].answer = a
        /\ call'[r].op = call[r].op /\ call'[r].job = call[r].job
        /\ a = "applied" => pc[r] = "complete" /\ trail'[r] = trail[r] \cup {"ImportCompleted"}
    BY <1>0, <2>1 DEF Answer, Record, TypeInv, CallStates
  <2>4. a = "applied" => Complete(call[r].op, call[r].job)
    BY <2>3 DEF CkptInv, RunnerInv
  <2>5. RunnerInv(r)'
    BY <2>2, <2>3, <2>4 DEF RunnerInv, Complete
  <2> QED BY <1>1, <2>2, <2>5
<1>13. ASSUME NEW r \in Runners, Finalize(r) PROVE CkptInv'
  <2> DEFINE c == call[r]
  <2>1. HasRow(c.op, c.job) /\ UpTo(NumBatches(c.op), c.job) /\ c.op \in Ops
    BY <1>0, <1>13 DEF Finalize, JobInv, CkptInv, RunnerInv
  <2>2. /\ UNCHANGED <<ckpt, call, trail>>
        /\ \A j \in Jobs \ {c.job} : jobs'[j] = jobs[j]
        /\ jobs'[c.job] = [op |-> c.op, state |-> "applied"]
        /\ \A op \in Ops \ {c.op} : idem'[op] = idem[op]
        /\ idem'[c.op].job = c.job
        /\ pc[r] # "idle" /\ pc'[r] = "complete"
        /\ \A q \in Runners \ {r} : pc'[q] = pc[q]
    BY <1>13, <2>1 DEF Finalize, HasRow, TypeInv
  <2>3. Complete(c.op, c.job)'
    BY <2>1, <2>2 DEF Complete, UpTo, HasRow
  <2>4. OnlyMoves(r)
    BY <2>2, <2>3 DEF OnlyMoves
  <2>5. StoreGrows
    <3>1. \A op \in Ops, j \in Jobs : Complete(op, j) => Complete(op, j)'
      BY <2>1, <2>2 DEF Complete, HasRow
    <3> HIDE DEF c
    <3> QED BY <2>2, <3>1 DEF StoreGrows, UpTo
  <2>6. CheckpointsInv'
    <3>1. c.job \in Jobs /\ jobs[c.job] \in JobRows /\ jobs[c.job].op = c.op
      BY <2>1 DEF HasRow
    <3>2. jobs'[c.job] # NoJobRow /\ jobs'[c.job].op = c.op
      BY <2>2 DEF NoJobRow
    <3> HIDE DEF c
    <3> QED BY <2>2, <3>1, <3>2 DEF CkptInv, CheckpointsInv, UpTo
  <2>7. RunnerInv(r)'
    BY <2>2, <2>3 DEF CkptInv, RunnerInv
  <2> QED BY <2>4, <2>5, <2>6, <2>7, OthersStand
<1>14. CASE UNCHANGED vars
  BY <1>14 DEF vars, CkptInv, CheckpointsInv, RunnerInv, StatusInv, UpTo, Complete
<1> QED
  BY <1>2, <1>3, <1>4, <1>5, <1>6, <1>9, <1>10, <1>11, <1>12, <1>13, <1>14 DEF Next, Step, Rest

-----------------------------------------------------------------------------
(***************************************************************************)
(* The chain.                                                              *)
(***************************************************************************)
LEMMA HeadStays ==
    ASSUME NEW h, NEW S, NEW T, S \subseteq T, IsHead(h, S)
    PROVE  IsHead(h, T)
BY DEF IsHead

\* Runner r moves without a commit and without a lineage row.
NoAppend(r) ==
    /\ UNCHANGED lineage
    /\ pc' = [pc EXCEPT ![r] = pc'[r]]
    /\ pc'[r] # "append"
    /\ \/ UNCHANGED <<head, emitted>>
       \/ EndTx(r)

LEMMA NoAppendKeepsChain ==
    ASSUME TypeInv, ChainInv, NEW r \in Runners, NoAppend(r)
    PROVE  ChainInv'
PROOF
<1>1. /\ \A q \in Runners \ {r} : emitted'[q] = emitted[q] /\ head'[q] = head[q] /\ pc'[q] = pc[q]
      /\ emitted'[r] \in {emitted[r], {}}
      /\ pc'[r] # "append" /\ UNCHANGED lineage
  BY DEF NoAppend, EndTx, TypeInv
<1>2. \A q \in Runners : OneChain(LineageSeen(q))'
  <2>1. ASSUME NEW q \in Runners, emitted'[q] = emitted[q] PROVE OneChain(LineageSeen(q))'
    <3>1. LineageSeen(q)' = LineageSeen(q)
      BY <1>1, <2>1 DEF LineageSeen
    <3>2. OneChain(LineageSeen(q))
      BY DEF ChainInv
    <3> QED BY <3>1, <3>2 DEF OneChain, Numbered, Linked, Seqs
  <2>2. ASSUME NEW q \in Runners, emitted'[q] = {} PROVE OneChain(LineageSeen(q))'
    <3>1. LineageSeen(q)' = lineage
      BY <1>1, <2>2 DEF LineageSeen
    <3> QED BY <3>1 DEF ChainInv, OneChain, Numbered, Linked, Seqs
  <2> QED BY <1>1, <2>1, <2>2
<1>3. OneChain(lineage)'
  BY <1>1 DEF ChainInv, OneChain, Numbered, Linked, Seqs
<1>4. \A p, q \in Runners : emitted'[p] # {} /\ emitted'[q] # {} => p = q
  BY <1>1 DEF ChainInv
<1>5. \A q \in Runners : \A new \in emitted'[q], old \in lineage' : old.seq < new.seq
  BY <1>1 DEF ChainInv
<1>6. \A q \in Runners : pc'[q] = "append" => IsHead(head[q], LineageSeen(q))'
  BY <1>1 DEF ChainInv, LineageSeen, IsHead
<1> QED BY <1>2, <1>3, <1>4, <1>5, <1>6 DEF ChainInv

(***************************************************************************)
(* Two runners cannot both have written lineage rows: whoever comes second *)
(* finds the place it wants taken, or waits for it.                        *)
(***************************************************************************)
LEMMA OnlyWriter ==
    ASSUME TypeInv, ChainInv, NEW r \in Runners, pc[r] = "append",
           SeqHolders(r) = {}, ~SeqTaken(r)
    PROVE  /\ OneChain(LineageSeen(r) \cup {NextRow(head[r], EventOf(r))})
           /\ \A q \in Runners \ {r} : emitted[q] = {}
           /\ \A old \in lineage : old.seq < head[r].seq + 1
PROOF
<1> DEFINE S == LineageSeen(r)
           next == head[r].seq + 1
<1>1. /\ OneChain(S \cup {NextRow(head[r], EventOf(r))})
      /\ Seqs(S) = 1..head[r].seq
      /\ head[r].seq \in Nat
  BY AppendKeepsChain DEF ChainInv, SeqTaken
<1>2. \A old \in lineage : old.seq \in 1..head[r].seq
  BY <1>1 DEF LineageSeen, Seqs
<1>3. ASSUME NEW q \in Runners \ {r}, emitted[q] # {} PROVE FALSE
  <2>1. emitted[r] = {}
    BY <1>3 DEF ChainInv
  <2>2. Seqs(lineage) = 1..head[r].seq
    <3>1. S = lineage
      BY <2>1 DEF LineageSeen
    <3> QED BY <1>1, <3>1
  <2>3. PICK n \in Nat : Seqs(LineageSeen(q)) = 1..n
    BY DEF ChainInv, OneChain, Numbered
  <2>4. PICK new \in emitted[q] : TRUE
    BY <1>3
  <2>5. new.seq \in 1..n
    BY <2>3, <2>4 DEF Seqs, LineageSeen
  <2>6. \A k \in 1..head[r].seq : k < new.seq
    BY <2>2, <2>4 DEF ChainInv, Seqs
  <2>7. head[r].seq < new.seq
    <3>1. CASE head[r].seq = 0
      BY <2>5, <3>1
    <3>2. CASE head[r].seq # 0
      BY <1>1, <2>6, <3>2
    <3> QED BY <3>1, <3>2
  <2>8. next \in 1..n
    BY <1>1, <2>3, <2>5, <2>7
  <2>9. PICK row \in LineageSeen(q) : row.seq = next
    BY <2>3, <2>8 DEF Seqs
  <2>10. row \notin lineage
    BY <1>1, <1>2, <2>9
  <2>11. row \in emitted[q]
    BY <2>9, <2>10 DEF LineageSeen
  <2> QED BY <2>9, <2>11 DEF SeqHolders
<1>4. \A old \in lineage : old.seq < head[r].seq + 1
  BY <1>1, <1>2
<1> QED BY <1>1, <1>3, <1>4

LEMMA ChainKept == TypeInv /\ ChainInv /\ [Next]_vars => ChainInv'
PROOF
<1> SUFFICES ASSUME TypeInv, ChainInv, [Next]_vars PROVE ChainInv'
  OBVIOUS
<1> USE DEF Goto, NoTxStep, Quiet, store
<1>1. ASSUME NEW r \in Runners,
             \/ \E op \in Ops : Request(r, op)
             \/ BeginRead(r) \/ BeginPut(r) \/ Announce(r) \/ NoAdapter(r) \/ Resume(r)
             \/ UpsertRead(r) \/ UpsertWrite(r) \/ MarkFailed(r) \/ HandBackFailure(r) \/ Abandon(r)
             \/ Finalize(r) \/ HandBack(r) \/ RollBack(r)
      PROVE  ChainInv'
  <2>1. UNCHANGED lineage
    BY <1>1 DEF Request, BeginRead, BeginPut, Announce, NoAdapter, Resume, UpsertRead, UpsertWrite, MarkFailed,
                HandBackFailure, Abandon, Finalize, HandBack, RollBack
  <2>2. UNCHANGED <<head, emitted>> \/ EndTx(r)
    BY <1>1 DEF Request, BeginRead, BeginPut, Announce, NoAdapter, Resume, UpsertRead, UpsertWrite, MarkFailed,
                HandBackFailure, Abandon, Finalize, HandBack, RollBack
  <2>3. PICK x \in Pcs \ {"append"} : pc' = [pc EXCEPT ![r] = x]
    <3>1. CASE (\E op \in Ops : Request(r, op)) \/ BeginRead(r) \/ BeginPut(r) \/ Announce(r) \/ NoAdapter(r)
      BY <3>1 DEF Request, BeginRead, BeginPut, Announce, NoAdapter, Pcs
    <3>2. CASE Resume(r) \/ UpsertRead(r) \/ UpsertWrite(r) \/ MarkFailed(r)
      BY <3>2 DEF Resume, NextBatch, UpsertRead, UpsertWrite, MarkFailed, Pcs
    <3>3. CASE HandBackFailure(r) \/ Abandon(r) \/ Finalize(r) \/ HandBack(r) \/ RollBack(r)
      BY <3>3 DEF HandBackFailure, Abandon, Finalize, HandBack, RollBack, Answer, Pcs
    <3> QED BY <1>1, <3>1, <3>2, <3>3
  <2>4. NoAppend(r)
    BY <2>1, <2>2, <2>3 DEF NoAppend, TypeInv
  <2> QED BY <2>4, NoAppendKeepsChain
<1>2. ASSUME NEW r \in Runners, EmitHead(r) PROVE ChainInv'
  <2>1. /\ UNCHANGED <<lineage, emitted>>
        /\ \A q \in Runners \ {r} : head'[q] = head[q] /\ pc'[q] = pc[q]
        /\ head'[r] = ChainHead(LineageSeen(r))
    BY <1>2 DEF EmitHead, TypeInv
  <2>2. IsHead(head'[r], LineageSeen(r))
    BY <2>1, HeadOfChain DEF ChainInv
  <2>3. \A q \in Runners : LineageSeen(q)' = LineageSeen(q)
    BY <2>1 DEF LineageSeen
  <2>4. \A q \in Runners : pc'[q] = "append" => IsHead(head[q], LineageSeen(q))'
    BY <2>1, <2>2, <2>3 DEF ChainInv, IsHead
  <2>5. \A q \in Runners : OneChain(LineageSeen(q))'
    BY <2>3 DEF ChainInv, OneChain, Numbered, Linked, Seqs
  <2>6. OneChain(lineage)'
    BY <2>1 DEF ChainInv, OneChain, Numbered, Linked, Seqs
  <2> QED BY <2>1, <2>4, <2>5, <2>6 DEF ChainInv
\* A lineage row is inserted.
<1>3. ASSUME NEW r \in Runners, EmitAppend(r), ~RollBack(r) PROVE ChainInv'
  <2> DEFINE new == NextRow(head[r], EventOf(r))
  <2>1. /\ UNCHANGED <<lineage, head>>
        /\ \A q \in Runners \ {r} : emitted'[q] = emitted[q] /\ pc'[q] = pc[q]
        /\ emitted'[r] = emitted[r] \cup {new}
        /\ pc[r] = "append" /\ pc'[r] # "append"
        /\ SeqHolders(r) = {} /\ ~SeqTaken(r)
    BY <1>3 DEF EmitAppend, TypeInv
  <2>2. /\ OneChain(LineageSeen(r) \cup {new})
        /\ \A q \in Runners \ {r} : emitted[q] = {}
        /\ \A old \in lineage : old.seq < new.seq
    BY <2>1, OnlyWriter DEF NextRow
  <2> HIDE DEF new
  <2>3. LineageSeen(r)' = LineageSeen(r) \cup {new}
    BY <2>1 DEF LineageSeen
  <2>4. \A q \in Runners \ {r} : LineageSeen(q)' = LineageSeen(q)
    BY <2>1 DEF LineageSeen
  <2>5. OneChain(LineageSeen(r))'
    BY <2>2, <2>3 DEF OneChain, Numbered, Linked, Seqs
  <2>6. \A q \in Runners \ {r} : OneChain(LineageSeen(q))'
    BY <2>4 DEF ChainInv, OneChain, Numbered, Linked, Seqs
  <2>7. OneChain(lineage)'
    BY <2>1 DEF ChainInv, OneChain, Numbered, Linked, Seqs
  <2>8. \A p, q \in Runners : emitted'[p] # {} /\ emitted'[q] # {} => p = q
    BY <2>1, <2>2
  <2>9. \A q \in Runners : \A x \in emitted'[q], old \in lineage' : old.seq < x.seq
    BY <2>1, <2>2 DEF ChainInv
  <2>10. \A q \in Runners : pc'[q] = "append" => IsHead(head[q], LineageSeen(q))'
    BY <2>1, <2>4 DEF ChainInv, IsHead
  <2> QED BY <2>5, <2>6, <2>7, <2>8, <2>9, <2>10 DEF ChainInv
\* The rows of a batch are committed.
<1>4. ASSUME NEW r \in Runners, CommitBatch(r) PROVE ChainInv'
  <2>1. /\ lineage' = LineageSeen(r)
        /\ \A q \in Runners \ {r} : emitted'[q] = emitted[q] /\ head'[q] = head[q] /\ pc'[q] = pc[q]
        /\ emitted'[r] = {}
        /\ pc'[r] # "append"
    BY <1>4 DEF CommitBatch, EndTx, NextBatch, TypeInv
  <2>2. \A q \in Runners \ {r} : emitted[r] = {} \/ emitted[q] = {}
    BY DEF ChainInv
  <2>3. OneChain(lineage)'
    BY <2>1 DEF ChainInv, OneChain, Numbered, Linked, Seqs
  <2>4. \A q \in Runners : OneChain(LineageSeen(q))'
    <3>1. ASSUME NEW q \in Runners, emitted'[q] = {} PROVE OneChain(LineageSeen(q))'
      <4>1. LineageSeen(q)' = lineage'
        BY <3>1 DEF LineageSeen
      <4> QED BY <2>3, <4>1 DEF OneChain, Numbered, Linked, Seqs
    <3>2. ASSUME NEW q \in Runners \ {r}, emitted[q] # {} PROVE OneChain(LineageSeen(q))'
      <4>1. LineageSeen(q)' = LineageSeen(q)
        BY <2>1, <2>2, <3>2 DEF LineageSeen
      <4> QED BY <4>1 DEF ChainInv, OneChain, Numbered, Linked, Seqs
    <3> QED BY <2>1, <3>1, <3>2
  <2>5. \A p, q \in Runners : emitted'[p] # {} /\ emitted'[q] # {} => p = q
    BY <2>1 DEF ChainInv
  <2>6. \A q \in Runners : \A new \in emitted'[q], old \in lineage' : old.seq < new.seq
    BY <2>1, <2>2 DEF ChainInv, LineageSeen
  <2>7. \A q \in Runners \ {r} : pc'[q] = "append" => IsHead(head[q], LineageSeen(q))'
    <3> SUFFICES ASSUME NEW q \in Runners \ {r}, pc'[q] = "append"
                 PROVE  IsHead(head[q], LineageSeen(q))'
      OBVIOUS
    <3>1. IsHead(head[q], LineageSeen(q)) /\ LineageSeen(q) \subseteq LineageSeen(q)'
      BY <2>1 DEF ChainInv, LineageSeen
    <3> QED BY <2>1, <3>1 DEF IsHead
  <2> QED BY <2>1, <2>3, <2>4, <2>5, <2>6, <2>7 DEF ChainInv
<1>5. CASE UNCHANGED vars
  BY <1>5 DEF vars, ChainInv, LineageSeen, IsHead, OneChain, Numbered, Linked, Seqs
<1>6. ASSUME NEW r \in Runners, Checkpoint(r) \/ EmitAppend(r) \/ DeadlockVictim(r) \/ StatementFails(r)
      PROVE  ChainInv'
  BY <1>1, <1>3, <1>4, <1>6 DEF Checkpoint, DeadlockVictim, StatementFails
<1> QED BY <1>1, <1>2, <1>5, <1>6 DEF Next, Step, Rest

-----------------------------------------------------------------------------
(***************************************************************************)
(* Where the records of a batch are.                                       *)
(***************************************************************************)
LEMMA DivBound ==
    ASSUME NEW n \in Nat, NEW d \in Nat \ {0}
    PROVE  (n \div d) * d <= n
OBVIOUS

LEMMA TimesGrows ==
    ASSUME NEW m \in Nat, NEW n \in Nat, m <= n, NEW d \in Nat
    PROVE  m * d <= n * d
OBVIOUS

\* Where batch b begins.
Offset(b) == (b - 1) * BatchSize

(***************************************************************************)
(* A batch is not empty, is no longer than BatchSize, and holds the valid  *)
(* records behind its offset.                                              *)
(***************************************************************************)
LEMMA BatchRecords ==
    ASSUME NEW op \in Ops, NEW b \in 1..NumBatches(op)
    PROVE  /\ Len(Batch(op, b)) \in 1..BatchSize
           /\ Offset(b) \in Nat
           /\ \A n \in 1..Len(Batch(op, b)) :
                  /\ Offset(b) + n \in 1..Len(Valid(op))
                  /\ Batch(op, b)[n] = Valid(op)[Offset(b) + n]
PROOF
<1> DEFINE L == Len(Valid(op))
           hi == Least(b * BatchSize, L)
           lo == Offset(b)
<1>1. L \in Nat /\ BatchSize \in Nat \ {0} /\ b \in Nat \ {0} /\ Valid(op) \in Seq(Records)
  BY ImportAssumption, CollectionIsExact, BatchesNat
<1>2. lo \in Nat /\ b * BatchSize = lo + BatchSize
  <2>1. b - 1 \in Nat
    BY <1>1
  <2>2. \A m \in Nat, d \in Nat : m * d \in Nat /\ (m + 1) * d = m * d + d
    OBVIOUS
  <2>3. b = (b - 1) + 1
    BY <1>1
  <2> QED BY <1>1, <2>1, <2>2, <2>3 DEF Offset
<1>3. lo < L
  <2> DEFINE q == (L + BatchSize - 1) \div BatchSize
  <2>1. L + BatchSize - 1 \in Nat
    BY <1>1
  <2>2. q \in Nat /\ q * BatchSize <= L + BatchSize - 1
    BY <1>1, <2>1, DivBound
  <2>3. b <= q
    BY <2>2 DEF NumBatches
  <2> HIDE DEF q, L, lo
  <2>4. b * BatchSize <= q * BatchSize
    BY <1>1, <2>2, <2>3, TimesGrows
  <2>5. \A m \in Nat, d \in Nat : m * d \in Nat
    OBVIOUS
  <2>6. q * BatchSize \in Nat /\ b * BatchSize \in Nat
    BY <1>1, <2>2, <2>5
  <2> QED BY <1>1, <1>2, <2>2, <2>4, <2>6
<1>4. hi \in Nat /\ lo < hi /\ hi <= lo + BatchSize /\ hi <= L
  <2> HIDE DEF L, lo
  <2> QED BY <1>1, <1>2, <1>3 DEF Least
<1>5. Batch(op, b) = SubSeq(Valid(op), lo + 1, hi)
  BY DEF Batch, Offset
<1> HIDE DEF hi, lo
<1>6. Len(Batch(op, b)) = hi - lo
  BY <1>1, <1>2, <1>4, <1>5
<1>7. \A n \in 1..(hi - lo) : Batch(op, b)[n] = Valid(op)[lo + n]
  BY <1>1, <1>2, <1>4, <1>5
<1>8. \A n \in 1..(hi - lo) : lo + n \in 1..Len(Valid(op))
  BY <1>1, <1>2, <1>4
<1>9. hi - lo \in 1..BatchSize
  BY <1>1, <1>2, <1>4
<1> QED BY <1>2, <1>6, <1>7, <1>8, <1>9 DEF lo

\* A record of a batch is one of the source, and its reference finds its content.
LEMMA RecordsAreRead ==
    ASSUME NEW op \in Ops, NEW b \in 1..NumBatches(op), NEW n \in 1..Len(Batch(op, b))
    PROVE  LET rec == Batch(op, b)[n] IN Raw[rec.ref[1]][rec.ref[2]].val = rec.val
PROOF
<1>1. PICK m \in 1..Len(Raw[op]) : Batch(op, b)[n] = Raw[op][m]
  <2>1. Offset(b) + n \in 1..Len(Valid(op)) /\ Batch(op, b)[n] = Valid(op)[Offset(b) + n]
    BY BatchRecords
  <2> QED BY <2>1, CollectionIsExact
<1>2. LET ref == Raw[op][m].ref IN Raw[ref[1]][ref[2]].val = Raw[op][m].val
  BY SourceAssumption
<1> QED BY <1>1, <1>2

(***************************************************************************)
(* No two records of an operation have the same reference, in one batch or *)
(* in two.                                                                 *)
(***************************************************************************)
LEMMA RecordsDiffer ==
    ASSUME NEW op \in Ops, NEW b \in 1..NumBatches(op), NEW c \in 1..NumBatches(op),
           NEW m \in 1..Len(Batch(op, b)), NEW n \in 1..Len(Batch(op, c)),
           Batch(op, b)[m].ref = Batch(op, c)[n].ref
    PROVE  b = c /\ m = n
PROOF
<1>1. Offset(b) + m = Offset(c) + n
  <2>1. /\ Offset(b) + m \in 1..Len(Valid(op)) /\ Batch(op, b)[m] = Valid(op)[Offset(b) + m]
        /\ Offset(c) + n \in 1..Len(Valid(op)) /\ Batch(op, c)[n] = Valid(op)[Offset(c) + n]
    BY BatchRecords
  <2> QED BY <2>1, CollectionIsExact
<1>2. /\ m \in 1..BatchSize /\ n \in 1..BatchSize
      /\ BatchSize \in Nat /\ b \in Nat \ {0} /\ c \in Nat \ {0}
  <2>1. Len(Batch(op, b)) \in 1..BatchSize /\ Len(Batch(op, c)) \in 1..BatchSize
    BY BatchRecords
  <2>2. BatchSize \in Nat /\ NumBatches(op) \in Nat
    BY BatchesNat, ImportAssumption
  <2> QED BY <2>1, <2>2
<1>3. ASSUME NEW x \in Nat \ {0}, NEW y \in Nat \ {0}, x < y PROVE Offset(x) + BatchSize <= Offset(y)
  <2>1. x * BatchSize <= (y - 1) * BatchSize
    <3>1. x \in Nat /\ y - 1 \in Nat /\ x <= y - 1
      BY <1>3
    <3> QED BY <1>2, <3>1, TimesGrows
  <2>2. x * BatchSize = (x - 1) * BatchSize + BatchSize
    <3>1. \A k \in Nat, d \in Nat : (k + 1) * d = k * d + d
      OBVIOUS
    <3>2. x - 1 \in Nat /\ x = (x - 1) + 1
      BY <1>3
    <3> QED BY <1>2, <3>1, <3>2
  <2> QED BY <2>1, <2>2 DEF Offset
<1>4. Offset(b) \in Nat /\ Offset(c) \in Nat
  BY BatchRecords
<1>5. ~(b < c)
  BY <1>1, <1>2, <1>3, <1>4
<1>6. ~(c < b)
  BY <1>1, <1>2, <1>3, <1>4
<1>7. b = c
  BY <1>2, <1>5, <1>6
<1> QED BY <1>1, <1>2, <1>4, <1>7

-----------------------------------------------------------------------------
(***************************************************************************)
(* Provenance: who moves, and who does not.                                *)
(***************************************************************************)
Stands(q) == pc'[q] = pc[q] /\ call'[q] = call[q] /\ written'[q] = written[q] /\ emitted'[q] = emitted[q]

LEMMA StandingKeepsRecords ==
    ASSUME NEW q, RecordInv(q), WrittenInv(q), Stands(q)
    PROVE  RecordInv(q)' /\ WrittenInv(q)'
BY DEF RecordInv, WrittenInv, Stands, Unrecorded, Current

LEMMA MoverKeepsProvenance ==
    ASSUME ProvenanceInv, NEW r \in Runners, \A q \in Runners \ {r} : Stands(q),
           written' = [written EXCEPT ![r] = written'[r]], UNCHANGED <<table, lineage>>,
           RecordInv(r)', WrittenInv(r)'
    PROVE  ProvenanceInv'
PROOF
<1>1. \A q \in Runners : RecordInv(q)' /\ WrittenInv(q)'
  BY StandingKeepsRecords DEF ProvenanceInv
<1>2. \A k \in Keys :
          IF CreationsIn(lineage', k) = {} THEN table'[k] = NoValue
          ELSE LastCopied(lineage', k, table'[k])
  BY DEF ProvenanceInv
<1>3. table' = [k \in Keys |-> table'[k]]
  BY DEF ProvenanceInv
<1>4. written' = [q \in Runners |-> written'[q]]
  BY DEF ProvenanceInv
<1> QED BY <1>1, <1>2, <1>3, <1>4 DEF ProvenanceInv

\* The transaction of r goes on as it was, between two records, or has ended.
LEMMA BetweenRecords ==
    ASSUME ProvenanceInv, NEW r \in Runners, pc'[r] \notin {"write", "head", "append", "checkpoint"},
           pc'[r] = "read" => call'[r].i \in 1..Len(Batch(call'[r].op, call'[r].b)),
           \/ ~Unrecorded(r) /\ written'[r] = written[r] /\ emitted'[r] = emitted[r]
           \/ written'[r] = Nothing /\ emitted'[r] = {}
    PROVE  RecordInv(r)' /\ WrittenInv(r)'
PROOF
<1>1. RecordInv(r)'
  BY DEF RecordInv, AtRecord, Unrecorded
<1>2. WrittenInv(r)'
  <2>1. CASE ~Unrecorded(r) /\ written'[r] = written[r] /\ emitted'[r] = emitted[r]
    BY <2>1, <1>1 DEF ProvenanceInv, WrittenInv, RecordInv
  <2>2. CASE written'[r] = Nothing /\ emitted'[r] = {}
    BY <2>2 DEF WrittenInv, CreationsIn, Nothing
  <2> QED BY <2>1, <2>2
<1> QED BY <1>1, <1>2

LEMMA FirstRecord ==
    ASSUME NEW op \in Ops, NEW b \in 1..NumBatches(op)
    PROVE  1 \in 1..Len(Batch(op, b))
PROOF
<1>1. Len(Batch(op, b)) \in 1..BatchSize /\ BatchSize \in Nat
  BY BatchRecords, ImportAssumption
<1> QED BY <1>1

LEMMA QuietStepsKeepProvenance ==
    ASSUME TypeInv, ProvenanceInv, NEW r \in Runners,
           \/ \E op \in Ops : Request(r, op)
           \/ BeginRead(r) \/ BeginPut(r) \/ Announce(r) \/ NoAdapter(r) \/ MarkFailed(r) \/ HandBackFailure(r)
           \/ Abandon(r) \/ Finalize(r) \/ HandBack(r) \/ RollBack(r)
    PROVE  ProvenanceInv'
PROOF
<1> USE DEF Goto, NoTxStep, Quiet, store
<1>1. /\ UNCHANGED <<table, lineage>>
      /\ \A q \in Runners \ {r} : pc'[q] = pc[q] /\ call'[q] = call[q]
      /\ pc'[r] \notin {"read", "write", "head", "append", "checkpoint"}
  <2>1. CASE (\E op \in Ops : Request(r, op)) \/ BeginPut(r) \/ Announce(r) \/ NoAdapter(r) \/ MarkFailed(r)
    BY <2>1 DEF Request, BeginPut, Announce, NoAdapter, MarkFailed, TypeInv
  <2>2. CASE BeginRead(r)
    BY <2>2 DEF BeginRead, TypeInv
  <2>3. CASE HandBackFailure(r) \/ Abandon(r) \/ HandBack(r)
    BY <2>3 DEF HandBackFailure, Abandon, HandBack, Answer, TypeInv
  <2>4. CASE Finalize(r) \/ RollBack(r)
    BY <2>4 DEF Finalize, RollBack, TypeInv
  <2> QED BY <2>1, <2>2, <2>3, <2>4
<1>2. \/ ~Unrecorded(r) /\ UNCHANGED <<written, emitted>>
      \/ EndTx(r)
  BY DEF Request, BeginRead, BeginPut, Announce, NoAdapter, MarkFailed, HandBackFailure, Abandon, Finalize,
         HandBack, RollBack, Unrecorded
<1>3. /\ written' = [written EXCEPT ![r] = written'[r]]
      /\ \A q \in Runners \ {r} : written'[q] = written[q] /\ emitted'[q] = emitted[q]
      /\ \/ ~Unrecorded(r) /\ written'[r] = written[r] /\ emitted'[r] = emitted[r]
         \/ written'[r] = Nothing /\ emitted'[r] = {}
  <2>1. CASE EndTx(r)
    BY <2>1 DEF EndTx, ProvenanceInv, TypeInv
  <2>2. CASE ~Unrecorded(r) /\ UNCHANGED <<written, emitted>>
    BY <2>2 DEF ProvenanceInv
  <2> QED BY <1>2, <2>1, <2>2
<1>4. RecordInv(r)' /\ WrittenInv(r)'
  BY <1>1, <1>3, BetweenRecords
<1> QED BY <1>1, <1>3, <1>4, MoverKeepsProvenance DEF Stands

LEMMA ResumeKeepsProvenance ==
    ASSUME TypeInv, JobInv, CkptInv, CkptInv', ProvenanceInv, NEW r \in Runners, Resume(r)
    PROVE  ProvenanceInv'
PROOF
<1> USE DEF Goto, NoTxStep, Quiet, store
<1>1. /\ UNCHANGED <<table, lineage, written, emitted>>
      /\ \A q \in Runners \ {r} : pc'[q] = pc[q] /\ call'[q] = call[q]
      /\ pc[r] = "resume" /\ pc'[r] \in {"read", "finalize"}
      /\ call'[r].op \in Ops /\ call'[r].i = 1
  BY DEF Resume, NextBatch, TypeInv, CallStates
<1>2. pc'[r] = "read" => call'[r].b \in 1..NumBatches(call'[r].op)
  BY DEF CkptInv, RunnerInv, InBatch
<1>3. pc'[r] = "read" => call'[r].i \in 1..Len(Batch(call'[r].op, call'[r].b))
  BY <1>1, <1>2, FirstRecord
<1>4. ~Unrecorded(r)
  BY <1>1 DEF Unrecorded
<1>5. RecordInv(r)' /\ WrittenInv(r)'
  BY <1>1, <1>3, <1>4, BetweenRecords
<1>6. written' = [written EXCEPT ![r] = written'[r]]
  BY <1>1 DEF ProvenanceInv
<1> QED BY <1>1, <1>5, <1>6, MoverKeepsProvenance DEF Stands

-----------------------------------------------------------------------------
(***************************************************************************)
(* Provenance: the steps of one record, and the commit.                    *)
(***************************************************************************)
LEMMA RecordStepsKeepProvenance ==
    ASSUME TypeInv, ProvenanceInv, NEW r \in Runners, UpsertRead(r) \/ UpsertWrite(r) \/ EmitHead(r)
    PROVE  ProvenanceInv'
PROOF
<1> USE DEF Goto, NoTxStep, Quiet, store
<1>0. RecordInv(r) /\ WrittenInv(r) /\ call[r] \in CallStates /\ written = [q \in Runners |-> written[q]]
  BY DEF ProvenanceInv, TypeInv
<1>1. /\ UNCHANGED <<table, lineage, emitted>>
      /\ \A q \in Runners \ {r} : pc'[q] = pc[q] /\ call'[q] = call[q]
      /\ pc[r] \in AtRecord
  BY DEF UpsertRead, UpsertWrite, EmitHead, AtRecord, TypeInv
<1>2. call'[r].op = call[r].op /\ call'[r].b = call[r].b /\ call'[r].i = call[r].i
  BY <1>0 DEF UpsertRead, UpsertWrite, EmitHead, TypeInv, CallStates
<1>3. /\ call'[r].i \in 1..Len(Batch(call'[r].op, call'[r].b))
      /\ Current(r)' = Current(r)
  BY <1>0, <1>1, <1>2 DEF RecordInv, Current
<1>4. CASE UpsertRead(r)
  <2>1. /\ pc[r] = "read" /\ UNCHANGED written
        /\ \/ pc'[r] = "head" /\ ~call'[r].changed
           \/ pc'[r] = "write" /\ call'[r].changed
    BY <1>0, <1>4 DEF UpsertRead, TypeInv, CallStates
  <2>2. RecordInv(r)'
    BY <1>3, <2>1 DEF RecordInv, Unrecorded
  <2>3. WrittenInv(r)'
    BY <1>0, <1>1, <2>1 DEF WrittenInv, Unrecorded
  <2>4. written' = [written EXCEPT ![r] = written'[r]]
    BY <1>0, <2>1
  <2> QED BY <1>1, <2>1, <2>2, <2>3, <2>4, MoverKeepsProvenance DEF Stands
<1>5. CASE UpsertWrite(r)
  <2> DEFINE rec == Current(r)
             new == [k \in DOMAIN written[r] \cup {rec.key} |->
                        IF k = rec.key THEN rec.val ELSE written[r][k]]
  <2>1. /\ pc[r] = "write" /\ pc'[r] = "head" /\ UNCHANGED call
        /\ written' = [written EXCEPT ![r] = new]
    BY <1>5 DEF UpsertWrite, TypeInv
  <2>2. written'[r] = new /\ \A q \in Runners \ {r} : written'[q] = written[q]
    BY <1>0, <2>1
  <2>3. /\ DOMAIN new = DOMAIN written[r] \cup {rec.key}
        /\ new[rec.key] = rec.val
        /\ \A k \in DOMAIN written[r] \ {rec.key} : new[k] = written[r][k]
    OBVIOUS
  <2> HIDE DEF new
  <2>4. call[r].changed
    BY <1>0, <2>1 DEF RecordInv
  <2>5. RecordInv(r)'
    BY <1>3, <2>1, <2>2, <2>3, <2>4 DEF RecordInv
  <2>6. WrittenInv(r)'
    BY <1>0, <1>1, <1>3, <2>1, <2>2, <2>3, <2>4 DEF WrittenInv, Unrecorded
  <2> QED BY <1>1, <2>1, <2>2, <2>5, <2>6, MoverKeepsProvenance DEF Stands
<1>6. CASE EmitHead(r)
  <2>1. pc[r] = "head" /\ pc'[r] = "append" /\ UNCHANGED <<call, written>>
    BY <1>6 DEF EmitHead, TypeInv
  <2>2. RecordInv(r)' /\ WrittenInv(r)'
    BY <1>0, <1>1, <1>3, <2>1 DEF RecordInv, WrittenInv, Unrecorded
  <2>3. written' = [written EXCEPT ![r] = written'[r]]
    BY <1>0, <2>1
  <2> QED BY <1>1, <2>1, <2>2, <2>3, MoverKeepsProvenance DEF Stands
<1> QED BY <1>4, <1>5, <1>6

(***************************************************************************)
(* Rows that come behind others: the newest creation is among them, if     *)
(* they have one, and is the old one otherwise.                            *)
(***************************************************************************)
LEMMA NewestIsBehind ==
    ASSUME NEW old, NEW new, \A x \in old, y \in new : x.seq \in Nat /\ y.seq \in Nat /\ x.seq < y.seq,
           NEW k, NEW val, LastCopied(new, k, val)
    PROVE  LastCopied(old \cup new, k, val)
PROOF
<1>1. PICK row \in CreationsIn(new, k) :
          /\ \A other \in CreationsIn(new, k) : other.seq <= row.seq
          /\ Copied(row) = val
  BY DEF LastCopied
<1>2. row \in CreationsIn(old \cup new, k)
  BY DEF CreationsIn
<1>3. \A other \in CreationsIn(old \cup new, k) : other \in CreationsIn(new, k) \/ other.seq < row.seq
  BY DEF CreationsIn
<1>4. \A other \in old : other.seq < row.seq => other.seq <= row.seq
  BY DEF CreationsIn
<1>5. \A other \in CreationsIn(old \cup new, k) : other \in CreationsIn(new, k) \/ other \in old
  BY DEF CreationsIn
<1>6. \A other \in CreationsIn(old \cup new, k) : other.seq <= row.seq
  BY <1>1, <1>3, <1>4, <1>5
<1> QED BY <1>1, <1>2, <1>6 DEF LastCopied

\* A row inserted behind the head comes behind all rows the transaction sees.
LEMMA AppendKeepsProvenance ==
    ASSUME TypeInv, CkptInv, ChainInv, ProvenanceInv, NEW r \in Runners, EmitAppend(r), ~RollBack(r)
    PROVE  ProvenanceInv'
PROOF
<1> USE DEF Goto, NoTxStep, Quiet, store
<1> DEFINE rec == Current(r)
           new == NextRow(head[r], EventOf(r))
           batch == Batch(call[r].op, call[r].b)
<1>0. /\ RecordInv(r) /\ WrittenInv(r) /\ call[r] \in CallStates
      /\ written = [q \in Runners |-> written[q]]
  BY DEF ProvenanceInv, TypeInv
<1>1. /\ UNCHANGED <<table, lineage, written>>
      /\ \A q \in Runners \ {r} : pc'[q] = pc[q] /\ call'[q] = call[q] /\ emitted'[q] = emitted[q]
      /\ emitted'[r] = emitted[r] \cup {new}
      /\ pc[r] = "append"
      /\ SeqHolders(r) = {} /\ ~SeqTaken(r)
  BY DEF EmitAppend, TypeInv
<1>2. call[r].i \in 1..Len(batch) /\ call[r].b \in 1..NumBatches(call[r].op) /\ call[r].op \in Ops
  BY <1>0, <1>1 DEF RecordInv, CkptInv, RunnerInv, InBatch, AtRecord, CallStates
<1>3. Raw[rec.ref[1]][rec.ref[2]].val = rec.val
  BY <1>2, RecordsAreRead DEF Current
<1>4. /\ new.event.source = rec.ref /\ new.event.target = rec.key
      /\ new.event.operation = (IF call[r].changed THEN "created" ELSE "noop")
      /\ new.seq = head[r].seq + 1
  BY DEF NextRow, EventOf
<1>5. Seqs(LineageSeen(r)) = 1..head[r].seq /\ head[r].seq \in Nat
  BY <1>1, AppendKeepsChain DEF ChainInv, SeqTaken
<1>6. \A row \in emitted[r] : row.seq \in Nat /\ new.seq \in Nat /\ row.seq < new.seq
  <2>1. \A row \in emitted[r] : row.seq \in 1..head[r].seq
    BY <1>5 DEF Seqs, LineageSeen
  <2> QED BY <2>1, <1>4, <1>5
<1> HIDE DEF new, rec
<1>7. \/ pc'[r] = "checkpoint" /\ call'[r].i = 1
      \/ pc'[r] = "read" /\ call'[r].i \in 1..Len(Batch(call'[r].op, call'[r].b))
  <2> DEFINE last == call[r].i = Len(batch)
  <2>1. CASE last
    <3>1. pc'[r] = "checkpoint" /\ call' = [call EXCEPT ![r] = [call[r] EXCEPT !.i = 1]]
      BY <1>1, <2>1 DEF EmitAppend, TypeInv
    <3> QED BY <1>0, <3>1 DEF TypeInv, CallStates
  <2>2. CASE ~last
    <3>1. pc'[r] = "read" /\ call' = [call EXCEPT ![r] = [call[r] EXCEPT !.i = call[r].i + 1]]
      BY <1>1, <2>2 DEF EmitAppend, TypeInv
    <3>2. call'[r].op = call[r].op /\ call'[r].b = call[r].b /\ call'[r].i = call[r].i + 1
      BY <1>0, <3>1 DEF TypeInv, CallStates
    <3>3. Len(batch) \in Nat
      <4>1. Len(batch) \in 1..BatchSize /\ BatchSize \in Nat
        BY <1>2, BatchRecords, ImportAssumption
      <4> QED BY <4>1
    <3>4. call[r].i + 1 \in 1..Len(batch)
      BY <1>2, <2>2, <3>3
    <3> QED BY <3>1, <3>2, <3>4
  <2> QED BY <2>1, <2>2
<1>8. RecordInv(r)'
  BY <1>7 DEF RecordInv, AtRecord, Unrecorded
<1>9. WrittenInv(r)'
  <2>1. ASSUME NEW k, ~(call[r].changed /\ k = rec.key)
        PROVE  CreationsIn(emitted'[r], k) = CreationsIn(emitted[r], k)
    BY <1>1, <1>4, <2>1 DEF CreationsIn
  <2>2. ASSUME call[r].changed PROVE LastCopied(emitted'[r], rec.key, written[r][rec.key])
    <3>1. CreationsIn({new}, rec.key) = {new}
      BY <1>4, <2>2 DEF CreationsIn
    <3>2. Copied(new) = rec.val
      BY <1>3, <1>4 DEF Copied
    <3>3. written[r][rec.key] = rec.val
      BY <1>0, <1>1, <2>2 DEF RecordInv, Unrecorded, rec
    <3>4. new.seq <= new.seq
      BY <1>4, <1>5
    <3>5. LastCopied({new}, rec.key, written[r][rec.key])
      BY <3>1, <3>2, <3>3, <3>4 DEF LastCopied
    <3>6. \A x \in emitted[r], y \in {new} : x.seq \in Nat /\ y.seq \in Nat /\ x.seq < y.seq
      BY <1>6
    <3>7. LastCopied(emitted[r] \cup {new}, rec.key, written[r][rec.key])
      BY <3>5, <3>6, NewestIsBehind
    <3> QED BY <1>1, <3>7
  <2>3. call[r].changed => rec.key \in DOMAIN written[r]
    BY <1>0, <1>1 DEF RecordInv, Unrecorded, rec
  <2>4. ASSUME NEW k \in DOMAIN written[r] PROVE LastCopied(emitted'[r], k, written[r][k])
    <3>1. CASE call[r].changed /\ k = rec.key
      BY <2>2, <3>1
    <3>2. CASE ~(call[r].changed /\ k = rec.key)
      <4>1. LastCopied(emitted[r], k, written[r][k])
        BY <1>0, <3>2 DEF WrittenInv, Unrecorded, rec
      <4> QED BY <2>1, <3>2, <4>1 DEF LastCopied
    <3> QED BY <3>1, <3>2
  <2>5. ASSUME NEW k, CreationsIn(emitted'[r], k) # {} PROVE k \in DOMAIN written[r]
    BY <1>0, <2>1, <2>3, <2>5 DEF WrittenInv
  <2> QED BY <1>1, <2>4, <2>5 DEF WrittenInv
<1>10. written' = [written EXCEPT ![r] = written'[r]]
  BY <1>0, <1>1
<1> QED BY <1>1, <1>8, <1>9, <1>10, MoverKeepsProvenance DEF Stands

LEMMA CommitKeepsProvenance ==
    ASSUME TypeInv, ChainInv, ProvenanceInv, NEW r \in Runners, pc[r] = "checkpoint", CommitBatch(r),
           CkptInv'
    PROVE  ProvenanceInv'
PROOF
<1> USE DEF Goto
<1>0. WrittenInv(r) /\ written = [q \in Runners |-> written[q]]
  BY DEF ProvenanceInv
<1>1. /\ table' = [k \in Keys |-> RowSeen(r, k)]
      /\ lineage' = lineage \cup emitted[r]
      /\ \A q \in Runners \ {r} : Stands(q)
      /\ written' = [written EXCEPT ![r] = Nothing]
      /\ written'[r] = Nothing /\ emitted'[r] = {}
      /\ pc'[r] \in {"read", "finalize"}
      /\ call'[r].op = call[r].op /\ call'[r].i = call[r].i /\ call[r].op \in Ops
  BY <1>0 DEF CommitBatch, EndTx, LineageSeen, NextBatch, Stands, TypeInv, CallStates
<1>2. pc'[r] = "read" => call'[r].i \in 1..Len(Batch(call'[r].op, call'[r].b))
  <2> SUFFICES ASSUME pc'[r] = "read" PROVE call'[r].i \in 1..Len(Batch(call'[r].op, call'[r].b))
    OBVIOUS
  <2>1. call'[r].b \in 1..NumBatches(call'[r].op)
    BY DEF CkptInv, RunnerInv, InBatch
  <2>2. call'[r].i = 1
    BY <1>1 DEF ProvenanceInv, RecordInv
  <2> QED BY <1>1, <2>1, <2>2, FirstRecord
<1>3. RecordInv(r)' /\ WrittenInv(r)'
  BY <1>1, <1>2, BetweenRecords
<1>4. \A q \in Runners : RecordInv(q)' /\ WrittenInv(q)'
  BY <1>1, <1>3, StandingKeepsRecords DEF ProvenanceInv
<1>5. \A x \in lineage, y \in emitted[r] : x.seq \in Nat /\ y.seq \in Nat /\ x.seq < y.seq
  <2>1. PICK n \in Nat : Seqs(LineageSeen(r)) = 1..n
    BY DEF ChainInv, OneChain, Numbered
  <2>2. \A row \in LineageSeen(r) : row.seq \in 1..n
    BY <2>1 DEF Seqs
  <2> QED BY <2>2 DEF ChainInv, LineageSeen
<1>6. ASSUME NEW k \in Keys
      PROVE  IF CreationsIn(lineage', k) = {} THEN table'[k] = NoValue
             ELSE LastCopied(lineage', k, table'[k])
  <2>1. CreationsIn(lineage', k) = CreationsIn(lineage, k) \cup CreationsIn(emitted[r], k)
    BY <1>1 DEF CreationsIn
  <2>2. CASE k \in DOMAIN written[r]
    <3>1. table'[k] = written[r][k]
      BY <1>1, <2>2 DEF RowSeen
    <3>2. LastCopied(emitted[r], k, table'[k])
      BY <1>0, <2>2, <3>1 DEF WrittenInv, Unrecorded
    <3>3. LastCopied(lineage', k, table'[k])
      <4>1. LastCopied(lineage \cup emitted[r], k, table'[k])
        BY <1>5, <3>2, NewestIsBehind
      <4> QED BY <1>1, <4>1
    <3>4. CreationsIn(lineage', k) # {}
      BY <3>3 DEF LastCopied
    <3> QED BY <3>3, <3>4
  <2>3. CASE k \notin DOMAIN written[r]
    <3>1. table'[k] = table[k]
      BY <1>1, <2>3 DEF RowSeen
    <3>2. CreationsIn(emitted[r], k) = {}
      BY <1>0, <2>3 DEF WrittenInv
    <3>3. CreationsIn(lineage', k) = CreationsIn(lineage, k)
      BY <2>1, <3>2
    <3> QED BY <3>1, <3>3 DEF ProvenanceInv, LastCopied
  <2> QED BY <2>2, <2>3
<1>7. /\ written' = [q \in Runners |-> written'[q]]
      /\ table' = [k \in Keys |-> table'[k]]
  <2>1. table' = [k \in Keys |-> table'[k]]
    BY <1>1
  <2>2. written' = [q \in Runners |-> written'[q]]
    BY <1>0, <1>1
  <2> QED BY <2>1, <2>2
<1> QED BY <1>4, <1>6, <1>7 DEF ProvenanceInv

LEMMA ProvenanceKept ==
    TypeInv /\ JobInv /\ CkptInv /\ CkptInv' /\ ChainInv /\ ProvenanceInv /\ [Next]_vars => ProvenanceInv'
PROOF
<1> SUFFICES ASSUME TypeInv, JobInv, CkptInv, CkptInv', ChainInv, ProvenanceInv, [Next]_vars
             PROVE  ProvenanceInv'
  OBVIOUS
<1>1. ASSUME NEW r \in Runners, Step(r) \/ StatementFails(r) \/ Abandon(r) PROVE ProvenanceInv'
  <2>1. CASE RollBack(r)
    BY <2>1, QuietStepsKeepProvenance
  <2>2. CASE EmitAppend(r) /\ ~RollBack(r)
    BY <2>2, AppendKeepsProvenance
  <2>3. CASE Checkpoint(r) /\ ~RollBack(r)
    BY <2>3, CommitKeepsProvenance DEF Checkpoint
  <2>4. CASE Resume(r)
    BY <2>4, ResumeKeepsProvenance
  <2>5. CASE UpsertRead(r) \/ UpsertWrite(r) \/ EmitHead(r)
    BY <2>5, RecordStepsKeepProvenance
  <2>6. CASE \/ BeginRead(r) \/ BeginPut(r) \/ Announce(r) \/ NoAdapter(r) \/ MarkFailed(r) \/ HandBackFailure(r)
             \/ Abandon(r) \/ Finalize(r) \/ HandBack(r)
    BY <2>6, QuietStepsKeepProvenance
  <2>7. DeadlockVictim(r) \/ StatementFails(r) => RollBack(r)
    BY DEF DeadlockVictim, StatementFails
  <2> QED BY <1>1, <2>1, <2>2, <2>3, <2>4, <2>5, <2>6, <2>7 DEF Step
<1>2. ASSUME NEW r \in Runners, NEW op \in Ops, Request(r, op) PROVE ProvenanceInv'
  BY <1>2, QuietStepsKeepProvenance
<1>3. CASE UNCHANGED vars
  <2>1. \A q \in Runners : Stands(q) /\ RecordInv(q) /\ WrittenInv(q)
    BY <1>3 DEF vars, Stands, ProvenanceInv
  <2>2. \A q \in Runners : RecordInv(q)' /\ WrittenInv(q)'
    BY <2>1, StandingKeepsRecords
  <2>3. UNCHANGED <<table, lineage, written>>
    BY <1>3 DEF vars
  <2> QED BY <2>2, <2>3 DEF ProvenanceInv
<1> QED BY <1>1, <1>2, <1>3 DEF Next, Rest

(***************************************************************************)
(* The newest creation LastCopied speaks of is the one Latest finds.       *)
(***************************************************************************)
LEMMA CopiedIsLatest ==
    ASSUME NEW S, Numbered(S), NEW k, NEW val, LastCopied(S, k, val)
    PROVE  Copied(Latest(CreationsIn(S, k))) = val
PROOF
<1> DEFINE C == CreationsIn(S, k)
<1>1. PICK row \in C : (\A other \in C : other.seq <= row.seq) /\ Copied(row) = val
  BY DEF LastCopied
<1>2. PICK n \in Nat : Seqs(S) = 1..n
  BY DEF Numbered
<1>3. C \subseteq S /\ \A x \in S : x.seq \in 1..n
  BY <1>2 DEF CreationsIn, Seqs
<1> HIDE DEF C
<1>4. Latest(C) \in C /\ \A other \in C : other.seq <= Latest(C).seq
  BY <1>1 DEF Latest
<1>5. Latest(C).seq = row.seq
  BY <1>1, <1>3, <1>4
<1>6. Latest(C) = row
  BY <1>1, <1>3, <1>4, <1>5 DEF Numbered
<1> QED BY <1>1, <1>6 DEF C

LEMMA ProvenanceFollows == ChainInv /\ ProvenanceInv => Provenance
PROOF
<1> SUFFICES ASSUME ChainInv, ProvenanceInv, NEW k \in Keys
             PROVE  IF Creations(k) = {} THEN table[k] = NoValue
                    ELSE LET source == Latest(Creations(k)).event.source
                         IN  table[k] = Raw[source[1]][source[2]].val
  BY DEF Provenance
<1>1. Creations(k) = CreationsIn(lineage, k)
  BY DEF Creations, CreationsIn
<1>2. CASE Creations(k) = {}
  BY <1>1, <1>2 DEF ProvenanceInv
<1>3. CASE Creations(k) # {}
  <2>1. Copied(Latest(Creations(k))) = table[k]
    BY <1>1, <1>3, CopiedIsLatest DEF ProvenanceInv, ChainInv, OneChain
  <2> QED BY <1>3, <2>1 DEF Copied
<1> QED BY <1>2, <1>3

-----------------------------------------------------------------------------
(***************************************************************************)
(* Every record once: what is committed.                                   *)
(***************************************************************************)
\* import_job rows are added and finished; a row that is added has no checkpoint yet.
JobsGrow ==
    \A j \in Jobs :
        \/ jobs[j] \in JobRows /\ jobs'[j] \in JobRows /\ jobs'[j].op = jobs[j].op
        \/ jobs[j] \notin JobRows /\ (jobs'[j] \in JobRows => ckpt[j] = {})

LEMMA JobsOnlyGrow ==
    ASSUME TypeInv, JobInv, CkptInv, [Next]_vars
    PROVE  JobsGrow
PROOF
<1> USE DEF Goto, NoTxStep, Quiet, store
<1>1. CASE UNCHANGED jobs
  BY <1>1 DEF JobsGrow
<1>2. ASSUME NEW r \in Runners, BeginPut(r) \/ Finalize(r) PROVE JobsGrow
  <2> DEFINE c == call[r]
  <2>1. c.op \in Ops /\ c.job \in Jobs
    BY <1>2 DEF BeginPut, Finalize, JobInv, HasRow, TypeInv, CallStates
  <2>2. PICK s \in {"in_progress", "applied"} : jobs' = [jobs EXCEPT ![c.job] = [op |-> c.op, state |-> s]]
    BY <1>2 DEF BeginPut, Finalize
  <2>3. jobs'[c.job] = [op |-> c.op, state |-> s] /\ \A j \in Jobs \ {c.job} : jobs'[j] = jobs[j]
    BY <2>1, <2>2 DEF TypeInv
  <2>4. jobs'[c.job] \in JobRows /\ jobs'[c.job].op = c.op
    BY <2>1, <2>3 DEF JobRows
  <2>5. \/ jobs[c.job] = NoJobRow
        \/ jobs[c.job] \in JobRows /\ jobs[c.job].op = c.op
    BY <1>2 DEF BeginPut, Finalize, JobInv, HasRow
  <2>6. \A j \in Jobs : jobs[j] \in JobRows \cup {NoJobRow}
    BY DEF TypeInv
  <2>7. jobs[c.job] = NoJobRow => ckpt[c.job] = {}
    BY <2>1 DEF CkptInv, CheckpointsInv
  <2> HIDE DEF c
  <2> QED BY <2>1, <2>3, <2>4, <2>5, <2>6, <2>7, RowsDiffer DEF JobsGrow
<1>3. ASSUME NEW r \in Runners, Step(r), ~BeginPut(r), ~Finalize(r) PROVE UNCHANGED jobs
  BY <1>3 DEF Step, BeginRead, Announce, NoAdapter, Resume, UpsertRead, UpsertWrite, EmitHead, EmitAppend,
      Checkpoint, CommitBatch, DeadlockVictim, RollBack, MarkFailed, HandBackFailure, HandBack
<1>4. ASSUME NEW r \in Runners, StatementFails(r) \/ Abandon(r) \/ \E op \in Ops : Request(r, op)
      PROVE  UNCHANGED jobs
  BY <1>4 DEF StatementFails, RollBack, Abandon, Request
<1> QED BY <1>1, <1>2, <1>3, <1>4 DEF Next, Rest, vars

LEMMA StandingKeepsCommitted ==
    ASSUME TypeInv', CommittedInv, JobsGrow, UNCHANGED <<lineage, ckpt>>
    PROVE  CommittedInv'
PROOF
<1>1. \A row \in lineage' : row.event.job \in Jobs /\ jobs'[row.event.job] \in JobRows
  BY DEF CommittedInv, JobsGrow
<1>2. ASSUME NEW j \in Jobs, jobs'[j] \in JobRows,
             NEW b \in 1..NumBatches(jobs'[j].op), NEW i \in 1..Len(Batch(jobs'[j].op, b))
      PROVE  IF b \in ckpt'[j] THEN Once(RowsOf(lineage', j, Batch(jobs'[j].op, b)[i]))
             ELSE RowsOf(lineage', j, Batch(jobs'[j].op, b)[i]) = {}
  <2>1. CASE jobs[j] \in JobRows
    <3>1. jobs'[j].op = jobs[j].op
      BY <2>1 DEF JobsGrow
    <3> QED BY <1>2, <2>1, <3>1 DEF CommittedInv
  <2>2. CASE jobs[j] \notin JobRows
    <3>1. ckpt'[j] = {}
      BY <1>2, <2>2 DEF JobsGrow
    <3>2. \A row \in lineage' : row.event.job # j
      BY <2>2 DEF CommittedInv
    <3> QED BY <3>1, <3>2 DEF RowsOf
  <2> QED BY <2>1, <2>2
<1> QED BY <1>1, <1>2 DEF CommittedInv

(***************************************************************************)
(* The commit of a batch adds one row for each of its records and no       *)
(* other.                                                                  *)
(***************************************************************************)
LEMMA CommitKeepsOnce ==
    ASSUME TypeInv, JobInv, CkptInv, OnceInv, NEW r \in Runners, pc[r] = "checkpoint",
           ~CheckpointTaken(r), CommitBatch(r)
    PROVE  CommittedInv'
PROOF
<1> DEFINE c == call[r]
           batch == Batch(c.op, c.b)
<1>1. /\ lineage' = lineage \cup emitted[r]
      /\ UNCHANGED jobs
      /\ ckpt' = [ckpt EXCEPT ![c.job] = ckpt[c.job] \cup {c.b}]
  BY DEF CommitBatch, LineageSeen, TypeInv
<1>2. c.op \in Ops /\ HasRow(c.op, c.job) /\ c.b \in 1..NumBatches(c.op) /\ c.b \notin ckpt[c.job]
  BY DEF TypeInv, CallStates, JobInv, CkptInv, RunnerInv, InBatch, CheckpointTaken
<1>3. /\ ckpt'[c.job] = ckpt[c.job] \cup {c.b}
      /\ \A j \in Jobs \ {c.job} : ckpt'[j] = ckpt[j]
  BY <1>1, <1>2 DEF TypeInv, HasRow
<1>4. /\ \A row \in emitted[r] :
             row.event.job = c.job /\ \E n \in 1..Len(batch) : row.event.source = batch[n].ref
      /\ \A n \in 1..Len(batch) : Once(RowsOf(emitted[r], c.job, batch[n]))
  <2>1. Len(batch) \in 1..BatchSize /\ BatchSize \in Nat
    BY <1>2, BatchRecords, ImportAssumption
  <2>2. \A n \in 1..Len(batch) : n <= Done(r)
    BY <2>1 DEF Done
  <2> QED BY <2>2 DEF OnceInv, EmittedInv, InBatch
<1>5. \A row \in lineage' : row.event.job \in Jobs /\ jobs'[row.event.job] \in JobRows
  BY <1>1, <1>2, <1>4 DEF OnceInv, CommittedInv, HasRow
<1>6. ASSUME NEW j \in Jobs, jobs[j] \in JobRows,
             NEW b \in 1..NumBatches(jobs[j].op), NEW i \in 1..Len(Batch(jobs[j].op, b))
      PROVE  IF b \in ckpt'[j] THEN Once(RowsOf(lineage', j, Batch(jobs[j].op, b)[i]))
             ELSE RowsOf(lineage', j, Batch(jobs[j].op, b)[i]) = {}
  <2> DEFINE rec == Batch(jobs[j].op, b)[i]
  <2>1. RowsOf(lineage', j, rec) = RowsOf(lineage, j, rec) \cup RowsOf(emitted[r], j, rec)
    BY <1>1 DEF RowsOf
  <2>2. IF b \in ckpt[j] THEN Once(RowsOf(lineage, j, rec)) ELSE RowsOf(lineage, j, rec) = {}
    BY <1>6 DEF OnceInv, CommittedInv
  <2>3. CASE j = c.job /\ b = c.b
    <3>1. jobs[j].op = c.op
      BY <1>2, <2>3 DEF HasRow
    <3>2. rec = batch[i] /\ i \in 1..Len(batch)
      BY <2>3, <3>1
    <3>3. Once(RowsOf(emitted[r], j, rec))
      BY <1>4, <2>3, <3>2
    <3>4. RowsOf(lineage, j, rec) = {}
      BY <1>2, <2>2, <2>3
    <3>5. Once(RowsOf(lineage', j, rec))
      BY <2>1, <3>3, <3>4
    <3> QED BY <1>3, <2>3, <3>5
  <2>4. CASE ~(j = c.job /\ b = c.b)
    <3>1. RowsOf(emitted[r], j, rec) = {}
      <4>1. SUFFICES ASSUME NEW row \in emitted[r], row.event.job = j, row.event.source = rec.ref
                     PROVE  FALSE
        BY DEF RowsOf
      <4>2. j = c.job
        BY <1>4, <4>1
      <4>3. jobs[j].op = c.op
        BY <1>2, <4>2 DEF HasRow
      <4>4. PICK n \in 1..Len(batch) : row.event.source = batch[n].ref
        BY <1>4
      <4>5. batch[n].ref = Batch(c.op, b)[i].ref
        BY <4>1, <4>3, <4>4
      <4>6. b \in 1..NumBatches(c.op) /\ i \in 1..Len(Batch(c.op, b))
        BY <4>3
      <4>7. c.b = b
        BY <1>2, <4>5, <4>6, RecordsDiffer
      <4> QED BY <2>4, <4>2, <4>7
    <3>2. b \in ckpt'[j] <=> b \in ckpt[j]
      BY <1>3, <2>4
    <3>3. RowsOf(lineage', j, rec) = RowsOf(lineage, j, rec)
      BY <2>1, <3>1
    <3> QED BY <2>2, <3>2, <3>3
  <2> QED BY <2>3, <2>4
<1> QED BY <1>1, <1>5, <1>6 DEF CommittedInv

-----------------------------------------------------------------------------
(***************************************************************************)
(* Every record once: what an open transaction has recorded.               *)
(***************************************************************************)
LEMMA StandingKeepsEmitted ==
    ASSUME NEW q, EmittedInv(q), pc'[q] = pc[q], call'[q] = call[q], emitted'[q] = emitted[q]
    PROVE  EmittedInv(q)'
PROOF
<1> DEFINE batch == Batch(call[q].op, call[q].b)
<1>1. Done(q)' = Done(q) /\ batch' = batch
  BY DEF Done
<1>2. pc'[q] \notin InBatch => emitted'[q] = {}
  BY DEF EmittedInv
<1>3. \A row \in emitted'[q] :
          row.event.job = call'[q].job /\ \E n \in 1..Len(batch') : row.event.source = batch'[n].ref
  BY <1>1 DEF EmittedInv
<1>4. pc'[q] \in InBatch => \A n \in 1..Len(batch') :
          IF n <= Done(q)' THEN Once(RowsOf(emitted'[q], call'[q].job, batch'[n]))
          ELSE RowsOf(emitted'[q], call'[q].job, batch'[n]) = {}
  BY <1>1 DEF EmittedInv
<1> QED BY <1>2, <1>3, <1>4 DEF EmittedInv

LEMMA NothingEmitted ==
    ASSUME NEW r \in Runners, emitted'[r] = {},
           \/ pc'[r] \notin InBatch
           \/ pc'[r] = "read" /\ call'[r].i = 1
    PROVE  EmittedInv(r)'
PROOF
<1>1. CASE pc'[r] \notin InBatch
  BY <1>1 DEF EmittedInv
<1>2. CASE pc'[r] = "read" /\ call'[r].i = 1
  <2>1. Done(r)' = 0
    BY <1>2 DEF Done
  <2>2. \A n \in 1..Len(Batch(call'[r].op, call'[r].b)) : ~(n <= 0)
    OBVIOUS
  <2>3. \A j, rec : RowsOf({}, j, rec) = {}
    BY DEF RowsOf
  <2> QED BY <1>2, <2>1, <2>2, <2>3 DEF EmittedInv, InBatch
<1> QED BY <1>1, <1>2

\* The steps that leave what r has emitted alone, or throw it away.
LEMMA OtherStepsKeepEmitted ==
    ASSUME TypeInv, ProvenanceInv, OnceInv, NEW r \in Runners,
           \/ Step(r) /\ ~(EmitAppend(r) /\ ~RollBack(r))
           \/ StatementFails(r) \/ Abandon(r)
           \/ \E op \in Ops : Request(r, op)
    PROVE  EmittedInv(r)'
PROOF
<1> USE DEF Goto, NoTxStep, Quiet, store
<1>0. EmittedInv(r) /\ call[r] \in CallStates
  BY DEF OnceInv, TypeInv
<1>1. ASSUME emitted'[r] = emitted[r], pc[r] \notin InBatch, pc'[r] \notin InBatch
      PROVE  EmittedInv(r)'
  BY <1>0, <1>1, NothingEmitted DEF EmittedInv
<1>2. CASE \/ \E op \in Ops : Request(r, op)
           \/ BeginPut(r) \/ Announce(r) \/ NoAdapter(r) \/ MarkFailed(r) \/ Finalize(r)
  <2>1. emitted'[r] = emitted[r] /\ pc[r] \notin InBatch /\ pc'[r] \notin InBatch
    BY <1>2 DEF Request, BeginPut, Announce, NoAdapter, MarkFailed, Finalize, InBatch, TypeInv
  <2> QED BY <1>1, <2>1
<1>3. CASE BeginRead(r) \/ HandBackFailure(r) \/ HandBack(r)
  <2>1. emitted'[r] = emitted[r] /\ pc[r] \notin InBatch /\ pc'[r] \notin InBatch
    BY <1>3 DEF BeginRead, HandBackFailure, HandBack, Answer, InBatch, TypeInv
  <2> QED BY <1>1, <2>1
<1>4. CASE RollBack(r) \/ Abandon(r)
  <2>1. emitted'[r] = {} /\ pc'[r] \notin InBatch
    BY <1>4 DEF RollBack, Abandon, EndTx, Answer, InBatch, TypeInv
  <2> QED BY <2>1, NothingEmitted
<1>5. CASE Resume(r)
  <2>1. emitted'[r] = emitted[r] /\ pc[r] \notin InBatch /\ pc'[r] \in {"read", "finalize"} /\ call'[r].i = 1
    BY <1>5 DEF Resume, NextBatch, InBatch, TypeInv, CallStates
  <2>2. emitted'[r] = {} /\ (pc'[r] \notin InBatch \/ (pc'[r] = "read" /\ call'[r].i = 1))
    BY <1>0, <2>1 DEF EmittedInv, InBatch
  <2> QED BY <2>2, NothingEmitted
<1>6. CASE UpsertRead(r) \/ UpsertWrite(r) \/ EmitHead(r)
  <2>1. /\ emitted'[r] = emitted[r] /\ pc[r] \in AtRecord /\ pc'[r] \in AtRecord
        /\ call'[r].op = call[r].op /\ call'[r].b = call[r].b /\ call'[r].i = call[r].i
        /\ call'[r].job = call[r].job
    BY <1>0, <1>6 DEF UpsertRead, UpsertWrite, EmitHead, AtRecord, TypeInv, CallStates
  <2>2. Done(r)' = Done(r)
    BY <2>1 DEF Done, AtRecord
  <2>3. pc[r] \in InBatch /\ pc'[r] \in InBatch
    BY <2>1 DEF AtRecord, InBatch
  <2> QED BY <1>0, <2>1, <2>2, <2>3 DEF EmittedInv
<1>7. CASE CommitBatch(r) /\ pc[r] = "checkpoint"
  <2>1. emitted'[r] = {} /\ pc'[r] \in {"read", "finalize"} /\ call'[r].i = call[r].i
    BY <1>0, <1>7 DEF CommitBatch, EndTx, NextBatch, TypeInv, CallStates
  <2>2. call[r].i = 1
    BY <1>7 DEF ProvenanceInv, RecordInv
  <2>3. pc'[r] \notin InBatch \/ (pc'[r] = "read" /\ call'[r].i = 1)
    BY <2>1, <2>2 DEF InBatch
  <2> QED BY <2>1, <2>3, NothingEmitted
<1>8. CASE StatementFails(r) \/ DeadlockVictim(r) \/ Checkpoint(r)
  BY <1>4, <1>7, <1>8 DEF StatementFails, DeadlockVictim, Checkpoint
<1> QED BY <1>2, <1>3, <1>4, <1>5, <1>6, <1>8 DEF Step

\* The lineage row of one more record is inserted.
LEMMA AppendKeepsEmitted ==
    ASSUME TypeInv, CkptInv, ProvenanceInv, OnceInv, NEW r \in Runners, EmitAppend(r), ~RollBack(r)
    PROVE  EmittedInv(r)'
PROOF
<1> USE DEF Goto, NoTxStep, Quiet, store
<1> DEFINE c == call[r]
           batch == Batch(c.op, c.b)
           new == NextRow(head[r], EventOf(r))
<1>0. RecordInv(r) /\ EmittedInv(r) /\ call[r] \in CallStates
  BY DEF ProvenanceInv, OnceInv, TypeInv
<1>1. emitted'[r] = emitted[r] \cup {new} /\ pc[r] = "append"
  BY DEF EmitAppend, TypeInv
<1>2. c.i \in 1..Len(batch) /\ c.b \in 1..NumBatches(c.op) /\ c.op \in Ops
  BY <1>0, <1>1 DEF RecordInv, CkptInv, RunnerInv, InBatch, AtRecord, CallStates
<1>3. Len(batch) \in Nat
  <2>1. Len(batch) \in 1..BatchSize /\ BatchSize \in Nat
    BY <1>2, BatchRecords, ImportAssumption
  <2> QED BY <2>1
<1>4. new.event.source = batch[c.i].ref /\ new.event.job = c.job
  BY DEF NextRow, EventOf, Current
<1>5. Done(r) = c.i - 1
  BY <1>1 DEF Done
<1>6. /\ call'[r].op = c.op /\ call'[r].b = c.b /\ call'[r].job = c.job
      /\ pc'[r] \in InBatch
      /\ Done(r)' = c.i
  <2>1. CASE c.i = Len(batch)
    <3>1. pc'[r] = "checkpoint" /\ call' = [call EXCEPT ![r] = [call[r] EXCEPT !.i = 1]]
      BY <1>1, <2>1 DEF EmitAppend, TypeInv
    <3>2. call'[r].op = c.op /\ call'[r].b = c.b /\ call'[r].job = c.job
      BY <1>0, <3>1 DEF TypeInv, CallStates
    <3>3. Done(r)' = Len(Batch(call'[r].op, call'[r].b))
      BY <3>1 DEF Done
    <3> QED BY <2>1, <3>1, <3>2, <3>3 DEF InBatch
  <2>2. CASE c.i # Len(batch)
    <3>1. pc'[r] = "read" /\ call' = [call EXCEPT ![r] = [call[r] EXCEPT !.i = call[r].i + 1]]
      BY <1>1, <2>2 DEF EmitAppend, TypeInv
    <3>2. call'[r].op = c.op /\ call'[r].b = c.b /\ call'[r].job = c.job /\ call'[r].i = c.i + 1
      BY <1>0, <3>1 DEF TypeInv, CallStates
    <3>3. Done(r)' = call'[r].i - 1
      BY <3>1 DEF Done
    <3> QED BY <1>2, <1>3, <3>1, <3>2, <3>3 DEF InBatch
  <2> QED BY <2>1, <2>2
<1> HIDE DEF new, c
<1>7. ASSUME NEW row \in emitted'[r]
      PROVE  row.event.job = c.job /\ \E n \in 1..Len(batch) : row.event.source = batch[n].ref
  <2>1. CASE row = new
    BY <1>2, <1>4, <2>1
  <2>2. CASE row \in emitted[r]
    BY <1>0, <2>2 DEF EmittedInv, c
  <2> QED BY <1>1, <2>1, <2>2
<1>8. ASSUME NEW n \in 1..Len(batch)
      PROVE  IF n <= c.i THEN Once(RowsOf(emitted'[r], c.job, batch[n]))
             ELSE RowsOf(emitted'[r], c.job, batch[n]) = {}
  <2>1. IF n <= c.i - 1 THEN Once(RowsOf(emitted[r], c.job, batch[n]))
        ELSE RowsOf(emitted[r], c.job, batch[n]) = {}
    BY <1>0, <1>1, <1>5 DEF EmittedInv, InBatch, c
  <2>2. CASE n = c.i
    <3>1. ~(n <= c.i - 1) /\ n <= c.i
      BY <1>2, <1>3, <2>2
    <3>2. RowsOf(emitted[r], c.job, batch[n]) = {}
      BY <2>1, <3>1
    <3>3. RowsOf(emitted'[r], c.job, batch[n]) = RowsOf(emitted[r], c.job, batch[n]) \cup {new}
      BY <1>1, <1>4, <2>2 DEF RowsOf
    <3>4. Once(RowsOf(emitted'[r], c.job, batch[n]))
      BY <3>2, <3>3 DEF Once
    <3> QED BY <3>1, <3>4
  <2>3. CASE n # c.i
    <3>1. new.event.source # batch[n].ref
      BY <1>2, <1>4, <2>3, RecordsDiffer
    <3>2. RowsOf(emitted'[r], c.job, batch[n]) = RowsOf(emitted[r], c.job, batch[n])
      BY <1>1, <3>1 DEF RowsOf
    <3>3. (n <= c.i) <=> (n <= c.i - 1)
      BY <1>2, <1>3, <2>3
    <3> QED BY <2>1, <3>2, <3>3
  <2> QED BY <2>2, <2>3
<1> HIDE DEF batch
<1>9. batch = Batch(call'[r].op, call'[r].b)
  BY <1>6 DEF batch
<1> QED BY <1>6, <1>7, <1>8, <1>9 DEF EmittedInv

LEMMA OnceKept ==
    TypeInv /\ TypeInv' /\ JobInv /\ CkptInv /\ ProvenanceInv /\ OnceInv /\ [Next]_vars => OnceInv'
PROOF
<1> SUFFICES ASSUME TypeInv, TypeInv', JobInv, CkptInv, ProvenanceInv, OnceInv, [Next]_vars
             PROVE  OnceInv'
  OBVIOUS
<1> USE DEF Goto, NoTxStep, Quiet, store
<1>1. JobsGrow
  BY JobsOnlyGrow
<1>2. UNCHANGED <<lineage, ckpt>> => CommittedInv'
  BY <1>1, StandingKeepsCommitted DEF OnceInv
<1>3. ASSUME NEW r \in Runners, EmittedInv(r)',
             \A q \in Runners \ {r} : pc'[q] = pc[q] /\ call'[q] = call[q] /\ emitted'[q] = emitted[q]
      PROVE  \A q \in Runners : EmittedInv(q)'
  BY <1>3, StandingKeepsEmitted DEF OnceInv
<1>4. ASSUME NEW r \in Runners,
             \/ Step(r) \/ StatementFails(r) \/ Abandon(r)
             \/ \E op \in Ops : Request(r, op)
      PROVE  OnceInv'
  <2>1. EmittedInv(r)'
    BY <1>4, OtherStepsKeepEmitted, AppendKeepsEmitted
  <2>2. ASSUME NEW q \in Runners \ {r}
        PROVE  pc'[q] = pc[q] /\ call'[q] = call[q] /\ emitted'[q] = emitted[q]
    <3>1. CASE \/ StatementFails(r) \/ Abandon(r) \/ BeginRead(r) \/ BeginPut(r) \/ Announce(r) \/ NoAdapter(r)
               \/ \E op \in Ops : Request(r, op)
      BY <3>1 DEF StatementFails, RollBack, Abandon, BeginRead, BeginPut, Announce, NoAdapter, Request, Answer,
          EndTx, TypeInv
    <3>2. CASE \/ Resume(r) \/ UpsertRead(r) \/ UpsertWrite(r) \/ EmitHead(r) \/ EmitAppend(r)
      BY <3>2 DEF Resume, UpsertRead, UpsertWrite, EmitHead, EmitAppend, RollBack, EndTx, TypeInv
    <3>3. CASE \/ Checkpoint(r) \/ DeadlockVictim(r) \/ MarkFailed(r) \/ HandBackFailure(r)
               \/ Finalize(r) \/ HandBack(r)
      BY <3>3 DEF Checkpoint, CommitBatch, DeadlockVictim, RollBack, MarkFailed, HandBackFailure,
          Finalize, HandBack, Answer, EndTx, TypeInv
    <3> QED BY <1>4, <3>1, <3>2, <3>3 DEF Step
  <2>3. CommittedInv'
    <3>1. CASE Checkpoint(r) /\ ~RollBack(r)
      BY <3>1, CommitKeepsOnce DEF Checkpoint
    <3>2. CASE ~(Checkpoint(r) /\ ~RollBack(r))
      <4>1. UNCHANGED <<lineage, ckpt>>
        BY <1>4, <3>2 DEF Step, StatementFails, RollBack, Abandon, BeginRead, BeginPut, Announce, NoAdapter,
            Request, Resume, UpsertRead, UpsertWrite, EmitHead, EmitAppend, DeadlockVictim, MarkFailed,
            HandBackFailure, Finalize, HandBack
      <4> QED BY <1>2, <4>1
    <3> QED BY <3>1, <3>2
  <2>4. \A q \in Runners : EmittedInv(q)'
    BY <1>3, <2>1, <2>2
  <2> QED BY <2>3, <2>4 DEF OnceInv
<1>5. CASE UNCHANGED vars
  <2>1. UNCHANGED <<lineage, ckpt>> /\ \A q \in Runners : pc'[q] = pc[q] /\ call'[q] = call[q] /\ emitted'[q] = emitted[q]
    BY <1>5 DEF vars
  <2>2. \A q \in Runners : EmittedInv(q)'
    BY <2>1, StandingKeepsEmitted DEF OnceInv
  <2> QED BY <1>2, <2>1, <2>2 DEF OnceInv
<1> QED BY <1>4, <1>5 DEF Next, Rest

LEMMA OnceFollows == TypeInv /\ OnceInv => BatchOnce
PROOF
<1> SUFFICES ASSUME TypeInv, OnceInv, NEW j \in Jobs, jobs[j] # NoJobRow,
                    NEW b \in 1..NumBatches(jobs[j].op), NEW i \in 1..Len(Batch(jobs[j].op, b))
             PROVE  Cardinality(LineageOf(j, Batch(jobs[j].op, b)[i])) = (IF b \in ckpt[j] THEN 1 ELSE 0)
  BY DEF BatchOnce
<1> DEFINE rows == LineageOf(j, Batch(jobs[j].op, b)[i])
<1>1. rows = RowsOf(lineage, j, Batch(jobs[j].op, b)[i])
  BY DEF LineageOf, RowsOf
<1>2. jobs[j] \in JobRows
  BY DEF TypeInv
<1>3. CASE b \in ckpt[j]
  <2>1. PICK row : rows = {row}
    BY <1>1, <1>2, <1>3 DEF OnceInv, CommittedInv, Once
  <2>2. Cardinality(rows) = 1
    BY <2>1, FS_Singleton
  <2> QED BY <1>3, <2>2
<1>4. CASE b \notin ckpt[j]
  <2>1. rows = {}
    BY <1>1, <1>2, <1>4 DEF OnceInv, CommittedInv
  <2>2. Cardinality(rows) = 0
    BY <2>1, FS_EmptySet
  <2> QED BY <1>4, <2>2
<1> QED BY <1>3, <1>4

-----------------------------------------------------------------------------
(***************************************************************************)
(* What the refinement needs of numbers and sequences.                     *)
(***************************************************************************)
LEMMA SameInterval ==
    ASSUME NEW m \in Nat, NEW n \in Nat, 1..m = 1..n
    PROVE  m = n
PROOF
<1> SUFFICES ASSUME m # n PROVE FALSE
  OBVIOUS
<1>1. CASE m < n
  <2>1. n \in 1..n /\ n \notin 1..m
    BY <1>1
  <2> QED BY <2>1
<1>2. CASE n < m
  <2>1. m \in 1..m /\ m \notin 1..n
    BY <1>2
  <2> QED BY <2>1
<1> QED BY <1>1, <1>2

\* A nonempty set of places has a last one.
LEMMA Greatest ==
    ASSUME NEW n \in Nat, NEW S \in SUBSET (1..n), S # {}
    PROVE  \E x \in S : \A y \in S : y <= x
PROOF
<1> DEFINE T == {n - x : x \in S}
<1>0. \A x \in S : x \in 1..n /\ n - x \in Nat
  OBVIOUS
<1>1. T \subseteq Nat /\ T # {}
  BY <1>0
<1>2. PICK d \in T : \A e \in T : <<e, d>> \notin OpToRel(<, Nat)
  BY <1>1, WFMin, NatLessThanWellFounded, Zenon
<1>3. PICK x \in S : d = n - x
  BY <1>2
<1>4. ASSUME NEW y \in S, ~(y <= x) PROVE FALSE
  <2>1. n - y \in T
    OBVIOUS
  <2>2. n - y \in Nat /\ d \in Nat /\ n - y < d
    BY <1>0, <1>3, <1>4
  <2>3. <<n - y, d>> \in OpToRel(<, Nat)
    BY <2>2, Zenon DEF OpToRel
  <2> QED BY <1>2, <2>1, <2>3, Zenon
<1> QED BY <1>4

\* A function on 1..n is a sequence of length n.
LEMMA FunctionIsSeq ==
    ASSUME NEW n \in Nat, NEW S, NEW f \in [1..n -> S]
    PROVE  f \in Seq(S) /\ Len(f) = n
PROOF
<1>1. f \in Seq(S)
  BY SeqDef
<1>2. Len(f) \in Nat /\ DOMAIN f = 1..Len(f)
  BY <1>1, LenProperties
<1>3. 1..Len(f) = 1..n
  BY <1>2
<1>4. Len(f) = n
  BY <1>2, <1>3, SameInterval
<1> QED BY <1>1, <1>4

\* A sequence that has the elements of two others, one behind the other, is their concatenation.
LEMMA BehindEachOther ==
    ASSUME NEW S, NEW f \in Seq(S), NEW g \in Seq(S), NEW h \in Seq(S),
           Len(h) = Len(f) + Len(g),
           \A i \in 1..Len(f) : h[i] = f[i],
           \A i \in 1..Len(g) : h[Len(f) + i] = g[i]
    PROVE  h = f \o g
PROOF
<1>1. Len(f) \in Nat /\ Len(g) \in Nat
  BY LenProperties
<1>2. PICK m \in Nat, n \in Nat : m = Len(f) /\ n = Len(g)
  BY <1>1
<1>3. \A i \in 1..(m + n) : h[i] = IF i <= m THEN f[i] ELSE g[i - m]
  <2> SUFFICES ASSUME NEW i \in 1..(m + n) PROVE h[i] = IF i <= m THEN f[i] ELSE g[i - m]
    OBVIOUS
  <2>1. CASE i <= m
    <3>1. i \in 1..m
      BY <2>1
    <3>2. h[i] = f[i]
      BY <1>2, <3>1
    <3> QED BY <2>1, <3>2
  <2>2. CASE ~(i <= m)
    <3>1. i - m \in 1..n /\ i = m + (i - m)
      BY <2>2
    <3>2. h[m + (i - m)] = g[i - m]
      BY <1>2, <3>1
    <3> QED BY <2>2, <3>1, <3>2
  <2> QED BY <2>1, <2>2
<1>4. /\ f \o g \in Seq(S)
      /\ Len(f \o g) = m + n
      /\ \A i \in 1..(m + n) : (f \o g)[i] = IF i <= m THEN f[i] ELSE g[i - m]
  BY <1>2, ConcatProperties
<1>5. \A i \in 1..Len(h) : h[i] = (f \o g)[i]
  BY <1>2, <1>3, <1>4
<1> QED BY <1>2, <1>4, <1>5, SeqEqual

-----------------------------------------------------------------------------
(***************************************************************************)
(* What the contract needs to know of an open batch, and IInv does not     *)
(* say: which place each of its lineage rows will have in the log, and     *)
(* which of its records wrote a row last.                                  *)
(***************************************************************************)
\* The number of committed lineage rows: the seq of the head of the chain.
Size == ChainHead(lineage).seq

\* How many records of its batch r has compared with their row.
Looked(r) == IF pc[r] \in {"head", "append"} THEN call[r].i ELSE Done(r)

\* What the lineage may say of a record that job j copied.
EventsFor(rec, j) ==
    {[source |-> rec.ref, target |-> rec.key, operation |-> o, job |-> j] : o \in {"created", "noop"}}

\* The n-th record of the batch has the n-th place behind the committed rows.
PlacedInv(r) ==
    pc[r] \in InBatch =>
        \A n \in 1..Done(r) : \E row \in emitted[r] :
            /\ row.seq = Size + n
            /\ row.event \in EventsFor(Batch(call[r].op, call[r].b)[n], call[r].job)

\* A row the batch has written holds what the last record for it says.
LastWriteInv(r) ==
    LET batch == Batch(call[r].op, call[r].b) IN
    pc[r] \in InBatch =>
        \A k \in DOMAIN written[r], n \in 1..Looked(r) :
            /\ batch[n].key = k
            /\ \A m \in 1..Looked(r) : batch[m].key = k => m <= n
            => written[r][k] = batch[n].val

OrderInv == \A r \in Runners : PlacedInv(r) /\ LastWriteInv(r)

\* Where a runner is in its batch.
LEMMA DoneInBatch ==
    ASSUME TypeInv, CkptInv, ProvenanceInv, NEW r \in Runners, pc[r] \in InBatch
    PROVE  /\ call[r].op \in Ops /\ call[r].b \in 1..NumBatches(call[r].op)
           /\ Len(Batch(call[r].op, call[r].b)) \in Nat
           /\ Done(r) \in 0..Len(Batch(call[r].op, call[r].b))
           /\ pc[r] \in AtRecord => call[r].i \in 1..Len(Batch(call[r].op, call[r].b)) /\ Done(r) = call[r].i - 1
           /\ pc[r] = "checkpoint" => Done(r) = Len(Batch(call[r].op, call[r].b)) /\ Done(r) # 0
PROOF
<1>1. call[r].op \in Ops /\ call[r].b \in 1..NumBatches(call[r].op)
  BY DEF TypeInv, CallStates, CkptInv, RunnerInv
<1>2. Len(Batch(call[r].op, call[r].b)) \in Nat \ {0}
  <2>1. Len(Batch(call[r].op, call[r].b)) \in 1..BatchSize /\ BatchSize \in Nat
    BY <1>1, BatchRecords, ImportAssumption
  <2> QED BY <2>1
<1>3. pc[r] \in AtRecord => call[r].i \in 1..Len(Batch(call[r].op, call[r].b)) /\ Done(r) = call[r].i - 1
  BY DEF ProvenanceInv, RecordInv, Done, AtRecord
<1>4. pc[r] = "checkpoint" => Done(r) = Len(Batch(call[r].op, call[r].b))
  BY DEF Done
<1>5. pc[r] \in AtRecord \/ pc[r] = "checkpoint"
  BY DEF InBatch, AtRecord
<1> QED BY <1>1, <1>2, <1>3, <1>4, <1>5

(***************************************************************************)
(* What an open transaction has recorded fills the places behind the       *)
(* committed rows, and is of its records only.                             *)
(***************************************************************************)
LEMMA EmittedInOrder ==
    ASSUME TypeInv, CkptInv, ChainInv, ProvenanceInv, OnceInv, NEW r \in Runners, pc[r] \in InBatch, PlacedInv(r)
    PROVE  /\ Size \in Nat /\ Seqs(lineage) = 1..Size
           /\ Seqs(LineageSeen(r)) = 1..(Size + Done(r))
           /\ \A row \in emitted[r] : \E n \in 1..Done(r) :
                  /\ row.seq = Size + n
                  /\ row.event \in EventsFor(Batch(call[r].op, call[r].b)[n], call[r].job)
PROOF
<1> DEFINE batch == Batch(call[r].op, call[r].b)
           At(row, n) == row.seq = Size + n /\ row.event \in EventsFor(batch[n], call[r].job)
<1>1. Size \in Nat /\ Seqs(lineage) = 1..Size
  BY HeadOfChain DEF ChainInv, Size
<1>2. Done(r) \in 0..Len(batch) /\ Len(batch) \in Nat
  BY DoneInBatch
<1>3. EmittedInv(r)
  BY DEF OnceInv
<1>4. ASSUME NEW row \in emitted[r]
      PROVE  \E n \in 1..Done(r) : At(row, n)
  <2>1. PICK n \in 1..Len(batch) : row.event.source = batch[n].ref
    BY <1>3 DEF EmittedInv
  <2>2. row \in RowsOf(emitted[r], call[r].job, batch[n])
    BY <1>3, <2>1 DEF EmittedInv, RowsOf
  <2>3. n \in 1..Done(r) /\ Once(RowsOf(emitted[r], call[r].job, batch[n]))
    <3>1. IF n <= Done(r) THEN Once(RowsOf(emitted[r], call[r].job, batch[n]))
          ELSE RowsOf(emitted[r], call[r].job, batch[n]) = {}
      BY <1>3 DEF EmittedInv
    <3>2. n <= Done(r)
      BY <2>2, <3>1
    <3> QED BY <1>2, <3>1, <3>2
  <2>4. PICK placed \in emitted[r] : At(placed, n)
    BY <2>3 DEF PlacedInv
  <2>5. placed \in RowsOf(emitted[r], call[r].job, batch[n])
    BY <2>4 DEF RowsOf, EventsFor
  <2>6. placed = row
    BY <2>2, <2>3, <2>5 DEF Once
  <2> HIDE DEF At
  <2> QED BY <2>3, <2>4, <2>6
<1>5. ASSUME NEW n \in 1..Done(r) PROVE \E row \in emitted[r] : row.seq = Size + n
  BY <1>5 DEF PlacedInv
<1>6. Seqs(emitted[r]) = {Size + n : n \in 1..Done(r)}
  BY <1>4, <1>5 DEF Seqs
<1>7. Seqs(LineageSeen(r)) = Seqs(lineage) \cup Seqs(emitted[r])
  BY DEF Seqs, LineageSeen
<1>8. Seqs(LineageSeen(r)) = 1..(Size + Done(r))
  <2>1. ASSUME NEW s \in Nat, NEW d \in Nat PROVE 1..s \cup {s + n : n \in 1..d} = 1..(s + d)
    <3>1. ASSUME NEW x \in 1..(s + d), x \notin 1..s PROVE \E n \in 1..d : x = s + n
      <4>1. x - s \in 1..d /\ x = s + (x - s)
        BY <3>1
      <4> QED BY <4>1
    <3>2. \A n \in 1..d : s + n \in 1..(s + d)
      OBVIOUS
    <3>3. 1..s \subseteq 1..(s + d)
      OBVIOUS
    <3> QED BY <3>1, <3>2, <3>3
  <2>2. Done(r) \in Nat
    BY <1>2
  <2> QED BY <1>1, <1>6, <1>7, <2>1, <2>2
<1> QED BY <1>1, <1>4, <1>8

-----------------------------------------------------------------------------
(***************************************************************************)
(* Every step keeps it.                                                    *)
(***************************************************************************)
\* A runner that stands still keeps its places, unless another commits -- and then it has none.
LEMMA StandingKeepsOrder ==
    ASSUME NEW q, PlacedInv(q), LastWriteInv(q), Stands(q), Size' = Size \/ emitted[q] = {}
    PROVE  PlacedInv(q)' /\ LastWriteInv(q)'
PROOF
<1>1. Done(q)' = Done(q) /\ Looked(q)' = Looked(q)
  BY DEF Stands, Done, Looked
<1>2. LastWriteInv(q)'
  BY <1>1 DEF LastWriteInv, Stands
<1>3. CASE Size' = Size
  BY <1>1, <1>2, <1>3 DEF PlacedInv, Stands
<1>4. CASE emitted[q] = {}
  BY <1>1, <1>2, <1>4 DEF PlacedInv, Stands
<1> QED BY <1>3, <1>4

\* At the first record of a batch nothing is recorded yet.
LEMMA NewBatchInOrder ==
    ASSUME NEW r \in Runners, pc'[r] \in InBatch => pc'[r] = "read" /\ call'[r].i = 1 /\ DOMAIN written'[r] = {}
    PROVE  PlacedInv(r)' /\ LastWriteInv(r)'
PROOF
<1>1. CASE pc'[r] \notin InBatch
  BY <1>1 DEF PlacedInv, LastWriteInv
<1>2. CASE pc'[r] \in InBatch
  <2>1. Done(r)' = 0
    BY <1>2 DEF Done
  <2>2. 1..0 = {}
    OBVIOUS
  <2> QED BY <1>2, <2>1, <2>2 DEF PlacedInv, LastWriteInv
<1> QED BY <1>1, <1>2

\* Outside its batches a runner has no row written.
LEMMA NothingWritten ==
    ASSUME ProvenanceInv, OnceInv, NEW r \in Runners, pc[r] \notin InBatch
    PROVE  DOMAIN written[r] = {} /\ emitted[r] = {}
PROOF
<1>1. emitted[r] = {}
  BY DEF OnceInv, EmittedInv
<1>2. ~Unrecorded(r)
  BY DEF Unrecorded, InBatch
<1>3. WrittenInv(r)
  BY DEF ProvenanceInv
<1>4. ASSUME NEW k \in DOMAIN written[r] PROVE FALSE
  <2>1. LastCopied(emitted[r], k, written[r][k])
    BY <1>2, <1>3 DEF WrittenInv
  <2> QED BY <1>1, <2>1 DEF LastCopied, CreationsIn
<1> QED BY <1>1, <1>4

\* The steps outside a batch, and those that end one.
LEMMA EndKeepsOrder ==
    ASSUME TypeInv, ProvenanceInv, OnceInv, NEW r \in Runners,
           \/ \E op \in Ops : Request(r, op)
           \/ BeginRead(r) \/ BeginPut(r) \/ Announce(r) \/ NoAdapter(r) \/ Resume(r) \/ MarkFailed(r)
           \/ HandBackFailure(r) \/ Abandon(r) \/ Finalize(r) \/ HandBack(r) \/ RollBack(r)
           \/ CommitBatch(r) /\ pc[r] = "checkpoint"
    PROVE  PlacedInv(r)' /\ LastWriteInv(r)'
PROOF
<1> USE DEF Goto, NoTxStep, Quiet, store
<1>1. CASE (\E op \in Ops : Request(r, op)) \/ BeginRead(r) \/ BeginPut(r) \/ Announce(r) \/ NoAdapter(r) \/ MarkFailed(r)
  <2>1. pc'[r] \notin InBatch
    BY <1>1 DEF Request, BeginRead, BeginPut, Announce, NoAdapter, MarkFailed, InBatch, TypeInv
  <2> QED BY <2>1, NewBatchInOrder
<1>2. CASE HandBackFailure(r) \/ Abandon(r) \/ Finalize(r) \/ HandBack(r) \/ RollBack(r)
  <2>1. pc'[r] \notin InBatch
    BY <1>2 DEF HandBackFailure, Abandon, Finalize, HandBack, RollBack, Answer, InBatch, TypeInv
  <2> QED BY <2>1, NewBatchInOrder
<1>3. CASE Resume(r)
  <2>1. pc'[r] \in {"read", "finalize"} /\ call'[r].i = 1 /\ UNCHANGED written /\ pc[r] \notin InBatch
    BY <1>3 DEF Resume, NextBatch, InBatch, TypeInv, CallStates
  <2>2. DOMAIN written'[r] = {}
    BY <2>1, NothingWritten
  <2> QED BY <2>1, <2>2, NewBatchInOrder DEF InBatch
<1>4. CASE CommitBatch(r) /\ pc[r] = "checkpoint"
  <2>1. pc'[r] \in {"read", "finalize"} /\ call'[r].i = call[r].i /\ written'[r] = Nothing
    BY <1>4 DEF CommitBatch, EndTx, NextBatch, TypeInv, CallStates, ProvenanceInv
  <2>2. call[r].i = 1
    BY <1>4 DEF ProvenanceInv, RecordInv
  <2> QED BY <2>1, <2>2, NewBatchInOrder DEF InBatch, Nothing
<1> QED BY <1>1, <1>2, <1>3, <1>4

\* The comparison of a record with its row, the write, and the read of the chain head.
LEMMA RecordStepsKeepOrder ==
    ASSUME TypeInv, CkptInv, ProvenanceInv, NEW r \in Runners, PlacedInv(r), LastWriteInv(r),
           UpsertRead(r) \/ UpsertWrite(r) \/ EmitHead(r)
    PROVE  PlacedInv(r)' /\ LastWriteInv(r)'
PROOF
<1> USE DEF Goto, NoTxStep, Quiet, store
<1> DEFINE batch == Batch(call[r].op, call[r].b)
           i == call[r].i
           k0 == batch[i].key
<1>1. /\ UNCHANGED <<lineage, emitted>> /\ pc[r] \in AtRecord /\ pc'[r] \in AtRecord
      /\ call'[r].op = call[r].op /\ call'[r].b = call[r].b /\ call'[r].i = i
      /\ call'[r].job = call[r].job
  <2>1. call[r] \in CallStates
    BY DEF TypeInv
  <2> QED BY <2>1 DEF UpsertRead, UpsertWrite, EmitHead, AtRecord, TypeInv, CallStates
<1>2. pc[r] \in InBatch /\ pc'[r] \in InBatch /\ AtRecord \subseteq InBatch
  BY <1>1 DEF AtRecord, InBatch
<1>3. i \in 1..Len(batch) /\ Len(batch) \in Nat /\ Done(r) = i - 1
  BY <1>1, <1>2, DoneInBatch
<1>4. Done(r)' = Done(r) /\ Size' = Size
  BY <1>1 DEF Done, AtRecord, Size
<1>5. PlacedInv(r)'
  BY <1>1, <1>2, <1>4 DEF PlacedInv
<1>6. \A k \in DOMAIN written[r], n \in 1..Looked(r) :
          batch[n].key = k /\ (\A m \in 1..Looked(r) : batch[m].key = k => m <= n)
          => written[r][k] = batch[n].val
  BY <1>2 DEF LastWriteInv
<1>7. SUFFICES ASSUME NEW k \in DOMAIN written'[r], NEW n \in 1..Looked(r)', batch[n].key = k,
                      \A m \in 1..Looked(r)' : batch[m].key = k => m <= n
               PROVE  written'[r][k] = batch[n].val
  BY <1>1, <1>2, <1>5 DEF LastWriteInv
<1>8. CASE pc[r] \in {"read", "write"} /\ pc'[r] = "head"
  <2>1. Looked(r) = i - 1 /\ Looked(r)' = i
    BY <1>1, <1>3, <1>4, <1>8 DEF Looked
  <2>2. CASE k = k0
    <3>1. n = i
      <4>1. i \in 1..Looked(r)'
        BY <1>3, <2>1
      <4>2. i <= n
        BY <1>7, <2>2, <4>1
      <4> QED BY <1>3, <1>7, <2>1, <4>2
    <3>2. CASE UpsertRead(r)
      <4>1. RowSeen(r, k0) = batch[i].val /\ UNCHANGED written
        BY <1>8, <3>2 DEF UpsertRead, Current, TypeInv
      <4> QED BY <1>7, <2>2, <3>1, <4>1 DEF RowSeen
    <3>3. CASE UpsertWrite(r)
      <4>1. written'[r][k0] = batch[i].val
        BY <1>7, <2>2, <3>3 DEF UpsertWrite, Current, ProvenanceInv
      <4> QED BY <2>2, <3>1, <4>1
    <3> QED BY <1>8, <3>2, <3>3 DEF EmitHead
  <2>3. CASE k # k0
    <3>1. k \in DOMAIN written[r] /\ written'[r][k] = written[r][k]
      <4>1. CASE UpsertRead(r)
        BY <1>7, <4>1 DEF UpsertRead
      <4>2. CASE UpsertWrite(r)
        BY <1>7, <2>3, <4>2 DEF UpsertWrite, Current, ProvenanceInv
      <4> QED BY <1>8, <4>1, <4>2 DEF EmitHead
    <3>2. n \in 1..Looked(r) /\ 1..Looked(r) \subseteq 1..Looked(r)'
      <4>1. n # i
        BY <1>7, <2>3
      <4> QED BY <1>3, <1>7, <2>1, <4>1
    <3> QED BY <1>6, <1>7, <3>1, <3>2
  <2> QED BY <2>2, <2>3
<1>9. CASE ~(pc[r] \in {"read", "write"} /\ pc'[r] = "head")
  <2>1. UNCHANGED written /\ ((pc[r] = "read" /\ pc'[r] = "write") \/ (pc[r] = "head" /\ pc'[r] = "append"))
    <3>1. CASE UpsertRead(r)
      <4>1. pc[r] = "read" /\ pc'[r] \in {"head", "write"} /\ UNCHANGED written
        BY <3>1 DEF UpsertRead, TypeInv
      <4>2. pc'[r] = "write"
        BY <1>9, <4>1
      <4> QED BY <4>1, <4>2
    <3>2. CASE UpsertWrite(r)
      <4>1. pc[r] = "write" /\ pc'[r] = "head"
        BY <3>2 DEF UpsertWrite, TypeInv
      <4> QED BY <1>9, <4>1
    <3>3. CASE EmitHead(r)
      BY <3>3 DEF EmitHead, TypeInv
    <3> QED BY <3>1, <3>2, <3>3
  <2>2. Looked(r)' = Looked(r)
    BY <1>1, <1>4, <2>1 DEF Looked
  <2> QED BY <1>6, <1>7, <2>1, <2>2
<1> QED BY <1>8, <1>9

\* The lineage row of one more record goes to the next place.
LEMMA AppendKeepsOrder ==
    ASSUME TypeInv, CkptInv, ChainInv, ProvenanceInv, OnceInv, NEW r \in Runners,
           PlacedInv(r), LastWriteInv(r), EmitAppend(r), ~RollBack(r)
    PROVE  PlacedInv(r)' /\ LastWriteInv(r)'
PROOF
<1> USE DEF Goto, NoTxStep, Quiet, store
<1> DEFINE c == call[r]
           batch == Batch(c.op, c.b)
           new == NextRow(head[r], EventOf(r))
<1>1. /\ UNCHANGED <<lineage, written>> /\ emitted'[r] = emitted[r] \cup {new} /\ pc[r] = "append"
      /\ ~SeqTaken(r)
  BY DEF EmitAppend, TypeInv
<1>2. c.i \in 1..Len(batch) /\ Len(batch) \in Nat /\ Done(r) = c.i - 1 /\ pc[r] \in InBatch
  <2>1. pc[r] \in InBatch /\ pc[r] \in AtRecord
    BY <1>1 DEF InBatch, AtRecord
  <2> QED BY <2>1, DoneInBatch
<1>3. /\ pc'[r] \in {"read", "checkpoint"}
      /\ call'[r].op = c.op /\ call'[r].b = c.b /\ call'[r].job = c.job
      /\ Done(r)' = c.i
  <2>0. call[r] \in CallStates
    BY DEF TypeInv
  <2>1. CASE c.i = Len(batch)
    <3>1. pc'[r] = "checkpoint" /\ call' = [call EXCEPT ![r] = [call[r] EXCEPT !.i = 1]]
      BY <1>1, <2>1 DEF EmitAppend, TypeInv
    <3>2. call'[r].op = c.op /\ call'[r].b = c.b /\ call'[r].job = c.job
      BY <2>0, <3>1 DEF TypeInv, CallStates
    <3>3. Done(r)' = Len(Batch(call'[r].op, call'[r].b))
      BY <3>1 DEF Done
    <3> QED BY <2>1, <3>1, <3>2, <3>3
  <2>2. CASE c.i # Len(batch)
    <3>1. pc'[r] = "read" /\ call' = [call EXCEPT ![r] = [call[r] EXCEPT !.i = call[r].i + 1]]
      BY <1>1, <2>2 DEF EmitAppend, TypeInv
    <3>2. call'[r].op = c.op /\ call'[r].b = c.b /\ call'[r].job = c.job /\ call'[r].i = c.i + 1
      BY <2>0, <3>1 DEF TypeInv, CallStates
    <3>3. Done(r)' = call'[r].i - 1
      BY <3>1 DEF Done
    <3> QED BY <1>2, <3>1, <3>2, <3>3
  <2> QED BY <2>1, <2>2
<1>4. Size' = Size /\ Size \in Nat
  BY <1>1, <1>2, EmittedInOrder DEF Size
<1>5. new.seq = Size + c.i
  <2>1. Seqs(LineageSeen(r)) = 1..(Size + Done(r)) /\ Seqs(LineageSeen(r)) = 1..head[r].seq /\ head[r].seq \in Nat
    BY <1>1, <1>2, EmittedInOrder, AppendKeepsChain DEF ChainInv, SeqTaken
  <2>2. Size + Done(r) \in Nat
    BY <1>2, <1>4
  <2>3. head[r].seq = Size + Done(r)
    BY <2>1, <2>2, SameInterval
  <2>4. new.seq = head[r].seq + 1
    BY DEF NextRow
  <2> HIDE DEF new
  <2> QED BY <1>2, <1>4, <2>3, <2>4
<1>6. new.event \in EventsFor(batch[c.i], c.job)
  <2>1. new.event = [source |-> batch[c.i].ref, target |-> batch[c.i].key,
                     operation |-> IF c.changed THEN "created" ELSE "noop", job |-> c.job]
    BY DEF NextRow, EventOf, Current
  <2> HIDE DEF new
  <2> QED BY <2>1 DEF EventsFor
<1> HIDE DEF new
<1>7. PlacedInv(r)'
  <2> SUFFICES ASSUME NEW n \in 1..c.i
               PROVE  \E row \in emitted'[r] : row.seq = Size + n /\ row.event \in EventsFor(batch[n], c.job)
    BY <1>3, <1>4 DEF PlacedInv
  <2>1. CASE n = c.i
    BY <1>1, <1>5, <1>6, <2>1
  <2>2. CASE n # c.i
    <3>1. n \in 1..Done(r)
      BY <1>2, <2>2
    <3>2. PICK row \in emitted[r] : row.seq = Size + n /\ row.event \in EventsFor(batch[n], c.job)
      BY <1>2, <3>1 DEF PlacedInv
    <3> QED BY <1>1, <3>2
  <2> QED BY <2>1, <2>2
<1>8. Looked(r)' = Looked(r)
  BY <1>1, <1>3 DEF Looked
<1>9. LastWriteInv(r)'
  BY <1>1, <1>2, <1>3, <1>8 DEF LastWriteInv
<1> QED BY <1>7, <1>9

\* A runner's step leaves the other runners where they are.
LEMMA OthersAreStill ==
    ASSUME TypeInv, ProvenanceInv, NEW r \in Runners,
           Step(r) \/ StatementFails(r) \/ Abandon(r) \/ \E op \in Ops : Request(r, op)
    PROVE  \A q \in Runners \ {r} : Stands(q)
PROOF
<1> USE DEF Goto, NoTxStep, Quiet, store
<1> SUFFICES ASSUME NEW q \in Runners \ {r} PROVE Stands(q)
  OBVIOUS
<1>1. CASE \/ StatementFails(r) \/ Abandon(r) \/ BeginRead(r) \/ BeginPut(r) \/ Announce(r) \/ NoAdapter(r)
           \/ \E op \in Ops : Request(r, op)
  <2>1. CASE StatementFails(r) \/ Abandon(r)
    BY <2>1 DEF StatementFails, RollBack, Abandon, Answer, EndTx, Stands, TypeInv, ProvenanceInv
  <2>2. CASE BeginRead(r)
    BY <2>2 DEF BeginRead, Stands, TypeInv
  <2>3. CASE BeginPut(r) \/ Announce(r) \/ NoAdapter(r) \/ \E op \in Ops : Request(r, op)
    BY <2>3 DEF BeginPut, Announce, NoAdapter, Request, Stands, TypeInv
  <2> QED BY <1>1, <2>1, <2>2, <2>3
<1>2. CASE Resume(r) \/ UpsertRead(r) \/ UpsertWrite(r) \/ EmitHead(r) \/ EmitAppend(r)
  <2>1. CASE Resume(r) \/ UpsertRead(r)
    BY <2>1 DEF Resume, UpsertRead, Stands, TypeInv
  <2>2. CASE UpsertWrite(r) \/ EmitHead(r)
    BY <2>2 DEF UpsertWrite, EmitHead, Stands, TypeInv, ProvenanceInv
  <2>3. CASE EmitAppend(r)
    BY <2>3 DEF EmitAppend, RollBack, EndTx, Stands, TypeInv, ProvenanceInv
  <2> QED BY <1>2, <2>1, <2>2, <2>3
<1>3. CASE Checkpoint(r) \/ DeadlockVictim(r)
  BY <1>3 DEF Checkpoint, CommitBatch, DeadlockVictim, RollBack, EndTx, Stands, TypeInv, ProvenanceInv
<1>4. CASE MarkFailed(r) \/ HandBackFailure(r) \/ Finalize(r) \/ HandBack(r)
  BY <1>4 DEF MarkFailed, HandBackFailure, Finalize, HandBack, Answer, Stands, TypeInv
<1> QED BY <1>1, <1>2, <1>3, <1>4 DEF Step

LEMMA OrderKept ==
    TypeInv /\ JobInv /\ CkptInv /\ ChainInv /\ ProvenanceInv /\ OnceInv /\ OrderInv /\ [Next]_vars => OrderInv'
PROOF
<1> SUFFICES ASSUME TypeInv, JobInv, CkptInv, ChainInv, ProvenanceInv, OnceInv, OrderInv, [Next]_vars
             PROVE  OrderInv'
  OBVIOUS
<1> USE DEF Goto, NoTxStep, Quiet, store
<1>1. ASSUME NEW r \in Runners,
             Step(r) \/ StatementFails(r) \/ Abandon(r) \/ \E op \in Ops : Request(r, op)
      PROVE  OrderInv'
  <2>1. PlacedInv(r)' /\ LastWriteInv(r)'
    <3>1. PlacedInv(r) /\ LastWriteInv(r)
      BY DEF OrderInv
    <3>2. CASE UpsertRead(r) \/ UpsertWrite(r) \/ EmitHead(r)
      BY <3>1, <3>2, RecordStepsKeepOrder
    <3>3. CASE EmitAppend(r) /\ ~RollBack(r)
      BY <3>1, <3>3, AppendKeepsOrder
    <3>4. CASE \/ \E op \in Ops : Request(r, op)
               \/ BeginRead(r) \/ BeginPut(r) \/ Announce(r) \/ NoAdapter(r) \/ Resume(r) \/ MarkFailed(r)
               \/ HandBackFailure(r) \/ Abandon(r) \/ Finalize(r) \/ HandBack(r) \/ RollBack(r)
               \/ CommitBatch(r) /\ pc[r] = "checkpoint"
      BY <3>4, EndKeepsOrder
    <3>5. DeadlockVictim(r) \/ StatementFails(r) => RollBack(r)
      BY DEF DeadlockVictim, StatementFails
    <3>6. Checkpoint(r) => RollBack(r) \/ (CommitBatch(r) /\ pc[r] = "checkpoint")
      BY DEF Checkpoint
    <3> QED BY <1>1, <3>2, <3>3, <3>4, <3>5, <3>6 DEF Step
  <2>2. \A q \in Runners \ {r} : Stands(q)
    BY <1>1, OthersAreStill
  <2>3. \A q \in Runners \ {r} : Size' = Size \/ emitted[q] = {}
    <3>1. CASE UNCHANGED lineage
      BY <3>1 DEF Size
    <3>2. CASE ~UNCHANGED lineage
      <4>1. CommitBatch(r) /\ pc[r] = "checkpoint"
        BY <1>1, <3>2 DEF Step, StatementFails, RollBack, Abandon, BeginRead, BeginPut, Announce, NoAdapter,
            Request, Resume, UpsertRead, UpsertWrite, EmitHead, EmitAppend, DeadlockVictim, MarkFailed,
            HandBackFailure, Finalize, HandBack, Checkpoint
      <4>2. Done(r) \in Nat \ {0}
        BY <4>1, DoneInBatch DEF InBatch
      <4>3. PlacedInv(r) /\ pc[r] \in InBatch
        BY <4>1 DEF OrderInv, InBatch
      <4>4. 1 \in 1..Done(r)
        BY <4>2
      <4>5. emitted[r] # {}
        BY <4>3, <4>4 DEF PlacedInv
      <4> QED BY <4>5 DEF ChainInv
    <3> QED BY <3>1, <3>2
  <2>4. \A q \in Runners \ {r} : PlacedInv(q)' /\ LastWriteInv(q)'
    BY <2>2, <2>3, StandingKeepsOrder DEF OrderInv
  <2> QED BY <2>1, <2>4 DEF OrderInv
<1>2. CASE UNCHANGED vars
  <2>1. Size' = Size /\ \A q \in Runners : Stands(q)
    BY <1>2 DEF vars, Size, Stands
  <2> QED BY <2>1, StandingKeepsOrder DEF OrderInv
<1> QED BY <1>1, <1>2 DEF Next, Rest

-----------------------------------------------------------------------------
(***************************************************************************)
(* The contract's view.                                                    *)
(***************************************************************************)
\* Batches are the slices _apply_batches takes.
LEMMA BatchesAre ==
    ASSUME NEW op \in Ops
    PROVE  /\ Len(Batches[op]) = NumBatches(op)
           /\ \A b \in 1..NumBatches(op) : Batches[op][b] = Batch(op, b)
PROOF
<1>1. NumBatches(op) \in Nat
  BY BatchesNat
<1>2. PICK n \in Nat : n = NumBatches(op)
  BY <1>1
<1>3. PICK f : f = Batches[op]
  OBVIOUS
<1>4. f = [b \in 1..n |-> Batch(op, b)]
  BY <1>2, <1>3 DEF Batches
<1>5. \A b \in 1..n : f[b] = Batch(op, b)
  BY <1>4
<1>6. f \in [1..n -> {Batch(op, b) : b \in 1..n}]
  BY <1>4
<1>7. Len(f) = n
  BY <1>6, FunctionIsSeq
<1> QED BY <1>2, <1>3, <1>5, <1>7

\* The contract sees the committed store and the status rows, and nothing else.
LEMMA StoreStutters ==
    ASSUME UNCHANGED <<store, idem>>
    PROVE  UNCHANGED IC!vars
BY DEF store, IC!vars, LineageLog, Owners, Told, GetStatus

\* The upserts of _begin_job begin a job.
LEMMA PutBegins ==
    ASSUME TypeInv, JobInv, NEW r \in Runners, BeginPut(r)
    PROVE  IC!Next
PROOF
<1> DEFINE c == call[r]
<1>1. c.op \in Ops /\ c.job \in Jobs /\ jobs[c.job] = NoJobRow
  BY DEF BeginPut, TypeInv, CallStates, JobInv
<1>2. /\ UNCHANGED <<table, lineage, ckpt>>
      /\ jobs' = [jobs EXCEPT ![c.job] = [op |-> c.op, state |-> "in_progress"]]
      /\ idem' = [idem EXCEPT ![c.op] = [job |-> c.job, status |-> "in_progress"]]
  BY DEF BeginPut
<1>3. /\ jobs'[c.job].op = c.op /\ jobs'[c.job] # NoJobRow
      /\ \A j \in Jobs \ {c.job} : jobs'[j] = jobs[j]
  <2>1. jobs'[c.job] = [op |-> c.op, state |-> "in_progress"] /\ \A j \in Jobs \ {c.job} : jobs'[j] = jobs[j]
    BY <1>1, <1>2 DEF TypeInv
  <2>2. [op |-> c.op, state |-> "in_progress"] \in JobRows
    BY <1>1 DEF JobRows
  <2> QED BY <2>1, <2>2, RowsDiffer
<1>4. idem'[c.op].status = "in_progress" /\ \A op \in Ops \ {c.op} : idem'[op] = idem[op]
  BY <1>1, <1>2 DEF TypeInv
<1> HIDE DEF c
<1>5. c.job \notin DOMAIN Owners
  BY <1>1 DEF Owners
<1>6. Owners' = [x \in DOMAIN Owners \cup {c.job} |-> IF x = c.job THEN c.op ELSE Owners[x]]
  <2>1. {x \in Jobs : jobs'[x] # NoJobRow} = DOMAIN Owners \cup {c.job}
    BY <1>1, <1>3 DEF Owners
  <2>2. \A x \in DOMAIN Owners \cup {c.job} : jobs'[x].op = IF x = c.job THEN c.op ELSE Owners[x]
    BY <1>3, <1>5 DEF Owners
  <2>3. Owners' = [x \in {y \in Jobs : jobs'[y] # NoJobRow} |-> jobs'[x].op]
    BY DEF Owners
  <2> QED BY <2>1, <2>2, <2>3
<1>7. Told' = [Told EXCEPT ![c.op] = NoJob]
  BY <1>1, <1>4 DEF Told, GetStatus
<1>8. LineageLog' = LineageLog
  BY <1>2 DEF LineageLog
<1>9. IC!Begin(c.job, c.op)
  BY <1>2, <1>5, <1>6, <1>7, <1>8 DEF IC!Begin
<1> QED BY <1>1, <1>9 DEF IC!Next

\* _mark_failed withdraws what was said of the operation.
LEMMA FailureWithdraws ==
    ASSUME TypeInv, NEW r \in Runners, MarkFailed(r)
    PROVE  IC!Next
PROOF
<1> DEFINE c == call[r]
<1>1. c.op \in Ops
  BY DEF TypeInv, CallStates
<1>2. /\ UNCHANGED <<table, lineage, jobs, ckpt>>
      /\ idem' = [idem EXCEPT ![c.op] = [job |-> c.job, status |-> "failed"]]
  BY DEF MarkFailed, store
<1> HIDE DEF c
<1>3. idem'[c.op].status = "failed" /\ \A op \in Ops \ {c.op} : idem'[op] = idem[op]
  BY <1>1, <1>2 DEF TypeInv
<1>4. Told' = [Told EXCEPT ![c.op] = NoJob]
  BY <1>1, <1>3 DEF Told, GetStatus
<1>5. Owners' = Owners /\ LineageLog' = LineageLog
  BY <1>2 DEF Owners, LineageLog
<1>6. IC!Withdraw(c.op)
  BY <1>2, <1>4, <1>5 DEF IC!Withdraw
<1> QED BY <1>1, <1>6 DEF IC!Next

\* _finalize declares it applied.
LEMMA FinalizeDeclares ==
    ASSUME TypeInv, JobInv, CkptInv, NEW r \in Runners, Finalize(r)
    PROVE  IC!Next
PROOF
<1> DEFINE c == call[r]
<1>1. c.op \in Ops /\ HasRow(c.op, c.job) /\ ckpt[c.job] = 1..NumBatches(c.op)
  BY DEF Finalize, TypeInv, CallStates, JobInv, CkptInv, RunnerInv, UpTo
<1>2. /\ UNCHANGED <<table, lineage, ckpt>>
      /\ jobs' = [jobs EXCEPT ![c.job] = [op |-> c.op, state |-> "applied"]]
      /\ idem' = [idem EXCEPT ![c.op] = [job |-> c.job, status |-> "applied"]]
  BY DEF Finalize
<1> HIDE DEF c
<1>3. /\ jobs'[c.job].op = c.op /\ jobs'[c.job] # NoJobRow
      /\ \A j \in Jobs \ {c.job} : jobs'[j] = jobs[j]
  <2>1. jobs'[c.job] = [op |-> c.op, state |-> "applied"] /\ \A j \in Jobs \ {c.job} : jobs'[j] = jobs[j]
    BY <1>1, <1>2 DEF TypeInv, HasRow
  <2>2. [op |-> c.op, state |-> "applied"] \in JobRows
    BY <1>1 DEF JobRows
  <2> QED BY <2>1, <2>2, RowsDiffer
<1>4. idem'[c.op].job = c.job /\ idem'[c.op].status = "applied" /\ \A op \in Ops \ {c.op} : idem'[op] = idem[op]
  BY <1>1, <1>2 DEF TypeInv
<1>5. c.job \in Jobs /\ jobs[c.job] # NoJobRow /\ jobs[c.job].op = c.op
  BY <1>1, RowsDiffer DEF HasRow
<1>6. c.job \in DOMAIN Owners /\ Owners[c.job] = c.op
  BY <1>5 DEF Owners
<1>7. Owners' = Owners
  <2>1. {x \in Jobs : jobs'[x] # NoJobRow} = {x \in Jobs : jobs[x] # NoJobRow}
    BY <1>3, <1>5
  <2>2. \A x \in Jobs : jobs'[x].op = jobs[x].op
    BY <1>3, <1>5
  <2>3. Owners' = [x \in {y \in Jobs : jobs'[y] # NoJobRow} |-> jobs'[x].op]
    BY DEF Owners
  <2> QED BY <2>1, <2>2, <2>3 DEF Owners
<1>8. Told' = [Told EXCEPT ![c.op] = c.job]
  BY <1>1, <1>4 DEF Told, GetStatus
<1>9. LineageLog' = LineageLog
  BY <1>2 DEF LineageLog
<1>10. ckpt[c.job] = 1..Len(Batches[c.op])
  BY <1>1, BatchesAre
<1>11. IC!Declare(c.job, c.op)
  BY <1>2, <1>6, <1>7, <1>8, <1>9, <1>10 DEF IC!Declare
<1> QED BY <1>1, <1>5, <1>11 DEF IC!Next

-----------------------------------------------------------------------------
\* The batch that a runner commits is the next of its job.
LEMMA CommitIsNext ==
    ASSUME TypeInv, JobInv, CkptInv, NEW r \in Runners, pc[r] = "checkpoint", ~CheckpointTaken(r), CommitBatch(r)
    PROVE  LET c == call[r] IN
           /\ c.op \in Ops /\ c.job \in Jobs /\ jobs[c.job] # NoJobRow /\ jobs[c.job].op = c.op
           /\ c.b \in 1..NumBatches(c.op)
           /\ ckpt[c.job] = 1..(c.b - 1)
           /\ ckpt' = [ckpt EXCEPT ![c.job] = 1..c.b]
PROOF
<1> DEFINE c == call[r]
<1>1. /\ c.op \in Ops /\ c.job \in Jobs /\ jobs[c.job] \in JobRows /\ jobs[c.job].op = c.op
      /\ c.b \in 1..NumBatches(c.op) /\ 1..(c.b - 1) \subseteq ckpt[c.job]
  BY DEF TypeInv, CallStates, JobInv, HasRow, CkptInv, RunnerInv, InBatch
<1>2. jobs[c.job] # NoJobRow
  BY <1>1, RowsDiffer
<1>3. PICK n \in Nat : ckpt[c.job] = 1..n
  <2>1. NumBatches(c.op) \in Nat
    BY <1>1, BatchesNat
  <2> QED BY <1>1, <2>1 DEF CkptInv, CheckpointsInv, UpTo
<1>4. c.b \notin ckpt[c.job]
  BY DEF CheckpointTaken
<1>5. ckpt' = [ckpt EXCEPT ![c.job] = @ \cup {c.b}]
  BY DEF CommitBatch
<1>6. c.b \in Nat \ {0}
  <2>1. NumBatches(c.op) \in Nat
    BY <1>1, BatchesNat
  <2> QED BY <1>1, <2>1
<1> HIDE DEF c
<1>7. n = c.b - 1
  <2>1. ~(c.b <= n)
    BY <1>3, <1>4, <1>6
  <2>2. CASE c.b - 1 <= n
    BY <1>6, <2>1, <2>2
  <2>3. CASE n < c.b - 1
    <3>1. c.b - 1 \in 1..(c.b - 1) /\ c.b - 1 \notin 1..n
      BY <1>6, <2>3
    <3> QED BY <1>1, <1>3, <3>1
  <2> QED BY <1>6, <2>2, <2>3
<1>8. ckpt[c.job] = 1..(c.b - 1) /\ ckpt[c.job] \cup {c.b} = 1..c.b
  BY <1>3, <1>6, <1>7
<1>9. ckpt' = [ckpt EXCEPT ![c.job] = 1..c.b]
  BY <1>5, <1>8
<1> QED BY <1>1, <1>2, <1>8, <1>9 DEF c

-----------------------------------------------------------------------------
(***************************************************************************)
(* What the commit of a batch adds to the log.                             *)
(***************************************************************************)
\* The row that a batch has recorded for its n-th record.
Placed(r, n) == CHOOSE row \in emitted[r] : row.seq = Size + n

\* The records of the batch that have changed their row.
Changed(r) == {n \in 1..Done(r) : Placed(r, n).event.operation = "created"}

\* An open batch at its checkpoint: what it wrote and what it recorded.
LEMMA PlacedRows ==
    ASSUME TypeInv, CkptInv, ChainInv, ProvenanceInv, OnceInv, OrderInv, NEW r \in Runners, pc[r] = "checkpoint",
           NEW n \in 1..Done(r)
    PROVE  /\ Placed(r, n) \in emitted[r]
           /\ Placed(r, n).seq = Size + n
           /\ Placed(r, n).event \in EventsFor(Batch(call[r].op, call[r].b)[n], call[r].job)
           /\ \A row \in LineageSeen(r) : row.seq = Size + n => row = Placed(r, n)
PROOF
<1> DEFINE batch == Batch(call[r].op, call[r].b)
           job == call[r].job
<1>0. pc[r] \in InBatch /\ PlacedInv(r)
  BY DEF InBatch, OrderInv
<1>1. PICK row \in emitted[r] : row.seq = Size + n /\ row.event \in EventsFor(batch[n], job)
  BY <1>0 DEF PlacedInv
<1>2. \A p, q \in LineageSeen(r) : p.seq = q.seq => p = q
  BY DEF ChainInv, OneChain, Numbered
<1>3. emitted[r] \subseteq LineageSeen(r)
  BY DEF LineageSeen
<1>4. Placed(r, n) \in emitted[r] /\ Placed(r, n).seq = Size + n
  BY <1>1 DEF Placed
<1>5. Placed(r, n) = row
  BY <1>1, <1>2, <1>3, <1>4
<1>6. \A other \in LineageSeen(r) : other.seq = Size + n => other = Placed(r, n)
  BY <1>2, <1>3, <1>4
<1> HIDE DEF batch, job
<1> QED BY <1>1, <1>4, <1>5, <1>6 DEF batch, job

\* The commit appends one entry per record, in the order of the batch.
LEMMA CommitAppendsLog ==
    ASSUME TypeInv, CkptInv, ChainInv, ProvenanceInv, OnceInv, OrderInv, ChainInv',
           NEW r \in Runners, pc[r] = "checkpoint", CommitBatch(r)
    PROVE  LineageLog' = LineageLog \o
               [n \in 1..Done(r) |-> IC!Entry(Batch(call[r].op, call[r].b), Changed(r), call[r].job, n)]
PROOF
<1> DEFINE batch == Batch(call[r].op, call[r].b)
           job == call[r].job
           event(S, n) == (CHOOSE row \in S : row.seq = n).event
<1>0. pc[r] \in InBatch /\ PlacedInv(r)
  BY DEF InBatch, OrderInv
<1>1. /\ Size \in Nat /\ Seqs(lineage) = 1..Size /\ Seqs(LineageSeen(r)) = 1..(Size + Done(r))
      /\ Done(r) \in Nat
  <2>1. Done(r) \in Nat
    BY <1>0, DoneInBatch
  <2> QED BY <1>0, <2>1, EmittedInOrder
<1>2. lineage' = LineageSeen(r)
  BY DEF CommitBatch
<1>3. ChainHead(LineageSeen(r)).seq = Size + Done(r)
  <2>1. OneChain(LineageSeen(r))
    BY DEF ChainInv
  <2>2. PICK s \in Nat : s = ChainHead(LineageSeen(r)).seq /\ Seqs(LineageSeen(r)) = 1..s
    BY <2>1, HeadOfChain
  <2>3. PICK t \in Nat : t = Size + Done(r) /\ Seqs(LineageSeen(r)) = 1..t
    BY <1>1
  <2>4. s = t
    BY <2>2, <2>3, SameInterval
  <2> QED BY <2>2, <2>3, <2>4
<1>4. ASSUME NEW n \in 1..Size
      PROVE  (CHOOSE row \in LineageSeen(r) : row.seq = n) = (CHOOSE row \in lineage : row.seq = n)
  <2>1. PICK row \in lineage : row.seq = n
    <3>1. n \in {row.seq : row \in lineage}
      BY <1>1 DEF Seqs
    <3> QED BY <3>1
  <2>2. row \in LineageSeen(r) /\ \A other \in LineageSeen(r) : other.seq = n => other = row
    BY <2>1 DEF LineageSeen, ChainInv, OneChain, Numbered
  <2>3. \A other \in lineage : other.seq = n => other = row
    BY <2>2 DEF LineageSeen
  <2>4. (CHOOSE x \in LineageSeen(r) : x.seq = n) = row
    BY <2>1, <2>2
  <2>5. (CHOOSE x \in lineage : x.seq = n) = row
    BY <2>1, <2>3
  <2> QED BY <2>4, <2>5
<1>5. ASSUME NEW n \in 1..Done(r)
      PROVE  (CHOOSE row \in LineageSeen(r) : row.seq = Size + n).event = IC!Entry(batch, Changed(r), job, n)
  <2>1. PICK row : row = Placed(r, n)
    OBVIOUS
  <2>2. /\ row \in emitted[r] /\ row.seq = Size + n /\ row.event \in EventsFor(batch[n], job)
        /\ \A other \in LineageSeen(r) : other.seq = Size + n => other = row
    BY <2>1, PlacedRows
  <2>3. (CHOOSE other \in LineageSeen(r) : other.seq = Size + n) = row
    BY <2>2 DEF LineageSeen
  <2>4. PICK o \in {"created", "noop"} :
            row.event = [source |-> batch[n].ref, target |-> batch[n].key, operation |-> o, job |-> job]
    BY <2>2 DEF EventsFor
  <2>5. n \in Changed(r) <=> o = "created"
    <3>1. n \in Changed(r) <=> row.event.operation = "created"
      BY <2>1 DEF Changed
    <3>2. row.event.operation = o
      BY <2>4
    <3> QED BY <3>1, <3>2
  <2>6. o = IF n \in Changed(r) THEN "created" ELSE "noop"
    BY <2>5
  <2> HIDE DEF batch, job
  <2> QED BY <2>3, <2>4, <2>6 DEF IC!Entry
<1> DEFINE f == [n \in 1..Size |-> event(lineage, n)]
           g == [n \in 1..Done(r) |-> IC!Entry(batch, Changed(r), job, n)]
           h == [n \in 1..(Size + Done(r)) |-> event(LineageSeen(r), n)]
<1>6. LineageLog = f
  BY DEF LineageLog, Size
<1>7. LineageLog' = h
  BY <1>2, <1>3 DEF LineageLog
<1>8. \A n \in 1..Size : h[n] = f[n]
  <2> SUFFICES ASSUME NEW n \in 1..Size PROVE h[n] = f[n]
    OBVIOUS
  <2>1. n \in 1..(Size + Done(r))
    BY <1>1
  <2>2. h[n] = event(LineageSeen(r), n) /\ f[n] = event(lineage, n)
    BY <2>1
  <2> QED BY <1>4, <2>2
<1>9. \A n \in 1..Done(r) : h[Size + n] = g[n]
  <2> SUFFICES ASSUME NEW n \in 1..Done(r) PROVE h[Size + n] = g[n]
    OBVIOUS
  <2>1. Size + n \in 1..(Size + Done(r))
    BY <1>1
  <2>2. h[Size + n] = event(LineageSeen(r), Size + n)
    BY <2>1
  <2>3. g[n] = IC!Entry(batch, Changed(r), job, n)
    OBVIOUS
  <2> QED BY <1>5, <2>2, <2>3
<1>10. f = [i \in 1..Size |-> f[i]] /\ g = [i \in 1..Done(r) |-> g[i]] /\ h = [i \in 1..(Size + Done(r)) |-> h[i]]
  OBVIOUS
<1>11. g = [n \in 1..Done(r) |-> IC!Entry(batch, Changed(r), job, n)]
  OBVIOUS
<1> HIDE DEF f, g, h
<1>12. h = f \o g
  <2> DEFINE S == {h[n] : n \in 1..(Size + Done(r))}
  <2>1. h \in [1..(Size + Done(r)) -> S]
    BY <1>10
  <2>2. f \in [1..Size -> S]
    <3>1. \A n \in 1..Size : n \in 1..(Size + Done(r))
      BY <1>1
    <3>2. \A n \in 1..Size : f[n] \in S
      BY <1>8, <3>1
    <3> HIDE DEF S
    <3> QED BY <1>10, <3>2
  <2>3. g \in [1..Done(r) -> S]
    <3>1. \A n \in 1..Done(r) : Size + n \in 1..(Size + Done(r))
      BY <1>1
    <3>2. \A n \in 1..Done(r) : g[n] \in S
      BY <1>9, <3>1
    <3> HIDE DEF S
    <3> QED BY <1>10, <3>2
  <2> HIDE DEF S
  <2>4. Size \in Nat /\ Done(r) \in Nat /\ Size + Done(r) \in Nat
    BY <1>1
  <2>5. f \in Seq(S) /\ Len(f) = Size
    BY <2>2, <2>4, FunctionIsSeq
  <2>7. g \in Seq(S) /\ Len(g) = Done(r)
    BY <2>3, <2>4, FunctionIsSeq
  <2>6. h \in Seq(S) /\ Len(h) = Size + Done(r)
    BY <2>1, <2>4, FunctionIsSeq
  <2>8. /\ Len(h) = Len(f) + Len(g)
        /\ \A i \in 1..Len(f) : h[i] = f[i]
        /\ \A i \in 1..Len(g) : h[Len(f) + i] = g[i]
    BY <1>8, <1>9, <2>5, <2>6, <2>7
  <2> QED BY <2>5, <2>6, <2>7, <2>8, BehindEachOther, Zenon
<1> QED BY <1>6, <1>7, <1>11, <1>12

(***************************************************************************)
(* What the commit of a batch does to the rows: of the records for one key *)
(* that changed it, or were found to match what the batch itself had       *)
(* written, the last one decides.                                          *)
(***************************************************************************)
LEMMA CommitOverwrites ==
    ASSUME TypeInv, CkptInv, ChainInv, ProvenanceInv, OnceInv, OrderInv, NEW r \in Runners,
           pc[r] = "checkpoint", CommitBatch(r)
    PROVE  table' = [k \in Keys |-> IC!Overwritten(Batch(call[r].op, call[r].b), Changed(r), k)]
PROOF
<1> DEFINE batch == Batch(call[r].op, call[r].b)
           job == call[r].job
<1>0. pc[r] \in InBatch /\ WrittenInv(r) /\ LastWriteInv(r) /\ ~Unrecorded(r)
  BY DEF InBatch, OrderInv, ProvenanceInv, Unrecorded
<1>1. Done(r) = Len(batch) /\ Looked(r) = Len(batch) /\ Len(batch) \in Nat
  <2>1. Done(r) = Len(batch) /\ Len(batch) \in Nat
    BY <1>0, DoneInBatch
  <2>2. Looked(r) = Done(r)
    BY DEF Looked
  <2> QED BY <2>1, <2>2
<1>2. table' = [k \in Keys |-> RowSeen(r, k)]
  BY DEF CommitBatch
<1>3. ASSUME NEW k \in Keys, NEW n \in IC!Copies(batch, k) \cap Changed(r)
      PROVE  k \in DOMAIN written[r]
  <2>1. n \in 1..Done(r) /\ batch[n].key = k /\ Placed(r, n).event.operation = "created"
    BY <1>3 DEF IC!Copies, Changed
  <2>2. Placed(r, n) \in emitted[r] /\ Placed(r, n).event \in EventsFor(batch[n], job)
    BY <2>1, PlacedRows
  <2>3. Placed(r, n).event.target = k
    BY <2>1, <2>2 DEF EventsFor
  <2>4. Placed(r, n) \in CreationsIn(emitted[r], k)
    BY <2>1, <2>2, <2>3 DEF CreationsIn
  <2> QED BY <1>0, <2>4 DEF WrittenInv
<1>4. ASSUME NEW k \in DOMAIN written[r]
      PROVE  \E n \in IC!Copies(batch, k) : n \in Changed(r)
  <2>1. PICK row \in CreationsIn(emitted[r], k) : TRUE
    BY <1>0 DEF WrittenInv, LastCopied
  <2>2. row \in emitted[r] /\ row.event.target = k /\ row.event.operation = "created"
    BY DEF CreationsIn
  <2>3. PICK n \in 1..Done(r) : row.seq = Size + n /\ row.event \in EventsFor(batch[n], job)
    BY <1>0, <2>2, EmittedInOrder DEF OrderInv
  <2>4. row = Placed(r, n)
    BY <2>2, <2>3, PlacedRows DEF LineageSeen
  <2>5. n \in Changed(r)
    BY <2>2, <2>4 DEF Changed
  <2>6. batch[n].key = k
    BY <2>2, <2>3 DEF EventsFor
  <2>7. n \in IC!Copies(batch, k)
    BY <1>1, <2>6 DEF IC!Copies
  <2> QED BY <2>5, <2>7
<1>5. ASSUME NEW k \in DOMAIN written[r]
      PROVE  written[r][k] =
                 batch[CHOOSE n \in IC!Copies(batch, k) : \A m \in IC!Copies(batch, k) : m <= n].val
  <2> DEFINE n == CHOOSE x \in IC!Copies(batch, k) : \A m \in IC!Copies(batch, k) : m <= x
  <2>1. IC!Copies(batch, k) \in SUBSET (1..Len(batch)) /\ IC!Copies(batch, k) # {}
    BY <1>4 DEF IC!Copies
  <2>2. \E x \in IC!Copies(batch, k) : \A m \in IC!Copies(batch, k) : m <= x
    BY <1>1, <2>1, Greatest
  <2>3. n \in IC!Copies(batch, k) /\ \A m \in IC!Copies(batch, k) : m <= n
    BY <2>2
  <2> HIDE DEF n
  <2>4. n \in 1..Looked(r) /\ batch[n].key = k /\ \A m \in 1..Looked(r) : batch[m].key = k => m <= n
    BY <1>1, <2>3 DEF IC!Copies
  <2>5. written[r][k] = batch[n].val
    BY <1>0, <2>4 DEF LastWriteInv
  <2> QED BY <2>5 DEF n
<1>6. ASSUME NEW k \in Keys
      PROVE  RowSeen(r, k) = IC!Overwritten(batch, Changed(r), k)
  <2>1. CASE k \in DOMAIN written[r]
    <3>1. IC!Copies(batch, k) \cap Changed(r) # {}
      BY <1>4, <2>1
    <3>2. RowSeen(r, k) = written[r][k]
      BY <2>1 DEF RowSeen
    <3> QED BY <1>5, <2>1, <3>1, <3>2 DEF IC!Overwritten
  <2>2. CASE k \notin DOMAIN written[r]
    <3>1. IC!Copies(batch, k) \cap Changed(r) = {}
      BY <1>3, <2>2
    <3>2. RowSeen(r, k) = table[k]
      BY <2>2 DEF RowSeen
    <3> QED BY <3>1, <3>2 DEF IC!Overwritten
  <2> QED BY <2>1, <2>2
<1> HIDE DEF batch
<1> QED BY <1>2, <1>6 DEF batch

\* Commit, checkpoint, rows and provenance are the one step Apply of the contract.
LEMMA CommitApplies ==
    ASSUME TypeInv, JobInv, CkptInv, ChainInv, ProvenanceInv, OnceInv, OrderInv, ChainInv', NEW r \in Runners,
           pc[r] = "checkpoint", ~CheckpointTaken(r), CommitBatch(r)
    PROVE  IC!Next
PROOF
<1> DEFINE c == call[r]
           batch == Batch(c.op, c.b)
<1>1. /\ c.op \in Ops /\ c.job \in Jobs /\ jobs[c.job] # NoJobRow /\ jobs[c.job].op = c.op
      /\ c.b \in 1..NumBatches(c.op)
      /\ ckpt[c.job] = 1..(c.b - 1)
      /\ ckpt' = [ckpt EXCEPT ![c.job] = 1..c.b]
  BY CommitIsNext
<1>2. c.job \in DOMAIN Owners /\ Owners[c.job] = c.op
  BY <1>1 DEF Owners
<1>3. c.b \in 1..Len(Batches[Owners[c.job]]) /\ Batches[Owners[c.job]][c.b] = batch
  BY <1>1, <1>2, BatchesAre
<1>4. Owners' = Owners /\ Told' = Told
  BY DEF CommitBatch, Owners, Told, GetStatus
<1>5. Done(r) = Len(batch)
  BY DEF Done
<1>6. Changed(r) \in SUBSET (1..Len(batch))
  BY <1>5 DEF Changed
<1>7. table' = [k \in Keys |-> IC!Overwritten(batch, Changed(r), k)]
  BY CommitOverwrites
<1>8. LineageLog' = LineageLog \o [n \in 1..Len(batch) |-> IC!Entry(batch, Changed(r), c.job, n)]
  BY <1>5, CommitAppendsLog
<1> HIDE DEF c, batch
<1>9. IC!Apply(c.job, c.b)
  BY <1>1, <1>3, <1>4, <1>6, <1>7, <1>8 DEF IC!Apply
<1> QED BY <1>2, <1>3, <1>9 DEF IC!Next

-----------------------------------------------------------------------------
(***************************************************************************)
(* Every step of the implementation is a step of the contract or none.     *)
(***************************************************************************)
LEMMA InitOrder == Init => OrderInv
BY DEF Init, OrderInv, PlacedInv, LastWriteInv, InBatch

LEMMA InitRefines == Init => IC!Init
PROOF
<1> SUFFICES ASSUME Init PROVE IC!Init
  OBVIOUS
<1>1. LineageLog = << >>
  <2>1. ChainHead(lineage).seq = 0
    BY DEF Init, ChainHead
  <2>2. 1..0 = {}
    OBVIOUS
  <2>3. LineageLog = [n \in {} |-> (CHOOSE row \in lineage : row.seq = n).event]
    BY <2>1, <2>2 DEF LineageLog
  <2> QED BY <2>3
<1>2. Owners = [j \in {} |-> NoJob]
  <2>1. {x \in Jobs : jobs[x] # NoJobRow} = {}
    BY DEF Init
  <2> QED BY <2>1 DEF Owners
<1>3. Told = [op \in Ops |-> NoJob]
  BY DEF Init, Told, GetStatus, NoIdem
<1> QED BY <1>1, <1>2, <1>3 DEF Init, IC!Init

LEMMA StepRefines ==
    IInv /\ IInv' /\ OrderInv /\ [Next]_vars => [IC!Next]_(IC!vars)
PROOF
<1> SUFFICES ASSUME IInv, IInv', OrderInv, [Next]_vars PROVE IC!Next \/ UNCHANGED IC!vars
  OBVIOUS
<1> USE DEF IInv
<1>1. CASE UNCHANGED vars
  <2>1. UNCHANGED <<store, idem>>
    BY <1>1 DEF vars, store
  <2> QED BY <2>1, StoreStutters
<1>2. ASSUME NEW r \in Runners, Step(r) PROVE IC!Next \/ UNCHANGED <<store, idem>>
  <2>1. CASE BeginPut(r)
    BY <2>1, PutBegins
  <2>2. CASE MarkFailed(r)
    BY <2>2, FailureWithdraws
  <2>3. CASE Finalize(r)
    BY <2>3, FinalizeDeclares
  <2>4. CASE Checkpoint(r) /\ ~RollBack(r)
    BY <2>4, CommitApplies DEF Checkpoint
  <2>5. CASE BeginRead(r) \/ Announce(r) \/ NoAdapter(r) \/ Resume(r) \/ UpsertRead(r) \/ UpsertWrite(r) \/ EmitHead(r)
             \/ EmitAppend(r) \/ DeadlockVictim(r) \/ HandBackFailure(r) \/ HandBack(r) \/ RollBack(r)
    BY <2>5 DEF BeginRead, Announce, NoAdapter, Resume, UpsertRead, UpsertWrite, EmitHead, EmitAppend, DeadlockVictim,
        HandBackFailure, HandBack, RollBack
  <2> QED BY <1>2, <2>1, <2>2, <2>3, <2>4, <2>5 DEF Step
<1>3. ASSUME NEW r \in Runners, StatementFails(r) \/ Abandon(r) \/ \E op \in Ops : Request(r, op)
      PROVE  UNCHANGED <<store, idem>>
  BY <1>3 DEF StatementFails, RollBack, Abandon, Request
<1> QED BY <1>1, <1>2, <1>3, StoreStutters DEF Next, Rest

-----------------------------------------------------------------------------
(***************************************************************************)
(* The inductive invariant holds, and what follows from it.                *)
(***************************************************************************)
LEMMA InitInv == Init => IInv
PROOF
<1> SUFFICES ASSUME Init PROVE IInv
  OBVIOUS
<1>1. JobInv
  BY DEF Init, JobInv, NoIdem
<1>2. CkptInv
  BY RowsDiffer DEF Init, CkptInv, CheckpointsInv, RunnerInv, StatusInv, InBatch, NoIdem, NoCall
<1>3. OneChain({})
  <2>1. Seqs({}) = 1..0
    BY DEF Seqs
  <2> QED BY <2>1 DEF OneChain, Numbered, Linked
<1>4. ChainInv
  <2>1. lineage = {} /\ \A r \in Runners : emitted[r] = {} /\ LineageSeen(r) = {} /\ pc[r] = "idle"
    BY DEF Init, LineageSeen
  <2> QED BY <1>3, <2>1 DEF ChainInv
<1>5. ProvenanceInv
  <2>1. \A r \in Runners : pc[r] = "idle" /\ written[r] = Nothing /\ emitted[r] = {}
    BY DEF Init
  <2>2. \A r \in Runners : RecordInv(r) /\ WrittenInv(r)
    BY <2>1 DEF RecordInv, WrittenInv, AtRecord, Unrecorded, CreationsIn, Nothing
  <2> QED BY <2>2 DEF Init, ProvenanceInv, CreationsIn
<1>6. OnceInv
  BY RowsDiffer DEF Init, OnceInv, CommittedInv, EmittedInv, InBatch
<1> QED BY <1>1, <1>2, <1>4, <1>5, <1>6, InitTypes DEF IInv

LEMMA NextInv == IInv /\ [Next]_vars => IInv'
BY TypesKept, JobsKept, CheckpointsKept, ChainKept, ProvenanceKept, OnceKept DEF IInv

THEOREM Invariance == Spec => []IInv
BY InitInv, NextInv, PTL DEF Spec

(***************************************************************************)
(* The committed lineage is one chain, with the chain lock and without it: *)
(* LineageVerifier.verify has nothing to report, however the batches of    *)
(* the runners interleave, fail or are retried.                            *)
(***************************************************************************)
THEOREM ChainStaysIntact == Spec => []ChainIntact
PROOF
<1>1. IInv => ChainIntact
  BY ChainHasNoFindings DEF IInv, ChainInv, ChainIntact
<1> QED BY <1>1, Invariance, PTL

(***************************************************************************)
(* A commit adds lineage rows only behind the committed ones, so that a    *)
(* reader that pages by seq (verification.py, query_service.py) misses     *)
(* none.                                                                   *)
(***************************************************************************)
THEOREM CommitsAppendBehind == Spec => AppendsBehind
PROOF
<1> DEFINE Behind == \A new \in lineage' \ lineage, old \in lineage : old.seq < new.seq
<1>1. IInv /\ [Next]_vars => [Behind]_vars
  <2> SUFFICES ASSUME IInv, [Next]_vars PROVE Behind
    OBVIOUS
  <2>1. CASE UNCHANGED lineage
    BY <2>1
  <2>2. ASSUME NEW r \in Runners, lineage' = LineageSeen(r) PROVE Behind
    BY <2>2 DEF LineageSeen, IInv, ChainInv
  <2>3. ASSUME NEW r \in Runners, Step(r) PROVE UNCHANGED lineage \/ lineage' = LineageSeen(r)
    BY <2>3 DEF Step, BeginRead, BeginPut, Announce, NoAdapter, Resume, UpsertRead, UpsertWrite, EmitHead, EmitAppend,
        Checkpoint, CommitBatch, DeadlockVictim, RollBack, MarkFailed, HandBackFailure, Finalize, HandBack, store
  <2>4. ASSUME NEW r \in Runners, StatementFails(r) \/ Abandon(r) PROVE UNCHANGED lineage
    BY <2>4 DEF StatementFails, RollBack, Abandon, store
  <2>5. ASSUME NEW r \in Runners, NEW op \in Ops, Request(r, op) PROVE UNCHANGED lineage
    BY <2>5 DEF Request, store
  <2> HIDE DEF Behind
  <2> QED BY <2>1, <2>2, <2>3, <2>4, <2>5 DEF Next, Rest, vars
<1> QED BY <1>1, Invariance, PTL DEF Spec, AppendsBehind

(***************************************************************************)
(* "applied" -- in the status row and in the answer to a fresh, a resumed  *)
(* or a replayed call -- is said of jobs whose batches are all committed,  *)
(* whatever fails and whoever else works on the same job.                  *)
(***************************************************************************)
THEOREM AppliedStandsForAll == Spec => []AppliedIsComplete
PROOF
<1>1. IInv => AppliedIsComplete
  BY DEF IInv, CkptInv, StatusInv, RunnerInv, AppliedIsComplete, GetStatus
<1> QED BY <1>1, Invariance, PTL

(***************************************************************************)
(* Atomic provenance: each row of the target table holds what its newest   *)
(* "created" lineage row says was copied there, and there is no row nobody *)
(* recorded -- although rows and lineage are written statement by          *)
(* statement, by runners that fail in the middle of a batch, resume it, or *)
(* overwrite each other's rows.                                            *)
(***************************************************************************)
THEOREM RowsHaveProvenance == Spec => []Provenance
PROOF
<1>1. IInv => Provenance
  BY ProvenanceFollows DEF IInv
<1> QED BY <1>1, Invariance, PTL

(***************************************************************************)
(* A batch is applied as a whole and once: each of its records has one     *)
(* lineage row of its job if the batch has its checkpoint, and none        *)
(* otherwise, across crashes, resumptions and two runners on one job.      *)
(***************************************************************************)
THEOREM BatchesApplyOnce == Spec => []BatchOnce
PROOF
<1>1. IInv => BatchOnce
  BY OnceFollows DEF IInv
<1> QED BY <1>1, Invariance, PTL

(***************************************************************************)
(* The n-th record of an open batch has the n-th place behind the          *)
(* committed lineage, and a row the batch has written holds what the last  *)
(* record for it says, although other runners read the chain head and      *)
(* write rows between its statements.                                      *)
(***************************************************************************)
THEOREM OrderInvariance == Spec => []OrderInv
PROOF
<1>1. IInv /\ OrderInv /\ [Next]_vars => OrderInv'
  BY OrderKept DEF IInv
<1> QED BY <1>1, InitOrder, Invariance, PTL DEF Spec

(***************************************************************************)
(* An import is what its contract says: although a batch is written        *)
(* statement by statement, beside other runners that fail, resume and      *)
(* overwrite the same rows, each committed batch is one step that changes  *)
(* the rows and appends the provenance of all its records in their order,  *)
(* a job applies its batches one after the other, and an operation is only *)
(* called applied by a job that is through.                                *)
(***************************************************************************)
THEOREM ImportRefinement == Spec => ImplementsImportContract
BY InitRefines, StepRefines, Invariance, OrderInvariance, PTL DEF Spec, ImplementsImportContract, IC!Spec
=============================================================================
