------------------------- MODULE LineageChainProofs -------------------------
(***************************************************************************)
(* Lemmas about LineageChain: what one unbroken chain is, that the         *)
(* verifier has nothing to report about one, and that an append behind the *)
(* head keeps it.  Every writer of a lineage table rests on them.          *)
(***************************************************************************)
EXTENDS LineageChain, Integers, TLAPS

-----------------------------------------------------------------------------
(***************************************************************************)
(* What one chain is, without looking for its latest row.                  *)
(***************************************************************************)
Seqs(S) == {row.seq : row \in S}

Numbered(S) ==
    /\ \E n \in Nat : Seqs(S) = 1..n
    /\ \A p, q \in S : p.seq = q.seq => p = q

Linked(S) ==
    \A row \in S :
        /\ ~Tampered(row)
        /\ row.seq = 1 => row.prev = NoMarker
        /\ \A p \in S : p.seq + 1 = row.seq => row.prev = p.marker

OneChain(S) == Numbered(S) /\ Linked(S)

\* h is a chain head of S, now or earlier: nothing, or the place and marker of a row.
IsHead(h, S) ==
    \/ h.seq = 0 /\ h.marker = NoMarker
    \/ \E row \in S : h.seq = row.seq /\ h.marker = row.marker

(***************************************************************************)
(* A set of rows numbered 1..n has its latest row at n.                    *)
(***************************************************************************)
LEMMA LatestIsLast ==
    ASSUME NEW S, Numbered(S), S # {}
    PROVE  /\ Latest(S) \in S
           /\ \A row \in S : row.seq <= Latest(S).seq
           /\ Seqs(S) = 1..Latest(S).seq
           /\ Latest(S).seq \in Nat \ {0}
PROOF
<1>1. PICK n \in Nat : Seqs(S) = 1..n
  BY DEF Numbered
<1>2. \A row \in S : row.seq \in 1..n
  BY <1>1 DEF Seqs
<1>3. n \in 1..n
  BY <1>2
<1>4. PICK last \in S : last.seq = n
  BY <1>1, <1>3 DEF Seqs
<1>5. \A row \in S : row.seq <= last.seq
  BY <1>2, <1>4
<1>6. Latest(S) \in S /\ \A row \in S : row.seq <= Latest(S).seq
  BY <1>4, <1>5 DEF Latest
<1>7. Latest(S).seq = n
  BY <1>2, <1>4, <1>6
<1> QED BY <1>1, <1>3, <1>6, <1>7

LEMMA HeadOfChain ==
    ASSUME NEW S, OneChain(S)
    PROVE  /\ IsHead(ChainHead(S), S)
           /\ Seqs(S) = 1..ChainHead(S).seq
           /\ ChainHead(S).seq \in Nat
PROOF
<1>1. CASE S = {}
  BY <1>1 DEF ChainHead, IsHead, Seqs
<1>2. CASE S # {}
  BY <1>2, LatestIsLast DEF ChainHead, IsHead, OneChain
<1> QED BY <1>1, <1>2

(***************************************************************************)
(* LineageVerifier has nothing to report about one chain.                  *)
(***************************************************************************)
LEMMA ChainHasNoFindings ==
    ASSUME NEW S, OneChain(S)
    PROVE  Findings(S) = {}
PROOF
<1> SUFFICES ASSUME NEW row \in S
             PROVE  ~Tampered(row) /\ ~BrokenLink(S, row) /\ ~SeqGap(S, row)
  BY DEF Findings
<1>1. PICK n \in Nat : Seqs(S) = 1..n
  BY DEF OneChain, Numbered
<1>2. \A p \in S : p.seq \in 1..n
  BY <1>1 DEF Seqs
<1> DEFINE B == Before(S, row)
<1>3. /\ ~Tampered(row)
      /\ row.seq = 1 => row.prev = NoMarker
      /\ \A p \in S : p.seq + 1 = row.seq => row.prev = p.marker
  BY DEF OneChain, Linked
<1>4. CASE row.seq = 1
  <2>1. B = {}
    BY <1>2, <1>4 DEF Before
  <2> QED BY <1>3, <1>4, <2>1 DEF BrokenLink, SeqGap, ChainHead
<1>5. CASE row.seq # 1
  <2>1. row.seq - 1 \in 1..n
    BY <1>2, <1>5
  <2>2. PICK p \in S : p.seq = row.seq - 1
    BY <1>1, <2>1 DEF Seqs
  <2>3. p \in B
    BY <1>2, <2>2 DEF Before
  <2>4. B \subseteq S /\ \A q \in B : q.seq \in 1..(row.seq - 1)
    BY <1>2 DEF Before
  <2>5. Numbered(B)
    <3>1. Seqs(B) = 1..(row.seq - 1)
      <4>1. ASSUME NEW k \in 1..(row.seq - 1) PROVE \E q \in B : q.seq = k
        <5>1. row.seq \in 1..n /\ k \in 1..n
          BY <1>2
        <5>2. PICK q \in S : q.seq = k
          BY <1>1, <5>1 DEF Seqs
        <5> QED BY <5>2, <1>2 DEF Before
      <4> QED BY <4>1, <2>4 DEF Seqs
    <3>2. \A x, y \in B : x.seq = y.seq => x = y
      BY <2>4 DEF OneChain, Numbered
    <3>3. row.seq - 1 \in Nat
      BY <2>1
    <3> QED BY <3>1, <3>2, <3>3 DEF Numbered
  <2> HIDE DEF B
  <2>6. Latest(B) \in B /\ p.seq <= Latest(B).seq
    BY <2>3, <2>5, LatestIsLast
  <2>7. Latest(B).seq = p.seq
    BY <2>2, <2>4, <2>6, <1>2
  <2>8. Latest(B) = p
    BY <2>4, <2>6, <2>7 DEF OneChain, Numbered
  <2>9. ChainHead(B).marker = p.marker /\ ChainHead(B).seq = row.seq - 1
    BY <2>3, <2>8, <2>2 DEF ChainHead
  <2>10. row.prev = p.marker
    BY <1>2, <1>3, <2>2
  <2> QED BY <1>2, <1>3, <2>9, <2>10 DEF BrokenLink, SeqGap, B
<1> QED BY <1>4, <1>5

(***************************************************************************)
(* Appending behind a head whose next place is free keeps one chain.       *)
(***************************************************************************)
LEMMA AppendKeepsChain ==
    ASSUME NEW S, OneChain(S), NEW h, IsHead(h, S), NEW e,
           \A row \in S : row.seq # h.seq + 1
    PROVE  /\ OneChain(S \cup {NextRow(h, e)})
           /\ Seqs(S) = 1..h.seq
           /\ h.seq \in Nat
PROOF
<1>1. PICK n \in Nat : Seqs(S) = 1..n
  BY DEF OneChain, Numbered
<1>2. \A p \in S : p.seq \in 1..n
  BY <1>1 DEF Seqs
<1>3. h.seq \in 0..n
  BY <1>2 DEF IsHead
<1>4. h.seq = n
  <2>1. SUFFICES ASSUME h.seq # n PROVE FALSE
    OBVIOUS
  <2>2. h.seq + 1 \in 1..n
    BY <1>3, <2>1
  <2> QED BY <1>1, <2>2 DEF Seqs
<1> DEFINE new == NextRow(h, e)
           T == S \cup {new}
<1>5. /\ new.seq = n + 1
      /\ new.prev = h.marker
      /\ ~Tampered(new)
  <2>1. new = [seq |-> n + 1, event |-> e, prev |-> h.marker,
               marker |-> MarkerFor(n + 1, e, h.marker)]
    BY <1>4 DEF NextRow
  <2> HIDE DEF new
  <2> QED BY <2>1 DEF Tampered
<1> HIDE DEF new
<1>6. Seqs(T) = 1..(n + 1)
  <2>1. Seqs(T) = Seqs(S) \cup {n + 1}
    BY <1>5 DEF Seqs
  <2>2. 1..(n + 1) = 1..n \cup {n + 1}
    OBVIOUS
  <2> QED BY <1>1, <2>1, <2>2
<1>7. \A p, q \in T : p.seq = q.seq => p = q
  BY <1>2, <1>5 DEF OneChain, Numbered
<1>8. Linked(T)
  <2> SUFFICES ASSUME NEW row \in T
               PROVE  /\ ~Tampered(row)
                      /\ row.seq = 1 => row.prev = NoMarker
                      /\ \A p \in T : p.seq + 1 = row.seq => row.prev = p.marker
    BY DEF Linked
  <2>1. CASE row \in S
    <3>1. \A p \in T : p.seq + 1 = row.seq => p \in S
      BY <1>2, <1>5, <2>1
    <3> QED BY <2>1, <3>1 DEF OneChain, Linked
  <2>2. CASE row = new
    <3>1. row.seq = 1 => row.prev = NoMarker
      BY <1>2, <1>4, <1>5, <2>2 DEF IsHead
    <3>2. ASSUME NEW p \in T, p.seq + 1 = row.seq PROVE row.prev = p.marker
      <4>1. p.seq = n /\ p \in S
        BY <1>2, <1>5, <2>2, <3>2
      <4>2. n # 0
        BY <1>2, <4>1
      <4>3. PICK x \in S : h.seq = x.seq /\ h.marker = x.marker
        BY <1>4, <4>2 DEF IsHead
      <4>4. x = p
        BY <1>4, <4>1, <4>3 DEF OneChain, Numbered
      <4> QED BY <1>5, <2>2, <4>3, <4>4
    <3> QED BY <1>5, <2>2, <3>1, <3>2
  <2> QED BY <2>1, <2>2
<1> QED BY <1>1, <1>4, <1>6, <1>7, <1>8 DEF OneChain, Numbered, new
=============================================================================
