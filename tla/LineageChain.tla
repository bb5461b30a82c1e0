---------------------------- MODULE LineageChain ----------------------------
(***************************************************************************)
(* The per-tenant provenance chain of lineage_service: what LineageEmit    *)
(* appends (emit.py) and what LineageVerifier reports (verification.py).   *)
(* The lineage table is a SET of rows: that the rows form one chain is a   *)
(* claim about its writers, not part of the representation.                *)
(***************************************************************************)
EXTENDS Naturals

CONSTANTS
    MarkerFor(_, _, _), \* canonical.marker_for: the HMAC of seq, event and the prior marker
    NoMarker            \* "", the prior marker of a first row

\* Rows of the lineage table: a place, what is recorded there, and the two markers.
AreRows(rows, Events) == \A row \in rows : row.seq \in Nat /\ row.event \in Events

\* session.latest(LINEAGE_TABLE, {}, order_by="seq").
Latest(rows) == CHOOSE row \in rows : \A other \in rows : other.seq <= row.seq

\* The chain head an emit continues: seq and integrity_marker of the latest row.
ChainHead(rows) ==
    IF rows = {} THEN [seq |-> 0, marker |-> NoMarker]
    ELSE [seq |-> Latest(rows).seq, marker |-> Latest(rows).marker]

\* Mutant: the row is sealed over an empty prior marker.
UnlinkedRow(head, event) ==
    [seq |-> head.seq + 1, event |-> event, prev |-> NoMarker,
     marker |-> MarkerFor(head.seq + 1, event, NoMarker)]

\* The row that continues the chain at `head`.
NextRow(head, event) ==
    [seq |-> head.seq + 1, event |-> event, prev |-> head.marker,
     marker |-> MarkerFor(head.seq + 1, event, head.marker)]

-----------------------------------------------------------------------------
(***************************************************************************)
(* LineageVerifier.verify: every row read in ascending order of seq,       *)
(* against the row read before it.                                         *)
(***************************************************************************)
Before(rows, row) == {other \in rows : other.seq < row.seq}

Tampered(row) == row.marker # MarkerFor(row.seq, row.event, row.prev)

BrokenLink(rows, row) == row.prev # ChainHead(Before(rows, row)).marker

SeqGap(rows, row) ==
    Before(rows, row) # {} /\ row.seq # ChainHead(Before(rows, row)).seq + 1

Findings(rows) ==
    {row \in rows : Tampered(row) \/ BrokenLink(rows, row) \/ SeqGap(rows, row)}
=============================================================================
