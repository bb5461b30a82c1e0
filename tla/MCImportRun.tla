---------------------------- MODULE MCImportRun ----------------------------
(***************************************************************************)
(* Instances of ImportRun for TLC: two uploads that copy the same natural  *)
(* keys in opposite order, the first with a rejected record and with a     *)
(* second, short batch, and a source no adapter reads.                     *)
(***************************************************************************)
EXTENDS ImportRun, TLC

CONSTANTS r1, r2, a, b, x, k1, k2, k3, u, v, j1, j2, j3

Rec(op, i, k, val) == [key |-> k, val |-> val, ref |-> <<op, i>>]

MCRaw ==
    a :> <<Rec(a, 1, k1, u), Rec(a, 2, NoKey, u), Rec(a, 3, k2, u), Rec(a, 4, k3, u)>>
    @@ b :> <<Rec(b, 1, k2, v), Rec(b, 2, k1, u)>>
    @@ x :> <<>>

\* Both runners are called for the first upload, one of them for the others too.
MCCalls == r1 :> {a} @@ r2 :> {a, b, x}

\* A marker tells apart rows that differ in place or content.
MCMarkerFor(seq, event, prev) == <<seq, event.source, event.operation, event.job, prev # NoMarker>>
=============================================================================
