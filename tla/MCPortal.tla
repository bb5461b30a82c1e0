------------------------------ MODULE MCPortal ------------------------------
(***************************************************************************)
(* Instances of Portal for TLC: two BFF processes, two import processes,   *)
(* one startups process; a tenant with two associations and a stranger.    *)
(***************************************************************************)
EXTENDS Portal, TLC

CONSTANTS e1, e2, i1, i2, u1, t1, t2, p1, p2, g1, g2, d1, d2, a1, a2, a3

MCServes == i1 :> "import_service" @@ i2 :> "import_service" @@ u1 :> "startups"

MCDatabaseOf == a1 :> d1 @@ a2 :> d2 @@ a3 :> NoDatabase

Descriptor(state, assoc) == [state |-> state, assoc |-> assoc]
MCRegistered == t1 :> <<Descriptor("ACTIVE", a1)>> @@ t2 :> <<>>
MCPuts == t1 :> {Descriptor("SUSPENDED", a1), Descriptor("ACTIVE", a2)} @@ t2 :> {Descriptor("ACTIVE", a3)}

Token(p, role, t) == [principal |-> p, role |-> role, tenant |-> t]
Agent == Token(p1, "TENANT_AGENT", t1)
Request(op, token, arg) == [op |-> op, signed |-> TRUE, token |-> token, carriers |-> "none", arg |-> arg]

Import(g) == Request("import", Agent, g)

\* The startup e1 creates with its first request.
Created(t) == [tenant |-> t, id |-> <<e1, 1>>]

Op(op, token) == Request(op, token, NoSource)

\* What the gate turns away, a stranger who may have joined, and a request without a tenant.
Others ==
    {[Import(g1) EXCEPT !.signed = FALSE],
     [Import(g1) EXCEPT !.carriers = t2],
     Request("import", Token(p2, "TENANT_AGENT", t1), g1),
     [Op("memberships", Token(p2, "CONTROL", NoTenant)) EXCEPT !.carriers = t1],
     Op("directory", Token(p2, "CONTROL", NoTenant))}

MCMenu ==
    e1 :> {Import(g1), Op("create", Agent)} @@
    e2 :> {Import(g1), Import(g2), Request("import", Token(p1, "TENANT_AGENT", t2), g1),
           Request("update", Agent, Created(t1)), Request("read", Agent, Created(t2))}
          \cup Others

MCCopies == {<<t1, g1>>}
MCEnrolled == {<<p1, t1>>, <<p1, t2>>}
MCJoiners == {<<p2, t1>>}

\* What separates two markers is everything they are computed from.
MCMarker(seq, event, prev) == <<seq, event.key, event.target, prev # NoMarker>>
=============================================================================
