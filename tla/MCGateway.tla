------------------------------ MODULE MCGateway ------------------------------
(***************************************************************************)
(* Instances of Gateway for TLC: two requests, one principal, two tenants. *)
(***************************************************************************)
EXTENDS Gateway, TLC

CONSTANTS r1, r2, t1, t2, p1, su1, su2, gs1, eyJ

MCSenders == Slots \X Kinds
MCMembers == {<<t1, p1>>}
MCRecords == <<t1, su1>> :> "named" @@ <<t1, su2>> :> "unnamed" @@ <<t2, su1>> :> "named"

Token(flaw, claim) == [flaw |-> flaw, claim |-> claim, sub |-> p1]
Good(t) == Token("none", t)

Request(method, route, ref, token, carriers) ==
    [method |-> method, route |-> route, ref |-> ref, wire |-> "clean", cor |-> NoRef,
     token |-> token, carriers |-> carriers, body |-> "ok"]

Update == Request("PATCH", "startup", su1, Good(t1), <<t1>>)
Read == Request("GET", "startup", su1, Good(t1), <<>>)
Import == Request("POST", "import", gs1, Good(t1), <<>>)
Memberships == Request("GET", "memberships", NoRef, Good(NoRef), <<>>)

MCRequests ==
    {Update, Import, Memberships,
     [Update EXCEPT !.body = "refused"],
     [Read EXCEPT !.ref = gs1], [Update EXCEPT !.ref = eyJ],
     [Update EXCEPT !.token = Good(t2)], [Update EXCEPT !.carriers = <<t1, t2>>],
     [Update EXCEPT !.token = Good(NoRef)], [Read EXCEPT !.token = Token("invalid", t1)],
     [Read EXCEPT !.token = Token("undecodable", t1)], [Import EXCEPT !.ref = su1], [Import EXCEPT !.cor = eyJ],
     [Memberships EXCEPT !.cor = eyJ], [Memberships EXCEPT !.wire = "query"],
     [Memberships EXCEPT !.route = "readiness", !.method = "PUT"]}

MCFollowers == {Read}
MCMenu == r1 :> MCRequests @@ r2 :> MCFollowers

Composed == [audit |-> TRUE, startup |-> TRUE, imports |-> TRUE]
MCConfigs == {Composed, [Composed EXCEPT !.audit = FALSE, !.imports = FALSE]}
MCAudited == {Composed}

\* One request, for a row without a name.
MCNamelessMenu == r1 :> {[Update EXCEPT !.ref = su2]} @@ r2 :> {Read}

\* A body with a key missing, and another gateway's event.
Foreign ==
    [audit_id |-> <<"other", "gateway">>, event_version |-> 1, occurred_at |-> Iso(0),
     correlation_id |-> p1, action |-> "RouteDenied", outcome |-> "rejected", actor_ref |-> NoRef,
     subject_ref |-> NoRef, tenant_ref |-> NoRef, carrier_ref |-> NoRef, record_ref |-> NoRef]
MCStrays ==
    {[kind |-> "gateway", event |-> Foreign],
     [kind |-> "gateway", event |-> [k \in DOMAIN Foreign \ {"outcome"} |-> Foreign[k]]]}
=============================================================================
