---------------------------- MODULE GatewayProofs ----------------------------
(***************************************************************************)
(* Proofs about Gateway and the sinks of AuditIngest, for any slots,       *)
(* tenants, principals, records, requests and faults.                      *)
(*                                                                         *)
(* The argument about the sinks: an emission is begun once, since each     *)
(* emitter has a place in the pipeline that is passed once, and from then  *)
(* on only its progress changes; a table only gains rows, each under a key *)
(* that was free; and a client is told of a success only by an edge that   *)
(* has its row.                                                            *)
(***************************************************************************)
EXTENDS Gateway, SequenceTheorems, TLAPS

Shaped(m) ==
    m = [kind |-> m.kind, event |-> m.event, try |-> m.try, pc |-> m.pc, fail |-> m.fail]

SinkShape ==
    /\ em = [x \in Senders |-> em[x]]
    /\ \A x \in Senders : Shaped(em[x])
    /\ \A x \in Senders : em[x].pc # "idle" => em[x].kind \in Kinds
    /\ rows = [k \in Kinds |-> rows[k]]
    /\ \A w \in wire : w[1] \in Senders /\ em[w[1]].pc # "idle"

\* A table of kind k has an event under its key and with its contents.
Holds(table, k, e) ==
    /\ DOMAIN e = WireKeys[k]
    /\ \E r \in table : r[IdKey[k]] = e[IdKey[k]] /\ ReplayMatches(r, e)

\* What a client was told of is in its table.
AckedIsRecorded ==
    \A x \in Senders :
        em[x].pc = "acked" => Holds(rows[em[x].kind], em[x].kind, em[x].event)

PathShape ==
    /\ pc = [s \in Slots |-> pc[s]]
    /\ dp = [s \in Slots |-> dp[s]]
    /\ \A s \in Slots : dp[s] = [stage |-> dp[s].stage, answer |-> dp[s].answer]

\* Each emitter's place in the pipeline is passed once.
EmitsOnce ==
    \A s \in Slots :
        /\ pc[s] \in {"idle", "auth", "read", "data"} => em[<<s, "gateway">>].pc = "idle"
        /\ pc[s] \in {"idle", "auth", "read"} => dp[s].stage = "none"
        /\ dp[s].stage \in {"none", "queued"} => em[<<s, "routing">>].pc = "idle"
        /\ dp[s].stage \in {"none", "queued", "routing", "run"} => em[<<s, "import">>].pc = "idle"

SinkInv == SinkShape /\ AckedIsRecorded
OnceInv == PathShape /\ EmitsOnce

-----------------------------------------------------------------------------
(***************************************************************************)
(* The three ways a step may touch the sinks.                              *)
(***************************************************************************)
\* An emission begins.
Begins(x, k, e) ==
    /\ x \in Senders /\ k \in Kinds /\ em[x].pc = "idle"
    /\ em' = [em EXCEPT ![x] = Emission(k, e)]
    /\ UNCHANGED <<wire, rows>>

\* An emission goes on, under the same key; if it is acked, it is recorded.
GoesOn(x, m) ==
    /\ em[x].pc \in {"post", "wait"} /\ m.pc # "idle" /\ Shaped(m)
    /\ m.kind = em[x].kind /\ m.event = em[x].event
    /\ m.pc = "acked" => Holds(rows'[m.kind], m.kind, m.event)

Advances == em' = em \/ \E x \in Senders : \E m : GoesOn(x, m) /\ em' = [em EXCEPT ![x] = m]

\* A table gains a row under a free key, or no table changes.
Gains(k, r) ==
    /\ \A q \in rows[k] : q[IdKey[k]] # r[IdKey[k]]
    /\ rows' = [rows EXCEPT ![k] = rows[k] \union {r}]

Appends == rows' = rows \/ \E k \in Kinds : \E r : Gains(k, r)

\* What the wire holds was posted by somebody.
Carries == \A w \in wire' : w[1] \in Senders /\ em'[w[1]].pc # "idle"

SinkMove == Advances /\ Appends /\ Carries

\* The row of an event is kept under the event's key.
LEMMA RowKeepsKey ==
    ASSUME NEW k \in Kinds, NEW e, DOMAIN e = WireKeys[k]
    PROVE  Row(e)[IdKey[k]] = e[IdKey[k]]
<1>1. IdKey[k] \in DOMAIN e /\ IdKey[k] # "occurred_at"
  BY DEF Kinds, IdKey, WireKeys
<1> QED
  BY <1>1 DEF Row

\* An append adds the event's row under a free key, or nothing.
LEMMA InsertedAppends ==
    ASSUME NEW k \in Kinds, NEW e, NEW c \in DbConduct, DOMAIN e = WireKeys[k],
           rows = [i \in Kinds |-> rows[i]],
           rows' = [rows EXCEPT ![k] = Inserted(k, e, c)]
    PROVE  /\ Appends
           /\ AppendAnswer(k, e, c) \in {"INSERTED", "DUPLICATE_MATCH"} => Holds(rows'[k], k, e)
<1>1. CASE Commits(k, c) /\ Under(k, e) = {}
  <2>1. rows' = [rows EXCEPT ![k] = rows[k] \union {Row(e)}]
    BY <1>1 DEF Inserted
  <2>2. \A q \in rows[k] : q[IdKey[k]] # Row(e)[IdKey[k]]
    BY <1>1, RowKeepsKey DEF Under
  <2>3. rows'[k] = rows[k] \union {Row(e)}
    BY <2>1
  <2>4. ReplayMatches(Row(e), e)
    BY DEF Kinds, WireKeys, Row, ReplayMatches, SameInstant
  <2>5. Holds(rows'[k], k, e)
    BY <2>3, <2>4, RowKeepsKey DEF Holds
  <2> QED
    BY <2>1, <2>2, <2>5 DEF Appends, Gains
<1>2. CASE ~(Commits(k, c) /\ Under(k, e) = {})
  <2>1. rows' = rows
    BY <1>2 DEF Inserted
  <2>2. AppendAnswer(k, e, c) \in {"INSERTED", "DUPLICATE_MATCH"}
            => \E r \in Under(k, e) : ReplayMatches(r, e)
    BY <1>2 DEF AppendAnswer, Commits, DbConduct
  <2> QED
    BY <2>1, <2>2 DEF Appends, Holds, Under
<1> QED
  BY <1>1, <1>2

-----------------------------------------------------------------------------
(***************************************************************************)
(* The steps of the sinks.                                                 *)
(***************************************************************************)
\* How a client takes a failure keeps its event; it is not a success.
LEMMA FailedGoesOn ==
    ASSUME NEW m, NEW kind, Shaped(m)
    PROVE  /\ Shaped(Failed(m, kind))
           /\ Failed(m, kind).kind = m.kind /\ Failed(m, kind).event = m.event
           /\ Failed(m, kind).pc \in {"post", "swallowed", "raised"}
  BY DEF Failed, Shaped

\* An answer leaves the event as it is, and acks only what was recorded.
LEMMA AnsweredGoesOn ==
    ASSUME NEW m, NEW answer, Shaped(m)
    PROVE  /\ Shaped(Answered(m, answer))
           /\ Answered(m, answer).kind = m.kind /\ Answered(m, answer).event = m.event
           /\ Answered(m, answer).pc \in {"post", "swallowed", "raised", "acked"}
           /\ Answered(m, answer).pc = "acked" => answer \in {"INSERTED", "DUPLICATE_MATCH"}
<1>1. CASE answer \in {"INSERTED", "DUPLICATE_MATCH"}
  BY <1>1 DEF Answered, Shaped
<1>2. CASE answer \notin {"INSERTED", "DUPLICATE_MATCH"}
  <2>1. PICK kind : Answered(m, answer) = Failed(m, kind)
    BY <1>2 DEF Answered
  <2> QED
    BY <2>1, FailedGoesOn
<1> QED
  BY <1>1, <1>2

\* A post goes on the wire, with the event and key it was begun with.
LEMMA PostMoves ==
    ASSUME SinkInv, NEW x \in Senders, Post(x)
    PROVE  SinkMove
<1> DEFINE m == [em[x] EXCEPT !.pc = "wait"]
<1>1. em' = [em EXCEPT ![x] = m] /\ rows' = rows /\ wire' = wire \union {<<x, em[x].try>>}
  BY DEF Post, SinkInv, SinkShape
<1>2. Shaped(m) /\ m.kind = em[x].kind /\ m.event = em[x].event /\ m.pc = "wait"
  BY DEF SinkInv, SinkShape, Shaped
<1>3. GoesOn(x, m)
  BY <1>2 DEF Post, GoesOn
<1>4. em'[x] = m /\ \A y \in Senders : y # x => em'[y] = em[y]
  BY <1>1 DEF SinkInv, SinkShape
<1>5. Carries
  BY <1>1, <1>2, <1>4 DEF SinkInv, SinkShape, Carries
<1> QED
  BY <1>1, <1>3, <1>5 DEF SinkMove, Advances, Appends

\* A client that makes something of an answer, with the wire no fuller.
LEMMA BecomesMoves ==
    ASSUME SinkInv, NEW x \in Senders, NEW m, GoesOn(x, m), Becomes(x, m), wire' \subseteq wire
    PROVE  Advances /\ Carries
<1>1. em' = [em EXCEPT ![x] = m]
  BY DEF Becomes
<1>2. em'[x] = m /\ \A y \in Senders : y # x => em'[y] = em[y]
  BY <1>1 DEF SinkInv, SinkShape
<1>3. Carries
  BY <1>2 DEF SinkInv, SinkShape, Carries, GoesOn
<1> QED
  BY <1>1, <1>3 DEF Advances

\* An attempt fails: nothing is recorded, nothing is confirmed.
LEMMA FailureMoves ==
    ASSUME SinkInv, NEW x \in Senders, NEW kind, em[x].pc \in {"post", "wait"},
           Becomes(x, Failed(em[x], kind)), wire' \subseteq wire, rows' = rows
    PROVE  SinkMove
<1>1. Shaped(em[x])
  BY DEF SinkInv, SinkShape
<1>2. GoesOn(x, Failed(em[x], kind))
  BY <1>1, FailedGoesOn DEF GoesOn
<1> QED
  BY <1>2, BecomesMoves DEF SinkMove, Appends

\* The edge takes a post: it records, replays or refuses.
LEMMA IngestMoves ==
    ASSUME SinkInv, NEW w \in wire, Ingest(w)
    PROVE  SinkMove
<1> DEFINE x == w[1]  k == em[x].kind  e == em[x].event
<1>1. x \in Senders /\ k \in Kinds /\ Shaped(em[x]) /\ rows = [i \in Kinds |-> rows[i]]
  BY DEF SinkInv, SinkShape
<1>2. PICK c \in DbConduct, delivered \in {"whole", "damaged", "lost"} :
        LET parsed == Parses(k, e)
            answer == IF parsed THEN AppendAnswer(k, e, c) ELSE "400" IN
        /\ rows' = IF parsed THEN [rows EXCEPT ![k] = Inserted(k, e, c)] ELSE rows
        /\ IF Waits(w) /\ delivered # "lost"
           THEN Becomes(x, IF delivered = "damaged" THEN Failed(em[x], "invalid")
                           ELSE Answered(em[x], answer))
           ELSE UNCHANGED <<em, dropped>>
  BY DEF Ingest
<1> DEFINE answer == IF Parses(k, e) THEN AppendAnswer(k, e, c) ELSE "400"
<1>3. wire' \subseteq wire
  BY DEF Ingest
<1>4. /\ Appends
      /\ answer \in {"INSERTED", "DUPLICATE_MATCH"} => Holds(rows'[k], k, e)
  <2>1. CASE Parses(k, e)
    <3>1. DOMAIN e = WireKeys[k] /\ rows' = [rows EXCEPT ![k] = Inserted(k, e, c)]
      BY <1>2, <2>1 DEF Parses
    <3> HIDE DEF k, e
    <3> QED
      BY <1>1, <2>1, <3>1, InsertedAppends
  <2>2. CASE ~Parses(k, e)
    BY <1>2, <2>2 DEF Appends
  <2> QED
    BY <2>1, <2>2
<1>5. CASE Waits(w) /\ delivered # "lost" /\ delivered = "damaged"
  <2>1. GoesOn(x, Failed(em[x], "invalid"))
    BY <1>1, <1>5, FailedGoesOn DEF GoesOn, Waits
  <2>2. Becomes(x, Failed(em[x], "invalid"))
    BY <1>2, <1>5
  <2> QED
    BY <1>1, <1>3, <1>4, <2>1, <2>2, BecomesMoves DEF SinkMove
<1>6. CASE Waits(w) /\ delivered = "whole"
  <2>1. GoesOn(x, Answered(em[x], answer))
    <3>1. em[x].pc = "wait"
      BY <1>6 DEF Waits
    <3> HIDE DEF answer
    <3> QED
      BY <1>1, <1>4, <3>1, AnsweredGoesOn DEF GoesOn
  <2>2. Becomes(x, Answered(em[x], answer))
    BY <1>2, <1>6
  <2> QED
    BY <1>1, <1>3, <1>4, <2>1, <2>2, BecomesMoves DEF SinkMove
<1>7. CASE ~(Waits(w) /\ delivered # "lost")
  <2>1. em' = em
    BY <1>2, <1>7
  <2> QED
    BY <1>3, <1>4, <2>1 DEF SinkMove, Advances, Carries, SinkInv, SinkShape
<1> QED
  BY <1>2, <1>5, <1>6, <1>7

\* What others post to the sinks only adds rows under free keys.
LEMMA StrayMoves ==
    ASSUME SinkInv, NEW x \in Strays, StrayPost(x)
    PROVE  SinkMove
<1>1. x.kind \in Kinds /\ "works" \in DbConduct /\ rows = [i \in Kinds |-> rows[i]]
  BY SinkAssumption DEF DbConduct, SinkInv, SinkShape
<1>2. Appends
  <2>1. CASE Parses(x.kind, x.event)
    <3>1. /\ DOMAIN x.event = WireKeys[x.kind]
          /\ rows' = [rows EXCEPT ![x.kind] = Inserted(x.kind, x.event, "works")]
      BY <2>1 DEF Parses, StrayPost
    <3> QED
      BY <1>1, <3>1, InsertedAppends
  <2>2. CASE ~Parses(x.kind, x.event)
    BY <2>2 DEF Appends, StrayPost
  <2> QED
    BY <2>1, <2>2
<1> QED
  BY <1>2 DEF SinkMove, StrayPost, Advances, Carries, SinkInv, SinkShape

\* Every step of the sinks and their clients is one of the three ways.
LEMMA SinkStepMoves ==
    ASSUME SinkInv, SinkStep
    PROVE  SinkMove
<1>1. CASE \E x \in Senders : SenderStep(x)
  <2>1. PICK x \in Senders : SenderStep(x)
    BY <1>1
  <2>2. CASE Post(x)
    BY <2>2, PostMoves
  <2>3. CASE Refused(x)
    BY <2>3, FailureMoves DEF Refused
  <2>4. CASE TimeOut(x)
    BY <2>4, FailureMoves DEF TimeOut
  <2>5. ASSUME NEW w \in wire, Ingest(w) PROVE SinkMove
    BY <2>5, IngestMoves
  <2>6. ASSUME NEW w \in wire, Lost(w) PROVE SinkMove
    BY <2>6 DEF Lost, SinkMove, Advances, Appends, Carries, SinkInv, SinkShape
  <2> QED
    BY <2>1, <2>2, <2>3, <2>4, <2>5, <2>6 DEF SenderStep
<1>2. CASE \E x \in Strays : StrayPost(x)
  BY <1>2, StrayMoves
<1>3. CASE \E k \in Kinds : EdgeRestarts(k)
  BY <1>3 DEF EdgeRestarts, SinkMove, Advances, Appends, Carries, SinkInv, SinkShape
<1> QED
  BY <1>1, <1>2, <1>3 DEF SinkStep

-----------------------------------------------------------------------------
(***************************************************************************)
(* The steps of the request path, as the sinks see them.                   *)
(***************************************************************************)
\* Slot s is answered, with or without an event first.
Answers(s) ==
    \/ \E e : /\ em' = [em EXCEPT ![<<s, "gateway">>] = Emission("gateway", e)]
              /\ pc' = [pc EXCEPT ![s] = "emit"]
    \/ em' = em /\ pc' = [pc EXCEPT ![s] = "done"]

GatewayMoves(s) ==
    \/ Answers(s) /\ pc[s] \in {"auth", "read", "data"} /\ dp' = dp
    \/ /\ em' = em /\ dp' = dp
       /\ \E p : /\ pc' = [pc EXCEPT ![s] = p]
                 /\ p = "done" \/ (pc[s] = "idle" /\ p = "auth") \/ (pc[s] = "auth" /\ p = "read")
    \/ /\ em' = em /\ dp' = [dp EXCEPT ![s].stage = "queued"]
       /\ pc[s] = "auth" /\ pc' = [pc EXCEPT ![s] = "data"]

DataMoves(s) ==
    /\ pc' = pc
    /\ \E d : /\ dp' = [dp EXCEPT ![s] = d] /\ d = [stage |-> d.stage, answer |-> d.answer]
              /\ \/ /\ em' = em /\ dp[s].stage # "none"
                    /\ \/ d.stage = "answered"
                       \/ dp[s].stage \in {"queued", "routing"} /\ d.stage = "run"
                 \/ /\ dp[s].stage = "queued" /\ d.stage = "routing"
                    /\ \E e : em' = [em EXCEPT ![<<s, "routing">>] = Emission("routing", e)]
                 \/ /\ dp[s].stage = "run" /\ d.stage = "record"
                    /\ \E e : em' = [em EXCEPT ![<<s, "import">>] = Emission("import", e)]

PathMove ==
    /\ UNCHANGED <<wire, rows>>
    /\ \/ \E s \in Slots : GatewayMoves(s) \/ DataMoves(s)
       \/ UNCHANGED <<pc, dp, em>>

\* The gateway's emitter begins its one emission or none.
LEMMA EmitThenAnswers ==
    ASSUME NEW s, NEW e, NEW r, EmitThen(s, e, r)
    PROVE  Answers(s)
  BY DEF EmitThen, Begin, Respond, Answers

\* So does a refusal.
LEMMA RejectAnswers ==
    ASSUME NEW s, NEW code, Reject(s, code)
    PROVE  Answers(s)
  BY EmitThenAnswers DEF Reject, RouteDenied

\* An arrival begins no emission.
LEMMA HandleMoves ==
    ASSUME NEW s \in Slots, NEW q, Handle(s, q)
    PROVE  PathMove
<1>1. em' = em /\ dp' = dp /\ UNCHANGED <<wire, rows>> /\ pc[s] = "idle"
  BY DEF Handle, sinkVars
<1>2. pc' = [pc EXCEPT ![s] = "done"] \/ pc' = [pc EXCEPT ![s] = "auth"]
  BY DEF Handle, Respond
<1> QED
  BY <1>1, <1>2 DEF PathMove, GatewayMoves

\* The gateway goes on from the auth router's answer, past that place for good.
LEMMA AuthenticatedMoves ==
    ASSUME NEW s \in Slots, Authenticated(s)
    PROVE  PathMove
<1>1. UNCHANGED <<wire, rows>> /\ pc[s] = "auth"
  BY DEF Authenticated
<1>2. CASE au[s].answer = "ok"
  <2>1. Proceed(s)
    BY <1>2 DEF Authenticated
  <2>2. CASE pc' = [pc EXCEPT ![s] = "read"] /\ UNCHANGED <<em, resp, dp>>
    BY <1>1, <2>2 DEF PathMove, GatewayMoves
  <2>3. CASE RouteDenied(s, Actor(s), NoRef, Answer(403, "tenant_context_required")) /\ UNCHANGED dp
    BY <1>1, <2>3, EmitThenAnswers DEF RouteDenied, PathMove, GatewayMoves
  <2>4. CASE Respond(s, Answer(403, "forbidden")) /\ UNCHANGED <<em, dp>>
    BY <1>1, <2>4 DEF Respond, PathMove, GatewayMoves
  <2>5. CASE /\ pc' = [pc EXCEPT ![s] = "data"]
             /\ dp' = [dp EXCEPT ![s].stage = "queued"]
             /\ UNCHANGED <<em, resp>>
    BY <1>1, <2>5 DEF PathMove, GatewayMoves
  <2> QED
    BY <2>1, <2>2, <2>3, <2>4, <2>5 DEF Proceed
<1>3. CASE au[s].answer # "ok"
  <2>1. Answers(s) /\ dp' = dp
    BY <1>3, RejectAnswers DEF Authenticated
  <2> QED
    BY <1>1, <2>1 DEF PathMove, GatewayMoves
<1> QED
  BY <1>2, <1>3

\* The gateway goes on from the edge's answer.
LEMMA ConcludedMoves ==
    ASSUME NEW s \in Slots, Concluded(s)
    PROVE  PathMove
<1>1. UNCHANGED <<wire, rows>> /\ pc[s] = "data" /\ dp' = dp /\ Conclude(s, dp[s].answer)
  BY DEF Concluded
<1>2. Answers(s)
  <2>1. \/ EmitThen(s, StartupEvent(s), Answer(200, "ok"))
        \/ \E r : Respond(s, r) /\ UNCHANGED em
        \/ RouteDenied(s, Actor(s), Target(s), Answer(403, "forbidden"))
    BY <1>1 DEF Conclude
  <2> QED
    BY <2>1, EmitThenAnswers DEF RouteDenied, Respond, Answers
<1> QED
  BY <1>1, <1>2 DEF PathMove, GatewayMoves

\* The control-plane read tells of itself or of its refusal, once.
LEMMA ReadMembershipsMoves ==
    ASSUME NEW s \in Slots, ReadMemberships(s)
    PROVE  PathMove
<1>1. UNCHANGED <<wire, rows>> /\ pc[s] = "read" /\ dp' = dp
  BY DEF ReadMemberships
<1>2. Answers(s)
  BY EmitThenAnswers DEF ReadMemberships, RouteDenied, Respond, Answers
<1> QED
  BY <1>1, <1>2 DEF PathMove, GatewayMoves

\* An answer of a data-plane edge that is working.
LEMMA RepliesMoves ==
    ASSUME OnceInv, NEW s \in Slots, NEW answer, Replies(s, answer), dp[s].stage # "none",
           UNCHANGED <<em, pc>>
    PROVE  DataMoves(s)
<1> DEFINE c == [dp[s] EXCEPT !.stage = "answered"]
           d == [c EXCEPT !.answer = answer]
<1>1. dp[s] = [stage |-> dp[s].stage, answer |-> dp[s].answer]
  BY DEF OnceInv, PathShape
<1>2. c = [stage |-> c.stage, answer |-> c.answer] /\ c.stage = "answered"
  BY <1>1
<1>3. d = [stage |-> d.stage, answer |-> d.answer] /\ d.stage = "answered"
  <2> HIDE DEF c
  <2> QED
    BY <1>2
<1>4. dp' = [dp EXCEPT ![s] = d]
  BY DEF OnceInv, PathShape, Replies
<1> HIDE DEF d
<1> QED
  BY <1>3, <1>4 DEF DataMoves

\* The router's emitter begins when a session is opened, once.
LEMMA OpenSessionMoves ==
    ASSUME OnceInv, NEW s \in Slots, OpenSession(s)
    PROVE  PathMove
<1>1. UNCHANGED <<wire, rows, pc>> /\ dp[s].stage = "queued"
  BY DEF OpenSession
<1>2. /\ dp = [t \in Slots |-> dp[t]]
      /\ dp[s] = [stage |-> dp[s].stage, answer |-> dp[s].answer]
  BY DEF OnceInv, PathShape
<1>3. ASSUME NEW action, NEW code, Routes(s, action, code)
      PROVE  DataMoves(s)
  <2>1. CASE cfg.audit
    <3> DEFINE d == [dp[s] EXCEPT !.stage = "routing"]
    <3>1. d = [stage |-> d.stage, answer |-> d.answer] /\ d.stage = "routing"
      BY <1>2
    <3>2. dp' = [dp EXCEPT ![s] = d]
      BY <1>2, <1>3, <2>1 DEF Routes
    <3>3. \E e : em' = [em EXCEPT ![<<s, "routing">>] = Emission("routing", e)]
      BY <1>3, <2>1 DEF Routes, Begin
    <3> QED
      BY <1>1, <3>1, <3>2, <3>3 DEF DataMoves
  <2>2. CASE ~cfg.audit
    <3> DEFINE c == [dp[s] EXCEPT !.stage = IF action = "Route" THEN "run" ELSE "answered"]
               d == [c EXCEPT !.answer = IF action = "Route" THEN "none" ELSE "denied"]
    <3>1. c = [stage |-> c.stage, answer |-> c.answer] /\ c.stage \in {"run", "answered"}
      BY <1>2
    <3>2. d = [stage |-> d.stage, answer |-> d.answer] /\ d.stage \in {"run", "answered"}
      <4> HIDE DEF c
      <4> QED
        BY <3>1
    <3>3. dp' = [dp EXCEPT ![s] = d] /\ em' = em
      BY <1>2, <1>3, <2>2 DEF Routes
    <3> HIDE DEF d
    <3> QED
      BY <1>1, <3>2, <3>3 DEF DataMoves
  <2> QED
    BY <2>1, <2>2
<1>4. ASSUME Replies(s, "refused"), UNCHANGED em
      PROVE  DataMoves(s)
  BY <1>1, <1>4, RepliesMoves
<1> QED
  BY <1>1, <1>3, <1>4 DEF OpenSession, PathMove

\* The router learns of its event's fate and begins nothing.
LEMMA RoutedMoves ==
    ASSUME OnceInv, NEW s \in Slots, Routed(s)
    PROVE  PathMove
<1>1. UNCHANGED <<em, wire, rows, pc>> /\ dp[s].stage = "routing"
  BY DEF Routed, sinkVars
<1>2. CASE Replies(s, "denied")
  BY <1>1, <1>2, RepliesMoves DEF PathMove
<1>3. CASE dp' = [dp EXCEPT ![s].stage = "run"]
  <2> DEFINE d == [dp[s] EXCEPT !.stage = "run"]
  <2>1. d = [stage |-> d.stage, answer |-> d.answer] /\ d.stage = "run"
    BY DEF OnceInv, PathShape
  <2>2. dp' = [dp EXCEPT ![s] = d]
    BY <1>3 DEF OnceInv, PathShape
  <2> HIDE DEF d
  <2> QED
    BY <1>1, <2>1, <2>2 DEF PathMove, DataMoves
<1> QED
  BY <1>2, <1>3 DEF Routed

\* The operation runs; an import begins its last event, once.
LEMMA RunDataMoves ==
    ASSUME OnceInv, NEW s \in Slots, RunData(s)
    PROVE  PathMove
<1>1. UNCHANGED <<wire, rows, pc>> /\ dp[s].stage = "run"
  BY DEF RunData
<1>2. CASE \E answer : Replies(s, answer) /\ UNCHANGED em
  BY <1>1, <1>2, RepliesMoves DEF PathMove
<1>3. CASE \E e : Begin(<<s, "import">>, "import", e) /\ dp' = [dp EXCEPT ![s].stage = "record"]
  <2> DEFINE d == [dp[s] EXCEPT !.stage = "record"]
  <2>1. d = [stage |-> d.stage, answer |-> d.answer] /\ d.stage = "record"
    BY DEF OnceInv, PathShape
  <2>2. dp' = [dp EXCEPT ![s] = d]
    BY <1>3 DEF OnceInv, PathShape
  <2>3. \E e : em' = [em EXCEPT ![<<s, "import">>] = Emission("import", e)]
    BY <1>3 DEF Begin
  <2> HIDE DEF d
  <2> QED
    BY <1>1, <2>1, <2>2, <2>3 DEF PathMove, DataMoves
<1>4. Edge(req[s]) \in {"read", "update", "import", "dispatch"}
  BY DEF Edge, Op
<1>5. CASE RunStartup(s)
  BY <1>2, <1>5 DEF RunStartup
<1>6. CASE RunImport(s)
  BY <1>2, <1>3, <1>6 DEF RunImport
<1> QED
  BY <1>2, <1>4, <1>5, <1>6 DEF RunData

\* The import edge learns of its event's fate and begins nothing.
LEMMA ImportRecordedMoves ==
    ASSUME OnceInv, NEW s \in Slots, ImportRecorded(s)
    PROVE  PathMove
<1>1. UNCHANGED <<em, wire, rows, pc>> /\ dp[s].stage = "record"
  BY DEF ImportRecorded, sinkVars
<1>2. \E answer : Replies(s, answer)
  BY DEF ImportRecorded
<1> QED
  BY <1>1, <1>2, RepliesMoves DEF PathMove

\* Every step of the system is one of the path or one of the sinks.
LEMMA StepMoves ==
    ASSUME OnceInv, SinkInv, [GNext]_gvars
    PROVE  PathMove \/ (SinkMove /\ UNCHANGED <<pc, dp>>)
<1>1. ASSUME NEW s \in Slots, Arrives(s) \/ GatewayStep(s)
      PROVE  PathMove
  <2>1. CASE Arrives(s)
    BY <2>1, HandleMoves DEF Arrives
  <2>2. CASE Emitted(s)
    <3>1. UNCHANGED <<em, wire, rows, dp>> /\ pc' = [pc EXCEPT ![s] = "done"]
      BY <2>2 DEF Emitted, Respond, sinkVars
    <3> QED
      BY <3>1 DEF PathMove, GatewayMoves
  <2> QED
    BY <1>1, <2>1, <2>2, AuthenticatedMoves, ReadMembershipsMoves, ConcludedMoves DEF GatewayStep
<1>2. ASSUME NEW s \in Slots, AuthStep(s)
      PROVE  PathMove
  BY <1>2 DEF AuthStep, Authenticate, AuthReads, PathMove, sinkVars
<1>3. ASSUME NEW s \in Slots, DataStep(s)
      PROVE  PathMove
  BY <1>3, OpenSessionMoves, RoutedMoves, RunDataMoves, ImportRecordedMoves DEF DataStep
<1>4. ASSUME NEW s \in Slots, AuthTimesOut(s)
      PROVE  PathMove
  <2>1. UNCHANGED <<wire, rows, dp>> /\ pc[s] = "auth" /\ Answers(s)
    BY <1>4, RejectAnswers DEF AuthTimesOut
  <2> QED
    BY <2>1 DEF PathMove, GatewayMoves
<1>5. ASSUME NEW s \in Slots, DataTimesOut(s)
      PROVE  PathMove
  <2>1. UNCHANGED <<em, wire, rows, dp>> /\ pc[s] = "data" /\ Answers(s)
    BY <1>5 DEF DataTimesOut, Respond, Answers
  <2> QED
    BY <2>1 DEF PathMove, GatewayMoves
<1>6. CASE SinkStep /\ UNCHANGED pathVars
  BY <1>6, SinkStepMoves DEF pathVars
<1>7. CASE ControlPlaneChanges \/ Tick
  BY <1>7 DEF ControlPlaneChanges, Revoke, Grant, SetReady, Changes, Tick, PathMove, sinkVars
<1>8. CASE UNCHANGED gvars
  BY <1>8 DEF gvars, sinkVars, pathVars, PathMove
<1> QED
  BY <1>1, <1>2, <1>3, <1>4, <1>5, <1>6, <1>7, <1>8 DEF GNext

-----------------------------------------------------------------------------
(***************************************************************************)
(* The invariant.                                                          *)
(***************************************************************************)
\* A step of the path leaves the sinks alone or begins one emission.
LEMMA PathBegins ==
    ASSUME OnceInv, SinkInv, PathMove
    PROVE  UNCHANGED <<em, wire, rows>> \/ \E x \in Senders, k \in Kinds : \E e : Begins(x, k, e)
<1>1. \A s \in Slots, k \in Kinds : <<s, k>> \in Senders
  BY GatewayAssumption
<1>2. ASSUME NEW s \in Slots, GatewayMoves(s), em' # em, UNCHANGED <<wire, rows>>
      PROVE  \E e : Begins(<<s, "gateway">>, "gateway", e)
  <2>1. em[<<s, "gateway">>].pc = "idle"
    BY <1>2 DEF GatewayMoves, OnceInv, EmitsOnce
  <2> QED
    BY <1>1, <1>2, <2>1 DEF GatewayMoves, Answers, Begins, Kinds
<1>3. ASSUME NEW s \in Slots, DataMoves(s), em' # em, UNCHANGED <<wire, rows>>
      PROVE  \E k \in {"routing", "import"} : \E e : Begins(<<s, k>>, k, e)
  <2>1. CASE dp[s].stage = "queued" /\ \E e : em' = [em EXCEPT ![<<s, "routing">>] = Emission("routing", e)]
    <3>1. em[<<s, "routing">>].pc = "idle"
      BY <2>1 DEF OnceInv, EmitsOnce
    <3> QED
      BY <1>1, <1>3, <2>1, <3>1 DEF Begins, Kinds
  <2>2. CASE dp[s].stage = "run" /\ \E e : em' = [em EXCEPT ![<<s, "import">>] = Emission("import", e)]
    <3>1. em[<<s, "import">>].pc = "idle"
      BY <2>2 DEF OnceInv, EmitsOnce
    <3> QED
      BY <1>1, <1>3, <2>2, <3>1 DEF Begins, Kinds
  <2> QED
    BY <1>3, <2>1, <2>2 DEF DataMoves
<1> QED
  BY <1>1, <1>2, <1>3 DEF PathMove, Kinds

\* Beginning an emission keeps the invariant of the sinks.
LEMMA BeginsKeeps ==
    ASSUME SinkInv, NEW x \in Senders, NEW k \in Kinds, NEW e, Begins(x, k, e)
    PROVE  SinkInv'
<1>1. /\ em'[x] = Emission(k, e)
      /\ \A y \in Senders : y # x => em'[y] = em[y]
      /\ em' = [y \in Senders |-> em'[y]]
  BY DEF SinkInv, SinkShape, Begins
<1>2. Shaped(Emission(k, e)) /\ Emission(k, e).pc = "post" /\ Emission(k, e).kind = k
  BY DEF Shaped, Emission
<1>3. SinkShape'
  BY <1>1, <1>2 DEF SinkInv, SinkShape, Begins, Shaped
<1>4. AckedIsRecorded'
  BY <1>1, <1>2 DEF SinkInv, AckedIsRecorded, Begins
<1> QED
  BY <1>3, <1>4 DEF SinkInv

\* What a table has it keeps.
LEMMA TablesGrow ==
    ASSUME SinkInv, Appends
    PROVE  /\ rows' = [k \in Kinds |-> rows'[k]]
           /\ \A k \in Kinds : rows[k] \subseteq rows'[k]
  BY DEF Appends, Gains, SinkInv, SinkShape

\* So does every other way of touching them.
LEMMA SinkMoveKeeps ==
    ASSUME SinkInv, SinkMove
    PROVE  SinkInv'
<1>1. rows' = [k \in Kinds |-> rows'[k]] /\ \A k \in Kinds : rows[k] \subseteq rows'[k]
  BY TablesGrow DEF SinkMove
<1>2. \A y \in Senders :
        em[y].pc = "acked" => Holds(rows'[em[y].kind], em[y].kind, em[y].event)
  BY <1>1 DEF SinkInv, SinkShape, AckedIsRecorded, Holds
<1>3. CASE em' = em
  BY <1>1, <1>2, <1>3 DEF SinkInv, SinkShape, AckedIsRecorded, SinkMove, Carries, Shaped
<1>4. ASSUME NEW x \in Senders, NEW m, GoesOn(x, m), em' = [em EXCEPT ![x] = m]
      PROVE  SinkInv'
  <2>1. /\ em'[x] = m
        /\ \A y \in Senders : y # x => em'[y] = em[y]
        /\ em' = [y \in Senders |-> em'[y]]
    BY <1>4 DEF SinkInv, SinkShape
  <2>2. SinkShape'
    BY <1>1, <1>4, <2>1 DEF SinkInv, SinkShape, SinkMove, Carries, GoesOn, Shaped
  <2>3. AckedIsRecorded'
    BY <1>2, <1>4, <2>1 DEF AckedIsRecorded, GoesOn
  <2> QED
    BY <2>2, <2>3 DEF SinkInv
<1> QED
  BY <1>3, <1>4 DEF SinkMove, Advances

\* A new emission is one emitter's alone.
LEMMA OneEmitter ==
    ASSUME SinkInv, NEW s \in Slots, NEW k \in Kinds,
           \E e : em' = [em EXCEPT ![<<s, k>>] = Emission(k, e)]
    PROVE  \A t \in Slots, j \in Kinds : (t # s \/ j # k) => em'[<<t, j>>] = em[<<t, j>>]
<1>1. \A t \in Slots, j \in Kinds : <<t, j>> \in Senders
  BY GatewayAssumption
<1>2. ASSUME NEW t \in Slots, NEW j \in Kinds, t # s \/ j # k
      PROVE  em'[<<t, j>>] = em[<<t, j>>]
  <2>1. <<t, j>> # <<s, k>> /\ <<t, j>> \in Senders
    BY <1>1, <1>2
  <2> QED
    BY <2>1 DEF SinkInv, SinkShape
<1> QED
  BY <1>2

\* An emitter's place in the pipeline stays passed.
LEMMA PathKeepsOnce ==
    ASSUME OnceInv, SinkInv, PathMove
    PROVE  OnceInv'
<1>1. /\ pc = [s \in Slots |-> pc[s]] /\ dp = [s \in Slots |-> dp[s]]
      /\ \A s \in Slots : dp[s] = [stage |-> dp[s].stage, answer |-> dp[s].answer]
  BY DEF OnceInv, PathShape
<1> USE DEF OnceInv, PathShape, EmitsOnce
<1>2. ASSUME NEW s \in Slots, GatewayMoves(s)
      PROVE  OnceInv'
  <2>1. ASSUME dp' = dp, Answers(s), pc[s] \in {"auth", "read", "data"}
        PROVE  OnceInv'
    <3>0. \A t \in Slots, k \in Kinds : (t # s \/ k # "gateway") => em'[<<t, k>>] = em[<<t, k>>]
      <4>1. CASE em' = em
        BY <4>1
      <4>2. CASE \E e : em' = [em EXCEPT ![<<s, "gateway">>] = Emission("gateway", e)]
        <5>1. "gateway" \in Kinds
          BY DEF Kinds
        <5> QED
          BY <4>2, <5>1, OneEmitter
      <4> QED
        BY <2>1, <4>1, <4>2 DEF Answers
    <3>1. \A t \in Slots : \A k \in {"routing", "import"} : em'[<<t, k>>] = em[<<t, k>>]
      BY <3>0 DEF Kinds
    <3>2. \A t \in Slots : t # s => em'[<<t, "gateway">>] = em[<<t, "gateway">>] /\ pc'[t] = pc[t]
      BY <1>1, <2>1, <3>0 DEF Answers, Kinds
    <3>3. pc' = [t \in Slots |-> pc'[t]] /\ pc'[s] \in {"emit", "done"}
      BY <2>1, <1>1 DEF Answers
    <3> QED
      BY <1>1, <2>1, <3>1, <3>2, <3>3
  <2>2. ASSUME em' = em, dp' = dp, NEW p, pc' = [pc EXCEPT ![s] = p],
               p = "done" \/ (pc[s] = "idle" /\ p = "auth") \/ (pc[s] = "auth" /\ p = "read")
        PROVE  OnceInv'
    <3>1. pc' = [t \in Slots |-> pc'[t]] /\ pc'[s] = p /\ \A t \in Slots : t # s => pc'[t] = pc[t]
      BY <1>1, <2>2
    <3> QED
      BY <1>1, <2>2, <3>1
  <2>3. ASSUME em' = em, dp' = [dp EXCEPT ![s].stage = "queued"],
               pc[s] = "auth", pc' = [pc EXCEPT ![s] = "data"]
        PROVE  OnceInv'
    <3> DEFINE d == [dp[s] EXCEPT !.stage = "queued"]
    <3>1. d = [stage |-> d.stage, answer |-> d.answer] /\ d.stage = "queued"
      BY <1>1
    <3>2. dp' = [dp EXCEPT ![s] = d]
      BY <1>1, <2>3
    <3>3. dp' = [t \in Slots |-> dp'[t]] /\ dp'[s] = d /\ \A t \in Slots : t # s => dp'[t] = dp[t]
      BY <1>1, <3>2
    <3>4. pc' = [t \in Slots |-> pc'[t]] /\ pc'[s] = "data" /\ \A t \in Slots : t # s => pc'[t] = pc[t]
      BY <1>1, <2>3
    <3>5. dp[s].stage = "none"
      BY <2>3
    <3> HIDE DEF d
    <3>6. PathShape'
      BY <1>1, <3>1, <3>3, <3>4
    <3>7. ASSUME NEW t \in Slots
          PROVE  /\ pc'[t] \in {"idle", "auth", "read", "data"} => em'[<<t, "gateway">>].pc = "idle"
                 /\ pc'[t] \in {"idle", "auth", "read"} => dp'[t].stage = "none"
                 /\ dp'[t].stage \in {"none", "queued"} => em'[<<t, "routing">>].pc = "idle"
                 /\ dp'[t].stage \in {"none", "queued", "routing", "run"} => em'[<<t, "import">>].pc = "idle"
      <4>1. CASE t # s
        BY <2>3, <3>3, <3>4, <4>1
      <4>2. CASE t = s
        BY <2>3, <3>1, <3>3, <3>4, <3>5, <4>2
      <4> QED
        BY <4>1, <4>2
    <3> QED
      BY <3>6, <3>7
  <2> QED
    BY <1>2, <2>1, <2>2, <2>3 DEF GatewayMoves
<1>3. ASSUME NEW s \in Slots, DataMoves(s)
      PROVE  OnceInv'
  <2>1. PICK d :
          /\ dp' = [dp EXCEPT ![s] = d] /\ d = [stage |-> d.stage, answer |-> d.answer]
          /\ \/ /\ em' = em /\ dp[s].stage # "none"
                /\ \/ d.stage = "answered"
                   \/ dp[s].stage \in {"queued", "routing"} /\ d.stage = "run"
             \/ /\ dp[s].stage = "queued" /\ d.stage = "routing"
                /\ \E e : em' = [em EXCEPT ![<<s, "routing">>] = Emission("routing", e)]
             \/ /\ dp[s].stage = "run" /\ d.stage = "record"
                /\ \E e : em' = [em EXCEPT ![<<s, "import">>] = Emission("import", e)]
    BY <1>3 DEF DataMoves
  <2>2. pc' = pc
    BY <1>3 DEF DataMoves
  <2>3. dp' = [t \in Slots |-> dp'[t]] /\ dp'[s] = d /\ \A t \in Slots : t # s => dp'[t] = dp[t]
    BY <1>1, <2>1
  <2> DEFINE Only(k) == \A t \in Slots, j \in Kinds : (t # s \/ j # k) => em'[<<t, j>>] = em[<<t, j>>]
  <2>4. \A k \in Kinds : (\E e : em' = [em EXCEPT ![<<s, k>>] = Emission(k, e)]) => Only(k)
    BY OneEmitter
  <2>5. em' = em \/ (d.stage = "routing" /\ Only("routing")) \/ (d.stage = "record" /\ Only("import"))
    <3> HIDE DEF Only
    <3> QED
      BY <2>1, <2>4 DEF Kinds
  <2>6. \A t \in Slots, k \in Kinds : t # s => em'[<<t, k>>] = em[<<t, k>>]
    BY <2>5
  <2>7. em'[<<s, "gateway">>] = em[<<s, "gateway">>]
    BY <2>5 DEF Kinds
  <2>8. d.stage # "routing" => em'[<<s, "routing">>] = em[<<s, "routing">>]
    BY <2>5 DEF Kinds
  <2>9. d.stage # "record" => em'[<<s, "import">>] = em[<<s, "import">>]
    BY <2>5 DEF Kinds
  <2>10. dp[s].stage # "none" /\ d.stage # "none" /\ d.stage # "queued"
    BY <2>1
  <2>11. (d.stage = "routing" \/ d.stage = "run") => em[<<s, "import">>].pc = "idle"
    <3>1. d.stage = "routing" \/ d.stage = "run" => dp[s].stage = "queued" \/ dp[s].stage = "routing"
      BY <2>1
    <3> QED
      BY <3>1
  <2>12. PathShape'
    BY <1>1, <2>1, <2>2, <2>3
  <2>13. ASSUME NEW t \in Slots
        PROVE  /\ pc'[t] \in {"idle", "auth", "read", "data"} => em'[<<t, "gateway">>].pc = "idle"
               /\ pc'[t] \in {"idle", "auth", "read"} => dp'[t].stage = "none"
               /\ dp'[t].stage \in {"none", "queued"} => em'[<<t, "routing">>].pc = "idle"
               /\ dp'[t].stage \in {"none", "queued", "routing", "run"} => em'[<<t, "import">>].pc = "idle"
    <3>1. CASE t # s
      BY <2>2, <2>3, <2>6, <3>1 DEF Kinds
    <3>2. /\ pc[s] \in {"idle", "auth", "read", "data"} => em'[<<s, "gateway">>].pc = "idle"
          /\ ~(pc[s] \in {"idle", "auth", "read"})
      BY <2>7, <2>10
    <3>3. ~(d.stage \in {"none", "queued"})
      BY <2>10
    <3>4. d.stage \in {"none", "queued", "routing", "run"} => em'[<<s, "import">>].pc = "idle"
      BY <2>9, <2>10, <2>11
    <3>5. CASE t = s
      BY <2>2, <2>3, <3>2, <3>3, <3>4, <3>5
    <3> QED
      BY <3>1, <3>5
  <2> QED
    BY <2>12, <2>13
<1>4. CASE UNCHANGED <<pc, dp, em>>
  BY <1>4
<1> QED
  BY <1>2, <1>3, <1>4 DEF PathMove

\* An idle emission is nobody's to advance.
LEMMA SinkMoveKeepsOnce ==
    ASSUME OnceInv, SinkInv, SinkMove, UNCHANGED <<pc, dp>>
    PROVE  OnceInv'
<1>1. \A x \in Senders : em[x].pc = "idle" => em'[x].pc = "idle"
  BY DEF SinkMove, Advances, GoesOn, SinkInv, SinkShape
<1>2. \A s \in Slots, k \in Kinds : <<s, k>> \in Senders
  BY GatewayAssumption
<1> QED
  BY <1>1, <1>2 DEF OnceInv, PathShape, EmitsOnce, Kinds

\* Nothing is recorded or begun at first.
LEMMA AuditInvInit ==
    ASSUME GInit
    PROVE  SinkInv /\ OnceInv
<1>1. \A s \in Slots, k \in Kinds : <<s, k>> \in Senders
  BY GatewayAssumption
<1>2. Shaped(NoEmission) /\ NoEmission.pc = "idle"
  BY DEF NoEmission, Shaped
<1>3. SinkInv
  BY <1>2 DEF GInit, SinkInit, SinkInv, SinkShape, AckedIsRecorded
<1>4. OnceInv
  BY <1>1, <1>2 DEF GInit, SinkInit, OnceInv, PathShape, EmitsOnce, NoWork, Kinds
<1> QED
  BY <1>3, <1>4

\* Every step of the request path keeps the invariant of the sinks.
LEMMA AuditInvStep ==
    ASSUME SinkInv, OnceInv, [GNext]_gvars
    PROVE  (SinkInv /\ OnceInv)'
<1>1. CASE PathMove
  <2>1. OnceInv'
    BY <1>1, PathKeepsOnce
  <2>2. CASE UNCHANGED <<em, wire, rows>>
    <3>1. SinkShape'
      BY <2>2 DEF SinkInv, SinkShape, Shaped
    <3>2. AckedIsRecorded'
      BY <2>2 DEF SinkInv, AckedIsRecorded
    <3> QED
      BY <2>1, <3>1, <3>2 DEF SinkInv
  <2> QED
    BY <1>1, <2>1, <2>2, PathBegins, BeginsKeeps
<1>2. CASE SinkMove /\ UNCHANGED <<pc, dp>>
  BY <1>2, SinkMoveKeeps, SinkMoveKeepsOnce
<1> QED
  BY <1>1, <1>2, StepMoves
-----------------------------------------------------------------------------
(***************************************************************************)
(* The sinks implement their contract.                                     *)
(***************************************************************************)
\* What has been confirmed to an emitter stays confirmed: nobody takes it up.
LEMMA AckedStays ==
    ASSUME OnceInv, SinkInv, [GNext]_gvars
    PROVE  \A x \in Senders : em[x].pc = "acked" => em'[x] = em[x]
<1>1. ASSUME NEW x \in Senders, NEW y \in Senders, NEW m, em' = [em EXCEPT ![x] = m], x # y
      PROVE  em'[y] = em[y]
  BY <1>1 DEF SinkInv, SinkShape
<1>2. CASE PathMove
  BY <1>1, <1>2, PathBegins DEF Begins
<1>3. CASE SinkMove
  BY <1>1, <1>3 DEF SinkMove, Advances, GoesOn
<1> QED
  BY <1>2, <1>3, StepMoves

\* The tables together gain one row under a free key, or nothing.
LEMMA RowsGrow ==
    ASSUME SinkInv, Appends
    PROVE  \/ AllRows' = AllRows
           \/ \E kr : /\ AllRows' = AllRows \union {kr}
                      /\ \A x \in AllRows : Key(x) # Key(kr)
<1>1. CASE rows' = rows
  BY <1>1 DEF AllRows
<1>2. ASSUME NEW k \in Kinds, NEW r, Gains(k, r)
      PROVE  /\ AllRows' = AllRows \union {<<k, r>>}
             /\ \A x \in AllRows : Key(x) # Key(<<k, r>>)
  <2>1. /\ rows'[k] = rows[k] \union {r}
        /\ \A j \in Kinds : j # k => rows'[j] = rows[j]
    BY <1>2 DEF Gains, SinkInv, SinkShape
  <2>2. AllRows' = AllRows \union {<<k, r>>}
    BY <2>1 DEF AllRows
  <2>3. ASSUME NEW j \in Kinds, NEW q \in rows[j]
        PROVE  Key(<<j, q>>) # Key(<<k, r>>)
    BY <1>2, <2>3 DEF Gains, Key
  <2> QED
    BY <2>2, <2>3 DEF AllRows
<1> QED
  BY <1>1, <1>2 DEF Appends

\* At most one key is new, and the rows that were there stay as they are.
LEMMA RecordedAppendsOnce ==
    ASSUME SinkInv, Appends
    PROVE  Abstract!AppendsOnce
<1>1. /\ DOMAIN Recorded = {Key(x) : x \in AllRows}
      /\ DOMAIN Recorded' = {Key(x) : x \in AllRows'}
  BY DEF Recorded
<1>2. CASE AllRows' = AllRows
  <2>1. Recorded' = Recorded
    BY <1>2 DEF Recorded
  <2>2. DOMAIN Recorded' \ DOMAIN Recorded = {}
    BY <2>1
  <2> QED
    BY <2>1, <2>2 DEF Abstract!AppendsOnce
<1>3. ASSUME NEW kr, AllRows' = AllRows \union {kr}, \A x \in AllRows : Key(x) # Key(kr)
      PROVE  Abstract!AppendsOnce
  <2>1. DOMAIN Recorded' \ DOMAIN Recorded = {Key(kr)} /\ DOMAIN Recorded \subseteq DOMAIN Recorded'
    BY <1>1, <1>3
  <2>2. ASSUME NEW key \in DOMAIN Recorded
        PROVE  Recorded'[key] = Recorded[key]
    <3>1. key # Key(kr) /\ key \in DOMAIN Recorded'
      BY <1>1, <1>3, <2>1
    <3>2. {x \in AllRows' : Key(x) = key} = {x \in AllRows : Key(x) = key}
      BY <1>3, <3>1
    <3>3. /\ Recorded[key] = {x[2] : x \in {y \in AllRows : Key(y) = key}}
          /\ Recorded'[key] = {x[2] : x \in {y \in AllRows' : Key(y) = key}}
      BY <1>1, <3>1 DEF Recorded
    <3> QED
      BY <3>2, <3>3
  <2> QED
    BY <2>1, <2>2 DEF Abstract!AppendsOnce
<1> QED
  BY <1>2, <1>3, RowsGrow

\* What is confirmed is recorded.
LEMMA ConfirmedIsRecorded ==
    ASSUME SinkInv
    PROVE  Confirmed \subseteq DOMAIN Recorded
<1>1. DOMAIN Recorded = {Key(x) : x \in AllRows}
  BY DEF Recorded
<1>2. ASSUME NEW s \in Senders, em[s].pc = "acked"
      PROVE  <<em[s].kind, em[s].event[IdKey[em[s].kind]]>> \in DOMAIN Recorded
  <2> DEFINE k == em[s].kind
  <2>1. k \in Kinds
    BY <1>2 DEF SinkInv, SinkShape
  <2>2. PICK r \in rows[k] : r[IdKey[k]] = em[s].event[IdKey[k]]
    BY <1>2 DEF SinkInv, AckedIsRecorded, Holds
  <2>3. <<k, r>> \in AllRows /\ Key(<<k, r>>) = <<k, em[s].event[IdKey[k]]>>
    BY <2>1, <2>2 DEF AllRows, Key
  <2> QED
    BY <1>1, <2>3
<1> QED
  BY <1>2 DEF Confirmed

\* Every step is a step of the contract, or changes nothing it speaks of.
LEMMA ContractStep ==
    ASSUME OnceInv, SinkInv, SinkInv', [GNext]_gvars
    PROVE  [Abstract!AppendsOnce /\ Abstract!Confirms]_(Abstract!contractVars)
<1>1. Appends
  BY StepMoves DEF PathMove, SinkMove, Appends
<1>2. Abstract!AppendsOnce
  BY <1>1, RecordedAppendsOnce
<1>3. Confirmed \subseteq Confirmed'
  BY AckedStays DEF Confirmed
<1>4. (Confirmed \subseteq DOMAIN Recorded)'
  BY ConfirmedIsRecorded, PTL
<1> QED
  BY <1>2, <1>3, <1>4 DEF Abstract!Confirms

(***************************************************************************)
(* For any requests, tenants and faults: an audit table records one event  *)
(* under an idempotency key and never changes or drops it, and an emitter  *)
(* is told of a recording only when the event is in the table.             *)
(***************************************************************************)
THEOREM SinksKeepTheContract == GSpec => ImplementsAuditContract
<1>1. GInit => SinkInv /\ OnceInv
  BY AuditInvInit
<1>2. SinkInv /\ OnceInv /\ [GNext]_gvars => (SinkInv /\ OnceInv)'
  BY AuditInvStep
<1>3. GInit => Abstract!ContractInit
  <2>1. GInit => AllRows = {}
    BY DEF GInit, SinkInit, AllRows
  <2>2. GInit => Confirmed = {}
    BY DEF GInit, SinkInit, Confirmed, NoEmission
  <2> QED
    BY <2>1, <2>2 DEF Abstract!ContractInit, Recorded
<1>4. SinkInv /\ OnceInv /\ SinkInv' /\ [GNext]_gvars
          => [Abstract!AppendsOnce /\ Abstract!Confirms]_(Abstract!contractVars)
  BY ContractStep
<1> QED
  BY <1>1, <1>2, <1>3, <1>4, PTL DEF GSpec, ImplementsAuditContract, Abstract!Contract

-----------------------------------------------------------------------------
(***************************************************************************)
(* The request path.                                                       *)
(*                                                                         *)
(* The invariant is a conjunction over the slots, each part about one      *)
(* component's state of the slot: what the auth router concludes agrees    *)
(* with the token, a data-plane edge works only for a request whose token  *)
(* and carriers agree, what an emitter has in hand describes its request,  *)
(* and what was done was done for it.  A slot whose state a step leaves    *)
(* alone keeps its parts, since a request does not change once it arrived  *)
(* and tables only grow.                                                   *)
(*                                                                         *)
(* For revocations: whatever was read of a membership at a time, by a      *)
(* cache entry or by the work on a slot, held then or ended no earlier.    *)
(***************************************************************************)
Pre == {"none", "queued", "state", "member", "role"}
Refusals == {"401", "503", "carrier_mismatch", "forbidden"}

RequestShape ==
    /\ req = [s \in Slots |-> req[s]] /\ resp = [s \in Slots |-> resp[s]]
    /\ au = [s \in Slots |-> au[s]]
    /\ \A s \in Slots : au[s] = [stage |-> au[s].stage, answer |-> au[s].answer,
                                 ready |-> au[s].ready, member |-> au[s].member, at |-> au[s].at]

\* The auth router's answer agrees with the token it was given.
AuthPart(s) ==
    /\ pc[s] = "idle" => au[s].stage = "none"
    /\ pc[s] # "idle" => req[s] \in Menu[s]
    /\ pc[s] = "read" => Domain(req[s]) = "control"
    /\ au[s].stage \in Pre => au[s].answer = "none"
    /\ au[s].stage = "answered" => au[s].answer # "none"
    /\ au[s].stage \in {"state", "member", "role"} => Stage1(req[s]) = "reads"
    /\ au[s].answer = "ok" => Stage1(req[s]) \in {"ok", "reads"}
    /\ au[s].answer \in Refusals \union {"none", "ok"}

\* The route of the request's own tenant, for its own principal, is on record.
RouteOnRecord(s) ==
    \E r \in rows.routing :
        /\ r.event_id = <<s, "routing">> /\ r.action = "Route"
        /\ r.resolved_tenant_ref = Claim(s) /\ r.actor_ref = Actor(s)

\* An edge works for a request whose token and carriers agree.
DataPart(s) ==
    /\ dp[s].stage # "none" => Stage1(req[s]) = "reads" /\ Domain(req[s]) = "tenant"
    /\ dp[s].stage = "none" => dp[s].answer = "none"
    /\ dp[s].stage = "record" \/ dp[s].answer \in {"applied", "nothing"} => Edge(req[s]) = "import"
    /\ dp[s].answer = "record" => Edge(req[s]) \in {"read", "update"}
    /\ cfg.audit /\ dp[s].stage \in {"run", "record"} => RouteOnRecord(s)

\* The router's event describes the request.
RoutePart(s) ==
    LET m == em[<<s, "routing">>] IN
    m.pc # "idle" =>
        /\ m.kind = "routing"
        /\ m.event.event_id = <<s, "routing">> /\ m.event.actor_ref = Actor(s)
        /\ m.event.action = "Route" => m.event.resolved_tenant_ref = Claim(s)

\* The gateway's event describes the answer it is about to give, and gave.
TellPart(s) ==
    LET m == em[<<s, "gateway">>] IN
    /\ pc[s] = "emit" => /\ m.pc # "idle" /\ m.kind = "gateway"
                         /\ m.event.audit_id = <<s, "gateway">> /\ Tells(s, resp[s], m.event)
    /\ NeedsEvidence(s) => Evidence(s) # {}

\* What was done for a slot was done for its tenant and principal, by route.
DidPart(s) ==
    \A d \in did :
        d.slot = s =>
            /\ dp[s].stage # "none" /\ d.tenant = Claim(s) /\ d.actor = Actor(s)
            /\ cfg.audit => RouteOnRecord(s)

SlotInv(s) == AuthPart(s) /\ DataPart(s) /\ RoutePart(s) /\ TellPart(s) /\ DidPart(s)

RequestInv ==
    /\ RequestShape
    /\ \A d \in did : d.slot \in Slots
    /\ \A s \in Slots : SlotInv(s)

-----------------------------------------------------------------------------
(***************************************************************************)
(* What a step leaves alone.                                               *)
(***************************************************************************)
Same(s) == req'[s] = req[s] /\ cfg' = cfg
TablesKeep == \A k \in Kinds : rows[k] \subseteq rows'[k]

\* A route that is on record stays on record.
LEMMA RouteStays ==
    ASSUME NEW s \in Slots, Same(s), TablesKeep, RouteOnRecord(s)
    PROVE  RouteOnRecord(s)'
  BY DEF Same, TablesKeep, RouteOnRecord, Claim, Actor, Kinds

\* The auth router's part stays when its work on the slot does.
LEMMA AuthStays ==
    ASSUME NEW s \in Slots, AuthPart(s), Same(s), au'[s] = au[s],
           pc'[s] = pc[s] \/ (pc[s] # "idle" /\ pc'[s] \notin {"idle", "read"})
    PROVE  AuthPart(s)'
  BY DEF AuthPart, Same

\* The edge's part stays when its work on the slot does.
LEMMA DataStays ==
    ASSUME NEW s \in Slots, DataPart(s), Same(s), TablesKeep, dp'[s] = dp[s]
    PROVE  DataPart(s)'
<1>1. RouteOnRecord(s) => RouteOnRecord(s)'
  BY RouteStays
<1>2. Edge(req[s])' = Edge(req[s])
  BY DEF Same, Edge, Op
<1> QED
  BY <1>1, <1>2 DEF DataPart, Same

\* An emission is as it was, or further on.
Continues(x) ==
    /\ em'[x].pc # "idle" <=> em[x].pc # "idle"
    /\ em[x].pc # "idle" => em'[x].kind = em[x].kind /\ em'[x].event = em[x].event

\* The router's event keeps describing the request.
LEMMA RouteEventStays ==
    ASSUME NEW s \in Slots, RoutePart(s), Same(s), Continues(<<s, "routing">>)
    PROVE  RoutePart(s)'
  BY DEF RoutePart, Same, Actor, Claim, Continues

\* What an event says of an answer depends on the request alone.
LEMMA TellsStays ==
    ASSUME NEW s \in Slots, Same(s)
    PROVE  \A answer, e : Tells(s, answer, e) => Tells(s, answer, e)'
  BY DEF Tells, Same, Correlation, Minted, Actor, Claim

\* Evidence stays evidence: tables only grow.
LEMMA EvidenceStays ==
    ASSUME NEW s \in Slots, Same(s), TablesKeep, resp'[s] = resp[s], Evidence(s) # {}
    PROVE  Evidence(s)' # {}
<1>1. PICK r \in rows.gateway : r.audit_id = <<s, "gateway">> /\ Tells(s, resp[s], r)
  BY DEF Evidence
<1>2. r \in rows'.gateway
  BY DEF TablesKeep, Kinds
<1>3. Tells(s, resp[s], r)'
  BY <1>1 DEF Tells, Same, Correlation, Minted, Actor, Claim
<1> QED
  BY <1>1, <1>2, <1>3 DEF Evidence

\* The gateway's event keeps describing the answer.
LEMMA TellStays ==
    ASSUME NEW s \in Slots, TellPart(s), Same(s), TablesKeep, resp'[s] = resp[s], pc'[s] = pc[s],
           Continues(<<s, "gateway">>)
    PROVE  TellPart(s)'
<1>1. NeedsEvidence(s)' => Evidence(s)' # {}
  BY EvidenceStays DEF TellPart, NeedsEvidence, Same
<1>2. ASSUME pc[s] = "emit"
      PROVE  Tells(s, resp[s], em[<<s, "gateway">>].event)'
  BY <1>2 DEF TellPart, Continues, Tells, Same, Correlation, Minted, Actor, Claim
<1> QED
  BY <1>1, <1>2 DEF TellPart, Continues

\* What was done for the slot stays what it was.
LEMMA DidStays ==
    ASSUME NEW s \in Slots, DidPart(s), Same(s), TablesKeep,
           dp[s].stage # "none" => dp'[s].stage # "none",
           \A d \in did' : d.slot = s => d \in did
    PROVE  DidPart(s)'
  BY RouteStays DEF DidPart, Same, Actor, Claim

\* Nothing of slot s changes, but for the progress of its emissions.
Untouched(s) ==
    /\ Same(s) /\ pc'[s] = pc[s] /\ resp'[s] = resp[s] /\ au'[s] = au[s] /\ dp'[s] = dp[s]
    /\ \A k \in Kinds : Continues(<<s, k>>)
    /\ \A d \in did' : d.slot = s => d \in did

\* A slot that is left alone keeps its invariant.
LEMMA UntouchedKeeps ==
    ASSUME NEW s \in Slots, SlotInv(s), TablesKeep, Untouched(s)
    PROVE  SlotInv(s)'
<1>1. Continues(<<s, "gateway">>) /\ Continues(<<s, "routing">>)
  BY DEF Untouched, Kinds
<1> QED
  BY <1>1, AuthStays, DataStays, RouteEventStays, TellStays, DidStays DEF SlotInv, Untouched

-----------------------------------------------------------------------------
(***************************************************************************)
(* The steps of the sinks, of the control plane and of the clock.          *)
(***************************************************************************)
LEMMA RowsKept ==
    ASSUME OnceInv, SinkInv, [GNext]_gvars
    PROVE  TablesKeep
<1>1. CASE rows' = rows
  BY <1>1 DEF TablesKeep
<1>2. CASE Appends
  BY <1>2, TablesGrow DEF TablesKeep
<1> QED
  BY <1>1, <1>2, StepMoves DEF PathMove, SinkMove

\* The sinks take every emission that has begun further, and begin none.
LEMMA SinksContinue ==
    ASSUME SinkInv, SinkMove
    PROVE  \A x \in Senders : Continues(x)
<1>1. CASE em' = em
  BY <1>1 DEF Continues
<1>2. ASSUME NEW x \in Senders, NEW m, GoesOn(x, m), em' = [em EXCEPT ![x] = m]
      PROVE  \A y \in Senders : Continues(y)
  <2>1. em'[x] = m /\ \A y \in Senders : y # x => em'[y] = em[y]
    BY <1>2 DEF SinkInv, SinkShape
  <2> QED
    BY <1>2, <2>1 DEF Continues, GoesOn
<1> QED
  BY <1>1, <1>2 DEF SinkMove, Advances

\* The sinks and their clients leave the slots alone.
LEMMA SinksKeepRequests ==
    ASSUME RequestInv, SinkInv, SinkMove, TablesKeep, UNCHANGED pathVars
    PROVE  RequestInv'
<1>1. ASSUME NEW s \in Slots
      PROVE  SlotInv(s)'
  <2>1. \A k \in Kinds : Continues(<<s, k>>)
    BY SinksContinue, GatewayAssumption
  <2>2. Untouched(s)
    BY <2>1 DEF Untouched, Same, pathVars
  <2> QED
    BY <2>2, UntouchedKeeps DEF RequestInv
<1> QED
  BY <1>1 DEF RequestInv, RequestShape, pathVars

\* So do the control plane and the clock.
LEMMA OthersKeepRequests ==
    ASSUME RequestInv, UNCHANGED <<em, rows, cfg, req, pc, resp, au, dp, did>>
    PROVE  RequestInv'
<1>1. ASSUME NEW s \in Slots
      PROVE  SlotInv(s)'
  <2>1. Untouched(s) /\ TablesKeep
    BY DEF Untouched, Same, Continues, TablesKeep
  <2> QED
    BY <2>1, UntouchedKeeps DEF RequestInv
<1> QED
  BY <1>1 DEF RequestInv, RequestShape

-----------------------------------------------------------------------------
(***************************************************************************)
(* A step of the path for slot s: the other slots are left alone, and it   *)
(* is enough to look at s.                                                 *)
(***************************************************************************)
StepFor(s) ==
    /\ RequestShape' /\ TablesKeep /\ cfg' = cfg
    /\ \A d \in did' : d \in did \/ d.slot = s
    /\ \A t \in Slots : t # s => Untouched(t)

\* A step for one slot keeps the invariant if that slot keeps its parts.
LEMMA StepForKeeps ==
    ASSUME RequestInv, NEW s \in Slots, StepFor(s), SlotInv(s)'
    PROVE  RequestInv'
<1>1. ASSUME NEW t \in Slots, t # s
      PROVE  SlotInv(t)'
  BY <1>1, UntouchedKeeps DEF StepFor, RequestInv
<1> QED
  BY <1>1 DEF StepFor, RequestInv

\* An emitter of s begins an emission, or none does.
BeginsFor(s) == em' = em \/ \E k \in Kinds : \E e : em' = [em EXCEPT ![<<s, k>>] = Emission(k, e)]

\* What changes only in one slot is a step for it.
LEMMA Elsewhere ==
    ASSUME RequestInv, OnceInv, SinkInv, NEW s \in Slots, BeginsFor(s),
           cfg' = cfg, rows' = rows, RequestShape',
           \A t \in Slots : t # s =>
               /\ req'[t] = req[t] /\ pc'[t] = pc[t] /\ resp'[t] = resp[t]
               /\ au'[t] = au[t] /\ dp'[t] = dp[t],
           \A d \in did' : d \in did \/ d.slot = s
    PROVE  StepFor(s)
<1>1. ASSUME NEW t \in Slots, t # s, NEW k \in Kinds
      PROVE  Continues(<<t, k>>)
  <2>1. em'[<<t, k>>] = em[<<t, k>>]
    <3>1. CASE em' = em
      BY <3>1
    <3>2. ASSUME NEW j \in Kinds, \E e : em' = [em EXCEPT ![<<s, j>>] = Emission(j, e)]
          PROVE  em'[<<t, k>>] = em[<<t, k>>]
      BY <1>1, <3>2, OneEmitter
    <3> QED
      BY <3>1, <3>2 DEF BeginsFor
  <2> QED
    BY <2>1 DEF Continues
<1> QED
  BY <1>1 DEF StepFor, Untouched, Same, TablesKeep

-----------------------------------------------------------------------------
(***************************************************************************)
(* The gateway's answers.                                                  *)
(***************************************************************************)
\* Slot s is answered, or will be once its event is stored.
AnswersFor(s) ==
    /\ BeginsFor(s)
    /\ pc' = [t \in Slots |-> pc'[t]] /\ resp' = [t \in Slots |-> resp'[t]]
    /\ \A t \in Slots : t # s => pc'[t] = pc[t] /\ resp'[t] = resp[t]
    /\ pc'[s] \in {"emit", "done"} /\ TellPart(s)'
    /\ Continues(<<s, "routing">>)

\* The gateway answers, or says what it will answer.
LEMMA AnswersKeep ==
    ASSUME RequestInv, OnceInv, SinkInv, NEW s \in Slots, AnswersFor(s), pc[s] # "idle",
           UNCHANGED <<cfg, req, au, dp, did, rows>>
    PROVE  RequestInv'
<1>1. RequestShape'
  BY DEF RequestInv, RequestShape, AnswersFor
<1>2. StepFor(s)
  BY <1>1, Elsewhere DEF AnswersFor
<1>3. SlotInv(s) /\ Same(s) /\ TablesKeep
  BY DEF RequestInv, Same, TablesKeep
<1>4. AuthPart(s)' /\ DataPart(s)' /\ RoutePart(s)' /\ DidPart(s)'
  BY <1>3, AuthStays, DataStays, RouteEventStays, DidStays DEF SlotInv, AnswersFor
<1> QED
  BY <1>2, <1>4, StepForKeeps DEF SlotInv, AnswersFor

\* An answer that needs no evidence.
Plain(s, r) ==
    /\ ~(r.status = 200 /\ req[s].route \in {"startup", "memberships"})
    /\ r.code \notin {"unauthenticated", "carrier_mismatch", "tenant_context_required"}
    /\ r.code = "forbidden" => req[s].body = "refused"

\* An answer that needs no evidence is given at once.
LEMMA RespondAnswers ==
    ASSUME RequestInv, OnceInv, NEW s \in Slots, NEW r, Respond(s, r), em' = em, Same(s), Plain(s, r)
    PROVE  AnswersFor(s)
<1>1. /\ pc' = [t \in Slots |-> pc'[t]] /\ resp' = [t \in Slots |-> resp'[t]]
      /\ \A t \in Slots : t # s => pc'[t] = pc[t] /\ resp'[t] = resp[t]
      /\ pc'[s] = "done" /\ resp'[s] = r
  BY DEF Respond, RequestInv, RequestShape, OnceInv, PathShape
<1>2. TellPart(s)'
  BY <1>1 DEF TellPart, NeedsEvidence, Plain, Same
<1> QED
  BY <1>1, <1>2 DEF AnswersFor, BeginsFor, Continues

\* An answer that needs evidence waits for an event that tells of it.
LEMMA EmitThenAnswersFor ==
    ASSUME RequestInv, OnceInv, SinkInv, NEW s \in Slots, NEW e, NEW r, EmitThen(s, e, r), Same(s),
           e.audit_id = <<s, "gateway">>, e.action \in GatewayActions, Tells(s, r, e)
    PROVE  AnswersFor(s)
<1>1. CASE cfg.audit
  <2>1. /\ em' = [em EXCEPT ![<<s, "gateway">>] = Emission("gateway", e)]
        /\ pc' = [pc EXCEPT ![s] = "emit"] /\ resp' = [resp EXCEPT ![s] = r]
    BY <1>1 DEF EmitThen, Emits, Begin
  <2>2. /\ pc' = [t \in Slots |-> pc'[t]] /\ resp' = [t \in Slots |-> resp'[t]]
        /\ \A t \in Slots : t # s => pc'[t] = pc[t] /\ resp'[t] = resp[t]
        /\ pc'[s] = "emit" /\ resp'[s] = r
    BY <2>1 DEF RequestInv, RequestShape, OnceInv, PathShape
  <2>3. em'[<<s, "gateway">>] = Emission("gateway", e)
    BY <2>1, GatewayAssumption DEF SinkInv, SinkShape, Kinds
  <2>4. Tells(s, r, e)'
    BY DEF Tells, Same, Correlation, Minted, Actor, Claim
  <2>5. TellPart(s)'
    BY <2>2, <2>3, <2>4 DEF TellPart, NeedsEvidence, Emission
  <2>6. "gateway" \in Kinds /\ "routing" \in Kinds
    BY DEF Kinds
  <2>7. Continues(<<s, "routing">>)
    BY <2>1, <2>6, OneEmitter DEF Continues
  <2> QED
    BY <2>1, <2>2, <2>5, <2>6, <2>7 DEF AnswersFor, BeginsFor
<1>2. CASE ~cfg.audit
  <2>1. Respond(s, r) /\ em' = em
    BY <1>2 DEF EmitThen, Emits
  <2>2. /\ pc' = [t \in Slots |-> pc'[t]] /\ resp' = [t \in Slots |-> resp'[t]]
        /\ \A t \in Slots : t # s => pc'[t] = pc[t] /\ resp'[t] = resp[t]
        /\ pc'[s] = "done"
    BY <2>1 DEF Respond, RequestInv, RequestShape, OnceInv, PathShape
  <2>3. TellPart(s)'
    BY <1>2, <2>2 DEF TellPart, NeedsEvidence, Same
  <2> QED
    BY <2>1, <2>2, <2>3 DEF AnswersFor, BeginsFor, Continues
<1> QED
  BY <1>1, <1>2

\* A refusal tells of a refusal.
LEMMA RouteDeniedAnswers ==
    ASSUME RequestInv, OnceInv, SinkInv, NEW s \in Slots, NEW actor, NEW tenant, NEW r,
           RouteDenied(s, actor, tenant, r), Same(s), r.status # 200, r.code # "carrier_mismatch"
    PROVE  AnswersFor(s)
<1> DEFINE e == GatewayEvent(s, "RouteDenied", actor, tenant)
<1>1. /\ e.audit_id = <<s, "gateway">> /\ e.action = "RouteDenied"
      /\ e.correlation_id = Correlation(s)
  BY DEF GatewayEvent
<1>2. Tells(s, r, e)
  BY <1>1 DEF Tells
<1>3. EmitThen(s, e, r)
  BY DEF RouteDenied
<1> HIDE DEF e
<1> QED
  BY <1>1, <1>2, <1>3, EmitThenAnswersFor DEF GatewayActions

\* A rejection tells what the auth router's status stands for.
LEMMA RejectAnswersFor ==
    ASSUME RequestInv, OnceInv, SinkInv, NEW s \in Slots, NEW code \in Refusals, Reject(s, code), Same(s)
    PROVE  AnswersFor(s)
<1>1. CASE code = "carrier_mismatch"
  <2> DEFINE e == CarrierEvent(s)
  <2>1. /\ e.audit_id = <<s, "gateway">> /\ e.action = "CarrierMismatch"
        /\ e.correlation_id = Correlation(s) /\ e.carrier_ref = Opaque(req[s].carriers[1])
    BY DEF CarrierEvent, GatewayEvent
  <2>2. Denial(code).status = 403 /\ Denial(code).code = "carrier_mismatch"
    BY <1>1 DEF Denial, Answer
  <2>3. Tells(s, Denial(code), e)
    BY <2>1, <2>2 DEF Tells
  <2>4. EmitThen(s, e, Denial(code))
    BY <1>1 DEF Reject
  <2> HIDE DEF e
  <2> QED
    BY <2>1, <2>3, <2>4, EmitThenAnswersFor DEF GatewayActions
<1>2. CASE code # "carrier_mismatch"
  <2>1. Denial(code).status # 200 /\ Denial(code).code # "carrier_mismatch"
    BY <1>2 DEF Denial, Answer, Unavailable, Refusals
  <2>2. RouteDenied(s, NoRef, NoRef, Denial(code))
    BY <1>2 DEF Reject
  <2> QED
    BY <2>1, <2>2, RouteDeniedAnswers
<1> QED
  BY <1>1, <1>2

\* A 503 claims nothing.
LEMMA UnavailablePlain ==
    ASSUME NEW s
    PROVE  Plain(s, Unavailable) /\ Unavailable.status # 200
  BY DEF Plain, Unavailable, Answer

\* Giving up on the auth router keeps the invariant.
LEMMA AuthTimesOutKeeps ==
    ASSUME RequestInv, OnceInv, SinkInv, NEW s \in Slots, AuthTimesOut(s)
    PROVE  RequestInv'
<1>1. AnswersFor(s)
  BY RejectAnswersFor DEF AuthTimesOut, Same, Refusals
<1> QED
  BY <1>1, AnswersKeep DEF AuthTimesOut

\* Giving up on an edge keeps it: the answer claims nothing.
LEMMA DataTimesOutKeeps ==
    ASSUME RequestInv, OnceInv, SinkInv, NEW s \in Slots, DataTimesOut(s)
    PROVE  RequestInv'
<1>1. AnswersFor(s)
  BY RespondAnswers, UnavailablePlain DEF DataTimesOut, Same
<1> QED
  BY <1>1, AnswersKeep DEF DataTimesOut

\* The request passes on, to the reader or to an edge.
LEMMA PassesOnKeeps ==
    ASSUME RequestInv, OnceInv, SinkInv, NEW s \in Slots, pc[s] = "auth",
           UNCHANGED <<em, rows, cfg, req, resp, au, did>>,
           \/ /\ pc' = [pc EXCEPT ![s] = "read"] /\ dp' = dp
              /\ Domain(req[s]) = "control"
           \/ /\ pc' = [pc EXCEPT ![s] = "data"] /\ dp' = [dp EXCEPT ![s].stage = "queued"]
              /\ Stage1(req[s]) = "reads" /\ Domain(req[s]) = "tenant"
    PROVE  RequestInv'
<1>1. /\ pc'[s] \in {"read", "data"}
      /\ pc'[s] = "read" => Domain(req[s]) = "control"
      /\ \A t \in Slots : t # s => pc'[t] = pc[t] /\ dp'[t] = dp[t]
  BY DEF OnceInv, PathShape
<1>2. RequestShape'
  BY DEF RequestInv, RequestShape
<1>3. StepFor(s)
  BY <1>1, <1>2, Elsewhere DEF BeginsFor
<1>4. SlotInv(s) /\ Same(s) /\ TablesKeep /\ \A k \in Kinds : Continues(<<s, k>>)
  BY DEF RequestInv, Same, TablesKeep, Continues
<1>5. AuthPart(s)'
  BY <1>1, <1>4 DEF SlotInv, AuthPart, Same
<1>6. DataPart(s)'
  <2>1. CASE dp' = dp
    BY <1>4, <2>1, DataStays DEF SlotInv
  <2>2. CASE dp' = [dp EXCEPT ![s].stage = "queued"] /\ Stage1(req[s]) = "reads" /\ Domain(req[s]) = "tenant"
    <3>1. dp'[s].stage = "queued" /\ dp'[s].answer = dp[s].answer
      BY <2>2 DEF OnceInv, PathShape
    <3>2. Edge(req[s])' = Edge(req[s])
      BY DEF Edge, Op
    <3> QED
      BY <1>4, <2>2, <3>1, <3>2 DEF SlotInv, DataPart, Same
  <2> QED
    BY <2>1, <2>2
<1>7. RoutePart(s)'
  BY <1>4, RouteEventStays DEF SlotInv, Kinds
<1>8. TellPart(s)'
  BY <1>1 DEF TellPart, NeedsEvidence
<1>9. DidPart(s)'
  <2>1. dp'[s].stage # "none" \/ dp' = dp
    BY DEF OnceInv, PathShape
  <2> QED
    BY <1>4, <2>1, DidStays DEF SlotInv
<1> QED
  BY <1>3, <1>5, <1>6, <1>7, <1>8, <1>9, StepForKeeps DEF SlotInv

\* Going on from the auth router's answer keeps it.
LEMMA AuthenticatedKeeps ==
    ASSUME RequestInv, OnceInv, SinkInv, NEW s \in Slots, Authenticated(s)
    PROVE  RequestInv'
<1>1. /\ pc[s] = "auth" /\ au[s].stage = "answered" /\ Same(s)
      /\ UNCHANGED <<rows, cfg, req, au, did>>
  BY DEF Authenticated, Same
<1>2. AuthPart(s)
  BY DEF RequestInv, SlotInv
<1>3. CASE au[s].answer = "ok"
  <2>1. Proceed(s)
    BY <1>3 DEF Authenticated
  <2>2. CASE Domain(req[s]) = "control"
    BY <1>1, <2>1, <2>2, PassesOnKeeps DEF Proceed
  <2>3. CASE Domain(req[s]) # "control" /\ Target(s) = NoRef
    <3>1. dp' = dp /\ RouteDenied(s, Actor(s), NoRef, Answer(403, "tenant_context_required"))
      BY <2>1, <2>3 DEF Proceed
    <3>2. /\ Answer(403, "tenant_context_required").status # 200
          /\ Answer(403, "tenant_context_required").code # "carrier_mismatch"
      BY DEF Answer
    <3>3. AnswersFor(s)
      BY <1>1, <3>1, <3>2, RouteDeniedAnswers
    <3> QED
      BY <1>1, <3>1, <3>3, AnswersKeep
  <2>4. CASE Domain(req[s]) # "control" /\ Target(s) # NoRef /\ Edge(req[s]) = "update" /\ ~Parsed(req[s].body)
    <3>1. Respond(s, Answer(403, "forbidden")) /\ em' = em /\ dp' = dp
      BY <2>1, <2>4 DEF Proceed
    <3>2. Plain(s, Answer(403, "forbidden"))
      BY <2>4 DEF Plain, Answer, Parsed
    <3>3. AnswersFor(s)
      BY <1>1, <3>1, <3>2, RespondAnswers
    <3> QED
      BY <1>1, <3>1, <3>3, AnswersKeep
  <2>5. CASE Domain(req[s]) # "control" /\ Target(s) # NoRef /\ ~(Edge(req[s]) = "update" /\ ~Parsed(req[s].body))
    <3>1. Stage1(req[s]) = "reads"
      BY <1>2, <1>3, <2>5 DEF AuthPart, Stage1, Validate, Target, Claim
    <3>2. Domain(req[s]) = "tenant"
      BY <2>5 DEF Domain
    <3>3. /\ pc' = [pc EXCEPT ![s] = "data"] /\ dp' = [dp EXCEPT ![s].stage = "queued"]
          /\ UNCHANGED <<em, resp>>
      BY <2>1, <2>5 DEF Proceed
    <3> QED
      BY <1>1, <3>1, <3>2, <3>3, PassesOnKeeps
  <2> QED
    BY <2>2, <2>3, <2>4, <2>5
<1>4. CASE au[s].answer # "ok"
  <2>1. au[s].answer \in Refusals
    BY <1>1, <1>2, <1>4 DEF AuthPart
  <2> QED
    BY <1>1, <1>4, <2>1, RejectAnswersFor, AnswersKeep DEF Authenticated
<1> QED
  BY <1>3, <1>4

\* The control-plane read keeps it.
LEMMA ReadMembershipsKeeps ==
    ASSUME RequestInv, OnceInv, SinkInv, NEW s \in Slots, ReadMemberships(s)
    PROVE  RequestInv'
<1>1. pc[s] = "read" /\ Same(s) /\ UNCHANGED <<rows, cfg, req, au, dp, did>>
  BY DEF ReadMemberships, Same
<1>2. req[s].route = "memberships"
  BY <1>1 DEF RequestInv, SlotInv, AuthPart, Domain
<1> DEFINE e == [GatewayEvent(s, "workspace_memberships_read", Actor(s), NoRef)
                    EXCEPT !.subject_ref = Actor(s)]
           r == Answer(200, "ok")
<1>3. /\ e.audit_id = <<s, "gateway">> /\ e.action = "workspace_memberships_read"
      /\ e.correlation_id = Correlation(s) /\ e.subject_ref = Actor(s)
  BY DEF GatewayEvent
<1>4. Tells(s, r, e)
  <2> HIDE DEF e
  <2> QED
    BY <1>2, <1>3 DEF Tells, Answer
<1>5. CASE EmitThen(s, e, r)
  <2> HIDE DEF e, r
  <2> QED
    BY <1>1, <1>3, <1>4, <1>5, EmitThenAnswersFor, AnswersKeep DEF GatewayActions
<1>6. CASE RouteDenied(s, Actor(s), Target(s), Answer(403, "forbidden"))
  <2>1. Answer(403, "forbidden").status # 200 /\ Answer(403, "forbidden").code # "carrier_mismatch"
    BY DEF Answer
  <2> QED
    BY <1>1, <1>6, <2>1, RouteDeniedAnswers, AnswersKeep
<1>7. CASE Respond(s, Unavailable) /\ em' = em
  BY <1>1, <1>7, UnavailablePlain, RespondAnswers, AnswersKeep
<1> QED
  BY <1>5, <1>6, <1>7 DEF ReadMemberships

\* Going on from the edge's answer keeps it.
LEMMA ConcludedKeeps ==
    ASSUME RequestInv, OnceInv, SinkInv, NEW s \in Slots, Concluded(s)
    PROVE  RequestInv'
<1>1. /\ pc[s] = "data" /\ Same(s) /\ UNCHANGED <<rows, cfg, req, au, dp, did>>
      /\ dp[s].stage = "answered" /\ Conclude(s, dp[s].answer)
  BY DEF Concluded, Same
<1>2. DataPart(s)
  BY DEF RequestInv, SlotInv
<1>3. CASE dp[s].answer = "record"
  <2> DEFINE e == StartupEvent(s)  r == Answer(200, "ok")
  <2>1. req[s].route = "startup" /\ (Edge(req[s]) = "read" <=> req[s].method = "GET")
    BY <1>2, <1>3 DEF DataPart, Edge, Op
  <2>2. /\ e.audit_id = <<s, "gateway">> /\ e.correlation_id = Correlation(s)
        /\ e.action = IF Edge(req[s]) = "read" THEN "tenant_startup_read" ELSE "tenant_startup_update"
        /\ e.actor_ref = Actor(s) /\ e.tenant_ref = Claim(s) /\ e.record_ref = req[s].ref
    BY DEF StartupEvent, GatewayEvent, Target
  <2>3. Tells(s, r, e)
    <3> HIDE DEF e
    <3> QED
      BY <2>1, <2>2 DEF Tells, Answer
  <2>4. EmitThen(s, e, r)
    BY <1>1, <1>3 DEF Conclude
  <2>5. e.action \in GatewayActions
    BY <2>2 DEF GatewayActions, Startup
  <2> HIDE DEF e, r
  <2> QED
    BY <1>1, <2>2, <2>3, <2>4, <2>5, EmitThenAnswersFor, AnswersKeep
<1>4. CASE dp[s].answer = "absent"
  <2>1. Plain(s, Answer(404, "not_found"))
    BY DEF Plain, Answer
  <2>2. Respond(s, Answer(404, "not_found")) /\ em' = em
    BY <1>1, <1>4 DEF Conclude
  <2> QED
    BY <1>1, <2>1, <2>2, RespondAnswers, AnswersKeep
<1>5. CASE dp[s].answer = "applied"
  <2>1. req[s].route \notin {"startup", "memberships"}
    BY <1>1, <1>2, <1>5 DEF DataPart, Edge, Op, Domain
  <2>2. Plain(s, Answer(200, "ok"))
    BY <2>1 DEF Plain, Answer
  <2>3. Respond(s, Answer(200, "ok")) /\ em' = em
    BY <1>1, <1>5 DEF Conclude
  <2> QED
    BY <1>1, <2>2, <2>3, RespondAnswers, AnswersKeep
<1>6. CASE dp[s].answer = "nothing"
  <2>1. Answer(403, "forbidden").status # 200 /\ Answer(403, "forbidden").code # "carrier_mismatch"
    BY DEF Answer
  <2>2. RouteDenied(s, Actor(s), Target(s), Answer(403, "forbidden"))
    BY <1>1, <1>6 DEF Conclude
  <2> QED
    BY <1>1, <2>1, <2>2, RouteDeniedAnswers, AnswersKeep
<1>7. CASE dp[s].answer \notin {"record", "absent", "applied", "nothing"}
  <2>1. Respond(s, Unavailable) /\ em' = em
    BY <1>1, <1>7 DEF Conclude
  <2> QED
    BY <1>1, <2>1, UnavailablePlain, RespondAnswers, AnswersKeep
<1> QED
  BY <1>3, <1>4, <1>5, <1>6, <1>7

\* An answer is given as its event says, or as a 503.
LEMMA EmittedKeeps ==
    ASSUME RequestInv, OnceInv, SinkInv, NEW s \in Slots, Emitted(s)
    PROVE  RequestInv'
<1> DEFINE m == em[<<s, "gateway">>]
<1>1. /\ pc[s] = "emit" /\ Same(s) /\ UNCHANGED <<em, rows, cfg, req, au, dp, did>>
      /\ Respond(s, IF m.pc = "acked" THEN resp[s] ELSE Unavailable)
  BY DEF Emitted, Same, sinkVars
<1>2. CASE m.pc = "acked"
  <2>1. /\ m.kind = "gateway" /\ m.event.audit_id = <<s, "gateway">> /\ Tells(s, resp[s], m.event)
    BY <1>1 DEF RequestInv, SlotInv, TellPart
  <2>2. Holds(rows.gateway, "gateway", m.event)
    BY <1>2, <2>1, GatewayAssumption DEF SinkInv, AckedIsRecorded, Kinds
  <2>3. PICK q \in rows.gateway : q.audit_id = m.event.audit_id /\ ReplayMatches(q, m.event)
    BY <2>2 DEF Holds, IdKey
  <2>4. /\ q.correlation_id = m.event.correlation_id /\ q.action = m.event.action
        /\ q.actor_ref = m.event.actor_ref /\ q.tenant_ref = m.event.tenant_ref
        /\ q.record_ref = m.event.record_ref /\ q.subject_ref = m.event.subject_ref
        /\ q.carrier_ref = m.event.carrier_ref
    BY <2>2, <2>3 DEF Holds, ReplayMatches, WireKeys
  <2>5. Tells(s, resp[s], q)
    BY <2>1, <2>4 DEF Tells
  <2>6. /\ pc' = [t \in Slots |-> pc'[t]] /\ resp' = [t \in Slots |-> resp'[t]]
        /\ \A t \in Slots : t # s => pc'[t] = pc[t] /\ resp'[t] = resp[t]
        /\ pc'[s] = "done" /\ resp'[s] = resp[s]
    BY <1>1, <1>2 DEF Respond, RequestInv, RequestShape, OnceInv, PathShape
  <2>7. Evidence(s) # {}
    BY <2>1, <2>3, <2>5 DEF Evidence
  <2>8. Evidence(s)' # {}
    BY <1>1, <2>6, <2>7, EvidenceStays DEF TablesKeep
  <2>9. AnswersFor(s)
    BY <1>1, <2>6, <2>8 DEF AnswersFor, BeginsFor, Continues, TellPart
  <2> QED
    BY <1>1, <2>9, AnswersKeep
<1>3. CASE m.pc # "acked"
  <2>1. Respond(s, Unavailable)
    BY <1>1, <1>3
  <2> QED
    BY <1>1, <2>1, UnavailablePlain, RespondAnswers, AnswersKeep
<1> QED
  BY <1>2, <1>3

-----------------------------------------------------------------------------
(***************************************************************************)
(* The arrival of a request, and the auth router.                          *)
(***************************************************************************)
LEMMA HandleKeeps ==
    ASSUME RequestInv, OnceInv, SinkInv, NEW s \in Slots, NEW q \in Menu[s], Handle(s, q)
    PROVE  RequestInv'
<1>1. /\ pc[s] = "idle" /\ req' = [req EXCEPT ![s] = q]
      /\ UNCHANGED <<em, rows, cfg, dp, did>>
  BY DEF Handle, sinkVars
<1>2. /\ req' = [t \in Slots |-> req'[t]] /\ req'[s] = q
      /\ \A t \in Slots : t # s => req'[t] = req[t]
  BY <1>1 DEF RequestInv, RequestShape
<1>3. /\ au[s].stage = "none" /\ au[s].answer = "none" /\ dp[s].stage = "none"
      /\ em[<<s, "gateway">>].pc = "idle" /\ em[<<s, "routing">>].pc = "idle"
  BY <1>1 DEF RequestInv, SlotInv, AuthPart, Pre, OnceInv, EmitsOnce
<1>4. \/ /\ EdgeStatus(q) # 0 /\ Respond(s, Answer(EdgeStatus(q), "edge")) /\ au' = au
      \/ Respond(s, Answer(403, "isolation_anomaly")) /\ au' = au
      \/ pc' = [pc EXCEPT ![s] = "auth"] /\ au' = [au EXCEPT ![s].stage = "queued"] /\ resp' = resp
  BY DEF Handle
<1>5. /\ pc' = [t \in Slots |-> pc'[t]] /\ resp' = [t \in Slots |-> resp'[t]]
      /\ \A t \in Slots : t # s => pc'[t] = pc[t] /\ resp'[t] = resp[t]
      /\ pc'[s] = "done" \/ pc'[s] = "auth"
  BY <1>4 DEF Respond, RequestInv, RequestShape, OnceInv, PathShape
<1>6. /\ au' = [t \in Slots |-> au'[t]] /\ \A t \in Slots : t # s => au'[t] = au[t]
      /\ au'[s] = au[s] \/ au'[s] = [au[s] EXCEPT !.stage = "queued"]
  BY <1>4 DEF RequestInv, RequestShape
<1>7. au[s] = [stage |-> au[s].stage, answer |-> au[s].answer,
               ready |-> au[s].ready, member |-> au[s].member, at |-> au[s].at]
  BY DEF RequestInv, RequestShape
<1>8. /\ au'[s] = [stage |-> au'[s].stage, answer |-> au'[s].answer,
                   ready |-> au'[s].ready, member |-> au'[s].member, at |-> au'[s].at]
      /\ au'[s].stage \in {"none", "queued"} /\ au'[s].answer = "none"
  <2> DEFINE c == [au[s] EXCEPT !.stage = "queued"]
  <2>1. /\ c = [stage |-> c.stage, answer |-> c.answer, ready |-> c.ready,
                member |-> c.member, at |-> c.at]
        /\ c.stage = "queued" /\ c.answer = "none"
    BY <1>3, <1>7
  <2> HIDE DEF c
  <2>2. CASE au'[s] = au[s]
    BY <1>3, <1>7, <2>2
  <2>3. CASE au'[s] = c
    BY <2>1, <2>3
  <2> QED
    BY <1>6, <2>2, <2>3 DEF c
<1>9. RequestShape'
  BY <1>2, <1>5, <1>6, <1>8 DEF RequestInv, RequestShape
<1>10. StepFor(s)
  BY <1>1, <1>2, <1>5, <1>6, <1>9, Elsewhere DEF BeginsFor
<1>11. AuthPart(s)'
  BY <1>2, <1>5, <1>8 DEF AuthPart, Pre
<1>12. RoutePart(s)'
  BY <1>1, <1>3 DEF RoutePart
<1>13. DidPart(s)'
  BY <1>1, <1>3 DEF RequestInv, SlotInv, DidPart
<1>14. DataPart(s) /\ dp[s].answer = "none"
  BY <1>3 DEF RequestInv, SlotInv, DataPart
<1>15. DataPart(s)'
  BY <1>1, <1>3, <1>14 DEF DataPart
<1>16. TellPart(s)'
  <2>1. CASE pc'[s] = "auth"
    BY <2>1 DEF TellPart, NeedsEvidence
  <2>2. CASE resp'[s] = Answer(403, "isolation_anomaly") /\ pc'[s] = "done"
    BY <2>2 DEF TellPart, NeedsEvidence, Answer
  <2>3. CASE resp'[s] = Answer(EdgeStatus(q), "edge") /\ pc'[s] = "done"
    <3>1. EdgeStatus(q) = 200 => q.route = "readiness"
      BY DEF EdgeStatus
    <3> QED
      BY <1>2, <2>3, <3>1 DEF TellPart, NeedsEvidence, Answer
  <2> QED
    BY <1>4, <2>1, <2>2, <2>3 DEF Respond, RequestInv, RequestShape, OnceInv, PathShape
<1> QED
  BY <1>10, <1>11, <1>12, <1>13, <1>15, <1>16, StepForKeeps DEF SlotInv

\* The auth router works on the slot; nothing else does.
LEMMA AuthKeeps ==
    ASSUME RequestInv, OnceInv, SinkInv, NEW s \in Slots, NEW a,
           au' = [au EXCEPT ![s] = a],
           a = [stage |-> a.stage, answer |-> a.answer, ready |-> a.ready,
                member |-> a.member, at |-> a.at],
           pc[s] # "idle",
           a.stage \in Pre => a.answer = "none",
           a.stage = "answered" => a.answer # "none",
           a.stage \in {"state", "member", "role"} => Stage1(req[s]) = "reads",
           a.answer = "ok" => Stage1(req[s]) \in {"ok", "reads"},
           a.answer \in Refusals \union {"none", "ok"},
           UNCHANGED <<em, rows, cfg, req, pc, resp, dp, did>>
    PROVE  RequestInv'
<1>1. /\ au' = [t \in Slots |-> au'[t]] /\ au'[s] = a
      /\ \A t \in Slots : t # s => au'[t] = au[t]
  BY DEF RequestInv, RequestShape
<1>2. RequestShape'
  BY <1>1 DEF RequestInv, RequestShape
<1>3. StepFor(s)
  BY <1>1, <1>2, Elsewhere DEF BeginsFor
<1>4. SlotInv(s) /\ Same(s) /\ TablesKeep /\ \A k \in Kinds : Continues(<<s, k>>)
  BY DEF RequestInv, Same, TablesKeep, Continues
<1>5. AuthPart(s)'
  BY <1>1, <1>4 DEF SlotInv, AuthPart
<1>6. DataPart(s)' /\ RoutePart(s)' /\ TellPart(s)' /\ DidPart(s)'
  BY <1>4, DataStays, RouteEventStays, TellStays, DidStays DEF SlotInv, Kinds
<1> QED
  BY <1>3, <1>5, <1>6, StepForKeeps DEF SlotInv

\* The token is validated before anything is read.
LEMMA AuthenticateKeeps ==
    ASSUME RequestInv, OnceInv, SinkInv, NEW s \in Slots, Authenticate(s)
    PROVE  RequestInv'
<1>1. /\ au[s].stage = "queued" /\ AuthPart(s)
      /\ au[s] = [stage |-> au[s].stage, answer |-> au[s].answer,
                  ready |-> au[s].ready, member |-> au[s].member, at |-> au[s].at]
      /\ au = [t \in Slots |-> au[t]]
      /\ UNCHANGED <<em, rows, cfg, req, pc, resp, dp, did>>
  BY DEF Authenticate, RequestInv, RequestShape, SlotInv, sinkVars
<1>2. pc[s] # "idle" /\ au[s].answer = "none"
  BY <1>1 DEF AuthPart, Pre
<1>3. CASE Stage1(req[s]) = "reads"
  <2> DEFINE a == [au[s] EXCEPT !.stage = "state"]
  <2>1. au' = [au EXCEPT ![s] = a]
    BY <1>1, <1>3 DEF Authenticate
  <2>2. /\ a = [stage |-> a.stage, answer |-> a.answer, ready |-> a.ready,
                member |-> a.member, at |-> a.at]
        /\ a.stage = "state" /\ a.answer = "none"
    BY <1>1, <1>2
  <2> HIDE DEF a
  <2> QED
    BY <1>1, <1>2, <1>3, <2>1, <2>2, AuthKeeps
<1>4. CASE Stage1(req[s]) # "reads"
  <2> DEFINE c == [au[s] EXCEPT !.stage = "answered"]
             a == [c EXCEPT !.answer = Stage1(req[s])]
  <2>1. au' = [au EXCEPT ![s] = a]
    BY <1>1, <1>4 DEF Authenticate
  <2>2. /\ c = [stage |-> c.stage, answer |-> c.answer, ready |-> c.ready,
                member |-> c.member, at |-> c.at]
        /\ c.stage = "answered"
    BY <1>1
  <2>3. /\ a = [stage |-> a.stage, answer |-> a.answer, ready |-> a.ready,
                member |-> a.member, at |-> a.at]
        /\ a.stage = "answered" /\ a.answer = Stage1(req[s])
    <3> HIDE DEF c
    <3> QED
      BY <2>2
  <2>4. Stage1(req[s]) \in {"401", "503", "carrier_mismatch", "ok"}
    BY <1>4 DEF Stage1, Validate
  <2> HIDE DEF a
  <2> QED
    BY <1>1, <1>2, <2>1, <2>3, <2>4, AuthKeeps DEF Pre, Refusals
<1> QED
  BY <1>3, <1>4

Work(stage, answer, ready, member, at) ==
    [stage |-> stage, answer |-> answer, ready |-> ready, member |-> member, at |-> at]

\* The updates of the auth router's work, field by field.
LEMMA WorkUpdates ==
    ASSUME NEW w, w = Work(w.stage, w.answer, w.ready, w.member, w.at), NEW x, NEW y
    PROVE  /\ [[w EXCEPT !.stage = x] EXCEPT !.answer = y] = Work(x, y, w.ready, w.member, w.at)
           /\ [[w EXCEPT !.stage = x] EXCEPT !.ready = y] = Work(x, w.answer, y, w.member, w.at)
<1> DEFINE c == [w EXCEPT !.stage = x]
<1>1. c = Work(x, w.answer, w.ready, w.member, w.at)
  BY DEF Work
<1>2. /\ [c EXCEPT !.answer = y] = Work(x, y, w.ready, w.member, w.at)
      /\ [c EXCEPT !.ready = y] = Work(x, w.answer, y, w.member, w.at)
  <2> HIDE DEF c
  <2> QED
    BY <1>1 DEF Work
<1> QED
  BY <1>2

\* What the auth router makes of a read, as one update.
AuthLearned(s, v) ==
    LET w == au[s] IN
    CASE w.stage = "state" -> Work("member", w.answer, v, w.member, w.at)
      [] w.stage = "member" ->
           IF w.ready # TRUE \/ ~v THEN Work("answered", "forbidden", w.ready, w.member, w.at)
           ELSE Work("role", w.answer, w.ready, TRUE, now)
      [] w.stage = "role" -> Work("answered", "ok", w.ready, w.member, w.at)

\* The update a read makes is the one above.
LEMMA LearnsIsLearned ==
    ASSUME RequestShape, NEW s \in Slots, NEW v, au[s].stage \in {"state", "member", "role"}
    PROVE  /\ AuthLearns(s, v) => au' = [au EXCEPT ![s] = AuthLearned(s, v)]
           /\ AuthFails(s) => au' = [au EXCEPT ![s] =
                  Work("answered", "503", au[s].ready, au[s].member, au[s].at)]
<1> DEFINE w == au[s]
<1>1. w = Work(w.stage, w.answer, w.ready, w.member, w.at) /\ au = [t \in Slots |-> au[t]]
  BY DEF RequestShape, Work
<1>2. ASSUME AuthFails(s)
      PROVE  au' = [au EXCEPT ![s] = Work("answered", "503", w.ready, w.member, w.at)]
  <2>1. au' = [au EXCEPT ![s] = [[w EXCEPT !.stage = "answered"] EXCEPT !.answer = "503"]]
    BY <1>1, <1>2 DEF AuthFails
  <2> QED
    BY <1>1, <2>1, WorkUpdates
<1>3. ASSUME AuthLearns(s, v), w.stage = "state"
      PROVE  au' = [au EXCEPT ![s] = Work("member", w.answer, v, w.member, w.at)]
  <2>1. au' = [au EXCEPT ![s] = [[w EXCEPT !.stage = "member"] EXCEPT !.ready = v]]
    BY <1>1, <1>3 DEF AuthLearns
  <2> QED
    BY <1>1, <2>1, WorkUpdates
<1>4. ASSUME AuthLearns(s, v), w.stage = "member", w.ready # TRUE \/ ~v
      PROVE  au' = [au EXCEPT ![s] = Work("answered", "forbidden", w.ready, w.member, w.at)]
  <2>1. au' = [au EXCEPT ![s] = [[w EXCEPT !.stage = "answered"] EXCEPT !.answer = "forbidden"]]
    BY <1>1, <1>4 DEF AuthLearns
  <2> QED
    BY <1>1, <2>1, WorkUpdates
<1>5. ASSUME AuthLearns(s, v), w.stage = "member", ~(w.ready # TRUE \/ ~v)
      PROVE  au' = [au EXCEPT ![s] = Work("role", w.answer, w.ready, TRUE, now)]
  <2>1. PICK y : y = TRUE
    OBVIOUS
  <2> DEFINE c == [w EXCEPT !.stage = "role"]
             d == [c EXCEPT !.member = y]
  <2>2. au' = [au EXCEPT ![s] = [d EXCEPT !.at = now]]
    BY <1>1, <1>5, <2>1 DEF AuthLearns
  <2>3. c = Work("role", w.answer, w.ready, w.member, w.at)
    BY <1>1 DEF Work
  <2>4. d = Work("role", w.answer, w.ready, y, w.at)
    <3> HIDE DEF c
    <3> QED
      BY <2>3 DEF Work
  <2>5. [d EXCEPT !.at = now] = Work("role", w.answer, w.ready, y, now)
    <3> HIDE DEF d
    <3> QED
      BY <2>4 DEF Work
  <2> QED
    BY <2>1, <2>2, <2>5, Zenon
<1>6. ASSUME AuthLearns(s, v), w.stage = "role"
      PROVE  au' = [au EXCEPT ![s] = Work("answered", "ok", w.ready, w.member, w.at)]
  <2>1. au' = [au EXCEPT ![s] = [[w EXCEPT !.stage = "answered"] EXCEPT !.answer = "ok"]]
    BY <1>1, <1>6 DEF AuthLearns
  <2> QED
    BY <1>1, <2>1, WorkUpdates
<1> QED
  BY <1>2, <1>3, <1>4, <1>5, <1>6 DEF AuthLearned

\* A read moves the auth router on, or ends in a refusal.
LEMMA AuthReadsKeeps ==
    ASSUME RequestInv, OnceInv, SinkInv, NEW s \in Slots, AuthReads(s)
    PROVE  RequestInv'
<1>1. /\ au[s].stage \in {"state", "member", "role"} /\ AuthPart(s) /\ RequestShape
      /\ UNCHANGED <<em, rows, cfg, req, pc, resp, dp, did>>
  BY DEF AuthReads, RequestInv, SlotInv
<1>2. pc[s] # "idle" /\ au[s].answer = "none" /\ Stage1(req[s]) = "reads"
  BY <1>1 DEF AuthPart, Pre
<1>3. AuthFails(s) \/ \E v : AuthLearns(s, v)
  BY DEF AuthReads
<1>4. ASSUME NEW a, au' = [au EXCEPT ![s] = a],
             \E stage, answer, ready, member, at :
                 /\ a = Work(stage, answer, ready, member, at)
                 /\ \/ stage \in {"member", "role"} /\ answer = "none"
                    \/ stage = "answered" /\ answer \in {"ok", "forbidden", "503"}
      PROVE  RequestInv'
  <2>1. /\ a = Work(a.stage, a.answer, a.ready, a.member, a.at)
        /\ \/ a.stage \in {"member", "role"} /\ a.answer = "none"
           \/ a.stage = "answered" /\ a.answer \in {"ok", "forbidden", "503"}
    BY <1>4 DEF Work
  <2> QED
    BY <1>1, <1>2, <1>4, <2>1, AuthKeeps DEF Pre, Refusals, Work
<1>5. ASSUME NEW v, AuthLearns(s, v)
      PROVE  RequestInv'
  <2>1. au' = [au EXCEPT ![s] = AuthLearned(s, v)]
    BY <1>1, <1>5, LearnsIsLearned
  <2>2. \E stage, answer, ready, member, at :
            /\ AuthLearned(s, v) = Work(stage, answer, ready, member, at)
            /\ \/ stage \in {"member", "role"} /\ answer = "none"
               \/ stage = "answered" /\ answer \in {"ok", "forbidden", "503"}
    BY <1>1, <1>2 DEF AuthLearned
  <2> QED
    BY <1>4, <2>1, <2>2
<1>6. CASE AuthFails(s)
  <2>1. au' = [au EXCEPT ![s] = Work("answered", "503", au[s].ready, au[s].member, au[s].at)]
    BY <1>1, <1>6, LearnsIsLearned
  <2> QED
    BY <1>4, <2>1
<1> QED
  BY <1>3, <1>5, <1>6

-----------------------------------------------------------------------------
(***************************************************************************)
(* The data-plane edges.                                                   *)
(***************************************************************************)
\* What an edge may make of slot s.
EdgeWork(s, d) ==
    /\ d = [stage |-> d.stage, answer |-> d.answer] /\ d.stage # "none"
    /\ d.stage = "record" \/ d.answer \in {"applied", "nothing"} => Edge(req[s]) = "import"
    /\ d.answer = "record" => Edge(req[s]) \in {"read", "update"}
    /\ cfg.audit /\ d.stage \in {"run", "record"} => RouteOnRecord(s)

\* An edge works on one slot, by the rules of its part.
LEMMA EdgeKeeps ==
    ASSUME RequestInv, OnceInv, SinkInv, NEW s \in Slots, NEW d,
           dp[s].stage # "none", dp' = [dp EXCEPT ![s] = d], EdgeWork(s, d),
           UNCHANGED <<rows, cfg, req, pc, resp, au>>,
           did' = did \/ (Performs(s) /\ (cfg.audit => RouteOnRecord(s))),
           BeginsFor(s), Continues(<<s, "gateway">>), RoutePart(s)'
    PROVE  RequestInv'
<1>1. dp'[s] = d /\ \A t \in Slots : t # s => dp'[t] = dp[t]
  BY DEF OnceInv, PathShape
<1>2. RequestShape' /\ \A x \in did' : x \in did \/ x.slot = s
  BY DEF RequestInv, RequestShape, Performs
<1>3. StepFor(s)
  BY <1>1, <1>2, Elsewhere
<1>4. SlotInv(s) /\ Same(s) /\ TablesKeep
  BY DEF RequestInv, Same, TablesKeep
<1>5. AuthPart(s)' /\ TellPart(s)'
  BY <1>4, AuthStays, TellStays DEF SlotInv
<1>6. RouteOnRecord(s) => RouteOnRecord(s)'
  BY <1>4, RouteStays
<1>7. Edge(req[s])' = Edge(req[s])
  BY DEF Edge, Op
<1>8. DataPart(s)'
  BY <1>1, <1>4, <1>6, <1>7 DEF SlotInv, DataPart, EdgeWork
<1>9. DidPart(s)'
  <2>1. CASE did' = did
    BY <1>1, <1>4, <2>1, DidStays DEF SlotInv, EdgeWork
  <2>2. CASE Performs(s) /\ (cfg.audit => RouteOnRecord(s))
    <3>1. ASSUME NEW x \in did', x.slot = s
          PROVE  /\ dp'[s].stage # "none" /\ x.tenant = Claim(s)' /\ x.actor = Actor(s)'
                 /\ cfg'.audit => RouteOnRecord(s)'
      <4>1. CASE x \in did
        BY <1>1, <1>4, <1>6, <3>1, <4>1 DEF SlotInv, DidPart, EdgeWork, Claim, Actor
      <4>2. CASE x \notin did
        BY <1>1, <1>6, <2>2, <3>1, <4>2 DEF Performs, Target, EdgeWork, Claim, Actor
      <4> QED
        BY <4>1, <4>2
    <3> QED
      BY <3>1 DEF DidPart
  <2> QED
    BY <2>1, <2>2
<1> QED
  BY <1>3, <1>5, <1>8, <1>9, StepForKeeps DEF SlotInv

\* An answer, or a stage, with no emission.
LEMMA QuietEdgeKeeps ==
    ASSUME RequestInv, OnceInv, SinkInv, NEW s \in Slots, NEW d,
           dp[s].stage # "none", dp' = [dp EXCEPT ![s] = d], EdgeWork(s, d),
           UNCHANGED <<em, rows, cfg, req, pc, resp, au>>,
           did' = did \/ (Performs(s) /\ (cfg.audit => RouteOnRecord(s)))
    PROVE  RequestInv'
<1>1. BeginsFor(s) /\ Continues(<<s, "gateway">>) /\ Continues(<<s, "routing">>)
  BY DEF BeginsFor, Continues
<1>2. RoutePart(s)'
  BY <1>1, RouteEventStays DEF RequestInv, SlotInv, Same
<1> QED
  BY <1>1, <1>2, EdgeKeeps

\* An edge answers, having done nothing or what its slot asked for.
LEMMA RepliesKeeps ==
    ASSUME RequestInv, OnceInv, SinkInv, NEW s \in Slots, NEW answer,
           dp[s].stage # "none", Replies(s, answer),
           answer \in {"applied", "nothing"} => Edge(req[s]) = "import",
           answer = "record" => Edge(req[s]) \in {"read", "update"},
           UNCHANGED <<em, rows, cfg, req, pc, resp, au>>,
           did' = did \/ (Performs(s) /\ (cfg.audit => RouteOnRecord(s)))
    PROVE  RequestInv'
<1> DEFINE c == [dp[s] EXCEPT !.stage = "answered"]
           d == [c EXCEPT !.answer = answer]
<1>1. dp = [t \in Slots |-> dp[t]] /\ dp[s] = [stage |-> dp[s].stage, answer |-> dp[s].answer]
  BY DEF OnceInv, PathShape
<1>2. dp' = [dp EXCEPT ![s] = d]
  BY <1>1 DEF Replies
<1>3. c = [stage |-> c.stage, answer |-> c.answer] /\ c.stage = "answered"
  BY <1>1
<1>4. d = [stage |-> d.stage, answer |-> d.answer] /\ d.stage = "answered" /\ d.answer = answer
  <2> HIDE DEF c
  <2> QED
    BY <1>3
<1> HIDE DEF d
<1>5. EdgeWork(s, d)
  BY <1>4 DEF EdgeWork
<1> QED
  BY <1>2, <1>5, QuietEdgeKeeps

\* The import edge answers by its event's fate.
LEMMA ImportRecordedKeeps ==
    ASSUME RequestInv, OnceInv, SinkInv, NEW s \in Slots, ImportRecorded(s)
    PROVE  RequestInv'
<1>1. /\ dp[s].stage = "record" /\ UNCHANGED <<em, rows, cfg, req, pc, resp, au, did>>
      /\ \E answer \in {"applied", "nothing", "failed"} : Replies(s, answer)
  BY DEF ImportRecorded, Imported, sinkVars
<1>2. Edge(req[s]) = "import"
  BY <1>1 DEF RequestInv, SlotInv, DataPart
<1> QED
  BY <1>1, <1>2, RepliesKeeps

\* A route is used only when its event is on record.
LEMMA RoutedKeeps ==
    ASSUME RequestInv, OnceInv, SinkInv, NEW s \in Slots, Routed(s)
    PROVE  RequestInv'
<1> DEFINE m == em[<<s, "routing">>]
<1>1. /\ dp[s].stage = "routing" /\ UNCHANGED <<em, rows, cfg, req, pc, resp, au, did>>
      /\ \/ m.event.action = "Route" /\ m.pc = "acked" /\ dp' = [dp EXCEPT ![s].stage = "run"]
         \/ Replies(s, "denied")
  BY DEF Routed, sinkVars
<1>2. CASE Replies(s, "denied")
  BY <1>1, <1>2, RepliesKeeps
<1>3. CASE m.event.action = "Route" /\ m.pc = "acked" /\ dp' = [dp EXCEPT ![s].stage = "run"]
  <2>1. /\ m.kind = "routing" /\ m.event.event_id = <<s, "routing">>
        /\ m.event.actor_ref = Actor(s) /\ m.event.resolved_tenant_ref = Claim(s)
    BY <1>3 DEF RequestInv, SlotInv, RoutePart
  <2>2. Holds(rows.routing, "routing", m.event)
    BY <1>3, <2>1, GatewayAssumption DEF SinkInv, AckedIsRecorded, Kinds
  <2>3. PICK q \in rows.routing : q.event_id = m.event.event_id /\ ReplayMatches(q, m.event)
    BY <2>2 DEF Holds, IdKey
  <2>4. /\ q.action = m.event.action /\ q.actor_ref = m.event.actor_ref
        /\ q.resolved_tenant_ref = m.event.resolved_tenant_ref
    BY <2>2, <2>3 DEF Holds, ReplayMatches, WireKeys
  <2>5. RouteOnRecord(s)
    BY <1>3, <2>1, <2>3, <2>4 DEF RouteOnRecord
  <2> DEFINE d == [dp[s] EXCEPT !.stage = "run"]
  <2>6. d = [stage |-> d.stage, answer |-> d.answer] /\ d.stage = "run" /\ d.answer = dp[s].answer
    BY DEF OnceInv, PathShape
  <2>7. dp' = [dp EXCEPT ![s] = d]
    BY <1>3 DEF OnceInv, PathShape
  <2>8. DataPart(s)
    BY DEF RequestInv, SlotInv
  <2> HIDE DEF d, m
  <2>9. EdgeWork(s, d)
    BY <2>5, <2>6, <2>8 DEF EdgeWork, DataPart
  <2> QED
    BY <1>1, <2>7, <2>9, QuietEdgeKeeps
<1> QED
  BY <1>1, <1>2, <1>3

\* An edge that sends an event first; the router's describes the request.
LEMMA TellingEdgeKeeps ==
    ASSUME RequestInv, OnceInv, SinkInv, NEW s \in Slots, NEW d, NEW k \in {"routing", "import"}, NEW e,
           dp[s].stage # "none", dp' = [dp EXCEPT ![s] = d], EdgeWork(s, d),
           em' = [em EXCEPT ![<<s, k>>] = Emission(k, e)],
           k = "routing" => /\ e.event_id = <<s, "routing">> /\ e.actor_ref = Actor(s)
                            /\ e.action = "Route" => e.resolved_tenant_ref = Claim(s),
           UNCHANGED <<rows, cfg, req, pc, resp, au>>,
           did' = did \/ (Performs(s) /\ (cfg.audit => RouteOnRecord(s)))
    PROVE  RequestInv'
<1>1. k \in Kinds /\ k # "gateway" /\ "gateway" \in Kinds /\ "routing" \in Kinds
  BY DEF Kinds
<1>2. \A t \in Slots, j \in Kinds : (t # s \/ j # k) => em'[<<t, j>>] = em[<<t, j>>]
  BY <1>1, OneEmitter
<1>3. Continues(<<s, "gateway">>) /\ BeginsFor(s)
  BY <1>1, <1>2 DEF Continues, BeginsFor
<1>4. RoutePart(s)'
  <2>1. CASE k = "import"
    <3>1. Continues(<<s, "routing">>)
      BY <1>1, <1>2, <2>1 DEF Continues
    <3> QED
      BY <3>1, RouteEventStays DEF RequestInv, SlotInv, Same
  <2>2. CASE k = "routing"
    <3>1. em'[<<s, "routing">>] = Emission("routing", e)
      BY <2>2, GatewayAssumption DEF SinkInv, SinkShape, Kinds
    <3>2. Emission("routing", e).kind = "routing" /\ Emission("routing", e).event = e
      BY DEF Emission
    <3> QED
      BY <2>2, <3>1, <3>2 DEF RoutePart, Actor, Claim
  <2> QED
    BY <2>1, <2>2
<1> QED
  BY <1>3, <1>4, EdgeKeeps

\* The route of the slot's own tenant is told of.
LEMMA RoutesKeeps ==
    ASSUME RequestInv, OnceInv, SinkInv, NEW s \in Slots, NEW action \in {"Route", "RouteDenied"}, NEW code,
           dp[s].stage = "queued", Routes(s, action, code),
           UNCHANGED <<rows, cfg, req, pc, resp, au, did>>
    PROVE  RequestInv'
<1>1. /\ dp = [t \in Slots |-> dp[t]] /\ dp[s] = [stage |-> dp[s].stage, answer |-> dp[s].answer]
      /\ DataPart(s)
  BY DEF OnceInv, PathShape, RequestInv, SlotInv
<1>2. CASE cfg.audit
  <2> DEFINE d == [dp[s] EXCEPT !.stage = "routing"]
             e == RoutingEvent(s, action, code)
  <2>1. em' = [em EXCEPT ![<<s, "routing">>] = Emission("routing", e)] /\ dp' = [dp EXCEPT ![s] = d]
    BY <1>1, <1>2 DEF Routes, Begin
  <2>2. /\ e.event_id = <<s, "routing">> /\ e.actor_ref = Actor(s)
        /\ e.action = "Route" => e.resolved_tenant_ref = Claim(s)
    BY DEF RoutingEvent, Target
  <2>3. d = [stage |-> d.stage, answer |-> d.answer] /\ d.stage = "routing" /\ d.answer = dp[s].answer
    BY <1>1
  <2> HIDE DEF d, e
  <2>4. EdgeWork(s, d)
    BY <1>1, <2>3 DEF EdgeWork, DataPart
  <2> QED
    BY <2>1, <2>2, <2>4, TellingEdgeKeeps
<1>3. CASE ~cfg.audit
  <2> DEFINE c == [dp[s] EXCEPT !.stage = IF action = "Route" THEN "run" ELSE "answered"]
             d == [c EXCEPT !.answer = IF action = "Route" THEN "none" ELSE "denied"]
  <2>1. dp' = [dp EXCEPT ![s] = d] /\ em' = em
    BY <1>1, <1>3 DEF Routes
  <2>2. c = [stage |-> c.stage, answer |-> c.answer] /\ c.stage \in {"run", "answered"}
    BY <1>1
  <2>3. d = [stage |-> d.stage, answer |-> d.answer] /\ d.stage \in {"run", "answered"}
        /\ d.answer \in {"none", "denied"}
    <3> HIDE DEF c
    <3> QED
      BY <2>2
  <2> HIDE DEF d
  <2>4. EdgeWork(s, d)
    BY <1>3, <2>3 DEF EdgeWork
  <2> QED
    BY <2>1, <2>4, QuietEdgeKeeps
<1> QED
  BY <1>2, <1>3

\* A session is opened for the tenant of the claim.
LEMMA OpenSessionKeeps ==
    ASSUME RequestInv, OnceInv, SinkInv, NEW s \in Slots, OpenSession(s)
    PROVE  RequestInv'
<1>1. dp[s].stage = "queued" /\ UNCHANGED <<rows, cfg, req, pc, resp, au, did>>
  BY DEF OpenSession
<1>2. CASE Replies(s, "refused") /\ UNCHANGED em
  BY <1>1, <1>2, RepliesKeeps
<1>3. CASE \E action \in {"Route", "RouteDenied"} : \E code : Routes(s, action, code)
  BY <1>1, <1>3, RoutesKeeps
<1> QED
  BY <1>2, <1>3 DEF OpenSession

\* An operation is done for the tenant of the claim.
LEMMA RunDataKeeps ==
    ASSUME RequestInv, OnceInv, SinkInv, NEW s \in Slots, RunData(s)
    PROVE  RequestInv'
<1>1. dp[s].stage = "run" /\ UNCHANGED <<rows, cfg, req, pc, resp, au>>
  BY DEF RunData
<1>2. DataPart(s) /\ (cfg.audit => RouteOnRecord(s))
  BY <1>1 DEF RequestInv, SlotInv, DataPart
<1>3. CASE Edge(req[s]) \in {"read", "update"} /\ RunStartup(s)
  <2>1. /\ em' = em
        /\ did' = did \/ Performs(s)
        /\ \E answer \in {"absent", "record", "failed"} : Replies(s, answer)
    BY <1>3 DEF RunStartup
  <2>2. PICK answer \in {"absent", "record", "failed"} : Replies(s, answer)
    BY <2>1
  <2> QED
    BY <1>1, <1>2, <1>3, <2>1, <2>2, RepliesKeeps
<1>4. CASE Edge(req[s]) = "import" /\ RunImport(s)
  <2>1. did' = did \/ Performs(s)
    BY <1>4 DEF RunImport
  <2>2. CASE cfg.audit
    <3> DEFINE d == [dp[s] EXCEPT !.stage = "record"]
               e == ImportEvent(s, "ImportCompleted", <<"success">>)
    <3>1. em' = [em EXCEPT ![<<s, "import">>] = Emission("import", e)] /\ dp' = [dp EXCEPT ![s] = d]
      BY <1>4, <2>2 DEF RunImport, Begin, OnceInv, PathShape
    <3>2. d = [stage |-> d.stage, answer |-> d.answer] /\ d.stage = "record" /\ d.answer = dp[s].answer
      BY DEF OnceInv, PathShape
    <3> HIDE DEF d, e
    <3>3. EdgeWork(s, d)
      BY <1>2, <1>4, <2>2, <3>2 DEF EdgeWork, DataPart
    <3> QED
      BY <1>1, <1>2, <2>1, <3>1, <3>3, TellingEdgeKeeps
  <2>3. CASE ~cfg.audit
    <3>1. em' = em /\ \E answer \in {"applied", "nothing"} : Replies(s, answer)
      BY <1>4, <2>3 DEF RunImport, Imported
    <3> QED
      BY <1>1, <1>2, <1>4, <2>1, <3>1, RepliesKeeps
  <2> QED
    BY <2>2, <2>3
<1>5. CASE Replies(s, "dispatched") /\ UNCHANGED <<em, did>>
  BY <1>1, <1>5, RepliesKeeps
<1>6. CASE Replies(s, "failed") /\ em' = em /\ (did' = did \/ Performs(s))
  BY <1>1, <1>2, <1>6, RepliesKeeps
<1>7. Edge(req[s]) \in {"read", "update", "import", "dispatch"}
  BY DEF Edge, Op
<1> QED
  BY <1>3, <1>4, <1>5, <1>6, <1>7 DEF RunData

-----------------------------------------------------------------------------
(***************************************************************************)
(* The theorems.                                                           *)
(***************************************************************************)
LEMMA RequestInvInit ==
    ASSUME GInit
    PROVE  RequestInv
<1>1. \A s \in Slots, k \in Kinds : <<s, k>> \in Senders
  BY GatewayAssumption
<1>2. RequestShape
  BY DEF GInit, RequestShape, NoAuth
<1>3. ASSUME NEW s \in Slots
      PROVE  SlotInv(s)
  <2>1. /\ pc[s] = "idle" /\ au[s].stage = "none" /\ au[s].answer = "none"
        /\ dp[s].stage = "none" /\ dp[s].answer = "none" /\ did = {}
    BY DEF GInit, NoAuth, NoWork
  <2>2. em[<<s, "routing">>].pc = "idle"
    BY <1>1 DEF GInit, SinkInit, NoEmission, Kinds
  <2> QED
    BY <2>1, <2>2 DEF SlotInv, AuthPart, DataPart, RoutePart, TellPart, DidPart, NeedsEvidence, Pre
<1> QED
  BY <1>2, <1>3 DEF RequestInv, GInit

\* Every step keeps the invariant of the request path.
LEMMA RequestInvStep ==
    ASSUME SinkInv, OnceInv, RequestInv, [GNext]_gvars
    PROVE  RequestInv'
<1>1. ASSUME NEW s \in Slots, Arrives(s) \/ GatewayStep(s) \/ AuthStep(s) \/ DataStep(s)
      PROVE  RequestInv'
  BY <1>1, HandleKeeps, AuthenticatedKeeps, ReadMembershipsKeeps, ConcludedKeeps, EmittedKeeps,
     AuthenticateKeeps, AuthReadsKeeps, OpenSessionKeeps, RoutedKeeps, RunDataKeeps, ImportRecordedKeeps
  DEF Arrives, GatewayStep, AuthStep, DataStep
<1>2. ASSUME NEW s \in Slots, AuthTimesOut(s) \/ DataTimesOut(s)
      PROVE  RequestInv'
  BY <1>2, AuthTimesOutKeeps, DataTimesOutKeeps
<1>3. CASE SinkStep /\ UNCHANGED pathVars
  BY <1>3, SinkStepMoves, RowsKept, SinksKeepRequests
<1>4. CASE ControlPlaneChanges \/ Tick
  BY <1>4, OthersKeepRequests DEF ControlPlaneChanges, Revoke, Grant, SetReady, Changes, Tick, sinkVars
<1>5. CASE UNCHANGED gvars
  BY <1>5, OthersKeepRequests DEF gvars, sinkVars, pathVars
<1> QED
  BY <1>1, <1>2, <1>3, <1>4, <1>5 DEF GNext

(***************************************************************************)
(* The invariant of the request path, for any requests and faults.         *)
(***************************************************************************)
THEOREM RequestInvariance == GSpec => [](SinkInv /\ OnceInv /\ RequestInv)
<1>1. GInit => SinkInv /\ OnceInv /\ RequestInv
  BY AuditInvInit, RequestInvInit
<1>2. SinkInv /\ OnceInv /\ RequestInv /\ [GNext]_gvars => (SinkInv /\ OnceInv /\ RequestInv)'
  BY AuditInvStep, RequestInvStep
<1> QED
  BY <1>1, <1>2, PTL DEF GSpec

(***************************************************************************)
(* gateway.py: an answer of a durable class is handed back only when its   *)
(* event is on record, with the request's actor, tenant and record,        *)
(* whatever else is posted to the sink and however the sink fails.         *)
(***************************************************************************)
THEOREM EvidenceComesFirst == GSpec => []AnsweredWithEvidence
<1>1. RequestInv => AnsweredWithEvidence
  BY DEF RequestInv, SlotInv, TellPart, AnsweredWithEvidence
<1> QED
  BY <1>1, RequestInvariance, PTL

(***************************************************************************)
(* IC-010 par. K: data is touched for the tenant of the signed claim, by   *)
(* the token's principal, with every carrier in agreement, over a route    *)
(* that is on record.                                                      *)
(***************************************************************************)
THEOREM OnlyTheClaim == GSpec => []DataFollowsTheClaim
<1>1. ASSUME OnceInv, RequestInv
      PROVE  DataFollowsTheClaim
  <2>1. ASSUME NEW d \in did
        PROVE  LET q == req[d.slot] IN
               /\ q.token.flaw = "none" /\ d.tenant = q.token.claim /\ d.actor = q.token.sub
               /\ Carriers(q) \subseteq {d.tenant}
               /\ cfg.audit => \E r \in rows.routing :
                      /\ r.event_id = <<d.slot, "routing">> /\ r.action = "Route"
                      /\ r.resolved_tenant_ref = d.tenant /\ r.actor_ref = d.actor
    <3> DEFINE s == d.slot
    <3>1. s \in Slots
      BY <1>1, <2>1 DEF RequestInv
    <3>2. AuthPart(s) /\ DataPart(s) /\ DidPart(s)
      BY <1>1, <3>1 DEF RequestInv, SlotInv
    <3>3. /\ dp[s].stage # "none" /\ d.tenant = Claim(s) /\ d.actor = Actor(s)
          /\ cfg.audit => RouteOnRecord(s)
      BY <2>1, <3>2 DEF DidPart
    <3>4. Stage1(req[s]) = "reads" /\ pc[s] # "idle" /\ req[s] \in Menu[s]
      BY <1>1, <3>1, <3>2, <3>3 DEF DataPart, AuthPart, OnceInv, EmitsOnce
    <3>5. Validate(req[s].token) = "valid" /\ CarriersMatch(req[s])
      BY <3>4 DEF Stage1, Validate
    <3>6. req[s].token.flaw = "none"
      BY <3>1, <3>4, <3>5, GatewayAssumption DEF Validate
    <3> QED
      BY <3>3, <3>5, <3>6 DEF CarriersMatch, Claim, Actor, RouteOnRecord
  <2> QED
    BY <2>1 DEF DataFollowsTheClaim
<1> QED
  BY <1>1, RequestInvariance, PTL

-----------------------------------------------------------------------------
(***************************************************************************)
(* How long a membership that ended still lets its principal in.  What was *)
(* read at time n holds, or the membership ended no earlier than n.        *)
(***************************************************************************)
ControlShape ==
    /\ now \in Nat
    /\ cp = [ready |-> cp.ready, member |-> cp.member, lost |-> cp.lost, changes |-> cp.changes]
    /\ cp.member \subseteq Tenants \X Principals
    /\ cp.lost = [t \in Tenants |-> [p \in Principals |-> cp.lost[t][p]]]
    /\ \A t \in Tenants, p \in Principals : cp.lost[t][p] \in Nat

\* A membership held at time n, or late after it ended.
Held(t, p, n, late) ==
    t \in Tenants /\ p \in Principals /\ (<<t, p>> \in cp.member \/ n <= cp.lost[t][p] + late)

EntryOk(e) ==
    /\ e.at \in Nat /\ e.at <= now
    /\ e.key[1] = "member" /\ e.val => Held(e.key[2], e.key[3], e.at, 0)

CacheOk == \E X : cache \in Seq(X) /\ \A e \in X : EntryOk(e)

LetIn(s) == au[s].stage = "role" \/ (au[s].answer = "ok" /\ Claim(s) # NoRef)

LetInOk(s) ==
    /\ au[s].at \in Nat /\ au[s].at <= now
    /\ LetIn(s) => Held(Claim(s), Actor(s), au[s].at, TTL)

RevocationInv == ControlShape /\ CacheOk /\ \A s \in Slots : LetInOk(s)

\* Steps that read no membership and change none.
LEMMA RevocationStays ==
    ASSUME RevocationInv, UNCHANGED <<req, au, cp, now, cache>>
    PROVE  RevocationInv'
<1>1. ControlShape' /\ \A e : EntryOk(e) => EntryOk(e)'
  BY DEF RevocationInv, ControlShape, EntryOk, Held
<1>2. CacheOk'
  BY <1>1 DEF RevocationInv, CacheOk
<1>3. \A s \in Slots : LetInOk(s)'
  BY DEF RevocationInv, LetInOk, LetIn, Held, Claim, Actor
<1> QED
  BY <1>1, <1>2, <1>3 DEF RevocationInv

\* The control plane changes or time passes: what was held stays so.
LEMMA HeldStays ==
    ASSUME RevocationInv, UNCHANGED <<req, au, cache>>, ControlShape', now <= now',
           \A t \in Tenants, p \in Principals :
               \/ /\ <<t, p>> \in cp.member => <<t, p>> \in cp'.member
                  /\ cp'.lost[t][p] = cp.lost[t][p]
               \/ <<t, p>> \in cp'.member
               \/ cp'.lost[t][p] = now
    PROVE  RevocationInv'
<1>1. now \in Nat /\ now' \in Nat /\ TTL \in Nat
  BY GatewayAssumption DEF RevocationInv, ControlShape
<1>2. ASSUME NEW t, NEW p, NEW n \in Nat, n <= now, NEW late \in Nat, Held(t, p, n, late)
      PROVE  Held(t, p, n, late)'
  BY <1>1, <1>2 DEF Held
<1>3. ASSUME NEW e, EntryOk(e)
      PROVE  EntryOk(e)'
  BY <1>1, <1>2, <1>3 DEF EntryOk
<1>4. CacheOk'
  BY <1>3 DEF RevocationInv, CacheOk
<1>5. ASSUME NEW s \in Slots
      PROVE  LetInOk(s)'
  <2>1. LetInOk(s)
    BY DEF RevocationInv
  <2> QED
    BY <1>1, <1>2, <2>1 DEF LetInOk, LetIn, Claim, Actor
<1> QED
  BY <1>4, <1>5 DEF RevocationInv

\* Revoking, granting and readiness: a membership ends at the present time.
LEMMA ControlPlaneBites ==
    ASSUME RevocationInv, ControlPlaneChanges \/ Tick
    PROVE  RevocationInv'
<1>1. ControlShape
  BY DEF RevocationInv
<1>2. CASE Tick
  BY <1>1, <1>2, HeldStays DEF Tick, ControlShape
<1>3. ASSUME NEW t \in Unsteady, SetReady(t)
      PROVE  RevocationInv'
  <2> DEFINE c == [cp EXCEPT !.ready[t] = ~@]
  <2>1. cp' = [c EXCEPT !.changes = @ + 1] /\ UNCHANGED <<req, au, now, cache>>
    BY <1>3 DEF SetReady, Changes
  <2>2. c.member = cp.member /\ c.lost = cp.lost
        /\ c = [ready |-> c.ready, member |-> c.member, lost |-> c.lost, changes |-> c.changes]
    BY <1>1 DEF ControlShape
  <2>3. cp'.member = cp.member /\ cp'.lost = cp.lost
        /\ cp' = [ready |-> cp'.ready, member |-> cp'.member, lost |-> cp'.lost, changes |-> cp'.changes]
    <3> HIDE DEF c
    <3> QED
      BY <2>1, <2>2
  <2>4. ControlShape' /\ now <= now'
    BY <1>1, <2>1, <2>3 DEF ControlShape
  <2> QED
    BY <2>1, <2>3, <2>4, HeldStays
<1>4. ASSUME NEW t \in Tenants, NEW p \in Principals, Revoke(t, p)
      PROVE  RevocationInv'
  <2>1. PICK m : m = cp.member \ {<<t, p>>}
    OBVIOUS
  <2> DEFINE c == [cp EXCEPT !.member = m, !.lost[t][p] = now]
  <2>2. cp' = [c EXCEPT !.changes = @ + 1] /\ UNCHANGED <<req, au, now, cache>>
    BY <1>4, <2>1, Zenon DEF Revoke, Changes
  <2>3. /\ c = [ready |-> c.ready, member |-> c.member, lost |-> c.lost, changes |-> c.changes]
        /\ c.lost = [cp.lost EXCEPT ![t][p] = now] /\ c.member = m
    <3> DEFINE b == [cp EXCEPT !.member = m]
    <3>1. /\ b = [ready |-> b.ready, member |-> b.member, lost |-> b.lost, changes |-> b.changes]
          /\ b.lost = cp.lost /\ b.member = m
      BY <1>1 DEF ControlShape
    <3>2. c = [b EXCEPT !.lost[t][p] = now]
      OBVIOUS
    <3> HIDE DEF b, c
    <3> QED
      BY <3>1, <3>2
  <2>4. /\ cp' = [ready |-> cp'.ready, member |-> cp'.member, lost |-> cp'.lost, changes |-> cp'.changes]
        /\ cp'.member = m /\ cp'.lost = c.lost
    <3> HIDE DEF c
    <3> QED
      BY <2>2, <2>3
  <2> HIDE DEF c
  <2>5. /\ cp'.lost = [u \in Tenants |-> [q \in Principals |-> cp'.lost[u][q]]]
        /\ cp'.lost[t][p] = now
        /\ \A u \in Tenants, q \in Principals : (u = t /\ q = p) \/ cp'.lost[u][q] = cp.lost[u][q]
    <3>1. cp.lost = [u \in Tenants |-> [q \in Principals |-> cp.lost[u][q]]]
      BY <1>1 DEF ControlShape
    <3>2. cp'.lost = [cp.lost EXCEPT ![t][p] = now]
      BY <2>3, <2>4
    <3>3. PICK row : row = [cp.lost[t] EXCEPT ![p] = now]
      OBVIOUS
    <3>4. cp'.lost = [cp.lost EXCEPT ![t] = row]
      BY <3>2, <3>3
    <3>5. row = [q \in Principals |-> row[q]] /\ row[p] = now
          /\ \A q \in Principals : q = p \/ row[q] = cp.lost[t][q]
      <4>1. cp.lost[t] = [q \in Principals |-> cp.lost[t][q]]
        BY <3>1
      <4> QED
        BY <3>3, <4>1
    <3>6. cp'.lost = [u \in Tenants |-> cp'.lost[u]]
          /\ cp'.lost[t] = row /\ \A u \in Tenants : u = t \/ cp'.lost[u] = cp.lost[u]
      <4>1. cp.lost = [u \in Tenants |-> cp.lost[u]]
        BY <3>1
      <4> QED
        BY <3>4, <4>1
    <3>7. \A u \in Tenants : cp'.lost[u] = [q \in Principals |-> cp'.lost[u][q]]
      <4>1. \A u \in Tenants : cp.lost[u] = [q \in Principals |-> cp.lost[u][q]]
        BY <3>1
      <4> QED
        BY <3>5, <3>6, <4>1
    <3>8. cp'.lost = [u \in Tenants |-> [q \in Principals |-> cp'.lost[u][q]]]
      BY <3>6, <3>7, Zenon
    <3> QED
      BY <3>5, <3>6, <3>8
  <2>6. /\ cp'.member \subseteq Tenants \X Principals
        /\ \A u \in Tenants, q \in Principals :
               (u = t /\ q = p) \/ (<<u, q>> \in cp.member => <<u, q>> \in cp'.member)
    BY <1>1, <2>1, <2>4 DEF ControlShape
  <2>7. ControlShape' /\ now <= now'
    BY <1>1, <2>2, <2>4, <2>5, <2>6 DEF ControlShape
  <2> QED
    BY <2>2, <2>5, <2>6, <2>7, HeldStays
<1>5. ASSUME NEW t \in Tenants, NEW p \in Principals, Grant(t, p)
      PROVE  RevocationInv'
  <2>1. PICK m : m = cp.member \union {<<t, p>>}
    OBVIOUS
  <2> DEFINE c == [cp EXCEPT !.member = m]
  <2>2. cp' = [c EXCEPT !.changes = @ + 1] /\ UNCHANGED <<req, au, now, cache>>
    BY <1>5, <2>1, Zenon DEF Grant, Changes
  <2>3. /\ c = [ready |-> c.ready, member |-> c.member, lost |-> c.lost, changes |-> c.changes]
        /\ c.lost = cp.lost /\ c.member = m
    BY <1>1 DEF ControlShape
  <2>4. /\ cp' = [ready |-> cp'.ready, member |-> cp'.member, lost |-> cp'.lost, changes |-> cp'.changes]
        /\ cp'.member = m /\ cp'.lost = cp.lost
    <3> HIDE DEF c
    <3> QED
      BY <2>2, <2>3
  <2>5. cp'.member \subseteq Tenants \X Principals /\ cp.member \subseteq cp'.member
    BY <1>1, <2>1, <2>4 DEF ControlShape
  <2>6. ControlShape' /\ now <= now'
    BY <1>1, <2>2, <2>4, <2>5 DEF ControlShape
  <2> QED
    BY <2>2, <2>4, <2>5, <2>6, HeldStays
<1> QED
  BY <1>2, <1>3, <1>4, <1>5 DEF ControlPlaneChanges

-----------------------------------------------------------------------------
\* The auth router works on one slot, and may put an entry in its cache.
LEMMA AuthBites ==
    ASSUME RevocationInv, RequestInv, NEW s \in Slots, NEW a, au' = [au EXCEPT ![s] = a],
           UNCHANGED <<req, cp, now>>, CacheOk',
           a.at \in Nat, a.at <= now,
           a.stage = "role" \/ (a.answer = "ok" /\ Claim(s) # NoRef) =>
               Held(Claim(s), Actor(s), a.at, TTL)
    PROVE  RevocationInv'
<1>1. au'[s] = a /\ \A t \in Slots : t # s => au'[t] = au[t]
  BY DEF RequestInv, RequestShape
<1>2. ControlShape'
  BY DEF RevocationInv, ControlShape
<1>3. ASSUME NEW t \in Slots
      PROVE  LetInOk(t)'
  <2>1. LetInOk(t)
    BY DEF RevocationInv
  <2>2. CASE t = s
    BY <1>1, <2>2 DEF LetInOk, LetIn, Held, Claim, Actor
  <2>3. CASE t # s
    BY <1>1, <2>1, <2>3 DEF LetInOk, LetIn, Held, Claim, Actor
  <2> QED
    BY <2>2, <2>3
<1> QED
  BY <1>2, <1>3 DEF RevocationInv

\* Nobody is let in for a tenant without a read.
LEMMA AuthenticateBites ==
    ASSUME RevocationInv, RequestInv, NEW s \in Slots, Authenticate(s)
    PROVE  RevocationInv'
<1>1. /\ au[s].stage = "queued" /\ au[s].answer = "none" /\ au = [t \in Slots |-> au[t]]
      /\ au[s] = [stage |-> au[s].stage, answer |-> au[s].answer,
                  ready |-> au[s].ready, member |-> au[s].member, at |-> au[s].at]
      /\ UNCHANGED <<req, cp, now, cache>>
  BY DEF Authenticate, RequestInv, RequestShape, SlotInv, AuthPart, Pre
<1>2. au[s].at \in Nat /\ au[s].at <= now
  BY DEF RevocationInv, LetInOk
<1>3. CacheOk'
  BY <1>1 DEF RevocationInv, CacheOk, EntryOk, Held
<1>4. CASE Stage1(req[s]) = "reads"
  <2> DEFINE a == [au[s] EXCEPT !.stage = "state"]
  <2>1. au' = [au EXCEPT ![s] = a]
    BY <1>1, <1>4 DEF Authenticate
  <2>2. a.stage = "state" /\ a.answer = "none" /\ a.at = au[s].at
    BY <1>1
  <2> HIDE DEF a
  <2> QED
    BY <1>1, <1>2, <1>3, <2>1, <2>2, AuthBites
<1>5. CASE Stage1(req[s]) # "reads"
  <2> DEFINE a == [[au[s] EXCEPT !.stage = "answered"] EXCEPT !.answer = Stage1(req[s])]
  <2>1. au' = [au EXCEPT ![s] = a]
    BY <1>1, <1>5 DEF Authenticate
  <2>2. a = Work("answered", Stage1(req[s]), au[s].ready, au[s].member, au[s].at)
    <3>1. au[s] = Work(au[s].stage, au[s].answer, au[s].ready, au[s].member, au[s].at)
      BY <1>1 DEF Work
    <3> QED
      BY <3>1, WorkUpdates
  <2>3. a.stage = "answered" /\ a.answer = Stage1(req[s]) /\ a.at = au[s].at
    <3> HIDE DEF a
    <3> QED
      BY <2>2 DEF Work
  <2>4. Stage1(req[s]) = "ok" => Claim(s) = NoRef
    BY DEF Stage1, Validate, Claim
  <2> HIDE DEF a
  <2> QED
    BY <1>1, <1>2, <1>3, <2>1, <2>3, <2>4, AuthBites
<1> QED
  BY <1>4, <1>5

\* The cache after a read: at most one entry goes, and the new one is sound.
LEMMA CacheStaysOk ==
    ASSUME RevocationInv, UNCHANGED <<cp, now>>, NEW key, NEW v,
           cache' = Without(key) \/ cache' = Put(Without(key), key, v) \/ cache' = cache,
           key[1] = "member" /\ v => Held(key[2], key[3], now, 0)
    PROVE  CacheOk'
<1>1. PICK X : cache \in Seq(X) /\ \A e \in X : EntryOk(e)
  BY DEF RevocationInv, CacheOk
<1> DEFINE new == [key |-> key, val |-> v, at |-> now]
           Y == X \union {new}
<1>2. now \in Nat /\ new.key = key /\ new.val = v /\ new.at = now
  BY DEF RevocationInv, ControlShape
<1>3. EntryOk(new)
  <2> HIDE DEF new
  <2> QED
    BY <1>2 DEF EntryOk
<1>4. \A e \in Y : EntryOk(e)'
  BY <1>1, <1>3 DEF EntryOk, Held
<1>5. cache \in Seq(Y)
  BY <1>1
<1> HIDE DEF new
<1>6. Without(key) \in Seq(Y)
  <2>1. CASE Hits(key) = {}
    BY <1>5, <2>1 DEF Without
  <2>2. CASE Hits(key) # {}
    <3> DEFINE i == CHOOSE i \in Hits(key) : TRUE
    <3>1. i \in 1..Len(cache)
      BY <1>5, <2>2 DEF Hits
    <3>2. Without(key) = SubSeq(cache, 1, i - 1) \o SubSeq(cache, i + 1, Len(cache))
      BY <2>2 DEF Without
    <3> HIDE DEF i
    <3>3. SubSeq(cache, 1, i - 1) \in Seq(Y) /\ SubSeq(cache, i + 1, Len(cache)) \in Seq(Y)
      BY <1>5, <3>1, SubSeqProperties
    <3> QED
      BY <3>2, <3>3, ConcatProperties
  <2> QED
    BY <2>1, <2>2
<1>7. Put(Without(key), key, v) \in Seq(Y)
  <2> DEFINE w == Without(key)
             kept == IF Len(w) >= MaxEntries THEN Tail(w) ELSE w
  <2>1. w \in Seq(Y) /\ MaxEntries \in Nat \ {0}
    BY <1>6, GatewayAssumption
  <2> HIDE DEF w
  <2>2. kept \in Seq(Y)
    BY <2>1, HeadTailProperties, LenProperties, EmptySeq
  <2>3. new \in Y
    OBVIOUS
  <2>4. Append(kept, new) \in Seq(Y)
    <3> HIDE DEF kept, Y
    <3> QED
      BY <2>2, <2>3, AppendProperties
  <2>5. Put(w, key, v) = w \/ Put(w, key, v) = Append(kept, new)
    BY DEF Put, new
  <2> QED
    BY <2>1, <2>4, <2>5 DEF w
<1>8. cache' \in Seq(Y)
  BY <1>5, <1>6, <1>7
<1> QED
  BY <1>4, <1>8 DEF CacheOk

\* A read lets in by the store, or by an entry no older than TTL.
LEMMA AuthReadsBites ==
    ASSUME RevocationInv, RequestInv, NEW s \in Slots, AuthReads(s)
    PROVE  RevocationInv'
<1> DEFINE key == CacheKey(s)
           live == {i \in Hits(key) : Live(i)}
<1>1. /\ au[s].stage \in {"state", "member", "role"} /\ au[s].answer = "none"
      /\ RequestShape /\ UNCHANGED <<req, cp, now>>
  BY DEF AuthReads, RequestInv, SlotInv, AuthPart, Pre
<1>2. /\ au[s].at \in Nat /\ au[s].at <= now /\ now \in Nat /\ TTL \in Nat
      /\ au[s].stage = "role" => Held(Claim(s), Actor(s), au[s].at, TTL)
  BY GatewayAssumption DEF RevocationInv, ControlShape, LetInOk, LetIn
<1>3. /\ au[s].stage = "member" => key = <<"member", Claim(s), Actor(s)>>
      /\ au[s].stage = "role" => key = <<"role", Claim(s), Actor(s)>>
      /\ au[s].stage = "state" => key = <<"state", Claim(s)>>
  BY <1>1 DEF CacheKey
<1>4. \/ \E i \in live : AuthLearns(s, cache[i].val) /\ cache' = cache
      \/ AuthLearns(s, Fact(key)) /\ cache' = Put(Without(key), key, Fact(key))
      \/ AuthFails(s) /\ cache' = Without(key)
  BY DEF AuthReads
<1> HIDE DEF key
\* What is learnt of a membership, at worst TTL late.
<1>5. ASSUME NEW v, AuthLearns(s, v), CacheOk',
             au[s].stage = "member" /\ v => Held(Claim(s), Actor(s), now, TTL)
      PROVE  RevocationInv'
  <2> DEFINE a == AuthLearned(s, v)
  <2>1. au' = [au EXCEPT ![s] = a]
    BY <1>1, <1>5, LearnsIsLearned
  <2>2. /\ a.at \in Nat /\ a.at <= now
        /\ a.stage = "role" \/ a.answer = "ok" => Held(Claim(s), Actor(s), a.at, TTL)
    <3>1. CASE au[s].stage = "state"
      BY <1>1, <1>2, <3>1 DEF AuthLearned, Work
    <3>2. CASE au[s].stage = "member"
      <4>1. CASE au[s].ready # TRUE \/ ~v
        <5>1. a = Work("answered", "forbidden", au[s].ready, au[s].member, au[s].at)
          BY <3>2, <4>1 DEF AuthLearned
        <5> QED
          BY <1>2, <5>1 DEF Work
      <4>2. CASE ~(au[s].ready # TRUE \/ ~v)
        <5>1. PICK y : y = TRUE
          OBVIOUS
        <5>2. AuthLearned(s, v) = Work("role", au[s].answer, au[s].ready, TRUE, now)
          BY <3>2, <4>2 DEF AuthLearned
        <5>3. a = Work("role", au[s].answer, au[s].ready, y, now)
          BY <5>1, <5>2, Zenon
        <5>4. Held(Claim(s), Actor(s), now, TTL)
          BY <1>5, <3>2, <4>2, Zenon
        <5> QED
          BY <1>2, <5>3, <5>4 DEF Work
      <4> QED
        BY <4>1, <4>2
    <3>3. CASE au[s].stage = "role"
      BY <1>1, <1>2, <3>3 DEF AuthLearned, Work
    <3> QED
      BY <1>1, <3>1, <3>2, <3>3
  <2> HIDE DEF a
  <2> QED
    BY <1>1, <1>5, <2>1, <2>2, AuthBites
<1>6. ASSUME NEW i \in live, AuthLearns(s, cache[i].val), cache' = cache
      PROVE  RevocationInv'
  <2>1. PICK X : cache \in Seq(X) /\ \A e \in X : EntryOk(e)
    BY DEF RevocationInv, CacheOk
  <2>2. i \in DOMAIN cache /\ cache[i].key = key /\ now <= cache[i].at + TTL
    BY DEF Hits, Live
  <2>3. EntryOk(cache[i])
    BY <2>1, <2>2
  <2>4. au[s].stage = "member" /\ cache[i].val => Held(Claim(s), Actor(s), cache[i].at, 0)
    BY <1>3, <2>2, <2>3 DEF EntryOk
  <2>5. au[s].stage = "member" /\ cache[i].val => Held(Claim(s), Actor(s), now, TTL)
    BY <1>2, <2>2, <2>3, <2>4 DEF Held, EntryOk, RevocationInv, ControlShape
  <2>6. CacheOk'
    BY <1>1, <1>6, <2>1 DEF CacheOk, EntryOk, Held
  <2> QED
    BY <1>5, <1>6, <2>5, <2>6
<1>7. key[1] = "member" /\ Fact(key) => Held(key[2], key[3], now, 0)
  BY DEF Fact, Held, RevocationInv, ControlShape
<1>8. au[s].stage = "member" /\ Fact(key) => Held(Claim(s), Actor(s), now, TTL)
  <2>1. \A t, p : Held(t, p, now, 0) => Held(t, p, now, TTL)
    BY <1>2 DEF Held, RevocationInv, ControlShape
  <2>2. au[s].stage = "member" => key[1] = "member" /\ key[2] = Claim(s) /\ key[3] = Actor(s)
    BY <1>3
  <2> QED
    BY <1>7, <2>1, <2>2, Zenon
<1>9. CASE AuthLearns(s, Fact(key)) /\ cache' = Put(Without(key), key, Fact(key))
  BY <1>1, <1>5, <1>7, <1>8, <1>9, CacheStaysOk
<1>10. CASE AuthFails(s) /\ cache' = Without(key)
  <2> DEFINE a == Work("answered", "503", au[s].ready, au[s].member, au[s].at)
  <2>1. au' = [au EXCEPT ![s] = a]
    BY <1>1, <1>10, LearnsIsLearned
  <2>2. a.stage = "answered" /\ a.answer = "503" /\ a.at = au[s].at
    BY DEF Work
  <2>3. CacheOk'
    BY <1>1, <1>7, <1>10, CacheStaysOk
  <2> HIDE DEF a
  <2> QED
    BY <1>1, <1>2, <2>1, <2>2, <2>3, AuthBites
<1> QED
  BY <1>4, <1>6, <1>9, <1>10

\* A request arrives at a slot nothing was done for.
LEMMA HandleBites ==
    ASSUME RevocationInv, RequestInv, NEW s \in Slots, NEW q \in Menu[s], Handle(s, q)
    PROVE  RevocationInv'
<1>1. /\ au[s].stage = "none" /\ au[s].answer = "none" /\ UNCHANGED <<cp, now, cache>>
      /\ \A t \in Slots : t # s => req'[t] = req[t]
  BY DEF Handle, RequestInv, RequestShape, SlotInv, AuthPart, Pre
<1>2. /\ \A t \in Slots : t # s => au'[t] = au[t]
      /\ au'[s] = au[s] \/ au'[s] = [au[s] EXCEPT !.stage = "queued"]
  BY DEF Handle, RequestInv, RequestShape
<1>3. au[s] = Work(au[s].stage, au[s].answer, au[s].ready, au[s].member, au[s].at)
  BY DEF RequestInv, RequestShape, Work
<1>4. au'[s].stage # "role" /\ au'[s].answer # "ok" /\ au'[s].at = au[s].at
  BY <1>1, <1>2, <1>3 DEF Work
<1>5. ControlShape' /\ CacheOk'
  BY <1>1 DEF RevocationInv, ControlShape, CacheOk, EntryOk, Held
<1>6. ASSUME NEW t \in Slots
      PROVE  LetInOk(t)'
  <2>1. LetInOk(t)
    BY DEF RevocationInv
  <2>2. CASE t = s
    BY <1>1, <1>4, <2>1, <2>2 DEF LetInOk, LetIn
  <2>3. CASE t # s
    BY <1>1, <1>2, <2>1, <2>3 DEF LetInOk, LetIn, Held, Claim, Actor
  <2> QED
    BY <2>2, <2>3
<1> QED
  BY <1>5, <1>6 DEF RevocationInv

\* Nothing is cached and nobody let in at first.
LEMMA RevocationInvInit ==
    ASSUME GInit
    PROVE  RevocationInv
<1>1. ControlShape
  BY GatewayAssumption DEF GInit, ControlShape
<1>2. CacheOk
  <2>1. cache \in Seq({})
    BY DEF GInit
  <2> QED
    BY <2>1 DEF CacheOk
<1>3. \A s \in Slots : LetInOk(s)
  BY DEF GInit, NoAuth, LetInOk, LetIn
<1> QED
  BY <1>1, <1>2, <1>3 DEF RevocationInv

\* Every step keeps what is known of memberships.
LEMMA RevocationInvStep ==
    ASSUME RequestInv, RevocationInv, [GNext]_gvars
    PROVE  RevocationInv'
<1>1. ASSUME NEW s \in Slots, Arrives(s) \/ AuthStep(s)
      PROVE  RevocationInv'
  BY <1>1, HandleBites, AuthenticateBites, AuthReadsBites DEF Arrives, AuthStep
<1>2. ASSUME NEW s \in Slots, GatewayStep(s) \/ DataStep(s) \/ AuthTimesOut(s) \/ DataTimesOut(s)
      PROVE  UNCHANGED <<req, au, cp, now, cache>>
  <2>1. GatewayStep(s) => UNCHANGED <<req, au, cp, now, cache>>
    BY DEF GatewayStep, Authenticated, ReadMemberships, Concluded, Emitted
  <2>2. DataStep(s) => UNCHANGED <<req, au, cp, now, cache>>
    BY DEF DataStep, OpenSession, Routed, RunData, ImportRecorded
  <2>3. AuthTimesOut(s) \/ DataTimesOut(s) => UNCHANGED <<req, au, cp, now, cache>>
    BY DEF AuthTimesOut, DataTimesOut
  <2> QED
    BY <1>2, <2>1, <2>2, <2>3
<1>3. CASE UNCHANGED pathVars \/ UNCHANGED gvars
  BY <1>3, RevocationStays DEF pathVars, gvars
<1> QED
  BY <1>1, <1>2, <1>3, RevocationStays, ControlPlaneBites DEF GNext

(***************************************************************************)
(* caching.py: whoever is let in holds the membership, or it ended no      *)
(* more than TTL before it was read, however small the cache and however   *)
(* the control plane fails in between.                                     *)
(***************************************************************************)
THEOREM RevocationBitesSoon == GSpec => []RevocationBites
<1>1. GInit => SinkInv /\ OnceInv /\ RequestInv /\ RevocationInv
  BY AuditInvInit, RequestInvInit, RevocationInvInit
<1>2. SinkInv /\ OnceInv /\ RequestInv /\ RevocationInv /\ [GNext]_gvars =>
          (SinkInv /\ OnceInv /\ RequestInv /\ RevocationInv)'
  BY AuditInvStep, RequestInvStep, RevocationInvStep
<1>3. RevocationInv => RevocationBites
  BY DEF RevocationInv, LetInOk, LetIn, Held, RevocationBites
<1> QED
  BY <1>1, <1>2, <1>3, PTL DEF GSpec

-----------------------------------------------------------------------------
(***************************************************************************)
(* The truth of the audit rows.                                            *)
(*                                                                         *)
(* A row under an emitter's key is its own event, stored; so a repeat of   *)
(* the event always matches it, and the row is as true as the event was    *)
(* when it was sent.  An event is refused only for a reference somebody    *)
(* gave, because what the code itself puts into it parses.                 *)
(***************************************************************************)
EventTrue(s, k, e) ==
    /\ e[IdKey[k]] = <<s, k>>
    /\ Parses(k, e) \/ Suspect(e)
    /\ k = "gateway" /\ e.action \in Startup =>
           \E d \in did :
               /\ d.slot = s /\ d.tenant = e.tenant_ref /\ d.ref = e.record_ref
               /\ d.actor = e.actor_ref
               /\ d.op = (IF e.action = "tenant_startup_read" THEN "read" ELSE "update")
    /\ k = "import" =>
           \/ req[s].ref \notin Sources
           \/ \E d \in did : d.slot = s /\ d.op = "import" /\ d.tenant = e.target_ref

EmissionTrue(s, k) ==
    LET m == em[<<s, k>>] IN
    IF m.pc = "idle" THEN m.fail = "none" ELSE m.kind = k /\ EventTrue(s, k, m.event)

\* A row under an emitter's key is the emitter's event.
RowOwned(s, k) ==
    \A r \in rows[k] :
        r[IdKey[k]] = <<s, k>> =>
            LET m == em[<<s, k>>] IN m.pc # "idle" /\ Parses(k, m.event) /\ r = Row(m.event)

\* A record is answered only of what was done; the core sees no request the
\* edge refuses; an edge works for a tenant; a mismatch has a carrier.
WorkTrue(s) ==
    /\ dp[s].answer = "record" =>
           \E d \in did : d.slot = s /\ d.tenant = Claim(s) /\ d.ref = req[s].ref
                          /\ d.actor = Actor(s) /\ d.op = Edge(req[s])
    /\ pc[s] \in {"auth", "read", "data"} \/ dp[s].stage # "none" => EdgeStatus(req[s]) = 0
    /\ dp[s].stage # "none" => Claim(s) \in Tenants
    /\ au[s].answer = "carrier_mismatch" => ~CarriersMatch(req[s])

TruthInv ==
    /\ \A s \in Slots, k \in Kinds : EmissionTrue(s, k) /\ RowOwned(s, k)
    /\ \A s \in Slots : WorkTrue(s)
    /\ now \in 0..MaxNow /\ faults \in Nat
    /\ NoFalseAlarm

-----------------------------------------------------------------------------
(***************************************************************************)
(* The events the path sends.                                              *)
(***************************************************************************)
Fine(v) == v \notin {NoRef, Blank} /\ Clean(v)

\* What the code makes itself is accepted.
LEMMA MintedAreFine ==
    /\ \A s \in Slots, k \in Kinds : <<s, k>> \in Senders /\ Fine(<<s, k>>)
    /\ \A s \in Slots : Fine(Minted(s))
    /\ now \in 0..MaxNow => Fine(Iso(now))
    /\ Fine(<<"version">>)
BY GatewayAssumption, NamesAssumption DEF Fine

\* A correlation id is there, whatever the client sent.
LEMMA CorrelationIsThere ==
    ASSUME NEW s \in Slots
    PROVE  Correlation(s) \notin {NoRef, Blank}
BY MintedAreFine DEF Correlation, Fine

\* What is signed is not missing.
LEMMA ActorIsThere ==
    ASSUME NEW s \in Slots, req[s] \in Menu[s]
    PROVE  Actor(s) \notin {NoRef, Blank}
BY GatewayAssumption, NamesAssumption DEF Actor

\* A denial parses, unless a reference in it looks like a secret.
LEMMA DenialParses ==
    ASSUME NEW s \in Slots, NEW actor, NEW tenant, now \in 0..MaxNow
    PROVE  LET e == GatewayEvent(s, "RouteDenied", actor, tenant) IN
           e.audit_id = <<s, "gateway">> /\ e.action = "RouteDenied"
           /\ (Suspect(e) \/ Parses("gateway", e))
<1> DEFINE e == GatewayEvent(s, "RouteDenied", actor, tenant)
<1>1. /\ DOMAIN e = WireKeys["gateway"]
      /\ e.audit_id = <<s, "gateway">> /\ e.occurred_at = Iso(now) /\ e.correlation_id = Correlation(s)
      /\ e.event_version = 1 /\ e.action = "RouteDenied" /\ e.outcome = "rejected"
    BY DEF GatewayEvent, WireKeys
<1> HIDE DEF e
<1>2. Required(e, "audit_id") /\ Required(e, "occurred_at") /\ Correlation(s) \notin {NoRef, Blank}
    BY <1>1, MintedAreFine, CorrelationIsThere DEF Required, Fine, Kinds
<1>3. ASSUME ~Suspect(e)
      PROVE  Parses("gateway", e)
    <2>1. \A f \in {"correlation_id", "actor_ref", "subject_ref", "tenant_ref", "carrier_ref",
                    "record_ref"} : Optional(e, f)
        BY <1>1, <1>3 DEF Suspect, References, WireKeys
    <2>2. Required(e, "correlation_id")
        BY <1>1, <1>2, <2>1 DEF Required, Optional
    <2> QED BY <1>1, <1>2, <2>1, <2>2 DEF Parses, ParseGateway, GatewayActions, Startup
<1> QED BY <1>1, <1>3 DEF e

\* So does the report of a carrier that names another tenant.
LEMMA CarrierParses ==
    ASSUME NEW s \in Slots, req[s] \in Menu[s], req[s].carriers # <<>>, now \in 0..MaxNow
    PROVE  LET e == CarrierEvent(s) IN
           e.audit_id = <<s, "gateway">> /\ e.action = "CarrierMismatch"
           /\ (Suspect(e) \/ Parses("gateway", e))
<1> DEFINE e == CarrierEvent(s)
           v == Opaque(req[s].carriers[1])
<1>0. v # NoRef /\ v[1] = "carrier:"
    BY NamesAssumption DEF Opaque
<1>1. /\ DOMAIN e = WireKeys["gateway"]
      /\ e.audit_id = <<s, "gateway">> /\ e.occurred_at = Iso(now) /\ e.correlation_id = Correlation(s)
      /\ e.event_version = 1 /\ e.action = "CarrierMismatch" /\ e.outcome = "rejected"
      /\ e.record_ref = NoRef /\ e.tenant_ref = NoRef /\ e.carrier_ref = v
    <2> HIDE DEF v
    <2>1. e = [GatewayEvent(s, "CarrierMismatch", NoRef, NoRef) EXCEPT !.carrier_ref = v]
        BY DEF CarrierEvent, v
    <2> HIDE DEF e
    <2> QED BY <2>1 DEF GatewayEvent, WireKeys
<1> HIDE DEF e, v
<1>2. Required(e, "audit_id") /\ Required(e, "occurred_at") /\ Correlation(s) \notin {NoRef, Blank}
    BY <1>1, MintedAreFine, CorrelationIsThere DEF Required, Fine, Kinds
<1>3. ASSUME ~Suspect(e)
      PROVE  Parses("gateway", e)
    <2>1. \A f \in {"correlation_id", "actor_ref", "subject_ref", "tenant_ref", "carrier_ref",
                    "record_ref"} : Optional(e, f)
        BY <1>1, <1>3 DEF Suspect, References, WireKeys
    <2>2. Required(e, "correlation_id")
        BY <1>1, <1>2, <2>1 DEF Required, Optional
    <2> QED BY <1>0, <1>1, <1>2, <2>1, <2>2 DEF Parses, ParseGateway, GatewayActions, Startup
<1> QED BY <1>1, <1>3 DEF e

\* So does the success of the control-plane read.
LEMMA MembershipsParse ==
    ASSUME NEW s \in Slots, req[s] \in Menu[s], now \in 0..MaxNow
    PROVE  LET e == [GatewayEvent(s, "workspace_memberships_read", Actor(s), NoRef)
                        EXCEPT !.subject_ref = Actor(s)] IN
           e.audit_id = <<s, "gateway">> /\ e.action = "workspace_memberships_read"
           /\ (Suspect(e) \/ Parses("gateway", e))
<1> DEFINE e == [GatewayEvent(s, "workspace_memberships_read", Actor(s), NoRef)
                    EXCEPT !.subject_ref = Actor(s)]
<1>1. /\ DOMAIN e = WireKeys["gateway"]
      /\ e.audit_id = <<s, "gateway">> /\ e.occurred_at = Iso(now) /\ e.correlation_id = Correlation(s)
      /\ e.event_version = 1 /\ e.action = "workspace_memberships_read" /\ e.outcome = "success"
      /\ e.record_ref = NoRef /\ e.actor_ref = Actor(s) /\ e.subject_ref = Actor(s)
    BY DEF GatewayEvent, WireKeys
<1> HIDE DEF e
<1>2. /\ Required(e, "audit_id") /\ Required(e, "occurred_at")
      /\ Correlation(s) \notin {NoRef, Blank} /\ Actor(s) \notin {NoRef, Blank}
    BY <1>1, MintedAreFine, CorrelationIsThere, ActorIsThere DEF Required, Fine, Kinds
<1>3. ASSUME ~Suspect(e)
      PROVE  Parses("gateway", e)
    <2>1. \A f \in {"correlation_id", "actor_ref", "subject_ref", "tenant_ref", "carrier_ref",
                    "record_ref"} : Optional(e, f)
        BY <1>1, <1>3 DEF Suspect, References, WireKeys
    <2>2. Required(e, "correlation_id") /\ Required(e, "actor_ref") /\ Required(e, "subject_ref")
        BY <1>1, <1>2, <2>1 DEF Required, Optional
    <2> QED BY <1>1, <1>2, <2>1, <2>2 DEF Parses, ParseGateway, GatewayActions, Startup
<1> QED BY <1>1, <1>3 DEF e

\* And the success of a startup edge, which serves only what the edge let in.
LEMMA StartupParses ==
    ASSUME NEW s \in Slots, req[s] \in Menu[s], now \in 0..MaxNow, Claim(s) \in Tenants,
           req[s].ref \notin {NoRef, Blank}
    PROVE  LET e == StartupEvent(s) IN
           /\ e.audit_id = <<s, "gateway">>
           /\ e.action = (IF Edge(req[s]) = "read" THEN "tenant_startup_read" ELSE "tenant_startup_update")
           /\ e.tenant_ref = Claim(s) /\ e.actor_ref = Actor(s) /\ e.record_ref = req[s].ref
           /\ Suspect(e) \/ Parses("gateway", e)
<1> DEFINE e == StartupEvent(s)
           action == IF Edge(req[s]) = "read" THEN "tenant_startup_read" ELSE "tenant_startup_update"
<1>0. action \in Startup
    BY DEF Startup
<1>1. /\ DOMAIN e = WireKeys["gateway"]
      /\ e.audit_id = <<s, "gateway">> /\ e.occurred_at = Iso(now) /\ e.correlation_id = Correlation(s)
      /\ e.event_version = 1 /\ e.action = action /\ e.outcome = "success"
      /\ e.record_ref = req[s].ref /\ e.actor_ref = Actor(s) /\ e.tenant_ref = Claim(s)
    <2>1. e = [GatewayEvent(s, action, Actor(s), Claim(s)) EXCEPT !.record_ref = req[s].ref]
        BY DEF StartupEvent, Target
    <2> HIDE DEF e, action
    <2> QED BY <1>0, <2>1 DEF GatewayEvent, WireKeys, Startup
<1> HIDE DEF e, action
<1>2. /\ Required(e, "audit_id") /\ Required(e, "occurred_at")
      /\ {Correlation(s), Actor(s)} \intersect {NoRef, Blank} = {} /\ Claim(s) # NoRef
    BY <1>1, MintedAreFine, CorrelationIsThere, ActorIsThere, GatewayAssumption DEF Required, Fine, Kinds
<1>3. ASSUME ~Suspect(e)
      PROVE  Parses("gateway", e)
    <2>1. \A f \in {"correlation_id", "actor_ref", "subject_ref", "tenant_ref", "carrier_ref",
                    "record_ref"} : Optional(e, f)
        BY <1>1, <1>3 DEF Suspect, References, WireKeys
    <2>2. Required(e, "correlation_id") /\ Required(e, "actor_ref") /\ Required(e, "record_ref")
        BY <1>1, <1>2, <2>1 DEF Required, Optional
    <2> QED BY <1>0, <1>1, <1>2, <2>1, <2>2 DEF Parses, ParseGateway, GatewayActions, Startup
<1> QED BY <1>1, <1>3 DEF e, action

\* The router's event parses, for the codes its route returns.
LEMMA RoutingParses ==
    ASSUME NEW s \in Slots, req[s] \in Menu[s], now \in 0..MaxNow,
           NEW action, NEW code,
           \/ action = "Route" /\ code = NoRef
           \/ action = "RouteDenied" /\ code \in {"not_ready", "connection_unavailable"}
    PROVE  LET e == RoutingEvent(s, action, code) IN
           e.event_id = <<s, "routing">> /\ (Suspect(e) \/ Parses("routing", e))
<1> DEFINE e == RoutingEvent(s, action, code)
<1>1. /\ DOMAIN e = WireKeys["routing"]
      /\ e.event_id = <<s, "routing">> /\ e.occurred_at = Iso(now) /\ e.correlation_id = Correlation(s)
      /\ e.event_version = 1 /\ e.action = action /\ e.actor_ref = Actor(s)
      /\ e.source_service = "database_router" /\ e.source_version = <<"version">>
      /\ e.request_ref = NoRef /\ e.error_class = NoRef
      /\ e.association_store_ref = NoRef /\ e.association_version = NoRef
      /\ e.resolved_tenant_ref \in {NoRef, e.tenant_ref}
      /\ e.lane \in {NoRef, "interactive", "bulk"}
    BY DEF RoutingEvent, WireKeys
<1>2. /\ action = "Route" => e.outcome = <<"success">> /\ e.public_code = NoRef
      /\ action = "RouteDenied" => e.outcome = <<"denied:", code>> /\ e.public_code = code
    BY DEF RoutingEvent
<1> HIDE DEF e
<1>3. /\ Required(e, "event_id") /\ Required(e, "occurred_at") /\ Required(e, "source_version")
      /\ Correlation(s) \notin {NoRef, Blank} /\ Actor(s) \notin {NoRef, Blank}
    BY <1>1, MintedAreFine, CorrelationIsThere, ActorIsThere DEF Required, Fine, Kinds
<1>4. ASSUME ~Suspect(e)
      PROVE  Parses("routing", e)
    <2>1. Optional(e, "correlation_id") /\ Optional(e, "actor_ref") /\ Optional(e, "tenant_ref")
        BY <1>1, <1>4 DEF Suspect, References, WireKeys
    <2>2. Required(e, "correlation_id") /\ Required(e, "actor_ref")
        BY <1>1, <1>3, <2>1 DEF Required, Optional
    <2>3. \A f \in {"request_ref", "tenant_ref", "resolved_tenant_ref",
                    "association_store_ref", "association_version"} : Optional(e, f)
        BY <1>1, <2>1 DEF Optional
    <2> QED BY <1>1, <1>2, <1>3, <2>2, <2>3 DEF Parses, ParseRouting, PublicCodes
<1> QED BY <1>1, <1>4 DEF e

\* And the import's last event.
LEMMA ImportParses ==
    ASSUME NEW s \in Slots, req[s] \in Menu[s], now \in 0..MaxNow, Claim(s) \in Tenants,
           req[s].ref \notin {NoRef, Blank}
    PROVE  LET e == ImportEvent(s, "ImportCompleted", <<"success">>) IN
           e.audit_id = <<s, "import">> /\ e.target_ref = Claim(s)
           /\ (Suspect(e) \/ Parses("import", e))
<1> DEFINE e == ImportEvent(s, "ImportCompleted", <<"success">>)
<1>1. /\ DOMAIN e = WireKeys["import"]
      /\ e.audit_id = <<s, "import">> /\ e.occurred_at = Iso(now) /\ e.correlation_id = Correlation(s)
      /\ e.event_version = 1 /\ e.action = "ImportCompleted" /\ e.outcome = <<"success">>
      /\ e.actor_ref = Actor(s) /\ e.target_ref = Claim(s) /\ e.source_ref = req[s].ref
    BY DEF ImportEvent, WireKeys, Target
<1> HIDE DEF e
<1>2. /\ Required(e, "audit_id") /\ Required(e, "occurred_at")
      /\ {Correlation(s), Actor(s), Claim(s)} \intersect {NoRef, Blank} = {}
    BY <1>1, MintedAreFine, CorrelationIsThere, ActorIsThere, GatewayAssumption, NamesAssumption
       DEF Required, Fine, Kinds
<1>3. ASSUME ~Suspect(e)
      PROVE  Parses("import", e)
    <2>1. \A f \in {"correlation_id", "actor_ref", "target_ref", "source_ref"} : Optional(e, f)
        BY <1>1, <1>3 DEF Suspect, References, WireKeys
    <2>2. \A f \in {"correlation_id", "actor_ref", "target_ref", "source_ref"} : Required(e, f)
        BY <1>1, <1>2, <2>1 DEF Required, Optional
    <2> QED BY <1>1, <1>2, <2>2 DEF Parses, ParseImport, CheckActionOutcome
<1> QED BY <1>1, <1>3 DEF e

-----------------------------------------------------------------------------
(***************************************************************************)
(* A step of the path for slot s sends nothing, or begins the emission of  *)
(* a true event.                                                           *)
(***************************************************************************)
BeginsTrue(s) ==
    \/ em' = em
    \/ \E k \in Kinds : \E e :
           /\ em[<<s, k>>].pc = "idle"
           /\ em' = [em EXCEPT ![<<s, k>>] = Emission(k, e)]
           /\ EventTrue(s, k, e)'

\* Faults are counted and never uncounted.
FaultsCount == faults' \in Nat /\ faults' >= faults

\* What was done stays done, and requests do not change.
Onward ==
    /\ did \subseteq did' /\ cfg' = cfg /\ FaultsCount
    /\ \A t \in Slots : req'[t] = req[t] \/ pc[t] = "idle"

\* An event that is true stays true.
LEMMA EventStays ==
    ASSUME NEW s \in Slots, NEW k \in Kinds, NEW e, EventTrue(s, k, e),
           did \subseteq did', req'[s] = req[s]
    PROVE  EventTrue(s, k, e)'
BY DEF EventTrue

\* A slot that has begun keeps its request; one that has not has sent nothing.
LEMMA TrueEmissionStays ==
    ASSUME OnceInv, Onward, NEW s \in Slots, NEW k \in Kinds, EmissionTrue(s, k),
           em'[<<s, k>>] = em[<<s, k>>]
    PROVE  EmissionTrue(s, k)'
<1>1. pc[s] = "idle" => em[<<s, k>>].pc = "idle"
    BY DEF OnceInv, EmitsOnce, Kinds
<1>2. CASE em[<<s, k>>].pc = "idle"
    BY <1>2 DEF EmissionTrue
<1>3. CASE em[<<s, k>>].pc # "idle"
    <2>1. req'[s] = req[s] /\ did \subseteq did'
        BY <1>1, <1>3 DEF Onward
    <2>2. EventTrue(s, k, em[<<s, k>>].event)'
        BY <1>3, <2>1, EventStays DEF EmissionTrue
    <2> QED BY <1>3, <2>2 DEF EmissionTrue, EventTrue
<1> QED BY <1>2, <1>3

\* So do the emissions and rows of all slots when one begins a true one.
LEMMA PathKeepsTruth ==
    ASSUME TruthInv, OnceInv, SinkInv, Onward, NEW s \in Slots, BeginsTrue(s), rows' = rows
    PROVE  /\ \A t \in Slots, j \in Kinds : EmissionTrue(t, j)' /\ RowOwned(t, j)'
           /\ NoFalseAlarm'
<1>0. \A t \in Slots, j \in Kinds : <<t, j>> \in Senders
    BY GatewayAssumption
<1>1. CASE em' = em
    <2>1. \A t \in Slots, j \in Kinds : EmissionTrue(t, j)' /\ RowOwned(t, j)'
        BY <1>1, TrueEmissionStays DEF TruthInv, RowOwned
    <2>2. NoFalseAlarm'
        BY <1>1 DEF TruthInv, NoFalseAlarm, Onward, FaultsCount
    <2> QED BY <2>1, <2>2
<1>2. CASE em' # em
    <2>1. PICK k \in Kinds : \E e :
              /\ em[<<s, k>>].pc = "idle" /\ em' = [em EXCEPT ![<<s, k>>] = Emission(k, e)]
              /\ EventTrue(s, k, e)'
        BY <1>2 DEF BeginsTrue
    <2>2. PICK e : /\ em[<<s, k>>].pc = "idle" /\ em' = [em EXCEPT ![<<s, k>>] = Emission(k, e)]
                   /\ EventTrue(s, k, e)'
        BY <2>1
    <2>3. \A x \in Senders : x # <<s, k>> => em'[x] = em[x]
        BY <2>2 DEF SinkInv, SinkShape
    <2>4. em'[<<s, k>>] = Emission(k, e)
        BY <1>0, <2>2 DEF SinkInv, SinkShape
    <2>5. /\ em'[<<s, k>>].pc = "post" /\ em'[<<s, k>>].kind = k /\ em'[<<s, k>>].event = e
          /\ em'[<<s, k>>].fail = "none"
        BY <2>4 DEF Emission
    <2>6. ASSUME NEW t \in Slots, NEW j \in Kinds
          PROVE  EmissionTrue(t, j)' /\ RowOwned(t, j)'
        <3>1. CASE t = s /\ j = k
            <4>1. EmissionTrue(s, k)'
                BY <2>2, <2>5 DEF EmissionTrue, EventTrue
            <4>2. RowOwned(s, k)'
                BY <2>2 DEF TruthInv, RowOwned
            <4> QED BY <3>1, <4>1, <4>2
        <3>2. CASE ~(t = s /\ j = k)
            <4>1. <<t, j>> # <<s, k>>
                BY <3>2
            <4>2. em'[<<t, j>>] = em[<<t, j>>]
                BY <1>0, <2>3, <4>1
            <4> QED BY <4>2, TrueEmissionStays DEF TruthInv, RowOwned
        <3> QED BY <3>1, <3>2
    <2>7. NoFalseAlarm'
        BY <2>3, <2>5 DEF TruthInv, NoFalseAlarm, Onward, FaultsCount
    <2> QED BY <2>6, <2>7
<1> QED BY <1>1, <1>2

\* Slot s keeps its work true, the other slots are left alone.
LEMMA PathTruth ==
    ASSUME TruthInv, OnceInv, SinkInv, Onward, NEW s \in Slots, BeginsTrue(s), rows' = rows,
           now' = now, WorkTrue(s)',
           \A t \in Slots : t # s => req'[t] = req[t] /\ pc'[t] = pc[t] /\ dp'[t] = dp[t]
                                     /\ au'[t] = au[t]
    PROVE  TruthInv'
<1>1. ASSUME NEW t \in Slots, t # s
      PROVE  WorkTrue(t)'
    <2>1. WorkTrue(t) /\ req'[t] = req[t] /\ pc'[t] = pc[t] /\ dp'[t] = dp[t] /\ au'[t] = au[t]
          /\ did \subseteq did' /\ cfg' = cfg
        BY <1>1 DEF TruthInv, Onward
    <2>2. Edge(req[t])' = Edge(req[t])
        BY <2>1 DEF Edge, Op
    <2>3. EdgeStatus(req[t])' = EdgeStatus(req[t])
        BY <2>1
    <2> QED BY <2>1, <2>2, <2>3 DEF WorkTrue, Claim, Actor, CarriersMatch, Carriers
<1>2. \A t \in Slots : WorkTrue(t)'
    BY <1>1
<1> QED BY <1>2, PathKeepsTruth DEF TruthInv, Onward, FaultsCount

-----------------------------------------------------------------------------
(***************************************************************************)
(* Every step goes onward.                                                 *)
(***************************************************************************)
LEMMA FaultsAreCounted ==
    ASSUME faults \in Nat, [GNext]_gvars
    PROVE  FaultsCount
<1>1. \A n \in Nat : Fault(n) => FaultsCount
    BY DEF Fault, FaultsCount
<1>2. faults' = faults => FaultsCount
    BY DEF FaultsCount
<1>3. ASSUME NEW s \in Slots, Arrives(s) \/ GatewayStep(s) \/ AuthStep(s) \/ DataStep(s)
      PROVE  FaultsCount
    <2>1. Arrives(s) => FaultsCount
        BY <1>2 DEF Arrives, Handle, sinkVars
    <2>2. GatewayStep(s) => FaultsCount
        BY <1>1, <1>2 DEF GatewayStep, Authenticated, ReadMemberships, Concluded, Emitted, sinkVars
    <2>3. AuthStep(s) => FaultsCount
        BY <1>1, <1>2 DEF AuthStep, Authenticate, AuthReads, sinkVars
    <2>4. DataStep(s) => FaultsCount
        BY <1>1, <1>2 DEF DataStep, OpenSession, Routed, RunData, ImportRecorded, sinkVars
    <2> QED BY <1>3, <2>1, <2>2, <2>3, <2>4
<1>4. ASSUME NEW s \in Slots, AuthTimesOut(s) \/ DataTimesOut(s)
      PROVE  FaultsCount
    BY <1>1, <1>4 DEF AuthTimesOut, DataTimesOut
<1>5. CASE SinkStep
    <2>1. ASSUME NEW x \in Senders, SenderStep(x)
          PROVE  FaultsCount
        <3>1. Post(x) \/ Refused(x) \/ TimeOut(x) => FaultsCount
            BY <1>1, <1>2 DEF Post, Refused, TimeOut
        <3>2. ASSUME NEW w \in wire, Ingest(w)
              PROVE  FaultsCount
            <4>1. PICK c \in DbConduct, delivered \in {"whole", "damaged", "lost"} :
                      Fault((IF c = "works" THEN 0 ELSE 1) + (IF delivered = "whole" THEN 0 ELSE 1))
                BY <3>2 DEF Ingest
            <4> QED BY <1>1, <4>1
        <3>3. ASSUME NEW w \in wire, Lost(w)
              PROVE  FaultsCount
            BY <1>1, <3>3 DEF Lost
        <3> QED BY <2>1, <3>1, <3>2, <3>3 DEF SenderStep
    <2> QED BY <1>1, <1>5, <2>1 DEF SinkStep, StrayPost, EdgeRestarts
<1>6. CASE ControlPlaneChanges \/ Tick
    BY <1>2, <1>6 DEF ControlPlaneChanges, Revoke, Grant, SetReady, Changes, Tick, sinkVars
<1>7. CASE UNCHANGED gvars
    BY <1>2, <1>7 DEF gvars, sinkVars
<1> QED BY <1>3, <1>4, <1>5, <1>6, <1>7 DEF GNext

LEMMA StepsGoOnward ==
    ASSUME RequestInv, TruthInv, [GNext]_gvars
    PROVE  Onward
<1>1. FaultsCount
    BY FaultsAreCounted DEF TruthInv
<1>2. ASSUME NEW s \in Slots, Arrives(s) \/ GatewayStep(s) \/ AuthStep(s) \/ DataStep(s)
      PROVE  Onward
    <2>1. Arrives(s) => Onward
        BY <1>1 DEF Arrives, Handle, Onward, RequestInv, RequestShape
    <2>2. GatewayStep(s) => Onward
        BY <1>1 DEF GatewayStep, Authenticated, ReadMemberships, Concluded, Emitted, Onward
    <2>3. AuthStep(s) => Onward
        BY <1>1 DEF AuthStep, Authenticate, AuthReads, Onward
    <2>4. ASSUME DataStep(s)
          PROVE  Onward
        <3>1. req' = req /\ cfg' = cfg
            BY <2>4 DEF DataStep, OpenSession, Routed, RunData, ImportRecorded
        <3>2. CASE RunData(s)
            <4>1. RunStartup(s) \/ RunImport(s) => did' = did \/ Performs(s)
                BY DEF RunStartup, RunImport
            <4>2. did' = did \/ Performs(s)
                BY <3>2, <4>1 DEF RunData, Edge, Op
            <4>3. Performs(s) => did \subseteq did'
                BY DEF Performs
            <4> QED BY <1>1, <3>1, <4>2, <4>3 DEF Onward
        <3>3. CASE OpenSession(s) \/ Routed(s) \/ ImportRecorded(s)
            BY <1>1, <3>1, <3>3 DEF OpenSession, Routed, ImportRecorded, Onward
        <3> QED BY <2>4, <3>2, <3>3 DEF DataStep
    <2> QED BY <1>2, <2>1, <2>2, <2>3, <2>4
<1>3. CASE UNCHANGED <<req, cfg, did>>
    BY <1>1, <1>3 DEF Onward
<1> QED
    BY <1>2, <1>3 DEF GNext, AuthTimesOut, DataTimesOut, pathVars, gvars, ControlPlaneChanges, Revoke,
       Grant, SetReady, Changes, Tick

-----------------------------------------------------------------------------
(***************************************************************************)
(* The steps of the gateway.                                               *)
(***************************************************************************)
\* An event that tells of no data is true if it parses.
LEMMA PlainIsTrue ==
    ASSUME NEW s \in Slots, NEW e, e.audit_id = <<s, "gateway">>, e.action \notin Startup,
           Suspect(e) \/ Parses("gateway", e)
    PROVE  EventTrue(s, "gateway", e)'
BY DEF EventTrue, IdKey

\* The gateway's place in the pipeline is passed once.
LEMMA EmitThenBegins ==
    ASSUME OnceInv, NEW s \in Slots, pc[s] \in {"auth", "read", "data"}, NEW e, NEW r,
           EmitThen(s, e, r), EventTrue(s, "gateway", e)'
    PROVE  BeginsTrue(s)
<1>1. em[<<s, "gateway">>].pc = "idle" /\ "gateway" \in Kinds
    BY DEF OnceInv, EmitsOnce, Kinds
<1> QED BY <1>1 DEF EmitThen, Begin, BeginsTrue

LEMMA DenialBegins ==
    ASSUME TruthInv, OnceInv, NEW s \in Slots, pc[s] \in {"auth", "read", "data"},
           NEW actor, NEW tenant, NEW r, RouteDenied(s, actor, tenant, r)
    PROVE  BeginsTrue(s)
<1>0. PICK e : e = GatewayEvent(s, "RouteDenied", actor, tenant)
    OBVIOUS
<1>1. e.audit_id = <<s, "gateway">> /\ e.action \notin Startup /\ (Suspect(e) \/ Parses("gateway", e))
    BY <1>0, DenialParses DEF TruthInv, Startup
<1>2. EmitThen(s, e, r)
    BY <1>0 DEF RouteDenied
<1>3. EventTrue(s, "gateway", e)'
    BY <1>1, PlainIsTrue
<1> QED BY <1>2, <1>3, EmitThenBegins

\* What is refused before the data plane is told of truly.
LEMMA RejectBegins ==
    ASSUME TruthInv, OnceInv, RequestInv, NEW s \in Slots, pc[s] = "auth", NEW code, Reject(s, code),
           code = "carrier_mismatch" => req[s].carriers # <<>>
    PROVE  BeginsTrue(s)
<1>1. CASE code # "carrier_mismatch"
    <2>1. RouteDenied(s, NoRef, NoRef, Denial(code))
        BY <1>1 DEF Reject
    <2> QED BY <2>1, DenialBegins
<1>2. CASE code = "carrier_mismatch"
    <2>0. PICK e : e = CarrierEvent(s)
        OBVIOUS
    <2>1. req[s] \in Menu[s]
        BY DEF RequestInv, SlotInv, AuthPart
    <2>2. e.audit_id = <<s, "gateway">> /\ e.action \notin Startup /\ (Suspect(e) \/ Parses("gateway", e))
        BY <1>2, <2>0, <2>1, CarrierParses DEF TruthInv, Startup
    <2>3. EmitThen(s, e, Denial(code))
        BY <1>2, <2>0 DEF Reject
    <2>4. EventTrue(s, "gateway", e)'
        BY <2>2, PlainIsTrue
    <2> QED BY <2>3, <2>4, EmitThenBegins
<1> QED BY <1>1, <1>2

\* The work on a slot stays true while its edge answers no record anew.
LEMMA WorkStays ==
    ASSUME NEW s \in Slots, WorkTrue(s), Onward, req'[s] = req[s],
           dp'[s].answer = "record" => dp[s].answer = "record",
           pc'[s] \in {"auth", "read", "data"} \/ dp'[s].stage # "none" =>
               pc[s] \in {"auth", "read", "data"} \/ dp[s].stage # "none",
           dp'[s].stage # "none" => dp[s].stage # "none" \/ Claim(s) \in Tenants,
           au'[s].answer = "carrier_mismatch" => ~CarriersMatch(req[s])
    PROVE  WorkTrue(s)'
<1>1. Edge(req[s])' = Edge(req[s]) /\ EdgeStatus(req[s])' = EdgeStatus(req[s])
    BY DEF Edge, Op, Onward
<1> QED BY <1>1 DEF WorkTrue, Onward, Claim, Actor, CarriersMatch, Carriers

\* A slot the gateway answers.
LEMMA AnsweredSlot ==
    ASSUME TruthInv, OnceInv, SinkInv, RequestInv, Onward, NEW s \in Slots,
           pc[s] \in {"auth", "read", "data"}, BeginsTrue(s),
           \E p : pc' = [pc EXCEPT ![s] = p], UNCHANGED <<rows, now, req, au, dp>>
    PROVE  TruthInv'
<1>1. \A t \in Slots : t # s => pc'[t] = pc[t]
    BY DEF OnceInv, PathShape
<1>2. WorkTrue(s)'
    BY WorkStays DEF TruthInv, WorkTrue
<1> QED BY <1>1, <1>2, PathTruth

LEMMA EmitThenMoves ==
    ASSUME NEW s, NEW e, NEW r, EmitThen(s, e, r)
    PROVE  \E p : pc' = [pc EXCEPT ![s] = p]
BY DEF EmitThen, Respond

LEMMA AuthenticatedTruth ==
    ASSUME TruthInv, OnceInv, SinkInv, RequestInv, RevocationInv, Onward,
           NEW s \in Slots, Authenticated(s)
    PROVE  TruthInv'
<1>1. pc[s] = "auth" /\ UNCHANGED <<rows, req, now, au, cfg, did>>
    BY DEF Authenticated
<1>2. CASE au[s].answer # "ok"
    <2>1. Reject(s, au[s].answer) /\ dp' = dp
        BY <1>2 DEF Authenticated
    <2>2. au[s].answer = "carrier_mismatch" => req[s].carriers # <<>>
        BY DEF TruthInv, WorkTrue, CarriersMatch, Carriers
    <2>3. BeginsTrue(s)
        BY <1>1, <2>1, <2>2, RejectBegins
    <2>4. \E p : pc' = [pc EXCEPT ![s] = p]
        BY <2>1, EmitThenMoves DEF Reject, RouteDenied
    <2> QED BY <1>1, <2>1, <2>3, <2>4, AnsweredSlot
<1>3. CASE au[s].answer = "ok"
    <2>1. Proceed(s)
        BY <1>3 DEF Authenticated
    <2>2. CASE em' = em /\ dp' = dp /\ \E p : pc' = [pc EXCEPT ![s] = p]
        BY <1>1, <2>2, AnsweredSlot DEF BeginsTrue
    <2>3. CASE RouteDenied(s, Actor(s), NoRef, Answer(403, "tenant_context_required")) /\ dp' = dp
        <3>1. BeginsTrue(s)
            BY <1>1, <2>3, DenialBegins
        <3> QED BY <1>1, <2>3, <3>1, EmitThenMoves, AnsweredSlot DEF RouteDenied
    <2>4. CASE /\ Target(s) # NoRef /\ em' = em
               /\ pc' = [pc EXCEPT ![s] = "data"]
               /\ dp' = [dp EXCEPT ![s].stage = "queued"]
        <3>1. Claim(s) \in Tenants
            BY <1>3, <2>4 DEF RevocationInv, LetInOk, LetIn, Held, Target
        <3>2. /\ dp'[s].answer = dp[s].answer
              /\ \A t \in Slots : t # s => dp'[t] = dp[t] /\ pc'[t] = pc[t]
            BY <2>4 DEF OnceInv, PathShape
        <3>3. WorkTrue(s)'
            BY <1>1, <3>1, <3>2, WorkStays DEF TruthInv, WorkTrue
        <3> QED BY <1>1, <2>4, <3>2, <3>3, PathTruth DEF BeginsTrue
    <2> QED BY <2>1, <2>2, <2>3, <2>4 DEF Proceed, Respond
<1> QED BY <1>2, <1>3

LEMMA AuthTimesOutTruth ==
    ASSUME TruthInv, OnceInv, SinkInv, RequestInv, Onward, NEW s \in Slots, AuthTimesOut(s)
    PROVE  TruthInv'
<1>1. pc[s] = "auth" /\ Reject(s, "503") /\ UNCHANGED <<rows, req, now, au, dp>>
    BY DEF AuthTimesOut
<1>2. BeginsTrue(s)
    BY <1>1, RejectBegins
<1> QED BY <1>1, <1>2, EmitThenMoves, AnsweredSlot DEF Reject, RouteDenied

LEMMA DataTimesOutTruth ==
    ASSUME TruthInv, OnceInv, SinkInv, RequestInv, Onward, NEW s \in Slots, DataTimesOut(s)
    PROVE  TruthInv'
BY AnsweredSlot DEF DataTimesOut, Respond, BeginsTrue

LEMMA ReadMembershipsTruth ==
    ASSUME TruthInv, OnceInv, SinkInv, RequestInv, Onward, NEW s \in Slots, ReadMemberships(s)
    PROVE  TruthInv'
<1>1. pc[s] = "read" /\ UNCHANGED <<rows, req, now, au, dp>> /\ req[s] \in Menu[s]
    BY DEF ReadMemberships, RequestInv, SlotInv, AuthPart
<1>2. PICK e : e = [GatewayEvent(s, "workspace_memberships_read", Actor(s), NoRef)
                       EXCEPT !.subject_ref = Actor(s)]
    OBVIOUS
<1>3. CASE EmitThen(s, e, Answer(200, "ok"))
    <2>1. EventTrue(s, "gateway", e)'
        <3>1. e.audit_id = <<s, "gateway">> /\ e.action = "workspace_memberships_read"
              /\ (Suspect(e) \/ Parses("gateway", e))
            BY <1>1, <1>2, MembershipsParse DEF TruthInv
        <3> QED BY <3>1, PlainIsTrue DEF Startup
    <2> QED BY <1>1, <1>3, <2>1, EmitThenBegins, EmitThenMoves, AnsweredSlot
<1>4. CASE RouteDenied(s, Actor(s), Target(s), Answer(403, "forbidden"))
    BY <1>1, <1>4, DenialBegins, EmitThenMoves, AnsweredSlot DEF RouteDenied
<1>5. CASE Respond(s, Unavailable) /\ em' = em
    BY <1>1, <1>5, AnsweredSlot DEF Respond, BeginsTrue
<1> QED BY <1>2, <1>3, <1>4, <1>5 DEF ReadMemberships

\* The gateway tells of the startup that the edge answered.
LEMMA StartupBegins ==
    ASSUME TruthInv, OnceInv, RequestInv, Onward, NEW s \in Slots, NEW e, NEW r,
           pc[s] = "data", dp[s].stage = "answered", dp[s].answer = "record",
           req' = req, e = StartupEvent(s), EmitThen(s, e, r)
    PROVE  BeginsTrue(s)
<1>1. req[s] \in Menu[s] /\ now \in 0..MaxNow /\ Claim(s) \in Tenants
    BY DEF RequestInv, SlotInv, AuthPart, TruthInv, WorkTrue
<1>2. Edge(req[s]) \in {"read", "update"} /\ req[s].route = "startup"
    BY DEF RequestInv, SlotInv, DataPart, Edge, Op
<1>3. req[s].ref \notin {NoRef, Blank}
    BY <1>2 DEF TruthInv, WorkTrue, EdgeStatus
<1>4. /\ e.audit_id = <<s, "gateway">>
      /\ e.action = (IF Edge(req[s]) = "read" THEN "tenant_startup_read" ELSE "tenant_startup_update")
      /\ e.tenant_ref = Claim(s) /\ e.actor_ref = Actor(s) /\ e.record_ref = req[s].ref
      /\ Suspect(e) \/ Parses("gateway", e)
    BY <1>1, <1>3, StartupParses
<1>5. PICK d \in did : d.slot = s /\ d.tenant = Claim(s) /\ d.ref = req[s].ref
                       /\ d.actor = Actor(s) /\ d.op = Edge(req[s])
    BY DEF TruthInv, WorkTrue
<1>6. d \in did' /\ d.op = (IF e.action = "tenant_startup_read" THEN "read" ELSE "update")
    BY <1>2, <1>4, <1>5 DEF Onward
<1>7. EventTrue(s, "gateway", e)'
    BY <1>4, <1>5, <1>6 DEF EventTrue, IdKey
<1> QED BY <1>7, EmitThenBegins

LEMMA ConcludedTruth ==
    ASSUME TruthInv, OnceInv, SinkInv, RequestInv, Onward, NEW s \in Slots, Concluded(s)
    PROVE  TruthInv'
<1>1. /\ pc[s] = "data" /\ dp[s].stage = "answered" /\ Conclude(s, dp[s].answer)
      /\ UNCHANGED <<rows, req, now, au, dp>>
    BY DEF Concluded
<1>2. CASE dp[s].answer = "record"
    <2>1. PICK e : e = StartupEvent(s)
        OBVIOUS
    <2>2. EmitThen(s, e, Answer(200, "ok"))
        BY <1>1, <1>2, <2>1 DEF Conclude
    <2> QED BY <1>1, <1>2, <2>1, <2>2, StartupBegins, EmitThenMoves, AnsweredSlot
<1>3. CASE dp[s].answer = "nothing"
    <2>1. RouteDenied(s, Actor(s), Target(s), Answer(403, "forbidden"))
        BY <1>1, <1>3 DEF Conclude
    <2> QED BY <1>1, <2>1, DenialBegins, EmitThenMoves, AnsweredSlot DEF RouteDenied
<1>4. CASE dp[s].answer \notin {"record", "nothing"}
    <2>1. em' = em /\ \E p : pc' = [pc EXCEPT ![s] = p]
        BY <1>1, <1>4 DEF Conclude, Respond
    <2> QED BY <1>1, <2>1, AnsweredSlot DEF BeginsTrue
<1> QED BY <1>2, <1>3, <1>4

LEMMA EmittedTruth ==
    ASSUME TruthInv, OnceInv, SinkInv, RequestInv, Onward, NEW s \in Slots, Emitted(s)
    PROVE  TruthInv'
<1>1. /\ UNCHANGED <<em, rows, req, now, au, dp>> /\ pc' = [pc EXCEPT ![s] = "done"]
    BY DEF Emitted, Respond, sinkVars
<1>2. /\ pc'[s] = "done" /\ \A t \in Slots : t # s => pc'[t] = pc[t]
    BY <1>1 DEF OnceInv, PathShape
<1>3. WorkTrue(s)'
    BY <1>1, <1>2, WorkStays DEF TruthInv, WorkTrue
<1> QED BY <1>1, <1>2, <1>3, PathTruth DEF BeginsTrue

\* A request that arrives has no work yet.
LEMMA HandleTruth ==
    ASSUME TruthInv, OnceInv, SinkInv, RequestInv, Onward,
           NEW s \in Slots, NEW q \in Menu[s], Handle(s, q)
    PROVE  TruthInv'
<1>1. /\ pc[s] = "idle" /\ req' = [req EXCEPT ![s] = q]
      /\ UNCHANGED <<em, rows, cfg, now, dp>>
    BY DEF Handle, sinkVars
<1>2. /\ req'[s] = q /\ \A t \in Slots : t # s => req'[t] = req[t]
    BY <1>1 DEF RequestInv, RequestShape
<1>3. /\ dp'[s].stage = "none" /\ dp'[s].answer = "none" /\ au[s].answer = "none"
    BY <1>1 DEF OnceInv, EmitsOnce, RequestInv, SlotInv, AuthPart, DataPart, Pre
<1>4. /\ \A t \in Slots : t # s => pc'[t] = pc[t] /\ au'[t] = au[t]
      /\ pc'[s] # "done" => EdgeStatus(q) = 0
      /\ au'[s].answer = "none"
    BY <1>1, <1>3 DEF Handle, Respond, OnceInv, PathShape, RequestInv, RequestShape
<1>5. EdgeStatus(req'[s]) = EdgeStatus(q)
    BY <1>2
<1>6. WorkTrue(s)'
    BY <1>2, <1>3, <1>4, <1>5 DEF WorkTrue
<1> QED BY <1>1, <1>2, <1>4, <1>6, PathTruth DEF BeginsTrue

-----------------------------------------------------------------------------
(***************************************************************************)
(* The steps of the auth router and of the data-plane edges.               *)
(***************************************************************************)
\* The auth router finds a mismatch only when it validates the token.
LEMMA AuthTruth ==
    ASSUME TruthInv, OnceInv, SinkInv, RequestInv, Onward, NEW s \in Slots, NEW a,
           au' = [au EXCEPT ![s] = a],
           a.answer = "carrier_mismatch" => ~CarriersMatch(req[s]),
           UNCHANGED <<em, rows, now, req, pc, dp>>
    PROVE  TruthInv'
<1>1. au'[s] = a /\ \A t \in Slots : t # s => au'[t] = au[t]
    BY DEF RequestInv, RequestShape
<1>2. WorkTrue(s)'
    BY <1>1, WorkStays DEF TruthInv, WorkTrue
<1> QED BY <1>1, <1>2, PathTruth DEF BeginsTrue

LEMMA AuthenticateTruth ==
    ASSUME TruthInv, OnceInv, SinkInv, RequestInv, Onward, NEW s \in Slots, Authenticate(s)
    PROVE  TruthInv'
<1>1. /\ au[s].stage = "queued" /\ AuthPart(s)
      /\ au[s] = Work(au[s].stage, au[s].answer, au[s].ready, au[s].member, au[s].at)
      /\ au = [t \in Slots |-> au[t]]
      /\ UNCHANGED <<em, rows, now, req, pc, dp>>
    BY DEF Authenticate, RequestInv, RequestShape, SlotInv, sinkVars, Work
<1>2. au[s].answer = "none"
    BY <1>1 DEF AuthPart, Pre
<1>3. CASE Stage1(req[s]) = "reads"
    <2>1. PICK a : a = [au[s] EXCEPT !.stage = "state"]
        OBVIOUS
    <2>2. au' = [au EXCEPT ![s] = a]
        BY <1>1, <1>3, <2>1 DEF Authenticate
    <2>3. a.answer = "none"
        BY <1>1, <1>2, <2>1 DEF Work
    <2> QED BY <1>1, <2>2, <2>3, AuthTruth
<1>4. CASE Stage1(req[s]) # "reads"
    <2>1. PICK a : a = [[au[s] EXCEPT !.stage = "answered"] EXCEPT !.answer = Stage1(req[s])]
        OBVIOUS
    <2>2. au' = [au EXCEPT ![s] = a]
        BY <1>1, <1>4, <2>1 DEF Authenticate
    <2>3. a.answer = Stage1(req[s])
        BY <1>1, <2>1, WorkUpdates DEF Work
    <2>4. Stage1(req[s]) = "carrier_mismatch" => ~CarriersMatch(req[s])
        BY DEF Stage1, Validate
    <2> QED BY <1>1, <2>2, <2>3, <2>4, AuthTruth
<1> QED BY <1>3, <1>4

LEMMA AuthReadsTruth ==
    ASSUME TruthInv, OnceInv, SinkInv, RequestInv, Onward, NEW s \in Slots, AuthReads(s)
    PROVE  TruthInv'
<1>1. /\ au[s].stage \in {"state", "member", "role"} /\ AuthPart(s) /\ RequestShape
      /\ UNCHANGED <<em, rows, now, req, pc, dp>>
    BY DEF AuthReads, RequestInv, SlotInv
<1>2. au[s].answer = "none"
    BY <1>1 DEF AuthPart, Pre
<1>3. CASE AuthFails(s)
    <2>1. PICK a : a = Work("answered", "503", au[s].ready, au[s].member, au[s].at)
        OBVIOUS
    <2>2. au' = [au EXCEPT ![s] = a] /\ a.answer = "503"
        BY <1>1, <1>3, <2>1, LearnsIsLearned DEF Work
    <2> QED BY <1>1, <2>2, AuthTruth
<1>4. ASSUME NEW v, AuthLearns(s, v)
      PROVE  TruthInv'
    <2>1. PICK a : a = AuthLearned(s, v)
        OBVIOUS
    <2>2. au' = [au EXCEPT ![s] = a]
        BY <1>1, <1>4, <2>1, LearnsIsLearned
    <2>3. a.answer \in {"none", "forbidden", "ok"}
        BY <1>1, <1>2, <2>1 DEF AuthLearned, Work
    <2> QED BY <1>1, <2>2, <2>3, AuthTruth
<1> QED BY <1>3, <1>4 DEF AuthReads

\* An edge works on a slot; a record is answered of what was just done.
LEMMA EdgeTruth ==
    ASSUME TruthInv, OnceInv, SinkInv, RequestInv, Onward, NEW s \in Slots, NEW d,
           dp[s].stage # "none", dp' = [dp EXCEPT ![s] = d],
           d.answer = "record" => dp[s].answer = "record" \/ Performs(s),
           BeginsTrue(s), UNCHANGED <<rows, now, req, pc, au>>
    PROVE  TruthInv'
<1>1. dp'[s] = d /\ \A t \in Slots : t # s => dp'[t] = dp[t]
    BY DEF OnceInv, PathShape
<1>2. CASE d.answer = "record" => dp[s].answer = "record"
    <2>1. WorkTrue(s)'
        BY <1>1, <1>2, WorkStays DEF TruthInv, WorkTrue
    <2> QED BY <1>1, <2>1, PathTruth
<1>3. CASE Performs(s)
    <2>1. PICK x : x = [slot |-> s, op |-> Edge(req[s]), tenant |-> Target(s), ref |-> req[s].ref,
                        actor |-> Actor(s)]
        OBVIOUS
    <2>2. x \in did'
        BY <1>3, <2>1 DEF Performs
    <2>3. x.slot = s /\ x.tenant = Claim(s) /\ x.ref = req[s].ref /\ x.actor = Actor(s)
          /\ x.op = Edge(req[s])
        BY <2>1 DEF Target
    <2>4. Edge(req[s])' = Edge(req[s]) /\ EdgeStatus(req[s])' = EdgeStatus(req[s])
          /\ Claim(s)' = Claim(s) /\ Actor(s)' = Actor(s) /\ CarriersMatch(req[s])' = CarriersMatch(req[s])
        BY DEF Edge, Op, Onward, Claim, Actor, CarriersMatch, Carriers
    <2>5. WorkTrue(s)'
        BY <1>1, <2>2, <2>3, <2>4 DEF TruthInv, WorkTrue
    <2> QED BY <1>1, <2>5, PathTruth
<1> QED BY <1>2, <1>3

LEMMA RepliesTruth ==
    ASSUME TruthInv, OnceInv, SinkInv, RequestInv, Onward, NEW s \in Slots, NEW answer,
           dp[s].stage # "none", Replies(s, answer), answer = "record" => Performs(s),
           UNCHANGED <<em, rows, now, req, pc, au>>
    PROVE  TruthInv'
<1>1. PICK d : d = [[dp[s] EXCEPT !.stage = "answered"] EXCEPT !.answer = answer]
    OBVIOUS
<1>2. dp' = [dp EXCEPT ![s] = d] /\ d.answer = answer
    <2>1. dp' = [dp EXCEPT ![s] = d]
        BY <1>1 DEF Replies, OnceInv, PathShape
    <2>2. PICK c : c = [dp[s] EXCEPT !.stage = "answered"]
        OBVIOUS
    <2>3. c = [stage |-> "answered", answer |-> dp[s].answer]
        BY <2>2 DEF OnceInv, PathShape
    <2>4. d = [c EXCEPT !.answer = answer]
        BY <1>1, <2>2
    <2> QED BY <2>1, <2>3, <2>4
<1> QED BY <1>2, EdgeTruth DEF BeginsTrue

LEMMA ImportRecordedTruth ==
    ASSUME TruthInv, OnceInv, SinkInv, RequestInv, Onward, NEW s \in Slots, ImportRecorded(s)
    PROVE  TruthInv'
BY RepliesTruth DEF ImportRecorded, Imported, sinkVars

LEMMA RoutedTruth ==
    ASSUME TruthInv, OnceInv, SinkInv, RequestInv, Onward, NEW s \in Slots, Routed(s)
    PROVE  TruthInv'
<1>1. /\ dp[s].stage = "routing" /\ UNCHANGED <<em, rows, now, req, pc, au>>
      /\ dp' = [dp EXCEPT ![s].stage = "run"] \/ Replies(s, "denied")
    BY DEF Routed, sinkVars
<1>2. CASE dp' = [dp EXCEPT ![s].stage = "run"]
    <2>1. PICK d : d = [dp[s] EXCEPT !.stage = "run"]
        OBVIOUS
    <2>2. dp' = [dp EXCEPT ![s] = d] /\ d.answer = dp[s].answer
        BY <1>2, <2>1 DEF OnceInv, PathShape
    <2> QED BY <1>1, <2>2, EdgeTruth DEF BeginsTrue
<1>3. CASE Replies(s, "denied")
    BY <1>1, <1>3, RepliesTruth
<1> QED BY <1>1, <1>2, <1>3

\* The router's event parses, so it is true: it tells of no data.
LEMMA RoutesTruth ==
    ASSUME TruthInv, OnceInv, SinkInv, RequestInv, Onward, NEW s \in Slots,
           NEW action, NEW code,
           \/ action = "Route" /\ code = NoRef
           \/ action = "RouteDenied" /\ code \in {"not_ready", "connection_unavailable"},
           dp[s].stage = "queued", Routes(s, action, code),
           UNCHANGED <<rows, now, req, pc, au>>
    PROVE  TruthInv'
<1>1. dp[s] = [stage |-> dp[s].stage, answer |-> dp[s].answer] /\ dp = [t \in Slots |-> dp[t]]
    BY DEF OnceInv, PathShape
<1>2. CASE cfg.audit
    <2>1. PICK e : e = RoutingEvent(s, action, code)
        OBVIOUS
    <2>2. PICK d : d = [dp[s] EXCEPT !.stage = "routing"]
        OBVIOUS
    <2>3. em' = [em EXCEPT ![<<s, "routing">>] = Emission("routing", e)] /\ dp' = [dp EXCEPT ![s] = d]
          /\ d.answer = dp[s].answer
        BY <1>1, <1>2, <2>1, <2>2 DEF Routes, Begin
    <2>4. req[s] \in Menu[s] /\ now \in 0..MaxNow /\ em[<<s, "routing">>].pc = "idle"
          /\ "routing" \in Kinds
        BY DEF RequestInv, SlotInv, AuthPart, TruthInv, OnceInv, EmitsOnce, Kinds
    <2>5. e.event_id = <<s, "routing">> /\ (Suspect(e) \/ Parses("routing", e))
        BY <2>1, <2>4, RoutingParses
    <2>6. EventTrue(s, "routing", e)'
        BY <2>5 DEF EventTrue, IdKey
    <2>7. BeginsTrue(s)
        BY <2>3, <2>4, <2>6 DEF BeginsTrue
    <2> QED BY <2>3, <2>7, EdgeTruth
<1>3. CASE ~cfg.audit
    <2>1. PICK c : c = [dp[s] EXCEPT !.stage = IF action = "Route" THEN "run" ELSE "answered"]
        OBVIOUS
    <2>2. PICK d : d = [c EXCEPT !.answer = IF action = "Route" THEN "none" ELSE "denied"]
        OBVIOUS
    <2>3. dp' = [dp EXCEPT ![s] = d] /\ em' = em
        BY <1>1, <1>3, <2>1, <2>2 DEF Routes
    <2>4. c = [stage |-> c.stage, answer |-> c.answer]
        BY <1>1, <2>1
    <2>5. d.answer \in {"none", "denied"}
        BY <2>2, <2>4
    <2> QED BY <2>3, <2>5, EdgeTruth DEF BeginsTrue
<1> QED BY <1>2, <1>3

LEMMA OpenSessionTruth ==
    ASSUME TruthInv, OnceInv, SinkInv, RequestInv, Onward, NEW s \in Slots, OpenSession(s)
    PROVE  TruthInv'
<1>1. dp[s].stage = "queued" /\ UNCHANGED <<rows, now, req, pc, au>>
    BY DEF OpenSession
<1>2. CASE Replies(s, "refused") /\ em' = em
    BY <1>1, <1>2, RepliesTruth
<1>3. CASE Routes(s, "Route", NoRef)
    BY <1>1, <1>3, RoutesTruth
<1>4. CASE Routes(s, "RouteDenied", "not_ready") \/ Routes(s, "RouteDenied", "connection_unavailable")
    BY <1>1, <1>4, RoutesTruth
<1> QED BY <1>2, <1>3, <1>4 DEF OpenSession

\* The import's event is sent when its rows are in.
LEMMA RunImportTruth ==
    ASSUME TruthInv, OnceInv, SinkInv, RequestInv, Onward, NEW s \in Slots,
           dp[s].stage = "run", Edge(req[s]) = "import", RunImport(s),
           UNCHANGED <<rows, now, cfg, req, pc, au>>
    PROVE  TruthInv'
<1>1. /\ req[s] \in Menu[s] /\ now \in 0..MaxNow /\ em[<<s, "import">>].pc = "idle"
      /\ "import" \in Kinds /\ Claim(s) \in Tenants
    BY DEF RequestInv, SlotInv, AuthPart, TruthInv, WorkTrue, OnceInv, EmitsOnce, Kinds
<1>2. EdgeStatus(req[s]) = 0 /\ Domain(req[s]) = "tenant"
    BY DEF TruthInv, WorkTrue, RequestInv, SlotInv, DataPart
<1>3. req[s].ref \notin {NoRef, Blank}
    BY <1>2 DEF EdgeStatus, Domain, Methods
<1>4. CASE cfg.audit
    <2>1. PICK e : e = ImportEvent(s, "ImportCompleted", <<"success">>)
        OBVIOUS
    <2>2. PICK d : d = [dp[s] EXCEPT !.stage = "record"]
        OBVIOUS
    <2>3. em' = [em EXCEPT ![<<s, "import">>] = Emission("import", e)] /\ dp' = [dp EXCEPT ![s] = d]
          /\ d.answer = dp[s].answer
        BY <1>4, <2>1, <2>2 DEF RunImport, Begin, OnceInv, PathShape
    <2>4. e.audit_id = <<s, "import">> /\ e.target_ref = Claim(s) /\ (Suspect(e) \/ Parses("import", e))
        BY <1>1, <1>3, <2>1, ImportParses
    <2>5. ASSUME req[s].ref \in Sources
          PROVE  \E x \in did' : x.slot = s /\ x.op = "import" /\ x.tenant = e.target_ref
        <3>1. Performs(s)
            BY <2>5 DEF RunImport, Imported
        <3>2. PICK x : x = [slot |-> s, op |-> Edge(req[s]), tenant |-> Target(s), ref |-> req[s].ref,
                            actor |-> Actor(s)]
            OBVIOUS
        <3>3. x \in did' /\ x.slot = s /\ x.op = "import" /\ x.tenant = e.target_ref
            BY <2>4, <3>1, <3>2 DEF Performs, Target
        <3> QED BY <3>3
    <2>6. EventTrue(s, "import", e)'
        BY <2>4, <2>5 DEF EventTrue, IdKey
    <2>7. BeginsTrue(s)
        BY <1>1, <2>3, <2>6 DEF BeginsTrue
    <2> QED BY <2>3, <2>7, EdgeTruth
<1>5. CASE ~cfg.audit
    BY <1>5, RepliesTruth DEF RunImport, Imported
<1> QED BY <1>4, <1>5

LEMMA RunDataTruth ==
    ASSUME TruthInv, OnceInv, SinkInv, RequestInv, Onward, NEW s \in Slots, RunData(s)
    PROVE  TruthInv'
<1>1. dp[s].stage = "run" /\ UNCHANGED <<rows, now, cfg, req, pc, au>>
    BY DEF RunData
<1>2. CASE RunStartup(s)
    BY <1>1, <1>2, RepliesTruth DEF RunStartup
<1>3. CASE Edge(req[s]) = "import" /\ RunImport(s)
    BY <1>1, <1>3, RunImportTruth
<1>4. CASE (Replies(s, "dispatched") \/ Replies(s, "failed")) /\ em' = em
    BY <1>1, <1>4, RepliesTruth
<1>5. Edge(req[s]) \in {"read", "update", "import", "dispatch"}
    BY DEF Edge, Op
<1> QED BY <1>2, <1>3, <1>4, <1>5 DEF RunData

-----------------------------------------------------------------------------
(***************************************************************************)
(* The steps of the sinks: an emission goes on with its event and fails    *)
(* for a reason there is; a table gains the row of an emission, or one     *)
(* under a key that no emitter has.                                        *)
(***************************************************************************)
FailTrue(m) ==
    /\ m.fail # "conflict"
    /\ m.fail = "invalid" => Suspect(m.event) \/ faults' > 0

GoesTrue(x, m) ==
    /\ em[x].pc # "idle" /\ m.pc # "idle"
    /\ m.kind = em[x].kind /\ m.event = em[x].event /\ FailTrue(m)

RowTrue(k, r) ==
    \/ r[IdKey[k]] \notin Senders
    \/ \E x \in Senders : /\ em[x].pc # "idle" /\ em[x].kind = k
                          /\ Parses(k, em[x].event) /\ r = Row(em[x].event)

EmitsTruly == em' = em \/ \E x \in Senders : \E m : GoesTrue(x, m) /\ em' = [em EXCEPT ![x] = m]
RowsTruly ==
    rows' = rows \/ \E k \in Kinds : \E r : RowTrue(k, r) /\ rows' = [rows EXCEPT ![k] = @ \union {r}]

\* What an emission is, whoever it belongs to.
LEMMA EmissionKnown ==
    ASSUME TruthInv, SinkInv, NEW x \in Senders, em[x].pc # "idle"
    PROVE  /\ em[x].kind \in Kinds /\ em[x].event[IdKey[em[x].kind]] = x
           /\ Parses(em[x].kind, em[x].event) \/ Suspect(em[x].event)
           /\ \A r \in rows[em[x].kind] :
                  r[IdKey[em[x].kind]] = x => Parses(em[x].kind, em[x].event) /\ r = Row(em[x].event)
<1>1. PICK s \in Slots, k \in Kinds : x = <<s, k>>
    BY GatewayAssumption
<1>2. em[x].kind = k /\ EventTrue(s, k, em[x].event) /\ RowOwned(s, k)
    BY <1>1 DEF TruthInv, EmissionTrue
<1> QED BY <1>1, <1>2 DEF EventTrue, RowOwned

\* A failure that did not end the emission leaves its reason as it was.
LEMMA FailedTrue ==
    ASSUME TruthInv, SinkInv, FaultsCount, NEW x \in Senders, em[x].pc # "idle", NEW kind,
           kind = "unavailable" \/ (kind = "invalid" /\ (Suspect(em[x].event) \/ faults' > 0))
    PROVE  GoesTrue(x, Failed(em[x], kind))
<1>1. Shaped(em[x]) /\ FailTrue(em[x])
    BY DEF SinkInv, SinkShape, TruthInv, NoFalseAlarm, FailTrue, FaultsCount
<1>2. Failed(em[x], kind).fail \in {em[x].fail, kind}
    BY <1>1 DEF Failed, Shaped
<1>3. PICK m : m = Failed(em[x], kind)
    OBVIOUS
<1>4. m.kind = em[x].kind /\ m.event = em[x].event /\ m.pc # "idle" /\ m.fail \in {em[x].fail, kind}
    BY <1>1, <1>2, <1>3, FailedGoesOn
<1>5. GoesTrue(x, m)
    BY <1>1, <1>4 DEF GoesTrue, FailTrue
<1> QED BY <1>3, <1>5

\* An acknowledgement ends the emission and leaves the rest.
LEMMA AckedTrue ==
    ASSUME TruthInv, SinkInv, FaultsCount, NEW x \in Senders, em[x].pc # "idle"
    PROVE  GoesTrue(x, [em[x] EXCEPT !.pc = "acked"])
<1>1. Shaped(em[x]) /\ FailTrue(em[x])
    BY DEF SinkInv, SinkShape, TruthInv, NoFalseAlarm, FailTrue, FaultsCount
<1>2. PICK m : m = [em[x] EXCEPT !.pc = "acked"]
    OBVIOUS
<1>3. m.kind = em[x].kind /\ m.event = em[x].event /\ m.pc = "acked" /\ m.fail = em[x].fail
    BY <1>1, <1>2 DEF Shaped
<1> QED BY <1>1, <1>2, <1>3 DEF GoesTrue, FailTrue

\* The repeat of an event matches the row that is there.
LEMMA RepeatMatches ==
    ASSUME TruthInv, SinkInv, NEW x \in Senders, em[x].pc # "idle", NEW c,
           Parses(em[x].kind, em[x].event)
    PROVE  AppendAnswer(em[x].kind, em[x].event, c) \in {"INSERTED", "DUPLICATE_MATCH", "503"}
<1>0. PICK e : e = em[x].event
    OBVIOUS
<1>1. PICK k \in Kinds : k = em[x].kind /\ e = em[x].event
    BY <1>0, EmissionKnown
<1>2. \A r \in Under(k, e) : r = Row(e)
    BY <1>1, EmissionKnown DEF Under
<1>3. ReplayMatches(Row(e), e)
    BY <1>1 DEF Parses, Kinds, WireKeys, Row, ReplayMatches, SameInstant
<1> QED BY <1>1, <1>2, <1>3 DEF AppendAnswer

LEMMA IngestTruly ==
    ASSUME TruthInv, SinkInv, FaultsCount, NEW w \in wire, Ingest(w)
    PROVE  EmitsTruly /\ RowsTruly
<1>1. PICK x \in Senders : x = w[1] /\ em[x].pc # "idle"
    BY DEF SinkInv, SinkShape
<1>0. PICK e : e = em[x].event
    OBVIOUS
<1>2. PICK k \in Kinds : k = em[x].kind /\ e = em[x].event
    BY <1>0, <1>1, EmissionKnown
<1>3. PICK c \in DbConduct, delivered \in {"whole", "damaged", "lost"} :
        LET parsed == Parses(k, e)
            answer == IF parsed THEN AppendAnswer(k, e, c) ELSE "400" IN
        /\ Fault((IF c = "works" THEN 0 ELSE 1) + (IF delivered = "whole" THEN 0 ELSE 1))
        /\ rows' = IF parsed THEN [rows EXCEPT ![k] = Inserted(k, e, c)] ELSE rows
        /\ IF Waits(w) /\ delivered # "lost"
           THEN Becomes(x, IF delivered = "damaged" THEN Failed(em[x], "invalid")
                           ELSE Answered(em[x], answer))
           ELSE UNCHANGED <<em, dropped>>
    BY <1>1, <1>2 DEF Ingest
<1>4. PICK answer : answer = (IF Parses(k, e) THEN AppendAnswer(k, e, c) ELSE "400")
    OBVIOUS
<1>5. RowsTruly
    <2>1. CASE Parses(k, e) /\ Inserted(k, e, c) # rows[k]
        <3>1. rows' = [rows EXCEPT ![k] = rows[k] \union {Row(e)}]
            BY <1>3, <2>1 DEF Inserted
        <3>2. RowTrue(k, Row(e))
            BY <1>1, <1>2, <2>1 DEF RowTrue
        <3> QED BY <3>1, <3>2 DEF RowsTruly
    <2>2. CASE ~(Parses(k, e) /\ Inserted(k, e, c) # rows[k])
        BY <1>3, <2>2 DEF RowsTruly, SinkInv, SinkShape
    <2> QED BY <2>1, <2>2
<1>6. CASE ~(Waits(w) /\ delivered # "lost")
    BY <1>3, <1>5, <1>6 DEF EmitsTruly
<1>7. CASE Waits(w) /\ delivered = "damaged"
    <2>1. faults' > 0
        BY <1>3, <1>7 DEF Fault, TruthInv
    <2>2. GoesTrue(x, Failed(em[x], "invalid"))
        BY <1>1, <2>1, FailedTrue
    <2>3. em' = [em EXCEPT ![x] = Failed(em[x], "invalid")]
        BY <1>3, <1>7 DEF Becomes
    <2> QED BY <1>5, <2>2, <2>3 DEF EmitsTruly
<1>8. CASE Waits(w) /\ delivered = "whole"
    <2>1. em' = [em EXCEPT ![x] = Answered(em[x], answer)]
        BY <1>3, <1>4, <1>8 DEF Becomes
    <2>2. answer \in {"INSERTED", "DUPLICATE_MATCH", "503", "400"}
        BY <1>1, <1>2, <1>4, RepeatMatches
    <2>3. answer = "400" => Suspect(e)
        <3>1. Parses(k, e) \/ Suspect(e)
            BY <1>1, <1>2, EmissionKnown
        <3>2. Parses(k, e) => AppendAnswer(k, e, c) # "400"
            BY <1>1, <1>2, RepeatMatches
        <3> QED BY <1>4, <3>1, <3>2
    <2>4. CASE answer \in {"INSERTED", "DUPLICATE_MATCH"}
        BY <1>1, <1>5, <2>1, <2>4, AckedTrue DEF Answered, EmitsTruly
    <2>5. CASE answer = "503"
        BY <1>1, <1>5, <2>1, <2>5, FailedTrue DEF Answered, EmitsTruly
    <2>6. CASE answer = "400"
        BY <1>1, <1>2, <1>5, <2>1, <2>3, <2>6, FailedTrue DEF Answered, EmitsTruly
    <2> QED BY <2>2, <2>4, <2>5, <2>6
<1> QED BY <1>6, <1>7, <1>8

LEMMA SinkStepTruly ==
    ASSUME TruthInv, SinkInv, FaultsCount, SinkStep
    PROVE  EmitsTruly /\ RowsTruly
<1>1. ASSUME NEW x \in Senders, SenderStep(x)
      PROVE  EmitsTruly /\ RowsTruly
    <2>1. CASE Post(x)
        <3>1. Shaped(em[x]) /\ FailTrue(em[x])
            BY DEF SinkInv, SinkShape, TruthInv, NoFalseAlarm, FailTrue, FaultsCount
        <3>2. PICK m : m = [em[x] EXCEPT !.pc = "wait"]
            OBVIOUS
        <3>3. m.kind = em[x].kind /\ m.event = em[x].event /\ m.pc = "wait" /\ m.fail = em[x].fail
            BY <3>1, <3>2 DEF Shaped
        <3>4. em' = [em EXCEPT ![x] = m] /\ rows' = rows /\ em[x].pc = "post"
            BY <2>1, <3>2 DEF Post, SinkInv, SinkShape
        <3> QED BY <3>1, <3>3, <3>4 DEF EmitsTruly, RowsTruly, GoesTrue, FailTrue
    <2>2. CASE Refused(x)
        BY <2>2, FailedTrue DEF Refused, Becomes, EmitsTruly, RowsTruly
    <2>3. CASE TimeOut(x)
        BY <2>3, FailedTrue DEF TimeOut, Becomes, EmitsTruly, RowsTruly
    <2>4. ASSUME NEW w \in wire, Ingest(w) \/ Lost(w)
          PROVE  EmitsTruly /\ RowsTruly
        BY <2>4, IngestTruly DEF Lost, EmitsTruly, RowsTruly
    <2> QED BY <1>1, <2>1, <2>2, <2>3, <2>4 DEF SenderStep
<1>2. ASSUME NEW x \in Strays, StrayPost(x)
      PROVE  EmitsTruly /\ RowsTruly
    <2>0. PICK e : e = x.event
        OBVIOUS
    <2>1. PICK k \in Kinds : k = x.kind /\ e = x.event
        BY <2>0, SinkAssumption
    <2>2. rows' = (IF Parses(k, e) THEN [rows EXCEPT ![k] = Inserted(k, e, "works")] ELSE rows)
          /\ em' = em
        BY <1>2, <2>1 DEF StrayPost
    <2>3. CASE Parses(k, e) /\ Inserted(k, e, "works") # rows[k]
        <3>1. rows' = [rows EXCEPT ![k] = rows[k] \union {Row(e)}]
            BY <2>2, <2>3 DEF Inserted
        <3>2. DOMAIN e = WireKeys[k]
            BY <2>3 DEF Parses
        <3>3. Row(e)[IdKey[k]] = e[IdKey[k]] /\ e[IdKey[k]] \notin Senders
            BY <2>1, <3>2, RowKeepsKey, NamesAssumption
        <3>4. RowTrue(k, Row(e))
            BY <3>3 DEF RowTrue
        <3> QED BY <2>2, <3>1, <3>4 DEF EmitsTruly, RowsTruly
    <2>4. CASE ~(Parses(k, e) /\ Inserted(k, e, "works") # rows[k])
        BY <2>2, <2>4 DEF EmitsTruly, RowsTruly, SinkInv, SinkShape
    <2> QED BY <2>3, <2>4
<1>3. ASSUME NEW k \in Kinds, EdgeRestarts(k)
      PROVE  EmitsTruly /\ RowsTruly
    BY <1>3 DEF EdgeRestarts, EmitsTruly, RowsTruly
<1> QED BY <1>1, <1>2, <1>3 DEF SinkStep

\* Such steps keep the truth.
LEMMA SinksKeepTruth ==
    ASSUME TruthInv, SinkInv, FaultsCount, EmitsTruly, RowsTruly, UNCHANGED pathVars
    PROVE  TruthInv'
<1>1. UNCHANGED <<cfg, req, pc, au, dp, now, did>>
    BY DEF pathVars
<1>2. \A s \in Slots : WorkTrue(s)'
    BY <1>1 DEF TruthInv, WorkTrue, Claim, Actor, Edge, Op
<1>3. \A x \in Senders :
        /\ em'[x].pc = "idle" <=> em[x].pc = "idle"
        /\ em[x].pc = "idle" => em'[x] = em[x]
        /\ em'[x].kind = em[x].kind /\ em'[x].event = em[x].event
        /\ FailTrue(em'[x])
    <2>1. \A x \in Senders : FailTrue(em[x])
        BY DEF TruthInv, NoFalseAlarm, FailTrue, FaultsCount
    <2>2. CASE em' = em
        BY <2>1, <2>2
    <2>3. CASE \E x \in Senders : \E m : GoesTrue(x, m) /\ em' = [em EXCEPT ![x] = m]
        <3>0. PICK x \in Senders : \E m : GoesTrue(x, m) /\ em' = [em EXCEPT ![x] = m]
            BY <2>3
        <3>1. PICK m : GoesTrue(x, m) /\ em' = [em EXCEPT ![x] = m]
            BY <3>0
        <3>2. em'[x] = m /\ \A y \in Senders : y # x => em'[y] = em[y]
            BY <3>1 DEF SinkInv, SinkShape
        <3> QED BY <2>1, <3>1, <3>2 DEF GoesTrue
    <2> QED BY <2>2, <2>3 DEF EmitsTruly
<1>4. NoFalseAlarm'
    BY <1>3 DEF NoFalseAlarm, FailTrue
<1>5. ASSUME NEW s \in Slots, NEW k \in Kinds
      PROVE  EmissionTrue(s, k)'
    <2>1. <<s, k>> \in Senders /\ EmissionTrue(s, k)
        BY GatewayAssumption DEF TruthInv
    <2>2. CASE em[<<s, k>>].pc = "idle"
        BY <1>3, <2>1, <2>2 DEF EmissionTrue
    <2>3. CASE em[<<s, k>>].pc # "idle"
        <3>1. PICK e : e = em[<<s, k>>].event
            OBVIOUS
        <3>2. EventTrue(s, k, e)'
            BY <1>1, <2>1, <2>3, <3>1 DEF EmissionTrue, EventTrue
        <3>3. em'[<<s, k>>].event = e /\ em'[<<s, k>>].kind = k /\ em'[<<s, k>>].pc # "idle"
            BY <1>3, <2>1, <2>3, <3>1 DEF EmissionTrue
        <3> QED BY <3>2, <3>3 DEF EmissionTrue, EventTrue
    <2> QED BY <2>2, <2>3
<1>6. ASSUME NEW s \in Slots, NEW k \in Kinds
      PROVE  RowOwned(s, k)'
    <2>1. <<s, k>> \in Senders /\ RowOwned(s, k)
        BY GatewayAssumption DEF TruthInv
    <2>2. ASSUME NEW r \in rows'[k], r[IdKey[k]] = <<s, k>>
          PROVE  em[<<s, k>>].pc # "idle" /\ Parses(k, em[<<s, k>>].event) /\ r = Row(em[<<s, k>>].event)
        <3>1. CASE r \in rows[k]
            BY <2>1, <2>2, <3>1 DEF RowOwned
        <3>2. CASE r \notin rows[k]
            <4>1. RowTrue(k, r)
                BY <2>2, <3>2 DEF RowsTruly, SinkInv, SinkShape
            <4>2. PICK x \in Senders : /\ em[x].pc # "idle" /\ em[x].kind = k
                                       /\ Parses(k, em[x].event) /\ r = Row(em[x].event)
                BY <2>1, <2>2, <4>1 DEF RowTrue
            <4>3. DOMAIN em[x].event = WireKeys[k] /\ em[x].event[IdKey[k]] = x
                BY <4>2, EmissionKnown DEF Parses
            <4>4. r[IdKey[k]] = x
                BY <4>2, <4>3, RowKeepsKey
            <4> QED BY <2>2, <4>2, <4>4
        <3> QED BY <3>1, <3>2
    <2> QED BY <1>3, <2>1, <2>2 DEF RowOwned
<1> QED BY <1>1, <1>2, <1>4, <1>5, <1>6 DEF TruthInv, FaultsCount

\* The control plane and the clock tell nothing.
LEMMA OthersKeepTruth ==
    ASSUME TruthInv, FaultsCount, UNCHANGED <<em, rows, cfg, req, pc, au, dp, did>>, now' \in 0..MaxNow
    PROVE  TruthInv'
<1>1. \A s \in Slots : WorkTrue(s)'
    BY DEF TruthInv, WorkTrue, Claim, Actor, Edge, Op
<1>2. ASSUME NEW s \in Slots, NEW k \in Kinds
      PROVE  EmissionTrue(s, k)'
    <2>1. EmissionTrue(s, k) /\ em'[<<s, k>>] = em[<<s, k>>] /\ req'[s] = req[s] /\ did \subseteq did'
        BY DEF TruthInv
    <2>2. PICK e : e = em[<<s, k>>].event
        OBVIOUS
    <2>3. em[<<s, k>>].pc # "idle" => EventTrue(s, k, e)'
        BY <2>1, <2>2, EventStays DEF EmissionTrue
    <2> QED BY <2>1, <2>2, <2>3 DEF EmissionTrue, EventTrue
<1>3. \A s \in Slots, k \in Kinds : RowOwned(s, k)'
    BY DEF TruthInv, RowOwned
<1>4. NoFalseAlarm'
    BY DEF TruthInv, NoFalseAlarm, FaultsCount
<1> QED BY <1>1, <1>2, <1>3, <1>4 DEF TruthInv, FaultsCount

LEMMA TruthInit ==
    ASSUME GInit
    PROVE  TruthInv
<1>1. \A s \in Slots, k \in Kinds : <<s, k>> \in Senders
    BY GatewayAssumption
<1>2. \A x \in Senders : em[x].pc = "idle" /\ em[x].fail = "none"
    BY DEF GInit, SinkInit, NoEmission
<1>3. \A s \in Slots, k \in Kinds : EmissionTrue(s, k) /\ RowOwned(s, k)
    BY <1>1, <1>2 DEF EmissionTrue, RowOwned, GInit, SinkInit
<1>4. \A s \in Slots : WorkTrue(s)
    BY DEF GInit, WorkTrue, NoWork, NoAuth
<1> QED BY <1>2, <1>3, <1>4, NamesAssumption DEF TruthInv, NoFalseAlarm, GInit, SinkInit

LEMMA TruthStep ==
    ASSUME TruthInv, SinkInv, OnceInv, RequestInv, RevocationInv, [GNext]_gvars
    PROVE  TruthInv'
<1>1. FaultsCount /\ Onward
    BY FaultsAreCounted, StepsGoOnward DEF TruthInv
<1>2. ASSUME NEW s \in Slots, Arrives(s) \/ GatewayStep(s) \/ AuthStep(s) \/ DataStep(s)
      PROVE  TruthInv'
    <2>1. CASE Arrives(s)
        BY <1>1, <2>1, HandleTruth DEF Arrives
    <2>2. CASE GatewayStep(s)
        BY <1>1, <2>2, AuthenticatedTruth, ReadMembershipsTruth, ConcludedTruth, EmittedTruth
           DEF GatewayStep
    <2>3. CASE AuthStep(s)
        BY <1>1, <2>3, AuthenticateTruth, AuthReadsTruth DEF AuthStep
    <2>4. CASE DataStep(s)
        BY <1>1, <2>4, OpenSessionTruth, RoutedTruth, RunDataTruth, ImportRecordedTruth DEF DataStep
    <2> QED BY <1>2, <2>1, <2>2, <2>3, <2>4
<1>3. ASSUME NEW s \in Slots, AuthTimesOut(s) \/ DataTimesOut(s)
      PROVE  TruthInv'
    BY <1>1, <1>3, AuthTimesOutTruth, DataTimesOutTruth
<1>4. CASE SinkStep /\ UNCHANGED pathVars
    BY <1>1, <1>4, SinkStepTruly, SinksKeepTruth
<1>5. CASE ControlPlaneChanges
    BY <1>1, <1>5, OthersKeepTruth
       DEF ControlPlaneChanges, Revoke, Grant, SetReady, Changes, sinkVars, TruthInv
<1>6. CASE Tick
    <2>1. now' \in 0..MaxNow
        BY <1>6, NamesAssumption DEF Tick, TruthInv
    <2> QED BY <1>1, <1>6, <2>1, OthersKeepTruth DEF Tick, sinkVars
<1>7. CASE UNCHANGED gvars
    BY <1>1, <1>7, OthersKeepTruth DEF gvars, pathVars, sinkVars, TruthInv
<1> QED BY <1>2, <1>3, <1>4, <1>5, <1>6, <1>7 DEF GNext

\* What the rows say of the data is what the events said.
LEMMA TrueRows ==
    ASSUME TruthInv
    PROVE  RowsAreTrue
<1>1. ASSUME NEW s \in Slots, NEW k \in Kinds, NEW r \in rows[k], r[IdKey[k]] = <<s, k>>
      PROVE  \E e : EventTrue(s, k, e) /\ DOMAIN e = WireKeys[k] /\ r = Row(e)
    <2>1. /\ em[<<s, k>>].pc # "idle" /\ Parses(k, em[<<s, k>>].event) /\ r = Row(em[<<s, k>>].event)
        BY <1>1 DEF TruthInv, RowOwned
    <2> QED BY <2>1 DEF TruthInv, EmissionTrue, Parses
<1>2. ASSUME NEW s \in Slots, NEW r \in rows.gateway, r.audit_id = <<s, "gateway">>, r.action \in Startup
      PROVE  \E d \in did : d.slot = s /\ d.tenant = r.tenant_ref /\ d.ref = r.record_ref
                            /\ d.actor = r.actor_ref
                            /\ d.op = (IF r.action = "tenant_startup_read" THEN "read" ELSE "update")
    <2>1. PICK e : EventTrue(s, "gateway", e) /\ DOMAIN e = WireKeys["gateway"] /\ r = Row(e)
        BY <1>1, <1>2 DEF Kinds, IdKey
    <2>2. /\ r.action = e.action /\ r.tenant_ref = e.tenant_ref /\ r.record_ref = e.record_ref
          /\ r.actor_ref = e.actor_ref
        BY <2>1 DEF Row, WireKeys
    <2> QED BY <1>2, <2>1, <2>2 DEF EventTrue
<1>3. ASSUME NEW s \in Slots, NEW r \in rows.import, r.audit_id = <<s, "import">>
      PROVE  \/ req[s].ref \notin Sources
             \/ \E d \in did : d.slot = s /\ d.op = "import" /\ d.tenant = r.target_ref
    <2>1. PICK e : EventTrue(s, "import", e) /\ DOMAIN e = WireKeys["import"] /\ r = Row(e)
        BY <1>1, <1>3 DEF Kinds, IdKey
    <2>2. r.target_ref = e.target_ref
        BY <2>1 DEF Row, WireKeys
    <2> QED BY <2>1, <2>2 DEF EventTrue
<1> QED BY <1>2, <1>3 DEF RowsAreTrue, TruthInv

(***************************************************************************)
(* The audit stores tell the truth: a row that says a startup was read or  *)
(* updated, or an import completed, says what was committed, for whom and  *)
(* on which record; and no emitter raises a conflict over its own event or *)
(* an alarm that nobody's reference or damaged answer gave rise to         *)
(* (postgres_store.py:619).                                                *)
(***************************************************************************)
THEOREM AuditTellsTheTruth == GSpec => []RowsAreTrue
<1>1. GInit => SinkInv /\ OnceInv /\ RequestInv /\ RevocationInv /\ TruthInv
  BY AuditInvInit, RequestInvInit, RevocationInvInit, TruthInit
<1>2. SinkInv /\ OnceInv /\ RequestInv /\ RevocationInv /\ TruthInv /\ [GNext]_gvars =>
          (SinkInv /\ OnceInv /\ RequestInv /\ RevocationInv /\ TruthInv)'
  BY AuditInvStep, RequestInvStep, RevocationInvStep, TruthStep
<1> QED
  BY <1>1, <1>2, TrueRows, PTL DEF GSpec

=============================================================================
