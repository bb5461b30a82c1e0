---------------------------- MODULE Deprovisioning ----------------------------
(***************************************************************************)
(* DeprovisionTenantDatabase and ScanForOrphans (control_plane/recovery.py) *)
(* beside the tenant lifecycle: operators that prove that a tenant's       *)
(* database is theirs to drop, and drop it, while workers onboard, verify  *)
(* and recover the same tenants, and the tenants write data.               *)
(*                                                                         *)
(* What the census counts is modelled too: `content` is what the target    *)
(* database of a tenant holds, relation by relation.  A database that is   *)
(* dropped and created again is another one (its oid is new): Homes[t] are *)
(* the physical databases the name sp2_tenant_<t> stands for, in order.    *)
(***************************************************************************)
EXTENDS TenantLifecycle, Integers, Sequences

CONSTANTS
    Operators,      \* callers of DeprovisionTenantDatabase
    Homes,          \* the incarnations of each tenant's target database
    MaxDrops        \* bound: deprovision calls in one behaviour

ASSUME DeprovisionAssumption ==
    /\ Homes \in [Tenants -> Seq(Databases)]
    /\ \A t \in Tenants : Homes[t] # <<>>
    /\ \A t \in Tenants : \A i \in DOMAIN Homes[t] : NameOf[Homes[t][i]] = t
    /\ MaxDrops \in Nat

-----------------------------------------------------------------------------
(***************************************************************************)
(* The content of a database and its census.  "business" stands for every  *)
(* bootstrap table with no rows of its own, "other" for a relation outside *)
(* the applicator's family.  A relation is empty, holds what the platform  *)
(* writes (the system_primary row, supported versions), one row that is    *)
(* not that, more rows, or cannot be counted (a materialized view, a       *)
(* foreign table, an unsafe name).                                         *)
(***************************************************************************)
Bootstrap == {"agents", "version", "sentinel", "business"}
Relations == Bootstrap \cup {"other"}
RowClasses == {"empty", "seed", "stray", "more", "opaque"}
Contents == [rel : [Relations -> RowClasses \cup {"absent"}], lobs : BOOLEAN]

CountOf == [empty |-> 0, seed |-> 1, stray |-> 1, more |-> 2, opaque |-> -1]
PrimaryOf == [empty |-> 0, seed |-> 1, stray |-> 0, more |-> 1, opaque |-> 0]
VersionsOf == [empty |-> {}, seed |-> {"supported"}, stray |-> {"foreign"},
               more |-> {"supported", "foreign"}, opaque |-> {"supported"}]

\* PostgresRecoveryInspection.inspect_database, the identity legs aside.
InspectDatabase(c) ==
    LET present == {r \in Relations : c.rel[r] # "absent"}
        lob == IF c.lobs THEN {"largeobject"} ELSE {}
        of(f, r, none) == IF r \in present THEN f[c.rel[r]] ELSE none
    IN  [tables |-> [r \in present \cup lob |-> of(CountOf, r, 1)],
         total |-> of([CountOf EXCEPT !.opaque = 2], "agents", 0),
         primary |-> of(PrimaryOf, "agents", 0),
         versions |-> of(VersionsOf, "version", {})]

\* Mutant: only the tables the platform fills are counted.
ClassifyByName(ins) ==
    IF DOMAIN ins.tables = {} THEN "empty"
    ELSE IF DOMAIN ins.tables \subseteq Bootstrap THEN "bootstrap_only" ELSE "non_empty"

ClassifyContent(ins) ==
    IF DOMAIN ins.tables = {} THEN "empty"
    ELSE IF /\ DOMAIN ins.tables \subseteq Bootstrap
            /\ \A r \in DOMAIN ins.tables :
                CASE r = "sentinel" -> TRUE
                  [] r = "agents"   -> ins.tables[r] = 1 /\ ins.total = 1 /\ ins.primary = 1
                  [] r = "version"  -> /\ ins.tables[r] >= 0
                                       /\ ins.versions # {}
                                       /\ ins.versions \subseteq {"supported"}
                  [] OTHER          -> ins.tables[r] = 0
         THEN "bootstrap_only"
         ELSE "non_empty"

Verdict(c) == ClassifyContent(InspectDatabase(c))

NewContent == [rel |-> [r \in Relations |-> "absent"], lobs |-> FALSE]

\* PostgresTenantSchemaApplicator.apply_schema: all templates and the System
\* Primary seed in one transaction, idempotent on what is there.
Applied(c) ==
    [c EXCEPT !.rel = [r \in Relations |->
        IF @[r] # "absent" \/ r = "other" THEN @[r]
        ELSE IF r \in {"agents", "version"} THEN "seed" ELSE "empty"]]

\* The verification sentinel that the evidence provider writes.
Marked(c) == [c EXCEPT !.rel["sentinel"] = "more"]

\* A Ready tenant's services write.
Written(c) == [c EXCEPT !.rel["business"] = "more"]

-----------------------------------------------------------------------------
VARIABLES
    content,        \* what the target database of each tenant holds
    routed,         \* tenants that a router may hold a routable view of
    inc,            \* which of its incarnations the target name stands for
    drop,           \* the deprovision call of each operator
    filed,          \* history: how the ended calls left the audit trail
    asked           \* deprovision calls so far

dvars == <<content, routed, inc, drop, filed, asked>>
allvars == <<vars, dvars>>

Eligible == {"Provisioning", "Failed", "Quarantined"}

Anomalies == {"target_outside_tenant_namespace", "control_database_target",
              "non_canonical_association_ref", "content_not_empty",
              "ledger_collision", "fingerprint_mismatch"}

(***************************************************************************)
(* A call's local variables.  `pass` is 1 in the first proof and 2 in the  *)
(* re-validation, `fp` the physical database inspected, `census` what it   *)
(* held then, `latch` the emit-once latch.  `sent` counts the terminal     *)
(* records of the call in the trail, `deaf` tells that the sink raised at  *)
(* one, `ready` whether the tenant was made Ready after the first proof    *)
(* had read the registry -- before the re-validation read it, or after --  *)
(* or at least was still routed to, from a cache, at that first read.      *)
(***************************************************************************)
NoDrop == [pc |-> "idle", t |-> ControlName, rec |-> NoRow, pass |-> 1, fp |-> NoDb,
           census |-> NewContent, reason |-> "none", latch |-> FALSE, sent |-> 0,
           deaf |-> FALSE, ready |-> "no"]

Home(t) == Homes[t][inc[t]]

DInit ==
    /\ Init
    /\ content = [t \in Tenants |-> IF t \in Legacy THEN Applied(NewContent) ELSE NewContent]
    /\ routed = {}
    /\ inc = [t \in Tenants |-> 1]
    /\ drop = [o \in Operators |-> NoDrop]
    /\ filed = {}
    /\ asked = 0

-----------------------------------------------------------------------------
At(o, pc) == drop[o].pc = pc
DGoto(o, pc) == drop' = [drop EXCEPT ![o].pc = pc]
Refuse(o, reason) == drop' = [drop EXCEPT ![o].pc = "fail", ![o].reason = reason]
Watch == UNCHANGED <<vars, content, routed, inc, filed, asked>>

\* The call returns or raises: what the trail holds of it is now final.
End(o, sent, deaf) ==
    /\ drop' = [drop EXCEPT ![o] = NoDrop]
    /\ filed' = filed \cup {<<sent, deaf>>}

\* TenantDeprovisionRequested; when the sink refuses it nothing has happened.
Request(o) ==
    /\ At(o, "idle")
    /\ asked < MaxDrops
    /\ asked' = asked + 1
    /\ \E t \in Tenants : drop' = [drop EXCEPT ![o].pc = "registry", ![o].t = t]
    /\ UNCHANGED <<vars, content, routed, inc, filed>>

(***************************************************************************)
(* _non_content_proof, once before the census and once after it: a read of *)
(* the registry, then of the Control DB's name and the ledger.             *)
(***************************************************************************)
ProofRegistry(o) ==
    LET d == drop[o]  r == tenants[d.t] IN
    /\ At(o, "registry")
    /\ \/ r.state = Absent /\ Refuse(o, "unknown_tenant")
       \/ r.state \notin Eligible \cup {Absent} /\ Refuse(o, "ineligible_lifecycle_state")
       \/ r.state \in Eligible
          /\ drop' = [drop EXCEPT ![o].pc = "ledger",
                                  ![o].rec = IF d.pass = 1 THEN r ELSE @,
                                  ![o].ready = IF d.pass = 1 /\ d.t \in routed
                                               THEN "cached" ELSE @]
    /\ Watch

\* PostgresDistinctnessLedger.evidence_excluding: the tenants it has rows of.
EvidenceExcluding(t) == {u \in Tenants \ {t} : ledger[u] # NoEvidence}

\* Some other tenant's evidence is about this name or this database.
Claimed(t, fp) ==
    \E u \in EvidenceExcluding(t) :
        NameOf[ledger[u].db] = t \/ ledger[u].db = fp

OwnMismatch(t, fp) ==
    t \in EvidenceExcluding(ControlName) /\ (ledger[t].db # fp \/ NameOf[ledger[t].db] # t)

ProofLedger(o) ==
    LET d == drop[o] IN
    /\ At(o, "ledger")
    /\ \/ Refuse(o, "control_identity_unavailable")
       \/ d.t = ControlName /\ Refuse(o, "control_database_target")
       \/ Claimed(d.t, d.fp) /\ Refuse(o, "ledger_collision")
       \/ ~Claimed(d.t, d.fp) /\ DGoto(o, IF d.pass = 1 THEN "ref" ELSE "own")
    /\ Watch

\* Element 3, on a record read again.
ProofRef(o) ==
    LET d == drop[o]  r == tenants[d.t] IN
    /\ At(o, "ref")
    /\ \/ r.state = Absent /\ Refuse(o, "unknown_tenant")
       \/ r.state # Absent /\ r.assoc # Canonical[d.t]
          /\ Refuse(o, "non_canonical_association_ref")
       \/ r.state # Absent /\ r.assoc = Canonical[d.t] /\ DGoto(o, "exists")
    /\ Watch

\* PostgresRecoveryInspection.database_exists: any error is "cannot tell".
DatabaseExists(t) == {"unknown", IF t \in dbs THEN "present" ELSE "absent"}

\* An absent target completes the call: idempotent by outcome.
Exists(o) ==
    LET d == drop[o] IN
    /\ At(o, "exists")
    /\ \/ "unknown" \in DatabaseExists(d.t) /\ Refuse(o, "inspection_unavailable")
       \/ "absent" \in DatabaseExists(d.t) /\ DGoto(o, "completed")
       \/ "present" \in DatabaseExists(d.t) /\ DGoto(o, "inspect")
    /\ Watch

\* Element 4: the census, and the identity of what was counted.
Inspect(o) ==
    LET d == drop[o] IN
    /\ At(o, "inspect")
    /\ \/ Refuse(o, "inspection_unavailable")
       \/ d.t \in dbs
          /\ drop' = [drop EXCEPT ![o].pc = "own", ![o].fp = Home(d.t),
                                  ![o].census = content[d.t]]
    /\ Watch

\* Mutant: the census is taken and not judged.
OwnUnjudged(o) ==
    LET d == drop[o] IN
    /\ At(o, "own")
    /\ \/ OwnMismatch(d.t, d.fp) /\ Refuse(o, "fingerprint_mismatch")
       \/ ~OwnMismatch(d.t, d.fp) /\ DGoto(o, "drop")
    /\ Watch

\* The tenant's own evidence, after the census and again in the second pass.
Own(o) ==
    LET d == drop[o] IN
    /\ At(o, "own")
    /\ \/ OwnMismatch(d.t, d.fp) /\ Refuse(o, "fingerprint_mismatch")
       \/ /\ ~OwnMismatch(d.t, d.fp) /\ d.pass = 1
          /\ \/ Verdict(d.census) = "non_empty" /\ Refuse(o, "content_not_empty")
             \/ Verdict(d.census) # "non_empty"
                /\ drop' = [drop EXCEPT ![o].pc = "registry", ![o].pass = 2]
       \/ ~OwnMismatch(d.t, d.fp) /\ d.pass = 2 /\ DGoto(o, "drop")
    /\ Watch

\* PostgresProvisioningOperator.deprovision: DROP DATABASE IF EXISTS.
Deprovision(t) ==
    /\ dbs' = dbs \ {t}
    /\ content' = [content EXCEPT ![t] = NewContent]
    /\ inc' = IF t \in dbs THEN [inc EXCEPT ![t] = @ + 1] ELSE inc

\* An error of the operator may come before the DROP or after it.
DropDatabase(o) ==
    LET d == drop[o] IN
    /\ At(o, "drop")
    /\ \/ /\ Deprovision(d.t)
          /\ DGoto(o, "completed") \/ Refuse(o, "deprovision_failed")
       \/ UNCHANGED <<dbs, content, inc>> /\ Refuse(o, "deprovision_failed")
    /\ UNCHANGED <<tenants, ledger, trail, anomalies, verified, unpaired, job, ops,
                   routed, filed, asked>>

(***************************************************************************)
(* _fail: an anomaly-class refusal quarantines a tenant that is            *)
(* Provisioning or Failed, through TenantRegistry._transition, and then    *)
(* files the Failed record.                                                *)
(***************************************************************************)
FailRead(o) ==
    LET d == drop[o] IN
    /\ At(o, "fail")
    /\ DGoto(o, IF /\ d.reason \in Anomalies
                   /\ tenants[d.t].state \in {"Provisioning", "Failed"}
                THEN "qRead" ELSE "failed")
    /\ Watch

QuarantineRead(o) ==
    LET d == drop[o]  r == tenants[d.t] IN
    /\ At(o, "qRead")
    /\ \/ r.state = "Quarantined" /\ DGoto(o, "qEvent")
       \/ r.state \in AllowedFrom["Quarantined"]
          /\ drop' = [drop EXCEPT ![o].pc = "qCas", ![o].rec = r]
    /\ Watch

\* Mutant: the quarantine is written whatever the row has become.
QuarantineBlind(o) ==
    LET d == drop[o] IN
    /\ At(o, "qCas")
    /\ tenants' = [tenants EXCEPT ![d.t] = [d.rec EXCEPT !.state = "Quarantined",
                                                         !.version = @ + 1]]
    /\ trail' = [trail EXCEPT ![d.t] = [from |-> d.rec.state, to |-> "Quarantined"]]
    /\ DGoto(o, "qEvent")
    /\ UNCHANGED <<ledger, anomalies, dbs, verified, unpaired, job, ops,
                   content, routed, inc, filed, asked>>

QuarantineCas(o) ==
    LET d == drop[o] IN
    /\ At(o, "qCas")
    /\ tenants[d.t].version = d.rec.version
    /\ tenants' = [tenants EXCEPT ![d.t] = [d.rec EXCEPT !.state = "Quarantined",
                                                         !.version = @ + 1]]
    /\ trail' = [trail EXCEPT ![d.t] = [from |-> d.rec.state, to |-> "Quarantined"]]
    /\ DGoto(o, "qEvent")
    /\ UNCHANGED <<ledger, anomalies, dbs, verified, unpaired, job, ops,
                   content, routed, inc, filed, asked>>

QuarantineEvent(o) == At(o, "qEvent") /\ DGoto(o, "failed") /\ Watch

\* A transition that the registry refuses raises out of _fail.
QuarantineLost(o) ==
    LET d == drop[o] IN
    \/ At(o, "qRead") /\ tenants[d.t].state \notin AllowedFrom["Quarantined"] \cup {"Quarantined"}
    \/ At(o, "qCas") /\ tenants[d.t].version # d.rec.version

(***************************************************************************)
(* The terminal record.  The latch flips before the sink is called; a sink *)
(* that raises may have stored the record.                                 *)
(***************************************************************************)
\* Mutant: the latch flips once the record is stored.
FileTerminalThenLatch(o) ==
    /\ At(o, "completed") \/ At(o, "failed")
    /\ \/ End(o, drop[o].sent + 1, drop[o].deaf)
       \/ /\ "raise" \in Faults
          /\ \E n \in {0, 1} :
                drop' = [drop EXCEPT ![o].pc = "raised", ![o].sent = n, ![o].deaf = TRUE]
          /\ UNCHANGED filed
    /\ UNCHANGED <<vars, content, routed, inc, asked>>

FileTerminal(o) ==
    /\ At(o, "completed") \/ At(o, "failed")
    /\ \/ End(o, drop[o].sent + 1, drop[o].deaf)
       \/ /\ "raise" \in Faults
          /\ \E n \in {0, 1} :
                drop' = [drop EXCEPT ![o].pc = "raised", ![o].latch = TRUE,
                                     ![o].sent = n, ![o].deaf = TRUE]
          /\ UNCHANGED filed
    /\ UNCHANGED <<vars, content, routed, inc, asked>>

\* The registry, the ledger or the sink raises before the terminal record.
PortRaises(o) ==
    /\ \/ QuarantineLost(o)
       \/ /\ "raise" \in Faults
          /\ drop[o].pc \in {"registry", "ledger", "ref", "own", "fail", "qRead",
                             "qCas", "qEvent"}
    /\ DGoto(o, "raised")
    /\ Watch

\* The handler around the proof: a best-effort Failed record if none was
\* attempted, then the original exception goes to the caller.
Reraise(o) ==
    LET d == drop[o] IN
    /\ At(o, "raised")
    /\ \/ d.latch /\ End(o, d.sent, d.deaf)
       \/ ~d.latch /\ End(o, d.sent + 1, d.deaf)
       \/ ~d.latch /\ "raise" \in Faults /\ \E n \in {0, 1} : End(o, d.sent + n, TRUE)
    /\ UNCHANGED <<vars, content, routed, inc, asked>>

OperatorDies(o) ==
    /\ "crash" \in Faults
    /\ ~At(o, "idle")
    /\ drop' = [drop EXCEPT ![o] = NoDrop]
    /\ Watch

OperatorStep(o) ==
    \/ Request(o) \/ ProofRegistry(o) \/ ProofLedger(o) \/ ProofRef(o) \/ Exists(o)
    \/ Inspect(o) \/ Own(o) \/ DropDatabase(o)
    \/ FailRead(o) \/ QuarantineRead(o) \/ QuarantineCas(o) \/ QuarantineEvent(o)
    \/ FileTerminal(o) \/ PortRaises(o) \/ Reraise(o) \/ OperatorDies(o)

-----------------------------------------------------------------------------
(***************************************************************************)
(* The lifecycle's steps, with what they do to the databases: CREATE makes *)
(* the next incarnation, the applicator fills it, and the evidence         *)
(* provider, which only reaches a database that is there, marks it.        *)
(***************************************************************************)
\* PostgresProvisioningOperator.provision creates what does not exist.
Creates == \A t \in dbs' \ dbs : inc[t] \in DOMAIN Homes[t]

Reachable(d) == \A t \in Tenants :
    (\E i \in DOMAIN Homes[t] : Homes[t][i] = d) =>
        t \in dbs /\ d = Home(t)

\* gather writes the sentinel before anything is decided: a decision that fails,
\* or is never made, leaves it in whichever database the reference led to.
Fills(w) ==
    LET t == job[w].t  marks(u) == content' = [content EXCEPT ![u] = Marked(@)] IN
    CASE job[w].pc = "apply" /\ job'[w].pc = "vRead" ->
            t \in dbs /\ content' = [content EXCEPT ![t] = Applied(@)]
      [] job[w].pc = "vDecide" /\ job'[w].pc = "vRecord" ->
            /\ Reachable(job'[w].ev.db)
            /\ IF t \in dbs /\ job'[w].ev.db = Home(t) THEN marks(t) ELSE UNCHANGED content
      [] job[w].pc = "vDecide" /\ job'[w].pc # "vRecord" ->
            UNCHANGED content \/ \E u \in dbs : marks(u)
      [] OTHER -> UNCHANGED content

NotesReady(d) ==
    IF /\ d.pc # "idle" /\ ~(d.pc = "registry" /\ d.pass = 1)
       /\ tenants'[d.t].state = "Ready" /\ d.ready \in {"no", "cached"}
    THEN [d EXCEPT !.ready = IF d.pass = 1 \/ d.pc = "registry" THEN "before" ELSE "after"]
    ELSE d

LifecycleStep(w) ==
    /\ Start(w) \/ Step(w) \/ Raise(w) \/ Crash(w)
    /\ Creates
    /\ Fills(w)
    /\ drop' = [o \in Operators |-> NotesReady(drop[o])]
    /\ routed' = routed \cup {t \in Tenants : tenants'[t].state = "Ready"}
    /\ UNCHANGED <<inc, filed, asked>>

(***************************************************************************)
(* A tenant's services write into its database while it is Ready, and      *)
(* after that until the last router has dropped its cached view.           *)
(***************************************************************************)
Use(t) ==
    /\ t \in routed /\ t \in dbs
    /\ content' = [content EXCEPT ![t] = Written(@)]
    /\ UNCHANGED <<vars, routed, inc, drop, filed, asked>>

ViewExpires(t) ==
    /\ t \in routed /\ tenants[t].state # "Ready"
    /\ routed' = routed \ {t}
    /\ UNCHANGED <<vars, content, inc, drop, filed, asked>>

DNext ==
    \/ \E w \in Workers : LifecycleStep(w)
    \/ \E t \in Tenants : Use(t) \/ ViewExpires(t)
    \/ \E o \in Operators : OperatorStep(o)

DSpec == DInit /\ [][DNext]_allvars

-----------------------------------------------------------------------------
(***************************************************************************)
(* ScanForOrphans: how the report classifies what it finds, and what it    *)
(* calls safe to de-provision.                                             *)
(***************************************************************************)
\* Mutant: the report does not look at the association reference.
ClassifyAnyRef(t) ==
    CASE tenants[t].state = Absent -> "db_no_registry_record"
      [] Claimed(t, Home(t)) -> "ledger_collision"
      [] OwnMismatch(t, Home(t)) -> "fingerprint_mismatch"
      [] tenants[t].state \notin Eligible -> "active_tenant"
      [] Verdict(content[t]) = "non_empty" -> "non_empty_evidence"
      [] OTHER -> "eligible"

ClassifyDatabase(t) ==
    LET r == tenants[t]  verdict == Verdict(content[t]) IN
    IF t = ControlName THEN "control_db_targeted"
    ELSE IF r.state = Absent THEN "db_no_registry_record"
    ELSE IF Claimed(t, Home(t)) THEN "ledger_collision"
    ELSE IF OwnMismatch(t, Home(t)) THEN "fingerprint_mismatch"
    ELSE IF r.state \notin Eligible THEN "active_tenant"
    ELSE IF verdict = "non_empty" THEN "non_empty_evidence"
    ELSE IF r.assoc # Canonical[t] THEN "uninspectable"
    ELSE "eligible"

\* PostgresRecoveryInspection.list_candidate_databases
Candidates == dbs

\* The rows of the report: a database each, then records with no database.
ScanForOrphans ==
    [t \in Candidates \cup {u \in Tenants : tenants[u].state # Absent} |->
        IF t \in Candidates THEN ClassifyDatabase(t) ELSE "registry_record_database_absent"]

SafeToDeprovision == {t \in DOMAIN ScanForOrphans : ScanForOrphans[t] = "eligible"}

-----------------------------------------------------------------------------

(***************************************************************************)
(* Properties.                                                             *)
(***************************************************************************)
\* What nobody may lose: anything the platform itself did not put there.
HoldsData(c) ==
    \/ c.lobs
    \/ c.rel["other"] # "absent"
    \/ c.rel["business"] \in {"seed", "stray", "more", "opaque"}
    \/ \E r \in {"agents", "version"} : c.rel[r] \in {"stray", "more", "opaque"}

\* The contents that pass the census, and those of them that are a loss.
Passing == {c \in Contents : Verdict(c) # "non_empty"}
Overlooked == {c \in Passing : HoldsData(c)}

(***************************************************************************)
(* The census lets nothing through that the platform did not write, for    *)
(* every content of a database, and lets through whatever onboarding, the  *)
(* verifier and their crashes leave behind (recovery.py:236-268).          *)
(***************************************************************************)
CensusIsSound ==
    /\ Overlooked = {}
    /\ \A t \in Tenants : content[t] \in Passing <=> ~HoldsData(content[t])

(***************************************************************************)
(* A deprovision call that ends leaves exactly one terminal record beside  *)
(* its Requested record, whatever port raised on the way; when the sink    *)
(* itself raised it leaves at most one (recovery.py:400-409).              *)
(***************************************************************************)
OneTerminal == filed \subseteq {<<1, FALSE>>, <<0, TRUE>>, <<1, TRUE>>}

(***************************************************************************)
(* Tenant data is only ever dropped when the tenant was made Ready while   *)
(* the call was running, or was still routed to from a cache when it read  *)
(* the registry: data that was there before is evidence to its census,     *)
(* whatever state the tenant has meanwhile fallen back to.                 *)
(***************************************************************************)
DataOutlivesCalls ==
    [][\A o \in Operators :
        LET t == drop[o].t IN
        (At(o, "drop") /\ t \in dbs \ dbs' /\ HoldsData(content[t])) =>
            drop[o].ready # "no"]_allvars

(***************************************************************************)
(* The orphan report and the operation agree: what the report calls safe   *)
(* to de-provision is what an undisturbed call would drop now.             *)
(***************************************************************************)
WouldDrop(t) ==
    /\ t \in dbs
    /\ tenants[t].state \in Eligible
    /\ tenants[t].assoc = Canonical[t]
    /\ ~Claimed(t, NoDb) /\ ~Claimed(t, Home(t)) /\ ~OwnMismatch(t, Home(t))
    /\ Verdict(content[t]) # "non_empty"

ReportAgrees == SafeToDeprovision = {t \in Tenants : WouldDrop(t)}

(***************************************************************************)
(* A change of the tenant's state between the first proof and the DROP is  *)
(* refused: a tenant that became Ready meanwhile and whose services wrote  *)
(* is not about to be dropped (recovery.py:462-463).                       *)
(***************************************************************************)
RedriveIsSeen ==
    \A o \in Operators :
        At(o, "drop") /\ HoldsData(content[drop[o].t]) => drop[o].ready # "before"
=============================================================================
