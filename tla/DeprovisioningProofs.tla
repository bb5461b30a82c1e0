------------------------- MODULE DeprovisioningProofs -------------------------
(***************************************************************************)
(* Proofs about Deprovisioning, for any tenants, workers, operators,       *)
(* incarnations of the databases and contents, with every fault enabled.   *)
(***************************************************************************)
EXTENDS Deprovisioning, TenantLifecycleProofs, SequenceTheorems

USE LifecycleAssumption, DistinctnessAssumption, DeprovisionAssumption

DropPcs == {"idle", "registry", "ledger", "ref", "exists", "inspect", "own", "drop",
            "fail", "qRead", "qCas", "qEvent", "completed", "failed", "raised"}

Drops == [pc : DropPcs, t : Tenants \cup {ControlName}, rec : Rows, pass : {1, 2},
          fp : Databases \cup {NoDb}, census : Contents,
          reason : Anomalies \cup {"none", "unknown_tenant", "ineligible_lifecycle_state",
                                   "control_identity_unavailable",
                                   "inspection_unavailable", "deprovision_failed"},
          latch : BOOLEAN, sent : {0, 1}, deaf : BOOLEAN,
          ready : {"no", "cached", "before", "after"}]

(***************************************************************************)
(* Types.  A database that is there is one of its tenant's incarnations.   *)
(***************************************************************************)
DTypeInv ==
    /\ content \in [Tenants -> Contents]
    /\ inc \in [Tenants -> Nat \ {0}]
    /\ \A t \in dbs : inc[t] \in DOMAIN Homes[t]
    /\ drop \in [Operators -> Drops]
    /\ \A o \in Operators : drop[o].pc # "idle" => drop[o].t \in Tenants
    /\ asked \in 0..MaxDrops

(***************************************************************************)
(* The terminal record: until the latch flips none was sent and none       *)
(* failed, and it only flips when the sink raises.                         *)
(***************************************************************************)
TerminalOk(d) ==
    /\ d.latch => d.pc = "raised" /\ d.deaf
    /\ ~d.latch => d.sent = 0 /\ ~d.deaf

TerminalInv == OneTerminal /\ \A o \in Operators : TerminalOk(drop[o])

(***************************************************************************)
(* What onboarding, the verifier and the services leave in a database.     *)
(***************************************************************************)
PlatformContent(c) ==
    /\ ~c.lobs
    /\ c.rel["other"] = "absent"
    /\ c.rel["agents"] \in {"absent", "seed"}
    /\ c.rel["version"] \in {"absent", "seed"}
    /\ c.rel["business"] \in {"absent", "empty", "more"}

ContentInv == \A t \in Tenants : PlatformContent(content[t])

\* A row of the ledger has evidence of some database.
LedgerInv == \A t \in Tenants : ledger[t] # NoEvidence => ledger[t].db # NoDb

(***************************************************************************)
(* What a call may rely on.  Its snapshot for the quarantine is coherent.  *)
(* While nobody made the tenant Ready since the first read, nor routed to  *)
(* it then, nobody routes to it and there is no more data than the census  *)
(* counted, and a call that goes on after the census counted none.         *)
(***************************************************************************)
ProofPcs == {"ledger", "ref", "exists", "inspect", "own", "drop"}
Counted(d) == d.pc \in {"own", "drop"} \/ (d.pc \in {"registry", "ledger"} /\ d.pass = 2)
Proving(d) == d.pc \in ProofPcs \/ (d.pc = "registry" /\ d.pass = 2)

DropCoherent(d, row, held, late) ==
    /\ d.pc = "qCas" => /\ Coherent(d.rec, row)
                        /\ d.rec.state \in AllowedFrom["Quarantined"]
    /\ d.pc \in {"ref", "exists", "inspect"} => d.pass = 1
    /\ d.pc = "drop" => d.pass = 2
    /\ Proving(d) /\ d.ready = "no" => row.state # "Ready" /\ ~late
    /\ Counted(d) /\ d.ready = "no" => (HoldsData(held) => HoldsData(d.census))
    /\ Proving(d) /\ d.pass = 2 => ~HoldsData(d.census)

CallInv ==
    \A o \in Operators : drop[o].pc # "idle" =>
        DropCoherent(drop[o], tenants[drop[o].t], content[drop[o].t], drop[o].t \in routed)

IdleInv == \A o \in Operators : drop[o].pc = "idle" => drop[o] = NoDrop

DInv == /\ IInv /\ DTypeInv /\ TerminalInv /\ ContentInv /\ LedgerInv /\ IdleInv /\ CallInv

-----------------------------------------------------------------------------
(***************************************************************************)
(* The census, for every content a database may have.                      *)
(***************************************************************************)
\* A count that does not have to be told apart from another.
LEMMA CountFacts ==
    /\ CountOf["empty"] = 0 /\ CountOf["seed"] = 1 /\ CountOf["stray"] = 1
    /\ CountOf["more"] = 2 /\ CountOf["opaque"] = -1
    /\ PrimaryOf["empty"] = 0 /\ PrimaryOf["seed"] = 1 /\ PrimaryOf["stray"] = 0
    /\ PrimaryOf["more"] = 1 /\ PrimaryOf["opaque"] = 0
    /\ VersionsOf["empty"] = {} /\ VersionsOf["seed"] = {"supported"}
    /\ VersionsOf["stray"] = {"foreign"} /\ VersionsOf["more"] = {"supported", "foreign"}
BY DEF CountOf, PrimaryOf, VersionsOf

\* What the census reports, relation by relation.
LEMMA InspectionFacts ==
    ASSUME NEW c \in Contents, NEW ins, ins = InspectDatabase(c)
    PROVE  /\ \A r \in Relations : r \in DOMAIN ins.tables <=> c.rel[r] # "absent"
           /\ "largeobject" \in DOMAIN ins.tables <=> c.lobs
           /\ DOMAIN ins.tables \subseteq Relations \cup {"largeobject"}
           /\ \A r \in Relations : c.rel[r] # "absent" => ins.tables[r] = CountOf[c.rel[r]]
           /\ c.rel["agents"] # "absent" =>
                /\ ins.total = IF c.rel["agents"] = "opaque" THEN 2 ELSE CountOf[c.rel["agents"]]
                /\ ins.primary = PrimaryOf[c.rel["agents"]]
           /\ c.rel["version"] # "absent" => ins.versions = VersionsOf[c.rel["version"]]
<1> DEFINE present == {r \in Relations : c.rel[r] # "absent"}
           lob == IF c.lobs THEN {"largeobject"} ELSE {}
           count(r) == IF r \in present THEN CountOf[c.rel[r]] ELSE 1
<1>1. DOMAIN ins.tables = present \cup lob /\ \A r \in present \cup lob : ins.tables[r] = count(r)
    BY DEF InspectDatabase
<1>2. "largeobject" \notin Relations /\ "agents" \in Relations /\ "version" \in Relations
    BY DEF Relations, Bootstrap
<1>3. c.lobs \in BOOLEAN
    BY DEF Contents
<1>4. ins.total = IF "agents" \in present
                  THEN [CountOf EXCEPT !.opaque = 2][c.rel["agents"]] ELSE 0
    BY DEF InspectDatabase
<1>5. ins.primary = IF "agents" \in present THEN PrimaryOf[c.rel["agents"]] ELSE 0
    BY DEF InspectDatabase
<1>6. ins.versions = IF "version" \in present THEN VersionsOf[c.rel["version"]] ELSE {}
    BY DEF InspectDatabase
<1>7. c.rel["agents"] # "absent" => c.rel["agents"] \in DOMAIN CountOf
    BY <1>2 DEF Contents, RowClasses, CountOf
<1>8. c.rel["agents"] # "absent" =>
        [CountOf EXCEPT !.opaque = 2][c.rel["agents"]] =
            IF c.rel["agents"] = "opaque" THEN 2 ELSE CountOf[c.rel["agents"]]
    BY <1>7 DEF CountOf
<1> QED BY <1>1, <1>2, <1>3, <1>4, <1>5, <1>6, <1>8

\* Data that the platform did not write is never called bootstrap content.
LEMMA DataIsSeen ==
    ASSUME NEW c \in Contents, HoldsData(c)
    PROVE  Verdict(c) = "non_empty"
<1> DEFINE ins == InspectDatabase(c)
<1> HIDE DEF ins
<1>1. /\ \A r \in Relations : r \in DOMAIN ins.tables <=> c.rel[r] # "absent"
      /\ "largeobject" \in DOMAIN ins.tables <=> c.lobs
      /\ \A r \in Relations : c.rel[r] # "absent" => ins.tables[r] = CountOf[c.rel[r]]
      /\ c.rel["agents"] # "absent" =>
            /\ ins.total = IF c.rel["agents"] = "opaque" THEN 2 ELSE CountOf[c.rel["agents"]]
            /\ ins.primary = PrimaryOf[c.rel["agents"]]
      /\ c.rel["version"] # "absent" => ins.versions = VersionsOf[c.rel["version"]]
    BY InspectionFacts DEF ins
<1>2. Verdict(c) = ClassifyContent(ins)
    BY DEF Verdict, ins
<1>3. Bootstrap \subseteq Relations /\ "other" \in Relations /\ "other" \notin Bootstrap
      /\ "largeobject" \notin Bootstrap /\ {"agents", "version", "business"} \subseteq Bootstrap
    BY DEF Relations, Bootstrap
<1>4. CASE c.lobs \/ c.rel["other"] # "absent"
    BY <1>1, <1>2, <1>3, <1>4 DEF ClassifyContent
<1>5. CASE c.rel["business"] \in {"seed", "stray", "more", "opaque"}
    <2>1. "business" \in DOMAIN ins.tables /\ ins.tables["business"] # 0
        BY <1>1, <1>3, <1>5, CountFacts
    <2> QED BY <1>2, <2>1 DEF ClassifyContent
<1>6. CASE c.rel["agents"] \in {"stray", "more", "opaque"}
    <2>1. "agents" \in DOMAIN ins.tables /\ ~(ins.tables["agents"] = 1 /\ ins.total = 1 /\ ins.primary = 1)
        BY <1>1, <1>3, <1>6, CountFacts
    <2> QED BY <1>2, <2>1 DEF ClassifyContent
<1>7. CASE c.rel["version"] \in {"stray", "more", "opaque"}
    <2>1. "version" \in DOMAIN ins.tables /\ ins.versions = VersionsOf[c.rel["version"]]
          /\ ins.tables["version"] = CountOf[c.rel["version"]]
        BY <1>1, <1>3, <1>7
    <2>2. ~(/\ ins.tables["version"] >= 0
            /\ ins.versions # {}
            /\ ins.versions \subseteq {"supported"})
        <3>1. CASE c.rel["version"] \in {"stray", "more"}
            <4>1. "foreign" \in ins.versions
                BY <2>1, <3>1, CountFacts
            <4> QED BY <4>1
        <3>2. CASE c.rel["version"] = "opaque"
            <4>1. ins.tables["version"] = -1
                BY <2>1, <3>2, CountFacts
            <4> QED BY <4>1
        <3> QED BY <1>7, <3>1, <3>2
    <2> QED BY <1>2, <2>1, <2>2 DEF ClassifyContent
<1> QED BY <1>4, <1>5, <1>6, <1>7 DEF HoldsData

\* What the platform leaves behind is let through, half-made or marked.
LEMMA PlatformPasses ==
    ASSUME NEW c \in Contents, PlatformContent(c), ~HoldsData(c)
    PROVE  Verdict(c) # "non_empty"
<1> DEFINE ins == InspectDatabase(c)
<1> HIDE DEF ins
<1>1. /\ \A r \in Relations : r \in DOMAIN ins.tables <=> c.rel[r] # "absent"
      /\ "largeobject" \in DOMAIN ins.tables <=> c.lobs
      /\ DOMAIN ins.tables \subseteq Relations \cup {"largeobject"}
      /\ \A r \in Relations : c.rel[r] # "absent" => ins.tables[r] = CountOf[c.rel[r]]
      /\ c.rel["agents"] # "absent" =>
            /\ ins.total = IF c.rel["agents"] = "opaque" THEN 2 ELSE CountOf[c.rel["agents"]]
            /\ ins.primary = PrimaryOf[c.rel["agents"]]
      /\ c.rel["version"] # "absent" => ins.versions = VersionsOf[c.rel["version"]]
    BY InspectionFacts DEF ins
<1>2. Verdict(c) = ClassifyContent(ins)
    BY DEF Verdict, ins
<1>3. DOMAIN ins.tables \subseteq Bootstrap
    BY <1>1 DEF PlatformContent, Relations
<1>4. ASSUME NEW r \in DOMAIN ins.tables
      PROVE  CASE r = "sentinel" -> TRUE
               [] r = "agents"   -> ins.tables[r] = 1 /\ ins.total = 1 /\ ins.primary = 1
               [] r = "version"  -> /\ ins.tables[r] >= 0
                                    /\ ins.versions # {}
                                    /\ ins.versions \subseteq {"supported"}
               [] OTHER          -> ins.tables[r] = 0
    <2>1. r \in Bootstrap /\ r \in Relations /\ c.rel[r] # "absent"
        BY <1>1, <1>3 DEF Relations
    <2>2. CASE r = "sentinel"
        BY <2>2
    <2>3. CASE r = "agents"
        BY <2>1, <2>3, <1>1, CountFacts DEF PlatformContent
    <2>4. CASE r = "version"
        <3>1. c.rel["version"] = "seed"
            BY <2>1, <2>4 DEF PlatformContent
        <3>2. ins.tables["version"] = 1 /\ ins.versions = VersionsOf["seed"]
            BY <2>1, <2>4, <3>1, <1>1, CountFacts
        <3>3. ins.versions = {"supported"}
            BY <3>2, CountFacts
        <3> QED BY <2>4, <3>2, <3>3
    <2>5. CASE r = "business"
        <3>1. c.rel["business"] = "empty"
            BY <2>1, <2>5 DEF PlatformContent, HoldsData
        <3> QED BY <2>1, <2>5, <3>1, <1>1, CountFacts
    <2> QED BY <2>1, <2>2, <2>3, <2>4, <2>5 DEF Bootstrap
<1> QED BY <1>2, <1>3, <1>4 DEF ClassifyContent

\* The platform's own writes, and what they leave a loss.
LEMMA ContentMoves ==
    /\ NewContent \in Contents /\ PlatformContent(NewContent) /\ ~HoldsData(NewContent)
    /\ \A c \in Contents : PlatformContent(c) =>
        /\ Applied(c) \in Contents /\ PlatformContent(Applied(c))
        /\ HoldsData(Applied(c)) => HoldsData(c)
        /\ Marked(c) \in Contents /\ PlatformContent(Marked(c))
        /\ HoldsData(Marked(c)) => HoldsData(c)
        /\ Written(c) \in Contents /\ PlatformContent(Written(c))
<1>1. NewContent \in Contents /\ PlatformContent(NewContent) /\ ~HoldsData(NewContent)
    BY DEF NewContent, Contents, PlatformContent, HoldsData, Relations, Bootstrap
<1>2. ASSUME NEW c \in Contents, PlatformContent(c)
      PROVE  /\ Applied(c) \in Contents /\ PlatformContent(Applied(c))
             /\ HoldsData(Applied(c)) => HoldsData(c)
    <2> DEFINE rel == [r \in Relations |->
                        IF c.rel[r] # "absent" \/ r = "other" THEN c.rel[r]
                        ELSE IF r \in {"agents", "version"} THEN "seed" ELSE "empty"]
    <2>1. c = [rel |-> c.rel, lobs |-> c.lobs] /\ c.rel \in [Relations -> RowClasses \cup {"absent"}]
        BY DEF Contents
    <2>2. Applied(c) = [c EXCEPT !.rel = rel]
        BY DEF Applied
    <2>3. rel \in [Relations -> RowClasses \cup {"absent"}]
        BY <2>1 DEF RowClasses
    <2> HIDE DEF rel
    <2>4. Applied(c).rel = rel /\ Applied(c).lobs = c.lobs /\ Applied(c) \in Contents
        BY <2>1, <2>2, <2>3 DEF Contents
    <2>5. /\ rel["other"] = c.rel["other"]
          /\ \A r \in {"agents", "version"} : rel[r] = IF c.rel[r] # "absent" THEN c.rel[r] ELSE "seed"
          /\ rel["business"] = IF c.rel["business"] # "absent" THEN c.rel["business"] ELSE "empty"
        BY DEF rel, Relations, Bootstrap
    <2> QED BY <1>2, <2>4, <2>5 DEF PlatformContent, HoldsData
<1>3. ASSUME NEW c \in Contents, PlatformContent(c)
      PROVE  /\ Marked(c) \in Contents /\ PlatformContent(Marked(c))
             /\ HoldsData(Marked(c)) => HoldsData(c)
             /\ Written(c) \in Contents /\ PlatformContent(Written(c))
    <2>1. c = [rel |-> c.rel, lobs |-> c.lobs] /\ c.rel \in [Relations -> RowClasses \cup {"absent"}]
        BY DEF Contents
    <2>2. ASSUME NEW r \in {"sentinel", "business"}, NEW d, d = [c EXCEPT !.rel[r] = "more"]
          PROVE  /\ d \in Contents /\ d.lobs = c.lobs
                 /\ d.rel[r] = "more" /\ \A q \in Relations \ {r} : d.rel[q] = c.rel[q]
        BY <2>1, <2>2 DEF Contents, RowClasses, Relations, Bootstrap
    <2>3. /\ Marked(c) \in Contents /\ Marked(c).lobs = c.lobs
          /\ \A q \in Relations \ {"sentinel"} : Marked(c).rel[q] = c.rel[q]
        BY <2>2 DEF Marked
    <2>4. /\ Written(c) \in Contents /\ Written(c).lobs = c.lobs
          /\ Written(c).rel["business"] = "more"
          /\ \A q \in Relations \ {"business"} : Written(c).rel[q] = c.rel[q]
        BY <2>2 DEF Written
    <2> QED BY <1>3, <2>3, <2>4 DEF PlatformContent, HoldsData, Relations, Bootstrap
<1> QED BY <1>1, <1>2, <1>3

LEMMA CensusFollows ==
    ASSUME ContentInv, content \in [Tenants -> Contents]
    PROVE  CensusIsSound
<1>1. \A c \in Contents : HoldsData(c) => Verdict(c) = "non_empty"
    BY DataIsSeen
<1>2. \A c \in Contents : PlatformContent(c) /\ ~HoldsData(c) => Verdict(c) # "non_empty"
    BY PlatformPasses
<1>3. Overlooked = {}
    BY <1>1 DEF Overlooked, Passing
<1>4. ASSUME NEW t \in Tenants PROVE content[t] \in Passing <=> ~HoldsData(content[t])
    BY <1>1, <1>2 DEF Passing, ContentInv
<1> QED BY <1>3, <1>4 DEF CensusIsSound

(***************************************************************************)
(* The orphan report calls safe what the operation would drop: beside the  *)
(* target, the report compares with one physical database, the operation   *)
(* in its first proof with none, and no evidence is about no database.     *)
(***************************************************************************)
LEMMA ReportFollows ==
    ASSUME LedgerInv, dbs \subseteq Tenants
    PROVE  ReportAgrees
<1>1. ASSUME NEW t \in Tenants
      PROVE  Claimed(t, NoDb) => Claimed(t, Home(t))
    BY DEF Claimed, EvidenceExcluding, LedgerInv
<1>2. ASSUME NEW t \in Tenants, t \in dbs
      PROVE  ClassifyDatabase(t) = "eligible" <=> WouldDrop(t)
    <2>1. t # ControlName
        OBVIOUS
    <2>2. tenants[t].state \in Eligible => tenants[t].state # Absent
        BY DEF Eligible, Absent, LC!Absent
    <2> QED BY <1>1, <1>2, <2>1, <2>2 DEF ClassifyDatabase, WouldDrop
<1>3. SafeToDeprovision = {t \in dbs : ClassifyDatabase(t) = "eligible"}
    <2>1. DOMAIN ScanForOrphans = dbs \cup {u \in Tenants : tenants[u].state # Absent}
        BY DEF ScanForOrphans, Candidates
    <2>2. \A t \in DOMAIN ScanForOrphans : ScanForOrphans[t] =
            IF t \in dbs THEN ClassifyDatabase(t) ELSE "registry_record_database_absent"
        BY DEF ScanForOrphans, Candidates
    <2> QED BY <2>1, <2>2 DEF SafeToDeprovision
<1>4. \A t : WouldDrop(t) => t \in dbs
    BY DEF WouldDrop
<1> QED BY <1>2, <1>3, <1>4 DEF ReportAgrees

-----------------------------------------------------------------------------
(***************************************************************************)
(* What a step of the lifecycle does to the tables a deprovision call has  *)
(* read or relies on.                                                      *)
(***************************************************************************)
Worked(w) == Start(w) \/ Step(w) \/ Raise(w) \/ Crash(w)

\* A row that is there stays, or moves on to a later version.
LEMMA RowsAdvance ==
    ASSUME IInv, NEW w \in Workers, Worked(w), NEW t \in Tenants, tenants[t].state # Absent
    PROVE  \/ tenants'[t] = tenants[t]
           \/ /\ tenants'[t].state # Absent
              /\ tenants'[t].version = tenants[t].version + 1
<1>0. /\ tenants \in [Tenants -> Rows] /\ job \in [Workers -> Jobs]
      /\ job[w].pc # "idle" => job[w].t \in Tenants
    BY DEF IInv, TypeOK
<1>1. ASSUME NEW s, NEW ref, Fresh(w), Commit(w, s, ref), s # Absent,
             job[w].pc \in SnapshotPcs
      PROVE  \/ tenants'[t] = tenants[t]
             \/ /\ tenants'[t].state # Absent
                /\ tenants'[t].version = tenants[t].version + 1
    BY <1>0, <1>1 DEF Commit, Swapped, Fresh
<1>2. CASE Start(w) \/ Raise(w) \/ Crash(w)
    BY <1>2 DEF Start, Raise, Crash, Local, Quiet
<1>3. CASE TransitionCas(w)
    <2>1. job[w].to # Absent
        BY <1>3 DEF TransitionCas, IInv, SnapshotsCoherent, JobCoherent, AllowedFrom, Absent, LC!Absent
    <2> QED BY <1>1, <1>3, <2>1 DEF TransitionCas, Local, Quiet, SnapshotPcs
<1>4. CASE VerifyEnter(w) \/ VerifyReady(w) \/ VerifyFail(w) \/ ReassociateCas(w)
    BY <1>1, <1>4 DEF VerifyEnter, VerifyReady, VerifyFail, ReassociateCas, Local, Quiet,
        SnapshotPcs, Absent, LC!Absent
<1>5. CASE RegisterPut(w)
    <2>1. tenants[job[w].t].state = Absent
        BY <1>5 DEF RegisterPut, IInv, SnapshotsCoherent, JobCoherent
    <2> QED BY <1>0, <1>5, <2>1 DEF RegisterPut
<1>6. CASE UNCHANGED tenants
    BY <1>6
<1> QED
    BY <1>2, <1>3, <1>4, <1>5, <1>6
       DEF Worked, Step, TransitionRead, Fence, RegisterRead, RegisterAudit, Provision,
           ApplySchema, Terminal, RecoverRead, RecoverHistory, VerifyRead, VerifyReread,
           VerifyProbe, VerifyDecide, VerifyRemove, VerifyRecord, VerifyAnomaly,
           ReassociateRead, DisableRouting, Local, Quiet

\* What a gate puts into the ledger is evidence of a database.
LEMMA LedgerKept ==
    ASSUME IInv, LedgerInv, NEW w \in Workers, Worked(w)
    PROVE  LedgerInv'
<1>0. ledger \in [Tenants -> Evidence]
    BY DEF IInv, TypeOK
<1>1. CASE VerifyRemove(w) \/ DisableRouting(w)
    BY <1>0, <1>1 DEF VerifyRemove, DisableRouting, LedgerInv
<1>2. CASE VerifyRecord(w)
    <2>1. job[w].ev.db # NoDb
        BY <1>2 DEF VerifyRecord, IInv, SnapshotsCoherent, JobCoherent, Proven
    <2> QED BY <1>0, <1>2, <2>1 DEF VerifyRecord, LedgerInv
<1>3. CASE UNCHANGED ledger
    BY <1>3 DEF LedgerInv
<1> QED
    BY <1>1, <1>2, <1>3
       DEF Worked, Start, Raise, Crash, Step, TransitionRead, TransitionCas, Fence,
           RegisterRead, RegisterAudit, RegisterPut, Provision, ApplySchema, Terminal,
           RecoverRead, RecoverHistory, VerifyRead, VerifyEnter, VerifyReread, VerifyProbe,
           VerifyDecide, VerifyReady, VerifyFail, VerifyAnomaly, ReassociateRead,
           ReassociateCas, Local, Quiet, Commit

-----------------------------------------------------------------------------
(***************************************************************************)
(* A lifecycle step seen from a deprovision call: its note of a Ready      *)
(* tenant, and what happens to the content of the databases.               *)
(***************************************************************************)
LEMMA NoteFacts ==
    ASSUME NEW d \in Drops
    PROVE  LET e == NotesReady(d) IN
           /\ e \in Drops
           /\ e.pc = d.pc /\ e.t = d.t /\ e.rec = d.rec /\ e.pass = d.pass
           /\ e.fp = d.fp /\ e.census = d.census /\ e.reason = d.reason
           /\ (e.latch <=> d.latch) /\ e.sent = d.sent /\ (e.deaf <=> d.deaf)
           /\ d.pc = "idle" => e = d
           /\ e.ready = "no" => d.ready = "no"
           /\ e.ready = "no" /\ Proving(d) => tenants'[d.t].state # "Ready"
<1> DEFINE when == IF d.pass = 1 \/ d.pc = "registry" THEN "before" ELSE "after"
           noted == [d EXCEPT !.ready = when]
<1>1. when \in {"before", "after"}
    OBVIOUS
<1> HIDE DEF when
<1>2. /\ noted \in Drops /\ noted.ready = when
      /\ noted.pc = d.pc /\ noted.t = d.t /\ noted.rec = d.rec /\ noted.pass = d.pass
      /\ noted.fp = d.fp /\ noted.census = d.census /\ noted.reason = d.reason
      /\ (noted.latch <=> d.latch) /\ noted.sent = d.sent /\ (noted.deaf <=> d.deaf)
    BY <1>1 DEF Drops
<1>3. NotesReady(d) =
        IF /\ d.pc # "idle" /\ ~(d.pc = "registry" /\ d.pass = 1)
           /\ tenants'[d.t].state = "Ready" /\ d.ready \in {"no", "cached"}
        THEN noted ELSE d
    BY DEF NotesReady, when
<1>4. Proving(d) => d.pc # "idle" /\ ~(d.pc = "registry" /\ d.pass = 1)
    BY DEF Proving, ProofPcs
<1> HIDE DEF noted
<1> QED BY <1>1, <1>2, <1>3, <1>4

\* Onboarding and the verifier add nothing that would be a loss.
LEMMA ContentFilled ==
    ASSUME IInv, DTypeInv, ContentInv, NEW w \in Workers, Fills(w)
    PROVE  /\ content' \in [Tenants -> Contents]
           /\ ContentInv'
           /\ \A t \in Tenants : HoldsData(content'[t]) => HoldsData(content[t])
<1>0. content \in [Tenants -> Contents] /\ \A t \in Tenants : PlatformContent(content[t])
    BY DEF DTypeInv, ContentInv
<1> DEFINE t == job[w].t
<1>1. ASSUME NEW u \in Tenants, NEW c \in Contents, PlatformContent(c),
             HoldsData(c) => HoldsData(content[u]), content' = [content EXCEPT ![u] = c]
      PROVE  /\ content' \in [Tenants -> Contents]
             /\ ContentInv'
             /\ \A v \in Tenants : HoldsData(content'[v]) => HoldsData(content[v])
    <2>1. content'[u] = c /\ \A v \in Tenants \ {u} : content'[v] = content[v]
        BY <1>0, <1>1
    <2>2. content' \in [Tenants -> Contents]
        BY <1>0, <1>1
    <2>3. ContentInv'
        BY <1>0, <1>1, <2>1 DEF ContentInv
    <2> QED BY <1>1, <2>1, <2>2, <2>3
<1>2. CASE t \in Tenants /\ content' = [content EXCEPT ![t] = Applied(@)]
    <2>1. /\ Applied(content[t]) \in Contents /\ PlatformContent(Applied(content[t]))
          /\ HoldsData(Applied(content[t])) => HoldsData(content[t])
        BY <1>0, <1>2, ContentMoves
    <2>2. content' = [content EXCEPT ![t] = Applied(content[t])]
        BY <1>2, Zenon
    <2> QED BY <1>1, <1>2, <2>1, <2>2
<1>3. CASE t \in Tenants /\ content' = [content EXCEPT ![t] = Marked(@)]
    <2>1. /\ Marked(content[t]) \in Contents /\ PlatformContent(Marked(content[t]))
          /\ HoldsData(Marked(content[t])) => HoldsData(content[t])
        BY <1>0, <1>3, ContentMoves
    <2>2. content' = [content EXCEPT ![t] = Marked(content[t])]
        BY <1>3, Zenon
    <2> QED BY <1>1, <1>3, <2>1, <2>2
<1>4. CASE UNCHANGED content
    BY <1>0, <1>4 DEF ContentInv
<1>5. CASE \E u \in Tenants : content' = [content EXCEPT ![u] = Marked(@)]
    BY <1>0, <1>1, <1>5, ContentMoves
<1>6. dbs \subseteq Tenants
    BY DEF IInv, TypeOK
<1>7. CASE t \notin Tenants
    <2>1. \/ content' = content \/ content' = [content EXCEPT ![t] = Applied(@)]
          \/ content' = [content EXCEPT ![t] = Marked(@)]
          \/ \E u \in dbs : content' = [content EXCEPT ![u] = Marked(@)]
        BY DEF Fills
    <2>2. \/ content' = content
          \/ \E u \in Tenants : content' = [content EXCEPT ![u] = Marked(@)]
        BY <1>0, <1>6, <1>7, <2>1
    <2> QED BY <1>4, <1>5, <2>2
<1> QED BY <1>2, <1>3, <1>4, <1>5, <1>6, <1>7 DEF Fills

\* The calls of the operators while a worker makes a step.
LEMMA CallsWatch ==
    ASSUME DInv, NEW w \in Workers, LifecycleStep(w), IInv'
    PROVE  /\ drop' \in [Operators -> Drops]
           /\ \A o \in Operators : drop'[o].pc # "idle" => drop'[o].t \in Tenants
           /\ TerminalInv' /\ IdleInv' /\ CallInv'
<1>0. /\ drop \in [Operators -> Drops] /\ tenants \in [Tenants -> Rows]
      /\ tenants' \in [Tenants -> Rows] /\ Worked(w) /\ Fills(w)
      /\ drop' = [o \in Operators |-> NotesReady(drop[o])] /\ filed' = filed
      /\ routed' = routed \cup {t \in Tenants : tenants'[t].state = "Ready"}
    BY DEF DInv, IInv, DTypeInv, TypeOK, LifecycleStep, Worked
<1>1. ASSUME NEW o \in Operators
      PROVE  /\ drop'[o] \in Drops
             /\ drop'[o].pc # "idle" => drop'[o].t \in Tenants
             /\ TerminalOk(drop'[o])
             /\ drop'[o].pc = "idle" => drop'[o] = NoDrop
             /\ drop'[o].pc # "idle" =>
                    DropCoherent(drop'[o], tenants'[drop'[o].t], content'[drop'[o].t],
                                 drop'[o].t \in routed')
    <2> DEFINE d == drop[o]
               e == drop'[o]
    <2>1. d \in Drops /\ e = NotesReady(d)
        BY <1>0
    <2>2. /\ e \in Drops
          /\ e.pc = d.pc /\ e.t = d.t /\ e.rec = d.rec /\ e.pass = d.pass /\ e.census = d.census
          /\ (e.latch <=> d.latch) /\ e.sent = d.sent /\ (e.deaf <=> d.deaf)
          /\ d.pc = "idle" => e = d
          /\ e.ready = "no" => d.ready = "no"
          /\ e.ready = "no" /\ Proving(d) => tenants'[d.t].state # "Ready"
        BY <2>1, NoteFacts
    <2>3. TerminalOk(e)
        BY <2>2 DEF DInv, TerminalInv, TerminalOk
    <2>4. ASSUME d.pc # "idle"
          PROVE  d.t \in Tenants /\ DropCoherent(e, tenants'[d.t], content'[d.t], d.t \in routed')
        <3>1. d.t \in Tenants /\ DropCoherent(d, tenants[d.t], content[d.t], d.t \in routed)
            BY <2>4 DEF DInv, DTypeInv, CallInv
        <3>2. HoldsData(content'[d.t]) => HoldsData(content[d.t])
            BY <1>0, <3>1, ContentFilled DEF DInv
        <3>3. d.pc = "qCas" => Coherent(d.rec, tenants'[d.t])
            <4>1. SUFFICES ASSUME d.pc = "qCas" PROVE Coherent(d.rec, tenants'[d.t])
                OBVIOUS
            <4>2. Coherent(d.rec, tenants[d.t])
                BY <3>1, <4>1 DEF DropCoherent
            <4>3. \/ tenants'[d.t] = tenants[d.t]
                  \/ /\ tenants'[d.t].state # Absent
                     /\ tenants'[d.t].version = tenants[d.t].version + 1
                BY <1>0, <3>1, <4>2, RowsAdvance DEF DInv, Coherent
            <4>4. d.rec.version \in Nat /\ tenants[d.t].version \in Nat
                BY <1>0, <2>1, <3>1 DEF Drops, Rows
            <4> QED BY <4>2, <4>3, <4>4 DEF Coherent
        <3>4. Proving(e) = Proving(d) /\ Counted(e) = Counted(d)
            BY <2>2 DEF Proving, Counted
        <3>5. Proving(d) /\ e.ready = "no" => d.t \notin routed'
            BY <1>0, <2>2, <3>1 DEF DropCoherent
        <3> QED BY <2>2, <3>1, <3>2, <3>3, <3>4, <3>5 DEF DropCoherent
    <2>5. d.pc = "idle" => d = NoDrop
        BY DEF DInv, IdleInv
    <2> QED BY <2>2, <2>3, <2>4, <2>5
<1>2. OneTerminal'
    BY <1>0 DEF DInv, TerminalInv, OneTerminal
<1>3. drop' \in [Operators -> Drops]
    BY <1>0, <1>1
<1> QED BY <1>1, <1>2, <1>3 DEF TerminalInv, IdleInv, CallInv

LEMMA LifecycleStepKeeps ==
    ASSUME DInv, SingleRegistrar, NEW w \in Workers, LifecycleStep(w)
    PROVE  DInv' /\ [LC!Next]_(LC!vars)
<1>1. Worked(w) /\ [Next]_vars
    BY DEF LifecycleStep, Worked, Next
<1>2. IInv' /\ [LC!Next]_(LC!vars)
    BY <1>1, NextKeeps DEF DInv
<1>3. LedgerInv'
    BY <1>1, LedgerKept DEF DInv
<1>4. content' \in [Tenants -> Contents] /\ ContentInv'
    BY ContentFilled DEF DInv, LifecycleStep
<1>5. /\ drop' \in [Operators -> Drops]
      /\ \A o \in Operators : drop'[o].pc # "idle" => drop'[o].t \in Tenants
      /\ TerminalInv' /\ IdleInv' /\ CallInv'
    BY <1>2, CallsWatch
<1>6. \A t \in dbs' : inc'[t] \in DOMAIN Homes[t]
    BY DEF LifecycleStep, Creates, DInv, DTypeInv
<1>7. DTypeInv'
    BY <1>4, <1>5, <1>6 DEF LifecycleStep, DInv, DTypeInv
<1> QED BY <1>2, <1>3, <1>4, <1>5, <1>7 DEF DInv

\* A tenant's services write: no call is without a note that it is routed to.
LEMMA UseKeeps ==
    ASSUME DInv, NEW t \in Tenants, Use(t)
    PROVE  DInv' /\ UNCHANGED LC!vars
<1>0. /\ content \in [Tenants -> Contents] /\ t \in routed
      /\ content' = [content EXCEPT ![t] = Written(content[t])]
      /\ UNCHANGED <<vars, routed, inc, drop, filed, asked>>
    BY DEF Use, DInv, DTypeInv
<1>1. IInv' /\ LedgerInv' /\ UNCHANGED LC!vars
    BY <1>0 DEF vars, DInv, IInv, TypeOK, SnapshotsCoherent, JobCoherent, Coherent,
                TrailMatchesState, ReadyIsVerified, AnomalyHolds, LedgerInv, LC!vars
<1>2. content' \in [Tenants -> Contents] /\ ContentInv'
    BY <1>0, ContentMoves DEF DInv, ContentInv
<1>3. DTypeInv' /\ TerminalInv' /\ IdleInv'
    BY <1>0, <1>2 DEF vars, DInv, DTypeInv, TerminalInv, OneTerminal, IdleInv
<1>4. CallInv'
    <2>1. SUFFICES ASSUME NEW o \in Operators, drop[o].pc # "idle"
                   PROVE  DropCoherent(drop[o], tenants[drop[o].t], content'[drop[o].t], drop[o].t \in routed)
        BY <1>0 DEF vars, CallInv
    <2>2. DropCoherent(drop[o], tenants[drop[o].t], content[drop[o].t], drop[o].t \in routed) /\ drop[o].t \in Tenants
        BY <2>1 DEF DInv, CallInv, DTypeInv
    <2>3. CASE drop[o].t # t
        BY <1>0, <2>2, <2>3
    <2>4. CASE drop[o].t = t
        <3>1. Counted(drop[o]) => Proving(drop[o])
            BY DEF Counted, Proving, ProofPcs
        <3> QED BY <1>0, <2>2, <2>4, <3>1 DEF DropCoherent
    <2> QED BY <2>3, <2>4
<1> QED BY <1>1, <1>2, <1>3, <1>4 DEF DInv

LEMMA ViewExpiresKeeps ==
    ASSUME DInv, NEW t \in Tenants, ViewExpires(t)
    PROVE  DInv' /\ UNCHANGED LC!vars
<1>0. routed' \subseteq routed /\ UNCHANGED <<vars, content, inc, drop, filed, asked>>
    BY DEF ViewExpires
<1>1. IInv' /\ LedgerInv' /\ ContentInv' /\ UNCHANGED LC!vars
    BY <1>0 DEF vars, DInv, IInv, TypeOK, SnapshotsCoherent, JobCoherent, Coherent,
                TrailMatchesState, ReadyIsVerified, AnomalyHolds, LedgerInv, ContentInv, LC!vars
<1>2. DTypeInv' /\ TerminalInv' /\ IdleInv'
    BY <1>0 DEF vars, DInv, DTypeInv, TerminalInv, OneTerminal, IdleInv
<1>3. CallInv'
    <2>1. SUFFICES ASSUME NEW o \in Operators, drop[o].pc # "idle"
                   PROVE  DropCoherent(drop[o], tenants[drop[o].t], content[drop[o].t],
                                       drop[o].t \in routed')
        BY <1>0 DEF vars, CallInv
    <2> QED BY <1>0, <2>1 DEF DInv, CallInv, DropCoherent
<1> QED BY <1>1, <1>2, <1>3 DEF DInv

-----------------------------------------------------------------------------
(***************************************************************************)
(* The operators' steps.  Most move one call and nothing else.             *)
(***************************************************************************)
CallOk(e) ==
    /\ e \in Drops
    /\ e.pc = "idle" => e = NoDrop
    /\ e.pc # "idle" => e.t \in Tenants /\ DropCoherent(e, tenants[e.t], content[e.t], e.t \in routed)
    /\ TerminalOk(e)

LEMMA CallsOk ==
    ASSUME DInv
    PROVE  \A o \in Operators : CallOk(drop[o])
BY DEF DInv, DTypeInv, IdleInv, CallInv, TerminalInv, CallOk

LEMMA CallMoves ==
    ASSUME DInv, NEW o \in Operators, NEW e, CallOk(e), drop' = [drop EXCEPT ![o] = e],
           UNCHANGED <<vars, content, routed, inc>>, asked' \in 0..MaxDrops, OneTerminal'
    PROVE  DInv' /\ UNCHANGED LC!vars
<1>1. IInv' /\ LedgerInv' /\ ContentInv' /\ UNCHANGED LC!vars
    BY DEF vars, DInv, IInv, TypeOK, SnapshotsCoherent, JobCoherent, Coherent,
           TrailMatchesState, ReadyIsVerified, AnomalyHolds, LedgerInv, ContentInv, LC!vars
<1>2. drop \in [Operators -> Drops] /\ e \in Drops
    BY DEF DInv, DTypeInv, CallOk
<1>3. \A p \in Operators : drop'[p] = IF p = o THEN e ELSE drop[p]
    BY <1>2
<1>4. \A p \in Operators : CallOk(drop'[p])
    BY <1>3, CallsOk
<1>5. drop' \in [Operators -> Drops]
    BY <1>2
<1>6. /\ tenants' = tenants /\ content' = content /\ routed' = routed
      /\ dbs' = dbs /\ inc' = inc
    BY DEF vars
<1>7. DTypeInv'
    BY <1>4, <1>5, <1>6 DEF DInv, DTypeInv, CallOk
<1>8. TerminalInv' /\ IdleInv' /\ CallInv'
    BY <1>4, <1>6 DEF TerminalInv, IdleInv, CallInv, CallOk
<1> QED BY <1>1, <1>7, <1>8 DEF DInv

\* The usual step: nothing but the call, and no terminal record.
LEMMA WatchKeeps ==
    ASSUME DInv, NEW o \in Operators, NEW e, CallOk(e), drop' = [drop EXCEPT ![o] = e], Watch
    PROVE  DInv' /\ UNCHANGED LC!vars
<1>1. OneTerminal'
    BY DEF Watch, DInv, TerminalInv, OneTerminal
<1> QED BY <1>1, CallMoves DEF Watch, DInv, DTypeInv

\* Where nothing about the proof is remembered.
RestPcs == {"fail", "qRead", "qEvent", "completed", "failed", "raised"}

LEMMA RestCoherent ==
    ASSUME NEW e, e.pc \in RestPcs, NEW row, NEW held, NEW late
    PROVE  DropCoherent(e, row, held, late)
BY DEF RestPcs, DropCoherent, Proving, Counted, ProofPcs

\* A call in progress, before its sink raised.
LEMMA Underway ==
    ASSUME DInv, NEW o \in Operators, drop[o].pc # "idle", drop[o].pc # "raised"
    PROVE  /\ drop \in [Operators -> Drops] /\ drop[o] \in Drops /\ drop[o].t \in Tenants
           /\ DropCoherent(drop[o], tenants[drop[o].t], content[drop[o].t], drop[o].t \in routed)
           /\ ~drop[o].latch /\ drop[o].sent = 0 /\ ~drop[o].deaf
BY CallsOk DEF CallOk, TerminalOk, DInv, DTypeInv

\* The calls that a step makes of one.
LEMMA DropEdits ==
    ASSUME NEW d \in Drops, NEW pc \in DropPcs
    PROVE  /\ \A t \in Tenants : [d EXCEPT !.pc = pc, !.t = t] \in Drops
           /\ \A rec \in Rows : [d EXCEPT !.pc = pc, !.rec = rec] \in Drops
           /\ \A rec \in Rows, ready \in {"no", "cached", "before", "after"} :
                  [d EXCEPT !.pc = pc, !.rec = rec, !.ready = ready] \in Drops
           /\ \A n \in {1, 2} : [d EXCEPT !.pc = pc, !.pass = n] \in Drops
           /\ \A fp \in Databases, c \in Contents :
                  [d EXCEPT !.pc = pc, !.fp = fp, !.census = c] \in Drops
           /\ \A n \in {0, 1} :
                  [d EXCEPT !.pc = pc, !.latch = TRUE, !.sent = n, !.deaf = TRUE] \in Drops
<1>1. \A t \in Tenants : [d EXCEPT !.pc = pc, !.t = t] \in Drops
    BY DEF Drops
<1>2. \A rec \in Rows : [d EXCEPT !.pc = pc, !.rec = rec] \in Drops
    BY DEF Drops
<1>3. \A n \in {1, 2} : [d EXCEPT !.pc = pc, !.pass = n] \in Drops
    BY DEF Drops
<1>4. \A fp \in Databases, c \in Contents : [d EXCEPT !.pc = pc, !.fp = fp, !.census = c] \in Drops
    BY DEF Drops
<1>5. \A n \in {0, 1} : [d EXCEPT !.pc = pc, !.latch = TRUE, !.sent = n, !.deaf = TRUE] \in Drops
    BY DEF Drops
<1>6. \A rec \in Rows, ready \in {"no", "cached", "before", "after"} :
        [d EXCEPT !.pc = pc, !.rec = rec, !.ready = ready] \in Drops
    BY DEF Drops
<1> QED BY <1>1, <1>2, <1>3, <1>4, <1>5, <1>6

LEMMA GotoOk ==
    ASSUME DInv, NEW o \in Operators, drop[o].pc # "idle", drop[o].pc # "raised",
           NEW pc \in DropPcs \ {"idle"}, NEW e, e = [drop[o] EXCEPT !.pc = pc],
           DropCoherent(e, tenants[drop[o].t], content[drop[o].t], drop[o].t \in routed)
    PROVE  CallOk(e)
<1>1. /\ drop[o] \in Drops /\ drop[o].t \in Tenants
      /\ ~drop[o].latch /\ drop[o].sent = 0 /\ ~drop[o].deaf
    BY Underway
<1>2. e \in Drops /\ e.pc = pc /\ e.t = drop[o].t
      /\ ~e.latch /\ e.sent = 0 /\ ~e.deaf
    BY <1>1 DEF Drops
<1> QED BY <1>1, <1>2 DEF CallOk, TerminalOk

\* Going to a place where nothing is remembered.
LEMMA RestOk ==
    ASSUME DInv, NEW o \in Operators, drop[o].pc # "idle", drop[o].pc # "raised",
           NEW pc \in RestPcs, NEW reason \in Anomalies \cup {"none", "unknown_tenant",
                "ineligible_lifecycle_state", "control_identity_unavailable",
                "inspection_unavailable", "deprovision_failed"}
    PROVE  /\ CallOk([drop[o] EXCEPT !.pc = pc])
           /\ CallOk([drop[o] EXCEPT !.pc = pc, !.reason = reason])
<1>1. /\ drop[o] \in Drops /\ drop[o].t \in Tenants
      /\ ~drop[o].latch /\ drop[o].sent = 0 /\ ~drop[o].deaf
    BY Underway
<1>2. pc \in DropPcs \ {"idle"}
    BY DEF RestPcs, DropPcs
<1>3. ASSUME NEW e \in Drops, e.pc = pc, e.t = drop[o].t, ~e.latch, e.sent = 0, ~e.deaf
      PROVE  CallOk(e)
    BY <1>1, <1>2, <1>3, RestCoherent DEF CallOk, TerminalOk
<1>4. LET e == [drop[o] EXCEPT !.pc = pc] IN
        e \in Drops /\ e.pc = pc /\ e.t = drop[o].t /\ ~e.latch /\ e.sent = 0 /\ ~e.deaf
    BY <1>1, <1>2 DEF Drops
<1>5. LET e == [drop[o] EXCEPT !.pc = pc, !.reason = reason] IN
        e \in Drops /\ e.pc = pc /\ e.t = drop[o].t /\ ~e.latch /\ e.sent = 0 /\ ~e.deaf
    BY <1>1, <1>2 DEF Drops
<1> QED BY <1>3, <1>4, <1>5

\* The updates of drop that the actions write field by field.
LEMMA DropUpdate ==
    ASSUME DInv, NEW o \in Operators
    PROVE  /\ \A pc : DGoto(o, pc) <=> drop' = [drop EXCEPT ![o] = [drop[o] EXCEPT !.pc = pc]]
           /\ \A reason : Refuse(o, reason) <=>
                drop' = [drop EXCEPT ![o] = [drop[o] EXCEPT !.pc = "fail", !.reason = reason]]
BY DEF DGoto, Refuse, DInv, DTypeInv

LEMMA RefuseKeeps ==
    ASSUME DInv, NEW o \in Operators, drop[o].pc # "idle", drop[o].pc # "raised", Watch,
           NEW reason \in Anomalies \cup {"none", "unknown_tenant",
                "ineligible_lifecycle_state", "control_identity_unavailable",
                "inspection_unavailable", "deprovision_failed"}, Refuse(o, reason)
    PROVE  DInv' /\ UNCHANGED LC!vars
<1>1. PICK e : e = [drop[o] EXCEPT !.pc = "fail", !.reason = reason]
    OBVIOUS
<1>2. CallOk(e)
    BY <1>1, RestOk DEF RestPcs
<1>3. drop' = [drop EXCEPT ![o] = e]
    BY <1>1, DropUpdate
<1> QED BY <1>2, <1>3, WatchKeeps

LEMMA RestKeeps ==
    ASSUME DInv, NEW o \in Operators, drop[o].pc # "idle", drop[o].pc # "raised", Watch,
           NEW pc \in RestPcs, DGoto(o, pc)
    PROVE  DInv' /\ UNCHANGED LC!vars
<1>1. PICK e : e = [drop[o] EXCEPT !.pc = pc]
    OBVIOUS
<1>2. CallOk(e)
    BY <1>1, RestOk
<1>3. drop' = [drop EXCEPT ![o] = e]
    BY <1>1, DropUpdate
<1> QED BY <1>2, <1>3, WatchKeeps

-----------------------------------------------------------------------------
OpKeeps == DInv' /\ [LC!Next]_(LC!vars)

LEMMA EndKeeps ==
    ASSUME DInv, NEW o \in Operators, NEW sent, NEW deaf, End(o, sent, deaf),
           <<sent, deaf>> \in {<<1, FALSE>>, <<0, TRUE>>, <<1, TRUE>>},
           UNCHANGED <<vars, content, routed, inc, asked>>
    PROVE  OpKeeps
<1>1. CallOk(NoDrop)
    BY ContentMoves DEF NoDrop, CallOk, Drops, DropPcs, TerminalOk, NoRow, Rows, States, Absent,
           LC!States, LC!Absent
<1>2. OneTerminal'
    BY DEF End, DInv, TerminalInv, OneTerminal
<1> QED BY <1>1, <1>2, CallMoves DEF End, OpKeeps, DInv, DTypeInv

LEMMA RequestKeeps ==
    ASSUME DInv, NEW o \in Operators, Request(o)
    PROVE  OpKeeps
<1>1. PICK t \in Tenants : drop' = [drop EXCEPT ![o].pc = "registry", ![o].t = t]
    BY DEF Request
<1>2. drop[o] = NoDrop /\ drop \in [Operators -> Drops]
    BY DEF Request, At, DInv, IdleInv, DTypeInv
<1>3. PICK e : e = [NoDrop EXCEPT !.pc = "registry", !.t = t]
    OBVIOUS
<1>4. drop' = [drop EXCEPT ![o] = e]
    BY <1>1, <1>2, <1>3
<1>5. NoDrop \in Drops
    BY <1>2
<1>6. e \in Drops /\ e.pc = "registry" /\ e.t = t /\ e.pass = 1 /\ ~e.latch /\ e.sent = 0 /\ ~e.deaf
    <2>1. e \in Drops
        <3>1. "registry" \in DropPcs
            BY DEF DropPcs
        <3> QED BY <1>3, <1>5, <3>1, DropEdits
    <2>2. e.pc = "registry" /\ e.t = t /\ e.pass = 1 /\ ~e.latch /\ e.sent = 0 /\ ~e.deaf
        BY <1>3 DEF NoDrop
    <2> QED BY <2>1, <2>2
<1>7. CallOk(e)
    BY <1>6 DEF CallOk, DropCoherent, Proving, Counted, ProofPcs, TerminalOk
<1>8. asked' \in 0..MaxDrops
    BY DEF Request, DInv, DTypeInv
<1>9. OneTerminal'
    BY DEF Request, DInv, TerminalInv, OneTerminal
<1> QED BY <1>4, <1>7, <1>8, <1>9, CallMoves DEF Request, OpKeeps

LEMMA ProofRegistryKeeps ==
    ASSUME DInv, NEW o \in Operators, ProofRegistry(o)
    PROVE  OpKeeps
<1> DEFINE d == drop[o]
           r == tenants[d.t]
<1>1. /\ d.pc = "registry" /\ Watch
      /\ drop \in [Operators -> Drops] /\ d \in Drops /\ d.t \in Tenants
      /\ DropCoherent(d, tenants[d.t], content[d.t], d.t \in routed)
      /\ ~d.latch /\ d.sent = 0 /\ ~d.deaf
      /\ tenants \in [Tenants -> Rows]
    BY Underway DEF ProofRegistry, At, DInv, IInv, TypeOK
<1>2. CASE Refuse(o, "unknown_tenant") \/ Refuse(o, "ineligible_lifecycle_state")
    BY <1>1, <1>2, RefuseKeeps DEF OpKeeps
<1>3. CASE /\ r.state \in Eligible
           /\ drop' = [drop EXCEPT ![o].pc = "ledger",
                                   ![o].rec = IF d.pass = 1 THEN r ELSE @,
                                   ![o].ready = IF d.pass = 1 /\ d.t \in routed
                                                THEN "cached" ELSE @]
    <2>1. PICK rec \in Rows : rec = IF d.pass = 1 THEN r ELSE d.rec
        BY <1>1 DEF Drops
    <2>8. PICK ready \in {"no", "cached", "before", "after"} :
            ready = IF d.pass = 1 /\ d.t \in routed THEN "cached" ELSE d.ready
        BY <1>1 DEF Drops
    <2>2. PICK e : e = [d EXCEPT !.pc = "ledger", !.rec = rec, !.ready = ready]
        OBVIOUS
    <2>3. drop' = [drop EXCEPT ![o] = e]
        <3>1. drop' = [drop EXCEPT ![o] =
                [d EXCEPT !.pc = "ledger",
                          !.rec = IF d.pass = 1 THEN r ELSE d.rec,
                          !.ready = IF d.pass = 1 /\ d.t \in routed THEN "cached" ELSE d.ready]]
            BY <1>1, <1>3
        <3> QED BY <2>1, <2>2, <2>8, <3>1, Zenon
    <2>4. /\ e \in Drops /\ e.pc = "ledger" /\ e.t = d.t /\ e.pass = d.pass
          /\ e.census = d.census /\ e.ready = ready
          /\ ~e.latch /\ e.sent = 0 /\ ~e.deaf
        <3>1. "ledger" \in DropPcs
            BY DEF DropPcs
        <3>3. d \in Drops
            BY <1>1
        <3>2. e \in Drops
            BY <2>2, <3>1, <3>3 DEF Drops
        <3>4. e.pc = "ledger" /\ e.t = d.t /\ e.pass = d.pass /\ e.census = d.census
            BY <2>2, <3>3 DEF Drops
        <3>5. e.ready = ready /\ e.latch = d.latch /\ e.sent = d.sent /\ e.deaf = d.deaf
            BY <2>2, <3>3 DEF Drops
        <3> QED BY <1>1, <3>2, <3>4, <3>5
    <2>5. d.pass \in {1, 2}
        BY <1>1 DEF Drops
    <2>6. DropCoherent(e, tenants[d.t], content[d.t], d.t \in routed)
        BY <1>1, <1>3, <2>4, <2>5, <2>8 DEF DropCoherent, Proving, Counted, ProofPcs, Eligible
    <2>7. CallOk(e)
        BY <1>1, <2>4, <2>6 DEF CallOk, TerminalOk
    <2> QED BY <1>1, <2>3, <2>7, WatchKeeps DEF OpKeeps
<1> QED BY <1>2, <1>3 DEF ProofRegistry

LEMMA GotoKeepsCall ==
    ASSUME DInv, NEW o \in Operators, drop[o].pc # "idle", drop[o].pc # "raised", Watch,
           NEW pc \in DropPcs \ {"idle"}, DGoto(o, pc),
           \A e \in Drops : /\ e.pc = pc /\ e.pass = drop[o].pass /\ e.ready = drop[o].ready
                            /\ e.census = drop[o].census /\ e.rec = drop[o].rec
                            => DropCoherent(e, tenants[drop[o].t], content[drop[o].t], drop[o].t \in routed)
    PROVE  OpKeeps
<1>1. PICK e : e = [drop[o] EXCEPT !.pc = pc]
    OBVIOUS
<1>2. drop[o] \in Drops
    BY Underway
<1>3. /\ e \in Drops /\ e.pc = pc /\ e.pass = drop[o].pass /\ e.ready = drop[o].ready
      /\ e.census = drop[o].census /\ e.rec = drop[o].rec
    BY <1>1, <1>2 DEF Drops
<1>4. CallOk(e)
    BY <1>1, <1>3, GotoOk
<1>5. drop' = [drop EXCEPT ![o] = e]
    BY <1>1, DropUpdate
<1> QED BY <1>4, <1>5, WatchKeeps DEF OpKeeps

LEMMA ProofLedgerKeeps ==
    ASSUME DInv, NEW o \in Operators, ProofLedger(o)
    PROVE  OpKeeps
<1> DEFINE d == drop[o]
<1>1. /\ d.pc = "ledger" /\ Watch /\ d \in Drops
      /\ DropCoherent(d, tenants[d.t], content[d.t], d.t \in routed)
    BY Underway DEF ProofLedger, At
<1>2. CASE \E reason \in {"control_identity_unavailable", "control_database_target",
                          "ledger_collision"} : Refuse(o, reason)
    BY <1>1, <1>2, RefuseKeeps DEF OpKeeps, Anomalies
<1>3. CASE DGoto(o, IF d.pass = 1 THEN "ref" ELSE "own")
    <2>1. PICK pc \in {"ref", "own"} : pc = IF d.pass = 1 THEN "ref" ELSE "own"
        OBVIOUS
    <2>2. d.pass \in {1, 2}
        BY <1>1 DEF Drops
    <2>3. ASSUME NEW e \in Drops, e.pc = pc, e.pass = d.pass, e.ready = d.ready,
                 e.census = d.census, e.rec = d.rec
          PROVE  DropCoherent(e, tenants[d.t], content[d.t], d.t \in routed)
        BY <1>1, <2>1, <2>2, <2>3 DEF DropCoherent, Proving, Counted, ProofPcs
    <2>4. pc \in DropPcs \ {"idle"}
        BY DEF DropPcs
    <2> QED BY <1>1, <1>3, <2>1, <2>3, <2>4, GotoKeepsCall
<1> QED BY <1>2, <1>3 DEF ProofLedger

LEMMA ProofRefKeeps ==
    ASSUME DInv, NEW o \in Operators, ProofRef(o)
    PROVE  OpKeeps
<1> DEFINE d == drop[o]
<1>1. /\ d.pc = "ref" /\ Watch
      /\ DropCoherent(d, tenants[d.t], content[d.t], d.t \in routed)
    BY Underway DEF ProofRef, At
<1>2. CASE \E reason \in {"unknown_tenant", "non_canonical_association_ref"} : Refuse(o, reason)
    BY <1>1, <1>2, RefuseKeeps DEF OpKeeps, Anomalies
<1>3. CASE DGoto(o, "exists")
    BY <1>1, <1>3, GotoKeepsCall DEF DropCoherent, Proving, Counted, ProofPcs, DropPcs
<1> QED BY <1>2, <1>3 DEF ProofRef

LEMMA ExistsKeeps ==
    ASSUME DInv, NEW o \in Operators, Exists(o)
    PROVE  OpKeeps
<1> DEFINE d == drop[o]
<1>1. /\ d.pc = "exists" /\ Watch
      /\ DropCoherent(d, tenants[d.t], content[d.t], d.t \in routed)
    BY Underway DEF Exists, At
<1>2. CASE Refuse(o, "inspection_unavailable")
    BY <1>1, <1>2, RefuseKeeps DEF OpKeeps
<1>3. CASE DGoto(o, "completed")
    BY <1>1, <1>3, RestKeeps DEF RestPcs, OpKeeps
<1>4. CASE DGoto(o, "inspect")
    BY <1>1, <1>4, GotoKeepsCall DEF DropCoherent, Proving, Counted, ProofPcs, DropPcs
<1> QED BY <1>2, <1>3, <1>4 DEF Exists

LEMMA InspectKeeps ==
    ASSUME DInv, NEW o \in Operators, Inspect(o)
    PROVE  OpKeeps
<1> DEFINE d == drop[o]
<1>1. /\ d.pc = "inspect" /\ Watch
      /\ drop \in [Operators -> Drops] /\ d \in Drops /\ d.t \in Tenants
      /\ DropCoherent(d, tenants[d.t], content[d.t], d.t \in routed)
      /\ ~d.latch /\ d.sent = 0 /\ ~d.deaf
    BY Underway DEF Inspect, At
<1>2. CASE Refuse(o, "inspection_unavailable")
    BY <1>1, <1>2, RefuseKeeps DEF OpKeeps
<1>3. CASE /\ d.t \in dbs
           /\ drop' = [drop EXCEPT ![o].pc = "own", ![o].fp = Home(d.t),
                                   ![o].census = content[d.t]]
    <2>1. PICK fp \in Databases : fp = Home(d.t)
        BY <1>1, <1>3 DEF Home, DInv, DTypeInv
    <2>2. PICK c \in Contents : c = content[d.t]
        BY <1>1 DEF DInv, DTypeInv
    <2>3. PICK e : e = [d EXCEPT !.pc = "own", !.fp = fp, !.census = c]
        OBVIOUS
    <2>4. drop' = [drop EXCEPT ![o] = e]
        BY <1>1, <1>3, <2>1, <2>2, <2>3
    <2>5. /\ e.pc = "own" /\ e.t = d.t /\ e.pass = d.pass
          /\ e.census = c /\ e.ready = d.ready
        BY <1>1, <2>1, <2>2, <2>3 DEF Drops
    <2>6. e.latch = d.latch /\ e.sent = d.sent /\ e.deaf = d.deaf
        BY <1>1, <2>1, <2>2, <2>3 DEF Drops
    <2>7. e \in Drops
        <3>1. "own" \in DropPcs
            BY DEF DropPcs
        <3> QED BY <1>1, <2>1, <2>2, <2>3, <3>1, DropEdits
    <2>8. ~e.latch /\ e.sent = 0 /\ ~e.deaf
        BY <1>1, <2>6
    <2>9. DropCoherent(e, tenants[d.t], content[d.t], d.t \in routed)
        BY <1>1, <2>2, <2>5, <2>7, <2>8 DEF DropCoherent, Proving, Counted, ProofPcs
    <2>10. CallOk(e)
        BY <1>1, <2>5, <2>7, <2>8, <2>9 DEF CallOk, TerminalOk
    <2> QED BY <1>1, <2>4, <2>10, WatchKeeps DEF OpKeeps
<1> QED BY <1>2, <1>3 DEF Inspect

\* The second proof begins on a census that found nothing to lose.
LEMMA OwnKeeps ==
    ASSUME DInv, NEW o \in Operators, Own(o)
    PROVE  OpKeeps
<1> DEFINE d == drop[o]
<1>1. /\ d.pc = "own" /\ Watch
      /\ drop \in [Operators -> Drops] /\ d \in Drops /\ d.t \in Tenants
      /\ DropCoherent(d, tenants[d.t], content[d.t], d.t \in routed)
      /\ ~d.latch /\ d.sent = 0 /\ ~d.deaf
    BY Underway DEF Own, At
<1>2. CASE Refuse(o, "fingerprint_mismatch") \/ Refuse(o, "content_not_empty")
    BY <1>1, <1>2, RefuseKeeps DEF OpKeeps, Anomalies
<1>3. CASE /\ Verdict(d.census) # "non_empty"
           /\ drop' = [drop EXCEPT ![o].pc = "registry", ![o].pass = 2]
    <2>1. ~HoldsData(d.census)
        BY <1>1, <1>3, DataIsSeen DEF Drops
    <2>2. PICK e : e = [d EXCEPT !.pc = "registry", !.pass = 2]
        OBVIOUS
    <2>3. drop' = [drop EXCEPT ![o] = e]
        BY <1>1, <1>3, <2>2
    <2>4. /\ e \in Drops /\ e.pc = "registry" /\ e.t = d.t /\ e.pass = 2
          /\ e.census = d.census /\ e.ready = d.ready
          /\ ~e.latch /\ e.sent = 0 /\ ~e.deaf
        <3>1. "registry" \in DropPcs
            BY DEF DropPcs
        <3>2. e \in Drops
            BY <1>1, <2>2, <3>1, DropEdits
        <3> QED BY <1>1, <2>2, <3>2 DEF Drops
    <2>5. DropCoherent(e, tenants[d.t], content[d.t], d.t \in routed)
        BY <1>1, <2>1, <2>4 DEF DropCoherent, Proving, Counted, ProofPcs
    <2>6. CallOk(e)
        BY <1>1, <2>4, <2>5 DEF CallOk, TerminalOk
    <2> QED BY <1>1, <2>3, <2>6, WatchKeeps DEF OpKeeps
<1>4. CASE d.pass = 2 /\ DGoto(o, "drop")
    <2>1. PICK pc \in DropPcs \ {"idle"} : pc = "drop"
        BY DEF DropPcs
    <2>2. ASSUME NEW e \in Drops, e.pc = pc, e.pass = d.pass, e.ready = d.ready,
                 e.census = d.census, e.rec = d.rec
          PROVE  DropCoherent(e, tenants[d.t], content[d.t], d.t \in routed)
        BY <1>1, <1>4, <2>1, <2>2 DEF DropCoherent, Proving, Counted, ProofPcs
    <2>3. d.pc # "idle" /\ d.pc # "raised" /\ Watch /\ DGoto(o, pc)
        BY <1>1, <1>4, <2>1
    <2> QED BY <2>2, <2>3, GotoKeepsCall
<1> QED BY <1>2, <1>3, <1>4 DEF Own

\* Whatever becomes of the DROP, a database that is gone holds nothing.
LEMMA DropDatabaseKeeps ==
    ASSUME DInv, NEW o \in Operators, DropDatabase(o)
    PROVE  OpKeeps
<1> DEFINE d == drop[o]
<1>1. /\ d.pc = "drop" /\ drop \in [Operators -> Drops] /\ d \in Drops /\ d.t \in Tenants
      /\ UNCHANGED <<tenants, ledger, trail, anomalies, verified, unpaired, job, ops,
                   routed, filed, asked>>
    BY Underway DEF DropDatabase, At
<1>2. CASE UNCHANGED <<dbs, content, inc>> /\ Refuse(o, "deprovision_failed")
    BY <1>1, <1>2, RefuseKeeps DEF Watch, vars, OpKeeps
<1>3. CASE Deprovision(d.t) /\ (DGoto(o, "completed") \/ Refuse(o, "deprovision_failed"))
    <2>1. /\ dbs' = dbs \ {d.t} /\ content' = [content EXCEPT ![d.t] = NewContent]
          /\ inc' = IF d.t \in dbs THEN [inc EXCEPT ![d.t] = inc[d.t] + 1] ELSE inc
          /\ content \in [Tenants -> Contents] /\ inc \in [Tenants -> Nat \ {0}]
          /\ NewContent \in Contents /\ PlatformContent(NewContent) /\ ~HoldsData(NewContent)
        BY <1>1, <1>3, ContentMoves DEF Deprovision, DInv, DTypeInv
    <2>2. PICK e : /\ e \in {[d EXCEPT !.pc = "completed"],
                             [d EXCEPT !.pc = "fail", !.reason = "deprovision_failed"]}
                   /\ drop' = [drop EXCEPT ![o] = e]
        BY <1>3, DropUpdate
    <2>3. CallOk(e) /\ e.pc \in RestPcs
        <3>1. CallOk([d EXCEPT !.pc = "completed"])
            BY <1>1, RestOk DEF RestPcs
        <3>2. CallOk([d EXCEPT !.pc = "fail", !.reason = "deprovision_failed"])
            BY <1>1, RestOk DEF RestPcs
        <3>3. CallOk(e)
            BY <2>2, <3>1, <3>2
        <3> QED BY <1>1, <2>2, <3>3 DEF RestPcs, Drops
    <2>4. /\ content' \in [Tenants -> Contents] /\ ContentInv'
          /\ \A t \in Tenants : HoldsData(content'[t]) => HoldsData(content[t])
        BY <2>1 DEF DInv, ContentInv
    <2>5. inc' \in [Tenants -> Nat \ {0}] /\ \A t \in dbs' : inc'[t] \in DOMAIN Homes[t]
        BY <1>1, <2>1 DEF DInv, DTypeInv, IInv, TypeOK
    <2>6. IInv' /\ LedgerInv' /\ UNCHANGED LC!vars
        BY <1>1, <2>1 DEF DInv, IInv, TypeOK, SnapshotsCoherent, JobCoherent, Coherent,
           TrailMatchesState, ReadyIsVerified, AnomalyHolds, LedgerInv, LC!vars
    <2>7. \A p \in Operators : drop'[p] = IF p = o THEN e ELSE drop[p]
        BY <1>1, <2>2
    <2>8. drop' \in [Operators -> Drops] /\ \A p \in Operators : CallOk(drop'[p])
        BY <1>1, <2>2, <2>3, <2>7, CallsOk DEF CallOk
    <2>9. ASSUME NEW p \in Operators, drop'[p].pc # "idle"
          PROVE  DropCoherent(drop'[p], tenants[drop'[p].t], content'[drop'[p].t], drop'[p].t \in routed)
        <3>1. /\ drop'[p].t \in Tenants
              /\ DropCoherent(drop'[p], tenants[drop'[p].t], content[drop'[p].t], drop'[p].t \in routed)
            BY <2>8, <2>9 DEF CallOk
        <3> QED BY <2>4, <3>1 DEF DropCoherent
    <2>10. DTypeInv' /\ TerminalInv' /\ IdleInv' /\ CallInv'
        BY <1>1, <2>4, <2>5, <2>8, <2>9
           DEF DInv, DTypeInv, TerminalInv, OneTerminal, IdleInv, CallInv, CallOk
    <2> QED BY <2>4, <2>6, <2>10 DEF DInv, OpKeeps
<1> QED BY <1>2, <1>3 DEF DropDatabase

LEMMA FailReadKeeps ==
    ASSUME DInv, NEW o \in Operators, FailRead(o) \/ QuarantineEvent(o) \/ PortRaises(o)
    PROVE  OpKeeps
<1>1. drop[o].pc \notin {"idle", "raised"} /\ Watch
    BY DEF FailRead, QuarantineEvent, PortRaises, QuarantineLost, At
<1>2. \E pc \in RestPcs : DGoto(o, pc)
    BY DEF FailRead, QuarantineEvent, PortRaises, RestPcs
<1> QED BY <1>1, <1>2, RestKeeps DEF OpKeeps

LEMMA QuarantineReadKeeps ==
    ASSUME DInv, NEW o \in Operators, QuarantineRead(o)
    PROVE  OpKeeps
<1> DEFINE d == drop[o]
<1>1. /\ d.pc = "qRead" /\ Watch
      /\ drop \in [Operators -> Drops] /\ d \in Drops /\ d.t \in Tenants
      /\ ~d.latch /\ d.sent = 0 /\ ~d.deaf /\ tenants \in [Tenants -> Rows]
    BY Underway DEF QuarantineRead, At, DInv, IInv, TypeOK
<1>2. CASE DGoto(o, "qEvent")
    BY <1>1, <1>2, RestKeeps DEF RestPcs, OpKeeps
<1>3. CASE /\ tenants[d.t].state \in AllowedFrom["Quarantined"]
           /\ drop' = [drop EXCEPT ![o].pc = "qCas", ![o].rec = tenants[d.t]]
    <2>1. PICK rec \in Rows : rec = tenants[d.t]
        BY <1>1
    <2>2. PICK e : e = [d EXCEPT !.pc = "qCas", !.rec = rec]
        OBVIOUS
    <2>3. drop' = [drop EXCEPT ![o] = e]
        BY <1>1, <1>3, <2>1, <2>2
    <2>4. /\ e \in Drops /\ e.pc = "qCas" /\ e.t = d.t /\ e.rec = rec
          /\ ~e.latch /\ e.sent = 0 /\ ~e.deaf
        <3>1. "qCas" \in DropPcs
            BY DEF DropPcs
        <3>2. e \in Drops
            BY <1>1, <2>2, <3>1, DropEdits
        <3> QED BY <1>1, <2>2, <3>2 DEF Drops
    <2>5. Coherent(rec, tenants[d.t])
        BY <1>1, <1>3, <2>1, ReadCoherent DEF AllowedFrom, Absent, LC!Absent, DInv
    <2>6. DropCoherent(e, tenants[d.t], content[d.t], d.t \in routed)
        BY <1>3, <2>1, <2>4, <2>5 DEF DropCoherent, Proving, Counted, ProofPcs
    <2>7. CallOk(e)
        BY <1>1, <2>4, <2>6 DEF CallOk, TerminalOk
    <2> QED BY <1>1, <2>3, <2>7, WatchKeeps DEF OpKeeps
<1> QED BY <1>2, <1>3 DEF QuarantineRead

LEMMA FileTerminalKeeps ==
    ASSUME DInv, NEW o \in Operators, FileTerminal(o)
    PROVE  OpKeeps
<1> DEFINE d == drop[o]
<1>1. /\ d.pc \in {"completed", "failed"}
      /\ drop \in [Operators -> Drops] /\ d \in Drops /\ d.t \in Tenants
      /\ ~d.latch /\ d.sent = 0 /\ ~d.deaf /\ UNCHANGED <<vars, content, routed, inc, asked>>
    BY Underway DEF FileTerminal, At
<1>2. CASE End(o, d.sent + 1, d.deaf)
    <2>1. d.deaf = FALSE
        BY <1>1 DEF Drops
    <2>2. d.sent + 1 = 1
        BY <1>1
    <2>3. <<d.sent + 1, d.deaf>> \in {<<1, FALSE>>, <<0, TRUE>>, <<1, TRUE>>}
        BY <2>1, <2>2
    <2> QED BY <1>1, <1>2, <2>3, EndKeeps
<1>3. CASE /\ \E n \in {0, 1} : drop' = [drop EXCEPT ![o].pc = "raised", ![o].latch = TRUE,
                                                     ![o].sent = n, ![o].deaf = TRUE]
           /\ UNCHANGED filed
    <2>1. PICK n \in {0, 1} : drop' = [drop EXCEPT ![o].pc = "raised", ![o].latch = TRUE,
                                                   ![o].sent = n, ![o].deaf = TRUE]
        BY <1>3
    <2>2. PICK e : e = [d EXCEPT !.pc = "raised", !.latch = TRUE, !.sent = n, !.deaf = TRUE]
        OBVIOUS
    <2>3. drop' = [drop EXCEPT ![o] = e]
        BY <1>1, <2>1, <2>2
    <2>4. e \in Drops /\ e.pc = "raised" /\ e.t = d.t /\ e.latch /\ e.deaf
        <3>1. "raised" \in DropPcs
            BY DEF DropPcs
        <3>2. e \in Drops
            BY <1>1, <2>2, <3>1, DropEdits
        <3> QED BY <1>1, <2>2, <3>2 DEF Drops
    <2>5. CallOk(e)
        BY <1>1, <2>4, RestCoherent DEF CallOk, TerminalOk, RestPcs
    <2> QED BY <1>1, <1>3, <2>3, <2>5, WatchKeeps DEF Watch, OpKeeps
<1> QED BY <1>2, <1>3 DEF FileTerminal

LEMMA ReraiseKeeps ==
    ASSUME DInv, NEW o \in Operators, Reraise(o)
    PROVE  OpKeeps
<1> DEFINE d == drop[o]
<1>1. d \in Drops /\ TerminalOk(d) /\ UNCHANGED <<vars, content, routed, inc, asked>>
    BY CallsOk DEF CallOk, Reraise
<1>2. CASE d.latch /\ End(o, d.sent, d.deaf)
    <2>1. d.deaf = TRUE /\ d.sent \in {0, 1}
        BY <1>1, <1>2 DEF TerminalOk, Drops
    <2> QED BY <1>1, <1>2, <2>1, EndKeeps
<1>3. CASE ~d.latch /\ End(o, d.sent + 1, d.deaf)
    <2>1. d.deaf = FALSE /\ d.sent = 0
        BY <1>1, <1>3 DEF TerminalOk, Drops
    <2>2. d.sent + 1 = 1
        BY <2>1
    <2>3. <<d.sent + 1, d.deaf>> \in {<<1, FALSE>>, <<0, TRUE>>, <<1, TRUE>>}
        BY <2>1, <2>2
    <2> QED BY <1>1, <1>3, <2>3, EndKeeps
<1>4. CASE ~d.latch /\ \E n \in {0, 1} : End(o, d.sent + n, TRUE)
    <2>1. d.sent = 0
        BY <1>1, <1>4 DEF TerminalOk
    <2>2. PICK n \in {0, 1} : End(o, d.sent + n, TRUE)
        BY <1>4
    <2>3. d.sent + n = n
        BY <2>1
    <2>4. <<d.sent + n, TRUE>> \in {<<1, FALSE>>, <<0, TRUE>>, <<1, TRUE>>}
        BY <2>3
    <2> QED BY <1>1, <2>2, <2>4, EndKeeps
<1> QED BY <1>2, <1>3, <1>4 DEF Reraise

LEMMA OperatorDiesKeeps ==
    ASSUME DInv, NEW o \in Operators, OperatorDies(o)
    PROVE  OpKeeps
<1>1. CallOk(NoDrop)
    BY ContentMoves DEF NoDrop, CallOk, Drops, DropPcs, TerminalOk, NoRow, Rows, States, Absent,
           LC!States, LC!Absent
<1> QED BY <1>1, WatchKeeps DEF OperatorDies, OpKeeps

(***************************************************************************)
(* The quarantine of _fail finds its version: the snapshot is the row, so  *)
(* it takes an edge of the contract and every other snapshot becomes old.  *)
(***************************************************************************)
LEMMA QuarantineCasKeeps ==
    ASSUME DInv, NEW o \in Operators, QuarantineCas(o)
    PROVE  OpKeeps
<1> DEFINE d == drop[o]
<1>0. PICK t \in Tenants : t = d.t
    BY Underway DEF QuarantineCas, At
<1>1. /\ d.pc = "qCas" /\ drop \in [Operators -> Drops] /\ d \in Drops
      /\ DropCoherent(d, tenants[t], content[t], t \in routed)
      /\ tenants \in [Tenants -> Rows]
    BY <1>0, Underway DEF QuarantineCas, At, DInv, IInv, TypeOK
<1>2. /\ d.rec = tenants[t] /\ tenants[t].state \in {"Provisioning", "Failed"}
    BY <1>0, <1>1 DEF QuarantineCas, DropCoherent, Coherent, AllowedFrom
<1>3. PICK row : row = [tenants[t] EXCEPT !.state = "Quarantined", !.version = @ + 1]
    OBVIOUS
<1>4. /\ row \in Rows /\ row.state = "Quarantined" /\ row.assoc = tenants[t].assoc
      /\ row.version = tenants[t].version + 1
    <2>1. PICK r \in Rows : r = tenants[t]
        BY <1>1
    <2>2. r.version + 1 \in Nat /\ "Quarantined" \in States
        BY <2>1 DEF Rows, States, LC!States
    <2>3. row = [r EXCEPT !.state = "Quarantined", !.version = r.version + 1]
        BY <1>3, <2>1
    <2> QED BY <2>1, <2>2, <2>3 DEF Rows
<1>5. /\ tenants' = [tenants EXCEPT ![t] = row]
      /\ trail' = [trail EXCEPT ![t] = [from |-> tenants[t].state, to |-> "Quarantined"]]
      /\ DGoto(o, "qEvent")
      /\ UNCHANGED <<ledger, anomalies, dbs, verified, unpaired, job, ops,
                   content, routed, inc, filed, asked>>
    BY <1>0, <1>2, <1>3 DEF QuarantineCas
<1>6. row.state # Absent /\ tenants[t].state # Absent /\ "Quarantined" \in States
    BY <1>2, <1>4 DEF Absent, LC!Absent, States, LC!States
<1>7. TypeOK'
    <2>1. tenants' \in [Tenants -> Rows]
        BY <1>1, <1>4, <1>5
    <2>2. trail' \in [Tenants -> [from : States \cup {Absent}, to : States \cup {Absent}]]
        BY <1>1, <1>5, <1>6 DEF DInv, IInv, TypeOK, Rows
    <2> QED BY <2>1, <2>2, <1>5 DEF DInv, IInv, TypeOK
<1>8. SnapshotsCoherent'
    <2>1. SUFFICES ASSUME NEW v \in Workers PROVE JobCoherent(v, job[v], tenants', trail')
        BY <1>5 DEF SnapshotsCoherent
    <2>2. JobCoherent(v, job[v], tenants, trail) /\ job[v] \in Jobs
        BY DEF DInv, IInv, SnapshotsCoherent, TypeOK
    <2>3. CASE job[v].t # t \/ job[v].pc = "idle"
        BY <2>2, <2>3, <1>1, <1>5 DEF JobCoherent, DInv, IInv, TypeOK, SnapshotPcs, GatePcs
    <2>4. CASE job[v].t = t /\ job[v].pc # "idle"
        <3>1. tenants'[t] = row /\ tenants[t].version \in Nat /\ job[v].rec.version \in Nat
            BY <2>2, <1>1, <1>5 DEF Jobs, Rows
        <3>2. job[v].pc \in SnapshotPcs => Coherent(job[v].rec, row)
            BY <3>1, <2>2, <2>4, <1>4, <1>6 DEF JobCoherent, Coherent
        <3>3. job[v].pc \notin {"regAudit", "regPut"}
            BY <2>2, <2>4, <1>6 DEF JobCoherent
        <3> QED
            BY <3>1, <3>2, <3>3, <2>2, <2>4, <1>4 DEF JobCoherent
    <2> QED BY <2>3, <2>4
<1>9. TrailMatchesState'
    BY <1>1, <1>4, <1>5 DEF DInv, IInv, TrailMatchesState, TypeOK
<1>10. ReadyIsVerified' /\ AnomalyHolds'
    BY <1>1, <1>4, <1>5 DEF DInv, IInv, ReadyIsVerified, AnomalyHolds
<1>11. LC!Next
    <2>1. [u \in Tenants |-> tenants'[u].state]
            = [[u \in Tenants |-> tenants[u].state] EXCEPT ![t] = "Quarantined"]
        BY <1>1, <1>4, <1>5
    <2>2. <<tenants[t].state, "Quarantined">> \in LC!Edges
        BY <1>2 DEF LC!Edges
    <2>3. LC!Transition(t)
        BY <2>1, <2>2, <1>5, <1>6 DEF LC!Transition, States
    <2> QED BY <2>3, ContractStep
<1>12. PICK e : e = [d EXCEPT !.pc = "qEvent"]
    OBVIOUS
<1>13. CallOk(e) /\ drop' = [drop EXCEPT ![o] = e]
    BY <1>1, <1>5, <1>12, RestOk, DropUpdate DEF RestPcs
<1>14. e.pc = "qEvent" /\ e.t = t
    BY <1>0, <1>1, <1>12 DEF Drops
<1>15. \A p \in Operators : drop'[p] = IF p = o THEN e ELSE drop[p]
    BY <1>1, <1>13
<1>16. drop' \in [Operators -> Drops] /\ \A p \in Operators : CallOk(drop'[p])
    BY <1>1, <1>13, <1>15, CallsOk DEF CallOk
<1>17. ASSUME NEW p \in Operators, drop'[p].pc # "idle"
       PROVE  DropCoherent(drop'[p], tenants'[drop'[p].t], content[drop'[p].t], drop'[p].t \in routed)
    <2>1. /\ drop'[p].t \in Tenants /\ drop'[p] \in Drops
          /\ DropCoherent(drop'[p], tenants[drop'[p].t], content[drop'[p].t], drop'[p].t \in routed)
        BY <1>16, <1>17 DEF CallOk
    <2>2. CASE drop'[p].t # t
        BY <2>1, <2>2, <1>1, <1>5
    <2>3. CASE drop'[p].t = t
        <3>1. tenants'[t] = row /\ tenants[t].version \in Nat /\ drop'[p].rec.version \in Nat
            BY <2>1, <1>1, <1>5 DEF Drops, Rows
        <3>2. drop'[p].pc = "qCas" => Coherent(drop'[p].rec, row)
            BY <3>1, <2>1, <2>3, <1>4, <1>6 DEF DropCoherent, Coherent
        <3> QED BY <3>1, <3>2, <2>1, <2>3, <1>4 DEF DropCoherent
    <2> QED BY <2>2, <2>3
<1>18. DTypeInv' /\ TerminalInv' /\ IdleInv' /\ CallInv'
    BY <1>5, <1>16, <1>17 DEF DInv, DTypeInv, TerminalInv, OneTerminal, IdleInv, CallInv, CallOk
<1>19. LedgerInv' /\ ContentInv'
    BY <1>5 DEF DInv, LedgerInv, ContentInv
<1> QED
    BY <1>7, <1>8, <1>9, <1>10, <1>11, <1>18, <1>19 DEF DInv, IInv, OpKeeps

-----------------------------------------------------------------------------
LEMMA DInitInv == DInit => DInv /\ LC!Init
<1> SUFFICES ASSUME DInit PROVE DInv /\ LC!Init
    OBVIOUS
<1>1. Init
    BY DEF DInit
<1>2. IInv /\ LC!Init
    BY <1>1, InitInv
<1>3. content \in [Tenants -> Contents] /\ ContentInv
    BY ContentMoves DEF DInit, ContentInv
<1>4. \A o \in Operators : drop[o] = NoDrop
    BY DEF DInit
<1>5. NoDrop \in Drops /\ NoDrop.pc = "idle" /\ TerminalOk(NoDrop)
    BY ContentMoves DEF NoDrop, Drops, DropPcs, TerminalOk, NoRow, Rows, States, Absent,
           LC!States, LC!Absent
<1>6. \A t \in Tenants : inc[t] \in DOMAIN Homes[t]
    <2>1. ASSUME NEW t \in Tenants
          PROVE  1 \in DOMAIN Homes[t]
        <3>1. Homes[t] \in Seq(Databases) /\ Homes[t] # <<>>
            BY DeprovisionAssumption
        <3>2. Len(Homes[t]) \in Nat /\ Len(Homes[t]) # 0 /\ DOMAIN Homes[t] = 1 .. Len(Homes[t])
            BY <3>1, EmptySeq, LenProperties
        <3> QED BY <3>2
    <2> QED BY <2>1 DEF DInit
<1>7. dbs \subseteq Tenants
    BY <1>2 DEF IInv, TypeOK
<1>8. DTypeInv
    BY <1>3, <1>4, <1>5, <1>6, <1>7 DEF DInit, DTypeInv
<1>9. TerminalInv /\ IdleInv /\ CallInv
    BY <1>4, <1>5 DEF DInit, TerminalInv, OneTerminal, IdleInv, CallInv
<1>10. LedgerInv
    BY <1>1 DEF Init, LedgerInv
<1> QED BY <1>2, <1>3, <1>8, <1>9, <1>10 DEF DInv

LEMMA DNextKeeps ==
    ASSUME DInv, SingleRegistrar, [DNext]_allvars
    PROVE  DInv' /\ [LC!Next]_(LC!vars)
<1>1. CASE UNCHANGED allvars
    BY <1>1 DEF allvars, vars, dvars, DInv, IInv, TypeOK, SnapshotsCoherent, JobCoherent,
        Coherent, TrailMatchesState, ReadyIsVerified, AnomalyHolds, DTypeInv, TerminalInv,
        OneTerminal, ContentInv, LedgerInv, IdleInv, CallInv, LC!vars
<1>2. CASE \E w \in Workers : LifecycleStep(w)
    BY <1>2, LifecycleStepKeeps
<1>3. CASE \E t \in Tenants : Use(t) \/ ViewExpires(t)
    BY <1>3, UseKeeps, ViewExpiresKeeps
<1>4. CASE \E o \in Operators : OperatorStep(o)
    BY <1>4, RequestKeeps, ProofRegistryKeeps, ProofLedgerKeeps, ProofRefKeeps, ExistsKeeps,
       InspectKeeps, OwnKeeps, DropDatabaseKeeps, FailReadKeeps, QuarantineReadKeeps,
       QuarantineCasKeeps, FileTerminalKeeps, ReraiseKeeps, OperatorDiesKeeps
       DEF OperatorStep, OpKeeps
<1> QED BY <1>1, <1>2, <1>3, <1>4 DEF DNext

(***************************************************************************)
(* The inductive invariant of de-provisioning beside the lifecycle holds   *)
(* in every reachable state, with any number of operators, workers and     *)
(* incarnations of a database, and with crashes and raising ports anywhere.*)
(***************************************************************************)
THEOREM DropInvariance ==
    ASSUME SingleRegistrar
    PROVE  DSpec => []DInv
<1>1. DInit => DInv
    BY DInitInv
<1>2. DInv /\ [DNext]_allvars => DInv'
    BY DNextKeeps
<1> QED BY <1>1, <1>2, PTL DEF DSpec

(***************************************************************************)
(* Every deprovision call that ends has left one terminal record in the    *)
(* trail, and at most one where the sink itself raised.                    *)
(***************************************************************************)
THEOREM CallsAreTold ==
    ASSUME SingleRegistrar
    PROVE  DSpec => []OneTerminal
<1>1. DInv => OneTerminal
    BY DEF DInv, TerminalInv
<1> QED BY <1>1, DropInvariance, PTL

(***************************************************************************)
(* The census refuses every content that holds more than the platform      *)
(* wrote, and accepts what onboarding, the verifier and their crashes      *)
(* leave in a database.                                                    *)
(***************************************************************************)
THEOREM SoundCensus ==
    ASSUME SingleRegistrar
    PROVE  DSpec => []CensusIsSound
<1>1. DInv => CensusIsSound
    BY CensusFollows DEF DInv, DTypeInv
<1> QED BY <1>1, DropInvariance, PTL

(***************************************************************************)
(* What ScanForOrphans calls safe to de-provision is what an undisturbed   *)
(* call would drop, in every state of registry, ledger and cluster.        *)
(***************************************************************************)
THEOREM ReportIsTrue ==
    ASSUME SingleRegistrar
    PROVE  DSpec => []ReportAgrees
<1>1. DInv => ReportAgrees
    BY ReportFollows DEF DInv, IInv, TypeOK
<1> QED BY <1>1, DropInvariance, PTL

(***************************************************************************)
(* Tenant data is dropped only of a tenant that was made Ready while the   *)
(* call was running or still routed to when it began: what was there       *)
(* before is what its census counted.                                      *)
(***************************************************************************)
THEOREM DataSurvives ==
    ASSUME SingleRegistrar
    PROVE  DSpec => DataOutlivesCalls
<1> DEFINE Kept == \A o \in Operators :
                LET t == drop[o].t IN
                (At(o, "drop") /\ t \in dbs \ dbs' /\ HoldsData(content[t])) =>
                    drop[o].ready # "no"
<1>1. DInv => Kept
    <2> SUFFICES ASSUME DInv, NEW o \in Operators, At(o, "drop"),
                        HoldsData(content[drop[o].t]), drop[o].ready = "no"
                 PROVE  FALSE
        OBVIOUS
    <2>1. DropCoherent(drop[o], tenants[drop[o].t], content[drop[o].t], drop[o].t \in routed) /\ drop[o].pc = "drop"
        BY Underway DEF At
    <2> QED BY <2>1 DEF DropCoherent, Counted, Proving, ProofPcs
<1>2. DInv => [Kept]_allvars
    BY <1>1
<1> QED BY <1>2, DropInvariance, PTL DEF DataOutlivesCalls

(***************************************************************************)
(* The lifecycle implements its contract with de-provisioning beside it:   *)
(* the quarantine of a refused call is one of the contract's edges.        *)
(***************************************************************************)
THEOREM RefinementWithDrops ==
    ASSUME SingleRegistrar
    PROVE  DSpec => ImplementsContract
<1>1. DInit => LC!Init
    BY DInitInv
<1>2. DInv /\ [DNext]_allvars => [LC!Next]_(LC!vars)
    BY DNextKeeps
<1> QED BY <1>1, <1>2, DropInvariance, PTL DEF DSpec, ImplementsContract, LC!Spec
=============================================================================
