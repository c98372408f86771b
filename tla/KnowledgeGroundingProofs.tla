---------------------- MODULE KnowledgeGroundingProofs ----------------------
(***************************************************************************)
(* Proofs about KnowledgeGrounding, for every finite set of requests: its  *)
(* commands are write commands, a recorded package version is one the      *)
(* package had, and every opportunity traces back to a committed package.  *)
(***************************************************************************)
EXTENDS KnowledgeGrounding, WriteCommandProofs

\* A step of the grounding is a step of the write command, or leaves it alone.
LEMMA GroundingStepsLedger == [Next]_vars => [LedgerNext]_ledgerVars
<1> SUFFICES ASSUME [Next]_vars PROVE [LedgerNext]_ledgerVars
  OBVIOUS
<1>1. CASE UNCHANGED vars
  BY <1>1 DEF vars
<1>2. ASSUME NEW r \in Request, Step(r) \/ Abort(r) PROVE [LedgerNext]_ledgerVars
  <2>1. CASE Route(r)
    <3>1. Refuse(r) \/ BeforePerform(r)
      BY <2>1 DEF Route
    <3> QED BY <3>1 DEF LedgerNext, Progress, BeforePerform
  <2>2. CASE Abort(r)
    BY <2>2 DEF Abort, LedgerNext
  <2>3. CASE CreatePackage(r) \/ ConfirmPackage(r) \/ CreateIndustryProfile(r) \/ InsertMap(r)
               \/ InsertOpportunity(r)
    <3>1. Perform(r) \/ Abort(r)
      BY <2>3 DEF CreatePackage, ConfirmPackage, UpdateConfirmed, CreateIndustryProfile,
         InsertProfile, InsertMap, InsertOpportunity
    <3> QED BY <2>2, <3>1 DEF LedgerNext, Progress
  <2>4. CASE ReadSource(r) \/ ReadMap(r) \/ ReadGrounding(r)
    <3>1. UNCHANGED ledgerVars \/ Abort(r)
      BY <2>4 DEF ReadSource, ReadMap, ReadGrounding, ReadPackage
    <3> QED BY <2>2, <3>1
  <2>5. CASE AppendAudit(r) \/ Commit(r) \/ CommitUnacknowledged(r)
    BY <2>5 DEF LedgerNext, Progress, AfterPerform
  <2> QED BY <1>2, <2>1, <2>2, <2>3, <2>4, <2>5 DEF Step
<1> QED BY <1>1, <1>2 DEF Next, vars

\* The commands of the grounding implement the write command: atomic with their
\* events, retried safely, answered truly.
THEOREM GroundingIsWriteCommand == Spec => LedgerSafety
<1>1. Init => LedgerInit
  BY DEF Init
<1> QED BY <1>1, GroundingStepsLedger, PTL DEF Spec, LedgerSafety

-----------------------------------------------------------------------------
\* created_at: the packages are those of the commands, at the time these began; a
\* transaction that is open began no earlier than a committed package did, unless
\* the two were open together.
BeganByClock == \A r \in Request : began[r] <= clock
PackageCommands == {q \in rows : q.kind = "package"}
PackagesAreRows == packages = {NewPackage(q) : q \in PackageCommands}
OpenCameLater ==
  \A r \in Request, p \in packages : InTx(r) => Raced(r, p.req) \/ p.at <= began[r]
Dated ==
  BeganByClock /\ IsFiniteSet(packages) /\ PackagesAreRows /\ OpenCameLater

\* A version that the package with this id has had.
HadVersion(recorded, id) == \E p \in Packages(id) : Explained(recorded, p)

\* The profile: who holds the uncommitted one is alone, and there is none yet.
OneProfile ==
  /\ \A f, g \in profiles : f = g
  /\ \A r, s \in Request : Holds(r, "profile") /\ Holds(s, "profile") => r = s /\ profiles = {}

ConfirmsKnowPackage ==
  \A r \in Request : r.kind = "confirm" /\ pc[r] \notin {"unsent", "answered"} =>
    Packages(r.package) # {}
ConfirmedAreRows == \A c \in confirmed : c \in rows /\ Packages(c.package) # {}

\* What the transaction of a map or of an opportunity has read.
Writing(r) == pc[r] \in {"performed", "audited"}
MapReads(r) ==
  r.kind = "map" =>
    /\ version[r] # Unread => r.profile \in profiles /\ HadVersion(version[r], r.package)
    /\ Writing(r) => version[r] # Unread
OpportunityReads(r) ==
  r.kind = "opportunity" =>
    /\ \A m, n \in found[r] : m = n
    /\ version[r] # Unread => found[r] # {} /\ \A m \in found[r] :
         m.version <= version[r] /\ HadVersion(version[r], m.req.package)
    /\ Writing(r) => version[r] # Unread /\ \A m \in found[r] : Covers(m, r.keyword)
ReadsStand ==
  \A r \in Request : found[r] \subseteq maps /\ MapReads(r) /\ OpportunityReads(r)

\* What they have committed.
MapStands(m) ==
  m.req \in rows /\ m.req.profile \in profiles /\ HadVersion(m.version, m.req.package)
MapsStand ==
  /\ \A m \in maps : MapStands(m)
  /\ \A m, n \in maps : m.req = n.req => m = n
OpportunityStands(o) ==
  /\ o.req \in rows /\ o.map \in maps
  /\ Covers(o.map, o.req.keyword)
  /\ o.map.version <= o.version /\ HadVersion(o.version, o.map.req.package)
OpportunitiesStand ==
  /\ \A o \in opportunities : OpportunityStands(o)
  /\ \A o, n \in opportunities : o.req = n.req => o = n
  /\ validations = {NewValidation(o.req, o.map) : o \in opportunities}

GroundingInv ==
  /\ LedgerInv
  /\ TypeOK
  /\ Dated
  /\ OneProfile
  /\ ConfirmsKnowPackage
  /\ ConfirmedAreRows
  /\ ReadsStand
  /\ MapsStand
  /\ OpportunitiesStand

LEMMA InitGrounding == Init => GroundingInv
<1> SUFFICES ASSUME Init PROVE GroundingInv
  OBVIOUS
<1>1. LedgerInv
  BY InitLedger DEF Init
<1>2. TypeOK
  BY <1>1 DEF Init, LedgerInv, TypeOK, ProfileIds, Unread
<1>3. Dated
  BY FS_EmptySet DEF Init, LedgerInit, Dated, BeganByClock, PackagesAreRows, PackageCommands,
     OpenCameLater
<1>4. \A r \in Request : pc[r] = "unsent" /\ found[r] = {} /\ version[r] = Unread
  BY DEF Init, LedgerInit
<1>5. OneProfile
  <2>1. \A r \in Request : ~Holds(r, "profile")
    BY <1>4 DEF Holds
  <2>2. \A g, h \in profiles : g = h
    BY GroundingAssumption DEF Init
  <2> QED BY <2>1, <2>2 DEF OneProfile
<1>6. ConfirmsKnowPackage /\ ConfirmedAreRows
  BY <1>4 DEF Init, ConfirmsKnowPackage, ConfirmedAreRows
<1>7. ReadsStand
  BY <1>4 DEF ReadsStand, MapReads, OpportunityReads, Writing
<1>8. MapsStand /\ OpportunitiesStand
  BY DEF Init, MapsStand, OpportunitiesStand
<1> QED BY <1>1, <1>2, <1>3, <1>5, <1>6, <1>7, <1>8 DEF GroundingInv

-----------------------------------------------------------------------------
\* The places of the packages.
LEMMA PackageIsUnique ==
  ASSUME GroundingInv, NEW p \in packages, NEW q \in packages, p.req.id = q.req.id
  PROVE  p = q
<1>1. PICK a \in PackageCommands : p = NewPackage(a)
  BY DEF GroundingInv, Dated, PackagesAreRows
<1>2. PICK b \in PackageCommands : q = NewPackage(b)
  BY DEF GroundingInv, Dated, PackagesAreRows
<1>3. a \in Request /\ b \in Request
  BY DEF PackageCommands, GroundingInv, LedgerInv, LedgerTypeOK
<1>4. a.id = b.id
  BY <1>1, <1>2 DEF NewPackage
<1> QED BY <1>1, <1>2, <1>3, <1>4, GroundingAssumption

LEMMA PackageFacts ==
  ASSUME GroundingInv, NEW p \in packages
  PROVE  /\ p.req \in rows /\ p.req \in Request /\ p.req.kind = "package" /\ p.req.id \in Nat
         /\ p.at = began[p.req] /\ p.at \in Nat /\ pc[p.req] = "answered"
<1>1. PICK a \in PackageCommands : p = NewPackage(a)
  BY DEF GroundingInv, Dated, PackagesAreRows
<1>2. a \in rows /\ a \in Request /\ a.kind = "package"
  BY DEF PackageCommands, GroundingInv, LedgerInv, LedgerTypeOK
<1>3. pc[a] = "answered" /\ began[a] \in Nat
  BY <1>2 DEF GroundingInv, LedgerInv, LedgerTypeOK, TxHoldsItsWrites
<1> QED BY <1>1, <1>2, <1>3, GroundingAssumption DEF NewPackage

LEMMA PlaceIsNumber ==
  ASSUME GroundingInv, NEW p \in packages
  PROVE  GeoVersion(p) \in Nat \ {0} /\ Cardinality(Late(p)) \in Nat
<1> DEFINE before == {q \in packages : q.at < p.at \/ (q.at = p.at /\ q.req.id <= p.req.id)}
<1>1. IsFiniteSet(packages)
  BY DEF GroundingInv, Dated
<1>2. IsFiniteSet(before) /\ IsFiniteSet(Late(p))
  BY <1>1, FS_Subset DEF Late
<1>3. p \in before
  BY PackageFacts
<1>4. Cardinality(before) \in Nat /\ Cardinality(Late(p)) \in Nat
  BY <1>2, FS_CardinalityType
<1>5. Cardinality(before) # 0
  BY <1>2, <1>3, FS_EmptySet
<1>6. GeoVersion(p) = Cardinality(before)
  BY DEF GeoVersion
<1> QED BY <1>4, <1>5, <1>6

LEMMA PlaceIsHad ==
  ASSUME GroundingInv, NEW id, NEW p \in Packages(id)
  PROVE  HadVersion(GeoVersion(p), id)
<1>1. p \in packages
  BY DEF Packages
<1>2. GeoVersion(p) \in Nat /\ Cardinality(Late(p)) \in Nat
  BY <1>1, PlaceIsNumber
<1>3. Explained(GeoVersion(p), p)
  BY <1>2 DEF Explained
<1> QED BY <1>3 DEF HadVersion

\* A version that was had is no later than the place, which all share.
LEMMA HadIsNoLater ==
  ASSUME GroundingInv, NEW id, NEW p \in Packages(id), NEW v, HadVersion(v, id)
  PROVE  v \in Int /\ v <= GeoVersion(p)
<1>1. PICK q \in Packages(id) : Explained(v, q)
  BY DEF HadVersion
<1>2. q = p /\ p \in packages
  BY PackageIsUnique DEF Packages
<1>3. GeoVersion(p) \in Nat /\ Cardinality(Late(p)) \in Nat
  BY <1>2, PlaceIsNumber
<1> QED BY <1>1, <1>2, <1>3 DEF Explained

\* With the same packages, which have raced as they had, what was had was had.
LEMMA HadStands ==
  ASSUME GroundingInv, packages' = packages,
         \A p \in packages : overlap'[p.req] = overlap[p.req],
         NEW v, NEW id, HadVersion(v, id)
  PROVE  HadVersion(v, id)'
<1>1. PICK p \in Packages(id) : Explained(v, p)
  BY DEF HadVersion
<1>2. p \in packages /\ p \in Packages(id)'
  BY DEF Packages
<1>3. GeoVersion(p)' = GeoVersion(p)
  BY DEF GeoVersion
<1>4. Late(p)' = Late(p)
  BY <1>2 DEF Late, Raced
<1>5. Explained(v, p)'
  BY <1>1, <1>3, <1>4 DEF Explained
<1> QED BY <1>2, <1>5 DEF HadVersion

\* A package that becomes visible takes a place after, or was created meanwhile.
LEMMA HadStaysHad ==
  ASSUME GroundingInv, NEW n, n \notin packages, packages' = packages \cup {n},
         n.at \in Nat, n.req.id \in Nat, overlap' = overlap,
         \A p \in packages : Raced(n.req, p.req) \/ p.at <= n.at,
         NEW v, NEW id, HadVersion(v, id)
  PROVE  HadVersion(v, id)'
<1>1. PICK p \in Packages(id) : Explained(v, p)
  BY DEF HadVersion
<1>2. p \in packages /\ p \in Packages(id)' /\ n # p
  BY DEF Packages
<1>3. GeoVersion(p) \in Nat /\ Cardinality(Late(p)) \in Nat /\ p.at \in Nat /\ p.req.id \in Nat
  BY <1>2, PlaceIsNumber, PackageFacts
<1> DEFINE before == {q \in packages : q.at < p.at \/ (q.at = p.at /\ q.req.id <= p.req.id)}
<1> DEFINE after == {q \in packages' : q.at < p.at \/ (q.at = p.at /\ q.req.id <= p.req.id)}
<1>4. GeoVersion(p) = Cardinality(before) /\ GeoVersion(p)' = Cardinality(after)
  BY DEF GeoVersion
<1>5. IsFiniteSet(packages) /\ IsFiniteSet(before) /\ IsFiniteSet(Late(p))
  BY FS_Subset DEF GroundingInv, Dated, Late
<1>6. CASE n.at < p.at \/ (n.at = p.at /\ n.req.id <= p.req.id)
  <2>1. after = before \cup {n} /\ n \notin before
    BY <1>6
  <2>2. Cardinality(after) = Cardinality(before) + 1
    BY <1>5, <2>1, FS_AddElement
  <2>3. Raced(n.req, p.req) \/ n.at = p.at
    BY <1>2, <1>3, <1>6
  <2>4. Late(p)' = Late(p) \cup {n} /\ n \notin Late(p)
    BY <1>2, <2>3 DEF Late, Raced
  <2>5. Cardinality(Late(p)') = Cardinality(Late(p)) + 1
    BY <1>5, <2>4, FS_AddElement
  <2>6. GeoVersion(p)' = GeoVersion(p) + 1 /\ Cardinality(Late(p))' = Cardinality(Late(p)) + 1
    BY <1>4, <2>2, <2>5
  <2>7. Explained(v, p)'
    BY <1>1, <1>3, <2>6 DEF Explained
  <2> QED BY <1>2, <2>7 DEF HadVersion
<1>7. CASE ~(n.at < p.at \/ (n.at = p.at /\ n.req.id <= p.req.id))
  <2>1. after = before
    BY <1>7
  <2>2. Late(p)' = Late(p) \/ (Late(p)' = Late(p) \cup {n} /\ n \notin Late(p))
    BY <1>2 DEF Late, Raced
  <2>3. Cardinality(Late(p)') \in {Cardinality(Late(p)), Cardinality(Late(p)) + 1}
    BY <1>5, <2>2, FS_AddElement
  <2>4. GeoVersion(p)' = GeoVersion(p)
    BY <1>4, <2>1
  <2>5. Explained(v, p)'
    BY <1>1, <1>3, <2>3, <2>4 DEF Explained
  <2> QED BY <1>2, <2>5 DEF HadVersion
<1> QED BY <1>6, <1>7

-----------------------------------------------------------------------------
\* Steps that publish nothing keep the dates, and what was had.
Quiet(r) ==
  BeforePerform(r) \/ Perform(r) \/ AppendAudit(r) \/ Rollback(r) \/ UNCHANGED ledgerVars

LEMMA QuietKeepsDates ==
  ASSUME GroundingInv, LedgerInv', NEW r \in Request, Quiet(r), packages' = packages
  PROVE  /\ rows' = rows
         /\ Dated'
         /\ \A p \in packages : overlap'[p.req] = overlap[p.req]
<1>1. rows' = rows
  BY DEF Quiet, BeforePerform, Refuse, Authorize, RecordDenied, RecordDeniedFails, Begin,
     Replay, LookupMisses, Perform, AppendAudit, Rollback, ledgerVars
<1>2. LedgerTypeOK /\ LedgerTypeOK'
  BY DEF GroundingInv, LedgerInv
<1>3. PackageCommands' = PackageCommands /\ PackageCommands \subseteq Request
  BY <1>1, <1>2 DEF PackageCommands, LedgerTypeOK
<1>4. BeganByClock /\ PackagesAreRows /\ OpenCameLater /\ IsFiniteSet(packages)
  BY DEF GroundingInv, Dated
<1>5. CASE Begin(r)
  <2>1. /\ pc[r] = "authorized" /\ pc' = [pc EXCEPT ![r] = "begun"]
        /\ clock' \in {clock, clock + 1} /\ began' = [began EXCEPT ![r] = clock']
        /\ overlap' = [overlap EXCEPT ![r] = Open]
    BY <1>5 DEF Begin, Goto
  <2>2. \A q \in rows : q # r /\ q \in Request
    BY <1>2, <2>1 DEF GroundingInv, LedgerInv, TxHoldsItsWrites, LedgerTypeOK
  <2>3. \A q \in Request : q # r => began'[q] = began[q] /\ overlap'[q] = overlap[q]
                                    /\ pc'[q] = pc[q]
    BY <1>2, <2>1 DEF LedgerTypeOK
  <2>4. began'[r] = clock' /\ clock \in Nat /\ clock' >= clock /\ began \in [Request -> Nat]
    BY <1>2, <2>1 DEF LedgerTypeOK
  <2>5. BeganByClock'
    <3> SUFFICES ASSUME NEW q \in Request PROVE began'[q] <= clock'
      BY DEF BeganByClock
    <3>1. began[q] <= clock /\ began[q] \in Nat
      BY <1>4, <2>4 DEF BeganByClock
    <3>2. clock' \in Nat
      BY <1>2 DEF LedgerTypeOK
    <3>3. CASE q = r
      BY <2>4, <3>2, <3>3
    <3>4. CASE q # r
      <4>1. began'[q] = began[q]
        BY <2>3, <3>4
      <4> QED BY <2>4, <3>1, <3>2, <4>1
    <3> QED BY <3>3, <3>4
  <2>6. PackagesAreRows'
    <3>1. \A q \in PackageCommands : NewPackage(q)' = NewPackage(q)
      BY <2>2, <2>3 DEF PackageCommands, NewPackage
    <3> QED BY <1>3, <1>4, <3>1 DEF PackagesAreRows
  <2>7. OpenCameLater'
    <3> SUFFICES ASSUME NEW q \in Request, NEW p \in packages, InTx(q)'
                 PROVE  Raced(q, p.req)' \/ p.at <= began'[q]
      BY DEF OpenCameLater
    <3>1. p.req \in rows /\ p.req \in Request /\ p.at = began[p.req] /\ p.at \in Nat
      BY PackageFacts
    <3>2. CASE q = r
      <4>1. p.at <= clock
        BY <1>4, <3>1 DEF BeganByClock
      <4> QED BY <2>4, <3>1, <3>2, <4>1, <1>2 DEF LedgerTypeOK
    <3>3. CASE q # r
      <4>1. InTx(q)
        BY <2>3, <3>3 DEF InTx
      <4>2. Raced(q, p.req) \/ p.at <= began[q]
        BY <1>4, <4>1 DEF OpenCameLater
      <4>3. Raced(q, p.req)' = Raced(q, p.req)
        BY <2>2, <2>3, <3>1, <3>3 DEF Raced
      <4> QED BY <2>3, <3>3, <4>2, <4>3
    <3> QED BY <3>2, <3>3
  <2>8. \A p \in packages : overlap'[p.req] = overlap[p.req]
    BY <2>2, <2>3, PackageFacts
  <2> QED BY <1>1, <1>4, <2>5, <2>6, <2>7, <2>8 DEF Dated
<1>6. CASE ~Begin(r)
  <2>1. UNCHANGED <<clock, began, overlap>>
    BY <1>6 DEF Quiet, BeforePerform, Refuse, Authorize, RecordDenied, RecordDeniedFails,
       Replay, LookupMisses, Perform, AppendAudit, Rollback, ledgerVars
  <2>2. pc' = pc \/ (InTx(r) /\ \E label \in Labels : Goto(r, label))
          \/ Goto(r, "authorized") \/ Goto(r, "answered")
    BY <1>6 DEF Quiet, BeforePerform, Refuse, Authorize, RecordDenied, RecordDeniedFails,
       Replay, LookupMisses, Perform, AppendAudit, Rollback, ledgerVars, Tell, InTx, InTxLabels,
       Labels
  <2>3. \A q \in Request : InTx(q)' => InTx(q)
    BY <1>2, <2>2 DEF Goto, InTx, InTxLabels, LedgerTypeOK
  <2>4. BeganByClock'
    BY <1>4, <2>1 DEF BeganByClock
  <2>5. PackagesAreRows'
    <3>1. \A q : NewPackage(q)' = NewPackage(q)
      BY <2>1 DEF NewPackage
    <3> QED BY <1>3, <1>4, <3>1 DEF PackagesAreRows
  <2>6. OpenCameLater'
    BY <1>4, <2>1, <2>3 DEF OpenCameLater, Raced
  <2> QED BY <1>1, <1>4, <2>1, <2>4, <2>5, <2>6 DEF Dated
<1> QED BY <1>5, <1>6

\* With the tables as they are, r's own reading and place are what can disturb.
LEMMA TablesStand ==
  ASSUME GroundingInv, LedgerInv', NEW r \in Request, Quiet(r), UNCHANGED tableVars,
         found' \in [Request -> SUBSET MapRow], version' \in [Request -> Nat],
         \A s \in Request \ {r} : pc'[s] = pc[s] /\ found'[s] = found[s] /\ version'[s] = version[s],
         found'[r] \subseteq maps, MapReads(r)', OpportunityReads(r)',
         OneProfile', ConfirmsKnowPackage'
  PROVE  GroundingInv'
<1> USE DEF GroundingInv, tableVars
<1>1. TypeOK'
  BY DEF TypeOK, LedgerInv
<1>2. rows' = rows /\ Dated' /\ \A p \in packages : overlap'[p.req] = overlap[p.req]
  BY QuietKeepsDates
<1>3. \A v, id : HadVersion(v, id) => HadVersion(v, id)'
  BY <1>2, HadStands
<1>4. ConfirmedAreRows'
  BY <1>2 DEF ConfirmedAreRows, Packages
<1>5. MapsStand'
  BY <1>2, <1>3 DEF MapsStand, MapStands
<1>6. OpportunitiesStand'
  <2>1. \A o \in opportunities : OpportunityStands(o)'
    BY <1>2, <1>3 DEF OpportunitiesStand, OpportunityStands
  <2> QED BY <2>1 DEF OpportunitiesStand
<1>7. ReadsStand'
  <2> SUFFICES ASSUME NEW s \in Request
               PROVE  found'[s] \subseteq maps /\ MapReads(s)' /\ OpportunityReads(s)'
    BY DEF ReadsStand
  <2>1. CASE s = r
    BY <2>1
  <2>2. CASE s # r
    <3>1. found[s] \subseteq maps /\ MapReads(s) /\ OpportunityReads(s)
      BY DEF ReadsStand
    <3>2. Writing(s)' = Writing(s) /\ found'[s] = found[s] /\ version'[s] = version[s]
      BY <2>2 DEF Writing
    <3>3. MapReads(s)'
      BY <1>3, <3>1, <3>2 DEF MapReads
    <3>4. OpportunityReads(s)'
      BY <1>3, <3>1, <3>2 DEF OpportunityReads
    <3> QED BY <3>1, <3>2, <3>3, <3>4
  <2> QED BY <2>1, <2>2
<1> QED BY <1>1, <1>2, <1>4, <1>5, <1>6, <1>7

-----------------------------------------------------------------------------
\* The steps of a command.
LEMMA OwnMoves ==
  ASSUME GroundingInv, NEW r \in Request, NEW label \in Labels, pc' = [pc EXCEPT ![r] = label]
  PROVE  pc'[r] = label /\ \A s \in Request \ {r} : pc'[s] = pc[s]
BY DEF GroundingInv, LedgerInv, LedgerTypeOK

\* The profile's row, when r comes to hold none.
LEMMA ProfileStands ==
  ASSUME GroundingInv, NEW r \in Request, profiles' = profiles,
         \A s \in Request \ {r} : pc'[s] = pc[s],
         Holds(r, "profile")' => Holds(r, "profile")
  PROVE  OneProfile'
<1>1. \A s \in Request : Holds(s, "profile")' => Holds(s, "profile")
  BY DEF Holds
<1> QED BY <1>1 DEF OneProfile, GroundingInv

LEMMA RouteKeeps ==
  ASSUME GroundingInv, LedgerInv', NEW r \in Request, Route(r)
  PROVE  GroundingInv'
<1>1. UNCHANGED tableVars /\ found' = found /\ version' = version /\ packages' = packages
  BY DEF Route, groundingVars, tableVars
<1>2. Quiet(r)
  BY DEF Route, Quiet, BeforePerform
<1>3. PICK label \in Labels : ~(label \in {"performed", "audited"}) /\ pc' = [pc EXCEPT ![r] = label]
  BY DEF Route, BeforePerform, Refuse, Authorize, RecordDenied, RecordDeniedFails, Begin,
     Replay, LookupMisses, Tell, Goto, Labels, InTxLabels
<1>4. pc'[r] = label /\ \A s \in Request \ {r} : pc'[s] = pc[s]
  BY <1>3, OwnMoves
<1>5. ~Writing(r)' /\ ~Holds(r, "profile")'
  BY <1>3, <1>4 DEF Writing, Holds
<1>6. OneProfile'
  BY <1>1, <1>4, <1>5, ProfileStands DEF tableVars
<1>7. r.kind = "confirm" /\ pc'[r] \notin {"unsent", "answered"} => Packages(r.package) # {}
  <2> SUFFICES ASSUME r.kind = "confirm", pc'[r] # "answered" PROVE Packages(r.package) # {}
    OBVIOUS
  <2>1. CASE pc[r] = "unsent"
    BY <1>4, <2>1 DEF Route, Refuse, Tell, Goto, GroundingInv, LedgerInv, LedgerTypeOK
  <2>2. CASE pc[r] # "unsent"
    <3>1. pc[r] # "answered"
      BY <2>2 DEF Route, BeforePerform, Refuse, Authorize, RecordDenied, RecordDeniedFails,
         Begin, Replay, LookupMisses
    <3> QED BY <2>2, <3>1 DEF GroundingInv, ConfirmsKnowPackage
  <2> QED BY <2>1, <2>2
<1>8. ConfirmsKnowPackage'
  BY <1>1, <1>4, <1>7 DEF ConfirmsKnowPackage, GroundingInv, Packages
<1>9. \A v, id : HadVersion(v, id) => HadVersion(v, id)'
  BY <1>1, <1>2, QuietKeepsDates, HadStands
<1>10. found[r] \subseteq maps /\ MapReads(r) /\ OpportunityReads(r)
  BY DEF GroundingInv, ReadsStand
<1>11. MapReads(r)' /\ OpportunityReads(r)'
  BY <1>1, <1>5, <1>9, <1>10 DEF MapReads, OpportunityReads, tableVars
<1>12. found' \in [Request -> SUBSET MapRow] /\ version' \in [Request -> Nat]
  BY <1>1 DEF GroundingInv, TypeOK
<1> QED BY <1>1, <1>2, <1>4, <1>6, <1>8, <1>10, <1>11, <1>12, TablesStand

LEMMA AbortKeeps ==
  ASSUME GroundingInv, LedgerInv', NEW r \in Request, Abort(r)
  PROVE  GroundingInv'
<1>1. /\ UNCHANGED tableVars /\ Quiet(r) /\ pc' = [pc EXCEPT ![r] = "answered"]
      /\ found' = [found EXCEPT ![r] = {}] /\ version' = [version EXCEPT ![r] = Unread]
  BY DEF Abort, Quiet, Rollback, Forget, Tell, Goto
<1>2. pc'[r] = "answered" /\ \A s \in Request \ {r} : pc'[s] = pc[s]
  BY <1>1, OwnMoves DEF Labels
<1>3. /\ found' \in [Request -> SUBSET MapRow] /\ version' \in [Request -> Nat]
      /\ found'[r] = {} /\ version'[r] = Unread
      /\ \A s \in Request \ {r} : found'[s] = found[s] /\ version'[s] = version[s]
  BY <1>1 DEF GroundingInv, TypeOK, Unread
<1>4. ~Writing(r)' /\ ~Holds(r, "profile")'
  BY <1>2 DEF Writing, Holds
<1>5. OneProfile'
  BY <1>1, <1>2, <1>4, ProfileStands DEF tableVars
<1>6. ConfirmsKnowPackage'
  BY <1>1, <1>2 DEF ConfirmsKnowPackage, GroundingInv, Packages, tableVars
<1>7. MapReads(r)' /\ OpportunityReads(r)'
  BY <1>3, <1>4 DEF MapReads, OpportunityReads
<1>8. found'[r] \subseteq maps
  BY <1>3
<1> QED BY <1>1, <1>2, <1>3, <1>5, <1>6, <1>7, <1>8, TablesStand

\* A step that writes, or audits what is written: r has read what it needs, and if
\* it is a profile there is none but its own.
LEMMA WritesKeep ==
  ASSUME GroundingInv, LedgerInv', NEW r \in Request,
         Perform(r) \/ AppendAudit(r), UNCHANGED groundingVars,
         r.kind = "map" => version[r] # Unread,
         r.kind = "opportunity" =>
           version[r] # Unread /\ \A m \in found[r] : Covers(m, r.keyword),
         r.kind = "profile" =>
           profiles = {} /\ ~\E s \in Request \ {r} : Holds(s, "profile")
  PROVE  GroundingInv'
<1>1. UNCHANGED tableVars /\ found' = found /\ version' = version /\ packages' = packages
  BY DEF groundingVars, tableVars
<1>2. Quiet(r)
  BY DEF Quiet
<1>3. PICK label \in {"performed", "audited"} : pc' = [pc EXCEPT ![r] = label]
  BY DEF Perform, AppendAudit, Goto
<1>4. pc'[r] = label /\ \A s \in Request \ {r} : pc'[s] = pc[s]
  BY <1>3, OwnMoves DEF Labels, InTxLabels
<1>5. pc[r] \in {"performing", "performed"}
  BY DEF Perform, AppendAudit
<1>6. OneProfile'
  <2>1. \A s \in Request : s # r => Holds(s, "profile")' = Holds(s, "profile")
    BY <1>4 DEF Holds
  <2>2. CASE r.kind = "profile"
    BY <1>1, <2>1, <2>2 DEF OneProfile, GroundingInv, tableVars
  <2>3. CASE r.kind # "profile"
    BY <1>1, <1>4, <2>3, ProfileStands DEF tableVars, Holds
  <2> QED BY <2>2, <2>3
<1>7. ConfirmsKnowPackage'
  BY <1>1, <1>4, <1>5 DEF ConfirmsKnowPackage, GroundingInv, Packages
<1>8. \A v, id : HadVersion(v, id) => HadVersion(v, id)'
  BY <1>1, <1>2, QuietKeepsDates, HadStands
<1>9. found[r] \subseteq maps /\ MapReads(r) /\ OpportunityReads(r)
  BY DEF GroundingInv, ReadsStand
<1>10. MapReads(r)' /\ OpportunityReads(r)'
  BY <1>1, <1>8, <1>9 DEF MapReads, OpportunityReads, tableVars
<1>11. found' \in [Request -> SUBSET MapRow] /\ version' \in [Request -> Nat]
  BY <1>1 DEF GroundingInv, TypeOK
<1> QED BY <1>1, <1>2, <1>4, <1>6, <1>7, <1>9, <1>10, <1>11, TablesStand

\* The INSERTs and the UPDATE, in the transaction.
LEMMA InsertKeeps ==
  ASSUME GroundingInv, LedgerInv', NEW r \in Request,
         CreatePackage(r) \/ ConfirmPackage(r) \/ CreateIndustryProfile(r) \/ InsertMap(r)
           \/ InsertOpportunity(r)
  PROVE  GroundingInv'
<1>1. CASE Abort(r)
  BY <1>1, AbortKeeps
<1>2. CASE ~Abort(r)
  <2>1. Perform(r) /\ UNCHANGED groundingVars
    BY <1>2 DEF CreatePackage, ConfirmPackage, UpdateConfirmed, CreateIndustryProfile,
       InsertProfile, InsertMap, InsertOpportunity
  <2>2. r.kind = "map" => version[r] # Unread
    BY DEF CreatePackage, ConfirmPackage, CreateIndustryProfile, InsertMap, InsertOpportunity,
       Performing
  <2>3. ASSUME r.kind = "opportunity"
        PROVE  version[r] # Unread /\ \A m \in found[r] : Covers(m, r.keyword)
    <3>1. InsertOpportunity(r)
      BY <2>3 DEF CreatePackage, ConfirmPackage, CreateIndustryProfile, InsertMap, Performing
    <3>2. \E m \in found[r] : Covers(m, r.keyword)
      BY <1>2, <3>1 DEF InsertOpportunity
    <3>3. \A m, n \in found[r] : m = n
      BY <2>3 DEF GroundingInv, ReadsStand, OpportunityReads
    <3> QED BY <3>1, <3>2, <3>3 DEF InsertOpportunity
  <2>4. ASSUME r.kind = "profile"
        PROVE  profiles = {} /\ ~\E s \in Request \ {r} : Holds(s, "profile")
    BY <1>2, <2>4 DEF CreatePackage, ConfirmPackage, CreateIndustryProfile, InsertProfile,
       InsertMap, InsertOpportunity, Performing
  <2> QED BY <2>1, <2>2, <2>3, <2>4, WritesKeep
<1> QED BY <1>1, <1>2

LEMMA AppendKeeps ==
  ASSUME GroundingInv, LedgerInv', NEW r \in Request, AppendAudit(r), UNCHANGED groundingVars
  PROVE  GroundingInv'
<1>1. Writing(r) /\ pc[r] = "performed"
  BY DEF AppendAudit, Writing
<1>2. MapReads(r) /\ OpportunityReads(r)
  BY DEF GroundingInv, ReadsStand
<1>3. ASSUME r.kind = "profile"
      PROVE  profiles = {} /\ ~\E s \in Request \ {r} : Holds(s, "profile")
  <2>1. Holds(r, "profile")
    BY <1>1, <1>3 DEF Holds
  <2> QED BY <2>1 DEF GroundingInv, OneProfile
<1> QED BY <1>1, <1>2, <1>3, WritesKeep DEF MapReads, OpportunityReads

\* The reads before them.
LEMMA ReadsKeep ==
  ASSUME GroundingInv, LedgerInv', NEW r \in Request,
         UNCHANGED ledgerVars, UNCHANGED tableVars, ~Writing(r),
         found' \in [Request -> SUBSET MapRow], version' \in [Request -> Nat],
         \A s \in Request \ {r} : found'[s] = found[s] /\ version'[s] = version[s],
         found'[r] \subseteq maps,
         r.kind = "map" /\ version'[r] # Unread =>
           r.profile \in profiles /\ HadVersion(version'[r], r.package),
         r.kind = "opportunity" =>
           /\ \A m, n \in found'[r] : m = n
           /\ version'[r] # Unread => found'[r] # {} /\ \A m \in found'[r] :
                m.version <= version'[r] /\ HadVersion(version'[r], m.req.package)
  PROVE  GroundingInv'
<1>1. Quiet(r) /\ pc' = pc /\ packages' = packages /\ profiles' = profiles
  BY DEF Quiet, ledgerVars, tableVars
<1>2. ~Writing(r)'
  BY <1>1 DEF Writing
<1>3. OneProfile'
  BY <1>1, ProfileStands DEF Holds
<1>4. ConfirmsKnowPackage'
  BY <1>1 DEF ConfirmsKnowPackage, GroundingInv, Packages
<1>5. \A v, id : HadVersion(v, id) => HadVersion(v, id)'
  BY <1>1, QuietKeepsDates, HadStands
<1>6. MapReads(r)'
  BY <1>1, <1>2, <1>5 DEF MapReads
<1>7. OpportunityReads(r)'
  BY <1>2, <1>5 DEF OpportunityReads
<1> QED BY <1>1, <1>3, <1>4, <1>6, <1>7, TablesStand

LEMMA ReadSourceKeeps ==
  ASSUME GroundingInv, LedgerInv', NEW r \in Request, ReadSource(r), ~Abort(r)
  PROVE  GroundingInv'
<1>1. /\ pc[r] = "performing" /\ r.kind = "map" /\ r.profile \in profiles
      /\ UNCHANGED <<ledgerVars, tableVars, found>>
  BY DEF ReadSource, ReadPackage, Performing
<1>2. PICK p \in Packages(r.package) : version' = [version EXCEPT ![r] = GeoVersion(p)]
  BY DEF ReadSource, ReadPackage
<1>3. GeoVersion(p) \in Nat
  BY PlaceIsNumber DEF Packages
<1>4. HadVersion(GeoVersion(p), r.package)
  BY PlaceIsHad
<1>5. found' \in [Request -> SUBSET MapRow] /\ version \in [Request -> Nat]
  BY <1>1 DEF GroundingInv, TypeOK
<1>6. /\ version' \in [Request -> Nat] /\ version'[r] = GeoVersion(p)
      /\ \A s \in Request \ {r} : version'[s] = version[s]
  BY <1>2, <1>3, <1>5
<1>7. found'[r] \subseteq maps /\ ~Writing(r)
  BY <1>1 DEF GroundingInv, ReadsStand, Writing
<1> QED BY <1>1, <1>4, <1>5, <1>6, <1>7, ReadsKeep

LEMMA ReadMapKeeps ==
  ASSUME GroundingInv, LedgerInv', NEW r \in Request, ReadMap(r), ~Abort(r)
  PROVE  GroundingInv'
<1> DEFINE rows_ == {m \in maps : m.req.id = r.map}
<1>1. /\ pc[r] = "performing" /\ r.kind = "opportunity" /\ found[r] = {}
      /\ UNCHANGED <<ledgerVars, tableVars, version>>
      /\ found' = [found EXCEPT ![r] = rows_]
  BY DEF ReadMap, Performing
<1>2. maps \subseteq MapRow /\ found \in [Request -> SUBSET MapRow] /\ version \in [Request -> Nat]
  BY DEF GroundingInv, TypeOK
<1>3. /\ found' \in [Request -> SUBSET MapRow] /\ found'[r] = rows_
      /\ \A s \in Request \ {r} : found'[s] = found[s]
  BY <1>1, <1>2
<1>4. ASSUME NEW m \in rows_, NEW n \in rows_ PROVE m = n
  <2>1. m.req \in Request /\ n.req \in Request
    BY <1>2 DEF MapRow
  <2>2. m.req = n.req
    BY <2>1, GroundingAssumption
  <2> QED BY <2>2 DEF GroundingInv, MapsStand
<1>5. version'[r] = Unread /\ version' = version /\ ~Writing(r) /\ r.kind # "map"
  BY <1>1 DEF Writing, GroundingInv, ReadsStand, OpportunityReads
<1>6. found'[r] \subseteq maps /\ \A m, n \in found'[r] : m = n
  BY <1>3, <1>4
<1>7. UNCHANGED ledgerVars /\ UNCHANGED tableVars
  BY <1>1
<1> QED BY <1>2, <1>3, <1>5, <1>6, <1>7, ReadsKeep

LEMMA ReadGroundingKeeps ==
  ASSUME GroundingInv, LedgerInv', NEW r \in Request, ReadGrounding(r), ~Abort(r)
  PROVE  GroundingInv'
<1>1. /\ pc[r] = "performing" /\ r.kind = "opportunity"
  BY DEF ReadGrounding, Performing
<1>2. PICK m \in found[r] : ReadPackage(r, m.req.package)
  BY DEF ReadGrounding
<1>3. PICK p \in Packages(m.req.package) : version' = [version EXCEPT ![r] = GeoVersion(p)]
  BY <1>2 DEF ReadPackage
<1>4. UNCHANGED <<ledgerVars, tableVars, found>>
  BY <1>2 DEF ReadPackage
<1>5. GeoVersion(p) \in Nat /\ HadVersion(GeoVersion(p), m.req.package)
  BY PlaceIsNumber, PlaceIsHad DEF Packages
<1>6. found \in [Request -> SUBSET MapRow] /\ version \in [Request -> Nat]
  BY DEF GroundingInv, TypeOK
<1>7. /\ version' \in [Request -> Nat] /\ version'[r] = GeoVersion(p)
      /\ \A s \in Request \ {r} : version'[s] = version[s]
  BY <1>3, <1>5, <1>6
<1>8. found[r] \subseteq maps /\ \A n \in found[r] : n = m
  BY <1>1 DEF GroundingInv, ReadsStand, OpportunityReads
<1>9. HadVersion(m.version, m.req.package)
  BY <1>8 DEF GroundingInv, MapsStand, MapStands
<1>10. m.version <= GeoVersion(p)
  BY <1>9, HadIsNoLater
<1>11. found'[r] = found[r] /\ found'[r] # {} /\ found' \in [Request -> SUBSET MapRow] /\ ~Writing(r)
  BY <1>1, <1>4, <1>6 DEF Writing
<1>12. \A n \in found'[r] : n.version <= version'[r] /\ HadVersion(version'[r], n.req.package)
  BY <1>5, <1>7, <1>8, <1>10, <1>11
<1> QED BY <1>1, <1>4, <1>7, <1>8, <1>11, <1>12, ReadsKeep

-----------------------------------------------------------------------------
\* COMMIT: what r has written, which is of one kind, becomes visible.
Committing(r) == (Commit(r) \/ CommitUnacknowledged(r)) /\ Publish(r)

LEMMA CommitFacts ==
  ASSUME GroundingInv, NEW r \in Request, Committing(r)
  PROVE  /\ pc[r] = "audited" /\ InTx(r) /\ Writing(r) /\ r \notin rows
         /\ pc'[r] = "answered" /\ \A s \in Request \ {r} : pc'[s] = pc[s]
         /\ rows' = rows \cup {r}
         /\ UNCHANGED <<clock, began, overlap>>
         /\ found' \in [Request -> SUBSET MapRow] /\ version' \in [Request -> Nat]
         /\ found'[r] = {} /\ version'[r] = Unread
         /\ \A s \in Request \ {r} : found'[s] = found[s] /\ version'[s] = version[s]
<1>1. /\ pc[r] = "audited" /\ pc' = [pc EXCEPT ![r] = "answered"]
      /\ rows' = rows \cup tx[r].rows
      /\ UNCHANGED <<clock, began, overlap>>
      /\ found' = [found EXCEPT ![r] = {}] /\ version' = [version EXCEPT ![r] = Unread]
  BY DEF Committing, Commit, CommitUnacknowledged, Apply, Tell, Goto, Publish, Forget
<1>2. tx[r].rows = {r} /\ r \notin rows
  BY <1>1 DEF GroundingInv, LedgerInv, TxHoldsItsWrites
<1>3. pc'[r] = "answered" /\ \A s \in Request \ {r} : pc'[s] = pc[s]
  BY <1>1, OwnMoves DEF Labels
<1>4. found \in [Request -> SUBSET MapRow] /\ version \in [Request -> Nat]
  BY DEF GroundingInv, TypeOK
<1> QED BY <1>1, <1>2, <1>3, <1>4 DEF InTx, InTxLabels, Writing, Unread

LEMMA CommitPackages ==
  ASSUME GroundingInv, NEW r \in Request, Committing(r)
  PROVE  \/ r.kind # "package" /\ packages' = packages
         \/ /\ r.kind = "package" /\ packages' = packages \cup {NewPackage(r)}
            /\ NewPackage(r) \notin packages
<1>1. packages' = packages \cup {NewPackage(q) : q \in Creates(r, "package")}
  BY DEF Committing, Publish
<1>2. CASE r.kind = "package"
  <2>1. Creates(r, "package") = {r}
    BY <1>2 DEF Creates
  <2>2. NewPackage(r) \notin packages
    BY CommitFacts, PackageFacts DEF NewPackage
  <2> QED BY <1>1, <1>2, <2>1, <2>2
<1>3. CASE r.kind # "package"
  <2>1. Creates(r, "package") = {}
    BY <1>3 DEF Creates
  <2> QED BY <1>1, <1>3, <2>1
<1> QED BY <1>2, <1>3

LEMMA CommitKeepsDates ==
  ASSUME GroundingInv, NEW r \in Request, Committing(r)
  PROVE  Dated'
<1>1. BeganByClock /\ PackagesAreRows /\ OpenCameLater /\ IsFiniteSet(packages)
  BY DEF GroundingInv, Dated
<1>2. BeganByClock'
  BY <1>1, CommitFacts DEF BeganByClock
<1>3. IsFiniteSet(packages')
  BY <1>1, CommitPackages, FS_AddElement
<1>4. \A q : NewPackage(q)' = NewPackage(q)
  BY CommitFacts DEF NewPackage
<1>5. PackagesAreRows'
  <2>1. CASE r.kind = "package"
    <3>1. PackageCommands' = PackageCommands \cup {r}
      BY <2>1, CommitFacts DEF PackageCommands
    <3>2. packages' = packages \cup {NewPackage(r)}
      BY <2>1, CommitPackages
    <3> QED BY <1>1, <1>4, <3>1, <3>2 DEF PackagesAreRows
  <2>2. CASE r.kind # "package"
    <3>1. PackageCommands' = PackageCommands
      BY <2>2, CommitFacts DEF PackageCommands
    <3>2. packages' = packages
      BY <2>2, CommitPackages
    <3> QED BY <1>1, <1>4, <3>1, <3>2 DEF PackagesAreRows
  <2> QED BY <2>1, <2>2
<1>6. OpenCameLater'
  <2> SUFFICES ASSUME NEW s \in Request, NEW p \in packages', InTx(s)'
               PROVE  Raced(s, p.req) \/ p.at <= began[s]
    BY CommitFacts DEF OpenCameLater, Raced
  <2>1. s # r /\ InTx(s)
    BY CommitFacts DEF InTx, InTxLabels
  <2>2. CASE p \in packages
    BY <1>1, <2>1, <2>2 DEF OpenCameLater
  <2>3. CASE p = NewPackage(r)
    <3>1. Raced(s, r)
      BY <2>1, CommitFacts DEF GroundingInv, LedgerInv, OpenHaveRaced
    <3> QED BY <2>3, <3>1 DEF NewPackage
  <2> QED BY <2>2, <2>3, CommitPackages
<1> QED BY <1>2, <1>3, <1>5, <1>6 DEF Dated

LEMMA CommitKeepsVersions ==
  ASSUME GroundingInv, NEW r \in Request, Committing(r), NEW v, NEW id, HadVersion(v, id)
  PROVE  HadVersion(v, id)'
<1>1. overlap' = overlap
  BY CommitFacts
<1>2. CASE packages' = packages
  BY <1>1, <1>2, HadStands
<1>3. CASE packages' = packages \cup {NewPackage(r)} /\ NewPackage(r) \notin packages
  <2>1. NewPackage(r).req = r /\ NewPackage(r).at = began[r]
    BY DEF NewPackage
  <2>2. began[r] \in Nat /\ r.id \in Nat
    BY GroundingAssumption DEF GroundingInv, LedgerInv, LedgerTypeOK
  <2>3. \A p \in packages : Raced(r, p.req) \/ p.at <= began[r]
    BY CommitFacts DEF GroundingInv, Dated, OpenCameLater
  <2>4. PICK n : n = NewPackage(r)
    OBVIOUS
  <2>5. /\ n \notin packages /\ packages' = packages \cup {n}
        /\ n.at \in Nat /\ n.req.id \in Nat
        /\ \A p \in packages : Raced(n.req, p.req) \/ p.at <= n.at
    BY <1>3, <2>1, <2>2, <2>3, <2>4
  <2> QED BY <1>1, <2>5, HadStaysHad
<1> QED BY <1>2, <1>3, CommitPackages

LEMMA CommitKeepsConfirmations ==
  ASSUME GroundingInv, NEW r \in Request, Committing(r)
  PROVE  OneProfile' /\ ConfirmsKnowPackage' /\ ConfirmedAreRows'
<1>1. \A id : Packages(id) # {} => Packages(id)' # {}
  BY CommitPackages DEF Packages
<1>2. \A s \in Request : Holds(s, "profile")' => s # r /\ Holds(s, "profile")
  BY CommitFacts DEF Holds
<1>3. profiles' = profiles \cup {NewProfile(q) : q \in Creates(r, "profile")}
  BY DEF Committing, Publish
<1>4. OneProfile'
  <2>1. CASE r.kind = "profile"
    <3>1. Holds(r, "profile")
      BY <2>1, CommitFacts DEF Holds
    <3>2. profiles = {} /\ \A s \in Request : ~Holds(s, "profile")'
      BY <1>2, <3>1 DEF GroundingInv, OneProfile
    <3>3. Creates(r, "profile") = {r}
      BY <2>1 DEF Creates
    <3> QED BY <1>3, <3>2, <3>3 DEF OneProfile
  <2>2. CASE r.kind # "profile"
    <3>1. Creates(r, "profile") = {}
      BY <2>2 DEF Creates
    <3>2. profiles' = profiles
      BY <1>3, <3>1
    <3> QED BY <1>2, <3>2 DEF GroundingInv, OneProfile
  <2> QED BY <2>1, <2>2
<1>5. ConfirmsKnowPackage'
  BY <1>1, CommitFacts DEF GroundingInv, ConfirmsKnowPackage
<1>6. ASSUME NEW c \in confirmed' PROVE c \in rows' /\ Packages(c.package)' # {}
  <2>1. c \in confirmed \/ c \in Creates(r, "confirm")
    BY DEF Committing, Publish, Reconfirmed
  <2>2. CASE c \in confirmed
    BY <1>1, <2>2, CommitFacts DEF GroundingInv, ConfirmedAreRows
  <2>3. CASE c \in Creates(r, "confirm")
    <3>1. c = r /\ r.kind = "confirm"
      BY <2>3 DEF Creates
    <3> QED BY <1>1, <3>1, CommitFacts DEF GroundingInv, ConfirmsKnowPackage
  <2> QED BY <2>1, <2>2, <2>3
<1> QED BY <1>4, <1>5, <1>6 DEF ConfirmedAreRows

LEMMA CommitMaps ==
  ASSUME GroundingInv, NEW r \in Request, Committing(r)
  PROVE  \/ r.kind # "map" /\ maps' = maps
         \/ /\ r.kind = "map" /\ maps' = maps \cup {NewMap(r)}
            /\ r.profile \in profiles /\ HadVersion(version[r], r.package) /\ version[r] # Unread
<1>1. maps' = maps \cup {NewMap(q) : q \in Creates(r, "map")}
  BY DEF Committing, Publish
<1>2. CASE r.kind = "map"
  <2>1. Creates(r, "map") = {r}
    BY <1>2 DEF Creates
  <2>2. MapReads(r) /\ Writing(r)
    BY CommitFacts DEF GroundingInv, ReadsStand
  <2> QED BY <1>1, <1>2, <2>1, <2>2 DEF MapReads
<1>3. CASE r.kind # "map"
  <2>1. Creates(r, "map") = {}
    BY <1>3 DEF Creates
  <2> QED BY <1>1, <1>3, <2>1
<1> QED BY <1>2, <1>3

LEMMA CommitKeepsMaps ==
  ASSUME GroundingInv, NEW r \in Request, Committing(r)
  PROVE  MapsStand' /\ maps \subseteq maps' /\ profiles \subseteq profiles'
<1>1. profiles \subseteq profiles' /\ rows' = rows \cup {r} /\ r \notin rows
  BY CommitFacts DEF Committing, Publish
<1>2. maps \subseteq maps' /\ maps' \subseteq maps \cup {NewMap(r)}
  BY CommitMaps
<1>3. \A m \in maps : MapStands(m) /\ MapStands(m)' /\ m.req # r
  BY <1>1, CommitKeepsVersions DEF GroundingInv, MapsStand, MapStands
<1>4. NewMap(r).req = r /\ NewMap(r).version = version[r]
  BY DEF NewMap
<1>5. ASSUME NEW m \in maps' PROVE MapStands(m)'
  <2>1. CASE m \in maps
    BY <1>3, <2>1
  <2>2. CASE m \notin maps
    <3>1. /\ m = NewMap(r) /\ m.req = r /\ m.version = version[r]
          /\ r.profile \in profiles /\ HadVersion(version[r], r.package)
      BY <1>2, <1>4, <2>2, CommitMaps
    <3>2. HadVersion(m.version, m.req.package)
      BY <3>1
    <3>3. HadVersion(m.version, m.req.package)'
      BY <3>2, CommitKeepsVersions
    <3> QED BY <1>1, <3>1, <3>3 DEF MapStands
  <2> QED BY <2>1, <2>2
<1>6. \A m, n \in maps' : m.req = n.req => m = n
  BY <1>2, <1>3, <1>4 DEF GroundingInv, MapsStand
<1> QED BY <1>1, <1>2, <1>5, <1>6 DEF MapsStand

LEMMA CommitKeepsReads ==
  ASSUME GroundingInv, NEW r \in Request, Committing(r)
  PROVE  ReadsStand'
<1> SUFFICES ASSUME NEW s \in Request
             PROVE  found'[s] \subseteq maps' /\ MapReads(s)' /\ OpportunityReads(s)'
  BY DEF ReadsStand
<1>1. CASE s = r
  <2>1. found'[s] = {} /\ version'[s] = Unread /\ ~Writing(s)'
    BY <1>1, CommitFacts DEF Writing
  <2> QED BY <2>1 DEF MapReads, OpportunityReads
<1>2. CASE s # r
  <2>1. found[s] \subseteq maps /\ MapReads(s) /\ OpportunityReads(s)
    BY DEF GroundingInv, ReadsStand
  <2>2. Writing(s)' = Writing(s) /\ found'[s] = found[s] /\ version'[s] = version[s]
    BY <1>2, CommitFacts DEF Writing
  <2>3. maps \subseteq maps' /\ profiles \subseteq profiles'
    BY CommitKeepsMaps
  <2>4. \A v, id : HadVersion(v, id) => HadVersion(v, id)'
    BY CommitKeepsVersions
  <2>5. MapReads(s)'
    BY <2>1, <2>2, <2>3, <2>4 DEF MapReads
  <2>6. OpportunityReads(s)'
    BY <2>1, <2>2, <2>4 DEF OpportunityReads
  <2> QED BY <2>1, <2>2, <2>3, <2>5, <2>6
<1> QED BY <1>1, <1>2

LEMMA CommitOpportunities ==
  ASSUME GroundingInv, NEW r \in Request, Committing(r)
  PROVE  \/ UNCHANGED <<opportunities, validations>>
         \/ \E m \in maps :
              /\ opportunities' = opportunities \cup {NewOpportunity(r, m)}
              /\ validations' = validations \cup {NewValidation(r, m)}
              /\ version[r] # Unread /\ Covers(m, r.keyword) /\ m.version <= version[r]
              /\ HadVersion(version[r], m.req.package)
<1>1. /\ opportunities' = opportunities \cup AddedOpportunities(r)
      /\ validations' = validations \cup AddedValidations(r)
  BY DEF Committing, Publish
<1>2. CASE r.kind = "opportunity"
  <2>1. OpportunityReads(r) /\ Writing(r) /\ found[r] \subseteq maps
    BY CommitFacts DEF GroundingInv, ReadsStand
  <2>2. PICK m : found[r] = {m}
    BY <1>2, <2>1 DEF OpportunityReads
  <2>3. Creates(r, "opportunity") = {r}
    BY <1>2 DEF Creates
  <2>4. AddedOpportunities(r) = {NewOpportunity(r, m)} /\ AddedValidations(r) = {NewValidation(r, m)}
    BY <2>2, <2>3 DEF AddedOpportunities, AddedValidations
  <2>5. /\ version[r] # Unread /\ Covers(m, r.keyword) /\ m.version <= version[r]
        /\ HadVersion(version[r], m.req.package)
    BY <1>2, <2>1, <2>2 DEF OpportunityReads
  <2> QED BY <1>1, <2>1, <2>2, <2>4, <2>5
<1>3. CASE r.kind # "opportunity"
  <2>1. Creates(r, "opportunity") = {}
    BY <1>3 DEF Creates
  <2>2. AddedOpportunities(r) = {} /\ AddedValidations(r) = {}
    BY <2>1 DEF AddedOpportunities, AddedValidations
  <2> QED BY <1>1, <2>2
<1> QED BY <1>2, <1>3

LEMMA CommitKeepsOpportunities ==
  ASSUME GroundingInv, NEW r \in Request, Committing(r)
  PROVE  OpportunitiesStand'
<1>1. rows' = rows \cup {r} /\ r \notin rows /\ maps \subseteq maps'
  BY CommitFacts, CommitKeepsMaps
<1>2. \A v, id : HadVersion(v, id) => HadVersion(v, id)'
  BY CommitKeepsVersions
<1>3. \A o \in opportunities : OpportunityStands(o) /\ OpportunityStands(o)' /\ o.req # r
  BY <1>1, <1>2 DEF GroundingInv, OpportunitiesStand, OpportunityStands
<1>4. CASE UNCHANGED <<opportunities, validations>>
  BY <1>3, <1>4 DEF GroundingInv, OpportunitiesStand
<1>5. ASSUME NEW m \in maps,
             opportunities' = opportunities \cup {NewOpportunity(r, m)},
             validations' = validations \cup {NewValidation(r, m)},
             Covers(m, r.keyword), m.version <= version[r], HadVersion(version[r], m.req.package)
      PROVE  OpportunitiesStand'
  <2>1. PICK n : n = NewOpportunity(r, m)
    OBVIOUS
  <2>2. n.req = r /\ n.map = m /\ n.version = version[r]
    BY <2>1 DEF NewOpportunity
  <2>3. HadVersion(n.version, m.req.package)
    BY <1>5, <2>2
  <2>4. HadVersion(n.version, m.req.package)'
    BY <1>2, <2>3
  <2>5. OpportunityStands(n)'
    BY <1>1, <1>5, <2>2, <2>4 DEF OpportunityStands
  <2>6. opportunities' = opportunities \cup {n}
    BY <1>5, <2>1
  <2>7. \A o, q \in opportunities' : o.req = q.req => o = q
    BY <1>3, <2>2, <2>6 DEF GroundingInv, OpportunitiesStand
  <2>8. validations' = {NewValidation(o.req, o.map) : o \in opportunities'}
    BY <1>5, <2>2, <2>6 DEF GroundingInv, OpportunitiesStand
  <2> QED BY <1>3, <2>5, <2>6, <2>7, <2>8 DEF OpportunitiesStand
<1> QED BY <1>4, <1>5, CommitOpportunities

LEMMA CommitKeepsTypes ==
  ASSUME GroundingInv, LedgerInv', NEW r \in Request, Committing(r)
  PROVE  TypeOK'
<1>1. TypeOK
  BY DEF GroundingInv
<1>2. began[r] \in Nat /\ version[r] \in Nat
  BY <1>1 DEF TypeOK, LedgerTypeOK
<1>3. packages' \subseteq PackageRow
  <2>1. NewPackage(r) \in PackageRow
    BY <1>2 DEF NewPackage, PackageRow
  <2> QED BY <1>1, <2>1, CommitPackages DEF TypeOK
<1>4. confirmed' \subseteq Request
  BY <1>1 DEF TypeOK, Committing, Publish, Reconfirmed, Creates
<1>5. profiles' \subseteq ProfileIds
  BY <1>1 DEF TypeOK, Committing, Publish, Creates, NewProfile, ProfileIds
<1>6. maps' \subseteq MapRow
  <2>1. version[r] # Unread => NewMap(r) \in MapRow
    BY <1>2 DEF NewMap, MapRow, Unread
  <2> QED BY <1>1, <2>1, CommitMaps DEF TypeOK
<1>7. opportunities' \subseteq OpportunityRow /\ validations' \subseteq ValidationRow
  <2>1. CASE UNCHANGED <<opportunities, validations>>
    BY <1>1, <2>1 DEF TypeOK
  <2>2. ASSUME NEW m \in maps,
               opportunities' = opportunities \cup {NewOpportunity(r, m)},
               validations' = validations \cup {NewValidation(r, m)}, version[r] # Unread
        PROVE  opportunities' \subseteq OpportunityRow /\ validations' \subseteq ValidationRow
    <3>1. m \in MapRow /\ version[r] \in Nat \ {0}
      BY <1>1, <1>2, <2>2 DEF TypeOK, Unread
    <3>2. NewOpportunity(r, m) \in OpportunityRow
      BY <3>1 DEF NewOpportunity, OpportunityRow
    <3>3. m.req.profile \in ProfileIds
      BY <1>1 DEF GroundingInv, MapsStand, MapStands, TypeOK
    <3>4. NewValidation(r, m) \in ValidationRow
      BY <3>3 DEF NewValidation, ValidationRow
    <3> QED BY <1>1, <2>2, <3>2, <3>4 DEF TypeOK
  <2> QED BY <2>1, <2>2, CommitOpportunities
<1> QED BY <1>3, <1>4, <1>5, <1>6, <1>7, CommitFacts DEF TypeOK, LedgerInv

LEMMA GroundingStep == GroundingInv /\ [Next]_vars => GroundingInv'
<1> SUFFICES ASSUME GroundingInv, [Next]_vars PROVE GroundingInv'
  OBVIOUS
<1>1. LedgerInv'
  BY GroundingStepsLedger, LedgerStep DEF GroundingInv
<1>2. CASE UNCHANGED vars
  <2>1. UNCHANGED <<pc, began, clock, overlap, rows>> /\ UNCHANGED groundingVars
    BY <1>2 DEF vars, ledgerVars
  <2>2. UNCHANGED <<packages, confirmed, profiles, maps, opportunities, validations, found, version>>
    BY <2>1 DEF groundingVars, tableVars
  <2>3. \A v, id : HadVersion(v, id)' = HadVersion(v, id)
    BY <2>1, <2>2 DEF HadVersion, Packages, Explained, GeoVersion, Late, Raced
  <2>4. TypeOK'
    BY <1>1, <2>2 DEF GroundingInv, LedgerInv, TypeOK
  <2>5. Dated'
    BY <2>1, <2>2 DEF GroundingInv, Dated, BeganByClock, PackagesAreRows, PackageCommands,
       NewPackage, OpenCameLater, InTx, Raced
  <2>6. OneProfile' /\ ConfirmsKnowPackage' /\ ConfirmedAreRows'
    BY <2>1, <2>2 DEF GroundingInv, OneProfile, Holds, ConfirmsKnowPackage, ConfirmedAreRows,
       Packages
  <2>7. ReadsStand'
    BY <2>1, <2>2, <2>3 DEF GroundingInv, ReadsStand, MapReads, OpportunityReads, Writing
  <2>8. MapsStand' /\ OpportunitiesStand'
    BY <2>1, <2>2, <2>3 DEF GroundingInv, MapsStand, MapStands, OpportunitiesStand,
       OpportunityStands
  <2> QED BY <1>1, <2>4, <2>5, <2>6, <2>7, <2>8 DEF GroundingInv
<1>3. ASSUME NEW r \in Request, Step(r) \/ Abort(r) PROVE GroundingInv'
  <2>1. CASE Abort(r)
    BY <1>1, <2>1, AbortKeeps
  <2>2. CASE Route(r)
    BY <1>1, <2>2, RouteKeeps
  <2>3. CASE CreatePackage(r) \/ ConfirmPackage(r) \/ CreateIndustryProfile(r) \/ InsertMap(r)
               \/ InsertOpportunity(r)
    BY <1>1, <2>3, InsertKeeps
  <2>4. CASE ReadSource(r) \/ ReadMap(r) \/ ReadGrounding(r)
    BY <1>1, <2>1, <2>4, ReadSourceKeeps, ReadMapKeeps, ReadGroundingKeeps
  <2>5. CASE AppendAudit(r) /\ UNCHANGED groundingVars
    BY <1>1, <2>5, AppendKeeps
  <2>6. CASE Committing(r)
    BY <1>1, <2>6, CommitKeepsTypes, CommitKeepsDates, CommitKeepsConfirmations,
       CommitKeepsReads, CommitKeepsMaps, CommitKeepsOpportunities DEF GroundingInv
  <2> QED BY <1>3, <2>1, <2>2, <2>3, <2>4, <2>5, <2>6 DEF Step, Committing
<1> QED BY <1>2, <1>3 DEF Next

\* The inductive invariant of the grounding.
THEOREM GroundingIsInvariant == Spec => []GroundingInv
BY InitGrounding, GroundingStep, PTL DEF Spec

\* knowledge-package-bridge.ts: the version that a map or an opportunity recorded
\* is one its package had, up to the packages that were created while it was.
THEOREM VersionsAreThePackages == Spec => []RecordedVersionsAreExplained
<1>1. GroundingInv => RecordedVersionsAreExplained
  BY DEF GroundingInv, RecordedVersionsAreExplained, MapsStand, MapStands,
     OpportunitiesStand, OpportunityStands, HadVersion
<1> QED BY <1>1, GroundingIsInvariant, PTL

\* entities.ts, Opportunity: it traces back through its map to a package, is
\* validated once, by the one profile its map names, and never rests on an older
\* version than the map does.
THEOREM EveryOpportunityIsGrounded == Spec => []OpportunitiesAreGrounded
<1>1. GroundingInv => OpportunitiesAreGrounded
  <2> SUFFICES ASSUME GroundingInv PROVE OpportunitiesAreGrounded
    OBVIOUS
  <2>1. Cardinality(profiles) <= 1
    <3>1. CASE profiles = {}
      BY <3>1, FS_EmptySet
    <3>2. CASE profiles # {}
      <4>1. PICK f : profiles = {f}
        BY <3>2 DEF GroundingInv, OneProfile
      <4> QED BY <4>1, FS_Singleton
    <3> QED BY <3>1, <3>2
  <2>2. \A m \in maps : m.req.profile \in profiles
    BY DEF GroundingInv, MapsStand, MapStands
  <2>3. ASSUME NEW c \in confirmed PROVE Packages(c.package) # {} /\ Allowed(c) # {}
    <3>1. c \in rows /\ c \in Request /\ Packages(c.package) # {}
      BY DEF GroundingInv, ConfirmedAreRows, TypeOK
    <3> QED BY <3>1 DEF GroundingInv, LedgerInv, WrittenIffAudited
  <2>4. ASSUME NEW o \in opportunities
        PROVE  /\ o.map \in maps /\ Packages(o.map.req.package) # {}
               /\ Covers(o.map, o.req.keyword) /\ o.map.version <= o.version
    BY DEF GroundingInv, OpportunitiesStand, OpportunityStands, HadVersion
  <2>5. ASSUME NEW o \in opportunities
        PROVE  {v.profile : v \in {v \in validations : v.opportunity = o.req}} = {o.map.req.profile}
    <3>1. validations = {NewValidation(q.req, q.map) : q \in opportunities}
      BY DEF GroundingInv, OpportunitiesStand
    <3>2. \A q \in opportunities : q.req = o.req => q = o
      BY DEF GroundingInv, OpportunitiesStand
    <3>3. PICK w : w = NewValidation(o.req, o.map)
      OBVIOUS
    <3>4. w.opportunity = o.req /\ w.profile = o.map.req.profile /\ w \in validations
      BY <3>1, <3>3 DEF NewValidation
    <3>5. ASSUME NEW v \in validations, v.opportunity = o.req PROVE v = w
      <4>1. PICK q \in opportunities : v = NewValidation(q.req, q.map)
        BY <3>1
      <4>2. q.req = o.req
        BY <3>5, <4>1 DEF NewValidation
      <4> QED BY <3>2, <3>3, <4>1, <4>2
    <3>6. {v \in validations : v.opportunity = o.req} = {w}
      BY <3>4, <3>5
    <3> QED BY <3>4, <3>6
  <2> QED BY <2>1, <2>2, <2>3, <2>4, <2>5 DEF OpportunitiesAreGrounded
<1> QED BY <1>1, GroundingIsInvariant, PTL
=============================================================================
