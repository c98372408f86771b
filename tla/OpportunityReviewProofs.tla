----------------------- MODULE OpportunityReviewProofs -----------------------
(***************************************************************************)
(* Proofs about OpportunityReview, for every set of requests and           *)
(* opportunities and families of any size: its commands are write          *)
(* commands, and what is built on decisions is authorized by them.         *)
(***************************************************************************)
EXTENDS OpportunityReview, WriteCommandProofs, SequenceTheorems, FiniteSetTheorems

\* A step of the review is a step of the write command, or leaves it alone.
LEMMA ReviewStepsLedger == [Next]_vars => [LedgerNext]_ledgerVars
<1> SUFFICES ASSUME [Next]_vars PROVE [LedgerNext]_ledgerVars
  OBVIOUS
<1>1. CASE UNCHANGED vars
  BY <1>1 DEF vars
<1>2. ASSUME NEW r \in Request, Step(r) \/ Abort(r) PROVE [LedgerNext]_ledgerVars
  <2>1. CASE Load(r) \/ Pass(r)
    BY <2>1 DEF Load, Pass
  <2>2. CASE NotOffered(r) \/ Route(r)
    <3>1. Refuse(r) \/ BeforePerform(r)
      BY <2>2 DEF NotOffered, Route, Refuse
    <3> QED BY <3>1 DEF LedgerNext, Progress, BeforePerform
  <2>3. CASE Abort(r)
    BY <2>3 DEF Abort, LedgerNext
  <2>4. CASE CheckVersion(r) \/ CheckMember(r)
    BY <2>1, <2>3, <2>4 DEF CheckVersion, CheckMember
  <2>5. CASE Decide(r) \/ InsertFamily(r) \/ InsertBrief(r)
    <3>1. Perform(r) \/ Abort(r)
      BY <2>5 DEF Decide, InsertFamily, InsertBrief
    <3> QED BY <2>3, <3>1 DEF LedgerNext, Progress
  <2>6. CASE AppendAudit(r) \/ Commit(r) \/ CommitUnacknowledged(r)
    BY <2>6 DEF LedgerNext, Progress, AfterPerform
  <2> QED BY <1>2, <2>1, <2>2, <2>3, <2>4, <2>5, <2>6 DEF Step
<1> QED BY <1>1, <1>2 DEF Next, vars

\* The reviews' commands implement the write command: atomic with their events,
\* retried safely, answered truly.
THEOREM ReviewIsWriteCommand == Spec => LedgerSafety
<1>1. Init => LedgerInit
  BY DEF Init
<1> QED BY <1>1, ReviewStepsLedger, PTL DEF Spec, LedgerSafety

-----------------------------------------------------------------------------
\* What the loop of createFamily has behind it stays authorized, since decisions
\* are only added; the family is inserted when it is through.
MembersChecked ==
  \A r \in Request : r.kind = "family" =>
    /\ next[r] <= Len(r.members) + 1
    /\ \A i \in 1..Len(r.members) : i < next[r] => Authorizes(r.members[i])
    /\ pc[r] \in {"performed", "audited"} => next[r] = Len(r.members) + 1

FamiliesAreRows == families = {r \in rows : r.kind = "family"}
MembersAuthorized == \A f \in families : \A i \in DOMAIN f.members : Authorizes(f.members[i])
Carries(b, f) ==
  f.id = b.family /\ b.authorizedBy = {f.members[i].decision : i \in DOMAIN f.members}
BriefsOfFamilies == \A b \in briefs : \E f \in families : Carries(b, f)

ReviewInv ==
  /\ LedgerInv
  /\ next \in [Request -> Nat \ {0}]
  /\ MembersChecked
  /\ FamiliesAreRows
  /\ MembersAuthorized
  /\ BriefsOfFamilies

LEMMA MembersAreSequence ==
  ASSUME NEW r \in Request, r.kind = "family"
  PROVE  Len(r.members) \in Nat /\ DOMAIN r.members = 1..Len(r.members)
BY ReviewAssumption, LenProperties

LEMMA InitReview == Init => ReviewInv
<1> SUFFICES ASSUME Init PROVE ReviewInv
  OBVIOUS
<1>1. LedgerInv
  BY InitLedger DEF Init
<1>2. next \in [Request -> Nat \ {0}] /\ \A r \in Request : next[r] = 1 /\ pc[r] = "unsent"
  BY DEF Init, LedgerInit
<1>3. MembersChecked
  BY <1>2, MembersAreSequence DEF MembersChecked
<1>4. FamiliesAreRows /\ MembersAuthorized /\ BriefsOfFamilies
  BY DEF Init, LedgerInit, FamiliesAreRows, MembersAuthorized, BriefsOfFamilies
<1> QED BY <1>1, <1>2, <1>3, <1>4 DEF ReviewInv

-----------------------------------------------------------------------------
\* Steps that commit nothing: they may move r on, or forget it.
LEMMA TablesStand ==
  ASSUME ReviewInv, LedgerInv', NEW r \in Request,
         UNCHANGED <<rows, decisions, families, briefs>>,
         next' \in [Request -> Nat \ {0}],
         \A s \in Request \ {r} : pc'[s] = pc[s] /\ next'[s] = next[s],
         r.kind = "family" =>
           /\ next'[r] <= Len(r.members) + 1
           /\ \A i \in 1..Len(r.members) : i < next'[r] => Authorizes(r.members[i])
           /\ pc'[r] \in {"performed", "audited"} => next'[r] = Len(r.members) + 1
  PROVE  ReviewInv'
<1> USE DEF ReviewInv
<1>1. \A m : Authorizes(m)' = Authorizes(m)
  BY DEF Authorizes
<1>2. MembersChecked'
  BY <1>1 DEF MembersChecked
<1>3. FamiliesAreRows' /\ MembersAuthorized' /\ BriefsOfFamilies'
  BY <1>1 DEF FamiliesAreRows, MembersAuthorized, BriefsOfFamilies
<1> QED BY <1>2, <1>3

\* The statement of the route, and of the client's page.
LEMMA RouteKeeps ==
  ASSUME ReviewInv, LedgerInv', NEW r \in Request,
         Load(r) \/ NotOffered(r) \/ Route(r)
  PROVE  ReviewInv'
<1>1. UNCHANGED <<rows, decisions, families, briefs, next>>
  BY DEF Load, NotOffered, Route, reviewVars, ledgerVars, BeforePerform, Refuse, Authorize,
     RecordDenied, RecordDeniedFails, Begin, Replay, LookupMisses
<1>2. \/ pc' = pc
      \/ \E label \in Labels \ {"performed", "audited"} : Goto(r, label)
  BY DEF Load, NotOffered, Route, ledgerVars, BeforePerform, Refuse, Authorize,
     RecordDenied, RecordDeniedFails, Begin, Replay, LookupMisses, Tell, Labels, InTxLabels
<1>3. /\ \A s \in Request \ {r} : pc'[s] = pc[s]
      /\ pc'[r] \in {"performed", "audited"} => pc'[r] = pc[r]
  BY <1>2 DEF Goto, ReviewInv, LedgerInv, LedgerTypeOK
<1> QED BY <1>1, <1>3, TablesStand DEF ReviewInv, MembersChecked

LEMMA AbortKeeps ==
  ASSUME ReviewInv, LedgerInv', NEW r \in Request, Abort(r)
  PROVE  ReviewInv'
<1>1. /\ UNCHANGED <<rows, decisions, families, briefs>>
      /\ next' = [next EXCEPT ![r] = 1] /\ pc' = [pc EXCEPT ![r] = "answered"]
  BY DEF Abort, Rollback, Forget, Tell, Goto
<1>2. /\ next' \in [Request -> Nat \ {0}] /\ next'[r] = 1 /\ pc'[r] = "answered"
      /\ \A s \in Request \ {r} : pc'[s] = pc[s] /\ next'[s] = next[s]
  BY <1>1 DEF ReviewInv, LedgerInv, LedgerTypeOK
<1> QED BY <1>1, <1>2, TablesStand, MembersAreSequence

\* The checks: a member that is passed is authorized.
LEMMA CheckKeeps ==
  ASSUME ReviewInv, LedgerInv', NEW r \in Request, CheckVersion(r) \/ CheckMember(r)
  PROVE  ReviewInv'
<1>1. CASE Abort(r)
  BY <1>1, AbortKeeps
<1>2. CASE Pass(r)
  <2>1. /\ UNCHANGED <<pc, rows, decisions, families, briefs>>
        /\ next' = [next EXCEPT ![r] = next[r] + 1]
    BY <1>2 DEF Pass, ledgerVars
  <2>2. /\ next' \in [Request -> Nat \ {0}] /\ next'[r] = next[r] + 1 /\ next[r] \in Nat
        /\ \A s \in Request \ {r} : next'[s] = next[s]
    BY <2>1 DEF ReviewInv
  <2>3. pc[r] = "performing"
    BY DEF CheckVersion, CheckMember, Deciding, Grouping
  <2>4. ASSUME r.kind = "family"
        PROVE  /\ next'[r] <= Len(r.members) + 1
               /\ \A i \in 1..Len(r.members) : i < next'[r] => Authorizes(r.members[i])
    <3>1. Len(r.members) \in Nat
      BY <2>4, MembersAreSequence
    <3>2. CheckMember(r)
      BY <2>4 DEF CheckVersion, Deciding
    <3>3. next[r] <= Len(r.members)
      BY <3>2 DEF CheckMember
    <3>4. Authorizes(r.members[next[r]])
      <4>1. ~Abort(r)
        BY <2>1, <2>3 DEF Abort, Rollback, Tell, Goto, ReviewInv, LedgerInv, LedgerTypeOK
      <4> QED BY <3>2, <4>1 DEF CheckMember
    <3>5. \A i \in 1..Len(r.members) : i < next[r] => Authorizes(r.members[i])
      BY <2>4 DEF ReviewInv, MembersChecked
    <3> QED BY <2>2, <3>1, <3>3, <3>4, <3>5
  <2> QED BY <2>1, <2>2, <2>3, <2>4, TablesStand
<1> QED BY <1>1, <1>2 DEF CheckVersion, CheckMember

\* The inserts, in the transaction: a family's when its loop is through.
LEMMA InsertKeeps ==
  ASSUME ReviewInv, LedgerInv', NEW r \in Request,
         Decide(r) \/ InsertFamily(r) \/ InsertBrief(r)
  PROVE  ReviewInv'
<1>1. CASE Abort(r)
  BY <1>1, AbortKeeps
<1>2. CASE Perform(r) /\ UNCHANGED <<decisions, families, briefs, next>>
  <2>1. UNCHANGED rows /\ pc' = [pc EXCEPT ![r] = "performed"]
    BY <1>2 DEF Perform, Goto
  <2>2. \A s \in Request \ {r} : pc'[s] = pc[s]
    BY <2>1 DEF ReviewInv, LedgerInv, LedgerTypeOK
  <2>3. r.kind = "family" => next[r] = Len(r.members) + 1
    BY DEF Decide, Deciding, InsertFamily, InsertBrief
  <2> QED BY <1>2, <2>1, <2>2, <2>3, TablesStand DEF ReviewInv, MembersChecked
<1> QED BY <1>1, <1>2 DEF Decide, InsertFamily, InsertBrief, reviewVars

LEMMA AppendKeeps ==
  ASSUME ReviewInv, LedgerInv', NEW r \in Request, AppendAudit(r), UNCHANGED reviewVars
  PROVE  ReviewInv'
<1>1. /\ UNCHANGED <<rows, decisions, families, briefs, next>>
      /\ pc[r] = "performed" /\ pc' = [pc EXCEPT ![r] = "audited"]
  BY DEF AppendAudit, Goto, reviewVars
<1>2. \A s \in Request \ {r} : pc'[s] = pc[s]
  BY <1>1 DEF ReviewInv, LedgerInv, LedgerTypeOK
<1> QED BY <1>1, <1>2, TablesStand DEF ReviewInv, MembersChecked

\* COMMIT: the family that becomes visible is of authorized members, and the brief
\* is of a family that is.
LEMMA PublishKeeps ==
  ASSUME ReviewInv, LedgerInv', NEW r \in Request,
         Commit(r) \/ CommitUnacknowledged(r), Publish(r)
  PROVE  ReviewInv'
<1> USE DEF ReviewInv
<1>1. /\ pc[r] = "audited" /\ pc' = [pc EXCEPT ![r] = "answered"]
      /\ rows' = rows \cup tx[r].rows /\ next' = [next EXCEPT ![r] = 1]
  BY DEF Commit, CommitUnacknowledged, Apply, Tell, Goto, Publish, Forget
<1>2. rows' = rows \cup {r}
  BY <1>1 DEF LedgerInv, TxHoldsItsWrites
<1>3. /\ next' \in [Request -> Nat \ {0}] /\ next'[r] = 1 /\ pc'[r] = "answered"
      /\ \A s \in Request \ {r} : pc'[s] = pc[s] /\ next'[s] = next[s]
  BY <1>1 DEF LedgerInv, LedgerTypeOK
<1>4. decisions \subseteq decisions' /\ \A m : Authorizes(m) => Authorizes(m)'
  BY DEF Publish, Authorizes
<1>5. MembersChecked'
  <2> SUFFICES ASSUME NEW s \in Request, s.kind = "family"
               PROVE  /\ next'[s] <= Len(s.members) + 1
                      /\ \A i \in 1..Len(s.members) : i < next'[s] => Authorizes(s.members[i])'
                      /\ pc'[s] \in {"performed", "audited"} => next'[s] = Len(s.members) + 1
    BY DEF MembersChecked
  <2>1. CASE s = r
    BY <1>3, <2>1, MembersAreSequence
  <2>2. CASE s # r
    BY <1>3, <1>4, <2>2 DEF MembersChecked
  <2> QED BY <2>1, <2>2
<1>6. families' = families \cup {q \in {r} : q.kind = "family"}
  BY DEF Publish, Wrote
<1>7. FamiliesAreRows'
  BY <1>2, <1>6 DEF FamiliesAreRows
<1>8. MembersAuthorized'
  <2>1. ASSUME r.kind = "family", NEW i \in DOMAIN r.members PROVE Authorizes(r.members[i])
    <3>1. i \in 1..Len(r.members) /\ Len(r.members) \in Nat
      BY <2>1, MembersAreSequence
    <3>2. next[r] = Len(r.members) + 1
      BY <1>1, <2>1 DEF MembersChecked
    <3> QED BY <2>1, <3>1, <3>2 DEF MembersChecked
  <2> QED BY <1>4, <1>6, <2>1 DEF MembersAuthorized
<1>9. BriefsOfFamilies'
  <2>1. \A b \in briefs' \ briefs : \E f \in families : Carries(b, f)
    BY DEF Publish, AddedBriefs, BriefOf, FamilyOf, Carries
  <2> QED BY <1>6, <2>1 DEF BriefsOfFamilies
<1> QED BY <1>3, <1>5, <1>7, <1>8, <1>9

LEMMA ReviewStep == ReviewInv /\ [Next]_vars => ReviewInv'
<1> SUFFICES ASSUME ReviewInv, [Next]_vars PROVE ReviewInv'
  OBVIOUS
<1>1. LedgerInv'
  BY ReviewStepsLedger, LedgerStep DEF ReviewInv
<1>2. CASE UNCHANGED vars
  BY <1>1, <1>2 DEF vars, ledgerVars, reviewVars, ReviewInv, MembersChecked, FamiliesAreRows,
     MembersAuthorized, BriefsOfFamilies, Authorizes
<1>3. ASSUME NEW r \in Request, Step(r) \/ Abort(r) PROVE ReviewInv'
  BY <1>1, <1>3, RouteKeeps, AbortKeeps, CheckKeeps, InsertKeeps, AppendKeeps, PublishKeeps
     DEF Step
<1> QED BY <1>2, <1>3 DEF Next

\* The inductive invariant of the reviews' commands.
THEOREM ReviewIsInvariant == Spec => []ReviewInv
BY InitReview, ReviewStep, PTL DEF Spec

\* article-production-service.ts, createFamily and createBrief: no member of a
\* family, and no brief of it, without an approval of the member's own opportunity;
\* a family is there exactly when its command is audited.
THEOREM FamiliesHaveApprovals == Spec => []FamiliesAreAuthorized
<1>1. ReviewInv => FamiliesAreAuthorized
  <2> SUFFICES ASSUME ReviewInv PROVE FamiliesAreAuthorized
    OBVIOUS
  <2>1. \A f \in families : \A i \in DOMAIN f.members : \E d \in decisions :
          d.req.id = f.members[i].decision /\ d.opp = f.members[i].opp /\ d.status = "APPROVED"
    BY DEF ReviewInv, MembersAuthorized, Authorizes
  <2>2. \A r \in Request : r.kind = "family" => (r \in families <=> Allowed(r) # {})
    BY DEF ReviewInv, LedgerInv, WrittenIffAudited, FamiliesAreRows
  <2>3. ASSUME NEW b \in briefs
        PROVE  \E f \in families :
                 /\ f.id = b.family
                 /\ \A i \in DOMAIN f.members : \E d \in decisions :
                      d.req.id \in b.authorizedBy /\ d.opp = f.members[i].opp
                      /\ d.status = "APPROVED"
    <3>1. PICK f \in families : Carries(b, f)
      BY DEF ReviewInv, BriefsOfFamilies
    <3> USE DEF Carries
    <3> QED BY <2>1, <3>1
  <2> QED BY <2>1, <2>2, <2>3 DEF FamiliesAreAuthorized
<1> QED BY <1>1, ReviewIsInvariant, PTL

-----------------------------------------------------------------------------
\* What is committed, and what a transaction under way has made of its decision.
Checked(r) == r.kind = "decide" /\ next[r] = 2
DecisionHolds(d) ==
  /\ d.req \in rows /\ d.opp = d.req.opp
  /\ d.at \in 1..now
  /\ d.version \in Nat \cup {NoVersion}
StampHolds(r) ==
  /\ r.kind = "decide" => next[r] \in {1, 2}
  /\ Checked(r) => pc[r] \in {"performing", "performed", "audited"}
  /\ r.kind = "decide" /\ pc[r] \in {"performed", "audited"} => Checked(r) /\ stamp[r] # 0
  /\ stamp[r] # 0 => r.kind = "decide" /\ pc[r] \in {"performed", "audited"}

\* The clock gives no moment twice, and who is stamped earlier than a committed
\* decision and not committed yet was under way together with it.
MomentsDiffer ==
  /\ \A d, e \in decisions : d.at = e.at => d = e
  /\ \A s \in Request, d \in decisions : d.at # stamp[s]
  /\ \A s, t \in Request : stamp[s] = stamp[t] /\ stamp[s] # 0 => s = t
EarlierHaveRaced ==
  \A s \in Request, d \in decisions : stamp[s] # 0 /\ stamp[s] < d.at => Raced(s, d.req)

\* A page that is still up to date shows a review that is open.
PageHolds(s) ==
  version[s] \in Nat =>
    /\ version[s] <= Cardinality(On(s.opp))
    /\ version[s] = Cardinality(On(s.opp)) => Reviewable(s.opp)

\* A decision that need not be the last one any more.
Overtaken(d) ==
  \/ d.status = "CHANGES_REQUESTED"
  \/ Contested(d) # {}
  \/ \E e \in On(d.opp) : ~Versioned(e)
LastUnlessOvertaken ==
  \A d \in decisions : Overtaken(d) \/ \A e \in On(d.opp) : e.at <= d.at

\* The decisions that were there when a version was compared.
CountedAtCheck(s, C) ==
  /\ C \subseteq On(s.opp) /\ Cardinality(C) = version[s]
  /\ \A e \in On(s.opp) \ C : Raced(e.req, s)
  /\ stamp[s] # 0 => \A e \in C : e.at < stamp[s]
CheckHolds(s) ==
  Checked(s) /\ version[s] # NoVersion =>
    /\ \E C \in SUBSET decisions : CountedAtCheck(s, C)
    /\ \A e \in On(s.opp) : Raced(e.req, s) \/ Overtaken(e)
CountedBy(d, C) ==
  /\ C \subseteq Before(d) /\ Cardinality(C) = d.version
  /\ Before(d) \ Contested(d) \subseteq C
VersionsHold == \A d \in decisions : Versioned(d) => \E C \in SUBSET decisions : CountedBy(d, C)

HistoryInv ==
  /\ ReviewInv
  /\ TypeOK
  /\ IsFiniteSet(decisions)
  /\ \A d \in decisions : DecisionHolds(d)
  /\ \A s \in Request : StampHolds(s) /\ CheckHolds(s) /\ PageHolds(s)
  /\ MomentsDiffer
  /\ EarlierHaveRaced
  /\ LastUnlessOvertaken
  /\ VersionsHold

LEMMA InitHistory == Init => HistoryInv
<1> SUFFICES ASSUME Init PROVE HistoryInv
  OBVIOUS
<1>1. ReviewInv
  BY InitReview
<1>2. /\ decisions = {} /\ families = {} /\ briefs = {} /\ now = 0
      /\ \A s \in Request : /\ next[s] = 1 /\ stamp[s] = 0 /\ pc[s] = "unsent"
                            /\ version[s] \in {NotLoaded, NoVersion}
  BY DEF Init, LedgerInit
<1>3. TypeOK
  BY <1>1, <1>2 DEF Init, TypeOK, ReviewInv, LedgerInv
<1>4. IsFiniteSet(decisions)
  BY <1>2, FS_EmptySet
<1>5. \A s \in Request : StampHolds(s) /\ CheckHolds(s) /\ PageHolds(s)
  BY <1>2 DEF StampHolds, CheckHolds, PageHolds, Checked, NotLoaded, NoVersion
<1>6. MomentsDiffer /\ EarlierHaveRaced /\ LastUnlessOvertaken /\ VersionsHold
  BY <1>2 DEF MomentsDiffer, EarlierHaveRaced, LastUnlessOvertaken, VersionsHold
<1> QED BY <1>1, <1>2, <1>3, <1>4, <1>5, <1>6 DEF HistoryInv

-----------------------------------------------------------------------------
\* Who raced with a committed request is settled when the other has begun.
LEMMA RacesStand ==
  ASSUME LedgerInv, [LedgerNext]_ledgerVars,
         NEW q \in rows, NEW s \in Request, s \in rows \/ InTx(s)
  PROVE  Raced(q, s)' = Raced(q, s)
<1>1. CASE overlap' = overlap
  BY <1>1 DEF Raced
<1>2. ASSUME NEW r \in Request, Begin(r) PROVE Raced(q, s)' = Raced(q, s)
  <2>1. pc[r] = "authorized" /\ overlap' = [overlap EXCEPT ![r] = Open]
    BY <1>2 DEF Begin
  <2>2. q # r /\ s # r /\ q \in Request
    BY <2>1 DEF LedgerInv, TxHoldsItsWrites, LedgerTypeOK, InTx, InTxLabels
  <2> QED BY <2>1, <2>2 DEF Raced, LedgerInv, LedgerTypeOK
<1>3. overlap' = overlap \/ \E r \in Request : Begin(r)
  BY DEF LedgerNext, ledgerVars, Progress, BeforePerform, AfterPerform, Refuse, Authorize,
     RecordDenied, RecordDeniedFails, Replay, LookupMisses, Perform, AppendAudit, Commit,
     CommitUnacknowledged, Rollback
<1> QED BY <1>1, <1>2, <1>3

LEMMA OnIsFinite ==
  ASSUME IsFiniteSet(decisions), NEW o
  PROVE  IsFiniteSet(On(o)) /\ Cardinality(On(o)) \in Nat
<1>1. On(o) \subseteq decisions
  BY DEF On
<1> QED BY <1>1, FS_Subset, FS_CardinalityType

\* Steps that record no decision: they may stamp r, check it, or forget it.
LEMMA HistoryStands ==
  ASSUME HistoryInv, ReviewInv', TypeOK', [LedgerNext]_ledgerVars, NEW r \in Request,
         decisions' = decisions, rows \subseteq rows', now <= now',
         \A s \in Request \ {r} : /\ pc'[s] = pc[s] /\ next'[s] = next[s]
                                  /\ stamp'[s] = stamp[s] /\ version'[s] = version[s],
         stamp'[r] \in {0, stamp[r], now + 1},
         StampHolds(r)', CheckHolds(r)', PageHolds(r)'
  PROVE  HistoryInv'
<1>1. LedgerInv /\ LedgerTypeOK /\ now \in Nat /\ now' \in Nat /\ stamp \in [Request -> 0..now]
  BY DEF HistoryInv, ReviewInv, TypeOK, LedgerInv
<1>2. \A d \in decisions : DecisionHolds(d) /\ d.req \in rows /\ d.req \in Request
  BY <1>1 DEF HistoryInv, DecisionHolds, LedgerTypeOK
<1>3. \A d \in decisions, s \in Request :
        s \in rows \/ InTx(s) => Raced(d.req, s)' = Raced(d.req, s)
  BY <1>1, <1>2, RacesStand
<1>4. \A o : On(o)' = On(o) /\ Latest(o)' = Latest(o)
  BY DEF On, Latest
<1>5. \A d \in decisions : Before(d)' = Before(d) /\ Contested(d)' = Contested(d)
  <2> TAKE d \in decisions
  <2>1. Before(d)' = Before(d)
    BY <1>4 DEF Before
  <2>2. \A e \in On(d.opp) : Raced(e.req, d.req)' = Raced(e.req, d.req)
    BY <1>2, <1>3 DEF On
  <2>3. Contested(d)' = Contested(d)
    BY <1>4, <2>2 DEF Contested
  <2> QED BY <2>1, <2>3
<1>6. \A d \in decisions : Overtaken(d)' = Overtaken(d)
  BY <1>4, <1>5 DEF Overtaken
<1>7. \A d \in decisions : DecisionHolds(d)'
  BY <1>1, <1>2 DEF DecisionHolds
<1>8. \A s \in Request \ {r} :
        /\ StampHolds(s) /\ CheckHolds(s) /\ PageHolds(s)
        /\ Checked(s)' = Checked(s)
  BY DEF HistoryInv, Checked
<1>9. \A s \in Request : StampHolds(s)'
  <2>1. \A s \in Request \ {r} : StampHolds(s)'
    BY <1>8 DEF StampHolds
  <2> QED BY <2>1
<1>10. \A s \in Request : PageHolds(s)'
  <2>1. \A s \in Request \ {r} : PageHolds(s)'
    BY <1>4, <1>8 DEF PageHolds, Reviewable
  <2> QED BY <2>1
<1>11. \A s \in Request : CheckHolds(s)'
  <2> SUFFICES ASSUME NEW s \in Request \ {r}, Checked(s), version[s] # NoVersion
               PROVE  /\ \E C \in SUBSET decisions : CountedAtCheck(s, C)'
                      /\ \A e \in On(s.opp) : Raced(e.req, s)' \/ Overtaken(e)'
    BY <1>4, <1>8 DEF CheckHolds
  <2>1. InTx(s)
    BY <1>8 DEF StampHolds, InTx, InTxLabels
  <2>2. PICK C \in SUBSET decisions : CountedAtCheck(s, C)
    BY <1>8 DEF CheckHolds
  <2>3. \A e \in On(s.opp) : Raced(e.req, s) \/ Overtaken(e)
    BY <1>8 DEF CheckHolds
  <2>4. On(s.opp) \subseteq decisions
    BY DEF On
  <2>5. CountedAtCheck(s, C)'
    BY <1>3, <1>4, <2>1, <2>2, <2>4 DEF CountedAtCheck
  <2>6. \A e \in On(s.opp) : Raced(e.req, s)' \/ Overtaken(e)'
    BY <1>3, <1>6, <2>1, <2>3, <2>4
  <2> QED BY <2>5, <2>6
<1>12. MomentsDiffer'
  <2>1. MomentsDiffer
    BY DEF HistoryInv
  <2>2. \A d \in decisions : d.at \in 1..now
    BY <1>2 DEF DecisionHolds
  <2>3. \A s \in Request : stamp[s] \in 0..now
    BY <1>1
  <2>4. \A s \in Request, d \in decisions : d.at # stamp'[s]
    <3> TAKE s \in Request, d \in decisions
    <3>1. d.at \in 1..now /\ d.at # stamp[s]
      BY <2>1, <2>2 DEF MomentsDiffer
    <3>2. stamp'[s] \in {0, stamp[s], now + 1}
      OBVIOUS
    <3> QED BY <1>1, <3>1, <3>2
  <2>5. \A s, t \in Request : stamp'[s] = stamp'[t] /\ stamp'[s] # 0 => s = t
    <3> SUFFICES ASSUME NEW s \in Request, NEW t \in Request \ {s},
                        stamp'[s] = stamp'[t], stamp'[s] # 0
                 PROVE  FALSE
      OBVIOUS
    <3>1. stamp[s] \in 0..now /\ stamp[t] \in 0..now /\ (stamp[s] = stamp[t] => stamp[s] = 0)
      BY <2>1, <2>3 DEF MomentsDiffer
    <3>2. \/ stamp'[s] = stamp[s] /\ stamp'[t] = stamp[t]
          \/ stamp'[s] = now + 1 /\ stamp'[t] = stamp[t]
          \/ stamp'[s] = stamp[s] /\ stamp'[t] = now + 1
      OBVIOUS
    <3> QED BY <1>1, <3>1, <3>2
  <2> QED BY <2>1, <2>4, <2>5 DEF MomentsDiffer
<1>13. EarlierHaveRaced'
  <2> SUFFICES ASSUME NEW s \in Request, NEW d \in decisions, stamp'[s] # 0, stamp'[s] < d.at
               PROVE  Raced(s, d.req)'
    BY DEF EarlierHaveRaced
  <2>1. d.at \in 1..now /\ stamp[s] \in 0..now
    BY <1>1, <1>2 DEF DecisionHolds
  <2>2. stamp'[s] = stamp[s]
    BY <1>1, <2>1
  <2>3. Raced(s, d.req)
    BY <2>2 DEF HistoryInv, EarlierHaveRaced
  <2>4. InTx(s)
    BY <2>2 DEF HistoryInv, StampHolds, InTx, InTxLabels
  <2> QED BY <1>3, <2>3, <2>4 DEF Raced
<1>14. LastUnlessOvertaken'
  BY <1>4, <1>6 DEF HistoryInv, LastUnlessOvertaken
<1>15. VersionsHold'
  BY <1>5 DEF HistoryInv, VersionsHold, CountedBy, Versioned
<1> QED BY <1>7, <1>9, <1>10, <1>11, <1>12, <1>13, <1>14, <1>15 DEF HistoryInv


-----------------------------------------------------------------------------
\* The tables stay typed: what a commit adds is a decision or a brief of a family.
LEMMA PublishTypes ==
  ASSUME HistoryInv, ReviewInv', NEW r \in Request,
         Commit(r) \/ CommitUnacknowledged(r), Publish(r)
  PROVE  TypeOK' /\ IsFiniteSet(decisions')
<1>1. /\ TypeOK /\ ReviewInv /\ IsFiniteSet(decisions) /\ StampHolds(r)
      /\ LedgerTypeOK /\ LedgerTypeOK'
  BY DEF HistoryInv, TypeOK, ReviewInv, LedgerInv
<1>2. /\ version' = version /\ now' = now /\ stamp' = [stamp EXCEPT ![r] = 0]
      /\ decisions' = decisions \cup {DecisionOf(q) : q \in Wrote(r, "decide")}
      /\ briefs' = briefs \cup AddedBriefs(r)
  BY DEF Publish, Forget
<1>3. stamp' \in [Request -> 0..now']
  BY <1>1, <1>2 DEF TypeOK
<1>4. families' \subseteq Request
  BY <1>1 DEF ReviewInv, FamiliesAreRows, LedgerTypeOK
<1>5. \/ decisions' = decisions
      \/ r.kind = "decide" /\ decisions' = decisions \cup {DecisionOf(r)}
  BY <1>2 DEF Wrote
<1>6. r.kind = "decide" => DecisionOf(r) \in Decision
  <2>1. pc[r] = "audited"
    BY DEF Commit, CommitUnacknowledged, Apply
  <2>2. version[r] \in Int /\ stamp[r] \in Nat
    BY <1>1 DEF TypeOK, NotLoaded, NoVersion
  <2>3. StatusOf(r) \in Statuses
    BY DEF StatusOf, Statuses
  <2>4. r.kind = "decide" => r.opp \in Opportunity
    BY ReviewAssumption
  <2> QED BY <2>2, <2>3, <2>4 DEF DecisionOf, Decision
<1>7. decisions' \subseteq Decision /\ IsFiniteSet(decisions')
  BY <1>1, <1>5, <1>6, FS_AddElement DEF TypeOK
<1>8. briefs' \subseteq BriefRow
  <2>1. ASSUME NEW f \in families, f.id = r.family PROVE BriefOf(r, f) \in BriefRow
    <3>1. f \in Request /\ f.kind = "family"
      BY <1>1 DEF ReviewInv, FamiliesAreRows, LedgerTypeOK
    <3>2. f.id \in Nat /\ f.members \in Seq(Member) \ {<<>>}
      BY <3>1, ReviewAssumption
    <3>3. /\ Len(f.members) \in Nat \ {0} /\ DOMAIN f.members = 1..Len(f.members)
          /\ \A i \in 1..Len(f.members) : f.members[i] \in Member
      BY <3>2, LenProperties, EmptySeq, ElementOfSeq
    <3>4. \A i \in DOMAIN f.members : f.members[i].decision \in Nat
      BY <3>3 DEF Member
    <3>5. 1 \in DOMAIN f.members
      BY <3>3
    <3>6. {f.members[i].decision : i \in DOMAIN f.members} \in (SUBSET Nat) \ {{}}
      BY <3>4, <3>5
    <3> QED BY <3>2, <3>6 DEF BriefOf, BriefRow
  <2>2. AddedBriefs(r) \subseteq BriefRow
    BY <2>1 DEF AddedBriefs, FamilyOf
  <2> QED BY <1>1, <1>2, <2>2 DEF TypeOK
<1>9. next' \in [Request -> Nat \ {0}] /\ version' \in [Request -> Nat \cup {NotLoaded, NoVersion}]
      /\ now' \in Nat
  BY <1>1, <1>2 DEF ReviewInv, TypeOK
<1> QED BY <1>1, <1>3, <1>4, <1>7, <1>8, <1>9 DEF TypeOK

\* The others leave the tables alone.
LEMMA QuietTypes ==
  ASSUME HistoryInv, ReviewInv', UNCHANGED <<decisions, families, briefs>>,
         version' \in [Request -> Nat \cup {NotLoaded, NoVersion}],
         now' \in Nat, stamp' \in [Request -> 0..now']
  PROVE  TypeOK'
BY DEF HistoryInv, TypeOK, ReviewInv, LedgerInv

\* A page that is loaded counts the decisions of a review that is open.
LEMMA LoadHistory ==
  ASSUME HistoryInv, ReviewInv', [LedgerNext]_ledgerVars, NEW r \in Request, Load(r)
  PROVE  HistoryInv'
<1>1. /\ UNCHANGED <<pc, rows, decisions, families, briefs, next, stamp, now>>
      /\ pc[r] = "unsent" /\ Reviewable(r.opp)
      /\ version' = [version EXCEPT ![r] = Cardinality(On(r.opp))]
  BY DEF Load, ledgerVars
<1>2. Cardinality(On(r.opp)) \in Nat
  BY OnIsFinite DEF HistoryInv
<1>3. TypeOK
  BY DEF HistoryInv
<1>4. TypeOK'
  BY <1>1, <1>2, <1>3, QuietTypes DEF TypeOK
<1>5. /\ version'[r] = Cardinality(On(r.opp))
      /\ \A s \in Request \ {r} : version'[s] = version[s]
  BY <1>1, <1>3 DEF TypeOK
<1>6. On(r.opp)' = On(r.opp) /\ Reviewable(r.opp)'
  BY <1>1 DEF On, Reviewable, Latest
<1>7. PageHolds(r)'
  BY <1>2, <1>5, <1>6 DEF PageHolds
<1>8. StampHolds(r) /\ ~Checked(r)
  BY <1>1 DEF HistoryInv, StampHolds
<1>9. StampHolds(r)' /\ CheckHolds(r)'
  BY <1>1, <1>8 DEF StampHolds, CheckHolds, Checked
<1>10. now' >= now /\ stamp'[r] = stamp[r]
  BY <1>1, <1>3 DEF TypeOK
<1> QED BY <1>1, <1>4, <1>5, <1>7, <1>9, <1>10, HistoryStands

\* Before perform, and after it: what the transaction has made stays as it is.
LEMMA MoveHistory ==
  ASSUME HistoryInv, ReviewInv', [LedgerNext]_ledgerVars, NEW r \in Request,
         NotOffered(r) \/ Route(r) \/ (AppendAudit(r) /\ UNCHANGED reviewVars)
  PROVE  HistoryInv'
<1>1. UNCHANGED <<rows, reviewVars>>
  BY DEF NotOffered, Route, reviewVars, BeforePerform, Refuse, Authorize,
     RecordDenied, RecordDeniedFails, Begin, Replay, LookupMisses, AppendAudit
<1>2. TypeOK /\ LedgerTypeOK /\ StampHolds(r) /\ CheckHolds(r) /\ PageHolds(r)
  BY DEF HistoryInv, TypeOK
<1>3. TypeOK'
  BY <1>1, <1>2, QuietTypes DEF TypeOK, reviewVars
<1>4. \/ /\ pc[r] \in {"unsent", "authorized", "begun"}
         /\ \E label \in {"authorized", "begun", "performing", "answered"} : Goto(r, label)
      \/ pc[r] = "performed" /\ Goto(r, "audited")
  BY DEF NotOffered, Route, BeforePerform, Refuse, Authorize, RecordDenied, RecordDeniedFails,
     Begin, Replay, LookupMisses, AppendAudit, Tell
<1>5. /\ \A s \in Request \ {r} : pc'[s] = pc[s]
      /\ \/ pc[r] \notin InTxLabels \ {"begun"} /\ pc'[r] \notin {"performed", "audited"}
         \/ pc[r] = "performed" /\ pc'[r] = "audited"
  BY <1>2, <1>4 DEF Goto, LedgerTypeOK, InTxLabels
<1>6. StampHolds(r)' /\ Checked(r)' = Checked(r)
      /\ (pc[r] \notin InTxLabels \ {"begun"} => ~Checked(r))
  BY <1>1, <1>2, <1>5 DEF StampHolds, Checked, InTxLabels, reviewVars
<1>7. PageHolds(r)'
  BY <1>1, <1>2 DEF PageHolds, reviewVars, On, Reviewable, Latest
<1>8. CheckHolds(r)'
  <2>1. CASE ~Checked(r)
    BY <1>6, <2>1 DEF CheckHolds
  <2>2. CASE Checked(r)
    <3>1. AppendAudit(r) /\ overlap' = overlap
      BY <1>5, <1>6, <2>2 DEF NotOffered, Route, BeforePerform, Refuse, Authorize, RecordDenied,
         RecordDeniedFails, Begin, Replay, LookupMisses, AppendAudit, InTxLabels, StampHolds
    <3> QED BY <1>1, <1>2, <3>1 DEF CheckHolds, Checked, CountedAtCheck, reviewVars, Raced, On,
            Overtaken, Contested, Versioned
  <2> QED BY <2>1, <2>2
<1>9. UNCHANGED <<decisions, next, stamp, version, now>> /\ now' >= now
  BY <1>1, <1>2 DEF reviewVars, TypeOK
<1> QED BY <1>1, <1>3, <1>5, <1>6, <1>7, <1>8, <1>9, HistoryStands

LEMMA AbortHistory ==
  ASSUME HistoryInv, ReviewInv', [LedgerNext]_ledgerVars, NEW r \in Request, Abort(r)
  PROVE  HistoryInv'
<1>1. /\ UNCHANGED <<rows, decisions, families, briefs, version, now>>
      /\ next' = [next EXCEPT ![r] = 1] /\ stamp' = [stamp EXCEPT ![r] = 0]
      /\ pc' = [pc EXCEPT ![r] = "answered"]
  BY DEF Abort, Rollback, Forget, Tell, Goto
<1>2. TypeOK /\ LedgerTypeOK /\ PageHolds(r)
  BY DEF HistoryInv, TypeOK
<1>3. stamp' \in [Request -> 0..now'] /\ now' >= now
  BY <1>1, <1>2 DEF TypeOK
<1>4. TypeOK'
  BY <1>1, <1>2, <1>3, QuietTypes DEF TypeOK
<1>5. /\ \A s \in Request \ {r} : pc'[s] = pc[s] /\ next'[s] = next[s] /\ stamp'[s] = stamp[s]
      /\ next'[r] = 1 /\ stamp'[r] = 0 /\ pc'[r] = "answered"
  BY <1>1, <1>2 DEF TypeOK, LedgerTypeOK
<1>6. StampHolds(r)' /\ CheckHolds(r)'
  BY <1>5 DEF StampHolds, CheckHolds, Checked
<1>7. PageHolds(r)'
  BY <1>1, <1>2 DEF PageHolds, On, Reviewable, Latest
<1> QED BY <1>1, <1>3, <1>4, <1>5, <1>6, <1>7, HistoryStands

\* The version that passes is the page's: the review is still open, so each of its
\* decisions was overtaken.
LEMMA VersionCompared ==
  ASSUME HistoryInv, NEW r \in Request, version[r] = Cardinality(On(r.opp)), stamp[r] = 0
  PROVE  /\ CountedAtCheck(r, On(r.opp))
         /\ \A e \in On(r.opp) : Overtaken(e)
<1>1. CountedAtCheck(r, On(r.opp))
  BY DEF CountedAtCheck
<1>2. Reviewable(r.opp)
  <2>1. version[r] \in Nat /\ PageHolds(r)
    BY OnIsFinite DEF HistoryInv
  <2> QED BY <2>1 DEF PageHolds
<1>3. ASSUME NEW e \in On(r.opp), ~Overtaken(e) PROVE FALSE
  <2>1. e \in decisions /\ e.opp = r.opp
    BY DEF On
  <2>2. \A d \in On(r.opp) : d.at <= e.at
    BY <1>3, <2>1 DEF HistoryInv, LastUnlessOvertaken
  <2>3. Latest(r.opp) \in On(r.opp) /\ \A d \in On(r.opp) : d.at <= Latest(r.opp).at
    BY <2>2 DEF Latest
  <2>4. Latest(r.opp) \in decisions /\ Latest(r.opp).at <= e.at /\ e.at <= Latest(r.opp).at
    BY <2>2, <2>3 DEF On
  <2>5. Latest(r.opp).at \in Nat /\ e.at \in Nat
    BY <2>1, <2>4 DEF HistoryInv, DecisionHolds
  <2>6. Latest(r.opp) = e
    BY <2>1, <2>4, <2>5 DEF HistoryInv, MomentsDiffer
  <2>7. e.status = "CHANGES_REQUESTED"
    BY <1>2, <2>6 DEF Reviewable
  <2> QED BY <1>3, <2>7 DEF Overtaken
<1> QED BY <1>1, <1>3

LEMMA CheckHistory ==
  ASSUME HistoryInv, ReviewInv', [LedgerNext]_ledgerVars, NEW r \in Request,
         CheckVersion(r) \/ CheckMember(r)
  PROVE  HistoryInv'
<1>1. CASE Abort(r)
  BY <1>1, AbortHistory
<1>2. CASE Pass(r) /\ pc[r] = "performing"
  <2>1. /\ UNCHANGED <<pc, overlap, rows, decisions, families, briefs, version, stamp, now>>
        /\ next' = [next EXCEPT ![r] = @ + 1]
    BY <1>2 DEF Pass, ledgerVars
  <2>2. TypeOK /\ LedgerTypeOK /\ PageHolds(r) /\ StampHolds(r)
    BY DEF HistoryInv, TypeOK
  <2>3. TypeOK' /\ now' >= now
    BY <2>1, <2>2, QuietTypes DEF TypeOK
  <2>4. /\ \A s \in Request \ {r} : next'[s] = next[s]
        /\ next'[r] = next[r] + 1 /\ pc'[r] = "performing" /\ stamp[r] = 0
    BY <1>2, <2>1, <2>2 DEF TypeOK, StampHolds
  <2>5. PageHolds(r)'
    BY <2>1, <2>2 DEF PageHolds, On, Reviewable, Latest
  <2>6. CASE r.kind = "family"
    <3>1. StampHolds(r)' /\ CheckHolds(r)'
      BY <2>1, <2>4, <2>6 DEF StampHolds, CheckHolds, Checked
    <3> QED BY <2>1, <2>3, <2>4, <2>5, <3>1, HistoryStands
  <2>7. CASE CheckVersion(r)
    <3>1. r.kind = "decide" /\ next[r] = 1
      BY <2>7 DEF CheckVersion, Deciding
    <3>2. StampHolds(r)'
      BY <2>1, <2>4, <3>1 DEF StampHolds, Checked
    <3>3. ~Abort(r)
      BY <1>2, <2>1, <2>2 DEF Abort, Rollback, Tell, Goto, LedgerTypeOK
    <3>4. version[r] \in {NoVersion, Cardinality(On(r.opp))}
      BY <2>7, <3>3 DEF CheckVersion
    <3>5. CheckHolds(r)'
      <4> SUFFICES ASSUME version[r] # NoVersion
                   PROVE  /\ \E C \in SUBSET decisions : CountedAtCheck(r, C)'
                          /\ \A e \in On(r.opp) : Overtaken(e)'
        BY <2>1 DEF CheckHolds, On
      <4>1. CountedAtCheck(r, On(r.opp)) /\ \A e \in On(r.opp) : Overtaken(e)
        BY <2>4, <3>4, VersionCompared
      <4>2. On(r.opp) \subseteq decisions
        BY DEF On
      <4>3. \A C : CountedAtCheck(r, C) => CountedAtCheck(r, C)'
        BY <2>1 DEF CountedAtCheck, On, Raced
      <4>4. \A e : Overtaken(e) => Overtaken(e)'
        BY <2>1 DEF Overtaken, Contested, On, Raced, Versioned
      <4> QED BY <4>1, <4>2, <4>3, <4>4
    <3> QED BY <2>1, <2>3, <2>4, <2>5, <3>2, <3>5, HistoryStands
  <2> QED BY <2>6, <2>7 DEF CheckMember, Grouping
<1> QED BY <1>1, <1>2 DEF CheckVersion, CheckMember, Deciding, Grouping

\* The clock stamps a decision later than all that are there.
LEMMA InsertHistory ==
  ASSUME HistoryInv, ReviewInv', [LedgerNext]_ledgerVars, NEW r \in Request,
         Decide(r) \/ InsertFamily(r) \/ InsertBrief(r)
  PROVE  HistoryInv'
<1>1. TypeOK /\ LedgerTypeOK /\ PageHolds(r) /\ StampHolds(r) /\ CheckHolds(r)
      /\ now \in Nat /\ \A d \in decisions : DecisionHolds(d)
  BY DEF HistoryInv, TypeOK
<1>2. CASE Abort(r)
  BY <1>2, AbortHistory
<1>3. CASE Perform(r) /\ r.kind # "decide" /\ UNCHANGED reviewVars
  <2>1. /\ UNCHANGED <<rows, decisions, families, briefs, version, next, stamp, now>>
        /\ pc' = [pc EXCEPT ![r] = "performed"] /\ pc[r] = "performing"
    BY <1>3 DEF Perform, Goto, reviewVars
  <2>2. TypeOK' /\ now' >= now
    BY <1>1, <2>1, QuietTypes DEF TypeOK
  <2>3. \A s \in Request \ {r} : pc'[s] = pc[s]
    BY <1>1, <2>1 DEF LedgerTypeOK
  <2>4. PageHolds(r)'
    BY <1>1, <2>1 DEF PageHolds, On, Reviewable, Latest
  <2>5. StampHolds(r)' /\ CheckHolds(r)'
    BY <1>1, <1>3, <2>1 DEF StampHolds, CheckHolds, Checked
  <2> QED BY <2>1, <2>2, <2>3, <2>4, <2>5, HistoryStands
<1>4. CASE Decide(r)
  <2>1. /\ UNCHANGED <<overlap, rows, decisions, families, briefs, version, next>>
        /\ pc' = [pc EXCEPT ![r] = "performed"] /\ now' = now + 1
        /\ stamp' = [stamp EXCEPT ![r] = now + 1]
        /\ r.kind = "decide" /\ next[r] = 2
    BY <1>4 DEF Decide, Deciding, Perform, Goto
  <2>2. stamp' \in [Request -> 0..now'] /\ now' \in Nat /\ now' >= now
    BY <1>1, <2>1 DEF TypeOK
  <2>3. TypeOK'
    BY <1>1, <2>1, <2>2, QuietTypes DEF TypeOK
  <2>4. /\ \A s \in Request \ {r} : pc'[s] = pc[s] /\ stamp'[s] = stamp[s]
        /\ pc'[r] = "performed" /\ stamp'[r] = now + 1
    BY <1>1, <2>1 DEF LedgerTypeOK, TypeOK
  <2>5. PageHolds(r)'
    BY <1>1, <2>1 DEF PageHolds, On, Reviewable, Latest
  <2>6. StampHolds(r)'
    BY <1>1, <2>1, <2>4 DEF StampHolds, Checked
  <2>7. CheckHolds(r)'
    <3> SUFFICES ASSUME version[r] # NoVersion
                 PROVE  /\ \E C \in SUBSET decisions : CountedAtCheck(r, C)'
                        /\ \A e \in On(r.opp) : Raced(e.req, r)' \/ Overtaken(e)'
      BY <2>1 DEF CheckHolds, On
    <3>1. Checked(r)
      BY <2>1 DEF Checked
    <3>2. PICK C \in SUBSET decisions : CountedAtCheck(r, C)
      BY <1>1, <3>1 DEF CheckHolds
    <3>3. \A e \in On(r.opp) : Raced(e.req, r) \/ Overtaken(e)
      BY <1>1, <3>1 DEF CheckHolds
    <3>4. \A e \in C : e.at < now + 1
      BY <1>1, <3>2 DEF DecisionHolds
    <3>5. CountedAtCheck(r, C)'
      BY <2>1, <2>4, <3>2, <3>4 DEF CountedAtCheck, On, Raced
    <3>6. \A e : /\ Overtaken(e) => Overtaken(e)'
                 /\ Raced(e.req, r) => Raced(e.req, r)'
      BY <2>1 DEF Overtaken, Contested, On, Raced, Versioned
    <3> QED BY <3>3, <3>5, <3>6
  <2> QED BY <2>1, <2>2, <2>3, <2>4, <2>5, <2>6, <2>7, HistoryStands
<1> QED BY <1>2, <1>3, <1>4 DEF InsertFamily, InsertBrief, Grouping

-----------------------------------------------------------------------------
\* COMMIT of a decision n.  Who is under way has raced with it; who recorded a later
\* one while it was under way has too; the others count one decision more.
LEMMA RecordHistory ==
  ASSUME HistoryInv, ReviewInv', TypeOK', IsFiniteSet(decisions'), NEW r \in Request,
         r.kind = "decide", Commit(r) \/ CommitUnacknowledged(r), Publish(r)
  PROVE  HistoryInv'
<1>1. /\ LedgerInv /\ LedgerTypeOK /\ TypeOK /\ now \in Nat /\ stamp \in [Request -> 0..now]
      /\ \A d \in decisions : DecisionHolds(d)
      /\ \A s \in Request : StampHolds(s) /\ CheckHolds(s) /\ PageHolds(s)
      /\ MomentsDiffer /\ EarlierHaveRaced
  BY DEF HistoryInv, ReviewInv, LedgerInv, TypeOK
<1>2. PICK n : n = DecisionOf(r)
  OBVIOUS
<1>3. /\ pc[r] = "audited" /\ pc' = [pc EXCEPT ![r] = "answered"]
      /\ rows' = rows \cup tx[r].rows /\ UNCHANGED <<overlap, version, now>>
      /\ next' = [next EXCEPT ![r] = 1] /\ stamp' = [stamp EXCEPT ![r] = 0]
      /\ decisions' = decisions \cup {n}
  BY <1>2 DEF Commit, CommitUnacknowledged, Apply, Tell, Goto, Publish, Forget, Wrote
<1>4. rows' = rows \cup {r} /\ r \notin rows
  BY <1>1, <1>3 DEF LedgerInv, TxHoldsItsWrites
<1>5. /\ n.req = r /\ n.opp = r.opp /\ n.at = stamp[r] /\ n.version = version[r]
      /\ Checked(r) /\ stamp[r] # 0 /\ stamp[r] \in 1..now /\ InTx(r)
  BY <1>1, <1>2, <1>3 DEF DecisionOf, StampHolds, InTx, InTxLabels
<1>6. n \notin decisions
  BY <1>1, <1>4, <1>5 DEF DecisionHolds
<1>7. /\ \A s \in Request \ {r} : pc'[s] = pc[s] /\ next'[s] = next[s] /\ stamp'[s] = stamp[s]
      /\ pc'[r] = "answered" /\ next'[r] = 1 /\ stamp'[r] = 0
  BY <1>1, <1>3 DEF TypeOK, LedgerTypeOK
<1>8. \A q, s : Raced(q, s)' = Raced(q, s)
  BY <1>3 DEF Raced
<1>9. \A s \in Request \ {r} : InTx(s) => Raced(r, s) /\ Raced(s, r)
  BY <1>1, <1>5 DEF LedgerInv, OpenHaveRaced, Raced
<1>10. \A o : On(o)' = On(o) \cup (IF o = r.opp THEN {n} ELSE {})
  BY <1>3, <1>5 DEF On
<1>11. \A d \in decisions : /\ d.at \in 1..now /\ d.at # stamp[r] /\ d.req \in Request
  BY <1>1 DEF DecisionHolds, MomentsDiffer, LedgerTypeOK
<1>12. \A d \in decisions : Overtaken(d) => Overtaken(d)'
  BY <1>8, <1>10 DEF Overtaken, Contested, Versioned
<1>13. \A d \in decisions' : DecisionHolds(d)'
  <2>1. \A d \in decisions : DecisionHolds(d)'
    BY <1>1, <1>3 DEF DecisionHolds
  <2>2. version[r] \in Nat \cup {NoVersion}
    <3> SUFFICES ASSUME version[r] # NoVersion PROVE version[r] \in Nat
      OBVIOUS
    <3>1. PICK C \in SUBSET decisions : CountedAtCheck(r, C)
      BY <1>1, <1>5 DEF CheckHolds
    <3>2. Cardinality(C) \in Nat
      BY FS_Subset, FS_CardinalityType DEF HistoryInv
    <3> QED BY <3>1, <3>2 DEF CountedAtCheck
  <2>3. DecisionHolds(n)'
    BY <1>3, <1>4, <1>5, <2>2 DEF DecisionHolds
  <2> QED BY <1>3, <2>1, <2>3
<1>14. \A s \in Request : StampHolds(s)'
  BY <1>1, <1>7 DEF StampHolds, Checked
<1>15. \A s \in Request : CheckHolds(s)'
  <2> SUFFICES ASSUME NEW s \in Request, Checked(s)', version[s] # NoVersion
               PROVE  /\ \E C \in SUBSET decisions' : CountedAtCheck(s, C)'
                      /\ \A e \in On(s.opp)' : Raced(e.req, s) \/ Overtaken(e)'
    BY <1>3, <1>8 DEF CheckHolds
  <2>1. s # r /\ Checked(s)
    BY <1>7 DEF Checked
  <2>2. Raced(r, s)
    BY <1>1, <1>9, <2>1 DEF StampHolds, InTx, InTxLabels
  <2>3. PICK C \in SUBSET decisions : CountedAtCheck(s, C)
    BY <1>1, <2>1 DEF CheckHolds
  <2>4. \A e \in On(s.opp) : Raced(e.req, s) \/ Overtaken(e)
    BY <1>1, <2>1 DEF CheckHolds
  <2>5. CountedAtCheck(s, C)'
    BY <1>3, <1>5, <1>7, <1>8, <1>10, <2>1, <2>2, <2>3 DEF CountedAtCheck
  <2>6. \A e \in On(s.opp) : e \in decisions
    BY DEF On
  <2> QED BY <1>3, <1>5, <1>10, <1>12, <2>2, <2>4, <2>5, <2>6
<1>16. \A s \in Request : PageHolds(s)'
  <2> SUFFICES ASSUME NEW s \in Request, version[s] \in Nat
               PROVE  /\ version[s] <= Cardinality(On(s.opp)')
                      /\ version[s] = Cardinality(On(s.opp)') => Reviewable(s.opp)'
    BY <1>3 DEF PageHolds
  <2>1. /\ version[s] <= Cardinality(On(s.opp))
        /\ version[s] = Cardinality(On(s.opp)) => Reviewable(s.opp)
    BY <1>1 DEF PageHolds
  <2>2. CASE s.opp = r.opp
    <3>1. IsFiniteSet(On(s.opp)) /\ Cardinality(On(s.opp)) \in Nat
      BY OnIsFinite DEF HistoryInv
    <3>2. On(s.opp)' = On(s.opp) \cup {n} /\ n \notin On(s.opp)
      BY <1>6, <1>10, <2>2 DEF On
    <3>3. Cardinality(On(s.opp)') = Cardinality(On(s.opp)) + 1
      BY <3>1, <3>2, FS_AddElement
    <3> QED BY <2>1, <3>1, <3>3
  <2>3. CASE s.opp # r.opp
    <3>1. On(s.opp)' = On(s.opp)
      BY <1>10, <2>3
    <3> QED BY <2>1, <3>1 DEF Reviewable, Latest
  <2> QED BY <2>2, <2>3
<1>17. MomentsDiffer'
  <2>1. \A d, e \in decisions' : d.at = e.at => d = e
    BY <1>1, <1>3, <1>5, <1>11 DEF MomentsDiffer
  <2>2. \A s \in Request, d \in decisions' : d.at # stamp'[s]
    BY <1>1, <1>3, <1>5, <1>7, <1>11 DEF MomentsDiffer
  <2>3. \A s, t \in Request : stamp'[s] = stamp'[t] /\ stamp'[s] # 0 => s = t
    BY <1>1, <1>7 DEF MomentsDiffer
  <2> QED BY <2>1, <2>2, <2>3 DEF MomentsDiffer
<1>18. EarlierHaveRaced'
  <2> SUFFICES ASSUME NEW s \in Request, NEW d \in decisions', stamp'[s] # 0, stamp'[s] < d.at
               PROVE  Raced(s, d.req)
    BY <1>8 DEF EarlierHaveRaced
  <2>1. s # r /\ stamp'[s] = stamp[s] /\ InTx(s)
    BY <1>1, <1>7 DEF StampHolds, InTx, InTxLabels
  <2> QED BY <1>1, <1>3, <1>5, <1>9, <2>1 DEF EarlierHaveRaced
<1>19. LastUnlessOvertaken'
  <2> SUFFICES ASSUME NEW d \in decisions', ~Overtaken(d)', NEW e \in On(d.opp)'
               PROVE  e.at <= d.at
    BY DEF LastUnlessOvertaken
  <2>1. \A q \in On(d.opp)' : q.version # NoVersion /\ ~Raced(q.req, d.req)
    BY <1>8 DEF Overtaken, Contested, Versioned
  <2>2. e \in decisions \/ (e = n /\ d.opp = r.opp)
    BY <1>10 DEF On
  <2>3. CASE d = n
    <3>1. CASE e = n
      BY <1>5, <2>3, <3>1
    <3>2. CASE e \in decisions
      <4>1. ~Raced(e.req, r)
        BY <1>5, <2>1, <2>3
      <4>2. ~(stamp[r] < e.at)
        BY <1>1, <1>5, <3>2, <4>1 DEF EarlierHaveRaced, Raced
      <4> QED BY <1>5, <1>11, <2>3, <3>2, <4>2
    <3> QED BY <2>2, <3>1, <3>2
  <2>4. CASE d # n
    <3>1. d \in decisions /\ ~Overtaken(d)
      BY <1>3, <1>12, <2>4
    <3>2. CASE e \in decisions
      <4>1. e \in On(d.opp)
        BY <3>2 DEF On
      <4> QED BY <3>1, <4>1 DEF HistoryInv, LastUnlessOvertaken
    <3>3. CASE e = n /\ d.opp = r.opp
      <4>1. version[r] # NoVersion /\ ~Raced(r, d.req)
        BY <1>5, <2>1, <3>3
      <4>2. d \in On(r.opp)
        BY <3>1, <3>3 DEF On
      <4>3. Raced(d.req, r) \/ Overtaken(d)
        BY <1>1, <1>5, <4>1, <4>2 DEF CheckHolds
      <4> QED BY <3>1, <4>1, <4>3 DEF Raced
    <3> QED BY <2>2, <3>2, <3>3
  <2> QED BY <2>3, <2>4
<1>20. VersionsHold'
  <2> SUFFICES ASSUME NEW d \in decisions', d.version # NoVersion
               PROVE  \E C \in SUBSET decisions' : CountedBy(d, C)'
    BY DEF VersionsHold, Versioned
  <2>1. CASE d = n
    <3>1. PICK C \in SUBSET decisions : CountedAtCheck(r, C)
      BY <1>1, <1>5, <2>1 DEF CheckHolds
    <3>2. C \subseteq Before(n)'
      BY <1>5, <1>10, <3>1 DEF CountedAtCheck, Before
    <3>3. Before(n)' \ Contested(n)' \subseteq C
      <4> SUFFICES ASSUME NEW e \in Before(n)', e \notin C PROVE e \in Contested(n)'
        OBVIOUS
      <4>1. e \in On(n.opp)' /\ e.at < stamp[r]
        BY <1>5 DEF Before
      <4>2. e # n
        BY <1>5, <4>1
      <4>3. e \in On(r.opp)
        BY <1>5, <1>10, <4>1, <4>2
      <4>4. Raced(e.req, r)
        BY <3>1, <4>3 DEF CountedAtCheck
      <4> QED BY <1>5, <1>8, <4>1, <4>4 DEF Contested
    <3>4. Cardinality(C) = n.version
      BY <1>5, <3>1 DEF CountedAtCheck
    <3>5. CountedBy(n, C)'
      BY <3>2, <3>3, <3>4 DEF CountedBy
    <3> QED BY <1>3, <2>1, <3>5
  <2>2. CASE d # n
    <3>1. d \in decisions
      BY <1>3, <2>2
    <3>2. PICK C \in SUBSET decisions : CountedBy(d, C)
      BY <3>1 DEF HistoryInv, VersionsHold, Versioned
    <3>3. C \subseteq Before(d)'
      BY <1>10, <3>2 DEF CountedBy, Before
    <3>4. Before(d)' \ Contested(d)' \subseteq C
      <4> SUFFICES ASSUME NEW e \in Before(d)', e \notin C PROVE e \in Contested(d)'
        OBVIOUS
      <4>1. e \in On(d.opp)' /\ e.at < d.at
        BY DEF Before
      <4>2. CASE e = n
        <5>1. Raced(r, d.req)
          BY <1>1, <1>5, <3>1, <4>1, <4>2 DEF EarlierHaveRaced
        <5> QED BY <1>5, <1>8, <4>1, <4>2, <5>1 DEF Contested
      <4>3. CASE e # n
        <5>1. e \in Before(d)
          BY <1>10, <4>1, <4>3 DEF Before
        <5>2. e \in Contested(d)
          BY <3>2, <5>1 DEF CountedBy
        <5> QED BY <1>8, <4>1, <5>2 DEF Contested
      <4> QED BY <4>2, <4>3
    <3>5. CountedBy(d, C)'
      BY <3>2, <3>3, <3>4 DEF CountedBy
    <3> QED BY <1>3, <3>5
  <2> QED BY <2>1, <2>2
<1> QED BY <1>13, <1>14, <1>15, <1>16, <1>17, <1>18, <1>19, <1>20 DEF HistoryInv

\* COMMIT of a family or of a brief records no decision.
LEMMA PublishHistory ==
  ASSUME HistoryInv, ReviewInv', [LedgerNext]_ledgerVars, NEW r \in Request,
         Commit(r) \/ CommitUnacknowledged(r), Publish(r)
  PROVE  HistoryInv'
<1>1. TypeOK' /\ IsFiniteSet(decisions')
  BY PublishTypes
<1>2. CASE r.kind = "decide"
  BY <1>1, <1>2, RecordHistory
<1>3. CASE r.kind # "decide"
  <2>1. /\ decisions' = decisions /\ UNCHANGED <<version, now>>
        /\ next' = [next EXCEPT ![r] = 1] /\ stamp' = [stamp EXCEPT ![r] = 0]
        /\ pc' = [pc EXCEPT ![r] = "answered"] /\ rows \subseteq rows'
    BY <1>3 DEF Publish, Forget, Wrote, Commit, CommitUnacknowledged, Apply, Tell, Goto
  <2>2. TypeOK /\ LedgerTypeOK /\ PageHolds(r)
    BY DEF HistoryInv, TypeOK
  <2>3. /\ \A s \in Request \ {r} : pc'[s] = pc[s] /\ next'[s] = next[s] /\ stamp'[s] = stamp[s]
        /\ next'[r] = 1 /\ stamp'[r] = 0 /\ pc'[r] = "answered" /\ now' >= now
    BY <2>1, <2>2 DEF TypeOK, LedgerTypeOK
  <2>4. StampHolds(r)' /\ CheckHolds(r)'
    BY <2>3 DEF StampHolds, CheckHolds, Checked
  <2>5. PageHolds(r)'
    BY <2>1, <2>2 DEF PageHolds, On, Reviewable, Latest
  <2> QED BY <1>1, <2>1, <2>3, <2>4, <2>5, HistoryStands
<1> QED BY <1>2, <1>3

LEMMA HistoryStep == HistoryInv /\ [Next]_vars => HistoryInv'
<1> SUFFICES ASSUME HistoryInv, [Next]_vars PROVE HistoryInv'
  OBVIOUS
<1>1. ReviewInv' /\ [LedgerNext]_ledgerVars
  BY ReviewStep, ReviewStepsLedger DEF HistoryInv
<1>2. CASE UNCHANGED vars
  <2>1. /\ UNCHANGED <<pc, overlap, rows, audit, tx, free, clock, began, answer>>
        /\ UNCHANGED <<decisions, families, briefs, version, next, stamp, now>>
    BY <1>2 DEF vars, ledgerVars, reviewVars
  <2>2. TypeOK'
    BY <2>1, QuietTypes, <1>1 DEF HistoryInv, TypeOK
  <2>3. (\A s \in Request : StampHolds(s) /\ CheckHolds(s) /\ PageHolds(s))'
    <3>1. ASSUME NEW s \in Request PROVE CheckHolds(s)' = CheckHolds(s)
      BY <2>1 DEF CheckHolds, Checked, CountedAtCheck, On, Raced, Overtaken, Contested, Versioned
    <3>2. ASSUME NEW s \in Request PROVE StampHolds(s)' = StampHolds(s)
      BY <2>1 DEF StampHolds, Checked
    <3>3. ASSUME NEW s \in Request PROVE PageHolds(s)' = PageHolds(s)
      BY <2>1 DEF PageHolds, On, Reviewable, Latest
    <3> QED BY <3>1, <3>2, <3>3 DEF HistoryInv
  <2>4. LastUnlessOvertaken' /\ VersionsHold'
    BY <2>1 DEF HistoryInv, LastUnlessOvertaken, VersionsHold, CountedBy, Before, On,
       Raced, Overtaken, Contested, Versioned
  <2>5. MomentsDiffer' /\ EarlierHaveRaced' /\ (\A d \in decisions : DecisionHolds(d))'
    BY <2>1 DEF HistoryInv, MomentsDiffer, EarlierHaveRaced, Raced, DecisionHolds
  <2>6. IsFiniteSet(decisions')
    BY <2>1 DEF HistoryInv
  <2> QED BY <1>1, <2>2, <2>3, <2>4, <2>5, <2>6 DEF HistoryInv
<1>3. ASSUME NEW r \in Request, Step(r) \/ Abort(r) PROVE HistoryInv'
  BY <1>1, <1>3, LoadHistory, MoveHistory, AbortHistory, CheckHistory, InsertHistory,
     PublishHistory DEF Step
<1> QED BY <1>2, <1>3 DEF Next

\* The inductive invariant of the reviews' history.
THEOREM HistoryIsInvariant == Spec => []HistoryInv
BY InitHistory, HistoryStep, PTL DEF Spec

\* reviews/route.ts, reviewVersion: a recorded decision carries the number of those
\* that were there when its transaction compared it: all that were made before it,
\* but for those whose transactions were open together with its own.
THEOREM VersionsCountDecisions == Spec => []RecordedAtItsVersion
<1>1. HistoryInv => RecordedAtItsVersion
  <2> SUFFICES ASSUME HistoryInv PROVE RecordedAtItsVersion
    OBVIOUS
  <2>1. TypeOK
    BY DEF HistoryInv
  <2>2. ASSUME NEW d \in decisions, Versioned(d)
        PROVE  /\ Cardinality(Before(d) \ Contested(d)) <= d.version
               /\ d.version <= Cardinality(Before(d) \cup Contested(d))
    <3>1. PICK C \in SUBSET decisions : CountedBy(d, C)
      BY <2>2 DEF HistoryInv, VersionsHold
    <3>2. Before(d) \cup Contested(d) \subseteq decisions
      BY DEF Before, Contested, On
    <3>3. IsFiniteSet(C) /\ IsFiniteSet(Before(d) \cup Contested(d))
      BY <3>2, FS_Subset DEF HistoryInv
    <3>4. Before(d) \ Contested(d) \subseteq C /\ C \subseteq Before(d) \cup Contested(d)
      BY <3>1 DEF CountedBy
    <3> QED BY <3>1, <3>3, <3>4, FS_Subset DEF CountedBy
  <2> QED BY <2>1, <2>2 DEF RecordedAtItsVersion
<1> QED BY <1>1, HistoryIsInvariant, PTL

\* views.ts, buildReviewReference, with reviewVersion: a client's decision that
\* closes the review, and that nobody contested, stays the last of its opportunity.
THEOREM ClosedReviewsStayClosed == Spec => []ClosedReviewStaysClosed
<1>1. HistoryInv => ClosedReviewStaysClosed
  BY DEF HistoryInv, LastUnlessOvertaken, Overtaken, ClosedReviewStaysClosed
<1> QED BY <1>1, HistoryIsInvariant, PTL
=============================================================================
