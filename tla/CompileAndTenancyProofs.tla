---------------------- MODULE CompileAndTenancyProofs ----------------------
(***************************************************************************)
(* Proofs about ArticleCompile, for every set of requests and briefs, and  *)
(* about Tenancy, for every set of requests, agencies and clients.         *)
(***************************************************************************)
EXTENDS ArticleCompile, Tenancy, WriteCommandProofs, SequenceTheorems

\* The highest of the versions 1..n is n, so the next one is n + 1.
LEMMA HighestOfInterval ==
  ASSUME NEW n \in Nat
  PROVE  Highest(1..n) = n
<1>1. CASE n = 0
  BY <1>1 DEF Highest
<1>2. CASE n > 0
  <2>1. n \in 1..n /\ \A w \in 1..n : w <= n
    BY <1>2
  <2>2. \A v \in 1..n : (\A w \in 1..n : w <= v) => v = n
    BY <1>2
  <2> QED BY <2>1, <2>2 DEF Highest
<1> QED BY <1>1, <1>2

\* A compile's steps are steps of the write command, or leave it alone.
LEMMA CompileStepsLedger == [Next]_vars => [LedgerNext]_ledgerVars
<1> SUFFICES ASSUME [Next]_vars PROVE [LedgerNext]_ledgerVars
  OBVIOUS
<1>1. CASE UNCHANGED vars
  BY <1>1 DEF vars
<1>2. ASSUME NEW r \in Request, Step(r) \/ Fail(r) PROVE [LedgerNext]_ledgerVars
  <2>1. CASE Compile(r)
    BY <2>1 DEF Compile, ComputeContentVersion, InsertContent, ContentConflict,
       ListContents, ComputeDraftVersion, InsertDraft, LedgerNext, Progress
  <2>2. CASE BeforePerform(r) \/ Finish(r) \/ Fail(r)
    BY <2>2 DEF Finish, Fail, LedgerNext, Progress, AfterPerform
  <2> QED BY <1>2, <2>1, <2>2 DEF Step
<1> QED BY <1>1, <1>2 DEF Next, vars

\* The compile command implements the write command, so what is proved of
\* WriteCommand holds of it.
THEOREM CompileIsWriteCommand == Safety => LedgerSafety
<1>1. Init => LedgerInit
  BY DEF Init
<1> QED BY <1>1, CompileStepsLedger, PTL DEF Safety, LedgerSafety

LEMMA InitCompile == Init => CompileInv
<1> SUFFICES ASSUME Init PROVE CompileInv
  OBVIOUS
<1> USE DEF Init
<1>1. LedgerInv /\ LedgerTypeOK
  BY InitLedger DEF LedgerInv
<1>2. TypeOK
  BY <1>1 DEF TypeOK, Stages
<1>3. \A b : Versions(contents, b) = {} /\ Versions(drafts, b) = {} /\ Committed(b) = 0
  BY DEF Versions, Of, Committed, Highest
<1>4. TablesNumbered
  <2>1. 1..0 = {}
    OBVIOUS
  <2>2. ASSUME NEW b \in Brief
        PROVE  /\ Committed(b) \in Nat
               /\ Versions(contents, b) = 1..Committed(b)
               /\ Versions(drafts, b) = 1..Committed(b)
    <3>1. Versions(contents, b) = {} /\ Versions(drafts, b) = {} /\ Committed(b) = 0
      BY <1>3
    <3> QED BY <2>1, <3>1
  <2> QED BY <2>2 DEF TablesNumbered
<1>5. RowsUnique /\ CompileIsAtomic /\ SourcesComplete
  BY DEF RowsUnique, CompileIsAtomic, SourcesComplete, LedgerInit
<1>6. WorkInStage /\ WritersAlone
  BY DEF WorkInStage, WritersAlone, Writing, LedgerInit
<1> QED BY <1>1, <1>2, <1>4, <1>5, <1>6 DEF CompileInv
-----------------------------------------------------------------------------
\* Steps that leave the tables alone: what is said of committed rows stands.
LEMMA TablesStand ==
  ASSUME CompileInv, UNCHANGED <<contents, drafts, rows>>
  PROVE  /\ TablesNumbered' /\ RowsUnique' /\ CompileIsAtomic' /\ SourcesComplete'
         /\ \A b : Committed(b)' = Committed(b)
<1>1. \A b : Committed(b)' = Committed(b)
  BY DEF Committed, Versions, Of
<1>2. TablesNumbered'
  BY <1>1 DEF CompileInv, TablesNumbered, Versions, Of
<1> QED BY <1>1, <1>2
        DEF CompileInv, RowsUnique, CompileIsAtomic, SourcesComplete, Of

\* A step of the ledger alone.
LEMMA LedgerOnly ==
  ASSUME CompileInv, LedgerInv', NEW r \in Request,
         BeforePerform(r) \/ AppendAudit(r), UNCHANGED compileVars
  PROVE  CompileInv'
<1> USE DEF compileVars
<1>1. UNCHANGED rows
  BY DEF BeforePerform, Refuse, Authorize, RecordDenied, RecordDeniedFails, Begin,
     Replay, LookupMisses, AppendAudit
<1>2. /\ TablesNumbered' /\ RowsUnique' /\ CompileIsAtomic' /\ SourcesComplete'
      /\ \A b : Committed(b)' = Committed(b)
  BY <1>1, TablesStand
<1>3. TypeOK'
  BY DEF CompileInv, TypeOK, LedgerInv
<1>4. \E label \in Labels :
        /\ pc' = [pc EXCEPT ![r] = label]
        /\ pc[r] # "audited"
        /\ label \in {"performed", "audited"} <=> pc[r] = "performed"
        /\ pc[r] # "performing"
  BY DEF BeforePerform, Refuse, Authorize, RecordDenied, RecordDeniedFails, Begin,
     Replay, LookupMisses, AppendAudit, Goto, Tell, Labels, InTxLabels
<1>5. WorkInStage'
  <2> SUFFICES ASSUME NEW s \in Request PROVE WorkInStage!(s)'
    BY DEF WorkInStage
  <2> QED BY <1>2, <1>4 DEF CompileInv, WorkInStage, Writing, Of, TypeOK, LedgerTypeOK
<1>6. WritersAlone'
  BY DEF CompileInv, WritersAlone, Writing
<1> QED BY <1>2, <1>3, <1>5, <1>6 DEF CompileInv

\* What r's step leaves as it was.
OthersStand(r) ==
  \A s \in Request \ {r} :
    /\ pc'[s] = pc[s] /\ stage'[s] = stage[s] /\ want'[s] = want[s]
    /\ content'[s] = content[s] /\ sources'[s] = sources[s] /\ draft'[s] = draft[s]

\* A step that commits nothing and changes only r's locals: given r's part of
\* the invariant after it, and that r is alone if it has started to write.
LEMMA LocalStep ==
  ASSUME CompileInv, LedgerInv', TypeOK', NEW r \in Request,
         UNCHANGED <<rows, contents, drafts>>,
         OthersStand(r),
         WorkInStage!(r)',
         Writing(r)' => \/ Writing(r)
                        \/ \A s \in Request \ {r} : s.brief = r.brief => ~Writing(s)
  PROVE  CompileInv'
<1>1. /\ TablesNumbered' /\ RowsUnique' /\ CompileIsAtomic' /\ SourcesComplete'
      /\ \A b : Committed(b)' = Committed(b)
  BY TablesStand
<1>3. WorkInStage'
  <2> SUFFICES ASSUME NEW s \in Request PROVE WorkInStage!(s)'
    BY DEF WorkInStage
  <2>1. CASE s = r
    BY <2>1
  <2>2. CASE s # r
    BY <1>1, <2>2 DEF CompileInv, WorkInStage, Writing, Of, OthersStand
  <2> QED BY <2>1, <2>2
<1>4. WritersAlone'
  <2>1. \A s \in Request \ {r} : Writing(s)' = Writing(s)
    BY DEF Writing, OthersStand
  <2> QED BY <2>1 DEF CompileInv, WritersAlone
<1> QED BY <1>1, <1>3, <1>4 DEF CompileInv

\* What the invariant says of r's brief.
LEMMA BriefNumbered ==
  ASSUME CompileInv, NEW r \in Request, NEW n, n = Committed(r.brief)
  PROVE  /\ n \in Nat
         /\ Versions(contents, r.brief) = 1..n
         /\ Versions(drafts, r.brief) = 1..n
         /\ NextVersion(1..n) = n + 1
         /\ {c.req : c \in Of(contents, r.brief)} \in SUBSET Request
BY BriefAssumption, HighestOfInterval
   DEF CompileInv, TablesNumbered, NextVersion, TypeOK, ContentRow, Of

\* The four statements that only read, or insert the content.
LEMMA Statements ==
  ASSUME CompileInv, LedgerInv', NEW r \in Request,
         \/ ComputeContentVersion(r) \/ InsertContent(r)
         \/ ListContents(r) \/ ComputeDraftVersion(r)
  PROVE  CompileInv'
<1>1. PICK n : n = Committed(r.brief)
  OBVIOUS
<1>2. /\ n \in Nat /\ n + 1 \in Nat /\ n + 1 \in 1..(n + 1) /\ 1..n \in SUBSET Nat
      /\ Versions(contents, r.brief) = 1..n /\ Versions(drafts, r.brief) = 1..n
      /\ NextVersion(1..n) = n + 1
      /\ {c.req : c \in Of(contents, r.brief)} \in SUBSET Request
  BY <1>1, BriefNumbered
<1>3. /\ UNCHANGED <<pc, rows, contents, drafts>>
      /\ pc[r] = "performing" /\ Committed(r.brief)' = n /\ Of(contents, r.brief)' = Of(contents, r.brief)
  BY <1>1 DEF ComputeContentVersion, InsertContent, ListContents, ComputeDraftVersion, At,
     ledgerVars, Committed, Versions, Of
<1>4. TypeOK /\ LedgerTypeOK' /\ WorkInStage!(r)
  BY DEF CompileInv, WorkInStage, LedgerInv
<1>5. CASE ComputeContentVersion(r)
  <2>1. want' = [want EXCEPT ![r] = n + 1] /\ stage' = [stage EXCEPT ![r] = "ingest"]
        /\ UNCHANGED <<content, sources, draft>> /\ stage[r] = "version"
    BY <1>2, <1>5 DEF ComputeContentVersion, Then, At
  <2>2. TypeOK' /\ OthersStand(r)
    BY <1>2, <1>3, <1>4, <2>1 DEF TypeOK, Stages, OthersStand
  <2>3. WorkInStage!(r)' /\ ~Writing(r)'
    BY <1>1, <1>2, <1>3, <1>4, <2>1 DEF Writing, TypeOK
  <2> QED BY <1>3, <2>2, <2>3, LocalStep
<1>6. CASE InsertContent(r)
  <2>1. want[r] \in 1..(n + 1) /\ want[r] \notin 1..n
    BY <1>1, <1>2, <1>4, <1>6 DEF InsertContent, At
  <2>2. want[r] = n + 1
    BY <1>2, <2>1
  <2>3. /\ content' = [content EXCEPT ![r] = n + 1] /\ stage' = [stage EXCEPT ![r] = "list"]
        /\ UNCHANGED <<want, sources, draft>> /\ stage[r] = "ingest"
    BY <1>6, <2>2 DEF InsertContent, Then, At
  <2>4. TypeOK' /\ OthersStand(r)
    BY <1>2, <1>3, <1>4, <2>3 DEF TypeOK, Stages, OthersStand
  <2>5. WorkInStage!(r)'
    BY <1>1, <1>2, <1>3, <1>4, <2>3 DEF Writing, TypeOK
  <2>6. ASSUME NEW s \in Request \ {r}, s.brief = r.brief, Writing(s) PROVE FALSE
    <3>1. content[s] = n + 1 /\ pc[s] \in {"performing", "performed", "audited"}
      BY <1>1, <2>6 DEF CompileInv, WorkInStage, Writing
    <3> QED BY <1>6, <2>2, <2>6, <3>1 DEF InsertContent, Held, InTx, InTxLabels
  <2> QED BY <1>3, <2>4, <2>5, <2>6, LocalStep
<1>7. CASE ListContents(r)
  <2> DEFINE S == {row.req : row \in Of(contents, r.brief)} \cup {r}
  <2>1. /\ sources' = [sources EXCEPT ![r] = S] /\ stage' = [stage EXCEPT ![r] = "compile"]
        /\ UNCHANGED <<want, content, draft>> /\ stage[r] = "list"
    BY <1>7 DEF ListContents, Then, At
  <2>2. S \in SUBSET Request
    BY <1>2
  <2>3. TypeOK' /\ OthersStand(r)
    <3> HIDE DEF S
    <3> QED BY <1>3, <1>4, <2>1, <2>2 DEF TypeOK, Stages, OthersStand
  <2>4. WorkInStage!(r)' /\ Writing(r)
    BY <1>1, <1>2, <1>3, <1>4, <2>1 DEF Writing, TypeOK
  <2> QED BY <1>3, <2>3, <2>4, LocalStep
<1>8. CASE ComputeDraftVersion(r)
  <2>1. want' = [want EXCEPT ![r] = n + 1] /\ stage' = [stage EXCEPT ![r] = "insert"]
        /\ UNCHANGED <<content, sources, draft>> /\ stage[r] = "compile"
    BY <1>2, <1>8 DEF ComputeDraftVersion, Then, At
  <2>2. TypeOK' /\ OthersStand(r)
    BY <1>2, <1>3, <1>4, <2>1 DEF TypeOK, Stages, OthersStand
  <2>3. WorkInStage!(r)' /\ Writing(r)
    BY <1>1, <1>2, <1>3, <1>4, <2>1 DEF Writing, TypeOK
  <2> QED BY <1>3, <2>2, <2>3, LocalStep
<1> QED BY <1>5, <1>6, <1>7, <1>8

\* Every way out without a commit.
LEMMA Discarded ==
  ASSUME CompileInv, LedgerInv', NEW r \in Request, Rollback(r), Discard(r)
  PROVE  CompileInv'
<1>1. /\ UNCHANGED <<rows, contents, drafts>> /\ pc' = [pc EXCEPT ![r] = "answered"]
      /\ stage' = [stage EXCEPT ![r] = "version"] /\ want' = [want EXCEPT ![r] = 0]
      /\ content' = [content EXCEPT ![r] = 0] /\ sources' = [sources EXCEPT ![r] = {}]
      /\ draft' = [draft EXCEPT ![r] = 0]
  BY DEF Rollback, Discard, Forget, Tell, Goto
<1>2. TypeOK /\ LedgerTypeOK' /\ LedgerTypeOK
  BY DEF CompileInv, LedgerInv
<1>3. TypeOK' /\ OthersStand(r)
  BY <1>1, <1>2 DEF TypeOK, Stages, OthersStand, LedgerTypeOK
<1>4. WorkInStage!(r)' /\ ~Writing(r)'
  BY <1>1, <1>2 DEF Writing, TypeOK, LedgerTypeOK
<1> QED BY <1>1, <1>3, <1>4, LocalStep

\* The draft's INSERT: with the content's version held, it meets no conflict.
LEMMA Inserted ==
  ASSUME CompileInv, LedgerInv', NEW r \in Request, InsertDraft(r)
  PROVE  CompileInv'
<1>1. CASE want[r] \in Versions(drafts, r.brief)
  BY <1>1, Discarded DEF InsertDraft
<1>2. CASE want[r] \notin Versions(drafts, r.brief)
  <2>1. PICK n : n = Committed(r.brief)
    OBVIOUS
  <2>2. n + 1 \in Nat
    BY <2>1, BriefNumbered
  <2>3. TypeOK /\ LedgerTypeOK /\ LedgerTypeOK' /\ WorkInStage!(r)
    BY DEF CompileInv, WorkInStage, LedgerInv
  <2>4. /\ UNCHANGED <<rows, contents, drafts, want, content, sources>>
        /\ pc' = [pc EXCEPT ![r] = "performed"] /\ stage' = [stage EXCEPT ![r] = "stored"]
        /\ draft' = [draft EXCEPT ![r] = n + 1] /\ stage[r] = "insert"
        /\ Committed(r.brief)' = n /\ Of(contents, r.brief)' = Of(contents, r.brief)
    BY <1>2, <2>1, <2>3 DEF InsertDraft, Perform, At, Then, Goto, Committed, Versions, Of
  <2>5. TypeOK' /\ OthersStand(r)
    BY <2>2, <2>3, <2>4 DEF TypeOK, Stages, OthersStand, LedgerTypeOK
  <2>6. WorkInStage!(r)' /\ Writing(r)
    BY <2>1, <2>3, <2>4 DEF Writing, TypeOK, LedgerTypeOK
  <2> QED BY <2>4, <2>5, <2>6, LocalStep
<1> QED BY <1>1, <1>2

\* One more row adds its version and its request.
LEMMA OneMoreRow ==
  ASSUME NEW table, NEW row
  PROVE  /\ {c.version : c \in table \cup {row}} = {c.version : c \in table} \cup {row.version}
         /\ {c.req : c \in table \cup {row}} = {c.req : c \in table} \cup {row.req}
<1>1. \A v : v \in {c.version : c \in table \cup {row}}
               <=> v \in {c.version : c \in table} \cup {row.version}
  OBVIOUS
<1>2. \A q : q \in {c.req : c \in table \cup {row}}
               <=> q \in {c.req : c \in table} \cup {row.req}
  OBVIOUS
<1> QED BY <1>1, <1>2

\* COMMIT: content n + 1 and draft n + 1 of the brief appear together.
LEMMA Published ==
  ASSUME CompileInv, LedgerInv', NEW r \in Request,
         Commit(r) \/ CommitUnacknowledged(r), Publish(r)
  PROVE  CompileInv'
<1>1. PICK n : n = Committed(r.brief)
  OBVIOUS
<1>2. /\ n \in Nat /\ n + 1 \in Nat /\ (1..n) \cup {n + 1} = 1..(n + 1)
      /\ Versions(contents, r.brief) = 1..n /\ Versions(drafts, r.brief) = 1..n
      /\ Highest(1..(n + 1)) = n + 1
  BY <1>1, BriefNumbered, HighestOfInterval
<1>3. TypeOK /\ LedgerTypeOK /\ LedgerTypeOK' /\ WorkInStage!(r) /\ r.brief \in Brief
  BY BriefAssumption DEF CompileInv, WorkInStage, LedgerInv
<1>4. pc[r] = "audited" /\ pc' = [pc EXCEPT ![r] = "answered"] /\ rows' = rows \cup {r}
  BY DEF Commit, CommitUnacknowledged, Apply, Tell, Goto, CompileInv, LedgerInv,
     TxHoldsItsWrites
<1>5. /\ stage[r] = "stored" /\ content[r] = n + 1 /\ draft[r] = n + 1
      /\ sources[r] = {c.req : c \in Of(contents, r.brief)} \cup {r}
  BY <1>1, <1>3, <1>4 DEF Writing
<1> DEFINE c0 == [req |-> r, brief |-> r.brief, version |-> n + 1]
           d0 == [req |-> r, brief |-> r.brief, version |-> n + 1, sources |-> sources[r]]
<1>6. /\ contents' = contents \cup {c0} /\ drafts' = drafts \cup {d0}
      /\ stage' = [stage EXCEPT ![r] = "version"] /\ want' = [want EXCEPT ![r] = 0]
      /\ content' = [content EXCEPT ![r] = 0] /\ sources' = [sources EXCEPT ![r] = {}]
      /\ draft' = [draft EXCEPT ![r] = 0]
  BY <1>5 DEF Publish, NewContent, NewDraft, Forget
<1>7. TypeOK' /\ OthersStand(r)
  <2>1. c0 \in ContentRow /\ d0 \in DraftRow
    BY <1>2, <1>3 DEF ContentRow, DraftRow, TypeOK
  <2> HIDE DEF c0, d0
  <2> QED BY <1>3, <1>4, <1>6, <2>1 DEF TypeOK, Stages, OthersStand, LedgerTypeOK
<1>8. \A b \in Brief \ {r.brief} :
        /\ Of(contents, b)' = Of(contents, b) /\ Of(drafts, b)' = Of(drafts, b)
        /\ Versions(contents, b)' = Versions(contents, b)
        /\ Versions(drafts, b)' = Versions(drafts, b)
        /\ Committed(b)' = Committed(b)
  BY <1>6 DEF Of, Versions, Committed
<1>9. /\ Of(contents, r.brief)' = Of(contents, r.brief) \cup {c0}
      /\ Versions(contents, r.brief)' = 1..(n + 1)
      /\ Versions(drafts, r.brief)' = 1..(n + 1)
      /\ Committed(r.brief)' = n + 1
  <2>1. /\ Of(contents, r.brief)' = Of(contents, r.brief) \cup {c0}
        /\ Of(drafts, r.brief)' = Of(drafts, r.brief) \cup {d0}
    BY <1>6 DEF Of
  <2>2. /\ Versions(contents, r.brief)' = Versions(contents, r.brief) \cup {n + 1}
        /\ Versions(drafts, r.brief)' = Versions(drafts, r.brief) \cup {n + 1}
    <3>1. c0.version = n + 1 /\ d0.version = n + 1
      OBVIOUS
    <3> HIDE DEF c0, d0
    <3> QED BY <2>1, <3>1, OneMoreRow DEF Versions
  <2> QED BY <1>2, <2>1, <2>2 DEF Committed
<1>10. /\ \A c \in contents : c.brief = r.brief => c.version \in 1..n
       /\ \A d \in drafts : d.brief = r.brief => d.version \in 1..n
  BY <1>2 DEF Versions, Of
<1>11. TablesNumbered'
  BY <1>2, <1>8, <1>9 DEF CompileInv, TablesNumbered
<1>12. RowsUnique'
  BY <1>2, <1>6, <1>10 DEF CompileInv, RowsUnique
<1>13. CompileIsAtomic'
  <2>1. c0.req = r /\ d0.req = r
    OBVIOUS
  <2> HIDE DEF c0, d0
  <2> QED BY <1>4, <1>6, <2>1, OneMoreRow DEF CompileInv, CompileIsAtomic
<1>14. SourcesComplete'
  <2> SUFFICES ASSUME NEW d \in drafts'
               PROVE  d.sources =
                 {c.req : c \in {c \in Of(contents, d.brief)' : c.version <= d.version}}
    BY DEF SourcesComplete
  <2>1. CASE d = d0
    <3>1. \A c \in Of(contents, r.brief)' : c.version <= n + 1
      BY <1>2, <1>9, <1>10 DEF Of
    <3>2. {c \in Of(contents, r.brief)' : c.version <= n + 1} = Of(contents, r.brief)'
      BY <3>1
    <3>3. c0.req = r /\ d0.brief = r.brief /\ d0.version = n + 1 /\ d0.sources = sources[r]
      OBVIOUS
    <3> HIDE DEF c0, d0
    <3>4. {c.req : c \in Of(contents, r.brief)'} = sources[r]
      BY <1>5, <1>9, <3>3, OneMoreRow
    <3> QED BY <2>1, <3>2, <3>3, <3>4
  <2>2. CASE d \in drafts
    <3>1. {c \in Of(contents, d.brief)' : c.version <= d.version}
            = {c \in Of(contents, d.brief) : c.version <= d.version}
      <4>1. CASE d.brief = r.brief
        BY <1>2, <1>9, <1>10, <2>2, <4>1
      <4>2. CASE d.brief # r.brief
        BY <1>3, <1>8, <2>2, <4>2 DEF TypeOK, DraftRow
      <4> QED BY <4>1, <4>2
    <3> QED BY <2>2, <3>1 DEF CompileInv, SourcesComplete
  <2> QED BY <1>6, <2>1, <2>2
<1>15. WorkInStage' /\ WritersAlone'
  <2>1. \A s \in Request \ {r} : Writing(s)' = Writing(s)
    BY <1>7 DEF Writing, OthersStand
  <2>2. ~Writing(r)'
    BY <1>3, <1>6 DEF Writing, TypeOK
  <2>3. \A s \in Request \ {r} : s.brief = r.brief => ~Writing(s)
    BY <1>5 DEF CompileInv, WritersAlone, Writing
  <2>4. WorkInStage'
    <3> SUFFICES ASSUME NEW s \in Request PROVE WorkInStage!(s)'
      BY DEF WorkInStage
    <3>1. CASE s = r
      BY <1>3, <1>4, <1>6, <3>1 DEF Writing, TypeOK, LedgerTypeOK
    <3>2. CASE s # r /\ s.brief = r.brief
      <4>1. WorkInStage!(s) /\ ~Writing(s)
        BY <2>3, <3>2 DEF CompileInv, WorkInStage
      <4>2. \A w : w \in 1..(n + 1) => w \in 1..(n + 2)
        BY <1>2
      <4> QED BY <1>1, <1>2, <1>7, <1>9, <3>2, <4>1, <4>2 DEF OthersStand, Writing
    <3>3. CASE s # r /\ s.brief # r.brief
      <4>1. WorkInStage!(s) /\ s.brief \in Brief \ {r.brief}
        BY <3>3, BriefAssumption DEF CompileInv, WorkInStage
      <4> QED BY <1>7, <1>8, <3>3, <4>1 DEF OthersStand, Writing
    <3> QED BY <3>1, <3>2, <3>3
  <2> QED BY <2>1, <2>2, <2>4 DEF CompileInv, WritersAlone
<1> QED BY <1>7, <1>11, <1>12, <1>13, <1>14, <1>15 DEF CompileInv
-----------------------------------------------------------------------------
LEMMA CompileStep == CompileInv /\ [Next]_vars => CompileInv'
<1> SUFFICES ASSUME CompileInv, [Next]_vars PROVE CompileInv'
  OBVIOUS
<1>1. LedgerInv'
  BY CompileStepsLedger, LedgerStep DEF CompileInv
<1>2. CASE UNCHANGED vars
  <2>1. UNCHANGED <<contents, drafts, rows>> /\ TypeOK'
    BY <1>1, <1>2 DEF vars, compileVars, ledgerVars, CompileInv, TypeOK, LedgerInv
  <2>2. /\ TablesNumbered' /\ RowsUnique' /\ CompileIsAtomic' /\ SourcesComplete'
        /\ \A b : Committed(b)' = Committed(b)
    BY <2>1, TablesStand
  <2>3. WorkInStage' /\ WritersAlone'
    BY <1>2, <2>2 DEF vars, compileVars, ledgerVars, CompileInv, WorkInStage,
       WritersAlone, Writing, Of
  <2> QED BY <1>1, <2>1, <2>2, <2>3 DEF CompileInv
<1>3. ASSUME NEW r \in Request, Step(r) \/ Fail(r) PROVE CompileInv'
  <2>1. CASE BeforePerform(r) /\ UNCHANGED compileVars
    BY <1>1, <2>1, LedgerOnly
  <2>2. CASE ComputeContentVersion(r) \/ InsertContent(r) \/ ListContents(r)
             \/ ComputeDraftVersion(r)
    BY <1>1, <2>2, Statements
  <2>3. CASE InsertDraft(r)
    BY <1>1, <2>3, Inserted
  <2>4. CASE ContentConflict(r) \/ Fail(r)
    BY <1>1, <2>4, Discarded DEF ContentConflict, Fail
  <2>5. CASE AppendAudit(r) /\ UNCHANGED compileVars
    BY <1>1, <2>5, LedgerOnly
  <2>6. CASE (Commit(r) \/ CommitUnacknowledged(r)) /\ Publish(r)
    BY <1>1, <2>6, Published
  <2> QED BY <1>3, <2>1, <2>2, <2>3, <2>4, <2>5, <2>6 DEF Step, Compile, Finish
<1> QED BY <1>2, <1>3 DEF Next

THEOREM CompileIsInvariant == Safety => []CompileInv
<1> QED BY InitCompile, CompileStep, PTL DEF Safety

\* Types hold of everything the compile command keeps.
THEOREM CompileTypes == Safety => []TypeOK
<1> QED BY CompileIsInvariant, PTL DEF CompileInv

\* The drafts of a brief are numbered 1..n without a gap or a repeat
\* (compileDraft's highest + 1 under uq_article_draft_brief_version).
THEOREM DraftsAreContiguous == Safety => []VersionsContiguous
<1>1. CompileInv => VersionsContiguous
  <2> SUFFICES ASSUME CompileInv, NEW b \in Brief
               PROVE  /\ Versions(drafts, b) = 1..Highest(Versions(drafts, b))
                      /\ \A d, e \in Of(drafts, b) : d.version = e.version => d = e
    BY DEF VersionsContiguous
  <2>1. Committed(b) \in Nat /\ Versions(drafts, b) = 1..Committed(b)
    BY DEF CompileInv, TablesNumbered
  <2>2. Highest(Versions(drafts, b)) = Committed(b)
    BY <2>1, HighestOfInterval
  <2>3. \A d, e \in Of(drafts, b) : d.version = e.version => d = e
    BY DEF CompileInv, RowsUnique, Of
  <2> QED BY <2>1, <2>2, <2>3
<1> QED BY <1>1, CompileIsInvariant, PTL

\* A compile's content and draft are committed together or not at all.
THEOREM ContentAndDraftTogether == Safety => []CompileIsAtomic
<1> QED BY CompileIsInvariant, PTL DEF CompileInv

\* Draft v is compiled from the contents 1..v and from nothing else.
THEOREM DraftsMissNothing == Safety => []SourcesComplete
<1> QED BY CompileIsInvariant, PTL DEF CompileInv

\* The content's unique index serializes the compiles of a brief.
THEOREM CompilesAreSerial == Safety => []OneCompileAtATime
<1>1. CompileInv => OneCompileAtATime
  <2> SUFFICES ASSUME CompileInv, NEW r \in Request, Compiling(r) PROVE Writing(r)
    BY DEF OneCompileAtATime, CompileInv, WritersAlone
  <2> QED BY DEF CompileInv, WorkInStage, Compiling
<1> QED BY <1>1, CompileIsInvariant, PTL
-----------------------------------------------------------------------------
\* Version v of a brief in a table without repeats is the row that says so.
UniqueIn(table) ==
  \A c, d \in table : c.brief = d.brief /\ c.version = d.version => c = d
LEMMA NumberedIsTheRow ==
  ASSUME NEW table, UniqueIn(table), NEW d \in table
  PROVE  DraftNumbered(table, d.brief, d.version) = d
BY DEF DraftNumbered, UniqueIn

\* A row of another brief does not change a brief's history ...
LEMMA HistoryStands ==
  ASSUME NEW table, NEW row, UniqueIn(table), UniqueIn(table \cup {row}),
         NEW b, b # row.brief, NEW n \in Nat, Versions(table, b) = 1..n
  PROVE  HistoryOf(table \cup {row}, b) = HistoryOf(table, b)
<1>1. Versions(table \cup {row}, b) = Versions(table, b)
  BY DEF Versions, Of
<1>2. ASSUME NEW v \in 1..n
      PROVE  DraftNumbered(table \cup {row}, b, v) = DraftNumbered(table, b, v)
  <2>1. PICK d \in table : d.brief = b /\ d.version = v
    BY <1>2 DEF Versions, Of
  <2> QED BY <2>1, NumberedIsTheRow
<1> QED BY <1>1, <1>2, HighestOfInterval DEF HistoryOf

\* ... and its next row is appended to it.
LEMMA HistoryExtended ==
  ASSUME NEW table, NEW row, UniqueIn(table), UniqueIn(table \cup {row}),
         NEW b, row.brief = b, NEW n \in Nat, Versions(table, b) = 1..n,
         row.version = n + 1, row.req \in Request, \A d \in table : d.req \in Request
  PROVE  HistoryOf(table \cup {row}, b) = Append(HistoryOf(table, b), row.req)
<1> DEFINE old == HistoryOf(table, b)
           new == HistoryOf(table \cup {row}, b)
<1>1. Versions(table \cup {row}, b) = 1..(n + 1)
  <2>1. Versions(table \cup {row}, b) = Versions(table, b) \cup {n + 1}
    <3>1. Of(table \cup {row}, b) = Of(table, b) \cup {row}
      BY DEF Of
    <3>2. {c.version : c \in Of(table, b) \cup {row}}
            = {c.version : c \in Of(table, b)} \cup {row.version}
      BY OneMoreRow
    <3> QED BY <3>1, <3>2 DEF Versions
  <2>2. (1..n) \cup {n + 1} = 1..(n + 1)
    OBVIOUS
  <2> QED BY <2>1, <2>2
<1>2. Highest(1..n) = n /\ Highest(1..(n + 1)) = n + 1
  BY HighestOfInterval
<1>3. ASSUME NEW v \in 1..n
      PROVE  /\ DraftNumbered(table \cup {row}, b, v) = DraftNumbered(table, b, v)
             /\ DraftNumbered(table, b, v).req \in Request
  <2>1. PICK d \in table : d.brief = b /\ d.version = v
    BY <1>3 DEF Versions, Of
  <2> QED BY <2>1, NumberedIsTheRow
<1>4. DraftNumbered(table \cup {row}, b, n + 1) = row
  BY NumberedIsTheRow
<1>5. /\ old = [v \in 1..n |-> DraftNumbered(table, b, v).req]
      /\ new = [v \in 1..(n + 1) |-> DraftNumbered(table \cup {row}, b, v).req]
  BY <1>1, <1>2 DEF HistoryOf
<1> HIDE DEF old, new
<1>6. old \in Seq(Request) /\ Len(old) = n
  <2>1. old \in [1..n -> Request]
    BY <1>3, <1>5
  <2> QED BY <2>1
<1>7. /\ Append(old, row.req) \in Seq(Request) /\ Len(Append(old, row.req)) = n + 1
      /\ \A v \in 1..n : Append(old, row.req)[v] = old[v]
      /\ Append(old, row.req)[n + 1] = row.req
  BY <1>6, AppendProperties
<1>8. new \in Seq(Request) /\ Len(new) = n + 1
  <2>1. \A v \in 1..(n + 1) : DraftNumbered(table \cup {row}, b, v).req \in Request
    <3> TAKE v \in 1..(n + 1)
    <3>1. v \in 1..n \/ v = n + 1
      OBVIOUS
    <3> QED BY <1>3, <1>4, <3>1
  <2>2. new \in [1..(n + 1) -> Request]
    BY <1>5, <2>1
  <2> QED BY <2>2
<1>9. \A v \in 1..(n + 1) : new[v] = Append(old, row.req)[v]
  <2> TAKE v \in 1..(n + 1)
  <2>1. CASE v = n + 1
    BY <1>4, <1>5, <1>7, <2>1
  <2>2. CASE v \in 1..n
    <3>1. new[v] = DraftNumbered(table \cup {row}, b, v).req
      BY <1>5
    <3>2. old[v] = DraftNumbered(table, b, v).req
      BY <1>5, <2>2
    <3> QED BY <1>3, <1>7, <2>2, <3>1, <3>2
  <2>3. v = n + 1 \/ v \in 1..n
    OBVIOUS
  <2> QED BY <2>1, <2>2, <2>3
<1> QED BY <1>7, <1>8, <1>9, SeqEqual DEF old, new

\* Only a commit touches the drafts, and it appends one.
LEMMA CompileStepsHistory ==
  ASSUME CompileInv, CompileInv', [Next]_vars
  PROVE  [History!Next]_[b \in Brief |-> HistoryOf(drafts, b)]
<1> DEFINE history == [b \in Brief |-> HistoryOf(drafts, b)]
<1>1. CASE UNCHANGED drafts
  BY <1>1
<1>2. ASSUME NEW r \in Request, Commit(r) \/ CommitUnacknowledged(r), Publish(r)
      PROVE  History!Extend(r.brief, r)
  <2>1. PICK n : n = Committed(r.brief)
    OBVIOUS
  <2>2. /\ n \in Nat /\ Versions(drafts, r.brief) = 1..n /\ r.brief \in Brief
        /\ \A b \in Brief : \E m \in Nat : Versions(drafts, b) = 1..m
    BY <2>1, BriefAssumption DEF CompileInv, TablesNumbered
  <2>3. draft[r] = n + 1
    BY <1>2, <2>1 DEF CompileInv, WorkInStage, Commit, CommitUnacknowledged, Apply
  <2> DEFINE row == [req |-> r, brief |-> r.brief, version |-> n + 1,
                     sources |-> sources[r]]
  <2>4. drafts' = drafts \cup {row}
    BY <1>2, <2>3 DEF Publish, NewContent, NewDraft
  <2>5. row.brief = r.brief /\ row.version = n + 1 /\ row.req = r
    OBVIOUS
  <2> HIDE DEF row
  <2>6. UniqueIn(drafts) /\ UniqueIn(drafts \cup {row})
    BY <2>4 DEF CompileInv, RowsUnique, UniqueIn
  <2>7. HistoryOf(drafts', r.brief) = Append(HistoryOf(drafts, r.brief), r)
    <3>1. \A d \in drafts : d.req \in Request
      BY DEF CompileInv, TypeOK, DraftRow
    <3> QED BY <2>2, <2>4, <2>5, <2>6, <3>1, HistoryExtended
  <2>8. ASSUME NEW b \in Brief, b # r.brief
        PROVE  HistoryOf(drafts', b) = HistoryOf(drafts, b)
    BY <2>2, <2>4, <2>5, <2>6, <2>8, HistoryStands
  <2>9. history' = [history EXCEPT ![r.brief] = Append(@, r)]
    <3>1. history' = [b \in Brief |-> HistoryOf(drafts', b)]
      OBVIOUS
    <3> QED BY <2>2, <2>7, <2>8, <3>1
  <2> QED BY <2>9 DEF History!Extend
<1>3. ASSUME NEW r \in Request, Step(r) \/ Fail(r)
      PROVE  \/ UNCHANGED drafts
             \/ (Commit(r) \/ CommitUnacknowledged(r)) /\ Publish(r)
  BY <1>3 DEF Step, Compile, Finish, Fail, ComputeContentVersion, InsertContent,
     ContentConflict, ListContents, ComputeDraftVersion, InsertDraft, Discard, compileVars
<1>4. \/ UNCHANGED drafts
      \/ \E r \in Request : (Commit(r) \/ CommitUnacknowledged(r)) /\ Publish(r)
  BY <1>3 DEF Next, vars, compileVars
<1>5. CASE \E r \in Request : (Commit(r) \/ CommitUnacknowledged(r)) /\ Publish(r)
  BY <1>2, <1>5, BriefAssumption DEF History!Next
<1> QED BY <1>1, <1>4, <1>5

\* The compiler implements the append-only history of drafts.
THEOREM CompileImplementsHistory == Safety => DraftHistoryOnlyGrows
<1>1. Init => History!Init
  <2> SUFFICES ASSUME Init PROVE [b \in Brief |-> HistoryOf(drafts, b)] = [b \in Brief |-> <<>>]
    BY DEF History!Init
  <2>1. ASSUME NEW b \in Brief PROVE HistoryOf(drafts, b) = <<>>
    <3>1. Versions(drafts, b) = {} /\ Highest({}) = 0
      BY DEF Init, Versions, Of, Highest
    <3>2. 1..0 = {}
      OBVIOUS
    <3> QED BY <3>1, <3>2 DEF HistoryOf
  <2> QED BY <2>1
<1> QED BY <1>1, CompileIsInvariant, CompileStepsHistory, PTL
        DEF Safety, DraftHistoryOnlyGrows, History!Spec

-----------------------------------------------------------------------------
(* Tenancy.  LedgerInv is not an invariant here, since a choice of the     *)
(* client to act for leaves an ALLOWED event without a row; TenantLedger   *)
(* is what of it holds.                                                    *)

\* An ALLOWED event is of a row, or of a choice of the client to act for.
AllowedAreWritten ==
  \A e \in audit : e.outcome = "ALLOWED" => e.req \in rows \/ e.req.kind = "act"
\* Whoever is told of success is told of a row: its own, or one of its key.
AnswersNameRows ==
  \A r \in Request :
    /\ pc[r] # "answered" => answer[r] = None
    /\ answer[r].kind = "created" => r \in rows /\ answer[r].result = {r}
    /\ answer[r].kind = "replayed" => \E e \in rows : answer[r].result = {e} /\ Retry(e, r)
TenantLedger ==
  /\ LedgerTypeOK /\ ConnectionsConserved /\ TxHoldsItsWrites
  /\ AllowedAreWritten /\ AnswersNameRows


\* The ledger's part across a step of r.
Core == LedgerTypeOK /\ ConnectionsConserved /\ TxHoldsItsWrites

LEMMA CoreOutside ==
  ASSUME Core, NEW r \in Request, pc[r] \in {"unsent", "authorized"},
         NEW label \in {"unsent", "authorized", "answered"}, Goto(r, label),
         UNCHANGED <<free, clock, began, tx, rows, overlap>>,
         audit' \subseteq AuditEvent,
         answer' \in [Request -> [kind: Kinds, result: SUBSET Request]]
  PROVE  Core'
<1> USE DEF Core
<1>1. LedgerTypeOK'
  BY DEF LedgerTypeOK, Goto, Labels
<1>2. Open' = Open
  BY DEF Open, InTx, InTxLabels, Goto, LedgerTypeOK
<1>3. ConnectionsConserved'
  BY <1>2, ConservedWhenSame
<1>4. TxHoldsItsWrites'
  BY DEF TxHoldsItsWrites, Goto, LedgerTypeOK, AllowedEvent
<1> QED BY <1>1, <1>3, <1>4

LEMMA CoreEntering ==
  ASSUME Core, NEW r \in Request, Begin(r)
  PROVE  Core'
<1> USE DEF Core, Begin
<1>1. ConnectionsConserved' /\ free' \in 0..PoolMax
  BY ConservedWhenEntering DEF Goto, InTx, InTxLabels
<1>2. Open \subseteq Request /\ clock' \in Nat
  BY DEF Open, LedgerTypeOK
<1>3. LedgerTypeOK'
  BY <1>1, <1>2 DEF LedgerTypeOK, Goto, Labels, InTxLabels
<1>4. r \notin rows
  BY DEF TxHoldsItsWrites
<1>5. \A s \in Request \ {r} : AllowedEvent(s)' = AllowedEvent(s)
  BY DEF AllowedEvent, LedgerTypeOK
<1>6. TxHoldsItsWrites'
  BY <1>4, <1>5 DEF TxHoldsItsWrites, Goto, LedgerTypeOK
<1> QED BY <1>1, <1>3, <1>6

LEMMA CoreInside ==
  ASSUME Core, NEW r \in Request, InTx(r),
         NEW label \in InTxLabels, Goto(r, label),
         UNCHANGED <<free, clock, began, rows, audit, answer, overlap>>,
         NEW now \in [rows: SUBSET Request, audit: SUBSET AuditEvent],
         tx' = [tx EXCEPT ![r] = now],
         now.rows = IF label \in {"performed", "audited"} THEN {r} ELSE {},
         now.audit = IF label = "audited" THEN {AllowedEvent(r)} ELSE {}
  PROVE  Core'
<1> USE DEF Core
<1>1. LedgerTypeOK'
  BY DEF LedgerTypeOK, Goto, Labels
<1>2. Open' = Open
  BY DEF Open, InTx, InTxLabels, Goto, LedgerTypeOK
<1>3. ConnectionsConserved'
  BY <1>2, ConservedWhenSame
<1>4. r \notin rows
  BY DEF TxHoldsItsWrites, InTx, InTxLabels
<1>5. \A s \in Request : AllowedEvent(s)' = AllowedEvent(s)
  BY DEF AllowedEvent
<1>6. tx'[r] = now /\ pc'[r] = label /\ \A s \in Request \ {r} : tx'[s] = tx[s] /\ pc'[s] = pc[s]
  BY DEF LedgerTypeOK, Goto
<1>7. TxHoldsItsWrites'
  BY <1>4, <1>5, <1>6 DEF TxHoldsItsWrites
<1> QED BY <1>1, <1>3, <1>7

LEMMA CoreLeaving ==
  ASSUME Core, NEW r \in Request, InTx(r),
         Goto(r, "answered"), free' = free + 1,
         UNCHANGED <<clock, began, overlap>>,
         tx' = [tx EXCEPT ![r] = EmptyTx],
         answer' \in [Request -> [kind: Kinds, result: SUBSET Request]],
         \/ UNCHANGED <<rows, audit>>
         \/ /\ pc[r] = "audited"
            /\ rows' = rows \cup tx[r].rows
            /\ audit' = audit \cup tx[r].audit
  PROVE  Core'
<1> USE DEF Core
<1>1. ConnectionsConserved' /\ free' \in 0..PoolMax
  BY ConservedWhenLeaving DEF Goto
<1>2. EmptyTx \in [rows: SUBSET Request, audit: SUBSET AuditEvent]
  BY DEF EmptyTx
<1>3. LedgerTypeOK'
  BY <1>1, <1>2 DEF LedgerTypeOK, Goto, Labels
<1>4. r \notin rows
  BY DEF TxHoldsItsWrites, InTx, InTxLabels
<1>5. rows' \subseteq rows \cup {r}
  BY DEF TxHoldsItsWrites
<1>6. TxHoldsItsWrites'
  BY <1>4, <1>5 DEF TxHoldsItsWrites, EmptyTx, AllowedEvent, Goto, LedgerTypeOK
<1> QED BY <1>1, <1>3, <1>6

\* An answer of r, told in a step that adds no more than r to the rows.
LEMMA AnswerStep ==
  ASSUME TenantLedger, LedgerTypeOK', NEW r \in Request, pc[r] # "answered",
         rows \subseteq rows', pc' = [pc EXCEPT ![r] = "answered"],
         NEW kind \in Kinds, NEW result \in SUBSET Request,
         answer' = [answer EXCEPT ![r] = [kind |-> kind, result |-> result]],
         kind = "created" => r \in rows' /\ result = {r},
         kind = "replayed" => \E e \in rows : result = {e} /\ Retry(e, r)
  PROVE  AnswersNameRows'
<1> PICK told : told = [kind |-> kind, result |-> result]
  OBVIOUS
<1>1. told.kind = kind /\ told.result = result /\ answer' = [answer EXCEPT ![r] = told]
  OBVIOUS
<1>2. answer'[r] = told /\ \A s \in Request \ {r} : answer'[s] = answer[s] /\ pc'[s] = pc[s]
  BY <1>1 DEF TenantLedger, LedgerTypeOK
<1>3. pc'[r] = "answered"
  BY DEF TenantLedger, LedgerTypeOK
<1>4. ASSUME NEW s \in Request
      PROVE  /\ pc'[s] # "answered" => answer'[s] = None
             /\ answer'[s].kind = "created" => s \in rows' /\ answer'[s].result = {s}
             /\ answer'[s].kind = "replayed" =>
                  \E e \in rows' : answer'[s].result = {e} /\ Retry(e, s)
  <2>1. CASE s = r
    BY <1>1, <1>2, <1>3, <2>1
  <2>2. CASE s # r
    BY <1>2, <2>2 DEF TenantLedger, AnswersNameRows
  <2> QED BY <2>1, <2>2
<1> QED BY <1>4 DEF AnswersNameRows, Retry, None

\* A step of r that tells nobody anything.
LEMMA SilentStep ==
  ASSUME TenantLedger, NEW r \in Request, pc[r] # "answered", rows' = rows, answer' = answer,
         NEW label \in Labels \ {"answered"}, pc' = [pc EXCEPT ![r] = label]
  PROVE  AnswersNameRows'
<1>1. \A s \in Request : pc'[s] # "answered" => pc[s] # "answered"
  BY DEF TenantLedger, LedgerTypeOK
<1> QED BY <1>1 DEF TenantLedger, AnswersNameRows, Retry, None

LEMMA LedgerRefuses ==
  ASSUME TenantLedger, NEW r \in Request,
         Refuse(r) \/ RecordDenied(r) \/ RecordDeniedFails(r)
  PROVE  TenantLedger'
<1>1. Core /\ LedgerTypeOK /\ AllowedAreWritten
  BY DEF TenantLedger, Core
<1>2. PICK kind \in {"refused", "forbidden", "error"} : Tell(r, kind, {})
  BY DEF Refuse, RecordDenied, RecordDeniedFails
<1>3. UNCHANGED <<free, clock, began, tx, rows, overlap>> /\ pc[r] = "unsent" /\ Goto(r, "answered")
  BY DEF Refuse, RecordDenied, RecordDeniedFails, Tell
<1>4. DeniedEvent(r) \in AuditEvent /\ DeniedEvent(r).outcome = "DENIED"
  BY <1>1 DEF DeniedEvent, AuditEvent, Outcomes, LedgerTypeOK
<1>5. audit' = audit \/ audit' = audit \cup {DeniedEvent(r)}
  BY DEF Refuse, RecordDenied, RecordDeniedFails
<1>6. audit' \subseteq AuditEvent
  BY <1>1, <1>4, <1>5 DEF LedgerTypeOK
<1>7. answer' \in [Request -> [kind: Kinds, result: SUBSET Request]]
  BY <1>1, <1>2 DEF Tell, Kinds, LedgerTypeOK
<1>8. Core'
  BY <1>1, <1>3, <1>6, <1>7, CoreOutside
<1>9. AllowedAreWritten'
  BY <1>1, <1>3, <1>4, <1>5 DEF AllowedAreWritten
<1>10. /\ pc' = [pc EXCEPT ![r] = "answered"] /\ kind \in Kinds /\ rows \subseteq rows'
       /\ answer' = [answer EXCEPT ![r] = [kind |-> kind, result |-> {}]]
       /\ kind # "created" /\ kind # "replayed" /\ {} \in SUBSET Request
  BY <1>2, <1>3 DEF Tell, Goto, Kinds
<1>11. AnswersNameRows'
  BY <1>3, <1>8, <1>10, AnswerStep DEF Core
<1> QED BY <1>8, <1>9, <1>11 DEF TenantLedger, Core

LEMMA LedgerGoesOn ==
  ASSUME TenantLedger, NEW r \in Request,
         Authorize(r) \/ Begin(r) \/ LookupMisses(r) \/ Perform(r) \/ AppendAudit(r)
  PROVE  TenantLedger'
<1>1. Core /\ LedgerTypeOK /\ AllowedAreWritten
  BY DEF TenantLedger, Core
<1>2. UNCHANGED <<rows, audit, answer>> /\ pc[r] # "answered"
  BY DEF Authorize, Begin, LookupMisses, Perform, AppendAudit
<1>3. PICK label \in Labels \ {"answered"} : Goto(r, label)
  BY DEF Authorize, Begin, LookupMisses, Perform, AppendAudit, Labels, InTxLabels
<1>4. tx[r] \in [rows: SUBSET Request, audit: SUBSET AuditEvent]
  BY <1>1 DEF LedgerTypeOK
<1>5. ASSUME Authorize(r) PROVE Core'
  BY <1>1, <1>5, CoreOutside DEF Authorize, LedgerTypeOK
<1>6. ASSUME Begin(r) PROVE Core'
  BY <1>1, <1>6, CoreEntering
<1>7. ASSUME LookupMisses(r) PROVE Core'
  <2>1. tx' = [tx EXCEPT ![r] = tx[r]]
    BY <1>1, <1>7 DEF LookupMisses, LedgerTypeOK
  <2>2. tx[r].rows = {} /\ tx[r].audit = {}
    BY <1>1, <1>7 DEF Core, TxHoldsItsWrites, LookupMisses
  <2> QED BY <1>1, <1>4, <1>7, <2>1, <2>2, CoreInside DEF LookupMisses, InTx, InTxLabels
<1>8. ASSUME Perform(r) PROVE Core'
  <2> DEFINE now == [rows |-> tx[r].rows \cup {r}, audit |-> tx[r].audit]
  <2>1. now \in [rows: SUBSET Request, audit: SUBSET AuditEvent]
    BY <1>4
  <2>2. tx' = [tx EXCEPT ![r] = now]
    BY <1>4, <1>8 DEF Perform
  <2>3. now.rows = {r} /\ now.audit = {}
    BY <1>1, <1>8 DEF Core, TxHoldsItsWrites, Perform
  <2> HIDE DEF now
  <2> QED BY <1>1, <1>8, <2>1, <2>2, <2>3, CoreInside DEF Perform, InTx, InTxLabels
<1>9. ASSUME AppendAudit(r) PROVE Core'
  <2> DEFINE now == [rows |-> tx[r].rows, audit |-> tx[r].audit \cup {AllowedEvent(r)}]
  <2>1. AllowedEvent(r) \in AuditEvent
    BY <1>1 DEF AllowedEvent, AuditEvent, Outcomes, LedgerTypeOK
  <2>2. now \in [rows: SUBSET Request, audit: SUBSET AuditEvent]
    BY <1>4, <2>1
  <2>3. tx' = [tx EXCEPT ![r] = now]
    BY <1>4, <1>9 DEF AppendAudit
  <2>4. now.rows = {r} /\ now.audit = {AllowedEvent(r)}
    BY <1>1, <1>9 DEF Core, TxHoldsItsWrites, AppendAudit
  <2> HIDE DEF now
  <2> QED BY <1>1, <1>9, <2>2, <2>3, <2>4, CoreInside DEF AppendAudit, InTx, InTxLabels
<1>10. Core'
  BY <1>5, <1>6, <1>7, <1>8, <1>9
<1>11. AllowedAreWritten'
  BY <1>1, <1>2 DEF AllowedAreWritten
<1>12. AnswersNameRows'
  BY <1>2, <1>3, SilentStep DEF Goto
<1> QED BY <1>10, <1>11, <1>12 DEF TenantLedger, Core

\* The key of a command finds commands of its kind, and those are rows.
LEMMA LedgerReplays ==
  ASSUME TenantLedger, NEW r \in Request, Replay(r), r.kind # "act"
  PROVE  TenantLedger' /\ rows' = rows
<1>1. Core /\ LedgerTypeOK /\ AllowedAreWritten /\ rows' = rows /\ audit' = audit
  BY DEF TenantLedger, Core, Replay
<1>2. PICK e \in FindIdempotentReplay(r) : Tell(r, "replayed", {e.req})
  BY DEF Replay
<1>3. /\ e \in audit /\ e.outcome = "ALLOWED" /\ e.req \in Request /\ r.key # NoKey
      /\ <<r.actor, r.action, r.key>> = <<e.req.actor, e.req.action, e.req.key>>
  BY <1>1 DEF FindIdempotentReplay, Prior, LedgerTypeOK, AuditEvent, Replay, Used
<1>4. e.req.kind = r.kind
  BY <1>3, TenantAssumption
<1>5. e.req \in rows
  BY <1>1, <1>3, <1>4 DEF AllowedAreWritten
<1>6. e.req # r
  BY <1>1, <1>5 DEF Core, TxHoldsItsWrites, Replay
<1>7. Retry(e.req, r)
  BY <1>3, <1>6 DEF Retry
<1>8. tx' = [tx EXCEPT ![r] = EmptyTx]
  BY <1>1 DEF Core, TxHoldsItsWrites, Replay, EmptyTx, LedgerTypeOK
<1>9. answer' \in [Request -> [kind: Kinds, result: SUBSET Request]]
  BY <1>1, <1>2, <1>3 DEF Tell, Kinds, LedgerTypeOK
<1>10. InTx(r) /\ Goto(r, "answered") /\ free' = free + 1 /\ UNCHANGED <<clock, began, overlap>>
  BY <1>2 DEF Replay, Tell, InTx, InTxLabels
<1>11. Core'
  BY <1>1, <1>8, <1>9, <1>10, CoreLeaving
<1>12. AllowedAreWritten'
  BY <1>1 DEF AllowedAreWritten
<1>13. /\ pc' = [pc EXCEPT ![r] = "answered"] /\ pc[r] # "answered" /\ rows \subseteq rows'
       /\ answer' = [answer EXCEPT ![r] = [kind |-> "replayed", result |-> {e.req}]]
       /\ "replayed" \in Kinds /\ {e.req} \in SUBSET Request /\ "replayed" # "created"
  BY <1>1, <1>2, <1>3, <1>10 DEF Tell, Goto, Kinds, InTx, InTxLabels
<1>14. \E f \in rows : {e.req} = {f} /\ Retry(f, r)
  BY <1>5, <1>7
<1>15. LedgerTypeOK'
  BY <1>11 DEF Core
<1>16. AnswersNameRows'
  BY <1>13, <1>14, <1>15, AnswerStep
<1> QED BY <1>1, <1>11, <1>12, <1>16 DEF TenantLedger, Core

LEMMA LedgerEnds ==
  ASSUME TenantLedger, NEW r \in Request,
         Commit(r) \/ CommitUnacknowledged(r) \/ Rollback(r)
  PROVE  /\ TenantLedger' /\ InTx(r) /\ pc' = [pc EXCEPT ![r] = "answered"] /\ r \notin rows
         /\ Rollback(r) => rows' = rows
         /\ ~Rollback(r) => rows' = rows \cup {r} /\ pc[r] = "audited"
<1>1. Core /\ LedgerTypeOK /\ AllowedAreWritten
  BY DEF TenantLedger, Core
<1>2. InTx(r) /\ r \notin rows
  BY <1>1 DEF InTx, InTxLabels, Commit, CommitUnacknowledged, Apply, Rollback, Core,
     TxHoldsItsWrites
<1>3. PICK kind \in {"created", "error"}, result \in {{}, {r}} :
        Tell(r, kind, result) /\ (kind = "created" => result = {r} /\ Commit(r))
  BY DEF Commit, CommitUnacknowledged, Rollback
<1>4. \/ Rollback(r) /\ UNCHANGED <<rows, audit>>
      \/ /\ pc[r] = "audited" /\ rows' = rows \cup {r}
         /\ audit' = audit \cup {AllowedEvent(r)}
         /\ rows' = rows \cup tx[r].rows /\ audit' = audit \cup tx[r].audit
  BY <1>1 DEF Commit, CommitUnacknowledged, Apply, Rollback, Core, TxHoldsItsWrites
<1>5. /\ Goto(r, "answered") /\ free' = free + 1 /\ UNCHANGED <<clock, began, overlap>>
      /\ tx' = [tx EXCEPT ![r] = EmptyTx]
  BY DEF Commit, CommitUnacknowledged, Apply, Rollback, Tell
<1>6. answer' \in [Request -> [kind: Kinds, result: SUBSET Request]]
  BY <1>1, <1>3 DEF Tell, Kinds, LedgerTypeOK
<1>7. Core'
  BY <1>1, <1>2, <1>4, <1>5, <1>6, CoreLeaving
<1>8. AllowedAreWritten'
  BY <1>1, <1>4 DEF AllowedAreWritten, AllowedEvent
<1>9. kind = "created" => r \in rows'
  BY <1>1, <1>3 DEF Commit, Apply, Core, TxHoldsItsWrites
<1>10. /\ pc' = [pc EXCEPT ![r] = "answered"] /\ pc[r] # "answered" /\ rows \subseteq rows'
       /\ answer' = [answer EXCEPT ![r] = [kind |-> kind, result |-> result]]
       /\ kind \in Kinds /\ result \in SUBSET Request /\ kind # "replayed"
       /\ kind = "created" => r \in rows' /\ result = {r}
  BY <1>2, <1>3, <1>4, <1>5, <1>9 DEF Tell, Goto, Kinds, InTx, InTxLabels
<1>11. LedgerTypeOK'
  BY <1>7 DEF Core
<1>12. AnswersNameRows'
  BY <1>10, <1>11, AnswerStep
<1>13. Rollback(r) => rows' = rows
  BY DEF Rollback
<1>14. TenantLedger'
  BY <1>7, <1>8, <1>12 DEF TenantLedger, Core
<1> QED BY <1>2, <1>4, <1>5, <1>13, <1>14 DEF Goto

\* A handler that only reads is shown what it asked for, with an event or without.
LEMMA LedgerShows ==
  ASSUME TenantLedger, NEW r \in Request, NEW c, Show(r, c),
         audit' = audit \/ (r.kind = "act" /\ PersistIntent(r, "ALLOWED"))
  PROVE  TenantLedger' /\ rows' = rows
<1>1. Core /\ LedgerTypeOK /\ AllowedAreWritten /\ AnswersNameRows
  BY DEF TenantLedger, Core
<1>2. UNCHANGED <<pc, free, clock, began, tx, rows, answer, overlap>>
  BY DEF Show
<1>3. PICK event : event = [req |-> r, outcome |-> "ALLOWED", at |-> clock]
  OBVIOUS
<1>4. event \in AuditEvent /\ event.req = r
  BY <1>1, <1>3 DEF AuditEvent, Outcomes, LedgerTypeOK
<1>5. audit' = audit \/ (r.kind = "act" /\ audit' = audit \cup {event})
  BY <1>3 DEF PersistIntent
<1>6. audit' \subseteq AuditEvent
  BY <1>1, <1>4, <1>5 DEF LedgerTypeOK
<1>7. LedgerTypeOK'
  BY <1>1, <1>2, <1>6 DEF LedgerTypeOK
<1>8. ConnectionsConserved' /\ TxHoldsItsWrites'
  BY <1>1, <1>2 DEF Core, ConnectionsConserved, Open, InTx, TxHoldsItsWrites, AllowedEvent
<1>9. AllowedAreWritten'
  BY <1>1, <1>2, <1>4, <1>5 DEF AllowedAreWritten
<1>10. AnswersNameRows'
  BY <1>1, <1>2 DEF AnswersNameRows, Retry, None
<1> QED BY <1>2, <1>7, <1>8, <1>9, <1>10 DEF TenantLedger

LEMMA LedgerRests ==
  ASSUME TenantLedger, UNCHANGED ledgerVars
  PROVE  TenantLedger'
<1>1. LedgerTypeOK' /\ ConnectionsConserved' /\ TxHoldsItsWrites'
  BY DEF TenantLedger, ledgerVars, LedgerTypeOK, ConnectionsConserved, Open, InTx,
     TxHoldsItsWrites, AllowedEvent
<1>2. AllowedAreWritten' /\ AnswersNameRows'
  BY DEF TenantLedger, ledgerVars, AllowedAreWritten, AnswersNameRows, Retry, None
<1> QED BY <1>1, <1>2 DEF TenantLedger

-----------------------------------------------------------------------------
(* The inductive invariant of the commands that make tenants.              *)

\* Where the handler of r may be.
Placed(r) ==
  /\ pc[r] = "unsent" => step[r] \in {"session", "route", "done"}
  /\ pc[r] \in {"authorized", "begun", "answered"} => step[r] = "route"
  /\ pc[r] = "performing" => step[r] \in {"route", "create", "assign"}
  /\ pc[r] \in {"performed", "audited"} => step[r] = "done"
  /\ step[r] = "create" => Creating(r)
  /\ step[r] \in {"session", "route"} /\ r \notin rows => found[r] = {}
\* A command that is past its route was permitted, and its target is still what it was.
Cleared(r) ==
  pc[r] = "authorized" \/ InTx(r) \/ r \in rows =>
    ~ReadOnly(r) /\ Permitted(r) /\ (OfProject(r) => ProjectOf(r) # {})
\* A session's scope was read once, and assignments are only added.
ScopeIsAssigned(r) == r.role = "agency" => scope[r] \subseteq AssignedTo(r.home)
ShownAreAssigned(r) ==
  ReadOnly(r) /\ r.kind # "accept" /\ r.role = "agency" => found[r] \subseteq AssignedTo(r.home)

\* The organization that a creating command holds: none yet, its own row, which is
\* then the first of its key, or the row of its key.
Chosen(r) == InTx(r) /\ step[r] \in {"assign", "done"}
HoldsOwn(r) == InTx(r) /\ Creating(r) /\ r.id \in found[r]
Creates(r) ==
  Creating(r) =>
    /\ InTx(r) /\ step[r] = "create" => found[r] \subseteq WithKey(r)
    /\ Chosen(r) => \/ found[r] = {} /\ step[r] = "assign"
                    \/ found[r] = {r.id} /\ WithKey(r) = {}
                    \/ found[r] = WithKey(r)
    /\ InTx(r) /\ step[r] = "done" => found[r] # {}
    /\ r \in rows => found[r] # {} /\ found[r] = WithKey(r)
\* The pair that an assigning command has inserted is one and was free.
HoldsPair(r) == InTx(r) /\ Assigning(r) /\ step[r] = "done"
Single(S) == \A c, d \in S : c = d
Assigns(r) ==
  Assigning(r) =>
    /\ Chosen(r) => Single(found[r])
    /\ HoldsPair(r) => found[r] # {} /\ found[r] \cap AssignedTo(AgencyOf(r)) = {}
    /\ r.kind = "assign" /\ InTx(r) /\ step[r] = "assign" => found[r] = {r.client}
\* The client of a project is there before the project is.
Projects(r) ==
  r.kind = "project" /\ InTx(r) /\ step[r] = "done" => ExistingClient(r.client)
RequestOK(r) ==
  /\ Placed(r) /\ Cleared(r) /\ ScopeIsAssigned(r) /\ ShownAreAssigned(r)
  /\ Creates(r) /\ Assigns(r) /\ Projects(r)
\* The unique indexes: of a key, and of a pair, one transaction has inserted a row.
Exclusive ==
  \A r, s \in Request : r # s =>
    /\ ~(HoldsOwn(r) /\ HoldsOwn(s) /\ OrgKey(r) = OrgKey(s))
    /\ ~(HoldsPair(r) /\ HoldsPair(s) /\ AgencyOf(r) = AgencyOf(s) /\ found[r] = found[s])
\* The tables hold what the committed commands inserted.
OrganizationsOK ==
  /\ \A c \in organizations :
       /\ c.by \in rows /\ Creating(c.by) /\ c.org = c.by.id
       /\ c.by.kind = "provision" => c.org \in AssignedTo(c.by.home)
  /\ \A c, d \in organizations : OrgKey(c.by) = OrgKey(d.by) => c = d
ProjectsOK ==
  \A p \in projects :
    /\ p.req \in rows /\ p.req.kind = "project" /\ p.client = p.req.client
    /\ ExistingClient(p.client)
InvitationsOK == \A i \in invitations : i \in rows /\ i.kind = "invite"
AssignmentsOK == \A a, b \in assignments : a.agency = b.agency /\ a.client = b.client => a = b
TenancyInv ==
  /\ TenancyTypeOK /\ TenantLedger
  /\ \A r \in Request : RequestOK(r)
  /\ Exclusive /\ OrganizationsOK /\ AssignmentsOK /\ ProjectsOK /\ InvitationsOK

LEMMA InitTenancy == TenancyInit => TenancyInv
<1> SUFFICES ASSUME TenancyInit PROVE TenancyInv
  OBVIOUS
<1>1. LedgerInv
  BY InitLedger DEF TenancyInit
<1>2. TenantLedger
  <2>1. AllowedAreWritten /\ AnswersNameRows
    BY DEF TenancyInit, LedgerInit, AllowedAreWritten, AnswersNameRows, None
  <2> QED BY <1>1, <2>1 DEF TenantLedger, LedgerInv
<1>3. TenancyTypeOK
  BY <1>1 DEF TenancyTypeOK, LedgerInv, TenancyInit, Steps
<1>4. ASSUME NEW r \in Request
      PROVE  pc[r] = "unsent" /\ step[r] = "session" /\ found[r] = {} /\ scope[r] = {} /\ ~InTx(r)
  BY DEF TenancyInit, LedgerInit, InTx, InTxLabels
<1>5. rows = {}
  BY DEF TenancyInit, LedgerInit
<1>6. \A r \in Request : RequestOK(r)
  BY <1>4, <1>5 DEF RequestOK, Placed, Cleared, ScopeIsAssigned, ShownAreAssigned, Creates,
     Assigns, Projects, Chosen, HoldsPair
<1>7. Exclusive
  BY <1>4 DEF Exclusive, HoldsOwn, HoldsPair
<1>8. OrganizationsOK /\ AssignmentsOK /\ ProjectsOK /\ InvitationsOK
  BY DEF TenancyInit, OrganizationsOK, AssignmentsOK, ProjectsOK, InvitationsOK
<1> QED BY <1>2, <1>3, <1>6, <1>7, <1>8 DEF TenancyInv

\* What is read from tables that stand.
LEMMA TablesSame ==
  ASSUME UNCHANGED <<organizations, assignments, projects>>
  PROVE  /\ \A g : AssignedTo(g)' = AssignedTo(g)
         /\ \A c : ExistingClient(c)' = ExistingClient(c)
         /\ \A r \in Request : /\ WithKey(r)' = WithKey(r)
                               /\ ProjectOf(r)' = ProjectOf(r)
                               /\ TargetOf(r)' = TargetOf(r)
<1>1. \A r \in Request : ProjectOf(r)' = ProjectOf(r)
  BY DEF ProjectOf
<1>2. \A r \in Request : TargetOf(r)' = TargetOf(r)
  BY DEF TargetOf, ProjectOf
<1>3. \A r \in Request : WithKey(r)' = WithKey(r)
  BY DEF WithKey, OrgKey
<1>4. \A g : AssignedTo(g)' = AssignedTo(g)
  BY DEF AssignedTo
<1>5. \A c : ExistingClient(c)' = ExistingClient(c)
  BY DEF ExistingClient, OfType
<1> QED BY <1>1, <1>2, <1>3, <1>4, <1>5

\* A step of r that changes no table: what it must keep is what is said of r.
LEMMA RequestStep ==
  ASSUME TenancyInv, TenantLedger', NEW r \in Request,
         NEW place \in Labels, pc' = [pc EXCEPT ![r] = place],
         NEW label \in Steps, step' = [step EXCEPT ![r] = label],
         NEW shown \in SUBSET (Ids \cup Existing), found' = [found EXCEPT ![r] = shown],
         NEW carried \in SUBSET (Ids \cup Existing), scope' = [scope EXCEPT ![r] = carried],
         UNCHANGED <<organizations, assignments, projects, invitations, rows>>,
         RequestOK(r)',
         HoldsOwn(r)' =>
           \A s \in Request \ {r} : ~(HoldsOwn(s) /\ OrgKey(r) = OrgKey(s)),
         HoldsPair(r)' =>
           \A s \in Request \ {r} :
             ~(HoldsPair(s) /\ AgencyOf(r) = AgencyOf(s) /\ shown = found[s])
  PROVE  TenancyInv'
<1>1. LedgerTypeOK /\ LedgerTypeOK' /\ TenancyTypeOK
  BY DEF TenancyInv, TenantLedger
<1>2. TenancyTypeOK'
  BY <1>1 DEF TenancyTypeOK
<1>3. \A s \in Request \ {r} : /\ pc'[s] = pc[s] /\ step'[s] = step[s]
                               /\ found'[s] = found[s] /\ scope'[s] = scope[s]
  BY <1>1 DEF TenancyTypeOK, LedgerTypeOK
<1>4. \A s \in Request \ {r} : InTx(s)' = InTx(s) /\ Chosen(s)' = Chosen(s)
  BY <1>3 DEF InTx, Chosen
<1>5. ASSUME NEW s \in Request \ {r} PROVE RequestOK(s)'
  <2>1. RequestOK(s)
    BY DEF TenancyInv
  <2>2. Placed(s)'
    BY <1>3, <2>1 DEF RequestOK, Placed
  <2>3. Cleared(s)'
    BY <1>3, <1>4, <2>1, TablesSame DEF RequestOK, Cleared, Permitted, CanAccess
  <2>4. ScopeIsAssigned(s)' /\ ShownAreAssigned(s)'
    BY <1>3, <2>1, TablesSame DEF RequestOK, ScopeIsAssigned, ShownAreAssigned
  <2>5. Creates(s)'
    BY <1>3, <1>4, <2>1, TablesSame DEF RequestOK, Creates
  <2>6. Assigns(s)'
    BY <1>3, <1>4, <2>1, TablesSame DEF RequestOK, Assigns, HoldsPair
  <2>7. Projects(s)'
    BY <1>3, <1>4, <2>1, TablesSame DEF RequestOK, Projects
  <2> QED BY <2>2, <2>3, <2>4, <2>5, <2>6, <2>7 DEF RequestOK
<1>6. \A s \in Request \ {r} : HoldsOwn(s)' = HoldsOwn(s) /\ HoldsPair(s)' = HoldsPair(s)
  BY <1>3, <1>4 DEF HoldsOwn, HoldsPair
<1>7. Exclusive'
  <2>1. found'[r] = shown
    BY <1>1 DEF TenancyTypeOK
  <2>2. Exclusive
    BY DEF TenancyInv
  <2> SUFFICES ASSUME NEW s \in Request, NEW t \in Request, s # t
               PROVE  /\ ~(HoldsOwn(s)' /\ HoldsOwn(t)' /\ OrgKey(s) = OrgKey(t))
                      /\ ~(HoldsPair(s)' /\ HoldsPair(t)' /\ AgencyOf(s) = AgencyOf(t)
                             /\ found'[s] = found'[t])
    BY DEF Exclusive, OrgKey, AgencyOf
  <2>3. CASE s = r
    BY <1>3, <1>6, <2>1, <2>3
  <2>4. CASE t = r
    BY <1>3, <1>6, <2>1, <2>4
  <2>5. CASE s # r /\ t # r
    BY <1>3, <1>6, <2>2, <2>5 DEF Exclusive
  <2> QED BY <2>3, <2>4, <2>5
<1>8. OrganizationsOK' /\ AssignmentsOK' /\ ProjectsOK' /\ InvitationsOK'
  <2>1. OrganizationsOK'
    BY TablesSame DEF TenancyInv, OrganizationsOK, OrgKey
  <2>2. ProjectsOK'
    BY TablesSame DEF TenancyInv, ProjectsOK
  <2> QED BY <2>1, <2>2 DEF TenancyInv, AssignmentsOK, InvitationsOK
<1>9. \A s \in Request : RequestOK(s)'
  BY <1>5
<1> QED BY <1>2, <1>7, <1>8, <1>9 DEF TenancyInv

-----------------------------------------------------------------------------
\* What is known of a request by its place.
LEMMA Unwritten ==
  ASSUME TenancyInv, NEW r \in Request, pc[r] # "answered"
  PROVE  r \notin rows /\ (step[r] \in {"session", "route"} => found[r] = {})
  BY DEF TenancyInv, TenantLedger, TxHoldsItsWrites, RequestOK, Placed

LEMMA Typed ==
  ASSUME TenancyInv, NEW r \in Request
  PROVE  /\ TenancyTypeOK /\ LedgerTypeOK /\ TenantLedger /\ RequestOK(r)
         /\ pc[r] \in Labels /\ step[r] \in Steps
         /\ found[r] \in SUBSET (Ids \cup Existing) /\ scope[r] \in SUBSET (Ids \cup Existing)
         /\ pc' = pc => pc' = [pc EXCEPT ![r] = pc[r]]
         /\ step' = step => step' = [step EXCEPT ![r] = step[r]]
         /\ found' = found => found' = [found EXCEPT ![r] = found[r]]
         /\ scope' = scope => scope' = [scope EXCEPT ![r] = scope[r]]
  BY DEF TenancyInv, TenantLedger, TenancyTypeOK, LedgerTypeOK

\* A request at the route's statements has nothing in the tables.
LEMMA AtRoute ==
  ASSUME NEW r \in Request, r \notin rows', found'[r] = {}, step'[r] = "route",
         pc'[r] \notin {"performed", "audited"}, Cleared(r)', ScopeIsAssigned(r)'
  PROVE  RequestOK(r)' /\ ~HoldsOwn(r)' /\ ~HoldsPair(r)'
<1>1. Placed(r)'
  BY DEF Placed
<1>2. ~Chosen(r)' /\ ~HoldsOwn(r)' /\ ~HoldsPair(r)'
  BY DEF Chosen, HoldsOwn, HoldsPair
<1>3. ShownAreAssigned(r)' /\ Projects(r)'
  BY DEF ShownAreAssigned, Projects
<1>4. Creates(r)' /\ Assigns(r)'
  BY <1>2 DEF Creates, Assigns
<1> QED BY <1>1, <1>2, <1>3, <1>4 DEF RequestOK

LEMMA SessionStep ==
  ASSUME TenancyInv, NEW r \in Request, ResolveSession(r)
  PROVE  TenancyInv'
<1>1. /\ UNCHANGED ledgerVars /\ UNCHANGED <<organizations, assignments, projects, invitations>>
      /\ pc' = pc /\ rows' = rows /\ found' = found /\ pc[r] = "unsent" /\ step[r] = "session"
      /\ step' = [step EXCEPT ![r] = "route"]
  BY DEF ResolveSession, ledgerVars
<1>2. PICK carried : /\ carried = IF r.role = "agency" THEN AssignedTo(r.home) ELSE {}
                     /\ scope' = [scope EXCEPT ![r] = carried]
  BY DEF ResolveSession
<1>3. TenancyTypeOK
  BY DEF TenancyInv
<1>4. AssignedTo(r.home) \subseteq Ids \cup Existing
  BY <1>3 DEF TenancyTypeOK, Assignment, AssignedTo
<1>5. carried \in SUBSET (Ids \cup Existing)
  BY <1>2, <1>4
<1>6. TenantLedger'
  BY <1>1, LedgerRests DEF TenancyInv
<1>7. r \notin rows /\ found[r] = {}
  BY <1>1, Unwritten
<1>8. pc'[r] = "unsent" /\ step'[r] = "route" /\ found'[r] = {} /\ scope'[r] = carried
  BY <1>1, <1>2, <1>3, <1>7 DEF TenancyTypeOK
<1>9. ScopeIsAssigned(r)'
  BY <1>1, <1>2, <1>8, TablesSame DEF ScopeIsAssigned
<1>10. Cleared(r)'
  BY <1>1, <1>7, <1>8 DEF Cleared, InTx, InTxLabels
<1>11. RequestOK(r)' /\ ~HoldsOwn(r)' /\ ~HoldsPair(r)'
  BY <1>1, <1>7, <1>8, <1>9, <1>10, AtRoute
<1>12. /\ pc[r] \in Labels /\ found[r] \in SUBSET (Ids \cup Existing) /\ "route" \in Steps
       /\ pc' = [pc EXCEPT ![r] = pc[r]] /\ found' = [found EXCEPT ![r] = found[r]]
  BY <1>1, Typed DEF Steps
<1> QED BY <1>1, <1>2, <1>5, <1>6, <1>11, <1>12, RequestStep

\* The handler up to the closure, and the answers before it.
LEMMA AtRouteStep ==
  ASSUME TenancyInv, TenantLedger', NEW r \in Request, step[r] = "route", pc[r] # "answered",
         NEW place \in Labels \ {"performed", "audited"}, pc' = [pc EXCEPT ![r] = place],
         rows' = rows, UNCHANGED tenantVars, Cleared(r)'
  PROVE  TenancyInv'
<1>1. r \notin rows /\ found[r] = {}
  BY Unwritten
<1>2. /\ UNCHANGED <<organizations, assignments, projects, invitations>>
      /\ step' = step /\ found' = found /\ scope' = scope
  BY DEF tenantVars
<1>3. pc'[r] = place /\ LedgerTypeOK /\ RequestOK(r)
  BY Typed DEF LedgerTypeOK
<1>4. ScopeIsAssigned(r)'
  BY <1>2, <1>3, TablesSame DEF RequestOK, ScopeIsAssigned
<1>5. RequestOK(r)' /\ ~HoldsOwn(r)' /\ ~HoldsPair(r)'
  BY <1>1, <1>2, <1>3, <1>4, AtRoute
<1>6. /\ step' = [step EXCEPT ![r] = step[r]] /\ step[r] \in Steps
      /\ found' = [found EXCEPT ![r] = found[r]] /\ found[r] \in SUBSET (Ids \cup Existing)
      /\ scope' = [scope EXCEPT ![r] = scope[r]] /\ scope[r] \in SUBSET (Ids \cup Existing)
  BY <1>2, Typed
<1> QED BY <1>2, <1>5, <1>6, RequestStep

LEMMA RefusedStep ==
  ASSUME TenancyInv, NEW r \in Request, step[r] = "route", UNCHANGED tenantVars,
         Refuse(r) \/ RecordDenied(r) \/ RecordDeniedFails(r)
  PROVE  TenancyInv'
<1>1. TenantLedger'
  BY LedgerRefuses DEF TenancyInv
<1>2. /\ pc[r] = "unsent" /\ rows' = rows /\ pc' = [pc EXCEPT ![r] = "answered"]
      /\ "answered" \in Labels \ {"performed", "audited"}
  BY DEF Refuse, RecordDenied, RecordDeniedFails, Tell, Goto, Labels, InTxLabels
<1>3. r \notin rows /\ LedgerTypeOK
  BY <1>2, Unwritten, Typed
<1>4. Cleared(r)'
  BY <1>2, <1>3 DEF Cleared, InTx, InTxLabels, LedgerTypeOK
<1> QED BY <1>1, <1>2, <1>4, AtRouteStep

LEMMA RouteStep ==
  ASSUME TenancyInv, NEW r \in Request, RouteTenants(r)
  PROVE  TenancyInv'
<1>1. step[r] = "route" /\ ~ReadOnly(r) /\ UNCHANGED tenantVars /\ LedgerTypeOK
  BY Typed DEF RouteTenants
<1>2. UNCHANGED <<organizations, assignments, projects>> /\ scope' = scope
  BY <1>1 DEF tenantVars
<1>3. CASE Refuse(r) \/ RecordDenied(r) \/ RecordDeniedFails(r)
  BY <1>1, <1>3, RefusedStep
<1>4. CASE Authorize(r) /\ Permitted(r) /\ (OfProject(r) => ProjectOf(r) # {})
  <2>1. TenantLedger'
    BY <1>4, LedgerGoesOn DEF TenancyInv
  <2>2. /\ rows' = rows /\ pc' = [pc EXCEPT ![r] = "authorized"]
        /\ "authorized" \in Labels \ {"performed", "audited"}
    BY <1>4 DEF Authorize, Goto, Labels, InTxLabels
  <2>3. pc[r] = "unsent"
    BY <1>4 DEF Authorize
  <2>4. Cleared(r)'
    BY <1>1, <1>2, <1>4, TablesSame DEF Cleared, Permitted, CanAccess
  <2> QED BY <1>1, <2>1, <2>2, <2>3, <2>4, AtRouteStep
<1>5. CASE Begin(r) \/ LookupMisses(r)
  <2>1. TenantLedger'
    BY <1>5, LedgerGoesOn DEF TenancyInv
  <2>2. PICK place \in {"begun", "performing"} : pc' = [pc EXCEPT ![r] = place]
    BY <1>5 DEF Begin, LookupMisses, Goto
  <2>3. /\ rows' = rows /\ pc[r] \in {"authorized", "begun"}
        /\ place \in Labels \ {"performed", "audited"}
    BY <1>5 DEF Begin, LookupMisses, Labels, InTxLabels
  <2>4. Cleared(r)
    BY Typed DEF RequestOK
  <2>5. Cleared(r)'
    BY <1>2, <2>3, <2>4, TablesSame DEF Cleared, Permitted, CanAccess, InTx, InTxLabels
  <2> QED BY <1>1, <2>1, <2>2, <2>3, <2>5, AtRouteStep
<1>6. CASE Replay(r)
  <2>1. r.kind # "act"
    BY <1>1 DEF ReadOnly
  <2>2. TenantLedger' /\ rows' = rows
    BY <1>6, <2>1, LedgerReplays DEF TenancyInv
  <2>3. /\ pc[r] = "begun" /\ pc' = [pc EXCEPT ![r] = "answered"]
        /\ "answered" \in Labels \ {"performed", "audited"}
    BY <1>6 DEF Replay, Tell, Goto, Labels, InTxLabels
  <2>4. r \notin rows
    BY <2>3, Unwritten
  <2>5. Cleared(r)'
    BY <1>1, <2>2, <2>3, <2>4 DEF Cleared, InTx, InTxLabels, LedgerTypeOK
  <2> QED BY <1>1, <2>2, <2>3, <2>5, AtRouteStep
<1>7. \/ Refuse(r) \/ RecordDenied(r) \/ RecordDeniedFails(r)
      \/ Authorize(r) /\ Permitted(r) /\ (OfProject(r) => ProjectOf(r) # {})
      \/ Begin(r) \/ LookupMisses(r)
      \/ Replay(r)
  BY DEF RouteTenants, BeforePerform, Authorize
<1> QED BY <1>3, <1>4, <1>5, <1>6, <1>7

LEMMA AbortStep ==
  ASSUME TenancyInv, NEW r \in Request, AbortTenants(r)
  PROVE  TenancyInv'
<1>1. /\ Rollback(r) /\ scope' = scope
      /\ UNCHANGED <<organizations, assignments, projects, invitations>>
      /\ step' = [step EXCEPT ![r] = "route"] /\ found' = [found EXCEPT ![r] = {}]
  BY DEF AbortTenants, ForgetTenants
<1>2. TenantLedger' /\ pc' = [pc EXCEPT ![r] = "answered"] /\ r \notin rows /\ rows' = rows
  BY <1>1, LedgerEnds DEF TenancyInv
<1>3. TenancyTypeOK /\ LedgerTypeOK /\ RequestOK(r)
  BY Typed
<1>4. pc'[r] = "answered" /\ step'[r] = "route" /\ found'[r] = {}
  BY <1>1, <1>2, <1>3 DEF TenancyTypeOK, LedgerTypeOK
<1>5. ScopeIsAssigned(r)'
  BY <1>1, <1>3, TablesSame DEF RequestOK, ScopeIsAssigned
<1>6. Cleared(r)'
  BY <1>2, <1>4 DEF Cleared, InTx, InTxLabels
<1>7. RequestOK(r)' /\ ~HoldsOwn(r)' /\ ~HoldsPair(r)'
  BY <1>2, <1>4, <1>5, <1>6, AtRoute
<1>8. /\ "answered" \in Labels /\ "route" \in Steps /\ {} \in SUBSET (Ids \cup Existing)
      /\ scope' = [scope EXCEPT ![r] = scope[r]] /\ scope[r] \in SUBSET (Ids \cup Existing)
  BY <1>1, Typed DEF Labels, Steps
<1> QED BY <1>1, <1>2, <1>7, <1>8, RequestStep

-----------------------------------------------------------------------------
\* The handlers that only read: what an agency is shown is assigned to it.
LEMMA ShowStep ==
  ASSUME TenancyInv, NEW r \in Request, NEW shown \in SUBSET (Ids \cup Existing),
         Show(r, shown), step[r] = "route", pc[r] = "unsent",
         audit' = audit \/ (r.kind = "act" /\ PersistIntent(r, "ALLOWED")),
         r.kind # "accept" /\ r.role = "agency" => shown \subseteq AssignedTo(r.home),
         ReadOnly(r)
  PROVE  TenancyInv'
<1>1. /\ UNCHANGED <<organizations, assignments, projects, invitations>>
      /\ step' = [step EXCEPT ![r] = "done"] /\ found' = [found EXCEPT ![r] = shown]
      /\ pc' = pc /\ scope' = scope
  BY DEF Show
<1>2. TenantLedger' /\ rows' = rows
  BY LedgerShows DEF TenancyInv
<1>3. r \notin rows /\ TenancyTypeOK /\ RequestOK(r)
  BY Typed, Unwritten
<1>4. pc'[r] = "unsent" /\ step'[r] = "done" /\ found'[r] = shown
  BY <1>1, <1>3 DEF TenancyTypeOK
<1>5. ~InTx(r)' /\ ~Chosen(r)' /\ ~HoldsOwn(r)' /\ ~HoldsPair(r)'
  BY <1>4 DEF Chosen, HoldsOwn, HoldsPair, InTx, InTxLabels
<1>6. Placed(r)' /\ Cleared(r)'
  BY <1>2, <1>3, <1>4, <1>5 DEF Placed, Cleared
<1>7. ScopeIsAssigned(r)' /\ ShownAreAssigned(r)'
  BY <1>1, <1>3, <1>4, TablesSame DEF RequestOK, ScopeIsAssigned, ShownAreAssigned
<1>8. Creates(r)' /\ Assigns(r)' /\ Projects(r)'
  BY <1>2, <1>3, <1>5 DEF Creates, Assigns, Projects
<1>9. RequestOK(r)'
  BY <1>6, <1>7, <1>8 DEF RequestOK
<1>10. /\ pc[r] \in Labels /\ "done" \in Steps /\ scope[r] \in SUBSET (Ids \cup Existing)
       /\ pc' = [pc EXCEPT ![r] = pc[r]] /\ scope' = [scope EXCEPT ![r] = scope[r]]
  BY <1>1, Typed DEF Steps
<1> QED BY <1>1, <1>2, <1>5, <1>9, <1>10, RequestStep

LEMMA ProjectsAreTyped ==
  ASSUME TenancyTypeOK, NEW x
  PROVE  {p.client : p \in ProjectOf(x)} \subseteq Ids \cup Existing
  BY DEF TenancyTypeOK, Project, ProjectOf

LEMMA ReadStep ==
  ASSUME TenancyInv, NEW r \in Request,
         ListAgencyClients(r) \/ SetAgencyContext(r) \/ GetProject(r) \/ AcceptInvitation(r)
  PROVE  TenancyInv'
<1>1. TenancyTypeOK /\ RequestOK(r) /\ step[r] = "route" /\ pc[r] = "unsent"
  BY Typed DEF ListAgencyClients, SetAgencyContext, GetProject, AcceptInvitation
<1>2. CASE UNCHANGED tenantVars /\ (Refuse(r) \/ DenyAccess(r))
  BY <1>1, <1>2, RefusedStep DEF DenyAccess
<1>3. \A g : AssignedTo(g) \subseteq Ids \cup Existing
  BY <1>1 DEF TenancyTypeOK, Assignment, AssignedTo
<1>4. ASSUME ListAgencyClients(r), ~(UNCHANGED tenantVars /\ (Refuse(r) \/ DenyAccess(r)))
      PROVE  TenancyInv'
  <2>1. /\ r.kind = "list" /\ Show(r, AssignedTo(r.home)) /\ audit' = audit
    BY <1>4 DEF ListAgencyClients
  <2>2. PICK shown : shown = AssignedTo(r.home)
    OBVIOUS
  <2>3. ReadOnly(r) /\ shown \in SUBSET (Ids \cup Existing) /\ Show(r, shown)
    BY <1>3, <2>1, <2>2 DEF ReadOnly
  <2>4. shown \subseteq AssignedTo(r.home)
    BY <2>2
  <2> QED BY <1>1, <2>1, <2>3, <2>4, ShowStep
<1>5. ASSUME SetAgencyContext(r), ~(UNCHANGED tenantVars /\ (Refuse(r) \/ DenyAccess(r)))
      PROVE  TenancyInv'
  <2>1. /\ r.kind = "act" /\ r.client \in AssignedTo(r.home)
        /\ PersistIntent(r, "ALLOWED") /\ Show(r, {r.client})
    BY <1>5 DEF SetAgencyContext
  <2>2. /\ ReadOnly(r) /\ {r.client} \in SUBSET (Ids \cup Existing)
        /\ {r.client} \subseteq AssignedTo(r.home)
    BY <1>3, <2>1 DEF ReadOnly
  <2> QED BY <1>1, <2>1, <2>2, ShowStep
<1>6. ASSUME GetProject(r), ~(UNCHANGED tenantVars /\ (Refuse(r) \/ DenyAccess(r)))
      PROVE  TenancyInv'
  <2>1. /\ r.kind = "view" /\ Permitted(r) /\ Show(r, TargetOf(r)) /\ audit' = audit
    BY <1>6 DEF GetProject
  <2>2. PICK shown : shown = TargetOf(r)
    OBVIOUS
  <2>3. shown \in SUBSET (Ids \cup Existing)
    BY <1>1, <2>1, <2>2, ProjectsAreTyped DEF TargetOf, OfProject
  <2>4. r.role = "agency" => shown \subseteq AssignedTo(r.home)
    BY <1>1, <2>1, <2>2 DEF Permitted, CanAccess, RequestOK, ScopeIsAssigned
  <2>5. ReadOnly(r) /\ Show(r, shown)
    BY <2>1, <2>2 DEF ReadOnly
  <2> QED BY <1>1, <2>1, <2>3, <2>4, <2>5, ShowStep
<1>7. ASSUME AcceptInvitation(r), ~(UNCHANGED tenantVars /\ (Refuse(r) \/ DenyAccess(r)))
      PROVE  TenancyInv'
  <2>1. /\ r.kind = "accept" /\ r.of \in invitations /\ Show(r, TargetOf(r.of)) /\ audit' = audit
    BY <1>7 DEF AcceptInvitation
  <2>2. PICK shown : shown = TargetOf(r.of)
    OBVIOUS
  <2>3. r.of.kind = "invite"
    BY <2>1 DEF TenancyInv, InvitationsOK
  <2>4. shown \in SUBSET (Ids \cup Existing)
    BY <1>1, <2>2, <2>3, ProjectsAreTyped DEF TargetOf, OfProject
  <2>5. ReadOnly(r) /\ Show(r, shown)
    BY <2>1, <2>2 DEF ReadOnly
  <2> QED BY <1>1, <2>1, <2>4, <2>5, ShowStep
<1> QED BY <1>2, <1>4, <1>5, <1>6, <1>7

-----------------------------------------------------------------------------
(* The statements of the write commands.                                   *)

\* What a statement of the closure leaves of its request, whatever it finds.
LEMMA InClosure ==
  ASSUME TenancyInv, NEW r \in Request, InTx(r), InTx(r)', rows' = rows, scope' = scope,
         UNCHANGED <<organizations, assignments, projects>>
  PROVE  /\ Cleared(r)' /\ ScopeIsAssigned(r)' /\ ShownAreAssigned(r)'
         /\ r \notin rows' /\ ~ReadOnly(r)
<1>1. RequestOK(r) /\ r \notin rows
  BY Typed, Unwritten DEF InTx, InTxLabels
<1>2. ~ReadOnly(r) /\ Cleared(r)'
  BY <1>1, TablesSame DEF RequestOK, Cleared, Permitted, CanAccess
<1>3. ScopeIsAssigned(r)' /\ ShownAreAssigned(r)'
  BY <1>1, <1>2, TablesSame DEF RequestOK, ScopeIsAssigned, ShownAreAssigned
<1> QED BY <1>1, <1>2, <1>3

LEMMA ProceedStep ==
  ASSUME TenancyInv, NEW r \in Request, pc[r] = "performing",
         NEW label \in {"create", "assign"}, NEW shown \in SUBSET (Ids \cup Existing),
         Proceed(r, label, shown), Creates(r)', Assigns(r)', label = "create" => Creating(r),
         Creating(r) /\ r.id \in shown =>
           \A s \in Request \ {r} : ~(HoldsOwn(s) /\ OrgKey(r) = OrgKey(s))
  PROVE  TenancyInv'
<1>1. /\ UNCHANGED <<organizations, assignments, projects, invitations>>
      /\ step' = [step EXCEPT ![r] = label] /\ found' = [found EXCEPT ![r] = shown]
      /\ UNCHANGED ledgerVars /\ pc' = pc /\ rows' = rows /\ scope' = scope
  BY DEF Proceed, ledgerVars
<1>2. TenantLedger'
  BY <1>1, LedgerRests DEF TenancyInv
<1>3. TenancyTypeOK
  BY Typed
<1>4. pc'[r] = "performing" /\ step'[r] = label /\ found'[r] = shown
  BY <1>1, <1>3 DEF TenancyTypeOK
<1>5. InTx(r) /\ InTx(r)'
  BY <1>4 DEF InTx, InTxLabels
<1>6. Cleared(r)' /\ ScopeIsAssigned(r)' /\ ShownAreAssigned(r)' /\ r \notin rows'
  BY <1>1, <1>5, InClosure
<1>7. Placed(r)' /\ Projects(r)' /\ ~HoldsPair(r)'
  BY <1>4 DEF Placed, Projects, HoldsPair
<1>8. RequestOK(r)'
  BY <1>6, <1>7 DEF RequestOK
<1>9. HoldsOwn(r)' => \A s \in Request \ {r} : ~(HoldsOwn(s) /\ OrgKey(r) = OrgKey(s))
  BY <1>4 DEF HoldsOwn
<1>10. /\ pc[r] \in Labels /\ label \in Steps /\ scope[r] \in SUBSET (Ids \cup Existing)
       /\ pc' = [pc EXCEPT ![r] = pc[r]] /\ scope' = [scope EXCEPT ![r] = scope[r]]
  BY <1>1, Typed DEF Steps
<1> QED BY <1>1, <1>2, <1>7, <1>8, <1>9, <1>10, RequestStep

LEMMA InsertStep ==
  ASSUME TenancyInv, NEW r \in Request, Insert(r), Creates(r)', Assigns(r)', Projects(r)',
         Creating(r) /\ r.id \in found[r] =>
           \A s \in Request \ {r} : ~(HoldsOwn(s) /\ OrgKey(r) = OrgKey(s)),
         Assigning(r) =>
           \A s \in Request \ {r} :
             ~(HoldsPair(s) /\ AgencyOf(r) = AgencyOf(s) /\ found[r] = found[s])
  PROVE  TenancyInv'
<1>1. /\ UNCHANGED <<organizations, assignments, projects, invitations>>
      /\ step' = [step EXCEPT ![r] = "done"] /\ found' = found /\ scope' = scope
      /\ Perform(r) /\ pc' = [pc EXCEPT ![r] = "performed"] /\ rows' = rows
      /\ pc[r] = "performing"
  BY DEF Insert, Perform, Goto
<1>2. TenantLedger'
  BY <1>1, LedgerGoesOn DEF TenancyInv
<1>3. TenancyTypeOK /\ LedgerTypeOK
  BY Typed
<1>4. pc'[r] = "performed" /\ step'[r] = "done" /\ found'[r] = found[r]
  BY <1>1, <1>3 DEF TenancyTypeOK, LedgerTypeOK
<1>5. InTx(r) /\ InTx(r)'
  BY <1>1, <1>4 DEF InTx, InTxLabels
<1>6. Cleared(r)' /\ ScopeIsAssigned(r)' /\ ShownAreAssigned(r)' /\ r \notin rows'
  BY <1>1, <1>5, InClosure
<1>7. Placed(r)'
  BY <1>4 DEF Placed
<1>8. RequestOK(r)'
  BY <1>6, <1>7 DEF RequestOK
<1>9. HoldsOwn(r)' => \A s \in Request \ {r} : ~(HoldsOwn(s) /\ OrgKey(r) = OrgKey(s))
  BY <1>4 DEF HoldsOwn
<1>10. HoldsPair(r)' =>
         \A s \in Request \ {r} :
           ~(HoldsPair(s) /\ AgencyOf(r) = AgencyOf(s) /\ found[r] = found[s])
  BY DEF HoldsPair
<1>11. /\ "performed" \in Labels /\ "done" \in Steps /\ scope[r] \in SUBSET (Ids \cup Existing)
       /\ found' = [found EXCEPT ![r] = found[r]] /\ scope' = [scope EXCEPT ![r] = scope[r]]
       /\ found[r] \in SUBSET (Ids \cup Existing)
  BY <1>1, Typed DEF Steps, Labels, InTxLabels
<1> QED BY <1>1, <1>2, <1>8, <1>9, <1>10, <1>11, RequestStep

LEMMA AuditStep ==
  ASSUME TenancyInv, NEW r \in Request, AppendAudit(r), UNCHANGED tenantVars
  PROVE  TenancyInv'
<1>1. /\ UNCHANGED <<organizations, assignments, projects, invitations>>
      /\ step' = step /\ found' = found /\ scope' = scope
      /\ pc' = [pc EXCEPT ![r] = "audited"] /\ rows' = rows /\ pc[r] = "performed"
  BY DEF AppendAudit, Goto, tenantVars
<1>2. TenantLedger'
  BY LedgerGoesOn DEF TenancyInv
<1>3. TenancyTypeOK /\ LedgerTypeOK /\ RequestOK(r)
  BY Typed
<1>4. pc'[r] = "audited" /\ step'[r] = step[r] /\ found'[r] = found[r]
  BY <1>1, <1>3 DEF LedgerTypeOK
<1>5. InTx(r) /\ InTx(r)'
  BY <1>1, <1>4 DEF InTx, InTxLabels
<1>6. Cleared(r)' /\ ScopeIsAssigned(r)' /\ ShownAreAssigned(r)' /\ r \notin rows'
  BY <1>1, <1>5, InClosure
<1>7. /\ Chosen(r)' = Chosen(r) /\ HoldsOwn(r)' = HoldsOwn(r) /\ HoldsPair(r)' = HoldsPair(r)
  BY <1>1, <1>5 DEF Chosen, HoldsOwn, HoldsPair
<1>8. Placed(r)'
  BY <1>1, <1>3, <1>4 DEF RequestOK, Placed
<1>9. Creates(r)' /\ Assigns(r)' /\ Projects(r)'
  BY <1>1, <1>3, <1>5, <1>6, <1>7, TablesSame DEF RequestOK, Creates, Assigns, Projects
<1>10. RequestOK(r)'
  BY <1>6, <1>8, <1>9 DEF RequestOK
<1>11. /\ HoldsOwn(r)' => \A s \in Request \ {r} : ~(HoldsOwn(s) /\ OrgKey(r) = OrgKey(s))
       /\ HoldsPair(r)' =>
            \A s \in Request \ {r} :
              ~(HoldsPair(s) /\ AgencyOf(r) = AgencyOf(s) /\ found[r] = found[s])
  BY <1>7 DEF TenancyInv, Exclusive
<1>12. /\ "audited" \in Labels /\ step[r] \in Steps /\ step' = [step EXCEPT ![r] = step[r]]
       /\ found' = [found EXCEPT ![r] = found[r]] /\ found[r] \in SUBSET (Ids \cup Existing)
       /\ scope' = [scope EXCEPT ![r] = scope[r]] /\ scope[r] \in SUBSET (Ids \cup Existing)
  BY <1>1, Typed DEF Labels, InTxLabels
<1> QED BY <1>1, <1>2, <1>10, <1>11, <1>12, RequestStep

\* A key has one organization at most, and that of another request.
LEMMA KeysOrganization ==
  ASSUME TenancyInv, NEW r \in Request
  PROVE  /\ Single(WithKey(r)) /\ WithKey(r) \subseteq Ids
         /\ r \notin rows => r.id \notin WithKey(r)
<1>1. organizations \subseteq OrganizationRow /\ OrganizationsOK
  BY DEF TenancyInv, TenancyTypeOK
<1>2. \A c \in organizations : c.by \in Request /\ c.org \in Ids
  BY <1>1 DEF OrganizationRow
<1>3. Single(WithKey(r)) /\ WithKey(r) \subseteq Ids
  BY <1>1, <1>2 DEF OrganizationsOK, WithKey, Single
<1>4. ASSUME r.id \in WithKey(r) PROVE r \in rows
  <2>1. PICK c \in organizations : c.org = r.id
    BY <1>4 DEF WithKey
  <2>2. c.by.id = r.id /\ c.by \in rows
    BY <1>1, <2>1 DEF OrganizationsOK
  <2>3. c.by = r
    BY <1>2, <2>2, TenantAssumption
  <2> QED BY <2>2, <2>3
<1> QED BY <1>3, <1>4

LEMMA BeginCreateStep ==
  ASSUME TenancyInv, NEW r \in Request, BeginCreate(r)
  PROVE  TenancyInv'
<1>1. pc[r] = "performing" /\ Creating(r) /\ Proceed(r, "create", WithKey(r))
  BY DEF BeginCreate, Performing
<1>2. PICK shown : shown = WithKey(r)
  OBVIOUS
<1>3. /\ shown \in SUBSET (Ids \cup Existing) /\ r.id \notin shown /\ r \notin rows
      /\ TenancyTypeOK /\ LedgerTypeOK
  BY <1>1, <1>2, KeysOrganization, Unwritten, Typed
<1>4. Proceed(r, "create", shown)
  BY <1>1, <1>2
<1>5. /\ step'[r] = "create" /\ found'[r] = shown /\ r \notin rows'
      /\ UNCHANGED <<organizations, assignments, projects>>
  BY <1>3, <1>4 DEF Proceed, TenancyTypeOK, ledgerVars
<1>6. ~Chosen(r)' /\ ~HoldsPair(r)'
  BY <1>5 DEF Chosen, HoldsPair
<1>7. Creates(r)' /\ Assigns(r)'
  BY <1>1, <1>2, <1>5, <1>6, TablesSame DEF Creates, Assigns, Creating
<1> QED BY <1>1, <1>3, <1>4, <1>7, ProceedStep

\* The INSERT: the row of the key that is there, or its own.
LEMMA CreateIdempotentStep ==
  ASSUME TenancyInv, NEW r \in Request, CreateIdempotent(r)
  PROVE  TenancyInv'
<1>1. pc[r] = "performing" /\ step[r] = "create" /\ ~HeldKey(r)
  BY DEF CreateIdempotent, Performing
<1>2. PICK shown : shown = IF WithKey(r) = {} THEN {r.id} ELSE found[r]
  OBVIOUS
<1>3. Proceed(r, "assign", shown)
  BY <1>2 DEF CreateIdempotent
<1>4. /\ r \notin rows /\ RequestOK(r) /\ TenancyTypeOK
      /\ found[r] \in SUBSET (Ids \cup Existing) /\ Single(WithKey(r))
  BY <1>1, KeysOrganization, Unwritten, Typed
<1>5. Creating(r) /\ InTx(r)
  BY <1>1, <1>4 DEF RequestOK, Placed, InTx, InTxLabels
<1>6. found[r] \subseteq WithKey(r)
  BY <1>1, <1>4, <1>5 DEF RequestOK, Creates
<1>7. shown \in SUBSET (Ids \cup Existing)
  BY <1>2, <1>4 DEF Ids
<1>8. Single(shown)
  BY <1>2, <1>4, <1>6 DEF Single
<1>9. \/ shown = {}
      \/ shown = {r.id} /\ WithKey(r) = {}
      \/ shown = WithKey(r)
  BY <1>2, <1>4, <1>6 DEF Single
<1>10. /\ step'[r] = "assign" /\ found'[r] = shown /\ r \notin rows'
       /\ UNCHANGED <<organizations, assignments, projects>>
  BY <1>3, <1>4 DEF Proceed, TenancyTypeOK, ledgerVars
<1>11. Creates(r)'
  BY <1>9, <1>10, TablesSame DEF Creates
<1>12. Assigns(r)'
  BY <1>5, <1>8, <1>10 DEF Assigns, HoldsPair, Creating
<1>13. \A s \in Request \ {r} : ~(HoldsOwn(s) /\ OrgKey(r) = OrgKey(s))
  BY <1>1 DEF HeldKey, HoldsOwn
<1> QED BY <1>1, <1>3, <1>7, <1>11, <1>12, <1>13, ProceedStep

\* A command that creates keeps what it has found when it is through.
LEMMA Inserts ==
  ASSUME TenancyInv, NEW r \in Request, Insert(r), step[r] = "assign", found[r] # {}
  PROVE  /\ Creates(r)' /\ step'[r] = "done" /\ found'[r] = found[r] /\ InTx(r)
         /\ UNCHANGED <<organizations, assignments, projects>> /\ r \notin rows'
         /\ Assigning(r) => Single(found[r])
         /\ Creating(r) /\ r.id \in found[r] =>
              \A s \in Request \ {r} : ~(HoldsOwn(s) /\ OrgKey(r) = OrgKey(s))
<1>1. pc[r] = "performing" /\ rows' = rows /\ UNCHANGED <<organizations, assignments, projects>>
  BY DEF Insert, Perform
<1>2. r \notin rows /\ RequestOK(r) /\ TenancyTypeOK
  BY <1>1, Unwritten, Typed
<1>3. step'[r] = "done" /\ found'[r] = found[r]
  BY <1>2 DEF Insert, TenancyTypeOK
<1>4. InTx(r) /\ Chosen(r)
  BY <1>1 DEF Chosen, InTx, InTxLabels
<1>5. Creates(r)'
  BY <1>1, <1>2, <1>3, <1>4, TablesSame DEF RequestOK, Creates
<1>6. Assigning(r) => Single(found[r])
  BY <1>2, <1>4 DEF RequestOK, Assigns
<1>7. Creating(r) /\ r.id \in found[r] =>
        \A s \in Request \ {r} : ~(HoldsOwn(s) /\ OrgKey(r) = OrgKey(s))
  BY <1>4 DEF HoldsOwn, TenancyInv, Exclusive
<1> QED BY <1>1, <1>2, <1>3, <1>4, <1>5, <1>6, <1>7

LEMMA CreateOrganizationStep ==
  ASSUME TenancyInv, NEW r \in Request, CreateOrganization(r)
  PROVE  TenancyInv'
<1>1. r.kind = "create" /\ step[r] = "assign" /\ found[r] # {} /\ Insert(r)
  BY DEF CreateOrganization, Performing
<1>2. ~Assigning(r) /\ Assigns(r)' /\ Projects(r)'
  BY <1>1 DEF Assigning, Assigns, Projects
<1> QED BY <1>1, <1>2, Inserts, InsertStep

LEMMA CheckAssignmentStep ==
  ASSUME TenancyInv, NEW r \in Request, CheckAssignment(r)
  PROVE  TenancyInv'
<1>1. pc[r] = "performing" /\ r.kind = "assign" /\ ~Creating(r)
  BY DEF CheckAssignment, Performing, Creating
<1>2. CASE AbortTenants(r)
  BY <1>2, AbortStep
<1>3. CASE Proceed(r, "assign", {r.client})
  <2>1. {r.client} \in SUBSET (Ids \cup Existing)
    BY <1>1, TenantAssumption DEF Ids
  <2>2. TenancyTypeOK
    BY Typed
  <2>3. step'[r] = "assign" /\ found'[r] = {r.client}
    BY <1>3, <2>2 DEF Proceed, TenancyTypeOK
  <2>4. Creates(r)' /\ Assigns(r)'
    BY <1>1, <2>3 DEF Creates, Assigns, HoldsPair, Single
  <2> QED BY <1>1, <1>3, <2>1, <2>4, ProceedStep
<1> QED BY <1>2, <1>3 DEF CheckAssignment

\* The INSERT of a pair that is free.
LEMMA AssignStep ==
  ASSUME TenancyInv, NEW r \in Request, Assign(r)
  PROVE  TenancyInv'
<1>1. /\ Assigning(r) /\ step[r] = "assign" /\ found[r] # {} /\ ~HeldPair(r)
  BY DEF Assign
<1>2. CASE AbortTenants(r)
  BY <1>2, AbortStep
<1>3. CASE Insert(r) /\ ~(found[r] \subseteq AssignedTo(AgencyOf(r)))
  <2>1. /\ Creates(r)' /\ step'[r] = "done" /\ found'[r] = found[r] /\ Single(found[r])
        /\ UNCHANGED <<organizations, assignments, projects>>
    BY <1>1, <1>3, Inserts
  <2>2. found[r] \cap AssignedTo(AgencyOf(r)) = {}
    BY <1>3, <2>1 DEF Single
  <2>3. AgencyOf(r)' = AgencyOf(r)
    BY DEF AgencyOf
  <2>4. Assigns(r)'
    BY <1>1, <2>1, <2>2, <2>3, TablesSame DEF Assigns
  <2>5. Projects(r)'
    BY <1>1 DEF Projects, Assigning
  <2>6. \A s \in Request \ {r} :
          ~(HoldsPair(s) /\ AgencyOf(r) = AgencyOf(s) /\ found[r] = found[s])
    BY <1>1 DEF HeldPair, HoldsPair
  <2> QED BY <1>1, <1>3, <2>1, <2>4, <2>5, <2>6, Inserts, InsertStep
<1> QED BY <1>2, <1>3 DEF Assign

LEMMA OfProjectStep ==
  ASSUME TenancyInv, NEW r \in Request, CreateProject(r) \/ CreateInvitation(r)
  PROVE  TenancyInv'
<1>1. CASE AbortTenants(r)
  BY <1>1, AbortStep
<1>2. CASE /\ Insert(r)
           /\ \/ r.kind = "project" /\ ExistingClient(r.client)
              \/ r.kind = "invite"
  <2>1. ~Creating(r) /\ ~Assigning(r)
    BY <1>2 DEF Creating, Assigning
  <2>2. UNCHANGED <<organizations, assignments, projects>>
    BY <1>2 DEF Insert
  <2>3. Creates(r)' /\ Assigns(r)' /\ Projects(r)'
    BY <1>2, <2>1, <2>2, TablesSame DEF Creates, Assigns, Projects
  <2> QED BY <1>2, <2>1, <2>3, InsertStep
<1> QED BY <1>1, <1>2 DEF CreateProject, CreateInvitation, Performing

-----------------------------------------------------------------------------
(* COMMIT: what r has inserted is there, for everybody at once.            *)

Commits(r) == (Commit(r) \/ CommitUnacknowledged(r)) /\ PublishTenants(r)

LEMMA CommitsAt ==
  ASSUME TenancyInv, NEW r \in Request, Commits(r)
  PROVE  /\ TenantLedger' /\ RequestOK(r) /\ TenancyTypeOK /\ LedgerTypeOK
         /\ InTx(r) /\ Chosen(r) /\ step[r] = "done" /\ r \notin rows /\ rows' = rows \cup {r}
         /\ pc' = [pc EXCEPT ![r] = "answered"] /\ step' = [step EXCEPT ![r] = "route"]
         /\ found' = found /\ scope' = scope /\ ~ReadOnly(r)
<1>1. (Commit(r) \/ CommitUnacknowledged(r)) /\ RequestOK(r) /\ TenancyTypeOK /\ LedgerTypeOK
  BY Typed DEF Commits
<1>2. ~Rollback(r)
  <2>1. Rollback(r) => rows' = rows /\ r \notin rows
    BY <1>1, LedgerEnds DEF TenancyInv
  <2>2. r \in rows'
    BY <1>1 DEF Commit, CommitUnacknowledged, Apply, TenancyInv, TenantLedger,
       TxHoldsItsWrites
  <2> QED BY <2>1, <2>2
<1>3. /\ TenantLedger' /\ InTx(r) /\ pc' = [pc EXCEPT ![r] = "answered"] /\ r \notin rows
      /\ rows' = rows \cup {r} /\ pc[r] = "audited"
  BY <1>1, <1>2, LedgerEnds DEF TenancyInv
<1>4. step[r] = "done" /\ Chosen(r) /\ ~ReadOnly(r)
  BY <1>1, <1>3 DEF RequestOK, Placed, Chosen, Cleared
<1> QED BY <1>1, <1>3, <1>4 DEF Commits, PublishTenants

LEMMA CommitAdds ==
  ASSUME TenancyInv, NEW r \in Request, Commits(r)
  PROVE  /\ HoldsOwn(r) => organizations' = organizations \cup {[org |-> r.id, type |-> r.type, by |-> r]}
         /\ ~HoldsOwn(r) => organizations' = organizations
         /\ \A a : a \in assignments' <=>
              \/ a \in assignments
              \/ /\ Assigning(r)
                 /\ \E c \in found[r] : a = [agency |-> AgencyOf(r), client |-> c, req |-> r]
         /\ r.kind = "project" => projects' = projects \cup {[client |-> r.client, req |-> r]}
         /\ r.kind # "project" => projects' = projects
         /\ r.kind = "invite" => invitations' = invitations \cup {r}
         /\ r.kind # "invite" => invitations' = invitations
<1>1. InTx(r)
  BY CommitsAt
<1>2. {s \in {r} : Creating(s) /\ s.id \in found[s]} = IF HoldsOwn(r) THEN {r} ELSE {}
  BY <1>1 DEF HoldsOwn
<1>3. organizations' = organizations \cup
        {[org |-> s.id, type |-> s.type, by |-> s] : s \in IF HoldsOwn(r) THEN {r} ELSE {}}
  BY <1>2 DEF Commits, PublishTenants
<1>4. \A a : a \in assignments' <=>
        \/ a \in assignments
        \/ /\ Assigning(r)
           /\ \E c \in found[r] : a = [agency |-> AgencyOf(r), client |-> c, req |-> r]
  BY DEF Commits, PublishTenants
<1>5. /\ r.kind = "project" => projects' = projects \cup {[client |-> r.client, req |-> r]}
      /\ r.kind # "project" => projects' = projects
  BY DEF Commits, PublishTenants
<1>6. /\ r.kind = "invite" => invitations' = invitations \cup {r}
      /\ r.kind # "invite" => invitations' = invitations
  BY DEF Commits, PublishTenants
<1> QED BY <1>3, <1>4, <1>5, <1>6

LEMMA CommitTypes ==
  ASSUME TenancyInv, NEW r \in Request, Commits(r)
  PROVE  TenancyTypeOK'
<1>1. TenancyTypeOK /\ LedgerTypeOK'
  BY CommitsAt DEF TenantLedger
<1>2. organizations' \subseteq OrganizationRow
  <2>1. HoldsOwn(r) => r.type \in {"AGENCY", "CLIENT"} /\ r.id \in Ids
    BY TenantAssumption DEF HoldsOwn, Creating, Ids
  <2>2. HoldsOwn(r) => [org |-> r.id, type |-> r.type, by |-> r] \in OrganizationRow
    BY <2>1 DEF OrganizationRow
  <2> QED BY <1>1, <2>2, CommitAdds DEF TenancyTypeOK
<1>3. assignments' \subseteq Assignment
  <2>1. Assigning(r) => AgencyOf(r) \in Agency \cup Ids
    BY TenantAssumption DEF Assigning, AgencyOf, Ids
  <2>2. \A c \in found[r] : c \in Ids \cup Existing
    BY Typed
  <2>3. Assigning(r) => \A c \in found[r] :
          [agency |-> AgencyOf(r), client |-> c, req |-> r] \in Assignment
    BY <2>1, <2>2 DEF Assignment
  <2> QED BY <1>1, <2>3, CommitAdds DEF TenancyTypeOK
<1>4. projects' \subseteq Project
  <2>1. r.kind = "project" => r.client \in Ids \cup Existing
    BY TenantAssumption DEF Ids
  <2>2. r.kind = "project" => [client |-> r.client, req |-> r] \in Project
    BY <2>1 DEF Project
  <2> QED BY <1>1, <2>2, CommitAdds DEF TenancyTypeOK
<1>5. invitations' \subseteq Request
  BY <1>1, CommitAdds DEF TenancyTypeOK
<1>6. step' \in [Request -> Steps]
  BY <1>1, CommitsAt DEF TenancyTypeOK, Steps
<1>7. found' = found /\ scope' = scope
  BY CommitsAt
<1> QED BY <1>1, <1>2, <1>3, <1>4, <1>5, <1>6, <1>7 DEF TenancyTypeOK

\* What everybody reads after it.
LEMMA CommitReads ==
  ASSUME TenancyInv, NEW r \in Request, Commits(r)
  PROVE  /\ \A g : AssignedTo(g)' =
              AssignedTo(g) \cup (IF Assigning(r) /\ AgencyOf(r) = g THEN found[r] ELSE {})
         /\ \A s \in Request : WithKey(s)' =
              WithKey(s) \cup (IF HoldsOwn(r) /\ OrgKey(s) = OrgKey(r) THEN {r.id} ELSE {})
         /\ \A c : ExistingClient(c) => ExistingClient(c)'
         /\ \A s \in Request : ProjectOf(s) # {} => ProjectOf(s)' = ProjectOf(s)
         /\ HoldsOwn(r) => found[r] = {r.id} /\ WithKey(r) = {}
<1>1. ASSUME NEW g
      PROVE  AssignedTo(g)' =
               AssignedTo(g) \cup (IF Assigning(r) /\ AgencyOf(r) = g THEN found[r] ELSE {})
  <2>1. \A c : c \in AssignedTo(g) <=> \E a \in assignments : a.agency = g /\ a.client = c
    BY DEF AssignedTo
  <2>2. \A c : c \in AssignedTo(g)' <=> \E a \in assignments' : a.agency = g /\ a.client = c
    BY DEF AssignedTo
  <2>3. ASSUME NEW c \in AssignedTo(g)'
        PROVE  c \in AssignedTo(g) \/ (Assigning(r) /\ AgencyOf(r) = g /\ c \in found[r])
    <3>1. PICK a \in assignments' : a.agency = g /\ a.client = c
      BY <2>2
    <3>2. a \in assignments \/ (Assigning(r) /\ a.agency = AgencyOf(r) /\ a.client \in found[r])
      BY CommitAdds
    <3> QED BY <2>1, <3>1, <3>2
  <2>4. ASSUME NEW c \in AssignedTo(g) PROVE c \in AssignedTo(g)'
    <3>1. PICK a \in assignments : a.agency = g /\ a.client = c
      BY <2>1, <2>4
    <3>2. a \in assignments'
      BY CommitAdds
    <3> QED BY <2>2, <3>1, <3>2
  <2>5. ASSUME NEW c \in found[r], Assigning(r), AgencyOf(r) = g PROVE c \in AssignedTo(g)'
    <3>1. PICK a : a = [agency |-> AgencyOf(r), client |-> c, req |-> r]
      OBVIOUS
    <3>2. a \in assignments' /\ a.agency = g /\ a.client = c
      BY <2>5, <3>1, CommitAdds
    <3> QED BY <2>2, <3>2
  <2> QED BY <2>3, <2>4, <2>5
<1>2. ASSUME NEW s \in Request
      PROVE  WithKey(s)' =
               WithKey(s) \cup (IF HoldsOwn(r) /\ OrgKey(s) = OrgKey(r) THEN {r.id} ELSE {})
  <2>1. \A o : o \in WithKey(s) <=>
          \E c \in organizations : c.org = o /\ OrgKey(c.by) = OrgKey(s)
    BY DEF WithKey
  <2>2. \A o : o \in WithKey(s)' <=>
          \E c \in organizations' : c.org = o /\ OrgKey(c.by) = OrgKey(s)
    BY DEF WithKey, OrgKey
  <2>3. CASE HoldsOwn(r)
    <3>1. PICK row : row = [org |-> r.id, type |-> r.type, by |-> r]
      OBVIOUS
    <3>2. organizations' = organizations \cup {row} /\ row.org = r.id /\ row.by = r
      BY <2>3, <3>1, CommitAdds
    <3> QED BY <2>1, <2>2, <2>3, <3>2
  <2>4. CASE ~HoldsOwn(r)
    BY <2>1, <2>2, <2>4, CommitAdds
  <2> QED BY <2>3, <2>4
<1>3. ASSUME NEW c, ExistingClient(c) PROVE ExistingClient(c)'
  <2>1. organizations \subseteq organizations'
    BY CommitAdds
  <2> QED BY <1>3, <2>1 DEF ExistingClient, OfType
<1>4. ASSUME NEW s \in Request, ProjectOf(s) # {} PROVE ProjectOf(s)' = ProjectOf(s)
  <2>1. s.of \in rows /\ r \notin rows
    BY <1>4, CommitsAt DEF ProjectOf, TenancyInv, ProjectsOK
  <2>2. PICK row : row = [client |-> r.client, req |-> r]
    OBVIOUS
  <2>3. row.req # s.of
    BY <2>1, <2>2
  <2>4. projects' = projects \/ projects' = projects \cup {row}
    BY <2>2, CommitAdds
  <2> QED BY <2>3, <2>4 DEF ProjectOf
<1>5. HoldsOwn(r) => found[r] = {r.id} /\ WithKey(r) = {}
  BY CommitsAt, KeysOrganization DEF RequestOK, Creates, HoldsOwn
<1> QED BY <1>1, <1>2, <1>3, <1>4, <1>5

\* It leaves the others' keys and pairs alone: r was the only one to hold its own.
LEMMA CommitSparesOthers ==
  ASSUME TenancyInv, NEW r \in Request, Commits(r), NEW s \in Request \ {r}
  PROVE  RequestOK(s)' /\ HoldsOwn(s)' = HoldsOwn(s) /\ HoldsPair(s)' = HoldsPair(s)
<1>1. /\ pc'[s] = pc[s] /\ step'[s] = step[s] /\ found'[s] = found[s] /\ scope'[s] = scope[s]
      /\ (s \in rows' <=> s \in rows)
  BY CommitsAt DEF TenancyTypeOK, LedgerTypeOK
<1>2. /\ InTx(s)' = InTx(s) /\ Chosen(s)' = Chosen(s)
      /\ HoldsOwn(s)' = HoldsOwn(s) /\ HoldsPair(s)' = HoldsPair(s)
  BY <1>1 DEF InTx, Chosen, HoldsOwn, HoldsPair
<1>3. RequestOK(s) /\ \A g : AssignedTo(g) \subseteq AssignedTo(g)'
  BY CommitReads DEF TenancyInv
<1>4. Placed(s)'
  BY <1>1, <1>3 DEF RequestOK, Placed
<1>5. Cleared(s)'
  <2>1. ProjectOf(s) # {} => ProjectOf(s)' = ProjectOf(s)
    BY CommitReads
  <2>2. (OfProject(s) => ProjectOf(s) # {}) => TargetOf(s)' = TargetOf(s)
    BY <2>1 DEF TargetOf
  <2> QED BY <1>1, <1>2, <1>3, <2>1, <2>2 DEF RequestOK, Cleared, Permitted, CanAccess
<1>6. ScopeIsAssigned(s)' /\ ShownAreAssigned(s)'
  <2>1. AssignedTo(s.home) \subseteq AssignedTo(s.home)'
    BY <1>3
  <2> QED BY <1>1, <1>3, <2>1 DEF RequestOK, ScopeIsAssigned, ShownAreAssigned
<1>7. Creates(s)'
  <2>1. CASE WithKey(s)' = WithKey(s)
    BY <1>1, <1>2, <1>3, <2>1 DEF RequestOK, Creates
  <2>2. CASE HoldsOwn(r) /\ OrgKey(s) = OrgKey(r)
    <3>1. WithKey(s) = {}
      BY <2>2, CommitReads DEF WithKey
    <3>2. ~HoldsOwn(s)
      BY <2>2 DEF TenancyInv, Exclusive
    <3>3. Creating(s) => s \notin rows /\ (Chosen(s) => found[s] = {} /\ step[s] = "assign")
      BY <1>3, <3>1, <3>2 DEF RequestOK, Creates, HoldsOwn, Chosen
    <3>4. WithKey(s) \subseteq WithKey(s)'
      BY CommitReads
    <3> QED BY <1>1, <1>2, <1>3, <3>3, <3>4 DEF RequestOK, Creates, Chosen
  <2> QED BY <2>1, <2>2, CommitReads
<1>8. Assigns(s)'
  <2>1. Assigning(s) /\ HoldsPair(s) => found[s] \cap AssignedTo(AgencyOf(s))' = {}
    <3> SUFFICES ASSUME Assigning(s), HoldsPair(s)
                 PROVE  found[s] \cap AssignedTo(AgencyOf(s))' = {}
      OBVIOUS
    <3>1. found[s] \cap AssignedTo(AgencyOf(s)) = {} /\ Single(found[s]) /\ found[s] # {}
      BY <1>3 DEF RequestOK, Assigns, HoldsPair, Chosen
    <3>2. CASE Assigning(r) /\ AgencyOf(r) = AgencyOf(s)
      <4>1. HoldsPair(r) /\ found[r] # found[s]
        BY <3>2, CommitsAt DEF HoldsPair, TenancyInv, Exclusive
      <4>2. Single(found[r])
        BY <3>2, CommitsAt DEF RequestOK, Assigns
      <4>3. found[s] \cap found[r] = {}
        BY <3>1, <4>1, <4>2 DEF Single
      <4> QED BY <3>1, <4>3, CommitReads
    <3> QED BY <3>1, <3>2, CommitReads
  <2>2. AgencyOf(s)' = AgencyOf(s)
    BY DEF AgencyOf
  <2> QED BY <1>1, <1>2, <1>3, <2>1, <2>2 DEF RequestOK, Assigns
<1>9. Projects(s)'
  BY <1>1, <1>2, <1>3, CommitReads DEF RequestOK, Projects
<1> QED BY <1>2, <1>4, <1>5, <1>6, <1>7, <1>8, <1>9 DEF RequestOK

\* The one who commits finds its own organization under its key, or another's.
LEMMA CommitKeepsItself ==
  ASSUME TenancyInv, NEW r \in Request, Commits(r)
  PROVE  RequestOK(r)' /\ ~HoldsOwn(r)' /\ ~HoldsPair(r)'
<1>1. pc'[r] = "answered" /\ step'[r] = "route" /\ found'[r] = found[r] /\ r \in rows'
  BY CommitsAt DEF TenancyTypeOK, LedgerTypeOK
<1>2. ~InTx(r)' /\ ~Chosen(r)' /\ ~HoldsOwn(r)' /\ ~HoldsPair(r)'
  BY <1>1 DEF Chosen, HoldsOwn, HoldsPair, InTx, InTxLabels
<1>3. RequestOK(r) /\ ~ReadOnly(r) /\ \A g : AssignedTo(g) \subseteq AssignedTo(g)'
  BY CommitsAt, CommitReads
<1>4. Placed(r)'
  BY <1>1 DEF Placed
<1>5. Cleared(r)'
  <2>1. Permitted(r) /\ (OfProject(r) => ProjectOf(r) # {}) /\ scope' = scope
    BY CommitsAt DEF RequestOK, Cleared
  <2>2. (ProjectOf(r) # {} => ProjectOf(r)' = ProjectOf(r)) /\ TargetOf(r)' = TargetOf(r)
    BY <2>1, CommitReads DEF TargetOf
  <2> QED BY <1>3, <2>1, <2>2 DEF Cleared, Permitted, CanAccess
<1>6. ScopeIsAssigned(r)' /\ ShownAreAssigned(r)'
  <2>1. AssignedTo(r.home) \subseteq AssignedTo(r.home)' /\ scope' = scope
    BY <1>3, CommitsAt
  <2> QED BY <1>3, <2>1 DEF RequestOK, ScopeIsAssigned, ShownAreAssigned
<1>7. Creates(r)'
  <2>1. Creating(r) => found[r] # {} /\ (HoldsOwn(r) \/ found[r] = WithKey(r))
    BY CommitsAt DEF RequestOK, Creates, HoldsOwn
  <2>2. Creating(r) => found[r] = WithKey(r)'
    BY <2>1, CommitReads
  <2> QED BY <1>1, <1>2, <2>1, <2>2 DEF Creates
<1>8. Assigns(r)' /\ Projects(r)'
  BY <1>2 DEF Assigns, Projects
<1> QED BY <1>2, <1>4, <1>5, <1>6, <1>7, <1>8 DEF RequestOK

LEMMA CommitStep ==
  ASSUME TenancyInv, NEW r \in Request, Commits(r)
  PROVE  TenancyInv'
<1>1. TenancyTypeOK' /\ TenantLedger'
  BY CommitTypes, CommitsAt
<1>2. \A s \in Request : RequestOK(s)'
  BY CommitSparesOthers, CommitKeepsItself
<1>3. found' = found /\ rows' = rows \cup {r} /\ r \notin rows
  BY CommitsAt
<1>4. Exclusive'
  BY <1>3, CommitSparesOthers, CommitKeepsItself
     DEF TenancyInv, Exclusive, OrgKey, AgencyOf
<1>5. OrganizationsOK'
  <2>1. OrganizationsOK /\ organizations \subseteq OrganizationRow
    BY DEF TenancyInv, TenancyTypeOK
  <2>2. PICK row : row = [org |-> r.id, type |-> r.type, by |-> r]
    OBVIOUS
  <2>3. /\ \A c \in organizations' : c \in organizations \/ (HoldsOwn(r) /\ c = row)
        /\ row.org = r.id /\ row.by = r
    BY <2>2, CommitAdds
  <2>4. HoldsOwn(r) => \A d \in organizations : OrgKey(d.by) # OrgKey(r)
    BY CommitReads DEF WithKey
  <2>5. \A c, d \in organizations' : OrgKey(c.by) = OrgKey(d.by) => c = d
    BY <2>1, <2>3, <2>4 DEF OrganizationsOK
  <2>6. HoldsOwn(r) /\ r.kind = "provision" => r.id \in AssignedTo(r.home)'
    BY CommitReads DEF HoldsOwn, Assigning, AgencyOf
  <2>7. \A c \in organizations' :
          /\ c.by \in rows' /\ Creating(c.by) /\ c.org = c.by.id
          /\ c.by.kind = "provision" => c.org \in AssignedTo(c.by.home)'
    <3> SUFFICES ASSUME NEW c \in organizations'
                 PROVE  /\ c.by \in rows' /\ Creating(c.by) /\ c.org = c.by.id
                        /\ c.by.kind = "provision" => c.org \in AssignedTo(c.by.home)'
      OBVIOUS
    <3>1. CASE c \in organizations
      <4>1. AssignedTo(c.by.home) \subseteq AssignedTo(c.by.home)'
        BY CommitReads
      <4> QED BY <1>3, <2>1, <3>1, <4>1 DEF OrganizationsOK
    <3>2. CASE HoldsOwn(r) /\ c = row
      BY <1>3, <2>3, <2>6, <3>2 DEF HoldsOwn
    <3> QED BY <2>3, <3>1, <3>2
  <2> QED BY <2>5, <2>7 DEF OrganizationsOK, OrgKey, Creating
<1>6. AssignmentsOK'
  <2>1. AssignmentsOK
    BY DEF TenancyInv
  <2>2. Assigning(r) => Single(found[r]) /\ found[r] \cap AssignedTo(AgencyOf(r)) = {}
    BY CommitsAt DEF RequestOK, Assigns, HoldsPair
  <2>3. Assigning(r) =>
          \A a \in assignments, c \in found[r] : ~(a.agency = AgencyOf(r) /\ a.client = c)
    BY <2>2 DEF AssignedTo
  <2> SUFFICES ASSUME NEW a \in assignments', NEW b \in assignments',
                      a.agency = b.agency, a.client = b.client
               PROVE  a = b
    BY DEF AssignmentsOK
  <2>4. \A d \in assignments' : d \in assignments \/
          (/\ Assigning(r) /\ d.agency = AgencyOf(r) /\ d.client \in found[r]
           /\ d = [agency |-> AgencyOf(r), client |-> d.client, req |-> r])
    BY CommitAdds
  <2>5. CASE a \in assignments /\ b \in assignments
    BY <2>1, <2>5 DEF AssignmentsOK
  <2>6. CASE a \notin assignments /\ b \notin assignments
    BY <2>4, <2>6
  <2>7. CASE a \in assignments /\ b \notin assignments
    BY <2>3, <2>4, <2>7
  <2>8. CASE a \notin assignments /\ b \in assignments
    BY <2>3, <2>4, <2>8
  <2> QED BY <2>5, <2>6, <2>7, <2>8
<1>7. ProjectsOK'
  <2>1. r.kind = "project" => ExistingClient(r.client)
    BY CommitsAt DEF RequestOK, Projects
  <2>2. PICK row : row = [client |-> r.client, req |-> r]
    OBVIOUS
  <2>3. /\ \A p \in projects' : p \in projects \/ (r.kind = "project" /\ p = row)
        /\ row.client = r.client /\ row.req = r
    BY <2>2, CommitAdds
  <2>4. ASSUME NEW p \in projects'
        PROVE  /\ p.req \in rows' /\ p.req.kind = "project" /\ p.client = p.req.client
               /\ ExistingClient(p.client)'
    <3>1. CASE p \in projects
      <4>1. ExistingClient(p.client)
        BY <3>1 DEF TenancyInv, ProjectsOK
      <4>2. ExistingClient(p.client)'
        BY <4>1, CommitReads
      <4> QED BY <1>3, <3>1, <4>2 DEF TenancyInv, ProjectsOK
    <3>2. CASE r.kind = "project" /\ p = row
      <4>1. ExistingClient(r.client)'
        BY <2>1, <3>2, CommitReads
      <4> QED BY <1>3, <2>3, <3>2, <4>1
    <3> QED BY <2>3, <3>1, <3>2
  <2> QED BY <2>4 DEF ProjectsOK
<1>8. InvitationsOK'
  BY <1>3, CommitAdds DEF TenancyInv, InvitationsOK
<1> QED BY <1>1, <1>2, <1>4, <1>5, <1>6, <1>7, <1>8 DEF TenancyInv

-----------------------------------------------------------------------------
LEMMA RestStep ==
  ASSUME TenancyInv, UNCHANGED tenancyVars
  PROVE  TenancyInv'
<1>1. /\ UNCHANGED <<organizations, assignments, projects, invitations>>
      /\ UNCHANGED ledgerVars /\ pc' = pc /\ rows' = rows
      /\ step' = step /\ found' = found /\ scope' = scope
  BY DEF tenancyVars, tenantVars, ledgerVars
<1>2. TenantLedger'
  BY <1>1, LedgerRests DEF TenancyInv
<1>3. TenancyTypeOK'
  BY <1>1, <1>2 DEF TenancyInv, TenancyTypeOK, TenantLedger
<1>4. \A s \in Request : /\ InTx(s)' = InTx(s) /\ Chosen(s)' = Chosen(s)
                         /\ HoldsOwn(s)' = HoldsOwn(s) /\ HoldsPair(s)' = HoldsPair(s)
  BY <1>1 DEF InTx, Chosen, HoldsOwn, HoldsPair
<1>5. ASSUME NEW s \in Request PROVE RequestOK(s)'
  <2>1. RequestOK(s)
    BY DEF TenancyInv
  <2>2. Placed(s)' /\ Cleared(s)'
    BY <1>1, <1>4, <2>1, TablesSame DEF RequestOK, Placed, Cleared, Permitted, CanAccess
  <2>3. ScopeIsAssigned(s)' /\ ShownAreAssigned(s)'
    BY <1>1, <2>1, TablesSame DEF RequestOK, ScopeIsAssigned, ShownAreAssigned
  <2>4. Creates(s)' /\ Assigns(s)' /\ Projects(s)'
    BY <1>1, <1>4, <2>1, TablesSame DEF RequestOK, Creates, Assigns, Projects
  <2> QED BY <2>2, <2>3, <2>4 DEF RequestOK
<1>6. Exclusive'
  BY <1>1, <1>4 DEF TenancyInv, Exclusive, OrgKey, AgencyOf
<1>7. OrganizationsOK' /\ ProjectsOK'
  BY <1>1, TablesSame DEF TenancyInv, OrganizationsOK, ProjectsOK, OrgKey
<1>8. AssignmentsOK' /\ InvitationsOK'
  BY <1>1 DEF TenancyInv, AssignmentsOK, InvitationsOK
<1> QED BY <1>2, <1>3, <1>5, <1>6, <1>7, <1>8 DEF TenancyInv

LEMMA TenantsStep == TenancyInv /\ [TenancyNext]_tenancyVars => TenancyInv'
<1> SUFFICES ASSUME TenancyInv, [TenancyNext]_tenancyVars PROVE TenancyInv'
  OBVIOUS
<1>1. CASE UNCHANGED tenancyVars
  BY <1>1, RestStep
<1>2. ASSUME NEW r \in Request, TenancyStep(r) \/ AbortTenants(r) PROVE TenancyInv'
  <2>1. CASE ResolveSession(r) \/ RouteTenants(r)
    BY <2>1, SessionStep, RouteStep
  <2>2. CASE \/ ListAgencyClients(r) \/ SetAgencyContext(r)
             \/ GetProject(r) \/ AcceptInvitation(r)
    BY <2>2, ReadStep
  <2>3. CASE BeginCreate(r) \/ CreateIdempotent(r) \/ CreateOrganization(r)
    BY <2>3, BeginCreateStep, CreateIdempotentStep, CreateOrganizationStep
  <2>4. CASE CheckAssignment(r) \/ Assign(r)
    BY <2>4, CheckAssignmentStep, AssignStep
  <2>5. CASE CreateProject(r) \/ CreateInvitation(r)
    BY <2>5, OfProjectStep
  <2>6. CASE AppendAudit(r) /\ UNCHANGED tenantVars
    BY <2>6, AuditStep
  <2>7. CASE (Commit(r) \/ CommitUnacknowledged(r)) /\ PublishTenants(r)
    BY <2>7, CommitStep DEF Commits
  <2>8. CASE AbortTenants(r) \/ ReturnedNoRow(r)
    BY <2>8, AbortStep DEF ReturnedNoRow
  <2> QED BY <1>2, <2>1, <2>2, <2>3, <2>4, <2>5, <2>6, <2>7, <2>8 DEF TenancyStep
<1> QED BY <1>1, <1>2 DEF TenancyNext

\* The inductive invariant of the commands that make tenants.
THEOREM TenancyIsInvariant == TenancySpec => []TenancyInv
  BY InitTenancy, TenantsStep, PTL DEF TenancySpec

\* Whoever is told of success is told of the row its key has.
LEMMA SuccessNamesTheKey ==
  ASSUME TenancyInv, NEW r \in Request, Creating(r), Succeeded(r)
  PROVE  Named(r) = WithKey(r)
<1>1. TenantLedger /\ LedgerTypeOK /\ AnswersNameRows
  BY DEF TenancyInv, TenantLedger
<1>2. PICK e \in rows : answer[r].result = {e} /\ (e = r \/ Retry(e, r))
  BY <1>1 DEF AnswersNameRows, Succeeded
<1>3. e \in Request /\ Creating(e) /\ OrgKey(e) = OrgKey(r)
  BY <1>1, <1>2, TenantAssumption DEF LedgerTypeOK, Retry, Creating, OrgKey
<1>4. found[e] = WithKey(e)
  BY <1>2, <1>3 DEF TenancyInv, RequestOK, Creates
<1>5. WithKey(e) = WithKey(r)
  BY <1>3 DEF WithKey
<1> QED BY <1>2, <1>4, <1>5 DEF Named

\* One organization under a key, also when its attempts race; every attempt that
\* succeeds is told of it; a provisioned client is assigned from the start.
THEOREM CreatesOnce == TenancySpec => []OneClientPerKey
<1>1. TenancyInv => OneClientPerKey
  <2> SUFFICES ASSUME TenancyInv PROVE OneClientPerKey
    OBVIOUS
  <2>1. ASSUME NEW r \in Request, NEW s \in Request,
               Creating(r), Retry(r, s), Succeeded(r), Succeeded(s)
        PROVE  Named(r) = Named(s)
    <3>1. Creating(s) /\ OrgKey(r) = OrgKey(s)
      BY <2>1, TenantAssumption DEF Retry, Creating, OrgKey
    <3>2. WithKey(r) = WithKey(s)
      BY <3>1 DEF WithKey
    <3> QED BY <2>1, <3>1, <3>2, SuccessNamesTheKey
  <2> QED BY <2>1 DEF TenancyInv, OrganizationsOK, OneClientPerKey
<1> QED BY <1>1, TenancyIsInvariant, PTL

\* What an agency makes, or is shown, is of a client that is assigned to it; no pair
\* is assigned twice and no project is of a client that is not there.
THEOREM AgenciesStayAssigned == TenancySpec => []AgenciesActForTheirClients
<1>1. TenancyInv => AgenciesActForTheirClients
  <2> SUFFICES ASSUME TenancyInv PROVE AgenciesActForTheirClients
    OBVIOUS
  <2>1. ASSUME NEW r \in rows, r.kind \in {"project", "invite"}, r.role = "agency"
        PROVE  TargetOf(r) \subseteq AssignedTo(r.home)
    <3>1. r \in Request
      BY DEF TenancyInv, TenantLedger, LedgerTypeOK
    <3>2. RequestOK(r)
      BY <3>1 DEF TenancyInv
    <3> QED BY <2>1, <3>2 DEF RequestOK, Cleared, Permitted, CanAccess, ScopeIsAssigned
  <2>2. ASSUME NEW p \in projects
        PROVE  /\ ExistingClient(p.client)
               /\ p.req.role = "agency" => p.client \in AssignedTo(p.req.home)
    <3>1. /\ p.req \in rows /\ p.req.kind = "project" /\ p.client = p.req.client
          /\ ExistingClient(p.client)
      BY DEF TenancyInv, ProjectsOK
    <3>2. TargetOf(p.req) = {p.client}
      BY <3>1 DEF TargetOf, OfProject
    <3> QED BY <2>1, <3>1, <3>2
  <2>3. ASSUME NEW i \in invitations
        PROVE  /\ ProjectOf(i) # {}
               /\ i.role = "agency" => TargetOf(i) \subseteq AssignedTo(i.home)
    <3>1. i \in rows /\ i.kind = "invite" /\ i \in Request
      BY DEF TenancyInv, InvitationsOK, TenantLedger, LedgerTypeOK
    <3>2. RequestOK(i)
      BY <3>1 DEF TenancyInv
    <3> QED BY <2>1, <3>1, <3>2 DEF RequestOK, Cleared, OfProject
  <2>4. ASSUME NEW r \in Request, r.kind \in {"list", "act", "view"}, r.role = "agency"
        PROVE  found[r] \subseteq AssignedTo(r.home)
    BY <2>4 DEF TenancyInv, RequestOK, ShownAreAssigned, ReadOnly
  <2>5. AssignmentsOK
    BY DEF TenancyInv
  <2> QED BY <2>2, <2>3, <2>4, <2>5 DEF AgenciesActForTheirClients, AssignmentsOK
<1> QED BY <1>1, TenancyIsInvariant, PTL
=============================================================================
