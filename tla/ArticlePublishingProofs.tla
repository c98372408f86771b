----------------------- MODULE ArticlePublishingProofs -----------------------
(***************************************************************************)
(* Proofs about ArticlePublishing, for every set of requests, drafts and   *)
(* channels: approvals and their gates, the chain to a delivery, and what  *)
(* the pages show of it.                                                   *)
(***************************************************************************)
EXTENDS ArticlePublishing, WriteCommandProofs

\* The gates of an approval, all of them passed.
AllPassed(r) == [req: {r}, draft: {r.draft}, gate: Gate, passed: {TRUE}]

\* What a committed command has inserted, from its request alone.
RowsOf(r) ==
  CASE r.kind = "approve" ->
         {[table |-> "approval", req |-> r, draft |-> r.draft, by |-> r.actor,
           gates |-> AllPassed(r)]}
    [] r.kind = "package" ->
         {[table |-> "package", req |-> r, of |-> r.of, draft |-> r.of.draft],
          [table |-> "neutral", req |-> r, of |-> r, channels |-> {}]}
    [] r.kind = "plan" ->
         {[table |-> "plan", req |-> r, of |-> r.of, channels |-> r.channels]}
    [] r.kind = "receipt" ->
         {[table |-> "receipt", req |-> r, of |-> r.of, channel |-> r.channel, by |-> r.by],
          [table |-> "delivery", req |-> r, of |-> r, plan |-> r.of]}
    [] OTHER -> {}

\* The gate results of a transaction, in the order they are evaluated.
Evaluated(r) ==
  {{}, {Result(r, "quality")}, {Result(r, "quality"), Result(r, "platform")},
   {Result(r, "quality"), Result(r, "platform"), Result(r, "vertical")}}

HeldInOrder ==
  \A r \in Request :
    /\ held[r] \in Evaluated(r)
    /\ held[r] # {} => r.kind = "approve" /\ pc[r] \in {"performing", "performed", "audited"}
    /\ r.kind = "approve" /\ pc[r] \in {"performed", "audited"} => held[r] = AllPassed(r)

GateRunsApart ==
  \A r \in Request : r.kind = "gate" => pc[r] \in {"unsent", "authorized", "answered"}

ChainIsOfRows == chain = UNION {RowsOf(r) : r \in rows}

Cites(r) == r.kind \in {"package", "plan", "receipt"}
CitedIsCommitted ==
  \A r \in Request :
    Cites(r) /\ (pc[r] \in InTxLabels \cup {"authorized"} \/ r \in rows) => r.of \in rows

ReceiptsChecked ==
  \A r \in Request :
    r.kind = "receipt" /\ (pc[r] \in {"performed", "audited"} \/ r \in rows) =>
      r.channel \in r.of.channels /\ r.by \notin Automatic

TablesTyped ==
  /\ gates \subseteq GateResult
  /\ held \in [Request -> SUBSET GateResult]
  /\ branch \in [Request -> [Gate -> Stages]]

CommandInv ==
  /\ LedgerInv
  /\ TablesTyped
  /\ HeldInOrder
  /\ GateRunsApart
  /\ ApprovedWithItsGates
  /\ ChainIsOfRows
  /\ CitedIsCommitted
  /\ ReceiptsChecked

-----------------------------------------------------------------------------
(* Facts about the data.                                                   *)

LEMMA ResultIsTyped ==
  ASSUME NEW r \in Request, r.kind \in {"approve", "gate"}, NEW g \in Gate
  PROVE  Result(r, g) \in GateResult
<1>1. Passes(r.draft, g) \in BOOLEAN
  BY DEF Passes
<1> QED BY <1>1, PublishingAssumption DEF Result, GateResult

LEMMA EvaluatedCardinality ==
  ASSUME NEW r \in Request, NEW h \in Evaluated(r)
  PROVE  /\ Cardinality(h) = 0 => h = {}
         /\ Cardinality(h) = 1 => h = {Result(r, "quality")}
         /\ Cardinality(h) = 2 => h = {Result(r, "quality"), Result(r, "platform")}
         /\ Cardinality(h) = 3 =>
              h = {Result(r, "quality"), Result(r, "platform"), Result(r, "vertical")}
         /\ Cardinality(h) \in 0..3
<1> DEFINE q == Result(r, "quality")
           p == Result(r, "platform")
           v == Result(r, "vertical")
<1>1. q # p /\ q # v /\ p # v
  BY DEF Result
<1>2. h \in {{}, {q}, {q, p}, {q, p, v}}
  BY DEF Evaluated
<1> HIDE DEF q, p, v
<1>3. Cardinality({}) = 0 /\ IsFiniteSet({})
  BY FS_EmptySet
<1>4. Cardinality({q}) = 1 /\ IsFiniteSet({q})
  BY FS_Singleton
<1>5. Cardinality({q} \cup {p}) = 2 /\ IsFiniteSet({q} \cup {p})
  BY <1>1, <1>4, FS_AddElement
<1>6. Cardinality(({q} \cup {p}) \cup {v}) = 3
  BY <1>1, <1>5, FS_AddElement
<1>7. {q} \cup {p} = {q, p} /\ ({q} \cup {p}) \cup {v} = {q, p, v}
  OBVIOUS
<1>8. Cardinality({q, p}) = 2 /\ Cardinality({q, p, v}) = 3
  BY <1>5, <1>6, <1>7
<1> QED BY <1>2, <1>3, <1>4, <1>8 DEF q, p, v

\* Three results that passed are the approval's gates.
LEMMA ThreeThatPassed ==
  ASSUME NEW r \in Request,
         NEW h, h = {Result(r, "quality"), Result(r, "platform"), Result(r, "vertical")},
         \A x \in h : x.passed
  PROVE  h = AllPassed(r)
<1>1. \A g \in Gate : Result(r, g) \in h /\ Passes(r.draft, g)
  BY DEF Gate, Result
<1>2. \A g \in Gate : Passes(r.draft, g) = TRUE
  BY <1>1 DEF Passes
<1>3. \A g \in Gate : Result(r, g) = [req |-> r, draft |-> r.draft, gate |-> g, passed |-> TRUE]
  BY <1>2, Zenon DEF Result
<1>4. \A x \in h : x \in AllPassed(r)
  <2>1. \A g \in Gate :
          [req |-> r, draft |-> r.draft, gate |-> g, passed |-> TRUE] \in AllPassed(r)
    BY DEF AllPassed
  <2>2. \A g \in Gate : Result(r, g) \in AllPassed(r)
    BY <1>3, <2>1, Zenon
  <2> QED BY <2>2 DEF Gate
<1>5. ASSUME NEW x \in AllPassed(r) PROVE x \in h
  <2>1. x.gate \in Gate /\ x = [req |-> r, draft |-> r.draft, gate |-> x.gate, passed |-> TRUE]
    BY DEF AllPassed
  <2> QED BY <1>1, <1>3, <2>1
<1> QED BY <1>4, <1>5

LEMMA AllPassedTyped ==
  ASSUME NEW r \in Request, r.kind = "approve"
  PROVE  AllPassed(r) \subseteq GateResult
BY PublishingAssumption DEF AllPassed, GateResult

\* The rows of one table that a request has inserted.
LEMMA ChainRows ==
  ASSUME ChainIsOfRows
  PROVE  /\ \A x \in chain : x.req \in rows /\ x \in RowsOf(x.req)
         /\ \A r \in rows : RowsOf(r) \subseteq chain
<1>1. ASSUME NEW r \in rows, NEW x \in RowsOf(r) PROVE x.req = r
  BY DEF RowsOf
<1> QED BY <1>1 DEF ChainIsOfRows

\* Commands insert what their request says.
LEMMA AddedIsRowsOf ==
  ASSUME CommandInv, NEW r \in Request, pc[r] = "audited"
  PROVE  Added(r) = RowsOf(r)
<1> USE DEF CommandInv
<1>1. r.kind \in {"approve", "package", "plan", "receipt"}
  BY PublishingAssumption DEF GateRunsApart
<1>2. Cites(r) => r.of \in rows
  BY DEF CitedIsCommitted, InTxLabels
<1>3. CASE r.kind = "approve"
  <2>1. held[r] = AllPassed(r)
    BY <1>3 DEF HeldInOrder
  <2> QED BY <1>3, <2>1 DEF Added, NewApproval, RowsOf
<1>4. CASE r.kind = "package"
  <2>1. r.of \in rows /\ r.of.kind = "approve"
    BY <1>2, <1>4, PublishingAssumption DEF Cites
  <2> DEFINE a == [table |-> "approval", req |-> r.of, draft |-> r.of.draft,
                   by |-> r.of.actor, gates |-> AllPassed(r.of)]
  <2>2. {x \in Rows("approval") : x.req = r.of} = {a}
    BY <2>1, ChainRows DEF Rows, RowsOf
  <2>3. a.req = r.of /\ a.draft = r.of.draft
    OBVIOUS
  <2> HIDE DEF a
  <2>4. NewPackage(r) = {[table |-> "package", req |-> r, of |-> r.of, draft |-> r.of.draft]}
    BY <2>2, <2>3 DEF NewPackage
  <2> QED BY <1>4, <2>4 DEF Added, NewChannelNeutral, RowsOf
<1>5. CASE r.kind = "plan"
  <2>1. r.of \in rows /\ r.of.kind = "package"
    BY <1>2, <1>5, PublishingAssumption DEF Cites
  <2>2. {x \in Rows("neutral") : x.req = r.of} =
          {[table |-> "neutral", req |-> r.of, of |-> r.of, channels |-> {}]}
    BY <2>1, ChainRows DEF Rows, RowsOf
  <2>3. NewPlan(r) = {[table |-> "plan", req |-> r, of |-> r.of, channels |-> r.channels]}
    BY <2>2 DEF NewPlan
  <2> QED BY <1>5, <2>3 DEF Added, RowsOf
<1>6. CASE r.kind = "receipt"
  <2>1. r.of \in rows /\ r.of.kind = "plan"
    BY <1>2, <1>6, PublishingAssumption DEF Cites
  <2>2. {x \in Rows("plan") : x.req = r.of} =
          {[table |-> "plan", req |-> r.of, of |-> r.of.of, channels |-> r.of.channels]}
    BY <2>1, ChainRows DEF Rows, RowsOf
  <2>3. NewReceipt(r) =
          {[table |-> "receipt", req |-> r, of |-> r.of, channel |-> r.channel, by |-> r.by]}
    BY <2>2 DEF NewReceipt
  <2> QED BY <1>6, <2>3 DEF Added, NewDelivery, RowsOf
<1> QED BY <1>1, <1>3, <1>4, <1>5, <1>6

-----------------------------------------------------------------------------
(* The ledger under this module's steps.                                   *)

\* run-gate's answer is the only step that is none of the write command.
LEMMA AnswerGatesKeepsLedger ==
  ASSUME LedgerInv, NEW r \in Request, AnswerGates(r)
  PROVE  LedgerInv'
<1>1. LedgerTypeOK
  BY DEF LedgerInv
<1>2. /\ pc[r] = "authorized" /\ Goto(r, "answered")
      /\ \E kind \in Kinds :
           answer' = [answer EXCEPT ![r] = [kind |-> kind, result |-> {}]]
      /\ UNCHANGED <<free, clock, began, tx, rows, audit, overlap>>
  BY DEF AnswerGates, Tell, Kinds
<1>3. answer' \in [Request -> [kind: Kinds, result: SUBSET Request]]
  BY <1>1, <1>2 DEF LedgerTypeOK
<1>4. \A s \in Request : Allowed(s)' = Allowed(s)
  BY <1>2 DEF Allowed
<1>5. audit' \subseteq AuditEvent /\ clock' \in Nat
  BY <1>1, <1>2 DEF LedgerTypeOK
<1> QED BY <1>2, <1>3, <1>4, <1>5, OutsideStep

LEMMA PublishingKeepsLedger == LedgerInv /\ [Next]_vars => LedgerInv'
<1> SUFFICES ASSUME LedgerInv, [Next]_vars PROVE LedgerInv'
  OBVIOUS
<1>1. CASE UNCHANGED ledgerVars
  BY <1>1, LedgerStep
<1>2. CASE ReadPage
  BY <1>1, <1>2 DEF ReadPage, ReadApprovals, ReadGates, ReadDeliveries,
     ReadDetailGate, ReadDetailApproval, Reload, Nobody
<1>3. ASSUME NEW r \in Request, Step(r) \/ Abort(r) PROVE LedgerInv'
  <2>1. CASE Abort(r)
    BY <2>1, LedgerStep DEF Abort, LedgerNext
  <2>2. CASE Route(r)
    <3>1. BeforePerform(r)
      BY <2>2 DEF Route, BeforePerform
    <3> QED BY <3>1, LedgerStep DEF LedgerNext, Progress
  <2>3. CASE Approve(r) \/ BuildPackage(r) \/ CreatePlan(r) \/ RecordReceipt(r)
    <3>1. Perform(r) \/ Abort(r)
      BY <2>3 DEF Approve, BuildPackage, CreatePlan, RecordReceipt
    <3> QED BY <2>1, <3>1, LedgerStep DEF LedgerNext, Progress
  <2>4. CASE Finish(r)
    <3>1. AfterPerform(r)
      BY <2>4 DEF Finish, AfterPerform
    <3> QED BY <3>1, LedgerStep DEF LedgerNext, Progress
  <2>5. CASE AnswerGates(r)
    BY <2>5, AnswerGatesKeepsLedger
  <2>6. CASE \E g \in Gate : Evaluate(r, g) \/ RunGate(r, g)
    BY <1>1, <2>6 DEF Evaluate, RunGate, EvaluateGate, EmitAudit, AddAgain, StatementFails
  <2> QED BY <1>3, <2>1, <2>2, <2>3, <2>4, <2>5, <2>6 DEF Step
<1> QED BY <1>1, <1>2, <1>3 DEF Next, vars

-----------------------------------------------------------------------------
(* The commands.                                                           *)

LEMMA InitCommands == Init => CommandInv
<1> SUFFICES ASSUME Init PROVE CommandInv
  OBVIOUS
<1> USE DEF Init
<1>1. LedgerInv
  BY InitLedger
<1>2. TablesTyped
  BY DEF TablesTyped, Stages
<1>3. HeldInOrder /\ GateRunsApart
  BY DEF HeldInOrder, GateRunsApart, Evaluated, LedgerInit
<1>4. ApprovedWithItsGates /\ ChainIsOfRows
  BY DEF ApprovedWithItsGates, ChainIsOfRows, LedgerInit
<1>5. CitedIsCommitted /\ ReceiptsChecked
  BY DEF CitedIsCommitted, ReceiptsChecked, LedgerInit, InTxLabels
<1> QED BY <1>1, <1>2, <1>3, <1>4, <1>5 DEF CommandInv

\* A step of r that commits nothing.
LEMMA NothingCommitted ==
  ASSUME CommandInv, LedgerInv', NEW r \in Request,
         UNCHANGED <<rows, gates, chain, branch>>,
         held' \in [Request -> SUBSET GateResult],
         \A s \in Request \ {r} : pc'[s] = pc[s] /\ held'[s] = held[s],
         HeldInOrder!(r)', GateRunsApart!(r)', CitedIsCommitted!(r)', ReceiptsChecked!(r)'
  PROVE  CommandInv'
<1> USE DEF CommandInv
<1>1. TablesTyped'
  BY DEF TablesTyped
<1>2. ASSUME NEW s \in Request
      PROVE  HeldInOrder!(s)' /\ GateRunsApart!(s)' /\ CitedIsCommitted!(s)' /\ ReceiptsChecked!(s)'
  <2>1. CASE s = r
    BY <2>1
  <2>2. CASE s # r
    BY <2>2 DEF HeldInOrder, GateRunsApart, CitedIsCommitted, ReceiptsChecked
  <2> QED BY <2>1, <2>2
<1>3. HeldInOrder' /\ GateRunsApart' /\ CitedIsCommitted' /\ ReceiptsChecked'
  BY <1>2 DEF HeldInOrder, GateRunsApart, CitedIsCommitted, ReceiptsChecked
<1>4. ApprovedWithItsGates' /\ ChainIsOfRows'
  BY DEF ApprovedWithItsGates, ChainIsOfRows
<1> QED BY <1>1, <1>3, <1>4

\* The route finds the cited row, which stays.
LEMMA RouteKeeps ==
  ASSUME CommandInv, LedgerInv', NEW r \in Request, Route(r)
  PROVE  CommandInv'
<1> USE DEF CommandInv
<1>1. UNCHANGED <<rows, gates, chain, branch, held>>
  BY DEF Route, publishingVars, BeforePerform, Refuse, Authorize, RecordDenied,
     RecordDeniedFails, Begin, Replay, LookupMisses
<1>2. PICK label \in {"authorized", "answered", "begun", "performing"} :
        /\ Goto(r, label)
        /\ pc[r] \in {"unsent", "authorized", "begun"}
        /\ pc[r] = "unsent" => label \in {"authorized", "answered"}
        /\ label = "authorized" => pc[r] = "unsent" /\ Found(r)
        /\ r.kind = "gate" => pc[r] = "unsent"
  BY DEF Route, BeforePerform, Refuse, Authorize, RecordDenied, RecordDeniedFails, Begin,
     Replay, LookupMisses, Tell
<1>3. pc'[r] = label /\ \A s \in Request \ {r} : pc'[s] = pc[s]
  BY <1>2 DEF Goto, LedgerInv, LedgerTypeOK
<1>4. held[r] = {} /\ r \notin rows
  BY <1>2 DEF HeldInOrder, LedgerInv, TxHoldsItsWrites
<1>5. Cites(r) /\ pc'[r] \in InTxLabels \cup {"authorized"} => r.of \in rows
  <2>1. CASE label = "authorized" /\ Cites(r)
    <3>1. PICK x \in chain : x.req = r.of
      BY <1>2, <2>1 DEF Found, Cites
    <3> QED BY <3>1, ChainRows
  <2>2. CASE label # "authorized"
    BY <1>2, <1>3, <2>2 DEF CitedIsCommitted, InTxLabels
  <2> QED BY <1>3, <2>1, <2>2
<1>6. HeldInOrder!(r)'
  BY <1>1, <1>2, <1>3, <1>4 DEF Evaluated
<1>7. CitedIsCommitted!(r)' /\ GateRunsApart!(r)' /\ ReceiptsChecked!(r)'
  BY <1>1, <1>2, <1>3, <1>4, <1>5
<1>8. held' \in [Request -> SUBSET GateResult]
  BY <1>1 DEF TablesTyped
<1> QED BY <1>1, <1>3, <1>6, <1>7, <1>8, NothingCommitted

LEMMA AbortKeeps ==
  ASSUME CommandInv, LedgerInv', NEW r \in Request, Abort(r)
  PROVE  CommandInv'
<1> USE DEF CommandInv
<1>1. /\ UNCHANGED <<rows, gates, chain, branch>>
      /\ held' = [held EXCEPT ![r] = {}]
      /\ InTx(r) /\ pc' = [pc EXCEPT ![r] = "answered"]
  BY DEF Abort, Rollback, Tell, Goto
<1>2. /\ held' \in [Request -> SUBSET GateResult] /\ held'[r] = {} /\ pc'[r] = "answered"
      /\ \A s \in Request \ {r} : pc'[s] = pc[s] /\ held'[s] = held[s]
  BY <1>1 DEF TablesTyped, LedgerInv, LedgerTypeOK
<1>3. r \notin rows
  BY <1>1 DEF LedgerInv, TxHoldsItsWrites, InTx, InTxLabels
<1>4. HeldInOrder!(r)' /\ GateRunsApart!(r)' /\ CitedIsCommitted!(r)' /\ ReceiptsChecked!(r)'
  BY <1>1, <1>2, <1>3 DEF Evaluated, InTxLabels
<1> QED BY <1>1, <1>2, <1>4, NothingCommitted

\* A gate of an approval, after those before it.
LEMMA EvaluateKeeps ==
  ASSUME CommandInv, LedgerInv', NEW r \in Request, NEW g \in Gate, Evaluate(r, g)
  PROVE  CommandInv'
<1> USE DEF CommandInv
<1>1. /\ UNCHANGED <<pc, rows, gates, chain, branch>>
      /\ pc[r] = "performing" /\ r.kind = "approve"
      /\ held' = [held EXCEPT ![r] = held[r] \cup {Result(r, g)}]
      /\ Result(r, g) \notin held[r]
  BY DEF Evaluate, Performing, ledgerVars
<1>2. held[r] \in Evaluated(r)
  BY DEF HeldInOrder
<1>3. held[r] \cup {Result(r, g)} \in Evaluated(r)
  <2>1. CASE held[r] = {}
    BY <2>1, FS_EmptySet DEF Evaluate, Evaluated
  <2>2. CASE Cardinality(held[r]) = 1
    BY <1>2, <2>2, EvaluatedCardinality DEF Evaluate, Evaluated
  <2>3. CASE Cardinality(held[r]) = 2
    <3>1. g = "vertical"
      BY <2>3 DEF Evaluate
    <3>2. held[r] = {Result(r, "quality"), Result(r, "platform")}
      BY <1>2, <2>3, EvaluatedCardinality
    <3> QED BY <3>1, <3>2 DEF Evaluated
  <2>4. CASE Cardinality(held[r]) = 3
    <3>1. g = "vertical"
      BY <2>4 DEF Evaluate
    <3>2. Result(r, g) \in held[r]
      BY <1>2, <2>4, <3>1, EvaluatedCardinality
    <3> QED BY <1>1, <3>2
  <2> QED BY <1>2, <2>1, <2>2, <2>3, <2>4, EvaluatedCardinality
<1>4. /\ held' \in [Request -> SUBSET GateResult]
      /\ held'[r] = held[r] \cup {Result(r, g)}
      /\ \A s \in Request \ {r} : pc'[s] = pc[s] /\ held'[s] = held[s]
  BY <1>1, ResultIsTyped DEF TablesTyped
<1>5. HeldInOrder!(r)'
  BY <1>1, <1>3, <1>4 DEF Evaluated
<1>6. GateRunsApart!(r)' /\ CitedIsCommitted!(r)' /\ ReceiptsChecked!(r)'
  BY <1>1 DEF GateRunsApart, CitedIsCommitted, ReceiptsChecked
<1> QED BY <1>1, <1>4, <1>5, <1>6, NothingCommitted

\* An approval is inserted with its gates passed, a receipt when it is checked.
LEMMA InsertKeeps ==
  ASSUME CommandInv, LedgerInv', NEW r \in Request,
         Approve(r) \/ BuildPackage(r) \/ CreatePlan(r) \/ RecordReceipt(r)
  PROVE  CommandInv'
<1> USE DEF CommandInv
<1>1. CASE Abort(r)
  BY <1>1, AbortKeeps
<1>2. CASE ~Abort(r)
  <2>1. /\ Perform(r) /\ UNCHANGED publishingVars
        /\ r.kind = "approve" =>
             held[r] = {Result(r, "quality"), Result(r, "platform"), Result(r, "vertical")}
        /\ r.kind = "approve" => \A x \in held[r] : x.passed
        /\ r.kind = "receipt" => r.channel \in r.of.channels /\ r.by \notin Automatic
    <3>1. CASE Approve(r)
      <4>1. /\ Cardinality(held[r]) = 3 /\ \A x \in held[r] : x.passed
            /\ Perform(r) /\ UNCHANGED publishingVars /\ r.kind = "approve"
        BY <1>2, <3>1 DEF Approve, Performing
      <4>2. held[r] = {Result(r, "quality"), Result(r, "platform"), Result(r, "vertical")}
        BY <4>1, EvaluatedCardinality DEF HeldInOrder
      <4> QED BY <4>1, <4>2
    <3>2. CASE BuildPackage(r) \/ CreatePlan(r) \/ RecordReceipt(r)
      BY <1>2, <3>2 DEF BuildPackage, CreatePlan, RecordReceipt, Performing
    <3> QED BY <3>1, <3>2
  <2>2. /\ UNCHANGED <<rows, gates, chain, branch, held>>
        /\ pc[r] = "performing" /\ pc' = [pc EXCEPT ![r] = "performed"]
    BY <2>1 DEF Perform, Goto, publishingVars
  <2>3. /\ held' \in [Request -> SUBSET GateResult] /\ pc'[r] = "performed"
        /\ \A s \in Request \ {r} : pc'[s] = pc[s] /\ held'[s] = held[s]
    BY <2>2 DEF TablesTyped, LedgerInv, LedgerTypeOK
  <2>4. r.kind = "approve" => held[r] = AllPassed(r)
    BY <2>1, ThreeThatPassed
  <2>5. r.kind # "gate"
    BY <2>2 DEF GateRunsApart
  <2>6. HeldInOrder!(r)'
    <3>1. held[r] \in Evaluated(r) /\ (held[r] # {} => r.kind = "approve")
      BY DEF HeldInOrder
    <3> QED BY <2>2, <2>3, <2>4, <3>1 DEF Evaluated
  <2>7. Cites(r) => r.of \in rows
    BY <2>2 DEF CitedIsCommitted, InTxLabels
  <2>8. GateRunsApart!(r)' /\ CitedIsCommitted!(r)' /\ ReceiptsChecked!(r)'
    BY <2>1, <2>2, <2>5, <2>7
  <2> QED BY <2>2, <2>3, <2>6, <2>8, NothingCommitted
<1> QED BY <1>1, <1>2

LEMMA AppendKeeps ==
  ASSUME CommandInv, LedgerInv', NEW r \in Request, AppendAudit(r), UNCHANGED publishingVars
  PROVE  CommandInv'
<1> USE DEF CommandInv
<1>1. /\ UNCHANGED <<rows, gates, chain, branch, held>>
      /\ pc[r] = "performed" /\ pc' = [pc EXCEPT ![r] = "audited"]
  BY DEF AppendAudit, Goto, publishingVars
<1>2. /\ held' \in [Request -> SUBSET GateResult] /\ pc'[r] = "audited"
      /\ \A s \in Request \ {r} : pc'[s] = pc[s] /\ held'[s] = held[s]
  BY <1>1 DEF TablesTyped, LedgerInv, LedgerTypeOK
<1>3. HeldInOrder!(r)'
  <2>1. /\ held[r] \in Evaluated(r) /\ (held[r] # {} => r.kind = "approve")
        /\ r.kind = "approve" => held[r] = AllPassed(r)
    BY <1>1 DEF HeldInOrder
  <2> QED BY <1>1, <1>2, <2>1 DEF Evaluated
<1>4. GateRunsApart!(r)'
  BY <1>1 DEF GateRunsApart
<1>5. CitedIsCommitted!(r)' /\ ReceiptsChecked!(r)'
  BY <1>1, <1>2 DEF CitedIsCommitted, ReceiptsChecked, InTxLabels
<1> QED BY <1>1, <1>2, <1>3, <1>4, <1>5, NothingCommitted

\* run-gate: its results are of its own request, which is no approval's.
LEMMA GateRunKeeps ==
  ASSUME CommandInv, LedgerInv', NEW r \in Request,
         AnswerGates(r) \/ \E g \in Gate : RunGate(r, g)
  PROVE  CommandInv'
<1> USE DEF CommandInv
<1>1. CASE AnswerGates(r)
  <2>1. /\ UNCHANGED <<rows, gates, chain, branch, held>>
        /\ r.kind = "gate" /\ pc' = [pc EXCEPT ![r] = "answered"]
    BY <1>1 DEF AnswerGates, Tell, Goto, publishingVars
  <2>2. /\ held' \in [Request -> SUBSET GateResult] /\ pc'[r] = "answered"
        /\ \A s \in Request \ {r} : pc'[s] = pc[s] /\ held'[s] = held[s]
    BY <2>1 DEF TablesTyped, LedgerInv, LedgerTypeOK
  <2>3. held[r] = {}
    BY <2>1 DEF HeldInOrder
  <2>4. HeldInOrder!(r)' /\ GateRunsApart!(r)' /\ CitedIsCommitted!(r)' /\ ReceiptsChecked!(r)'
    BY <2>1, <2>2, <2>3 DEF Evaluated, Cites
  <2> QED BY <2>1, <2>2, <2>4, NothingCommitted
<1>2. ASSUME NEW g \in Gate, RunGate(r, g) PROVE CommandInv'
  <2>1. /\ UNCHANGED <<pc, rows, chain, held>> /\ r.kind = "gate"
        /\ gates' \in {gates, gates \cup {Result(r, g)}}
        /\ \E stage \in Stages : MoveTo(r, g, stage)
    BY <1>2 DEF RunGate, EvaluateGate, EmitAudit, AddAgain, StatementFails, Running,
       ledgerVars, Stages
  <2>2. TablesTyped'
    <3>1. Result(r, g) \in GateResult
      BY <2>1, ResultIsTyped
    <3>2. branch' \in [Request -> [Gate -> Stages]]
      BY <2>1 DEF TablesTyped, MoveTo
    <3> QED BY <2>1, <3>1, <3>2 DEF TablesTyped
  <2>3. ApprovedWithItsGates'
    <3>1. Result(r, g).req = r
      BY DEF Result
    <3>2. ASSUME NEW s \in Request, s.kind = "approve"
          PROVE  {x \in gates' : x.req = s} = {x \in gates : x.req = s}
      BY <2>1, <3>1, <3>2
    <3> QED BY <2>1, <3>2 DEF ApprovedWithItsGates
  <2>4. HeldInOrder' /\ GateRunsApart' /\ ChainIsOfRows' /\ CitedIsCommitted' /\ ReceiptsChecked'
    BY <2>1 DEF HeldInOrder, GateRunsApart, ChainIsOfRows, CitedIsCommitted, ReceiptsChecked
  <2> QED BY <2>2, <2>3, <2>4
<1> QED BY <1>1, <1>2

\* COMMIT: an approval becomes visible with its gates, a command with what it cites.
LEMMA CommitKeeps ==
  ASSUME CommandInv, LedgerInv', NEW r \in Request,
         Finish(r), ~(AppendAudit(r) /\ UNCHANGED publishingVars)
  PROVE  CommandInv'
<1> USE DEF CommandInv
<1>1. /\ pc[r] = "audited" /\ pc' = [pc EXCEPT ![r] = "answered"]
      /\ rows' = rows \cup tx[r].rows
      /\ gates' = gates \cup held[r] /\ chain' = chain \cup Added(r)
      /\ held' = [held EXCEPT ![r] = {}] /\ UNCHANGED branch
  BY DEF Finish, Commit, CommitUnacknowledged, Apply, Tell, Goto
<1>2. rows' = rows \cup {r} /\ r \notin rows
  BY <1>1 DEF LedgerInv, TxHoldsItsWrites
<1>3. /\ held' \in [Request -> SUBSET GateResult] /\ held'[r] = {} /\ pc'[r] = "answered"
      /\ \A s \in Request \ {r} : pc'[s] = pc[s] /\ held'[s] = held[s]
  BY <1>1 DEF TablesTyped, LedgerInv, LedgerTypeOK
<1>4. TablesTyped'
  BY <1>1, <1>3 DEF TablesTyped
<1>5. chain' = chain \cup RowsOf(r)
  BY <1>1, AddedIsRowsOf
<1>6. ChainIsOfRows'
  BY <1>2, <1>5 DEF ChainIsOfRows
<1>7. ApprovedWithItsGates'
  <2>1. \A x \in held[r] : x.req = r
    BY DEF HeldInOrder, Evaluated, Result
  <2>2. ASSUME NEW s \in Request, s.kind = "approve"
        PROVE  {x \in gates' : x.req = s} = IF s \in rows' THEN AllPassed(s) ELSE {}
    <3>1. {x \in gates : x.req = s} = IF s \in rows THEN AllPassed(s) ELSE {}
      BY <2>2 DEF ApprovedWithItsGates, AllPassed
    <3>2. CASE s = r
      <4>1. held[r] = AllPassed(r)
        BY <1>1, <2>2, <3>2 DEF HeldInOrder
      <4>2. {x \in gates' : x.req = s} = held[r]
        BY <1>1, <1>2, <2>1, <3>1, <3>2
      <4> QED BY <1>2, <3>2, <4>1, <4>2
    <3>3. CASE s # r
      <4>1. {x \in gates' : x.req = s} = {x \in gates : x.req = s}
        BY <1>1, <2>1, <3>3
      <4> QED BY <1>2, <3>1, <3>3, <4>1
    <3> QED BY <3>2, <3>3
  <2> QED BY <2>2 DEF ApprovedWithItsGates, AllPassed
<1>8. ASSUME NEW s \in Request
      PROVE  HeldInOrder!(s)' /\ GateRunsApart!(s)' /\ CitedIsCommitted!(s)' /\ ReceiptsChecked!(s)'
  <2>1. CASE s = r
    <3>1. Cites(r) => r.of \in rows'
      BY <1>1, <1>2 DEF CitedIsCommitted, InTxLabels
    <3>2. r.kind = "receipt" => r.channel \in r.of.channels /\ r.by \notin Automatic
      BY <1>1 DEF ReceiptsChecked
    <3> QED BY <1>3, <2>1, <3>1, <3>2 DEF Evaluated
  <2>2. CASE s # r
    BY <1>2, <1>3, <2>2 DEF HeldInOrder, GateRunsApart, CitedIsCommitted, ReceiptsChecked
  <2> QED BY <2>1, <2>2
<1>9. HeldInOrder' /\ GateRunsApart' /\ CitedIsCommitted' /\ ReceiptsChecked'
  BY <1>8 DEF HeldInOrder, GateRunsApart, CitedIsCommitted, ReceiptsChecked
<1> QED BY <1>4, <1>6, <1>7, <1>9

LEMMA CommandsStep == CommandInv /\ [Next]_vars => CommandInv'
<1> SUFFICES ASSUME CommandInv, [Next]_vars PROVE CommandInv'
  OBVIOUS
<1>1. LedgerInv'
  BY PublishingKeepsLedger DEF CommandInv
<1>2. CASE ReadPage \/ UNCHANGED vars
  <2>1. UNCHANGED <<pc, rows, gates, chain, held, branch>>
    BY <1>2 DEF ReadPage, ReadApprovals, ReadGates, ReadDeliveries,
       ReadDetailGate, ReadDetailApproval, Reload, Nobody, vars,
       ledgerVars, publishingVars
  <2> QED BY <1>1, <2>1 DEF CommandInv, TablesTyped, HeldInOrder, GateRunsApart,
      ApprovedWithItsGates, ChainIsOfRows, CitedIsCommitted, ReceiptsChecked
<1>3. ASSUME NEW r \in Request, Step(r) \/ Abort(r) PROVE CommandInv'
  <2>1. CASE Finish(r)
    BY <1>1, <2>1, AppendKeeps, CommitKeeps DEF Finish
  <2> QED BY <1>1, <1>3, <2>1, RouteKeeps, AbortKeeps, EvaluateKeeps, InsertKeeps, GateRunKeeps
      DEF Step
<1> QED BY <1>2, <1>3 DEF Next

\* The inductive invariant of the commands from an approval to a receipt.
THEOREM CommandsAreInvariant == Spec => []CommandInv
BY InitCommands, CommandsStep, PTL DEF Spec

\* article-drafts/[id]/reviews: an approval's gates are committed with it, all passed,
\* and what is refused or interrupted leaves none of them.
THEOREM ApprovalsAreGated == Spec => []ApprovedWithItsGates
<1>1. CommandInv => ApprovedWithItsGates
  BY DEF CommandInv
<1> QED BY <1>1, CommandsAreInvariant, PTL

-----------------------------------------------------------------------------
(* The pages.                                                              *)

\* While a page is being read: what it has read is still so, and where a draft was
\* when it began is read already, or still to be read.
Unread(d) ==
  \/ page.kind = "centre" /\ page.read = 1 /\ d \in Gated
  \/ /\ page.kind = "detail"
     /\ \E x \in gates : /\ x.draft = d
                         /\ \/ page.read < 2 /\ x.gate = "platform"
                            \/ page.read < 3 /\ x.gate = "vertical"
PageInv ==
  /\ page \in Page
  /\ page.approved \subseteq Approved /\ page.inReview \subseteq Gated
  /\ PageIsCurrent
  /\ page.read = 0 => page.approved = {} /\ page.inReview = {}
  /\ page.read \in 1..3 => \A d \in Draft :
       /\ page.since[d] <= Status(d)
       /\ page.since[d] = 2 /\ page.kind = "centre" => d \in page.approved
       /\ page.since[d] = 1 => d \in page.inReview \/ Unread(d)

\* Status is the furthest a draft has come; what is delivered was approved.
LEMMA StatusIs ==
  ASSUME NEW d \in Draft
  PROVE  /\ Status(d) \in Statuses
         /\ Status(d) = 3 <=> d \in Delivered
         /\ d \in Approved => Status(d) >= 2
         /\ d \in Gated => Status(d) >= 1
         /\ Status(d) = 2 => d \in Approved
         /\ Status(d) = 1 => d \in Gated
BY DEF Status, Statuses

LEMMA DeliveredWasApproved == CommandInv => Delivered \subseteq Approved
<1> SUFFICES ASSUME CommandInv, NEW p \in Rows("package") PROVE p.draft \in Approved
  BY DEF Delivered
<1>1. p \in chain /\ p.table = "package"
  BY DEF Rows
<1>2. p.req \in rows /\ p \in RowsOf(p.req)
  BY <1>1, ChainRows DEF CommandInv
<1>3. p.req.kind = "package" /\ p.draft = p.req.of.draft
  BY <1>1, <1>2 DEF RowsOf
<1>4. p.req \in Request
  BY <1>2 DEF CommandInv, LedgerInv, LedgerTypeOK
<1>5. p.req.of \in rows /\ p.req.of.kind = "approve"
  BY <1>2, <1>3, <1>4, PublishingAssumption DEF CommandInv, CitedIsCommitted, Cites
<1> DEFINE a == [table |-> "approval", req |-> p.req.of, draft |-> p.req.of.draft,
                 by |-> p.req.of.actor, gates |-> AllPassed(p.req.of)]
<1>6. a \in chain
  BY <1>5, ChainRows DEF RowsOf, CommandInv
<1>7. a \in Rows("approval") /\ a.draft = p.draft
  BY <1>3, <1>6 DEF Rows
<1> QED BY <1>7 DEF Approved

\* While only rows are added, drafts move on, and a page is as true as before.
LEMMA RowsAreAdded ==
  ASSUME gates \subseteq gates', chain \subseteq chain'
  PROVE  /\ Approved \subseteq Approved' /\ Gated \subseteq Gated'
         /\ \A d \in Draft : Status(d) <= Status(d)'
<1>1. Approved \subseteq Approved' /\ Gated \subseteq Gated'
  BY DEF Approved, Gated, Rows
<1>2. \A table : Rows(table) \subseteq Rows(table)'
  BY DEF Rows
<1>3. Delivered \subseteq Delivered'
  <2> SUFFICES ASSUME NEW p \in Rows("package"),
                      NEW n \in Rows("neutral"), NEW l \in Rows("plan"),
                      NEW t \in Rows("receipt"), NEW d \in Rows("delivery"),
                      d.of = t.req, d.plan = l.req, l.of = n.req, n.of = p.req
               PROVE  p.draft \in Delivered'
    BY DEF Delivered
  <2>1. /\ p \in Rows("package")' /\ n \in Rows("neutral")' /\ l \in Rows("plan")'
        /\ t \in Rows("receipt")' /\ d \in Rows("delivery")'
    BY <1>2
  <2> QED BY <2>1 DEF Delivered
<1> QED BY <1>1, <1>3 DEF Status

LEMMA PageStands ==
  ASSUME PageInv, UNCHANGED page, gates \subseteq gates', chain \subseteq chain'
  PROVE  PageInv'
<1>1. /\ Approved \subseteq Approved' /\ Gated \subseteq Gated'
      /\ \A d \in Draft : Status(d) <= Status(d)'
  BY RowsAreAdded
<1>2. \A d : Unread(d) => Unread(d)'
  BY <1>1 DEF Unread
<1>3. ASSUME NEW d \in Draft
      PROVE  /\ Status(d) \in Nat /\ Status(d)' \in Nat
             /\ page.since[d] \in Nat /\ page.shown[d] \in Nat
  <2>1. Status(d) \in Nat /\ Status(d)' \in Nat
    BY StatusIs DEF Status
  <2> QED BY <2>1 DEF PageInv, Page, Statuses
<1>4. PageIsCurrent'
  BY <1>1, <1>3 DEF PageInv, PageIsCurrent
<1> QED BY <1>1, <1>2, <1>3, <1>4 DEF PageInv

\* A page whose fields are replaced is a page: when a statement has been read, when
\* the first is, and when the page is shown.
WithGates(p, n, inReview) == [p EXCEPT !.read = n, !.inReview = inReview]
Since(p, since) == [p EXCEPT !.read = 1, !.since = since]
Showing(p, shown) ==
  [p EXCEPT !.read = Shown, !.approved = {}, !.inReview = {}, !.shown = shown]

LEMMA PageReads ==
  ASSUME NEW p \in Page, NEW n \in 0..Shown, NEW inReview \in SUBSET Draft,
         NEW q, q = WithGates(p, n, inReview)
  PROVE  /\ q \in Page /\ q.kind = p.kind /\ q.read = n /\ q.inReview = inReview
         /\ q.approved = p.approved /\ q.since = p.since /\ q.shown = p.shown
BY DEF Page, WithGates

LEMMA PageBegins ==
  ASSUME NEW p \in Page, NEW since \in [Draft -> Statuses], NEW q, q = Since(p, since)
  PROVE  /\ q \in Page /\ q.kind = p.kind /\ q.read = 1 /\ q.since = since
         /\ q.approved = p.approved /\ q.inReview = p.inReview
<1>1. 1 \in 0..Shown
  BY DEF Shown
<1> QED BY <1>1 DEF Page, Since

LEMMA PageShows ==
  ASSUME NEW p \in Page, NEW shown \in [Draft -> Statuses], NEW q, q = Showing(p, shown)
  PROVE  /\ q \in Page /\ q.kind = p.kind /\ q.read = Shown /\ q.since = p.since
         /\ q.approved = {} /\ q.inReview = {} /\ q.shown = shown
<1>1. Shown \in 0..Shown
  BY DEF Shown
<1> QED BY <1>1 DEF Page, Showing

LEMMA BlankIsTrue ==
  ASSUME NEW kind \in Pages, page' = Blank(kind)
  PROVE  PageInv'
<1>1. /\ page' \in Page /\ page'.read = 0 /\ page'.approved = {} /\ page'.inReview = {}
  BY DEF Blank, Page, Shown, Statuses
<1> QED BY <1>1 DEF PageInv, PageIsCurrent, Shown

\* The first statement of a page.
LEMMA FirstStatement ==
  ASSUME PageInv, gates \subseteq GateResult, NEW kind \in Pages, Reading(kind, 0),
         UNCHANGED <<gates, chain>>,
         page'.kind = kind, page'.read = 1, page' \in Page,
         page'.since = [d \in Draft |-> Status(d)],
         page'.approved \subseteq Approved, page'.inReview \subseteq Gated,
         kind = "centre" => page'.approved = Approved,
         kind = "detail" =>
           page'.inReview = {x.draft : x \in {y \in gates : y.gate = "quality"}}
  PROVE  PageInv'
<1>1. Approved' = Approved /\ Gated' = Gated /\ \A d : Status(d)' = Status(d)
  BY DEF Approved, Gated, Status, Delivered, Rows
<1>2. ASSUME NEW d \in Draft
      PROVE  /\ page'.since[d] <= Status(d)
             /\ page'.since[d] = 2 /\ kind = "centre" => d \in page'.approved
             /\ page'.since[d] = 1 => d \in page'.inReview \/ Unread(d)'
  <2>1. page'.since[d] = Status(d) /\ Status(d) \in Nat
    BY StatusIs DEF Statuses
  <2>2. ASSUME Status(d) = 1 PROVE d \in page'.inReview \/ Unread(d)'
    <3>1. PICK x \in gates : x.draft = d
      BY <2>2, StatusIs DEF Gated
    <3>2. x.gate \in Gate
      BY DEF GateResult
    <3> QED BY <1>1, <2>2, <3>1, <3>2, StatusIs DEF Unread, Gate, Pages
  <2> QED BY <2>1, <2>2, StatusIs
<1>3. PageIsCurrent'
  BY DEF PageIsCurrent, Shown
<1> QED BY <1>1, <1>2, <1>3 DEF PageInv

\* A statement between the first and the last: it reads some of the gates.
LEMMA NextStatement ==
  ASSUME PageInv, page.read \in 1..2, UNCHANGED <<gates, chain>>,
         NEW seen \in SUBSET Gate,
         page' = [page EXCEPT !.read = page.read + 1, !.inReview =
                    page.inReview \cup {x.draft : x \in {y \in gates : y.gate \in seen}}],
         gates \subseteq GateResult,
         page.kind = "centre" => seen = Gate /\ page.read = 1,
         page.kind = "detail" => seen = {<<"quality", "platform", "vertical">>[page.read + 1]}
  PROVE  PageInv'
<1>1. /\ Approved' = Approved /\ Gated' = Gated /\ \A d : Status(d)' = Status(d)
  BY DEF Approved, Gated, Status, Delivered, Rows
<1>2. /\ page'.kind = page.kind /\ page'.read = page.read + 1
      /\ page'.approved = page.approved /\ page'.since = page.since
      /\ page'.inReview =
           page.inReview \cup {x.draft : x \in {y \in gates : y.gate \in seen}}
  BY DEF PageInv, Page
<1>3. page' \in Page
  <2> DEFINE inReview ==
        page.inReview \cup {x.draft : x \in {y \in gates : y.gate \in seen}}
  <2>1. inReview \in SUBSET Draft /\ page.read + 1 \in 0..Shown /\ page \in Page
    BY DEF PageInv, Page, GateResult, Shown
  <2>2. page' = WithGates(page, page.read + 1, inReview)
    BY DEF WithGates
  <2> HIDE DEF inReview
  <2> QED BY <2>1, <2>2, PageReads
<1>4. ASSUME NEW d \in Draft, page.since[d] = 1 PROVE d \in page'.inReview \/ Unread(d)'
  <2>1. CASE d \in page.inReview
    BY <1>2, <2>1
  <2>2. CASE page.kind = "centre" /\ page.read = 1 /\ d \in Gated
    <3>1. PICK x \in gates : x.draft = d
      BY <2>2 DEF Gated
    <3> QED BY <1>2, <2>2, <3>1 DEF GateResult
  <2>3. ASSUME page.kind = "detail", NEW x \in gates, x.draft = d,
               \/ page.read < 2 /\ x.gate = "platform"
               \/ page.read < 3 /\ x.gate = "vertical"
        PROVE  d \in page'.inReview \/ Unread(d)'
    <3>1. CASE x.gate \in seen
      BY <1>2, <2>3, <3>1
    <3>2. CASE x.gate \notin seen
      <4>1. page.read = 1 => seen = {"platform"}
        BY <2>3
      <4>2. page.read = 2 => seen = {"vertical"}
        BY <2>3
      <4>3. page'.read = 2 /\ x.gate = "vertical"
        BY <1>2, <2>3, <3>2, <4>1, <4>2
      <4> QED BY <1>2, <2>3, <4>3 DEF Unread
    <3> QED BY <3>1, <3>2
  <2> QED BY <1>4, <2>1, <2>2, <2>3 DEF PageInv, Unread
<1>5. page'.inReview \subseteq Gated
  BY <1>2 DEF PageInv, Gated
<1>6. PageIsCurrent'
  BY <1>2 DEF PageIsCurrent, Shown
<1> QED BY <1>1, <1>2, <1>3, <1>4, <1>5, <1>6 DEF PageInv

\* The last: the status that is shown is between the one the page began with and
\* the one the draft has now.
LEMMA LastStatement ==
  ASSUME PageInv, Delivered \subseteq Approved, page.read \in 1..3,
         UNCHANGED <<gates, chain>>,
         NEW delivered \in SUBSET Delivered, NEW approved \in SUBSET Approved,
         Show(delivered, approved, page.inReview),
         \/ page.kind = "centre" /\ page.read = 2 /\ delivered = Delivered
            /\ approved = page.approved
         \/ page.kind = "detail" /\ page.read = 3 /\ approved = Approved
  PROVE  PageInv'
<1> DEFINE shows == [d \in Draft |-> IF d \in delivered THEN 3
                                     ELSE IF d \in approved THEN 2
                                     ELSE IF d \in page.inReview THEN 1
                                     ELSE 0]
<1>1. page' = [page EXCEPT !.read = Shown, !.approved = {}, !.inReview = {}, !.shown = shows]
  BY DEF Show
<1>2. shows \in [Draft -> Statuses]
  BY DEF Statuses
<1>3. \A d \in Draft : shows[d] = IF d \in delivered THEN 3
                                  ELSE IF d \in approved THEN 2
                                  ELSE IF d \in page.inReview THEN 1
                                  ELSE 0
  OBVIOUS
<1> HIDE DEF shows
<1>4. /\ page' \in Page /\ page'.read = Shown /\ page'.kind = page.kind
      /\ page'.since = page.since /\ page'.shown = shows
      /\ page'.approved = {} /\ page'.inReview = {}
  <2>1. page \in Page /\ page' = Showing(page, shows)
    BY <1>1 DEF PageInv, Showing
  <2> QED BY <1>2, <2>1, PageShows
<1>5. \A d : Status(d)' = Status(d)
  BY DEF Approved, Gated, Status, Delivered, Rows
<1>6. ASSUME NEW d \in Draft
      PROVE  /\ shows[d] <= Status(d)
             /\ (IF page.kind # "centre" /\ page.since[d] = 3 THEN 2 ELSE page.since[d]) <= shows[d]
  <2>1. shows[d] <= Status(d)
    BY <1>3, StatusIs DEF PageInv, Statuses
  <2>2. page.since[d] \in Statuses /\ page.since[d] <= Status(d) /\ shows[d] \in Statuses
    BY <1>2 DEF PageInv, Page
  <2>3. CASE page.since[d] = 0
    BY <2>1, <2>2, <2>3 DEF Statuses
  <2>4. CASE page.since[d] = 1
    <3>1. ~Unread(d)
      BY DEF Unread, Pages
    <3>2. d \in page.inReview
      BY <2>4, <3>1 DEF PageInv
    <3> QED BY <1>3, <2>1, <2>4, <3>2
  <2>5. CASE page.since[d] = 2
    <3>1. d \in Approved
      BY <2>2, <2>5, StatusIs DEF Statuses
    <3>2. d \in approved
      BY <2>5, <3>1 DEF PageInv
    <3> QED BY <1>3, <2>1, <2>5, <3>2
  <2>6. CASE page.since[d] = 3
    <3>1. d \in Delivered /\ d \in Approved
      BY <2>2, <2>6, StatusIs DEF Statuses
    <3> QED BY <1>3, <2>1, <2>6, <3>1
  <2> QED BY <2>2, <2>3, <2>4, <2>5, <2>6 DEF Statuses
<1>7. PageIsCurrent'
  BY <1>4, <1>5, <1>6 DEF PageIsCurrent
<1> QED BY <1>4, <1>7 DEF PageInv, Shown

-----------------------------------------------------------------------------
LEMMA PageStep ==
  ASSUME CommandInv, PageInv, ReadPage
  PROVE  PageInv'
<1> USE DEF Reading
<1>1. Delivered \subseteq Approved /\ gates \subseteq GateResult
  BY DeliveredWasApproved DEF CommandInv, TablesTyped
<1>2. UNCHANGED <<gates, chain>>
  BY DEF ReadPage, ReadApprovals, ReadGates, ReadDeliveries,
     ReadDetailGate, ReadDetailApproval, Reload, Nobody
<1>3. page \in Page /\ Approved \subseteq Draft /\ Gated \subseteq Draft
  <2>1. Gated \subseteq Draft
    BY <1>1 DEF Gated, GateResult
  <2>2. ASSUME NEW a \in Rows("approval") PROVE a.draft \in Draft
    <3>1. a \in chain /\ a.table = "approval"
      BY DEF Rows
    <3>2. a \in RowsOf(a.req) /\ a.req \in Request
      BY <3>1, ChainRows DEF CommandInv, LedgerInv, LedgerTypeOK
    <3>3. a.req.kind = "approve" /\ a.draft = a.req.draft
      BY <3>1, <3>2 DEF RowsOf
    <3> QED BY <3>2, <3>3, PublishingAssumption
  <2> QED BY <2>1, <2>2 DEF PageInv, Approved
<1>4. [d \in Draft |-> Status(d)] \in [Draft -> Statuses]
  BY StatusIs
<1>5. First \in Page /\ First.read = 1 /\ First.kind = page.kind
      /\ First.since = [d \in Draft |-> Status(d)]
      /\ First.approved = page.approved /\ First.inReview = page.inReview
  <2>1. First = Since(page, [d \in Draft |-> Status(d)])
    BY DEF First, Since
  <2> QED BY <1>3, <1>4, <2>1, PageBegins
<1>6. CASE ReadApprovals
  <2>1. page' = [First EXCEPT !.approved = Approved] /\ page.kind = "centre" /\ page.read = 0
    BY <1>6 DEF ReadApprovals
  <2>2. /\ page' \in Page /\ page'.kind = "centre" /\ page'.read = 1
        /\ page'.since = First.since /\ page'.approved = Approved
        /\ page'.inReview = page.inReview
    BY <1>3, <1>5, <2>1 DEF Page
  <2> QED BY <1>1, <1>2, <1>5, <2>1, <2>2, FirstStatement DEF Pages, PageInv
<1>7. CASE ReadGates
  <2>1. /\ page.kind = "centre" /\ page.read = 1
        /\ page' = [page EXCEPT !.read = 2, !.inReview = Gated]
    BY <1>7 DEF ReadGates
  <2>2. Gated = page.inReview \cup {x.draft : x \in {y \in gates : y.gate \in Gate}}
    BY <1>1 DEF PageInv, Gated, GateResult
  <2>3. page' = [page EXCEPT !.read = page.read + 1, !.inReview =
                   page.inReview \cup {x.draft : x \in {y \in gates : y.gate \in Gate}}]
    BY <2>1, <2>2
  <2>4. page.read \in 1..2 /\ Gate \in SUBSET Gate /\ page.kind # "detail"
    BY <2>1
  <2> QED BY <1>1, <1>2, <2>1, <2>3, <2>4, NextStatement, Zenon
<1>8. CASE ReadDetailGate
  <2>1. PICK n \in 0..2 :
          /\ page.kind = "detail" /\ page.read = n
          /\ page' = [IF n = 0 THEN First ELSE page EXCEPT
               !.read = n + 1,
               !.inReview = @ \cup {x.draft : x \in {y \in gates :
                              y.gate = <<"quality", "platform", "vertical">>[n + 1]}}]
    BY <1>8 DEF ReadDetailGate
  <2>2. CASE n = 0
    <3> DEFINE read == {x.draft : x \in {y \in gates : y.gate = "quality"}}
    <3>1. /\ page' = [First EXCEPT !.read = 1, !.inReview = First.inReview \cup read]
          /\ read \subseteq Gated
      BY <2>1, <2>2 DEF Gated
    <3> HIDE DEF read
    <3>2. /\ page' \in Page /\ page'.kind = "detail" /\ page'.read = 1
          /\ page'.since = First.since /\ page'.approved = page.approved
          /\ page'.inReview = page.inReview \cup read
      <4>1. page.inReview \cup read \in SUBSET Draft /\ 1 \in 0..Shown
        BY <1>3, <3>1 DEF Page, Shown
      <4>2. page' = WithGates(First, 1, page.inReview \cup read)
        BY <1>5, <3>1 DEF WithGates
      <4>3. First \in Page /\ 1 \in 0..Shown
        BY <1>5, <4>1
      <4>4. /\ page' \in Page /\ page'.kind = First.kind /\ page'.read = 1
            /\ page'.inReview = page.inReview \cup read
            /\ page'.approved = First.approved /\ page'.since = First.since
        BY <4>1, <4>2, <4>3, PageReads
      <4> QED BY <1>5, <2>1, <4>4
    <3>3. page.inReview = {}
      BY <2>1, <2>2 DEF PageInv
    <3> QED
      BY <1>1, <1>2, <1>5, <2>1, <2>2, <3>1, <3>2, <3>3, FirstStatement DEF Pages, PageInv, read
  <2>3. CASE n # 0
    <3> DEFINE gate == <<"quality", "platform", "vertical">>[n + 1]
    <3>1. gate \in Gate /\ page.read \in 1..2
      BY <2>1, <2>3 DEF Gate
    <3>2. page' = [page EXCEPT !.read = page.read + 1, !.inReview =
            page.inReview \cup {x.draft : x \in {y \in gates : y.gate \in {gate}}}]
      BY <2>1, <2>3
    <3>3. gate = <<"quality", "platform", "vertical">>[page.read + 1]
      BY <2>1
    <3>4. {gate} \in SUBSET Gate /\ page.kind # "centre"
      BY <2>1, <3>1
    <3> HIDE DEF gate
    <3> QED BY <1>1, <1>2, <2>1, <3>1, <3>2, <3>3, <3>4, NextStatement, Zenon
  <2> QED BY <2>2, <2>3
<1>9. CASE ReadDeliveries
  BY <1>1, <1>2, <1>9, LastStatement DEF ReadDeliveries, PageInv
<1>10. CASE ReadDetailApproval
  BY <1>1, <1>2, <1>10, LastStatement DEF ReadDetailApproval
<1>11. CASE Reload
  BY <1>11, BlankIsTrue DEF Reload
<1> QED BY <1>6, <1>7, <1>8, <1>9, <1>10, <1>11 DEF ReadPage

LEMMA PublishingStep == CommandInv /\ PageInv /\ [Next]_vars => PageInv'
<1> SUFFICES ASSUME CommandInv, PageInv, [Next]_vars PROVE PageInv'
  OBVIOUS
<1>1. CASE ReadPage
  BY <1>1, PageStep
<1>2. CASE UNCHANGED vars
  BY <1>2, PageStands DEF vars, publishingVars
<1>3. ASSUME NEW r \in Request, Step(r) \/ Abort(r) PROVE PageInv'
  <2>1. UNCHANGED page /\ gates \subseteq gates' /\ chain \subseteq chain'
    BY <1>3 DEF Step, Route, Abort, Approve, BuildPackage, CreatePlan, RecordReceipt, Finish,
       AnswerGates, Evaluate, RunGate, EvaluateGate, EmitAudit, AddAgain, StatementFails,
       publishingVars
  <2> QED BY <2>1, PageStands
<1> QED BY <1>1, <1>2, <1>3 DEF Next

LEMMA InitPage == Init => PageInv
<1> SUFFICES ASSUME Init PROVE PageInv
  OBVIOUS
<1>1. PICK kind \in Pages : page = Blank(kind)
  BY DEF Init
<1>2. page \in Page /\ page.read = 0 /\ page.approved = {} /\ page.inReview = {}
  BY <1>1 DEF Blank, Page, Shown, Statuses
<1> QED BY <1>2 DEF PageInv, PageIsCurrent, Shown

\* What a page shows is no older than its first statement and not ahead of the rows.
THEOREM PagesAreCurrent == Spec => []PageIsCurrent
<1>1. Spec => []PageInv
  BY InitPage, PublishingStep, CommandsAreInvariant, PTL DEF Spec
<1>2. PageInv => PageIsCurrent
  BY DEF PageInv
<1> QED BY <1>1, <1>2, PTL

-----------------------------------------------------------------------------
(* The chain.                                                              *)

\* What a command inserts is typed, once what it cites is committed.
LEMMA RowsOfTyped ==
  ASSUME CommandInv, NEW r \in rows, NEW x \in RowsOf(r)
  PROVE  \/ x \in ApprovalRow \/ x \in PackageRow \/ x \in ChannelNeutralRow
         \/ x \in PlanRow \/ x \in ReceiptRow \/ x \in DeliveryRow
<1>1. r \in Request /\ rows \subseteq Request
  BY DEF CommandInv, LedgerInv, LedgerTypeOK
<1>2. Cites(r) => r.of \in Request
  BY <1>1 DEF CommandInv, CitedIsCommitted
<1>3. CASE r.kind = "approve"
  <2>1. AllPassed(r) \subseteq GateResult /\ r.draft \in Draft /\ r.actor \in Actor
    BY <1>1, <1>3, AllPassedTyped, PublishingAssumption DEF Actor
  <2> QED BY <1>1, <1>3, <2>1 DEF RowsOf, ApprovalRow
<1>4. CASE r.kind = "package"
  <2>1. r.of \in Request /\ r.of.draft \in Draft
    BY <1>1, <1>2, <1>4, PublishingAssumption DEF Cites
  <2> QED BY <1>1, <1>4, <2>1 DEF RowsOf, PackageRow, ChannelNeutralRow
<1>5. CASE r.kind = "plan"
  <2>1. r.of \in Request /\ r.channels \in (SUBSET Channel) \ {{}}
    BY <1>1, <1>2, <1>5, PublishingAssumption DEF Cites
  <2> QED BY <1>1, <1>5, <2>1 DEF RowsOf, PlanRow
<1>6. CASE r.kind = "receipt"
  <2>1. r.of \in Request /\ r.channel \in Channel /\ r.by \in Actor
    BY <1>1, <1>2, <1>6, PublishingAssumption DEF Cites, Actor
  <2> QED BY <1>1, <1>6, <2>1 DEF RowsOf, ReceiptRow, DeliveryRow
<1> QED BY <1>1, <1>3, <1>4, <1>5, <1>6, PublishingAssumption DEF RowsOf

\* A receipt's row leads back, row by row, to an approval whose gates passed.
LEMMA ChainBehindReceipt ==
  ASSUME CommandInv, NEW t \in Rows("receipt")
  PROVE  /\ t.by \notin Automatic
         /\ \E d \in Rows("delivery") : d.of = t.req /\ d.plan = t.of
         /\ \E l \in Rows("plan"), n \in Rows("neutral"), p \in Rows("package"),
               a \in Rows("approval") :
              /\ t.of = l.req /\ l.of = n.req /\ n.of = p.req /\ p.of = a.req
              /\ t.channel \in l.channels
              /\ a.draft = p.draft
              /\ a.gates \subseteq gates
              /\ {g.gate : g \in a.gates} = Gate /\ \A g \in a.gates : g.passed
              /\ \A e \in {t.req, l.req, p.req, a.req} : Allowed(e) = {AllowedEvent(e)}
<1> DEFINE r == t.req
           pl == r.of
           pk == r.of.of
           ap == r.of.of.of
<1>1. r \in rows /\ t \in RowsOf(r) /\ t.table = "receipt" /\ rows \subseteq Request
  BY ChainRows DEF Rows, CommandInv, LedgerInv, LedgerTypeOK
<1>2. r.kind = "receipt" /\ t.of = r.of /\ t.channel = r.channel /\ t.by = r.by
  BY <1>1 DEF RowsOf
<1>3. pl \in rows /\ pl.kind = "plan" /\ r.channel \in pl.channels /\ r.by \notin Automatic
  BY <1>1, <1>2, PublishingAssumption DEF CommandInv, CitedIsCommitted, ReceiptsChecked, Cites
<1>4. pk \in rows /\ pk.kind = "package"
  BY <1>1, <1>3, PublishingAssumption DEF CommandInv, CitedIsCommitted, Cites
<1>5. ap \in rows /\ ap.kind = "approve"
  BY <1>1, <1>4, PublishingAssumption DEF CommandInv, CitedIsCommitted, Cites
<1> DEFINE d == [table |-> "delivery", req |-> r, of |-> r, plan |-> r.of]
           l == [table |-> "plan", req |-> pl, of |-> pl.of, channels |-> pl.channels]
           n == [table |-> "neutral", req |-> pk, of |-> pk, channels |-> {}]
           p == [table |-> "package", req |-> pk, of |-> pk.of, draft |-> pk.of.draft]
           a == [table |-> "approval", req |-> ap, draft |-> ap.draft, by |-> ap.actor,
                 gates |-> AllPassed(ap)]
<1>6. d \in Rows("delivery") /\ l \in Rows("plan") /\ n \in Rows("neutral")
      /\ p \in Rows("package") /\ a \in Rows("approval")
  <2>1. d \in RowsOf(r) /\ l \in RowsOf(pl) /\ n \in RowsOf(pk) /\ p \in RowsOf(pk)
        /\ a \in RowsOf(ap)
    BY <1>2, <1>3, <1>4, <1>5 DEF RowsOf
  <2>2. d \in chain /\ l \in chain /\ n \in chain /\ p \in chain /\ a \in chain
    BY <1>1, <1>3, <1>4, <1>5, <2>1, ChainRows DEF CommandInv
  <2> QED BY <2>2 DEF Rows
<1>7. /\ d.of = r /\ d.plan = r.of
      /\ l.req = pl /\ l.of = pk /\ l.channels = pl.channels
      /\ n.req = pk /\ n.of = pk
      /\ p.req = pk /\ p.of = ap /\ p.draft = ap.draft
      /\ a.req = ap /\ a.draft = ap.draft /\ a.gates = AllPassed(ap)
  OBVIOUS
<1>8. AllPassed(ap) \subseteq gates
  BY <1>1, <1>5 DEF CommandInv, ApprovedWithItsGates, AllPassed
<1>9. {g.gate : g \in AllPassed(ap)} = Gate /\ \A g \in AllPassed(ap) : g.passed
  <2>1. ASSUME NEW g \in Gate PROVE \E x \in AllPassed(ap) : x.gate = g
    <3> DEFINE x == [req |-> ap, draft |-> ap.draft, gate |-> g, passed |-> TRUE]
    <3>1. x \in AllPassed(ap) /\ x.gate = g
      BY DEF AllPassed
    <3> QED BY <3>1
  <2>2. \A x \in AllPassed(ap) : x.gate \in Gate /\ x.passed = TRUE
    BY DEF AllPassed
  <2> QED BY <2>1, <2>2
<1>10. \A e \in {r, pl, pk, ap} : Allowed(e) = {AllowedEvent(e)}
  BY <1>1, <1>3, <1>4, <1>5 DEF CommandInv, LedgerInv, WrittenIffAudited
<1> HIDE DEF d, l, n, p, a, pl, pk, ap
<1>11. t.of = pl /\ t.req = r
  BY <1>2 DEF pl
<1>12. \E e \in Rows("delivery") : e.of = t.req /\ e.plan = t.of
  BY <1>2, <1>6, <1>7
<1>13. \E l1 \in Rows("plan"), n1 \in Rows("neutral"), p1 \in Rows("package"),
          a1 \in Rows("approval") :
         /\ t.of = l1.req /\ l1.of = n1.req /\ n1.of = p1.req /\ p1.of = a1.req
         /\ t.channel \in l1.channels
         /\ a1.draft = p1.draft
         /\ a1.gates \subseteq gates
         /\ {g.gate : g \in a1.gates} = Gate /\ \A g \in a1.gates : g.passed
         /\ \A e \in {t.req, l1.req, p1.req, a1.req} : Allowed(e) = {AllowedEvent(e)}
  <2>1. t.of = l.req /\ l.of = n.req /\ n.of = p.req /\ p.of = a.req
        /\ t.channel \in l.channels
        /\ a.draft = p.draft
        /\ a.gates \subseteq gates
    BY <1>2, <1>3, <1>7, <1>8, <1>11
  <2>2. {g.gate : g \in a.gates} = Gate /\ \A g \in a.gates : g.passed
    BY <1>7, <1>9, Zenon
  <2>3. \A e \in {t.req, l.req, p.req, a.req} : Allowed(e) = {AllowedEvent(e)}
    BY <1>7, <1>10, <1>11, Zenon
  <2> DEFINE Linked(l1, n1, p1, a1) ==
        /\ t.of = l1.req /\ l1.of = n1.req /\ n1.of = p1.req /\ p1.of = a1.req
        /\ t.channel \in l1.channels
        /\ a1.draft = p1.draft
        /\ a1.gates \subseteq gates
        /\ {g.gate : g \in a1.gates} = Gate /\ \A g \in a1.gates : g.passed
        /\ \A e \in {t.req, l1.req, p1.req, a1.req} : Allowed(e) = {AllowedEvent(e)}
  <2>4. Linked(l, n, p, a)
    BY <2>1, <2>2, <2>3
  <2> HIDE DEF Linked
  <2>5. \E l1 \in Rows("plan"), n1 \in Rows("neutral"), p1 \in Rows("package"),
           a1 \in Rows("approval") : Linked(l1, n1, p1, a1)
    BY <1>6, <2>4
  <2> QED BY <2>5 DEF Linked
<1> QED BY <1>2, <1>3, <1>12, <1>13

\* SYSTEM_INVARIANTS_V1, "Publication": nothing is delivered but through a plan, a
\* package and an approval whose three gates passed, each committed and audited.
THEOREM DeliveriesFollowTheChain == Spec => []DeliveredThroughTheChain
<1>1. CommandInv /\ PageInv => DeliveredThroughTheChain
  <2> SUFFICES ASSUME CommandInv, PageInv PROVE DeliveredThroughTheChain
    OBVIOUS
  <2>1. ASSUME NEW x \in chain
        PROVE  \/ x \in ApprovalRow \/ x \in PackageRow \/ x \in ChannelNeutralRow
               \/ x \in PlanRow \/ x \in ReceiptRow \/ x \in DeliveryRow
    BY ChainRows, RowsOfTyped DEF CommandInv
  <2>2. TypeOK
    BY <2>1 DEF TypeOK, CommandInv, TablesTyped, LedgerInv, PageInv
  <2> QED BY <2>2, ChainBehindReceipt DEF DeliveredThroughTheChain
<1>2. Spec => []PageInv
  BY InitPage, PublishingStep, CommandsAreInvariant, PTL DEF Spec
<1> QED BY <1>1, <1>2, CommandsAreInvariant, PTL
=============================================================================
