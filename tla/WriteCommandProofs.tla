------------------------- MODULE WriteCommandProofs -------------------------
(***************************************************************************)
(* Proofs about WriteCommand, for every finite set of requests and every   *)
(* size of the pool.  LedgerInv is inductive; its conjuncts are the        *)
(* properties the runs check.                                              *)
(***************************************************************************)
EXTENDS WriteCommand, FiniteSetTheorems, TLAPS

LEMMA OpenIsFinite == IsFiniteSet(Open) /\ Cardinality(Open) \in Nat
  BY RequestAssumption, FS_Subset, FS_CardinalityType DEF Open

\* A request that enters a transaction adds one to the open ones ...
LEMMA OpenGrows ==
  ASSUME NEW r \in Request, r \notin Open, Open' = Open \cup {r}
  PROVE  Cardinality(Open') = Cardinality(Open) + 1
  BY OpenIsFinite, FS_AddElement

\* ... and one that leaves takes one away.
LEMMA OpenShrinks ==
  ASSUME NEW r \in Request, r \in Open, Open' = Open \ {r}
  PROVE  Cardinality(Open') = Cardinality(Open) - 1 /\ Cardinality(Open) > 0
<1>1. Cardinality(Open) # 0
  BY OpenIsFinite, FS_EmptySet
<1>2. Cardinality(Open \ {r}) = Cardinality(Open) - 1
  BY OpenIsFinite, FS_RemoveElement
<1> QED BY <1>1, <1>2, OpenIsFinite

LEMMA InitLedger == LedgerInit => LedgerInv
<1> SUFFICES ASSUME LedgerInit PROVE LedgerInv
  OBVIOUS
<1> USE DEF LedgerInit
<1>1. LedgerTypeOK
  BY PoolAssumption DEF LedgerTypeOK, Labels, EmptyTx, None, Kinds
<1>2. ConnectionsConserved
  <2>1. Open = {}
    BY DEF Open, InTx, InTxLabels
  <2> QED BY <2>1, PoolAssumption, FS_EmptySet DEF ConnectionsConserved
<1>3. TxHoldsItsWrites /\ WrittenIffAudited
  BY DEF TxHoldsItsWrites, WrittenIffAudited, EmptyTx, Allowed
<1>4. OpenHaveRaced /\ MissedHaveRaced
  BY DEF OpenHaveRaced, MissedHaveRaced, Missed, InTx, InTxLabels
<1> QED BY <1>1, <1>2, <1>3, <1>4 DEF LedgerInv

-----------------------------------------------------------------------------
\* The connection count across a step: who enters and who leaves a transaction.
LEMMA ConservedWhenSame ==
  ASSUME ConnectionsConserved, Open' = Open, free' = free
  PROVE  ConnectionsConserved'
  BY DEF ConnectionsConserved

LEMMA ConservedWhenEntering ==
  ASSUME LedgerTypeOK, ConnectionsConserved, NEW r \in Request, free > 0,
         ~InTx(r), pc' = [pc EXCEPT ![r] = "begun"], free' = free - 1
  PROVE  ConnectionsConserved' /\ free' \in 0..PoolMax
<1>1. r \notin Open /\ Open' = Open \cup {r}
  BY DEF Open, InTx, InTxLabels, LedgerTypeOK
<1>2. Cardinality(Open') = Cardinality(Open) + 1
  BY <1>1, OpenGrows
<1> QED BY <1>2, OpenIsFinite, PoolAssumption DEF ConnectionsConserved, LedgerTypeOK

LEMMA ConservedWhenLeaving ==
  ASSUME LedgerTypeOK, ConnectionsConserved, NEW r \in Request,
         InTx(r), pc' = [pc EXCEPT ![r] = "answered"], free' = free + 1
  PROVE  ConnectionsConserved' /\ free' \in 0..PoolMax
<1>1. r \in Open /\ Open' = Open \ {r}
  BY DEF Open, InTx, InTxLabels, LedgerTypeOK
<1>2. Cardinality(Open') = Cardinality(Open) - 1 /\ Cardinality(Open) > 0
  BY <1>1, OpenShrinks
<1> QED BY <1>2, OpenIsFinite, PoolAssumption DEF ConnectionsConserved, LedgerTypeOK

\* A handler that answers, or goes on, outside a transaction.
LEMMA OutsideStep ==
  ASSUME LedgerInv, NEW r \in Request, pc[r] \in {"unsent", "authorized"},
         NEW label \in {"authorized", "answered"}, Goto(r, label),
         UNCHANGED <<free, began, tx, rows, overlap>>,
         audit' \subseteq AuditEvent, clock' \in Nat,
         answer' \in [Request -> [kind: Kinds, result: SUBSET Request]],
         \A s \in Request : Allowed(s)' = Allowed(s)
  PROVE  LedgerInv'
<1> USE DEF LedgerInv
<1>1. LedgerTypeOK'
  BY DEF LedgerTypeOK, Goto, Labels
<1>2. Open' = Open
  BY DEF Open, InTx, InTxLabels, Goto, LedgerTypeOK
<1>3. ConnectionsConserved'
  BY <1>2, ConservedWhenSame
<1>4. TxHoldsItsWrites'
  BY DEF TxHoldsItsWrites, Goto, LedgerTypeOK, AllowedEvent
<1>5. WrittenIffAudited'
  BY DEF WrittenIffAudited, AllowedEvent
<1>6. OpenHaveRaced'
  BY DEF OpenHaveRaced, InTx, InTxLabels, Raced, Goto, LedgerTypeOK
<1>7. MissedHaveRaced'
  BY DEF MissedHaveRaced, Missed, Raced, Retry, Goto, LedgerTypeOK
<1> QED BY <1>1, <1>3, <1>4, <1>5, <1>6, <1>7

\* A step inside r's transaction, which stays open: r's own uncommitted writes
\* and its place in the handler change, the committed tables do not.
LEMMA InsideStep ==
  ASSUME LedgerInv, NEW r \in Request, InTx(r),
         NEW label \in InTxLabels, Goto(r, label),
         UNCHANGED <<free, clock, began, rows, audit, answer, overlap>>,
         tx' \in [Request -> [rows: SUBSET Request, audit: SUBSET AuditEvent]],
         TxHoldsItsWrites',
         \A s \in Request : Retry(r, s) /\ Missed(r)' /\ Missed(s) => Raced(r, s)
  PROVE  LedgerInv'
<1> USE DEF LedgerInv
<1>1. LedgerTypeOK'
  BY DEF LedgerTypeOK, Goto, Labels
<1>2. Open' = Open
  BY DEF Open, InTx, InTxLabels, Goto, LedgerTypeOK
<1>3. ConnectionsConserved'
  BY <1>2, ConservedWhenSame
<1>5. WrittenIffAudited'
  BY DEF WrittenIffAudited, AllowedEvent, Allowed
<1>6. OpenHaveRaced'
  BY DEF OpenHaveRaced, InTx, InTxLabels, Raced, Goto, LedgerTypeOK
<1>7. MissedHaveRaced'
  <2> SUFFICES ASSUME NEW s \in Request, NEW t \in Request,
                      Retry(s, t), Missed(s)', Missed(t)'
               PROVE  Raced(s, t)
    BY DEF MissedHaveRaced, Raced, Retry
  <2>1. \A u \in Request \ {r} : Missed(u)' = Missed(u)
    BY DEF Missed, Goto, LedgerTypeOK
  <2>2. s # t /\ Retry(t, s) /\ (Raced(t, s) => Raced(s, t))
    BY DEF Retry, Raced
  <2>3. CASE s = r
    BY <2>1, <2>2, <2>3
  <2>4. CASE t = r
    BY <2>1, <2>2, <2>4
  <2>5. CASE s # r /\ t # r
    BY <2>1, <2>5 DEF MissedHaveRaced
  <2> QED BY <2>3, <2>4, <2>5
<1> QED BY <1>1, <1>3, <1>5, <1>6, <1>7

\* Leaving the transaction: its uncommitted writes are gone, committed or not.
LEMMA LeavingStep ==
  ASSUME LedgerInv, NEW r \in Request, InTx(r),
         Goto(r, "answered"), free' = free + 1,
         UNCHANGED <<clock, began, overlap>>,
         tx' = [tx EXCEPT ![r] = EmptyTx],
         answer' \in [Request -> [kind: Kinds, result: SUBSET Request]],
         \/ UNCHANGED <<rows, audit>>
         \/ /\ pc[r] = "audited"
            /\ rows' = rows \cup tx[r].rows
            /\ audit' = audit \cup tx[r].audit
  PROVE  LedgerInv'
<1> USE DEF LedgerInv
<1>1. ConnectionsConserved' /\ free' \in 0..PoolMax
  BY ConservedWhenLeaving DEF Goto
<1>2. EmptyTx \in [rows: SUBSET Request, audit: SUBSET AuditEvent]
  BY DEF EmptyTx
<1>3. LedgerTypeOK'
  BY <1>1, <1>2 DEF LedgerTypeOK, Goto, Labels
<1>4. r \notin rows
  BY DEF TxHoldsItsWrites, InTx, InTxLabels
<1>5. \/ UNCHANGED <<rows, audit>>
      \/ /\ pc[r] = "audited" /\ rows' = rows \cup {r}
         /\ audit' = audit \cup {AllowedEvent(r)}
  BY DEF TxHoldsItsWrites
<1>6. TxHoldsItsWrites'
  BY <1>4, <1>5 DEF TxHoldsItsWrites, EmptyTx, AllowedEvent, Goto, LedgerTypeOK
<1>7. WrittenIffAudited'
  <2>1. \A s \in Request : AllowedEvent(s)' = AllowedEvent(s)
    BY DEF AllowedEvent
  <2>2. CASE UNCHANGED <<rows, audit>>
    BY <2>1, <2>2 DEF WrittenIffAudited, Allowed
  <2>3. CASE rows' = rows \cup {r} /\ audit' = audit \cup {AllowedEvent(r)}
    <3>1. Allowed(r)' = {AllowedEvent(r)}
      BY <1>4, <2>3 DEF WrittenIffAudited, Allowed, AllowedEvent
    <3>2. \A s \in Request \ {r} : Allowed(s)' = Allowed(s)
      BY <2>3 DEF Allowed, AllowedEvent
    <3> QED BY <2>1, <2>3, <3>1, <3>2 DEF WrittenIffAudited
  <2> QED BY <1>5, <2>2, <2>3
<1>8. OpenHaveRaced'
  BY DEF OpenHaveRaced, InTx, InTxLabels, Raced, Goto, LedgerTypeOK
<1>9. MissedHaveRaced'
  <2>1. \A s \in Request : Missed(s)' => Missed(s)
    BY <1>5 DEF Missed, Goto, LedgerTypeOK
  <2> QED BY <2>1 DEF MissedHaveRaced, Raced, Retry
<1> QED BY <1>1, <1>3, <1>6, <1>7, <1>8, <1>9

-----------------------------------------------------------------------------
LEMMA RefuseOrAuthorize ==
  ASSUME LedgerInv, NEW r \in Request, Refuse(r) \/ Authorize(r)
  PROVE  LedgerInv'
<1>1. LedgerTypeOK
  BY DEF LedgerInv
<1>2. \A s \in Request : Allowed(s)' = Allowed(s)
  BY DEF Refuse, Authorize, Allowed
<1>3. CASE Refuse(r)
  BY <1>1, <1>2, <1>3, OutsideStep DEF Refuse, Tell, Kinds, LedgerTypeOK
<1>4. CASE Authorize(r)
  BY <1>1, <1>2, <1>4, OutsideStep DEF Authorize, LedgerTypeOK
<1> QED BY <1>3, <1>4

LEMMA Deny ==
  ASSUME LedgerInv, NEW r \in Request, RecordDenied(r) \/ RecordDeniedFails(r)
  PROVE  LedgerInv'
<1>1. LedgerTypeOK
  BY DEF LedgerInv
<1>2. CASE RecordDenied(r)
  <2>1. DeniedEvent(r) \in AuditEvent
    BY <1>1 DEF DeniedEvent, AuditEvent, Outcomes, LedgerTypeOK
  <2>2. \A s \in Request : Allowed(s)' = Allowed(s)
    BY <1>2 DEF RecordDenied, Allowed, DeniedEvent
  <2> QED BY <1>1, <1>2, <2>1, <2>2, OutsideStep
          DEF RecordDenied, Tell, Kinds, LedgerTypeOK
<1>3. CASE RecordDeniedFails(r)
  <2>1. \A s \in Request : Allowed(s)' = Allowed(s)
    BY <1>3 DEF RecordDeniedFails, Allowed
  <2> QED BY <1>1, <1>3, <2>1, OutsideStep DEF RecordDeniedFails, Tell, Kinds, LedgerTypeOK
<1> QED BY <1>2, <1>3

LEMMA Enter ==
  ASSUME LedgerInv, NEW r \in Request, Begin(r)
  PROVE  LedgerInv'
<1> USE DEF LedgerInv, Begin
<1>1. ConnectionsConserved' /\ free' \in 0..PoolMax
  BY ConservedWhenEntering DEF Goto, InTx, InTxLabels
<1>2. Open \subseteq Request /\ clock' \in Nat
  BY DEF Open, LedgerTypeOK
<1>3. LedgerTypeOK'
  BY <1>1, <1>2 DEF LedgerTypeOK, Goto, Labels, InTxLabels
<1>4. r \notin rows
  BY DEF TxHoldsItsWrites
<1>5. \A s \in Request \ {r} : AllowedEvent(s)' = AllowedEvent(s)
  BY DEF AllowedEvent, LedgerTypeOK
<1>6. TxHoldsItsWrites'
  BY <1>4, <1>5 DEF TxHoldsItsWrites, Goto, LedgerTypeOK
<1>7. WrittenIffAudited'
  BY <1>4, <1>5 DEF WrittenIffAudited, Allowed
<1>8. OpenHaveRaced'
  <2>1. \A s \in Request \ {r} : InTx(s)' = InTx(s) /\ overlap'[s] = overlap[s]
    BY DEF InTx, Goto, LedgerTypeOK
  <2>2. overlap'[r] = Open
    BY DEF LedgerTypeOK
  <2>3. \A s \in Request \ {r} : InTx(s) => s \in overlap'[r]
    BY <2>2 DEF Open
  <2> QED BY <2>1, <2>3 DEF OpenHaveRaced, Raced
<1>9. MissedHaveRaced'
  <2>1. ~Missed(r)'
    BY <1>4 DEF Missed, Goto, LedgerTypeOK
  <2>2. \A s \in Request \ {r} : Missed(s)' = Missed(s) /\ overlap'[s] = overlap[s]
    BY DEF Missed, Goto, LedgerTypeOK
  <2> QED BY <2>1, <2>2 DEF MissedHaveRaced, Raced, Retry
<1> QED BY <1>1, <1>3, <1>6, <1>7, <1>8, <1>9

\* The point of the ledger: a committed attempt of the same key is found.
LEMMA Miss ==
  ASSUME LedgerInv, NEW r \in Request, LookupMisses(r)
  PROVE  LedgerInv'
<1> USE DEF LedgerInv, LookupMisses
<1>1. InTx(r)
  BY DEF InTx, InTxLabels
<1>2. ASSUME NEW s \in Request, Retry(r, s), Missed(s) PROVE Raced(r, s)
  <2>1. CASE s \in rows
    <3>1. AllowedEvent(s) \in audit
      BY <2>1 DEF WrittenIffAudited, Allowed
    <3>2. AllowedEvent(s) \in Prior(r)
      BY <1>2, <3>1 DEF Prior, AllowedEvent, Retry
    <3> QED BY <1>2, <3>2 DEF Used, Retry
  <2>2. CASE s \notin rows
    <3>1. InTx(s)
      BY <1>2, <2>2 DEF Missed, InTx, InTxLabels
    <3> QED BY <1>1, <1>2, <3>1 DEF OpenHaveRaced, Retry
  <2> QED BY <2>1, <2>2
<1>3. TxHoldsItsWrites'
  BY DEF TxHoldsItsWrites, Goto, LedgerTypeOK, AllowedEvent
<1> QED BY <1>1, <1>2, <1>3, InsideStep DEF LedgerTypeOK, InTxLabels

LEMMA Write ==
  ASSUME LedgerInv, NEW r \in Request, Perform(r) \/ AppendAudit(r)
  PROVE  LedgerInv'
<1> USE DEF LedgerInv
<1>1. InTx(r) /\ Missed(r)
  BY DEF InTx, InTxLabels, Missed, Perform, AppendAudit
<1>2. \A s \in Request : Retry(r, s) /\ Missed(r)' /\ Missed(s) => Raced(r, s)
  BY <1>1 DEF MissedHaveRaced
<1>3. tx[r] \in [rows: SUBSET Request, audit: SUBSET AuditEvent]
  BY DEF LedgerTypeOK
<1>4. CASE Perform(r)
  <2> DEFINE now == [rows |-> tx[r].rows \cup {r}, audit |-> tx[r].audit]
  <2>1. now \in [rows: SUBSET Request, audit: SUBSET AuditEvent]
    BY <1>3
  <2>2. tx' = [tx EXCEPT ![r] = now]
    BY <1>3, <1>4 DEF Perform
  <2>3. tx' \in [Request -> [rows: SUBSET Request, audit: SUBSET AuditEvent]]
    BY <2>1, <2>2 DEF LedgerTypeOK
  <2>4. now.rows = {r} /\ now.audit = {}
    BY <1>4 DEF TxHoldsItsWrites, Perform
  <2> HIDE DEF now
  <2>5. TxHoldsItsWrites'
    BY <1>4, <2>2, <2>4 DEF TxHoldsItsWrites, Perform, Goto, LedgerTypeOK, AllowedEvent
  <2> QED BY <1>1, <1>2, <1>4, <2>3, <2>5, InsideStep DEF Perform, InTxLabels
<1>5. CASE AppendAudit(r)
  <2> DEFINE now == [rows |-> tx[r].rows, audit |-> tx[r].audit \cup {AllowedEvent(r)}]
  <2>1. AllowedEvent(r) \in AuditEvent
    BY DEF AllowedEvent, AuditEvent, Outcomes, LedgerTypeOK
  <2>2. now \in [rows: SUBSET Request, audit: SUBSET AuditEvent]
    BY <1>3, <2>1
  <2>3. tx' = [tx EXCEPT ![r] = now]
    BY <1>3, <1>5 DEF AppendAudit
  <2>4. tx' \in [Request -> [rows: SUBSET Request, audit: SUBSET AuditEvent]]
    BY <2>2, <2>3 DEF LedgerTypeOK
  <2>5. now.rows = {r} /\ now.audit = {AllowedEvent(r)}
    BY <1>5 DEF TxHoldsItsWrites, AppendAudit
  <2> HIDE DEF now
  <2>6. TxHoldsItsWrites'
    BY <1>5, <2>3, <2>5 DEF TxHoldsItsWrites, AppendAudit, Goto, LedgerTypeOK, AllowedEvent
  <2> QED BY <1>1, <1>2, <1>5, <2>4, <2>6, InsideStep DEF AppendAudit, InTxLabels
<1> QED BY <1>4, <1>5

LEMMA Leave ==
  ASSUME LedgerInv, NEW r \in Request,
         Replay(r) \/ Commit(r) \/ CommitUnacknowledged(r) \/ Rollback(r)
  PROVE  LedgerInv'
<1> USE DEF LedgerInv
<1>1. LedgerTypeOK /\ InTx(r)
  BY DEF InTx, InTxLabels, Replay, Commit, CommitUnacknowledged, Apply, Rollback
<1>2. CASE Replay(r)
  <2>1. tx[r] = EmptyTx
    BY <1>2 DEF TxHoldsItsWrites, Replay, EmptyTx, LedgerTypeOK
  <2>2. tx' = [tx EXCEPT ![r] = EmptyTx]
    BY <1>2, <2>1 DEF Replay, LedgerTypeOK
  <2>3. \A e \in FindIdempotentReplay(r) : e.req \in Request
    BY DEF FindIdempotentReplay, Prior, LedgerTypeOK, AuditEvent
  <2>4. Goto(r, "answered")
    BY <1>2 DEF Replay, Tell
  <2>5. answer' \in [Request -> [kind: Kinds, result: SUBSET Request]]
    BY <1>2, <2>3 DEF Replay, Tell, Kinds, LedgerTypeOK
  <2>6. UNCHANGED <<clock, began, overlap, rows, audit>> /\ free' = free + 1
    BY <1>2 DEF Replay
  <2> QED BY <1>1, <2>2, <2>4, <2>5, <2>6, LeavingStep
<1>3. CASE Commit(r)
  BY <1>1, <1>3, LeavingStep DEF Commit, Apply, Tell, Kinds, LedgerTypeOK
<1>4. CASE CommitUnacknowledged(r)
  BY <1>1, <1>4, LeavingStep DEF CommitUnacknowledged, Apply, Tell, Kinds, LedgerTypeOK
<1>5. CASE Rollback(r)
  BY <1>1, <1>5, LeavingStep DEF Rollback, Tell, Kinds, LedgerTypeOK
<1> QED BY <1>2, <1>3, <1>4, <1>5

LEMMA LedgerStep == LedgerInv /\ [LedgerNext]_ledgerVars => LedgerInv'
<1> SUFFICES ASSUME LedgerInv, [LedgerNext]_ledgerVars PROVE LedgerInv'
  OBVIOUS
<1>1. CASE UNCHANGED ledgerVars
  BY <1>1 DEF ledgerVars, LedgerInv, LedgerTypeOK, ConnectionsConserved, Open, InTx,
     TxHoldsItsWrites, WrittenIffAudited, Allowed, AllowedEvent, OpenHaveRaced,
     MissedHaveRaced, Missed, Raced, Retry
<1>2. ASSUME NEW r \in Request, Progress(r) \/ Rollback(r) PROVE LedgerInv'
  BY <1>2, RefuseOrAuthorize, Deny, Enter, Miss, Write, Leave
     DEF Progress, BeforePerform, AfterPerform
<1> QED BY <1>1, <1>2 DEF LedgerNext

\* The inductive invariant of every write command.
THEOREM LedgerIsInvariant == LedgerSafety => []LedgerInv
  BY InitLedger, LedgerStep, PTL DEF LedgerSafety

\* Types, and the pool: each transaction's connection comes back exactly once.
THEOREM LedgerTypesAndPool == LedgerSafety => [](LedgerTypeOK /\ ConnectionsConserved)
<1>1. LedgerInv => LedgerTypeOK /\ ConnectionsConserved
  BY DEF LedgerInv
<1> QED BY <1>1, LedgerIsInvariant, PTL

\* runWriteCommand writes the entity and its one ALLOWED event, or neither.
THEOREM WriteIsAuditedAtomically == LedgerSafety => []WrittenIffAudited
<1>1. LedgerInv => WrittenIffAudited
  BY DEF LedgerInv
<1> QED BY <1>1, LedgerIsInvariant, PTL

\* A key writes two entities only if two of its attempts raced.
THEOREM RetriesWriteOnce == LedgerSafety => []SequentialRetriesWriteOnce
<1>1. LedgerInv => SequentialRetriesWriteOnce
  BY DEF LedgerInv, LedgerTypeOK, MissedHaveRaced, Missed, SequentialRetriesWriteOnce
<1> QED BY <1>1, LedgerIsInvariant, PTL

-----------------------------------------------------------------------------
(* What the clients are told.                                              *)

\* A handler answers once, as its last step.
AnsweredLast == \A r \in Request : pc[r] # "answered" => answer[r] = None
AnswersInv == LedgerInv /\ AnsweredLast /\ AnswersAreTrue

\* What was told stays so when entities and events are only added.
LEMMA AnswersStayTrue ==
  ASSUME AnswersInv, NEW r \in Request,
         rows \subseteq rows', audit \subseteq audit', rows' \subseteq rows \cup {r},
         pc[r] # "answered", pc' \in [Request -> Labels],
         NEW told, told.kind \in Kinds, answer' = [answer EXCEPT ![r] = told],
         \A s \in Request \ {r} : pc'[s] = pc[s],
         pc'[r] # "answered" => told = None,
         told.kind = "created" => r \in rows' /\ told.result = {r},
         told.kind = "replayed" =>
           r \notin rows' /\ \E e \in rows : told.result = {e} /\ Retry(e, r),
         told.kind \in {"refused", "forbidden"} => r \notin rows',
         told.kind = "forbidden" => \E e \in audit' : e.req = r /\ e.outcome = "DENIED"
  PROVE  AnsweredLast' /\ AnswersAreTrue'
<1>1. answer'[r] = told /\ \A s \in Request \ {r} : answer'[s] = answer[s]
  BY DEF AnswersInv, LedgerInv, LedgerTypeOK
<1>2. AnsweredLast'
  BY <1>1 DEF AnswersInv, AnsweredLast
<1>3. ASSUME NEW s \in Request
      PROVE  /\ answer'[s].kind = "created" => s \in rows' /\ answer'[s].result = {s}
             /\ answer'[s].kind = "replayed" =>
                  /\ s \notin rows'
                  /\ \E e \in rows' : answer'[s].result = {e} /\ Retry(e, s)
             /\ answer'[s].kind \in {"refused", "forbidden"} => s \notin rows'
             /\ answer'[s].kind = "forbidden" =>
                  \E e \in audit' : e.req = s /\ e.outcome = "DENIED"
  <2>1. CASE s = r
    BY <1>1, <2>1
  <2>2. CASE s # r
    BY <1>1, <2>2 DEF AnswersInv, AnswersAreTrue
  <2> QED BY <2>1, <2>2
<1>4. AnswersAreTrue'
  BY <1>3 DEF AnswersAreTrue, Retry
<1> QED BY <1>2, <1>4

\* An event that is replayed is that of a committed entity of the same key.
LEMMA ReplayedIsCommitted ==
  ASSUME LedgerInv, NEW r \in Request, pc[r] = "begun", Used(r),
         NEW e \in FindIdempotentReplay(r)
  PROVE  e.req \in rows /\ r \notin rows /\ Retry(e.req, r)
<1>1. /\ e \in audit /\ e.outcome = "ALLOWED" /\ e.req \in Request
      /\ <<e.req.actor, e.req.action, e.req.key>> = <<r.actor, r.action, r.key>>
  BY DEF FindIdempotentReplay, Prior, LedgerInv, LedgerTypeOK, AuditEvent
<1>2. e.req \in rows
  BY <1>1 DEF LedgerInv, WrittenIffAudited, Allowed
<1>3. r \notin rows
  BY DEF LedgerInv, TxHoldsItsWrites
<1> QED BY <1>1, <1>2, <1>3 DEF Used, Retry

LEMMA AnswersStep == AnswersInv /\ [LedgerNext]_ledgerVars => AnswersInv'
<1> SUFFICES ASSUME AnswersInv, [LedgerNext]_ledgerVars PROVE AnswersInv'
  OBVIOUS
<1>1. LedgerInv' /\ LedgerInv /\ LedgerTypeOK /\ LedgerTypeOK'
  BY LedgerStep DEF AnswersInv, LedgerInv
<1>2. CASE UNCHANGED ledgerVars
  BY <1>1, <1>2 DEF ledgerVars, AnswersInv, AnsweredLast, AnswersAreTrue, Retry
<1>3. ASSUME NEW r \in Request, Progress(r) \/ Rollback(r)
      PROVE  AnsweredLast' /\ AnswersAreTrue'
  <2>1. pc[r] # "answered" => r \notin rows /\ answer[r] = None
    BY DEF AnswersInv, AnsweredLast, LedgerInv, TxHoldsItsWrites
  <2>2. pc' \in [Request -> Labels] /\ None.kind = "none" /\ "none" \in Kinds
    BY <1>1 DEF LedgerTypeOK, None, Kinds
  <2>3. CASE Authorize(r) \/ Begin(r) \/ LookupMisses(r) \/ Perform(r) \/ AppendAudit(r)
    <3>1. /\ pc[r] # "answered" /\ UNCHANGED <<rows, audit, answer>>
          /\ \E label \in Labels \ {"answered"} : Goto(r, label)
      BY <2>3 DEF Authorize, Begin, LookupMisses, Perform, AppendAudit, Labels, InTxLabels
    <3>2. answer' = [answer EXCEPT ![r] = None]
      BY <2>1, <3>1, <1>1 DEF LedgerTypeOK
    <3>3. pc'[r] # "answered" /\ \A s \in Request \ {r} : pc'[s] = pc[s]
      BY <3>1, <1>1 DEF Goto, LedgerTypeOK
    <3> QED BY <2>2, <3>1, <3>2, <3>3, AnswersStayTrue
  <2>4. ASSUME NEW kind \in Kinds, NEW result, Tell(r, kind, result), pc[r] # "answered",
               rows \subseteq rows', audit \subseteq audit', rows' \subseteq rows \cup {r},
               kind = "created" => r \in rows' /\ result = {r},
               kind = "replayed" =>
                 r \notin rows' /\ \E e \in rows : result = {e} /\ Retry(e, r),
               kind \in {"refused", "forbidden"} => r \notin rows',
               kind = "forbidden" => \E e \in audit' : e.req = r /\ e.outcome = "DENIED"
        PROVE  AnsweredLast' /\ AnswersAreTrue'
    <3> DEFINE told == [kind |-> kind, result |-> result]
    <3>1. told.kind = kind /\ told.result = result /\ answer' = [answer EXCEPT ![r] = told]
      BY <2>4 DEF Tell
    <3>2. pc'[r] = "answered" /\ \A s \in Request \ {r} : pc'[s] = pc[s]
      BY <2>4, <1>1 DEF Tell, Goto, LedgerTypeOK
    <3> HIDE DEF told
    <3> QED BY <2>2, <2>4, <3>1, <3>2, AnswersStayTrue
  <2>5. CASE Refuse(r)
    <3>1. Tell(r, "refused", {}) /\ pc[r] # "answered" /\ UNCHANGED <<rows, audit>>
      BY <2>5 DEF Refuse
    <3> QED BY <2>1, <2>4, <3>1 DEF Kinds
  <2>6. CASE RecordDenied(r)
    <3>1. /\ Tell(r, "forbidden", {}) /\ pc[r] # "answered" /\ UNCHANGED rows
          /\ audit' = audit \cup {DeniedEvent(r)}
      BY <2>6 DEF RecordDenied
    <3>2. DeniedEvent(r).req = r /\ DeniedEvent(r).outcome = "DENIED"
      BY DEF DeniedEvent
    <3> QED BY <2>1, <2>4, <3>1, <3>2 DEF Kinds
  <2>7. CASE RecordDeniedFails(r) \/ Rollback(r)
    <3>1. Tell(r, "error", {}) /\ pc[r] # "answered" /\ UNCHANGED <<rows, audit>>
      BY <2>7 DEF RecordDeniedFails, Rollback, InTx, InTxLabels
    <3> QED BY <2>4, <3>1 DEF Kinds
  <2>8. CASE Replay(r)
    <3>1. PICK e \in FindIdempotentReplay(r) : Tell(r, "replayed", {e.req})
      BY <2>8 DEF Replay
    <3>2. pc[r] = "begun" /\ Used(r) /\ UNCHANGED <<rows, audit>>
      BY <2>8 DEF Replay
    <3>3. e.req \in rows /\ r \notin rows /\ Retry(e.req, r)
      BY <1>1, <3>2, ReplayedIsCommitted
    <3> QED BY <2>4, <3>1, <3>2, <3>3 DEF Kinds
  <2>9. CASE Commit(r) \/ CommitUnacknowledged(r)
    <3>1. /\ pc[r] = "audited" /\ rows' = rows \cup tx[r].rows /\ audit \subseteq audit'
          /\ \/ Tell(r, "created", {r})
             \/ Tell(r, "error", {})
      BY <2>9 DEF Commit, CommitUnacknowledged, Apply
    <3>2. tx[r].rows = {r}
      BY <3>1, <1>1 DEF LedgerInv, TxHoldsItsWrites
    <3> QED BY <2>4, <3>1, <3>2 DEF Kinds
  <2> QED BY <1>3, <2>3, <2>5, <2>6, <2>7, <2>8, <2>9
          DEF Progress, BeforePerform, AfterPerform
<1> QED BY <1>1, <1>2, <1>3 DEF LedgerNext, AnswersInv

LEMMA AnswersIsInvariant == LedgerSafety => []AnswersInv
<1>1. LedgerInit => AnswersInv
  <2> SUFFICES ASSUME LedgerInit PROVE AnswersInv
    OBVIOUS
  <2>1. \A r \in Request : answer[r] = None
    BY DEF LedgerInit
  <2> QED BY <2>1, InitLedger DEF AnswersInv, AnsweredLast, AnswersAreTrue, None
<1> QED BY <1>1, AnswersStep, PTL DEF LedgerSafety

\* A 201 is committed, a replay is an entity of the same actor, action and key, and a
\* 403 has left its DENIED event.
THEOREM NoAnswerLies == LedgerSafety => []AnswersAreTrue
<1>1. AnswersInv => AnswersAreTrue
  BY DEF AnswersInv
<1> QED BY <1>1, AnswersIsInvariant, PTL

\* A key whose attempts never raced has one entity, and whoever succeeds is told of
\* it: by answering what is true, two of them could only disagree by having raced.
THEOREM RetriesAgree == LedgerSafety => []SequentialRetriesAgree
<1>1. AnswersInv => SequentialRetriesAgree
  <2> SUFFICES ASSUME AnswersInv, NEW r \in rows, NEW s \in Request,
                      Retry(r, s), NeverRaced(r), Succeeded(s)
               PROVE  answer[s].result = {r}
    BY DEF SequentialRetriesAgree
  <2>1. r \in Request /\ rows \subseteq Request
    BY DEF AnswersInv, LedgerInv, LedgerTypeOK
  <2>2. \A t \in rows : ~Retry(r, t)
    BY <2>1 DEF AnswersInv, LedgerInv, MissedHaveRaced, Missed, NeverRaced
  <2>3. s \notin rows
    BY <2>2
  <2>4. PICK e \in rows : answer[s].result = {e} /\ Retry(e, s)
    BY <2>3 DEF AnswersInv, AnswersAreTrue, Succeeded
  <2>5. e # r => Retry(r, e)
    BY <2>4 DEF Retry
  <2> QED BY <2>2, <2>4, <2>5
<1> QED BY <1>1, AnswersIsInvariant, PTL
=============================================================================
