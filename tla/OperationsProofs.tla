-------------------------- MODULE OperationsProofs --------------------------
(***************************************************************************)
(* Proofs about what operators rely on.  First ProviderLedger, for every   *)
(* set of calls and drains and every width of the columns: whom the        *)
(* provider may run twice for, that the ledger agrees with what the        *)
(* callers were told, and that what was drained is durable.  Then Releases *)
(* with Databases, for every set of scripts that meet on a server, every   *)
(* plan of theirs and any number of migrations: what a migrator leaves,    *)
(* what readiness says of a database, that audits of the same names do not *)
(* use each other's databases, and that a restore leaves the dump.         *)
(***************************************************************************)
EXTENDS ProviderLedger, Releases, TLAPS


Row ==
  [by: Call, key: {c.key : c \in Call}, project: {c.project : c \in Call},
   outcome: Answers, prompt: Nat, completion: Nat, total: Nat]

\* A call is answered once, when it is over, and posts one attempt or two.
CallsInOrder ==
  \A c \in Call :
    /\ pc[c] = "unsent" => attempt[c] = 0
    /\ pc[c] \in {"post", "body"} =>
         attempt[c] \in {1, 2} /\ c.wellFormed /\ c.adapter = "network"
    /\ pc[c] = "body" => reply[c][attempt[c]] \in Status
    /\ pc[c] # "returned" => answer[c] = "none" /\ write[c] = "none"

\* What a status says of the model is so: it has run behind a 2xx, and never does
\* for a request that was turned away.
RepliesAreTrue ==
  \A c \in Call :
    /\ served[c] \subseteq 1..attempt[c]
    /\ \A n \in 1..2 : /\ reply[c][n] \in TurnedAway => n \notin served[c]
                       /\ reply[c][n] = "2xx" => n \in served[c]

RetriedWhenRetryable == \A c \in Call : attempt[c] = 2 => reply[c][1] \in {"429", "5xx"}

ContentWasMade ==
  \A c \in Call : answer[c] = "CONTENT" /\ c.adapter = "network" => attempt[c] \in served[c]

\* What is recorded of a call is its answer ...
RecordsAreAnswers ==
  \A c \in Call : write[c] # "none" =>
    /\ record[c].by = c /\ record[c].outcome = answer[c]
    /\ answer[c] # "CONTENT" => record[c].total = 0
    /\ c.wellFormed /\ c.adapter = "network"

\* ... and what is in the ledger was recorded.
RowsAreRecords ==
  \A row \in rows :
    /\ row.by \in Call /\ write[row.by] # "none" /\ row = record[row.by]
    /\ row.project \in Project

OneRowPerKey == \A r1, r2 \in rows : r1.key = r2.key => r1 = r2

ProviderInv ==
  /\ TypeOK
  /\ record \in [Call -> Row]
  /\ CallsInOrder
  /\ RepliesAreTrue
  /\ RetriedWhenRetryable
  /\ ContentWasMade
  /\ RecordsAreAnswers
  /\ RowsAreRecords
  /\ OneRowPerKey

-----------------------------------------------------------------------------
LEMMA InitProvider == Init => ProviderInv
<1> SUFFICES ASSUME Init PROVE ProviderInv
  OBVIOUS
<1> USE DEF Init
<1>1. TypeOK
  BY DEF TypeOK, Answers, Status
<1>2. record \in [Call -> Row]
  BY DEF Record, Row, Answers
<1>3. CallsInOrder /\ RepliesAreTrue /\ RetriedWhenRetryable
  BY DEF CallsInOrder, RepliesAreTrue, RetriedWhenRetryable, TurnedAway
<1>4. ContentWasMade /\ RecordsAreAnswers /\ RowsAreRecords /\ OneRowPerKey
  BY DEF ContentWasMade, RecordsAreAnswers, RowsAreRecords, OneRowPerKey
<1> QED BY <1>1, <1>2, <1>3, <1>4 DEF ProviderInv

-----------------------------------------------------------------------------
(* The ends of an attempt.                                                 *)

\* A request is posted: the first of a call, or the second after a refusal.
LEMMA PostKeeps ==
  ASSUME ProviderInv, NEW c \in Call, Post(c), c.wellFormed, c.adapter = "network",
         \/ pc[c] = "unsent"
         \/ pc[c] = "body" /\ attempt[c] = 1 /\ reply[c][1] \in {"429", "5xx"},
         UNCHANGED <<up, reply, served, rows, drainVars>>
  PROVE  ProviderInv'
<1> USE DEF ProviderInv, Post
<1>1. attempt[c] \in {0, 1} /\ attempt' = [attempt EXCEPT ![c] = attempt[c] + 1]
  BY DEF CallsInOrder
<1>2. TypeOK' /\ (record \in [Call -> Row])'
  BY <1>1 DEF TypeOK, drainVars
<1>3. CallsInOrder'
  BY <1>1 DEF CallsInOrder, TypeOK
<1>4. RepliesAreTrue'
  <2> SUFFICES ASSUME NEW d \in Call PROVE served[d] \subseteq 1..attempt'[d]
    BY DEF RepliesAreTrue
  <2> QED BY <1>1 DEF RepliesAreTrue, TypeOK
<1>5. RetriedWhenRetryable'
  BY <1>1 DEF RetriedWhenRetryable, TypeOK, CallsInOrder
<1>6. ContentWasMade'
  BY <1>1 DEF ContentWasMade, CallsInOrder, TypeOK
<1>7. RecordsAreAnswers' /\ RowsAreRecords' /\ OneRowPerKey'
  BY DEF RecordsAreAnswers, RowsAreRecords, OneRowPerKey
<1> QED BY <1>2, <1>3, <1>4, <1>5, <1>6, <1>7

\* A call returns and its execution is enqueued.
LEMMA FinishKeeps ==
  ASSUME ProviderInv, NEW c \in Call, NEW what \in Answers \ {"none"},
         NEW prompt \in Nat, NEW completion \in Nat,
         Return(c, what), Enqueue(c, Record(c, what, prompt, completion)),
         c.wellFormed, c.adapter = "network", pc[c] # "returned",
         what = "CONTENT" => attempt[c] \in served[c],
         what # "CONTENT" => prompt = 0 /\ completion = 0,
         UNCHANGED <<attempt, up, reply, served, rows, drainVars>>
  PROVE  ProviderInv'
<1> DEFINE end == Record(c, what, prompt, completion)
<1> USE DEF ProviderInv
<1>0. /\ pc' = [pc EXCEPT ![c] = "returned"] /\ answer' = [answer EXCEPT ![c] = what]
      /\ write' = [write EXCEPT ![c] = "insert"] /\ record' = [record EXCEPT ![c] = end]
      /\ pending' = pending \cup {c}
  BY DEF Return, Enqueue
<1>1. /\ end \in Row /\ end.by = c /\ end.outcome = what
      /\ what # "CONTENT" => end.total = 0
  BY DEF Record, Row
<1>2. write[c] = "none" /\ \A row \in rows : row.by # c
  BY DEF CallsInOrder, RowsAreRecords
<1> HIDE DEF end
<1>3. (record \in [Call -> Row])'
  BY <1>0, <1>1
<1>4. /\ record'[c] = end
      /\ \A d \in Call \ {c} : record'[d] = record[d] /\ write'[d] = write[d]
                               /\ answer'[d] = answer[d] /\ pc'[d] = pc[d]
      /\ write'[c] = "insert" /\ answer'[c] = what /\ pc'[c] = "returned"
  BY <1>0 DEF TypeOK
<1>5. RowsAreRecords' /\ OneRowPerKey'
  BY <1>2, <1>4 DEF RowsAreRecords, OneRowPerKey
<1>6. TypeOK'
  <2>1. rows' \subseteq {record'[d] : d \in Call}
    BY <1>5 DEF RowsAreRecords
  <2> QED BY <1>0, <2>1 DEF TypeOK, drainVars
<1>7. CallsInOrder' /\ RepliesAreTrue' /\ RetriedWhenRetryable' /\ ContentWasMade'
  BY <1>4 DEF CallsInOrder, RepliesAreTrue, RetriedWhenRetryable, ContentWasMade
<1>8. RecordsAreAnswers'
  BY <1>1, <1>4 DEF RecordsAreAnswers
<1> QED BY <1>3, <1>5, <1>6, <1>7, <1>8

LEMMA EndAttemptKeeps ==
  ASSUME ProviderInv, NEW c \in Call, NEW code \in Errors, NEW s,
         EndAttempt(c, code, s), pc[c] \in {"post", "body"},
         Retryable(code, s) => pc[c] = "body" /\ s \in {"429", "5xx"} /\ s = reply[c][attempt[c]],
         UNCHANGED <<up, reply, served, rows, drainVars>>
  PROVE  ProviderInv'
<1>1. c.wellFormed /\ c.adapter = "network"
  BY DEF ProviderInv, CallsInOrder
<1>2. CASE Retryable(code, s) /\ attempt[c] = 1
  BY <1>1, <1>2, PostKeeps DEF EndAttempt
<1>3. CASE ~(Retryable(code, s) /\ attempt[c] = 1)
  <2>1. Return(c, code) /\ Enqueue(c, Record(c, code, 0, 0)) /\ UNCHANGED attempt
    BY <1>3 DEF EndAttempt, FinishError
  <2>2. code \in Answers \ {"none"} /\ code # "CONTENT" /\ pc[c] # "returned"
    BY DEF Answers, Errors
  <2> QED BY <1>1, <2>1, <2>2, FinishKeeps
<1> QED BY <1>2, <1>3

LEMMA SettleKeeps ==
  ASSUME ProviderInv, NEW c \in Call, NEW body \in Bodies, Settle(c, body), pc[c] = "body"
  PROVE  ProviderInv'
<1> DEFINE s == Current(c)
<1>1. s \in Status /\ s = reply[c][attempt[c]] /\ attempt[c] \in {1, 2}
  BY DEF Current, ProviderInv, CallsInOrder
<1>2. UNCHANGED <<up, reply, served, rows, drainVars>>
  BY DEF Settle
<1>3. ASSUME NEW code \in Classify(s, body), EndAttempt(c, code, s)
      PROVE  ProviderInv'
  <2>1. code \in Errors /\ (Retryable(code, s) => s \in {"429", "5xx"})
    BY <1>1 DEF Classify, ContentErrors, Errors, Retryable, Status
  <2> QED BY <1>1, <1>2, <1>3, <2>1, EndAttemptKeeps
<1>4. ASSUME Classify(s, body) = {}, UNCHANGED attempt,
             NEW prompt \in Tokens, NEW completion \in Tokens,
             FinishSuccess(c, prompt, completion)
      PROVE  ProviderInv'
  <2>1. s = "2xx"
    BY <1>1, <1>4 DEF Classify, ContentErrors, Status
  <2>2. attempt[c] \in served[c]
    <3>1. attempt[c] \in 1..2 /\ reply[c][attempt[c]] = "2xx"
      BY <1>1, <2>1
    <3> QED BY <3>1 DEF ProviderInv, RepliesAreTrue
  <2>3. c.wellFormed /\ c.adapter = "network"
    BY DEF ProviderInv, CallsInOrder
  <2>4. /\ Return(c, "CONTENT") /\ Enqueue(c, Record(c, "CONTENT", prompt, completion))
        /\ "CONTENT" \in Answers \ {"none"} /\ prompt \in Nat /\ completion \in Nat
    BY <1>4, TokensAssumption DEF FinishSuccess, Answers
  <2> QED BY <1>2, <1>4, <2>2, <2>3, <2>4, FinishKeeps
<1> QED BY <1>3, <1>4 DEF Settle

-----------------------------------------------------------------------------
(* The steps of a call.                                                    *)

LEMMA StartKeeps ==
  ASSUME ProviderInv, NEW c \in Call, AnswerAtOnce(c) \/ Generate(c)
  PROVE  ProviderInv'
<1>1. CASE AnswerAtOnce(c)
  <2> USE <1>1 DEF ProviderInv, AnswerAtOnce, Unsent, Return
  <2>1. PICK what \in {"CONTRACT_INVALID", "CONTENT"} :
          /\ pc' = [pc EXCEPT ![c] = "returned"] /\ answer' = [answer EXCEPT ![c] = what]
          /\ what = "CONTENT" => c.adapter = "offline"
    OBVIOUS
  <2>2. write[c] = "none" /\ pc[c] = "unsent"
    BY DEF CallsInOrder
  <2>3. TypeOK' /\ (record \in [Call -> Row])'
    BY <2>1 DEF TypeOK, drainVars, Answers, Errors
  <2>4. CallsInOrder' /\ RepliesAreTrue' /\ RetriedWhenRetryable'
    BY <2>1 DEF CallsInOrder, RepliesAreTrue, RetriedWhenRetryable, TypeOK
  <2>5. ContentWasMade'
    BY <2>1 DEF ContentWasMade, TypeOK
  <2>6. RecordsAreAnswers' /\ RowsAreRecords' /\ OneRowPerKey'
    BY <2>1, <2>2 DEF RecordsAreAnswers, RowsAreRecords, OneRowPerKey, TypeOK
  <2> QED BY <2>3, <2>4, <2>5, <2>6
<1>2. CASE Generate(c)
  <2>1. /\ pc[c] = "unsent" /\ c.wellFormed /\ c.adapter = "network"
        /\ UNCHANGED <<up, reply, served, rows, drainVars>>
    BY <1>2 DEF Generate, Unsent, Valid
  <2>2. CASE Post(c)
    BY <2>1, <2>2, PostKeeps
  <2>3. ASSUME NEW code \in Refusals(c), FinishError(c, code), UNCHANGED attempt
        PROVE  ProviderInv'
    <3>1. code \in Answers \ {"none"} /\ code # "CONTENT"
      BY DEF Refusals, Answers, Errors
    <3> QED BY <2>1, <2>3, <3>1, FinishKeeps DEF FinishError
  <2> QED BY <1>2, <2>2, <2>3 DEF Generate
<1> QED BY <1>1, <1>2

LEMMA NetworkKeeps ==
  ASSUME ProviderInv, NEW c \in Call, Serve(c) \/ Headers(c)
  PROVE  ProviderInv'
<1> USE DEF ProviderInv
<1>1. CASE Serve(c)
  <2>1. PICK n \in 1..attempt[c] : /\ reply[c][n] \notin TurnedAway
                                   /\ served' = [served EXCEPT ![c] = served[c] \cup {n}]
    BY <1>1 DEF Serve
  <2>2. UNCHANGED <<up, pc, attempt, reply, answer, write, record, rows, pending, drainVars>>
    BY <1>1 DEF Serve
  <2>3. attempt[c] \in 0..2 /\ n \in 1..2
    BY DEF TypeOK
  <2>4. TypeOK' /\ (record \in [Call -> Row])'
    BY <2>1, <2>2, <2>3 DEF TypeOK, drainVars
  <2>5. RepliesAreTrue'
    BY <2>1, <2>2, <2>3 DEF RepliesAreTrue, TypeOK
  <2>6. ContentWasMade' /\ CallsInOrder' /\ RetriedWhenRetryable'
    BY <2>1, <2>2 DEF ContentWasMade, CallsInOrder, RetriedWhenRetryable, TypeOK
  <2>7. RecordsAreAnswers' /\ RowsAreRecords' /\ OneRowPerKey'
    BY <2>2 DEF RecordsAreAnswers, RowsAreRecords, OneRowPerKey
  <2> QED BY <2>4, <2>5, <2>6, <2>7
<1>2. CASE Headers(c)
  <2>1. PICK s \in Status : /\ s = "2xx" => attempt[c] \in served[c]
                            /\ s \in TurnedAway => attempt[c] \notin served[c]
                            /\ reply' = [reply EXCEPT ![c][attempt[c]] = s]
    BY <1>2 DEF Headers
  <2>2. /\ pc[c] = "post" /\ pc' = [pc EXCEPT ![c] = "body"]
        /\ UNCHANGED <<up, attempt, served, answer, write, record, rows, pending, drainVars>>
    BY <1>2 DEF Headers
  <2>3. attempt[c] \in {1, 2}
    BY <2>2 DEF CallsInOrder
  <2>4. TypeOK' /\ (record \in [Call -> Row])'
    BY <2>1, <2>2, <2>3 DEF TypeOK, drainVars
  <2>5. CallsInOrder'
    BY <2>1, <2>2, <2>3 DEF CallsInOrder, TypeOK
  <2>6. RepliesAreTrue'
    BY <2>1, <2>2, <2>3 DEF RepliesAreTrue, TypeOK
  <2>7. RetriedWhenRetryable'
    BY <2>1, <2>2, <2>3 DEF RetriedWhenRetryable, TypeOK
  <2>8. ContentWasMade' /\ RecordsAreAnswers' /\ RowsAreRecords' /\ OneRowPerKey'
    BY <2>2 DEF ContentWasMade, RecordsAreAnswers, RowsAreRecords, OneRowPerKey
  <2> QED BY <2>4, <2>5, <2>6, <2>7, <2>8
<1> QED BY <1>1, <1>2

LEMMA EndKeeps ==
  ASSUME ProviderInv, NEW c \in Call, Body(c) \/ Abort(c) \/ Disconnect(c)
  PROVE  ProviderInv'
<1>1. CASE pc[c] = "body" /\ \E body \in Bodies : Settle(c, body)
  BY <1>1, SettleKeeps
<1>2. ASSUME NEW code \in {"TIMEOUT", "UNAVAILABLE"}, TransportError(c, code)
      PROVE  ProviderInv'
  <2>1. code \in Errors /\ ~Retryable(code, "none")
    BY DEF Errors, Retryable
  <2> QED BY <1>2, <2>1, EndAttemptKeeps DEF TransportError
<1> QED BY <1>1, <1>2 DEF Body, Abort, Disconnect, Bodies, NoText

-----------------------------------------------------------------------------
(* The ledger's steps and the drains leave the calls alone.                *)

\* A row that is added is the record of a call whose key has none.
LEMMA LedgerKeeps ==
  ASSUME ProviderInv, NEW c \in Call, RecordExecution(c) \/ StatementFails(c)
  PROVE  ProviderInv'
<1> USE DEF ProviderInv
<1>1. /\ write[c] \in {"insert", "count"} /\ write'[c] # "none"
      /\ \E w \in {"count", "resolved", "rejected"} : write' = [write EXCEPT ![c] = w]
      /\ up' \in BOOLEAN
      /\ UNCHANGED <<callVars, record, pending, drainVars>>
  BY DEF RecordExecution, Insert, InsertTooWide, Count, Reject, StatementFails, TypeOK
<1>2. \/ rows' = rows
      \/ /\ rows' = rows \cup {record[c]}
         /\ record[c].project \in Project
         /\ RowOf(record[c].key) = {}
  BY DEF RecordExecution, Insert, InsertTooWide, Count, Reject, StatementFails
<1>3. TypeOK' /\ (record \in [Call -> Row])'
  BY <1>1, <1>2 DEF TypeOK, callVars, drainVars
<1>4. CallsInOrder'
  BY <1>1 DEF CallsInOrder, TypeOK, callVars
<1>5. RepliesAreTrue' /\ RetriedWhenRetryable' /\ ContentWasMade'
  BY <1>1 DEF RepliesAreTrue, RetriedWhenRetryable, ContentWasMade, callVars
<1>6. RecordsAreAnswers'
  BY <1>1 DEF RecordsAreAnswers, TypeOK, callVars
<1>7. RowsAreRecords'
  BY <1>1, <1>2 DEF RowsAreRecords, RecordsAreAnswers, TypeOK
<1>8. OneRowPerKey'
  BY <1>2 DEF OneRowPerKey, RowOf
<1> QED BY <1>3, <1>4, <1>5, <1>6, <1>7, <1>8

LEMMA OtherKeeps ==
  ASSUME ProviderInv,
         \/ \E d \in Drain : StartDrain(d) \/ EndDrain(d)
         \/ Crash \/ UNCHANGED vars
  PROVE  ProviderInv'
<1> USE DEF ProviderInv
<1>1. UNCHANGED <<callVars, write, record, rows>>
  BY DEF StartDrain, EndDrain, Crash, vars
<1>2. TypeOK'
  <2>1. CASE \E d \in Drain : StartDrain(d)
    <3>1. PICK d \in Drain : StartDrain(d)
      BY <2>1
    <3>2. /\ drain' \in [Drain -> {"idle", "waiting", "resolved", "rejected"}]
          /\ taken' \in [Drain -> SUBSET Call] /\ pending' \subseteq Call
      BY <3>1 DEF StartDrain, TypeOK
    <3>3. PICK promised \in SUBSET Call : owed' = [owed EXCEPT ![d] = promised]
      BY <3>1 DEF StartDrain
    <3>4. owed' \in [Drain -> SUBSET Call]
      BY <3>3 DEF TypeOK
    <3>5. up' = up
      BY <3>1 DEF StartDrain
    <3> QED BY <1>1, <3>2, <3>4, <3>5 DEF TypeOK, callVars
  <2>2. CASE \E d \in Drain : EndDrain(d)
    <3>1. PICK d \in Drain : EndDrain(d)
      BY <2>2
    <3>2. \E v \in {"resolved", "rejected"} : drain' = [drain EXCEPT ![d] = v]
      BY <3>1 DEF EndDrain
    <3>3. drain' \in [Drain -> {"idle", "waiting", "resolved", "rejected"}]
      BY <3>2 DEF TypeOK
    <3>4. UNCHANGED <<up, pending, taken, owed>>
      BY <3>1 DEF EndDrain
    <3> QED BY <1>1, <3>3, <3>4 DEF TypeOK, callVars
  <2>3. CASE Crash \/ UNCHANGED vars
    BY <1>1, <2>3 DEF TypeOK, callVars, drainVars, vars, Crash
  <2> QED BY <2>1, <2>2, <2>3
<1>3. (record \in [Call -> Row])'
  BY <1>1
<1>4. CallsInOrder' /\ RepliesAreTrue' /\ RetriedWhenRetryable' /\ ContentWasMade'
  BY <1>1 DEF CallsInOrder, RepliesAreTrue, RetriedWhenRetryable, ContentWasMade, callVars
<1>5. RecordsAreAnswers' /\ RowsAreRecords' /\ OneRowPerKey'
  BY <1>1 DEF RecordsAreAnswers, RowsAreRecords, OneRowPerKey, callVars
<1> QED BY <1>2, <1>3, <1>4, <1>5

LEMMA ProviderStep == ProviderInv /\ [Next]_vars => ProviderInv'
<1> SUFFICES ASSUME ProviderInv, [Next]_vars PROVE ProviderInv'
  OBVIOUS
<1>1. ASSUME NEW c \in Call, CallStep(c) PROVE ProviderInv'
  BY <1>1, StartKeeps, NetworkKeeps, EndKeeps, LedgerKeeps DEF CallStep
<1> QED BY <1>1, OtherKeeps DEF Next, Idle

\* The inductive invariant of the adapter and its ledger.
THEOREM ProviderIsInvariant == Spec => []ProviderInv
<1> QED BY InitProvider, ProviderStep, PTL DEF Spec

\* The model is run twice for one call only behind a gateway's 5xx
\* (openai-compatible-adapter.ts, "only on a retryable class"): a first request that
\* timed out is the last, and one that was turned away is never run.
THEOREM NoSecondBillAfterTimeout == Spec => []PaidTwiceOnlyAfterServerError
<1>1. ProviderInv => PaidTwiceOnlyAfterServerError
  <2> SUFFICES ASSUME ProviderInv, NEW c \in Call, served[c] = {1, 2}
               PROVE  reply[c][1] = "5xx"
    BY DEF PaidTwiceOnlyAfterServerError
  <2>1. attempt[c] = 2
    <3>1. attempt[c] \in 0..2 /\ 2 \in 1..attempt[c]
      BY DEF ProviderInv, RepliesAreTrue, TypeOK
    <3> QED BY <3>1
  <2>2. reply[c][1] # "429"
    BY DEF ProviderInv, RepliesAreTrue, TurnedAway
  <2> QED BY <2>1, <2>2 DEF ProviderInv, RetriedWhenRetryable
<1> QED BY <1>1, ProviderIsInvariant, PTL

\* A row of provider_execution is the end of its call as the caller got it, an
\* article was made by the provider, and a key has one row.
THEOREM LedgerTellsTheTruth == Spec => []LedgerAgreesWithAnswers
<1>1. ProviderInv => LedgerAgreesWithAnswers
  BY DEF ProviderInv, LedgerAgreesWithAnswers, ContentWasMade, RecordsAreAnswers,
         RowsAreRecords, OneRowPerKey
<1> QED BY <1>1, ProviderIsInvariant, PTL

-----------------------------------------------------------------------------
(* The drains.                                                             *)

\* What was enqueued is pending or some drain's; a drain that is promised a write
\* has taken it, or finds it resolved.
EnqueuedIsHeld ==
  \A c \in Call : write[c] # "none" => c \in pending \/ \E e \in Drain : c \in taken[e]
IdleHasTakenNothing == \A e \in Drain : drain[e] = "idle" => taken[e] = {}
ResolvedHasWaited ==
  \A e \in Drain : drain[e] = "resolved" => \A c \in taken[e] : write[c] = "resolved"
ResolvedHasRow == \A c \in Call : write[c] = "resolved" => RowOf(record[c].key) # {}
OwedIsTaken == \A e \in Drain : \A c \in owed[e] : c \in taken[e] \/ write[c] = "resolved"

DrainInv ==
  /\ ProviderInv
  /\ EnqueuedIsHeld
  /\ IdleHasTakenNothing
  /\ ResolvedHasWaited
  /\ ResolvedHasRow
  /\ OwedIsTaken

LEMMA InitDrains == Init => DrainInv
BY InitProvider DEF Init, DrainInv, EnqueuedIsHeld, IdleHasTakenNothing, ResolvedHasWaited,
   ResolvedHasRow, OwedIsTaken

\* The adapter leaves the drains alone; what it enqueues was not recorded before.
LEMMA EndAttemptEnqueues ==
  ASSUME NEW c \in Call, NEW code, NEW s, EndAttempt(c, code, s)
  PROVE  UNCHANGED <<write, record, pending>> \/ \E row : Enqueue(c, row)
BY DEF EndAttempt, Post, FinishError

LEMMA SettleEnqueues ==
  ASSUME NEW c \in Call, NEW body, Settle(c, body)
  PROVE  UNCHANGED <<write, record, pending>> \/ \E row : Enqueue(c, row)
BY EndAttemptEnqueues DEF Settle, FinishSuccess

LEMMA AdapterEnqueues ==
  ASSUME NEW c \in Call,
         \/ AnswerAtOnce(c) \/ Generate(c) \/ Serve(c) \/ Headers(c)
         \/ Body(c) \/ Abort(c) \/ Disconnect(c)
  PROVE  /\ UNCHANGED <<rows, drainVars>>
         /\ \/ UNCHANGED <<write, record, pending>>
            \/ pc[c] # "returned" /\ \E row : Enqueue(c, row)
<1>1. CASE AnswerAtOnce(c) \/ Serve(c) \/ Headers(c)
  BY <1>1 DEF AnswerAtOnce, Serve, Headers
<1>2. CASE Generate(c)
  BY <1>2 DEF Generate, Unsent, Post, FinishError
<1>3. CASE pc[c] = "body" /\ \E body \in Bodies : Settle(c, body)
  BY <1>3, SettleEnqueues DEF Settle
<1>4. CASE \E code \in {"TIMEOUT", "UNAVAILABLE"} : TransportError(c, code)
  BY <1>4, EndAttemptEnqueues DEF TransportError
<1> QED BY <1>1, <1>2, <1>3, <1>4 DEF Body, Abort, Disconnect, Bodies, NoText

LEMMA AdapterKeepsDrains ==
  ASSUME DrainInv, ProviderInv', NEW c \in Call,
         \/ AnswerAtOnce(c) \/ Generate(c) \/ Serve(c) \/ Headers(c)
         \/ Body(c) \/ Abort(c) \/ Disconnect(c)
  PROVE  DrainInv'
<1>1. UNCHANGED <<rows, drain, taken, owed>>
  BY AdapterEnqueues DEF drainVars
<1>2. CASE UNCHANGED <<write, record, pending>>
  BY <1>1, <1>2 DEF DrainInv, EnqueuedIsHeld, IdleHasTakenNothing, ResolvedHasWaited,
     ResolvedHasRow, OwedIsTaken, RowOf
<1>3. ASSUME NEW row, Enqueue(c, row), pc[c] # "returned" PROVE DrainInv'
  <2>1. /\ write' = [write EXCEPT ![c] = "insert"] /\ record' = [record EXCEPT ![c] = row]
        /\ pending' = pending \cup {c}
    BY <1>3 DEF Enqueue
  <2>2. /\ write[c] = "none" /\ write'[c] = "insert"
        /\ \A d \in Call \ {c} : write'[d] = write[d] /\ record'[d] = record[d]
    BY <1>3, <2>1 DEF DrainInv, ProviderInv, CallsInOrder, TypeOK
  <2>3. \A d \in Call : write[d] = "resolved" => write'[d] = "resolved"
    BY <2>2
  <2>4. EnqueuedIsHeld' /\ IdleHasTakenNothing'
    BY <1>1, <2>1, <2>2 DEF DrainInv, EnqueuedIsHeld, IdleHasTakenNothing
  <2>5. ResolvedHasRow'
    BY <1>1, <2>2 DEF DrainInv, ResolvedHasRow, RowOf
  <2>6. ResolvedHasWaited' /\ OwedIsTaken'
    BY <1>1, <2>3 DEF DrainInv, ProviderInv, TypeOK, ResolvedHasWaited, OwedIsTaken
  <2> QED BY <2>4, <2>5, <2>6 DEF DrainInv
<1> QED BY <1>2, <1>3, AdapterEnqueues

\* A write resolves on its row, or on the one its key has already.
LEMMA LedgerKeepsDrains ==
  ASSUME DrainInv, ProviderInv', NEW c \in Call, RecordExecution(c) \/ StatementFails(c)
  PROVE  DrainInv'
<1>1. UNCHANGED <<record, pending, drain, taken, owed>>
  BY DEF RecordExecution, Insert, InsertTooWide, Count, StatementFails, drainVars
<1>2. /\ write[c] \in {"insert", "count"} /\ rows \subseteq rows'
      /\ \E w \in {"count", "rejected", "resolved"} : write' = [write EXCEPT ![c] = w]
  BY DEF RecordExecution, Insert, InsertTooWide, Count, Reject, StatementFails
<1>3. \A d \in Call \ {c} : write'[d] = write[d]
  BY <1>2 DEF DrainInv, ProviderInv, TypeOK
<1>4. write[c] # "none" /\ write[c] # "resolved"
  BY <1>2
<1>5. write'[c] = "resolved" => RowOf(record[c].key)' # {}
  <2> SUFFICES ASSUME write'[c] = "resolved" PROVE RowOf(record[c].key)' # {}
    OBVIOUS
  <2>0. write \in [Call -> {"none", "insert", "count", "resolved", "rejected"}]
    BY DEF DrainInv, ProviderInv, TypeOK
  <2>1. CASE Insert(c)
    <3>1. rows' = rows \cup {record[c]}
      BY <2>0, <2>1 DEF Insert
    <3> QED BY <1>1, <3>1 DEF RowOf
  <2>2. CASE Count(c)
    <3>1. RowOf(record[c].key) # {}
      BY <2>0, <2>2 DEF Count, Reject
    <3> QED BY <1>1, <1>2, <3>1 DEF RowOf
  <2>3. CASE InsertTooWide(c) \/ StatementFails(c)
    BY <2>0, <2>3 DEF InsertTooWide, StatementFails, Reject
  <2> QED BY <2>1, <2>2, <2>3 DEF RecordExecution
<1>6. ResolvedHasRow'
  BY <1>1, <1>2, <1>3, <1>5 DEF DrainInv, ResolvedHasRow, RowOf
<1>7. EnqueuedIsHeld' /\ IdleHasTakenNothing'
  BY <1>1, <1>3, <1>4 DEF DrainInv, EnqueuedIsHeld, IdleHasTakenNothing
<1>8. ResolvedHasWaited' /\ OwedIsTaken'
  <2>1. \A d \in Call : write[d] = "resolved" => write'[d] = "resolved"
    BY <1>3, <1>4
  <2> QED BY <1>1, <2>1 DEF DrainInv, ProviderInv, TypeOK, ResolvedHasWaited, OwedIsTaken
<1> QED BY <1>6, <1>7, <1>8 DEF DrainInv

\* A drain takes all that is pending: what is neither is of drains that have resolved.
LEMMA StartKeepsDrains ==
  ASSUME DrainInv, ProviderInv', NEW d \in Drain, StartDrain(d)
  PROVE  DrainInv'
<1>1. /\ UNCHANGED <<write, record, rows>> /\ drain[d] = "idle"
      /\ drain' = [drain EXCEPT ![d] = "waiting"] /\ taken' = [taken EXCEPT ![d] = pending]
      /\ pending' = {}
  BY DEF StartDrain
<1>2. /\ drain'[d] = "waiting" /\ taken'[d] = pending /\ taken[d] = {}
      /\ \A e \in Drain \ {d} : drain'[e] = drain[e] /\ taken'[e] = taken[e]
  BY <1>1 DEF DrainInv, ProviderInv, TypeOK, IdleHasTakenNothing
<1>3. EnqueuedIsHeld'
  BY <1>1, <1>2 DEF DrainInv, EnqueuedIsHeld
<1>4. IdleHasTakenNothing' /\ ResolvedHasWaited' /\ ResolvedHasRow'
  BY <1>1, <1>2 DEF DrainInv, IdleHasTakenNothing, ResolvedHasWaited, ResolvedHasRow, RowOf
<1>5. PICK promised \in SUBSET Call : owed' = [owed EXCEPT ![d] = promised]
  BY DEF StartDrain
<1>6. owed'[d] = promised /\ \A e \in Drain \ {d} : owed'[e] = owed[e]
  BY <1>5 DEF DrainInv, ProviderInv, TypeOK
<1>7. ASSUME NEW c \in owed'[d] PROVE c \in pending \/ write[c] = "resolved"
  <2>1. /\ c \in Call /\ write[c] # "none"
        /\ \A e \in Drain : drain[e] \in {"idle", "resolved"}
    BY <1>6, <1>7 DEF StartDrain, DrainInv, ProviderInv, TypeOK
  <2> QED BY <2>1 DEF DrainInv, EnqueuedIsHeld, IdleHasTakenNothing, ResolvedHasWaited
<1>8. OwedIsTaken'
  BY <1>1, <1>2, <1>6, <1>7 DEF DrainInv, OwedIsTaken
<1> QED BY <1>3, <1>4, <1>8 DEF DrainInv

LEMMA OtherKeepsDrains ==
  ASSUME DrainInv, ProviderInv',
         (\E d \in Drain : EndDrain(d)) \/ Crash \/ UNCHANGED vars
  PROVE  DrainInv'
<1>1. UNCHANGED <<write, record, rows, pending, taken, owed>>
  BY DEF EndDrain, Crash, vars, drainVars
<1>2. \A e \in Drain :
        \/ drain'[e] = drain[e]
        \/ drain'[e] = "resolved" /\ \A c \in taken[e] : write[c] = "resolved"
        \/ drain'[e] = "rejected"
  <2>1. ASSUME NEW d \in Drain, EndDrain(d), NEW e \in Drain
        PROVE  \/ drain'[e] = drain[e]
               \/ drain'[e] = "resolved" /\ \A c \in taken[e] : write[c] = "resolved"
               \/ drain'[e] = "rejected"
    BY <2>1 DEF EndDrain, DrainInv, ProviderInv, TypeOK
  <2> QED BY <2>1 DEF Crash, vars, drainVars
<1>3. EnqueuedIsHeld' /\ ResolvedHasRow' /\ OwedIsTaken'
  BY <1>1 DEF DrainInv, EnqueuedIsHeld, ResolvedHasRow, RowOf, OwedIsTaken
<1>4. IdleHasTakenNothing' /\ ResolvedHasWaited'
  BY <1>1, <1>2 DEF DrainInv, IdleHasTakenNothing, ResolvedHasWaited
<1> QED BY <1>3, <1>4 DEF DrainInv

LEMMA DrainStep == DrainInv /\ [Next]_vars => DrainInv'
<1> SUFFICES ASSUME DrainInv, [Next]_vars PROVE DrainInv'
  OBVIOUS
<1>1. ProviderInv'
  BY ProviderStep DEF DrainInv
<1>2. ASSUME NEW c \in Call, CallStep(c) PROVE DrainInv'
  BY <1>1, <1>2, AdapterKeepsDrains, LedgerKeepsDrains DEF CallStep
<1> QED BY <1>1, <1>2, StartKeepsDrains, OtherKeepsDrains DEF Next, Idle

\* The inductive invariant of the ledger's drains.
THEOREM DrainIsInvariant == Spec => []DrainInv
<1> QED BY InitDrains, DrainStep, PTL DEF Spec

\* drain() of the execution ledger: a drain that resolves has in provider_execution,
\* under its key, everything that was enqueued before it began, unless another drain
\* was waiting or had failed by then.
THEOREM DrainsAreDurable == Spec => []DrainedIsDurable
<1>1. DrainInv => DrainedIsDurable
  BY DEF DrainInv, ProviderInv, TypeOK, DrainedIsDurable, OwedIsTaken, ResolvedHasWaited,
     ResolvedHasRow
<1> QED BY <1>1, DrainIsInvariant, PTL

-----------------------------------------------------------------------------
(* The migrators and the probes.                                           *)

\* p's migrator is past its start: what is before its file is recorded, and the file
\* itself is there when it is about to be.
Migrating(p) == Running(p) /\ Task(p).do = "migrate" /\ phase[p] \in {"lookup", "apply", "record"}
Migrated(p) ==
  /\ Exists(On(p))
  /\ 1..mem[p].file - 1 \subseteq DOMAIN db[On(p)].ledger
  /\ phase[p] = "record" => mem[p].file \in db[On(p)].tables
MigratorKnows(p) ==
  Migrating(p) =>
    /\ phase[p] # "lookup" => mem[p].file \in DOMAIN Build(p)
    /\ ~Disturbed(On(p)) => Migrated(p)

SchemasHold == \A n \in DOMAIN db : ~Disturbed(n) => Follows(db[n]) /\ InOrder(db[n])

\* What the checks of a probe have found is still so, since an undisturbed database
\* loses nothing; and what an instance that was ready needs is there.
Found(p) == Checks \ mem[p].pending
ProbeKnows(p) ==
  Doing(p, "ready", "checks") /\ ~Disturbed(On(p)) =>
    /\ ~mem[p].bad => \A check \in Found(p) : Exists(On(p)) /\ Passes(p, check)
    /\ mem[p].bad /\ mem[p].ready # "no" => mem[p].lost
Serves(p, build, n) ==
  /\ KeyPasses(p) /\ Exists(n)
  /\ MigrationsReady(build, n) /\ Storage \in db[n].tables
InstanceServes(p) ==
  \A i \in 1..Len(p.plan) :
    p.plan[i].do = "ready" /\ ~Disturbed(p.plan[i].on) =>
      /\ mem[p].ready # "no" => Serves(p, p.plan[i].build, p.plan[i].on)
      /\ mem[p].ready = "withdrawn" => mem[p].lost

ScriptKnows(p) == MigratorKnows(p) /\ ProbeKnows(p) /\ InstanceServes(p)

ServerInv == ServerTypeOK /\ SchemasHold /\ \A p \in Proc : ScriptKnows(p)

-----------------------------------------------------------------------------
(* What a step leaves of the scripts: p goes on, never back, and the others   *)
(* stay where they are, though their sessions may have been ended.           *)

ControlOK ==
  /\ Proc \in Meetings
  /\ at \in [Proc -> Nat \ {0}] /\ \A p \in Proc : at[p] <= Len(p.plan) + 1
  /\ phase \in [Proc -> Phases]
  /\ failed \in [Proc -> BOOLEAN]

Advances(p) ==
  /\ ControlOK'
  /\ Proc' = Proc
  /\ at[p] <= at'[p]
  /\ \A q \in Proc \ {p} : at'[q] = at[q] /\ phase'[q] \in {phase[q], "severed"}

Remembers(p) ==
  /\ mem' \in [Proc -> Memory]
  /\ \A q \in Proc \ {p} : mem'[q] = mem[q]

LEMMA PlanLengths ==
  ASSUME ServerTypeOK, NEW p \in Proc
  PROVE  Len(p.plan) \in Nat /\ at[p] \in Nat \ {0} /\ at[p] <= Len(p.plan) + 1
BY PlanAssumption DEF ServerTypeOK, Proc

LEMMA PlanGoesOn ==
  ASSUME ServerTypeOK, NEW p \in Proc, Running(p)
  PROVE  /\ Task(p).orElse \in {0} \cup (at[p] + 1)..Len(p.plan)
         /\ \E k \in 0..Top : Build(p) \in [1..k -> Checksum]
BY PlanAssumption DEF ServerTypeOK, Running, Task, Build, Proc

LEMMA AfterIsLater ==
  ASSUME ServerTypeOK, NEW p \in Proc, Running(p), NEW ok
  PROVE  After(p, ok) \in Nat \ {0} /\ After(p, ok) > at[p] /\ After(p, ok) <= Len(p.plan) + 1
BY PlanLengths, PlanGoesOn DEF After, Running

LEMMA EndTaskAdvances ==
  ASSUME ServerTypeOK, NEW p \in Proc, Running(p), NEW ok, EndTask(p, ok)
  PROVE  Advances(p) /\ phase'[p] = "start" /\ at'[p] > at[p]
<1>1. /\ at'[p] > at[p] /\ at'[p] \in Nat \ {0} /\ at'[p] <= Len(p.plan) + 1
      /\ DOMAIN at' = Proc /\ \A q \in Proc \ {p} : at'[q] = at[q]
  BY AfterIsLater DEF EndTask, ServerTypeOK, Proc
<1>2. /\ phase'[p] = "start" /\ phase' \in [Proc -> Phases]
      /\ \A q \in Proc \ {p} : phase'[q] = phase[q]
  BY DEF EndTask, ServerTypeOK, Phases
<1>3. failed' \in [Proc -> BOOLEAN]
  BY DEF EndTask, ServerTypeOK
<1>4. at' \in [Proc -> Nat \ {0}]
  BY <1>1, AfterIsLater DEF EndTask, ServerTypeOK
<1>5. \A q \in Proc : at'[q] <= Len(q.plan) + 1
  BY <1>1 DEF ServerTypeOK
<1>6. Proc' = Proc
  BY <1>1 DEF Proc
<1>7. ControlOK'
  BY <1>2, <1>3, <1>4, <1>5, <1>6 DEF ControlOK, ServerTypeOK
<1> QED
  BY <1>1, <1>2, <1>6, <1>7, PlanLengths DEF Advances

LEMMA VerdictAdvances ==
  ASSUME ServerTypeOK, NEW p \in Proc, Running(p), NEW ok, Verdict(p, ok)
  PROVE  Advances(p) /\ phase'[p] = "start" /\ at'[p] > at[p]
<1>1. /\ at'[p] > at[p] /\ at'[p] \in Nat \ {0} /\ at'[p] <= Len(p.plan) + 1
      /\ DOMAIN at' = Proc /\ \A q \in Proc \ {p} : at'[q] = at[q]
  BY PlanLengths DEF Verdict, ServerTypeOK, Proc, Running
<1>2. /\ phase'[p] = "start" /\ phase' \in [Proc -> Phases]
      /\ \A q \in Proc \ {p} : phase'[q] = phase[q]
  BY DEF Verdict, ServerTypeOK, Phases
<1>3. failed' \in [Proc -> BOOLEAN]
  BY DEF Verdict, ServerTypeOK
<1>4. at' \in [Proc -> Nat \ {0}]
  BY <1>1 DEF Verdict, ServerTypeOK
<1>5. \A q \in Proc : at'[q] <= Len(q.plan) + 1
  BY <1>1 DEF ServerTypeOK
<1>6. Proc' = Proc
  BY <1>1 DEF Proc
<1>7. ControlOK'
  BY <1>2, <1>3, <1>4, <1>5, <1>6 DEF ControlOK, ServerTypeOK
<1> QED
  BY <1>1, <1>2, <1>6, <1>7, PlanLengths DEF Advances

LEMMA GotoAdvances ==
  ASSUME ServerTypeOK, NEW p \in Proc, NEW step \in Phases, Goto(p, step)
  PROVE  Advances(p) /\ phase'[p] = step /\ at'[p] = at[p]
<1>1. /\ phase'[p] = step /\ phase' \in [Proc -> Phases]
      /\ \A q \in Proc \ {p} : phase'[q] = phase[q]
  BY DEF Goto, ServerTypeOK
<1>2. at' = at /\ failed' = failed /\ Proc' = Proc
  BY DEF Goto, Proc
<1>3. ControlOK'
  BY <1>1, <1>2 DEF ControlOK, ServerTypeOK
<1> QED
  BY <1>1, <1>2, <1>3, PlanLengths DEF Advances

LEMMA StayingAdvances ==
  ASSUME ServerTypeOK, NEW p \in Proc, UNCHANGED <<at, phase, failed>>
  PROVE  Advances(p) /\ phase'[p] = phase[p] /\ at'[p] = at[p]
<1>1. Proc' = Proc
  BY DEF Proc
<1>2. ControlOK'
  BY <1>1 DEF ControlOK, ServerTypeOK
<1> QED
  BY <1>1, <1>2, PlanLengths DEF Advances

LEMMA DropAdvances ==
  ASSUME ServerTypeOK, NEW p \in Proc, Running(p), NEW names, NEW ok, DropThen(p, names, ok)
  PROVE  Advances(p) /\ phase'[p] = "start" /\ at'[p] > at[p]
<1>1. /\ at'[p] > at[p] /\ at'[p] \in Nat \ {0} /\ at'[p] <= Len(p.plan) + 1
      /\ DOMAIN at' = Proc /\ \A q \in Proc \ {p} : at'[q] = at[q]
  BY PlanLengths DEF DropThen, ServerTypeOK, Proc, Running
<1>a. Severed(p, names) \in [Proc -> Phases]
      /\ \A q \in Proc : Severed(p, names)[q] \in {phase[q], "severed"}
  BY DEF Severed, ServerTypeOK, Phases
<1>2. /\ phase'[p] = "start" /\ phase' \in [Proc -> Phases]
      /\ \A q \in Proc \ {p} : phase'[q] \in {phase[q], "severed"}
  BY <1>a DEF DropThen, Phases
<1>3. failed' \in [Proc -> BOOLEAN]
  BY DEF DropThen, ServerTypeOK
<1>4. at' \in [Proc -> Nat \ {0}]
  BY <1>1 DEF DropThen, ServerTypeOK
<1>5. \A q \in Proc : at'[q] <= Len(q.plan) + 1
  BY <1>1 DEF ServerTypeOK
<1>6. Proc' = Proc
  BY <1>1 DEF Proc
<1>7. ControlOK'
  BY <1>2, <1>3, <1>4, <1>5, <1>6 DEF ControlOK, ServerTypeOK
<1> QED
  BY <1>1, <1>2, <1>6, <1>7, PlanLengths DEF Advances

-----------------------------------------------------------------------------
(* What an undisturbed database keeps.                                       *)

LEMMA DisturbedForGood ==
  ASSUME ServerTypeOK, NEW p \in Proc, Advances(p), NEW n, Disturbed(n)
  PROVE  Disturbed(n)'
<1>1. PICK q \in Proc : \E i \in 1..Len(q.plan) : i <= at[q] /\ Replaces(q, i, n)
  BY DEF Disturbed
<1>2. PICK i \in 1..Len(q.plan) : i <= at[q] /\ Replaces(q, i, n)
  BY <1>1
<1>3. i <= at'[q] /\ q \in Proc'
  <2>1. at[q] <= at'[q] /\ at[q] \in Nat /\ at'[q] \in Nat /\ q \in Proc'
    BY PlanLengths DEF Advances, ControlOK
  <2>2. i \in Nat /\ i <= at[q]
    BY <1>2, PlanLengths
  <2> QED BY <2>1, <2>2
<1>4. Replaces(q, i, n)'
  BY <1>2 DEF Replaces
<1> QED
  BY <1>3, <1>4 DEF Disturbed

LEMMA JoinedLedgers ==
  ASSUME NEW f \in Ledger, NEW g \in Ledger
  PROVE  Joined(f, g) \in Ledger /\ DOMAIN Joined(f, g) = DOMAIN f \cup DOMAIN g
<1>1. PICK S \in SUBSET Version : f \in [S -> Checksum]
  BY DEF Ledger
<1>2. PICK R \in SUBSET Version : g \in [R -> Checksum]
  BY DEF Ledger
<1>3. Joined(f, g) \in [S \cup R -> Checksum]
  BY <1>1, <1>2 DEF Joined
<1>4. S \cup R \in SUBSET Version
  OBVIOUS
<1> QED
  BY <1>1, <1>2, <1>3, <1>4 DEF Ledger, Joined

\* Nothing is lost, and but for rows and guards nothing is new.
Keeps ==
  \A n \in DOMAIN db : ~Disturbed(n)' =>
    /\ n \in DOMAIN db'
    /\ db[n].tables \subseteq db'[n].tables
    /\ DOMAIN db[n].ledger \subseteq DOMAIN db'[n].ledger
Quiet ==
  /\ \A n \in DOMAIN db : ~Disturbed(n)' =>
       n \in DOMAIN db' /\ db'[n].tables = db[n].tables /\ db'[n].ledger = db[n].ledger
  /\ \A n \in DOMAIN db' \ DOMAIN db : db'[n].tables = {} /\ db'[n].ledger = NoLedger
DatabasesOK == db \in [DOMAIN db -> Database]

\* p leaves its migrator and its probe alone, or has left them.
Away(p) ==
  /\ \/ phase'[p] = "start" \/ ~Running(p)'
     \/ at'[p] = at[p] /\ Task(p).do \notin {"migrate", "ready"}
  /\ mem'[p].ready = mem[p].ready
  /\ mem[p].lost => mem'[p].lost

StepsAside(p) == Advances(p) /\ Remembers(p) /\ DatabasesOK' /\ Quiet /\ Away(p)

LEMMA EmptyIsDatabase ==
  ASSUME NEW who \in Origin
  PROVE  Empty(who) \in Database /\ Empty(who).tables = {} /\ Empty(who).ledger = NoLedger
<1>1. NoLedger \in Ledger
  <2>1. NoLedger \in [{} -> Checksum]
    BY DEF NoLedger
  <2> QED BY <2>1 DEF Ledger
<1> QED BY <1>1 DEF Empty, Database

LEMMA ScriptsAreOrigins ==
  ASSUME ServerTypeOK, NEW p \in Proc
  PROVE  p.id \in Origin
BY DEF ServerTypeOK, Origin

LEMMA NowDisturbed ==
  ASSUME ServerTypeOK, NEW p \in Proc, Running(p), Advances(p),
         NEW n, n = On(p) \/ n = Task(p).other,
         Task(p).do \in {"absent", "drop", "recreate", "restore", "cleanup"}
  PROVE  Disturbed(n)'
<1>1. Replaces(p, at[p], n) /\ at[p] \in 1..Len(p.plan) /\ at[p] <= at[p]
  BY PlanLengths DEF Replaces, On, Task, Running
<1>2. Disturbed(n)
  BY <1>1 DEF Disturbed
<1> QED
  BY <1>2, DisturbedForGood

LEMMA SameDatabases ==
  ASSUME ServerTypeOK, UNCHANGED db
  PROVE  DatabasesOK' /\ Quiet
BY DEF ServerTypeOK, DatabasesOK, Quiet

LEMMA MemoriesAre ==
  ASSUME ServerTypeOK
  PROVE  mem \in [Proc -> Memory]
BY DEF ServerTypeOK

LEMMA SameMemory ==
  ASSUME ServerTypeOK, NEW p \in Proc, UNCHANGED mem
  PROVE  Remembers(p) /\ mem'[p].ready = mem[p].ready /\ mem'[p].lost = mem[p].lost
BY DEF ServerTypeOK, Remembers

LEMMA UsedRemembers ==
  ASSUME ServerTypeOK, NEW p \in Proc, Exists(On(p))
  PROVE  /\ Use(p) \in [Proc -> Memory]
         /\ \A q \in Proc \ {p} : Use(p)[q] = mem[q]
         /\ Use(p)[p].ready = mem[p].ready /\ Use(p)[p].lost = mem[p].lost
<1>1. db[On(p)].by \in Origin
  BY DEF ServerTypeOK, Exists, Database
<1>2. mem[p].used \cup {db[On(p)].by} \in SUBSET Origin
  BY <1>1 DEF ServerTypeOK, Memory
<1>3. PICK u \in SUBSET Origin : Use(p) = [mem EXCEPT ![p].used = u]
  BY <1>2 DEF Use
<1>4. mem \in [Proc -> Memory]
  BY DEF ServerTypeOK
<1>5. Use(p) \in [Proc -> Memory]
  BY <1>3, <1>4 DEF Memory
<1>6. Use(p)[p] = [mem[p] EXCEPT !.used = u] /\ \A q \in Proc \ {p} : Use(p)[q] = mem[q]
  BY <1>3, <1>4
<1> QED
  BY <1>4, <1>5, <1>6 DEF Memory

LEMMA OneDatabase ==
  ASSUME ServerTypeOK, NEW n \in DOMAIN db, NEW d \in Database, db' = [db EXCEPT ![n] = d],
         Disturbed(n)' \/ (d.tables = db[n].tables /\ d.ledger = db[n].ledger)
  PROVE  DatabasesOK' /\ Quiet
BY DEF ServerTypeOK, DatabasesOK, Quiet

LEMMA DroppedDatabases ==
  ASSUME ServerTypeOK, NEW names, \A n \in names : Disturbed(n)', db' = Without(names)
  PROVE  DatabasesOK' /\ Quiet
BY DEF ServerTypeOK, DatabasesOK, Quiet, Without

LEMMA CreatedDatabase ==
  ASSUME ServerTypeOK, NEW p \in Proc, ~Exists(On(p)), db' = With(On(p), p.id)
  PROVE  DatabasesOK' /\ Quiet
<1>1. p.id \in Origin /\ Empty(p.id) \in Database /\ Empty(p.id).tables = {}
      /\ Empty(p.id).ledger = NoLedger
  BY EmptyIsDatabase, ScriptsAreOrigins
<1>2. /\ DOMAIN db' = DOMAIN db \cup {On(p)}
      /\ \A n \in DOMAIN db : db'[n] = db[n]
      /\ db'[On(p)] = Empty(p.id)
      /\ db' \in [DOMAIN db \cup {On(p)} -> Database]
  BY <1>1 DEF With, Joined, Exists, ServerTypeOK
<1> QED
  BY <1>1, <1>2 DEF DatabasesOK, Quiet

-----------------------------------------------------------------------------
(* The steps of the scripts of Releases.                                     *)

LEMMA DatabaseChanges ==
  ASSUME ServerTypeOK, NEW n \in DOMAIN db
  PROVE  /\ db[n] \in Database
         /\ \A r \in SUBSET Origin : [db[n] EXCEPT !.rows = r] \in Database
         /\ \A t \in SUBSET Table : [db[n] EXCEPT !.tables = t] \in Database
         /\ \A g \in SUBSET Version : [db[n] EXCEPT !.guards = g] \in Database
         /\ \A l \in Ledger : \A r \in SUBSET Origin :
              [db[n] EXCEPT !.ledger = l, !.rows = r] \in Database
BY DEF ServerTypeOK, Database

LEMMA RowsAreOrigins ==
  ASSUME ServerTypeOK, NEW n, Exists(n)
  PROVE  db[n].rows \in SUBSET Origin
<1>1. db[n] \in Database
  BY DatabaseChanges DEF Exists
<1> QED
  BY <1>1 DEF Database

LEMMA BackupAside ==
  ASSUME ServerTypeOK, NEW p \in Proc, Backup(p)
  PROVE  StepsAside(p)
<1>1. Running(p) /\ Exists(On(p)) /\ UNCHANGED db
  BY DEF Backup, Doing
<1>2. Advances(p) /\ phase'[p] = "start"
  BY <1>1, EndTaskAdvances DEF Backup
<1>3. CASE UNCHANGED mem
  BY <1>1, <1>2, <1>3, SameDatabases, SameMemory DEF StepsAside, Away
<1>4. CASE mem' = [Use(p) EXCEPT ![p].dump = db[On(p)]]
  <2>1. db[On(p)] \in Database
    BY <1>1, DatabaseChanges DEF Exists
  <2>2. /\ mem' \in [Proc -> Memory]
        /\ \A q \in Proc \ {p} : mem'[q] = mem[q]
        /\ mem'[p].ready = mem[p].ready /\ mem'[p].lost = mem[p].lost
    BY <1>1, <1>4, <2>1, UsedRemembers DEF Memory
  <2> QED
    BY <1>1, <1>2, <2>2, SameDatabases DEF StepsAside, Away, Remembers
<1> QED
  BY <1>3, <1>4 DEF Backup

LEMMA LookAtTargetAside ==
  ASSUME ServerTypeOK, NEW p \in Proc, LookAtTarget(p)
  PROVE  StepsAside(p)
<1>1. /\ Running(p) /\ Task(p).do = "restore" /\ UNCHANGED db
      /\ mem' = [mem EXCEPT ![p].created = FALSE, ![p].errors = FALSE]
  BY DEF LookAtTarget, Doing
<1>2. PICK step \in Phases : EndTask(p, FALSE) \/ Goto(p, step)
  BY DEF LookAtTarget, Phases
<1>3. Advances(p) /\ (phase'[p] = "start" \/ at'[p] = at[p])
  BY <1>1, <1>2, EndTaskAdvances, GotoAdvances
<1>4. /\ mem' \in [Proc -> Memory]
      /\ \A q \in Proc \ {p} : mem'[q] = mem[q]
      /\ mem'[p].ready = mem[p].ready /\ mem'[p].lost = mem[p].lost
  <2> DEFINE m == [mem[p] EXCEPT !.created = FALSE, !.errors = FALSE]
  <2>1. m \in Memory /\ m.ready = mem[p].ready /\ m.lost = mem[p].lost
    BY MemoriesAre DEF Memory
  <2>2. mem' = [mem EXCEPT ![p] = m]
    BY <1>1
  <2> HIDE DEF m
  <2> QED
    BY <2>1, <2>2, MemoriesAre
<1> QED
  BY <1>1, <1>3, <1>4, SameDatabases DEF StepsAside, Away, Remembers

LEMMA CreateTargetAside ==
  ASSUME ServerTypeOK, NEW p \in Proc, CreateTarget(p)
  PROVE  StepsAside(p)
<1>1. Running(p) /\ Task(p).do = "restore"
  BY DEF CreateTarget, Doing
<1>2. CASE Exists(On(p))
  <2>1. EndTask(p, FALSE) /\ UNCHANGED <<db, mem>>
    BY <1>2 DEF CreateTarget
  <2> QED
    BY <1>1, <2>1, EndTaskAdvances, SameDatabases, SameMemory DEF StepsAside, Away
<1>3. CASE ~Exists(On(p))
  <2>1. /\ db' = With(On(p), p.id) /\ mem' = [mem EXCEPT ![p].created = TRUE]
        /\ Goto(p, "tables")
    BY <1>3 DEF CreateTarget
  <2>2. Advances(p) /\ at'[p] = at[p]
    BY <2>1, GotoAdvances DEF Phases
  <2>3. /\ mem' \in [Proc -> Memory]
        /\ \A q \in Proc \ {p} : mem'[q] = mem[q]
        /\ mem'[p].ready = mem[p].ready /\ mem'[p].lost = mem[p].lost
    BY <2>1, MemoriesAre DEF Memory
  <2> QED
    BY <1>1, <1>3, <2>1, <2>2, <2>3, CreatedDatabase DEF StepsAside, Away, Remembers
<1> QED
  BY <1>2, <1>3

\* What a restore does to its target: the database is a database still.
LEMMA TargetAside ==
  ASSUME ServerTypeOK, NEW p \in Proc, Running(p), Task(p).do = "restore", Exists(On(p)),
         NEW d \in Database, db' = [db EXCEPT ![On(p)] = d],
         NEW step \in Phases, EndTask(p, FALSE) \/ Goto(p, step),
         UNCHANGED mem \/ \E b \in BOOLEAN : mem' = [mem EXCEPT ![p].errors = b]
  PROVE  StepsAside(p)
<1>1. Advances(p) /\ (phase'[p] = "start" \/ at'[p] = at[p])
  BY EndTaskAdvances, GotoAdvances
<1>2. PICK n \in DOMAIN db : n = On(p)
  BY DEF Exists
<1>3. DatabasesOK' /\ Quiet
  <2>1. Disturbed(n)'
    BY <1>1, <1>2, NowDisturbed
  <2> QED
    BY <1>2, <2>1, OneDatabase
<1>4. /\ mem' \in [Proc -> Memory]
      /\ \A q \in Proc \ {p} : mem'[q] = mem[q]
      /\ mem'[p].ready = mem[p].ready /\ mem'[p].lost = mem[p].lost
  <2>1. CASE UNCHANGED mem
    BY <2>1 DEF ServerTypeOK
  <2>2. CASE \E b \in BOOLEAN : mem' = [mem EXCEPT ![p].errors = b]
    <3>1. PICK b \in BOOLEAN : mem' = [mem EXCEPT ![p].errors = b]
      BY <2>2
    <3> QED
      BY <3>1, MemoriesAre DEF Memory
  <2> QED
    BY <2>1, <2>2
<1> QED
  BY <1>1, <1>3, <1>4 DEF StepsAside, Away, Remembers

LEMMA CleanTargetAside ==
  ASSUME ServerTypeOK, NEW p \in Proc, CleanTarget(p)
  PROVE  StepsAside(p)
<1> DEFINE n == On(p)
           dropped == {v \in mem[p].dump.tables :
                         v = 0 \/ \A w \in db[n].tables \ mem[p].dump.tables : w < v}
           d == [db[n] EXCEPT !.tables = @ \ dropped, !.guards = @ \ dropped,
                   !.ledger = IF 0 \in dropped THEN NoLedger ELSE @,
                   !.rows = IF dropped \cap Version = {} THEN @ ELSE {}]
<1>1. Running(p) /\ Task(p).do = "restore" /\ Exists(n) /\ Goto(p, "tables")
  BY DEF CleanTarget, Doing
<1>2. d \in Database
  <2>1. db[n] \in Database
    BY <1>1, DatabaseChanges DEF Exists
  <2>2. NoLedger \in Ledger
    BY EmptyIsDatabase DEF Empty, Database, Origin
  <2> QED
    BY <2>1, <2>2 DEF Database
<1>3. db' = [db EXCEPT ![n] = d]
  BY DEF CleanTarget
<1>4. \E b \in BOOLEAN : mem' = [mem EXCEPT ![p].errors = b]
  <2> DEFINE b == dropped # mem[p].dump.tables
  <2>1. b \in BOOLEAN /\ mem' = [mem EXCEPT ![p].errors = b]
    BY DEF CleanTarget
  <2> QED
    BY <2>1
<1>5. "tables" \in Phases
  BY DEF Phases
<1> HIDE DEF d, dropped
<1> QED
  BY <1>1, <1>2, <1>3, <1>4, <1>5, TargetAside

LEMMA RestoreTablesAside ==
  ASSUME ServerTypeOK, NEW p \in Proc, RestoreTables(p)
  PROVE  StepsAside(p)
<1> DEFINE n == On(p)
           d == [db[n] EXCEPT !.tables = @ \cup mem[p].dump.tables]
<1>1. Running(p) /\ Task(p).do = "restore" /\ Exists(n) /\ Goto(p, "rows")
  BY DEF RestoreTables, Doing
<1>2. d \in Database
  <2>1. db[n] \in Database /\ mem[p].dump \in Database
    BY <1>1, DatabaseChanges DEF Exists, ServerTypeOK, Memory
  <2> QED
    BY <2>1 DEF Database
<1>3. db' = [db EXCEPT ![n] = d]
  BY DEF RestoreTables
<1>4. \E b \in BOOLEAN : mem' = [mem EXCEPT ![p].errors = b]
  <2> DEFINE b == mem[p].errors \/ db[n].tables \cap mem[p].dump.tables # {}
  <2>1. b \in BOOLEAN /\ mem' = [mem EXCEPT ![p].errors = b]
    BY DEF RestoreTables
  <2> QED
    BY <2>1
<1>5. "rows" \in Phases
  BY DEF Phases
<1> HIDE DEF d
<1> QED
  BY <1>1, <1>2, <1>3, <1>4, <1>5, TargetAside

LEMMA RestoreRowsAside ==
  ASSUME ServerTypeOK, NEW p \in Proc, RestoreRows(p)
  PROVE  StepsAside(p)
<1> DEFINE n == On(p)
           inTheWay == DOMAIN db[n].ledger \cap DOMAIN mem[p].dump.ledger # {}
           d == [db[n] EXCEPT !.ledger = IF inTheWay THEN @ ELSE Joined(@, mem[p].dump.ledger),
                              !.rows = @ \cup mem[p].dump.rows]
<1>1. Running(p) /\ Task(p).do = "restore" /\ Exists(n) /\ Goto(p, "guards")
  BY DEF RestoreRows, Doing
<1>2. d \in Database
  <2>1. db[n] \in Database /\ mem[p].dump \in Database
    BY <1>1, DatabaseChanges DEF Exists, ServerTypeOK, Memory
  <2>2. Joined(db[n].ledger, mem[p].dump.ledger) \in Ledger
    BY <2>1, JoinedLedgers DEF Database
  <2> QED
    BY <2>1, <2>2 DEF Database
<1>3. db' = [db EXCEPT ![n] = d]
  BY DEF RestoreRows
<1>4. \E b \in BOOLEAN : mem' = [mem EXCEPT ![p].errors = b]
  <2> DEFINE b == mem[p].errors \/ inTheWay \/ db[n].rows \cap mem[p].dump.rows # {}
  <2>1. b \in BOOLEAN /\ mem' = [mem EXCEPT ![p].errors = b]
    BY DEF RestoreRows
  <2> QED
    BY <2>1
<1>5. "guards" \in Phases
  BY DEF Phases
<1> HIDE DEF d
<1> QED
  BY <1>1, <1>2, <1>3, <1>4, <1>5, TargetAside

LEMMA RestoreGuardsAside ==
  ASSUME ServerTypeOK, NEW p \in Proc, RestoreGuards(p)
  PROVE  StepsAside(p)
<1> DEFINE n == On(p)
           d == [db[n] EXCEPT !.guards = @ \cup mem[p].dump.guards]
<1>1. /\ Running(p) /\ Task(p).do = "restore" /\ Exists(n) /\ UNCHANGED mem
      /\ EndTask(p, FALSE) \/ Goto(p, "verify")
  BY DEF RestoreGuards, Doing
<1>2. d \in Database
  <2>1. db[n] \in Database /\ mem[p].dump \in Database
    BY <1>1, DatabaseChanges DEF Exists, ServerTypeOK, Memory
  <2> QED
    BY <2>1 DEF Database
<1>3. db' = [db EXCEPT ![n] = d]
  BY DEF RestoreGuards
<1>5. "verify" \in Phases
  BY DEF Phases
<1> HIDE DEF d
<1> QED
  BY <1>1, <1>2, <1>3, <1>5, TargetAside

LEMMA VerifyRestoreAside ==
  ASSUME ServerTypeOK, NEW p \in Proc, VerifyRestore(p)
  PROVE  StepsAside(p)
<1>1. /\ Running(p) /\ Exists(On(p)) /\ UNCHANGED db
      /\ mem' = [Use(p) EXCEPT ![p].copy = db[On(p)]]
      /\ EndTask(p, db[On(p)].tables # {})
  BY DEF VerifyRestore, Doing
<1>2. Advances(p) /\ phase'[p] = "start"
  BY <1>1, EndTaskAdvances
<1>3. db[On(p)] \in Database
  BY <1>1, DatabaseChanges DEF Exists
<1>4. /\ mem' \in [Proc -> Memory]
      /\ \A q \in Proc \ {p} : mem'[q] = mem[q]
      /\ mem'[p].ready = mem[p].ready /\ mem'[p].lost = mem[p].lost
  BY <1>1, <1>3, UsedRemembers DEF Memory
<1> QED
  BY <1>1, <1>2, <1>4, SameDatabases DEF StepsAside, Away, Remembers

LEMMA RestoreAside ==
  ASSUME ServerTypeOK, NEW p \in Proc, Restore(p)
  PROVE  StepsAside(p)
BY LookAtTargetAside, CreateTargetAside, CleanTargetAside, RestoreTablesAside,
   RestoreRowsAside, RestoreGuardsAside, VerifyRestoreAside DEF Restore

\* A gate that looks at a database, and may leave rows of its own in it.
LEMMA RowsAside ==
  ASSUME ServerTypeOK, NEW p \in Proc, Running(p),
         NEW ok, EndTask(p, ok) \/ Verdict(p, ok),
         \/ UNCHANGED db
         \/ /\ Exists(On(p))
            /\ \E r \in SUBSET Origin : db' = [db EXCEPT ![On(p)].rows = r],
         NEW m \in Memory, mem' = [mem EXCEPT ![p] = m],
         m.ready = mem[p].ready, m.lost = mem[p].lost
  PROVE  StepsAside(p)
<1>1. Advances(p) /\ phase'[p] = "start"
  BY EndTaskAdvances, VerdictAdvances
<1>2. DatabasesOK' /\ Quiet
  <2>1. CASE UNCHANGED db
    BY <2>1, SameDatabases
  <2>2. CASE Exists(On(p)) /\ \E r \in SUBSET Origin : db' = [db EXCEPT ![On(p)].rows = r]
    <3>1. PICK n \in DOMAIN db : n = On(p)
      BY <2>2 DEF Exists
    <3>2. PICK r \in SUBSET Origin : db' = [db EXCEPT ![n].rows = r]
      BY <2>2, <3>1
    <3>3. /\ [db[n] EXCEPT !.rows = r] \in Database
          /\ [db[n] EXCEPT !.rows = r].tables = db[n].tables
          /\ [db[n] EXCEPT !.rows = r].ledger = db[n].ledger
      BY DatabaseChanges DEF Database
    <3>4. PICK d \in Database : d = [db[n] EXCEPT !.rows = r]
      BY <3>3
    <3>5. db' = [db EXCEPT ![n] = d]
      BY <3>2, <3>4
    <3>6. d.tables = db[n].tables /\ d.ledger = db[n].ledger
      BY <3>3, <3>4
    <3> QED
      BY <3>5, <3>6, OneDatabase
  <2> QED
    BY <2>1, <2>2
<1>3. Remembers(p) /\ mem'[p].ready = mem[p].ready /\ mem'[p].lost = mem[p].lost
  BY MemoriesAre DEF Remembers
<1> QED
  BY <1>1, <1>2, <1>3 DEF StepsAside, Away

LEMMA UsedIsMemory ==
  ASSUME ServerTypeOK, NEW p \in Proc, Exists(On(p))
  PROVE  \E m \in Memory :
           Use(p) = [mem EXCEPT ![p] = m] /\ m.ready = mem[p].ready /\ m.lost = mem[p].lost
<1>1. /\ Use(p) \in [Proc -> Memory] /\ Use(p)[p].ready = mem[p].ready
      /\ Use(p)[p].lost = mem[p].lost /\ \A q \in Proc \ {p} : Use(p)[q] = mem[q]
  BY UsedRemembers
<1>2. Use(p) = [mem EXCEPT ![p] = Use(p)[p]]
  BY <1>1, MemoriesAre
<1> QED
  BY <1>1, <1>2

LEMMA SameIsMemory ==
  ASSUME ServerTypeOK, NEW p \in Proc
  PROVE  \E m \in Memory :
           mem = [mem EXCEPT ![p] = m] /\ m.ready = mem[p].ready /\ m.lost = mem[p].lost
<1>1. mem = [mem EXCEPT ![p] = mem[p]] /\ mem[p] \in Memory
  BY MemoriesAre
<1> QED
  BY <1>1

LEMMA CountSourceAside ==
  ASSUME ServerTypeOK, NEW p \in Proc, CountSource(p)
  PROVE  StepsAside(p)
<1> DEFINE n == On(p)
           r == IF db[n].rows = {} THEN {p.id} ELSE db[n].rows
<1>1. Running(p) /\ Exists(n) /\ r \in SUBSET Origin
  <2>1. Running(p) /\ Exists(n)
    BY DEF CountSource, Doing
  <2> QED
    BY <2>1, ScriptsAreOrigins, RowsAreOrigins
<1>2. CASE UNCHANGED <<db, mem>> /\ EndTask(p, FALSE)
  BY <1>1, <1>2, SameIsMemory, RowsAside
<1>3. CASE /\ db' = [db EXCEPT ![n].rows = r] /\ mem' = [mem EXCEPT ![p].shape.rows = r]
           /\ EndTask(p, TRUE)
  <2>1. PICK o \in SUBSET Origin : o = r
    BY <1>1
  <2>2. db' = [db EXCEPT ![n].rows = o] /\ mem' = [mem EXCEPT ![p].shape.rows = o]
    BY <1>3, <2>1
  <2> DEFINE m == [mem[p] EXCEPT !.shape = [mem[p].shape EXCEPT !.rows = o]]
  <2>3. m \in Memory /\ m.ready = mem[p].ready /\ m.lost = mem[p].lost
    <3>1. mem[p] \in Memory /\ mem[p].shape \in Database
      BY MemoriesAre DEF Memory
    <3>2. [mem[p].shape EXCEPT !.rows = o] \in Database
      BY <3>1 DEF Database
    <3> QED
      BY <3>1, <3>2 DEF Memory
  <2>4. mem' = [mem EXCEPT ![p] = m]
    BY <2>2
  <2> HIDE DEF m
  <2> QED
    BY <1>1, <1>3, <2>2, <2>3, <2>4, RowsAside
<1> QED
  BY <1>2, <1>3 DEF CountSource

LEMMA ReadBackAside ==
  ASSUME ServerTypeOK, NEW p \in Proc, ReadBack(p)
  PROVE  StepsAside(p)
<1>1. Running(p) /\ UNCHANGED <<db, mem>> /\ \E ok \in BOOLEAN : EndTask(p, ok)
  BY DEF ReadBack, Doing
<1> QED
  BY <1>1, SameIsMemory, RowsAside

LEMMA PreflightAside ==
  ASSUME ServerTypeOK, NEW p \in Proc, Preflight(p)
  PROVE  StepsAside(p)
<1>1. /\ Running(p) /\ Exists(On(p)) /\ UNCHANGED db /\ mem' = Use(p)
      /\ Verdict(p, MigrationsReady(Build(p), On(p)))
  BY DEF Preflight, Doing
<1> QED
  BY <1>1, UsedIsMemory, RowsAside

LEMMA SuitesAside ==
  ASSUME ServerTypeOK, NEW p \in Proc, Suites(p)
  PROVE  StepsAside(p)
<1>1. /\ Running(p) /\ Exists(On(p)) /\ mem' = Use(p) /\ {p.id} \in SUBSET Origin
      /\ UNCHANGED db \/ db' = [db EXCEPT ![On(p)].rows = {p.id}]
      /\ Verdict(p, TRUE) \/ Verdict(p, FALSE)
  BY ScriptsAreOrigins DEF Suites, Doing
<1> QED
  BY <1>1, UsedIsMemory, RowsAside

LEMMA SpotGatesAside ==
  ASSUME ServerTypeOK, NEW p \in Proc, SpotGates(p)
  PROVE  StepsAside(p)
<1> DEFINE n == On(p)
<1>1. /\ Running(p) /\ Exists(n) /\ mem' = Use(p)
      /\ UNCHANGED db \/ db' = [db EXCEPT ![n].rows = db[n].rows \cup {p.id}]
      /\ Verdict(p, Version \subseteq db[n].guards) \/ EndTask(p, FALSE)
  BY DEF SpotGates, Doing
<1>2. db[n].rows \cup {p.id} \in SUBSET Origin
  <2>1. db[n].rows \in SUBSET Origin /\ p.id \in Origin
    BY <1>1, ScriptsAreOrigins, RowsAreOrigins
  <2> QED
    BY <2>1
<1> QED
  BY <1>1, <1>2, UsedIsMemory, RowsAside

LEMMA ReadShapeAside ==
  ASSUME ServerTypeOK, NEW p \in Proc, ReadShape(p)
  PROVE  StepsAside(p)
<1>1. /\ Running(p) /\ Exists(On(p)) /\ UNCHANGED db /\ EndTask(p, TRUE)
      /\ mem' = [Use(p) EXCEPT ![p].shape = db[On(p)]]
  BY DEF ReadShape, Doing
<1>2. PICK u \in Memory :
        Use(p) = [mem EXCEPT ![p] = u] /\ u.ready = mem[p].ready /\ u.lost = mem[p].lost
  BY <1>1, UsedIsMemory
<1>3. db[On(p)] \in Database
  BY <1>1, DatabaseChanges DEF Exists
<1> DEFINE m == [u EXCEPT !.shape = db[On(p)]]
<1>4. m \in Memory /\ m.ready = mem[p].ready /\ m.lost = mem[p].lost
  BY <1>2, <1>3 DEF Memory
<1>5. mem' = [mem EXCEPT ![p] = m]
  BY <1>1, <1>2, MemoriesAre
<1> HIDE DEF m
<1> QED
  BY <1>1, <1>4, <1>5, RowsAside

LEMMA CompareShapeAside ==
  ASSUME ServerTypeOK, NEW p \in Proc, CompareShape(p)
  PROVE  StepsAside(p)
<1>1. /\ Running(p) /\ Exists(On(p)) /\ UNCHANGED db /\ mem' = Use(p)
      /\ \E ok \in BOOLEAN : Verdict(p, ok)
  BY DEF CompareShape, Doing
<1> QED
  BY <1>1, UsedIsMemory, RowsAside

LEMMA DropAside ==
  ASSUME ServerTypeOK, NEW p \in Proc, Running(p),
         Task(p).do \in {"absent", "drop", "cleanup"},
         NEW names, names \subseteq {On(p), Task(p).other}, NEW ok, DropThen(p, names, ok)
  PROVE  StepsAside(p)
<1>1. Advances(p) /\ phase'[p] = "start"
  BY DropAdvances
<1>2. ASSUME NEW n \in names PROVE Disturbed(n)'
  BY <1>1, NowDisturbed
<1>3. DatabasesOK' /\ Quiet
  BY <1>2, DroppedDatabases DEF DropThen
<1> QED
  BY <1>1, <1>3, SameMemory DEF StepsAside, Away, DropThen

LEMMA CleanupAside ==
  ASSUME ServerTypeOK, NEW p \in Proc, Cleanup(p)
  PROVE  StepsAside(p)
<1>1. Running(p) /\ Task(p).do = "cleanup"
  BY DEF Cleanup, Doing
<1>2. CASE DropThen(p, {On(p)}, TRUE)
  <2>1. PICK names : names = {On(p)}
    OBVIOUS
  <2> QED
    BY <1>1, <1>2, <2>1, DropAside
<1>3. CASE Verdict(p, TRUE) /\ UNCHANGED <<db, mem>>
  BY <1>1, <1>3, SameIsMemory, RowsAside
<1> QED
  BY <1>2, <1>3 DEF Cleanup

LEMMA DropForRecreationAside ==
  ASSUME ServerTypeOK, NEW p \in Proc, DropForRecreation(p)
  PROVE  StepsAside(p)
<1>1. Running(p) /\ Task(p).do = "recreate" /\ UNCHANGED mem
  BY DEF DropForRecreation, Doing
<1>2. CASE EndTask(p, FALSE) /\ UNCHANGED db
  BY <1>1, <1>2, SameIsMemory, RowsAside
<1>3. CASE /\ db' = Without({On(p)}) /\ UNCHANGED <<at, failed>>
           /\ phase' = [Severed(p, {On(p)}) EXCEPT ![p] = "create"]
  <2>1. PICK names : names = {On(p)}
    OBVIOUS
  <2>2. Severed(p, names) \in [Proc -> Phases]
        /\ \A q \in Proc : Severed(p, names)[q] \in {phase[q], "severed"}
    BY DEF Severed, ServerTypeOK, Phases
  <2>3. phase' \in [Proc -> Phases] /\ \A q \in Proc \ {p} : phase'[q] \in {phase[q], "severed"}
    BY <1>3, <2>1, <2>2 DEF Phases
  <2>4. Proc' = Proc
    BY <1>3 DEF Proc
  <2>5. ControlOK'
    BY <1>3, <2>3, <2>4 DEF ControlOK, ServerTypeOK
  <2>6. Advances(p) /\ at'[p] = at[p]
    <3>1. at'[p] = at[p] /\ at[p] \in Nat /\ \A q \in Proc \ {p} : at'[q] = at[q]
      BY <1>3, PlanLengths
    <3> QED
      BY <2>3, <2>4, <2>5, <3>1 DEF Advances
  <2>7. ASSUME NEW n \in names PROVE Disturbed(n)'
    BY <1>1, <2>1, <2>6, NowDisturbed
  <2>8. DatabasesOK' /\ Quiet
    BY <1>3, <2>1, <2>7, DroppedDatabases
  <2> QED
    BY <1>1, <2>6, <2>8, SameMemory DEF StepsAside, Away
<1> QED
  BY <1>2, <1>3 DEF DropForRecreation

LEMMA CreateAside ==
  ASSUME ServerTypeOK, NEW p \in Proc, Create(p)
  PROVE  StepsAside(p)
<1>1. Running(p) /\ UNCHANGED mem /\ EndTask(p, ~Exists(On(p)))
  BY DEF Create, Doing
<1>2. Advances(p) /\ phase'[p] = "start"
  BY <1>1, EndTaskAdvances
<1>3. DatabasesOK' /\ Quiet
  BY SameDatabases, CreatedDatabase DEF Create
<1> QED
  BY <1>1, <1>2, <1>3, SameMemory DEF StepsAside, Away

LEMMA RoundAside ==
  ASSUME ServerTypeOK, NEW p \in Proc, CheckResidue(p) \/ DropRound(p)
  PROVE  StepsAside(p)
<1>1. PICK names : names = Names(p)
  OBVIOUS
<1>2. PICK there : there = names \cap DOMAIN db
  OBVIOUS
<1>3. /\ Running(p) /\ Task(p).do \in {"absent", "drop"}
      /\ names = {On(p), Task(p).other} /\ there \subseteq names
  BY <1>1, <1>2 DEF CheckResidue, DropRound, Doing, Names
<1>4. CASE DropThen(p, names, TRUE)
  BY <1>3, <1>4, DropAside
<1>5. CASE \E ok \in BOOLEAN : DropThen(p, there, ok)
  BY <1>3, <1>5, DropAside
<1> QED
  BY <1>1, <1>2, <1>4, <1>5 DEF CheckResidue, DropRound

LEMMA CheckDroppedAside ==
  ASSUME ServerTypeOK, NEW p \in Proc, CheckDropped(p)
  PROVE  StepsAside(p)
<1>1. Running(p) /\ UNCHANGED <<db, mem>> /\ \E ok \in BOOLEAN : Verdict(p, ok)
  BY DEF CheckDropped, Doing
<1> QED
  BY <1>1, SameIsMemory, RowsAside

LEMMA LostRemembers ==
  ASSUME ServerTypeOK, NEW p \in Proc, mem' = [mem EXCEPT ![p].lost = TRUE]
  PROVE  Remembers(p) /\ mem'[p].ready = mem[p].ready /\ mem'[p].lost
<1> DEFINE m == [mem[p] EXCEPT !.lost = TRUE]
<1>1. m \in Memory /\ m.ready = mem[p].ready /\ m.lost
  BY MemoriesAre DEF Memory
<1>2. mem' = [mem EXCEPT ![p] = m]
  OBVIOUS
<1> HIDE DEF m
<1> QED
  BY <1>1, <1>2, MemoriesAre DEF Remembers

LEMMA FailAside ==
  ASSUME ServerTypeOK, NEW p \in Proc, Fail(p)
  PROVE  StepsAside(p)
<1>1. Running(p) /\ UNCHANGED db /\ EndTask(p, FALSE) /\ mem' = [mem EXCEPT ![p].lost = TRUE]
  BY DEF Fail
<1>2. Remembers(p) /\ mem'[p].ready = mem[p].ready /\ mem'[p].lost
  BY <1>1, LostRemembers
<1> QED
  BY <1>1, <1>2, EndTaskAdvances, SameDatabases DEF StepsAside, Away

LEMMA KillAside ==
  ASSUME ServerTypeOK, NEW p \in Proc, Kill(p)
  PROVE  StepsAside(p)
<1>1. /\ Running(p) /\ UNCHANGED <<db, phase>> /\ mem' = [mem EXCEPT ![p].lost = TRUE]
      /\ at' = [at EXCEPT ![p] = Len(p.plan) + 1] /\ failed' = [failed EXCEPT ![p] = TRUE]
  BY DEF Kill
<1>2. Remembers(p) /\ mem'[p].ready = mem[p].ready /\ mem'[p].lost
  BY <1>1, LostRemembers
<1>3. /\ at'[p] = Len(p.plan) + 1 /\ at' \in [Proc -> Nat \ {0}]
      /\ \A q \in Proc \ {p} : at'[q] = at[q]
  BY <1>1, PlanLengths DEF ServerTypeOK
<1>4. Proc' = Proc
  BY <1>1 DEF Proc, ServerTypeOK
<1>5. ControlOK'
  <2>1. \A q \in Proc : at'[q] <= Len(q.plan) + 1
    BY <1>3, PlanLengths
  <2>2. failed' \in [Proc -> BOOLEAN] /\ phase' \in [Proc -> Phases] /\ Proc' \in Meetings
    BY <1>1, <1>4 DEF ServerTypeOK
  <2> QED
    BY <1>3, <1>4, <2>1, <2>2 DEF ControlOK
<1>6. Advances(p)
  BY <1>1, <1>3, <1>4, <1>5, PlanLengths DEF Advances
<1>7. ~Running(p)'
  BY <1>3, PlanLengths DEF Running
<1> QED
  BY <1>1, <1>2, <1>6, <1>7, SameDatabases DEF StepsAside, Away

\* Every step of a script but those of its migrator and its probe.
LEMMA OthersStepAside ==
  ASSUME ServerTypeOK, NEW p \in Proc, Gate(p) \/ Fresh(p) \/ Fail(p) \/ Kill(p)
  PROVE  StepsAside(p)
<1>1. CASE Gate(p)
  BY <1>1, BackupAside, RestoreAside, CountSourceAside, ReadBackAside, CleanupAside,
     PreflightAside, SuitesAside, SpotGatesAside, ReadShapeAside, CompareShapeAside DEF Gate
<1>2. CASE Fresh(p)
  BY <1>2, DropForRecreationAside, CreateAside, RoundAside, CheckDroppedAside DEF Fresh
<1> QED
  BY <1>1, <1>2, FailAside, KillAside

-----------------------------------------------------------------------------
(* The invariant.                                                            *)

LEMMA QuietKeeps ==
  ASSUME Quiet
  PROVE  Keeps
BY DEF Quiet, Keeps

LEMMA QuietSchemas ==
  ASSUME ServerInv, NEW p \in Proc, Advances(p), Quiet
  PROVE  SchemasHold'
<1> SUFFICES ASSUME NEW n \in DOMAIN db', ~Disturbed(n)'
             PROVE  Follows(db'[n]) /\ InOrder(db'[n])
  BY DEF SchemasHold
<1>1. CASE n \in DOMAIN db
  <2>1. ~Disturbed(n)
    BY DisturbedForGood DEF ServerInv
  <2>2. Follows(db[n]) /\ InOrder(db[n])
    BY <1>1, <2>1 DEF ServerInv, SchemasHold
  <2>3. db'[n].tables = db[n].tables /\ db'[n].ledger = db[n].ledger
    BY <1>1 DEF Quiet
  <2> QED
    BY <2>2, <2>3 DEF Follows, InOrder
<1>2. CASE n \notin DOMAIN db
  <2>1. db'[n].tables = {} /\ db'[n].ledger = NoLedger
    BY <1>2 DEF Quiet
  <2> QED
    BY <2>1 DEF Follows, InOrder, NoLedger
<1> QED
  BY <1>1, <1>2

\* An instance that is served by an undisturbed database goes on being served.
LEMMA ServesStill ==
  ASSUME ServerTypeOK, Keeps, NEW q, NEW build, NEW n, ~Disturbed(n)', Serves(q, build, n)
  PROVE  Serves(q, build, n)'
<1>1. n \in DOMAIN db /\ n \in DOMAIN db' /\ db[n].tables \subseteq db'[n].tables
      /\ DOMAIN db[n].ledger \subseteq DOMAIN db'[n].ledger
  BY DEF Serves, Exists, Keeps
<1> QED
  BY <1>1 DEF Serves, Exists, KeyPasses, MigrationsReady

LEMMA InstancesServeStill ==
  ASSUME ServerInv, NEW p \in Proc, Advances(p), Keeps, NEW q \in Proc,
         mem'[q].ready = mem[q].ready, mem[q].lost => mem'[q].lost
  PROVE  InstanceServes(q)'
<1> SUFFICES ASSUME NEW i \in 1..Len(q.plan), q.plan[i].do = "ready",
                    ~Disturbed(q.plan[i].on)'
             PROVE  /\ mem'[q].ready # "no" => Serves(q, q.plan[i].build, q.plan[i].on)'
                    /\ mem'[q].ready = "withdrawn" => mem'[q].lost
  BY DEF InstanceServes
<1>1. ~Disturbed(q.plan[i].on)
  BY DisturbedForGood DEF ServerInv
<1>2. /\ mem[q].ready # "no" => Serves(q, q.plan[i].build, q.plan[i].on)
      /\ mem[q].ready = "withdrawn" => mem[q].lost
  BY <1>1 DEF ServerInv, ScriptKnows, InstanceServes
<1> QED
  BY <1>2, ServesStill DEF ServerInv

LEMMA OthersKnow ==
  ASSUME ServerInv, NEW p \in Proc, Advances(p), Remembers(p), Keeps, NEW q \in Proc \ {p}
  PROVE  ScriptKnows(q)'
<1>1. PICK n : n = On(q)
  OBVIOUS
<1>2. /\ at'[q] = at[q] /\ mem'[q] = mem[q] /\ phase'[q] \in {phase[q], "severed"}
      /\ Task(q)' = Task(q) /\ On(q)' = n /\ Build(q)' = Build(q)
      /\ Running(q)' = Running(q)
  BY <1>1 DEF Advances, Remembers, Task, On, Build, Running
<1>3. ScriptKnows(q) /\ ServerTypeOK
  BY DEF ServerInv
<1>4. Disturbed(n) => Disturbed(n)'
  BY <1>3, DisturbedForGood
<1>5. MigratorKnows(q)'
  <2> SUFFICES ASSUME Migrating(q)' PROVE MigratorKnows(q)'
    BY DEF MigratorKnows
  <2>1. Migrating(q) /\ phase'[q] = phase[q]
    BY <1>2 DEF Migrating
  <2>2. phase'[q] # "lookup" => mem'[q].file \in DOMAIN Build(q)'
    BY <1>2, <1>3, <2>1 DEF ScriptKnows, MigratorKnows
  <2>3. ASSUME ~Disturbed(n)' PROVE Migrated(q)'
    <3>1. Migrated(q)
      BY <1>1, <1>3, <1>4, <2>1, <2>3 DEF ScriptKnows, MigratorKnows
    <3>2. /\ n \in DOMAIN db /\ 1..mem[q].file - 1 \subseteq DOMAIN db[n].ledger
          /\ phase[q] = "record" => mem[q].file \in db[n].tables
      BY <1>1, <3>1 DEF Migrated, Exists
    <3>3. /\ n \in DOMAIN db' /\ db[n].tables \subseteq db'[n].tables
          /\ DOMAIN db[n].ledger \subseteq DOMAIN db'[n].ledger
      BY <2>3, <3>2 DEF Keeps
    <3> QED
      BY <1>2, <2>1, <3>2, <3>3 DEF Migrated, Exists
  <2> QED
    BY <1>2, <2>2, <2>3 DEF MigratorKnows
<1>6. ProbeKnows(q)'
  <2> SUFFICES ASSUME Doing(q, "ready", "checks")', ~Disturbed(n)' PROVE ProbeKnows(q)'
    BY <1>2 DEF ProbeKnows
  <2>1. Doing(q, "ready", "checks") /\ ~Disturbed(n)
    BY <1>2, <1>4 DEF Doing
  <2>2. /\ ~mem[q].bad => \A check \in Found(q) : Exists(n) /\ Passes(q, check)
        /\ mem[q].bad /\ mem[q].ready # "no" => mem[q].lost
    BY <1>1, <1>3, <2>1 DEF ScriptKnows, ProbeKnows
  <2>3. ASSUME ~mem[q].bad, NEW check \in Found(q) PROVE Exists(n)' /\ Passes(q, check)'
    <3>1. n \in DOMAIN db /\ Passes(q, check) /\ check \in Checks
      BY <2>2, <2>3 DEF Exists, Found
    <3>2. /\ n \in DOMAIN db' /\ db[n].tables \subseteq db'[n].tables
          /\ DOMAIN db[n].ledger \subseteq DOMAIN db'[n].ledger
      BY <3>1 DEF Keeps
    <3> QED
      BY <1>1, <1>2, <3>1, <3>2 DEF Exists, Passes, MigrationsReady, Checks
  <2>4. Found(q)' = Found(q)
    BY <1>2 DEF Found
  <2> QED
    BY <1>2, <2>2, <2>3, <2>4 DEF ProbeKnows
<1>7. InstanceServes(q)'
  BY <1>2, InstancesServeStill
<1> QED
  BY <1>5, <1>6, <1>7 DEF ScriptKnows

LEMMA StepStands ==
  ASSUME ServerInv, NEW p \in Proc, Advances(p), Remembers(p), DatabasesOK', Keeps,
         SchemasHold', ScriptKnows(p)'
  PROVE  ServerInv'
<1>1. ServerTypeOK'
  BY DEF ServerTypeOK, Advances, ControlOK, Remembers, DatabasesOK
<1>2. \A q \in Proc \ {p} : ScriptKnows(q)'
  BY OthersKnow
<1>3. Proc' = Proc
  BY DEF Advances
<1>4. (\A q \in Proc : ScriptKnows(q))'
  BY <1>2, <1>3
<1> QED
  BY <1>1, <1>4 DEF ServerInv

LEMMA AwayKnows ==
  ASSUME ServerInv, NEW p \in Proc, Advances(p), Keeps, Away(p)
  PROVE  ScriptKnows(p)'
<1>1. phase'[p] = "start" \/ ~Running(p)' \/ Task(p)'.do \notin {"migrate", "ready"}
  BY DEF Away, Task
<1>2. ~Migrating(p)' /\ ~Doing(p, "ready", "checks")'
  BY <1>1 DEF Migrating, Doing
<1>3. InstanceServes(p)'
  BY InstancesServeStill DEF Away
<1> QED
  BY <1>2, <1>3 DEF ScriptKnows, MigratorKnows, ProbeKnows

LEMMA AsideStands ==
  ASSUME ServerInv, NEW p \in Proc, StepsAside(p)
  PROVE  ServerInv'
BY QuietKeeps, QuietSchemas, AwayKnows, StepStands DEF StepsAside

-----------------------------------------------------------------------------
(* The migrator.                                                             *)

LEMMA EndsAside ==
  ASSUME ServerInv, NEW p \in Proc, Running(p), NEW ok, EndTask(p, ok), UNCHANGED <<db, mem>>
  PROVE  ServerInv'
BY SameIsMemory, RowsAside, AsideStands DEF ServerInv

\* A step of a migrator that goes on with its file.
LEMMA MigratorStands ==
  ASSUME ServerInv, NEW p \in Proc, Task(p).do = "migrate", Running(p),
         Advances(p), at'[p] = at[p], DatabasesOK', Keeps, SchemasHold',
         NEW m \in Memory, mem' = [mem EXCEPT ![p] = m],
         m.ready = mem[p].ready, m.lost = mem[p].lost, MigratorKnows(p)'
  PROVE  ServerInv'
<1>1. Remembers(p) /\ mem'[p].ready = mem[p].ready /\ mem'[p].lost = mem[p].lost
  BY MemoriesAre DEF Remembers, ServerInv
<1>2. ~Doing(p, "ready", "checks")'
  BY DEF Doing, Task
<1>3. InstanceServes(p)'
  BY <1>1, InstancesServeStill
<1> QED
  BY <1>1, <1>2, <1>3, StepStands DEF ScriptKnows, ProbeKnows

LEMMA FilesAreVersions ==
  ASSUME ServerTypeOK, NEW p \in Proc, Running(p)
  PROVE  \E k \in 0..Top : Build(p) \in [1..k -> Checksum] /\ 1..k \subseteq Version
BY PlanGoesOn, VersionsAssumption DEF Version

LEMMA SameStands ==
  ASSUME ServerInv, NEW p \in Proc, Advances(p), UNCHANGED db
  PROVE  DatabasesOK' /\ Keeps /\ SchemasHold'
BY SameDatabases, QuietKeeps, QuietSchemas DEF ServerInv

LEMMA DatabaseFields ==
  ASSUME ServerTypeOK, NEW n \in DOMAIN db
  PROVE  /\ db[n] \in Database
         /\ db[n].tables \in SUBSET Table /\ db[n].guards \in SUBSET Version
         /\ db[n].ledger \in Ledger /\ db[n].rows \in SUBSET Origin /\ db[n].by \in Origin
<1>1. db[n] \in Database
  BY DatabaseChanges
<1> QED
  BY <1>1 DEF Database

\* What the migrator remembers from its start, of a file it skips and of one it records.
Starting(o, f, u) == [o EXCEPT !.file = f, !.skipped = FALSE, !.applied = FALSE, !.used = u]
Skipping(o, f) == [o EXCEPT !.file = f, !.skipped = TRUE]
Recording(o, f) == [o EXCEPT !.file = f, !.applied = TRUE]

LEMMA FileMoves ==
  ASSUME NEW o \in Memory, NEW f \in Nat \ {0}, NEW u \in SUBSET Origin
  PROVE  \A s \in {Starting(o, f, u), Skipping(o, f), Recording(o, f)} :
           s \in Memory /\ s.ready = o.ready /\ s.lost = o.lost /\ s.file = f
<1>1. /\ Starting(o, f, u) \in Memory /\ Starting(o, f, u).ready = o.ready
      /\ Starting(o, f, u).lost = o.lost /\ Starting(o, f, u).file = f
  BY DEF Starting, Memory
<1>2. /\ Skipping(o, f) \in Memory /\ Skipping(o, f).ready = o.ready
      /\ Skipping(o, f).lost = o.lost /\ Skipping(o, f).file = f
  BY DEF Skipping, Memory
<1>3. /\ Recording(o, f) \in Memory /\ Recording(o, f).ready = o.ready
      /\ Recording(o, f).lost = o.lost /\ Recording(o, f).file = f
  BY DEF Recording, Memory
<1> QED
  BY <1>1, <1>2, <1>3

LEMMA CreateLedgerStands ==
  ASSUME ServerInv, NEW p \in Proc, CreateLedger(p)
  PROVE  ServerInv'
<1> USE DEF ServerInv
<1>1. PICK n \in DOMAIN db : n = On(p)
  BY DEF CreateLedger, Exists
<1>2. /\ Task(p).do = "migrate" /\ Running(p) /\ Goto(p, "lookup")
      /\ db' = [db EXCEPT ![n].tables = db[n].tables \cup {0}]
  BY <1>1 DEF CreateLedger, Doing
<1>3. Advances(p) /\ phase'[p] = "lookup" /\ at'[p] = at[p]
  BY <1>2, GotoAdvances DEF Phases
<1>4. db[n] \in Database /\ db[n].tables \cup {0} \in SUBSET Table /\ db[n].by \in Origin
  BY DatabaseFields, VersionsAssumption DEF Table
<1>5. /\ DatabasesOK' /\ DOMAIN db' = DOMAIN db
      /\ db'[n].tables = db[n].tables \cup {0} /\ db'[n].ledger = db[n].ledger
      /\ \A o \in DOMAIN db \ {n} : db'[o] = db[o]
  BY <1>2, <1>4 DEF DatabasesOK, Database, ServerTypeOK
<1>6. Keeps
  BY <1>5 DEF Keeps
<1>7. SchemasHold'
  <2> SUFFICES ASSUME NEW o \in DOMAIN db, ~Disturbed(o)'
               PROVE  Follows(db'[o]) /\ InOrder(db'[o])
    BY <1>5 DEF SchemasHold
  <2>1. Follows(db[o]) /\ InOrder(db[o])
    BY <1>3, DisturbedForGood DEF SchemasHold
  <2> QED
    BY <1>5, <2>1 DEF Follows, InOrder
<1> DEFINE m == [mem[p] EXCEPT !.file = 1, !.skipped = FALSE, !.applied = FALSE,
                               !.used = @ \cup {db[On(p)].by}]
<1>8. m \in Memory /\ m.ready = mem[p].ready /\ m.lost = mem[p].lost /\ m.file = 1
  <2>1. PICK o \in Memory : o = mem[p]
    BY MemoriesAre
  <2>2. PICK u \in SUBSET Origin : u = mem[p].used \cup {db[On(p)].by}
    BY <1>1, <1>4, <2>1 DEF Memory
  <2>3. PICK f \in Nat \ {0} : f = 1
    OBVIOUS
  <2>4. m = Starting(o, f, u)
    BY <2>1, <2>2, <2>3 DEF Starting
  <2> HIDE DEF m
  <2> QED
    BY <2>1, <2>3, <2>4, FileMoves
<1>9. mem' = [mem EXCEPT ![p] = m]
  BY DEF CreateLedger
<1>10. MigratorKnows(p)'
  <2>1. mem'[p].file = 1 /\ On(p)' = n /\ n \in DOMAIN db'
    BY <1>1, <1>3, <1>5, <1>8, <1>9, MemoriesAre DEF On, Task
  <2> QED
    BY <1>3, <2>1 DEF MigratorKnows, Migrated, Exists
<1> HIDE DEF m
<1> QED
  BY <1>2, <1>3, <1>5, <1>6, <1>7, <1>8, <1>9, <1>10, MigratorStands

LEMMA LookupStands ==
  ASSUME ServerInv, NEW p \in Proc, Lookup(p)
  PROVE  ServerInv'
<1> USE DEF ServerInv
<1> DEFINE v == mem[p].file
           row == db[On(p)].ledger
<1>1. PICK n \in DOMAIN db : n = On(p)
  BY DEF Lookup, Exists
<1>2. /\ Task(p).do = "migrate" /\ Running(p) /\ phase[p] = "lookup" /\ v \in DOMAIN Build(p)
      /\ UNCHANGED db
  BY DEF Lookup, Doing
<1>3. MigratorKnows(p) /\ Migrating(p)
  BY <1>2 DEF ScriptKnows, Migrating
<1>4. CASE EndTask(p, FALSE) /\ UNCHANGED mem
  BY <1>2, <1>4, EndsAside
<1>5. CASE /\ v \in DOMAIN row /\ mem' = [mem EXCEPT ![p].file = v + 1, ![p].skipped = TRUE]
           /\ UNCHANGED <<at, phase, failed>>
  <2>1. Advances(p) /\ phase'[p] = "lookup" /\ at'[p] = at[p]
    BY <1>2, <1>5, StayingAdvances
  <2>2. DatabasesOK' /\ Keeps /\ SchemasHold'
    BY <1>2, <2>1, SameStands
  <2> DEFINE m == [mem[p] EXCEPT !.file = v + 1, !.skipped = TRUE]
  <2>3. m \in Memory /\ m.ready = mem[p].ready /\ m.lost = mem[p].lost /\ m.file = v + 1
        /\ v \in Nat \ {0}
    <3>1. PICK o \in Memory : o = mem[p]
      BY MemoriesAre
    <3>2. v \in Nat \ {0}
      BY <3>1 DEF Memory
    <3>3. PICK f \in Nat \ {0} : f = v + 1
      BY <3>2
    <3>4. m = Skipping(o, f) /\ {} \in SUBSET Origin
      BY <3>1, <3>3 DEF Skipping
    <3> HIDE DEF m
    <3> QED
      BY <3>1, <3>2, <3>3, <3>4, FileMoves
  <2>4. mem' = [mem EXCEPT ![p] = m]
    BY <1>5
  <2>5. MigratorKnows(p)'
    <3>1. mem'[p].file = v + 1 /\ On(p)' = n /\ n \in DOMAIN db' /\ db' = db
      BY <1>1, <1>2, <2>1, <2>3, <2>4, MemoriesAre DEF On, Task
    <3>2. ~Disturbed(n)' => 1..v - 1 \subseteq DOMAIN db[n].ledger
      BY <1>1, <1>3, <2>1, DisturbedForGood DEF MigratorKnows, Migrated
    <3>3. ~Disturbed(n)' => 1..(v + 1) - 1 \subseteq DOMAIN db[n].ledger
      BY <1>1, <1>5, <2>3, <3>2
    <3> QED
      BY <2>1, <3>1, <3>3 DEF MigratorKnows, Migrated, Exists
  <2> HIDE DEF m
  <2> QED
    BY <1>2, <2>1, <2>2, <2>3, <2>4, <2>5, MigratorStands
<1>6. CASE Goto(p, "apply") /\ UNCHANGED mem
  <2>1. Advances(p) /\ phase'[p] = "apply" /\ at'[p] = at[p]
    BY <1>6, GotoAdvances DEF Phases
  <2>2. DatabasesOK' /\ Keeps /\ SchemasHold'
    BY <1>2, <2>1, SameStands
  <2>3. MigratorKnows(p)'
    <3>1. On(p)' = n /\ Build(p)' = Build(p) /\ db' = db /\ mem' = mem
      BY <1>1, <1>2, <1>6, <2>1 DEF On, Task, Build
    <3>2. ~Disturbed(n)' => 1..v - 1 \subseteq DOMAIN db[n].ledger
      BY <1>1, <1>3, <2>1, DisturbedForGood DEF MigratorKnows, Migrated
    <3> QED
      BY <1>2, <2>1, <3>1, <3>2 DEF MigratorKnows, Migrated, Exists
  <2> QED
    BY <1>2, <1>6, <2>1, <2>2, <2>3, SameIsMemory, MigratorStands
<1> QED
  BY <1>4, <1>5, <1>6 DEF Lookup

LEMMA ApplyStands ==
  ASSUME ServerInv, NEW p \in Proc, Apply(p)
  PROVE  ServerInv'
<1> USE DEF ServerInv
<1> DEFINE v == mem[p].file
<1>1. PICK n \in DOMAIN db : n = On(p)
  BY DEF Apply, Exists
<1>2. Task(p).do = "migrate" /\ Running(p) /\ phase[p] = "apply" /\ UNCHANGED mem
  BY DEF Apply, Doing
<1>3. MigratorKnows(p) /\ Migrating(p)
  BY <1>2 DEF ScriptKnows, Migrating
<1>4. CASE EndTask(p, FALSE) /\ UNCHANGED db
  BY <1>2, <1>4, EndsAside
<1>5. CASE /\ v \notin db[n].tables /\ 1..v - 1 \subseteq db[n].tables
           /\ db' = [db EXCEPT ![n].tables = db[n].tables \cup {v},
                               ![n].guards = db[n].guards \cup {v}]
           /\ Goto(p, "record")
  <2>1. Advances(p) /\ phase'[p] = "record" /\ at'[p] = at[p]
    BY <1>5, GotoAdvances DEF Phases
  <2>2. v \in DOMAIN Build(p) /\ v \in Version /\ v \in Nat \ {0}
    BY <1>2, <1>3, FilesAreVersions, MemoriesAre DEF MigratorKnows, Memory
  <2>3. /\ db[n] \in Database /\ db[n].tables \cup {v} \in SUBSET Table
        /\ db[n].guards \cup {v} \in SUBSET Version
    BY <2>2, DatabaseFields DEF Table, Version
  <2>4. /\ DatabasesOK' /\ DOMAIN db' = DOMAIN db
        /\ db'[n].tables = db[n].tables \cup {v} /\ db'[n].ledger = db[n].ledger
        /\ \A o \in DOMAIN db \ {n} : db'[o] = db[o]
    BY <1>5, <2>3 DEF DatabasesOK, Database, ServerTypeOK
  <2>5. Keeps
    BY <2>4 DEF Keeps
  <2>6. SchemasHold'
    <3> SUFFICES ASSUME NEW o \in DOMAIN db, ~Disturbed(o)'
                 PROVE  Follows(db'[o]) /\ InOrder(db'[o])
      BY <2>4 DEF SchemasHold
    <3>1. Follows(db[o]) /\ InOrder(db[o])
      BY <2>1, DisturbedForGood DEF SchemasHold
    <3>2. CASE o # n
      BY <2>4, <3>1, <3>2
    <3>3. CASE o = n
      <4>1. 1..v - 1 \subseteq DOMAIN db[n].ledger
        BY <1>1, <1>3, <2>1, <3>3, DisturbedForGood DEF MigratorKnows, Migrated
      <4>2. ASSUME NEW w \in db[n].tables \ {0} PROVE w \in DOMAIN db[n].ledger
        <5>1. w \in Nat \ {0} /\ 1..w \subseteq db[n].tables
          BY <2>3, <3>1, <3>3, VersionsAssumption DEF Table, InOrder
        <5>2. v \notin 1..w
          BY <1>5, <5>1
        <5> QED
          BY <2>2, <4>1, <5>1, <5>2
      <4>3. Follows(db'[n])
        BY <2>4, <3>1, <3>3, <4>2 DEF Follows
      <4>4. InOrder(db'[n])
        <5>1. 1..v \subseteq db[n].tables \cup {v}
          BY <1>5, <2>2
        <5> QED
          BY <2>4, <3>1, <3>3, <5>1 DEF InOrder
      <4> QED
        BY <3>3, <4>3, <4>4
    <3> QED
      BY <3>2, <3>3
  <2>7. MigratorKnows(p)'
    <3>1. On(p)' = n /\ Build(p)' = Build(p) /\ mem' = mem
      BY <1>1, <1>2, <2>1 DEF On, Task, Build
    <3>2. ~Disturbed(n)' => 1..v - 1 \subseteq DOMAIN db[n].ledger
      BY <1>1, <1>3, <2>1, DisturbedForGood DEF MigratorKnows, Migrated
    <3> QED
      BY <2>1, <2>2, <2>4, <3>1, <3>2 DEF MigratorKnows, Migrated, Exists
  <2> QED
    BY <1>2, <2>1, <2>4, <2>5, <2>6, <2>7, SameIsMemory, MigratorStands
<1> QED
  BY <1>1, <1>4, <1>5 DEF Apply

LEMMA RecordFileStands ==
  ASSUME ServerInv, NEW p \in Proc, RecordFile(p)
  PROVE  ServerInv'
<1> USE DEF ServerInv
<1> DEFINE v == mem[p].file
           row == [w \in {v} |-> Build(p)[w]]
<1>1. PICK n \in DOMAIN db : n = On(p)
  BY DEF RecordFile, Exists
<1>2. Task(p).do = "migrate" /\ Running(p) /\ phase[p] = "record"
  BY DEF RecordFile, Doing
<1>3. MigratorKnows(p) /\ Migrating(p)
  BY <1>2 DEF ScriptKnows, Migrating
<1>4. CASE EndTask(p, FALSE) /\ UNCHANGED <<db, mem>>
  BY <1>2, <1>4, EndsAside
<1>5. CASE /\ db' = [db EXCEPT ![n].ledger = Joined(db[n].ledger, row)]
           /\ mem' = [mem EXCEPT ![p].file = v + 1, ![p].applied = TRUE]
           /\ Goto(p, "lookup")
  <2>1. Advances(p) /\ phase'[p] = "lookup" /\ at'[p] = at[p]
    BY <1>5, GotoAdvances DEF Phases
  <2>2. v \in DOMAIN Build(p) /\ v \in Version /\ v \in Nat \ {0} /\ Build(p)[v] \in Checksum
    BY <1>2, <1>3, FilesAreVersions, MemoriesAre DEF MigratorKnows, Memory
  <2>3. row \in Ledger /\ DOMAIN row = {v}
    <3>1. row \in [{v} -> Checksum] /\ {v} \in SUBSET Version
      BY <2>2
    <3> QED
      BY <3>1 DEF Ledger
  <2>4. PICK l \in Ledger : /\ l = Joined(db[n].ledger, row)
                            /\ DOMAIN l = DOMAIN db[n].ledger \cup {v}
    <3>1. db[n].ledger \in Ledger
      BY DatabaseChanges DEF Database
    <3> HIDE DEF row
    <3> QED
      BY <2>3, <3>1, JoinedLedgers
  <2>5. /\ DatabasesOK' /\ DOMAIN db' = DOMAIN db
        /\ db'[n].tables = db[n].tables /\ db'[n].ledger = l
        /\ \A o \in DOMAIN db \ {n} : db'[o] = db[o]
    <3>1. db' = [db EXCEPT ![n].ledger = l] /\ db[n] \in Database
      BY <1>5, <2>4, DatabaseChanges
    <3> QED
      BY <3>1 DEF DatabasesOK, Database, ServerTypeOK
  <2>6. Keeps
    BY <2>4, <2>5 DEF Keeps
  <2>7. ~Disturbed(n)' => 1..v - 1 \subseteq DOMAIN db[n].ledger /\ v \in db[n].tables
    BY <1>1, <1>2, <1>3, <2>1, DisturbedForGood DEF MigratorKnows, Migrated
  <2>8. SchemasHold'
    <3> SUFFICES ASSUME NEW o \in DOMAIN db, ~Disturbed(o)'
                 PROVE  Follows(db'[o]) /\ InOrder(db'[o])
      BY <2>5 DEF SchemasHold
    <3>1. Follows(db[o]) /\ InOrder(db[o])
      BY <2>1, DisturbedForGood DEF SchemasHold
    <3> QED
      BY <2>4, <2>5, <2>7, <3>1 DEF Follows, InOrder
  <2> DEFINE m == [mem[p] EXCEPT !.file = v + 1, !.applied = TRUE]
  <2>9. m \in Memory /\ m.ready = mem[p].ready /\ m.lost = mem[p].lost /\ m.file = v + 1
    <3>1. PICK o \in Memory : o = mem[p]
      BY MemoriesAre
    <3>2. PICK f \in Nat \ {0} : f = v + 1
      BY <2>2
    <3>3. m = Recording(o, f) /\ {} \in SUBSET Origin
      BY <3>1, <3>2 DEF Recording
    <3> HIDE DEF m
    <3> QED
      BY <3>1, <3>2, <3>3, FileMoves
  <2>10. mem' = [mem EXCEPT ![p] = m]
    BY <1>5
  <2>11. MigratorKnows(p)'
    <3>1. mem'[p].file = v + 1 /\ On(p)' = n /\ n \in DOMAIN db'
      BY <1>1, <2>1, <2>5, <2>9, <2>10, MemoriesAre DEF On, Task
    <3>2. ~Disturbed(n)' => 1..(v + 1) - 1 \subseteq DOMAIN db'[n].ledger
      BY <2>2, <2>4, <2>5, <2>7
    <3> QED
      BY <2>1, <3>1, <3>2 DEF MigratorKnows, Migrated, Exists
  <2> HIDE DEF m
  <2> QED
    BY <1>2, <2>1, <2>5, <2>6, <2>8, <2>9, <2>10, <2>11, MigratorStands
<1> QED
  BY <1>1, <1>4, <1>5 DEF RecordFile

LEMMA MigrateStands ==
  ASSUME ServerInv, NEW p \in Proc, Migrate(p)
  PROVE  ServerInv'
<1>1. CASE Done(p)
  BY <1>1, EndsAside DEF Done, Doing
<1> QED
  BY <1>1, CreateLedgerStands, LookupStands, ApplyStands, RecordFileStands DEF Migrate

-----------------------------------------------------------------------------
(* The probe.                                                                *)

LEMMA ProbeStands ==
  ASSUME ServerInv, NEW p \in Proc, Task(p).do = "ready",
         Advances(p), phase'[p] = "start" \/ at'[p] = at[p], UNCHANGED db,
         Remembers(p), ProbeKnows(p)', InstanceServes(p)'
  PROVE  ServerInv'
<1>1. ~Migrating(p)'
  BY DEF Migrating, Task
<1> QED
  BY <1>1, SameStands, StepStands DEF ScriptKnows, MigratorKnows

LEMMA AskStands ==
  ASSUME ServerInv, NEW p \in Proc, Ask(p)
  PROVE  ServerInv'
<1> USE DEF ServerInv
<1>1. Task(p).do = "ready" /\ Goto(p, "checks") /\ UNCHANGED db
  BY DEF Ask, Doing
<1>2. Advances(p) /\ at'[p] = at[p]
  BY <1>1, GotoAdvances DEF Phases
<1> DEFINE m == [mem[p] EXCEPT !.pending = Checks, !.bad = FALSE]
<1>3. m \in Memory /\ m.ready = mem[p].ready /\ m.lost = mem[p].lost /\ m.pending = Checks
      /\ m.bad = FALSE
  BY MemoriesAre DEF Memory
<1>4. mem' = [mem EXCEPT ![p] = m]
  BY DEF Ask
<1> HIDE DEF m
<1>5. Remembers(p) /\ mem'[p] = m
  BY <1>3, <1>4, MemoriesAre DEF Remembers
<1>6. ProbeKnows(p)'
  BY <1>3, <1>5 DEF ProbeKnows, Found
<1>7. InstanceServes(p)'
  BY <1>1, <1>2, <1>3, <1>5, SameStands, InstancesServeStill
<1> QED
  BY <1>1, <1>2, <1>5, <1>6, <1>7, ProbeStands

LEMMA CheckThrowsStands ==
  ASSUME ServerInv, NEW p \in Proc, CheckThrows(p)
  PROVE  ServerInv'
<1> USE DEF ServerInv
<1>1. Task(p).do = "ready" /\ UNCHANGED <<db, at, phase, failed>>
  BY DEF CheckThrows, Doing
<1>2. Advances(p) /\ at'[p] = at[p]
  BY <1>1, StayingAdvances
<1> DEFINE m == [mem[p] EXCEPT !.pending = {}, !.bad = TRUE, !.lost = TRUE]
<1>3. m \in Memory /\ m.ready = mem[p].ready /\ m.bad = TRUE /\ m.lost = TRUE
  BY MemoriesAre DEF Memory
<1>4. mem' = [mem EXCEPT ![p] = m]
  BY DEF CheckThrows
<1> HIDE DEF m
<1>5. Remembers(p) /\ mem'[p] = m
  BY <1>3, <1>4, MemoriesAre DEF Remembers
<1>6. ProbeKnows(p)'
  BY <1>3, <1>5 DEF ProbeKnows
<1>7. InstanceServes(p)'
  BY <1>1, <1>2, <1>3, <1>5, SameStands, InstancesServeStill
<1> QED
  BY <1>1, <1>2, <1>5, <1>6, <1>7, ProbeStands

\* A check finds what it asks for in an undisturbed database whose instance was ready.
LEMMA ServedPasses ==
  ASSUME ServerInv, NEW p \in Proc, Running(p), Task(p).do = "ready", ~Disturbed(On(p)),
         mem[p].ready # "no", NEW check \in Checks
  PROVE  KeyPasses(p) /\ Exists(On(p)) /\ Passes(p, check)
<1>1. at[p] \in 1..Len(p.plan) /\ p.plan[at[p]] = Task(p)
  BY DEF Running, Task
<1>2. Serves(p, Build(p), On(p))
  BY <1>1 DEF ServerInv, ScriptKnows, InstanceServes, On, Build
<1> QED
  BY <1>2 DEF Serves, Passes, Checks

LEMMA CheckStands ==
  ASSUME ServerInv, NEW p \in Proc, Check(p)
  PROVE  ServerInv'
<1> USE DEF ServerInv
<1>1. Running(p) /\ Task(p).do = "ready" /\ UNCHANGED <<db, at, phase, failed>>
      /\ Doing(p, "ready", "checks")
  BY DEF Check, Doing
<1>2. Advances(p) /\ at'[p] = at[p]
  BY <1>1, StayingAdvances
<1>3. PICK check \in mem[p].pending :
        mem' = [mem EXCEPT ![p].pending = @ \ {check},
                           ![p].bad = @ \/ ~Exists(On(p)) \/ ~Passes(p, check)]
  BY DEF Check
<1> DEFINE fails == mem[p].bad \/ ~Exists(On(p)) \/ ~Passes(p, check)
           m == [mem[p] EXCEPT !.pending = mem[p].pending \ {check}, !.bad = fails]
<1>4. /\ m \in Memory /\ m.ready = mem[p].ready /\ m.lost = mem[p].lost
      /\ m.pending = mem[p].pending \ {check} /\ m.bad = fails
      /\ mem[p].pending \subseteq Checks
  <2>1. PICK f \in BOOLEAN : f = fails
    OBVIOUS
  <2>2. mem[p] \in Memory
    BY MemoriesAre
  <2> HIDE DEF fails
  <2> QED
    BY <2>1, <2>2 DEF Memory
<1>5. mem' = [mem EXCEPT ![p] = m]
  BY <1>3
<1> HIDE DEF m
<1>6. Remembers(p) /\ mem'[p] = m
  BY <1>4, <1>5, MemoriesAre DEF Remembers
<1>7. ProbeKnows(p)'
  <2> SUFFICES ASSUME ~Disturbed(On(p))'
               PROVE  /\ ~fails => \A c \in Found(p)' : Exists(On(p))' /\ Passes(p, c)'
                      /\ fails /\ mem[p].ready # "no" => mem[p].lost
    BY <1>4, <1>6 DEF ProbeKnows
  <2>1. ~Disturbed(On(p))
    <3>1. PICK n : n = On(p)
      OBVIOUS
    <3>2. On(p)' = n
      BY <1>2, <3>1 DEF On, Task
    <3> QED
      BY <1>2, <3>1, <3>2, DisturbedForGood
  <2>2. /\ ~mem[p].bad => \A c \in Found(p) : Exists(On(p)) /\ Passes(p, c)
        /\ mem[p].bad /\ mem[p].ready # "no" => mem[p].lost
    BY <1>1, <2>1 DEF ScriptKnows, ProbeKnows
  <2>3. Found(p)' = Found(p) \cup {check}
    BY <1>4, <1>6 DEF Found
  <2>4. ASSUME NEW c PROVE (Exists(On(p))' <=> Exists(On(p))) /\ (Passes(p, c)' = Passes(p, c))
    BY <1>1 DEF Exists, On, Task, Passes, MigrationsReady, Build
  <2>5. fails /\ mem[p].ready # "no" => mem[p].lost
    BY <1>1, <1>4, <2>1, <2>2, ServedPasses
  <2> QED
    BY <2>2, <2>3, <2>4, <2>5
<1>8. InstanceServes(p)'
  BY <1>1, <1>2, <1>4, <1>6, SameStands, InstancesServeStill
<1> QED
  BY <1>1, <1>2, <1>6, <1>7, <1>8, ProbeStands

\* A probe that has not failed on an undisturbed database has found all it asked for.
LEMMA AnsweredTruly ==
  ASSUME ServerInv, NEW p \in Proc, Doing(p, "ready", "checks"), mem[p].pending = {},
         ~Disturbed(On(p)), KeyPasses(p), ~mem[p].bad
  PROVE  Serves(p, Build(p), On(p))
<1>1. \A check \in Checks : Exists(On(p)) /\ Passes(p, check)
  BY DEF ServerInv, ScriptKnows, ProbeKnows, Found
<1> QED
  BY <1>1 DEF Checks, Passes, Serves

LEMMA AnswerStands ==
  ASSUME ServerInv, NEW p \in Proc, Answer(p)
  PROVE  ServerInv'
<1> USE DEF ServerInv
<1> DEFINE ok == KeyPasses(p) /\ ~mem[p].bad
           says == IF ok THEN "yes" ELSE IF mem[p].ready = "no" THEN "no" ELSE "withdrawn"
           m == [mem[p] EXCEPT !.ready = says]
<1>1. /\ Running(p) /\ Task(p).do = "ready" /\ UNCHANGED db /\ EndTask(p, TRUE)
      /\ Doing(p, "ready", "checks") /\ mem[p].pending = {}
  BY DEF Answer, Doing
<1>2. Advances(p) /\ phase'[p] = "start"
  BY <1>1, EndTaskAdvances
<1>3. m \in Memory /\ m.ready = says /\ m.lost = mem[p].lost
  <2>1. says \in {"no", "yes", "withdrawn"}
    OBVIOUS
  <2>2. mem[p] \in Memory
    BY MemoriesAre
  <2> HIDE DEF says
  <2> QED
    BY <2>1, <2>2 DEF Memory
<1>4. mem' = [mem EXCEPT ![p] = m]
  BY DEF Answer
<1> HIDE DEF m
<1>5. Remembers(p) /\ mem'[p] = m
  BY <1>3, <1>4, MemoriesAre DEF Remembers
<1>6. ProbeKnows(p)'
  BY <1>2 DEF ProbeKnows, Doing
<1>7. InstanceServes(p)'
  <2> SUFFICES ASSUME NEW i \in 1..Len(p.plan), p.plan[i].do = "ready",
                      ~Disturbed(p.plan[i].on)'
               PROVE  /\ says # "no" => Serves(p, p.plan[i].build, p.plan[i].on)'
                      /\ says = "withdrawn" => mem[p].lost
    BY <1>3, <1>5 DEF InstanceServes
  <2>1. p.plan[i].on = On(p) /\ p.plan[i].build = Build(p)
    BY <1>1, PlanAssumption DEF ServerTypeOK, Running, Task, On, Build
  <2>2. ~Disturbed(On(p))
    BY <1>2, <2>1, DisturbedForGood
  <2>3. says # "no" => Serves(p, Build(p), On(p))
    <3>1. CASE ok
      BY <1>1, <2>2, <3>1, AnsweredTruly
    <3>2. CASE mem[p].ready # "no"
      BY <2>1, <2>2, <3>2 DEF ScriptKnows, InstanceServes
    <3> QED
      BY <3>1, <3>2
  <2>4. says = "withdrawn" => mem[p].lost
    BY <1>1, <2>2, ServedPasses DEF ScriptKnows, ProbeKnows, Checks
  <2>5. says # "no" => Serves(p, p.plan[i].build, p.plan[i].on)'
    BY <1>1, <2>1, <2>3 DEF Serves, KeyPasses, Exists, MigrationsReady
  <2> QED
    BY <2>4, <2>5
<1> QED
  BY <1>1, <1>2, <1>5, <1>6, <1>7, ProbeStands

-----------------------------------------------------------------------------
(* The theorems.                                                             *)

LEMMA InitServes ==
  ASSUME ServerInit
  PROVE  ServerInv
<1>1. PICK M \in Meetings : at = [p \in M |-> 1]
  BY DEF ServerInit
<1>2. Proc = M
  BY <1>1 DEF Proc
<1>3. ServerTypeOK
  <2>1. \A p \in Proc : at[p] <= Len(p.plan) + 1
    BY <1>1, <1>2, PlanAssumption
  <2>2. Forgotten \in Memory
    <3>1. "nobody" \in Origin
      BY DEF Origin
    <3>2. PICK d \in Database : d = Empty("nobody")
      BY <3>1, EmptyIsDatabase
    <3>3. Forgotten = [file |-> 1, skipped |-> FALSE, applied |-> FALSE, pending |-> {},
                       bad |-> FALSE, ready |-> "no", lost |-> FALSE, created |-> FALSE,
                       errors |-> FALSE, used |-> {}, dump |-> d, copy |-> d, shape |-> d]
      BY <3>2 DEF Forgotten
    <3> QED
      BY <3>3 DEF Memory
  <2>3. mem \in [Proc -> Memory] /\ phase \in [Proc -> Phases] /\ failed \in [Proc -> BOOLEAN]
    BY <2>2 DEF ServerInit, Phases
  <2>4. db \in [DOMAIN db -> Database]
    BY StartAssumption DEF ServerInit
  <2> QED
    BY <1>1, <1>2, <2>1, <2>3, <2>4 DEF ServerTypeOK
<1>4. SchemasHold
  BY StartAssumption DEF ServerInit, SchemasHold
<1>5. ASSUME NEW p \in Proc PROVE ScriptKnows(p)
  <2>1. phase[p] = "start" /\ mem[p].ready = "no"
    BY <1>5 DEF ServerInit, Forgotten
  <2> QED
    BY <2>1 DEF ScriptKnows, MigratorKnows, ProbeKnows, InstanceServes, Migrating, Doing
<1> QED
  BY <1>3, <1>4, <1>5 DEF ServerInv

LEMMA ServerStep ==
  ASSUME ServerInv, [ReleaseNext]_serverVars
  PROVE  ServerInv'
<1>1. CASE UNCHANGED serverVars
  <2>1. UNCHANGED <<db, at, phase, mem, failed>>
    BY <1>1 DEF serverVars
  <2>2. Proc' = Proc /\ \A n : Disturbed(n)' = Disturbed(n)
    BY <2>1 DEF Proc, Disturbed, Replaces
  <2>3. ServerTypeOK'
    BY <2>1, <2>2 DEF ServerInv, ServerTypeOK
  <2>4. SchemasHold'
    BY <2>1, <2>2 DEF ServerInv, SchemasHold
  <2>5. ASSUME NEW p \in Proc PROVE ScriptKnows(p)'
    <3>1. MigratorKnows(p)' = MigratorKnows(p)
      BY <2>1 DEF MigratorKnows, Migrating, Migrated, Running, Task, On, Build, Exists,
         Disturbed, Replaces, Proc
    <3>2. ProbeKnows(p)' = ProbeKnows(p)
      BY <2>1 DEF ProbeKnows, Doing, Found, Passes, MigrationsReady, Running, Task, On, Build,
         Exists, Disturbed, Replaces, Proc
    <3>3. InstanceServes(p)' = InstanceServes(p)
      BY <2>1 DEF InstanceServes, Serves, KeyPasses, Exists, MigrationsReady, Disturbed,
         Replaces, Proc
    <3> QED
      BY <3>1, <3>2, <3>3 DEF ServerInv, ScriptKnows
  <2>6. (\A p \in Proc : ScriptKnows(p))'
    BY <2>2, <2>5
  <2> QED
    BY <2>3, <2>4, <2>6 DEF ServerInv
<1>2. ASSUME NEW p \in Proc, MigrationStep(p) \/ Gate(p) \/ Fresh(p) PROVE ServerInv'
  <2>1. CASE Gate(p) \/ Fresh(p) \/ Fail(p) \/ Kill(p)
    BY <2>1, OthersStepAside, AsideStands DEF ServerInv
  <2>2. CASE Migrate(p)
    BY <2>2, MigrateStands
  <2>3. CASE Ready(p)
    BY <2>3, AskStands, CheckStands, CheckThrowsStands, AnswerStands DEF Ready
  <2> QED
    BY <1>2, <2>1, <2>2, <2>3 DEF MigrationStep
<1> QED
  BY <1>1, <1>2 DEF ReleaseNext, AllEnded

\* Whatever scripts meet on the server, and wherever they are killed: the migrators know
\* what they have recorded, the probes what they have found, and the instances are served.
THEOREM ServerIsInvariant == ReleaseSpec => []ServerInv
<1>1. ServerInit => ServerInv
  BY InitServes
<1>2. ServerInv /\ [ReleaseNext]_serverVars => ServerInv'
  BY ServerStep
<1> QED
  BY <1>1, <1>2, PTL DEF ReleaseSpec

\* An interrupted migrator, or two at once, never leave a database whose ledger names
\* what is not there, or lacks more than the one file that was being applied.
THEOREM LedgersFollowSchemas == ReleaseSpec => []LedgerFollowsSchema
<1>1. ServerInv => LedgerFollowsSchema
  BY DEF ServerInv, SchemasHold, LedgerFollowsSchema
<1> QED
  BY <1>1, ServerIsInvariant, PTL

\* Readiness is not given to an instance whose tables are missing, and newer migrations
\* do not take it away.
THEOREM ReadinessIsTrue == ReleaseSpec => []ReadyIsTrue
<1>1. ASSUME ServerInv PROVE ReadyIsTrue
  <2> SUFFICES ASSUME NEW p \in Proc, NEW i \in 1..Len(p.plan), p.plan[i].do = "ready",
                      ~Disturbed(p.plan[i].on)
               PROVE  LET n == p.plan[i].on IN
                      /\ mem[p].ready = "yes" =>
                           Exists(n) /\ DOMAIN p.plan[i].build \subseteq db[n].tables
                      /\ mem[p].ready = "withdrawn" => mem[p].lost
    BY DEF ReadyIsTrue
  <2>1. /\ mem[p].ready # "no" => Serves(p, p.plan[i].build, p.plan[i].on)
        /\ mem[p].ready = "withdrawn" => mem[p].lost
    BY <1>1 DEF ServerInv, ScriptKnows, InstanceServes
  <2>2. Exists(p.plan[i].on) => Follows(db[p.plan[i].on])
    BY <1>1 DEF ServerInv, SchemasHold, Exists
  <2> QED
    BY <2>1, <2>2 DEF Serves, MigrationsReady, Follows
<1> QED
  BY <1>1, ServerIsInvariant, PTL

-----------------------------------------------------------------------------
(* What any step of a script leaves as it is: in the course of the scripts,  *)
(* in their memories and in the databases.                                   *)

Course(p) ==
  /\ Running(p) /\ Proc' = Proc
  /\ \A q \in Proc \ {p} :
       at'[q] = at[q] /\ failed'[q] = failed[q] /\ phase'[q] \in {phase[q], "severed"}
  /\ at[p] <= at'[p]
  /\ ~failed'[p] => ~failed[p] /\ at'[p] \in {at[p], at[p] + 1}
  /\ at'[p] = at[p] \/ phase'[p] = "start" \/ ~Running(p)'

\* What p dumped, restored and counted is told apart from what it only used.
Memorises(p) ==
  /\ \A q \in Proc \ {p} : mem'[q] = mem[q]
  /\ mem'[p].used \subseteq mem[p].used \cup {db[n].by : n \in DOMAIN db \cap {On(p)}}
  /\ Task(p).do # "backup" => mem'[p].dump = mem[p].dump
  /\ Task(p).do # "restore" => mem'[p].copy = mem[p].copy
  /\ Task(p).do \notin {"count", "shape"} => mem'[p].shape = mem[p].shape

Grows(d, e) ==
  /\ d.tables \subseteq e.tables /\ d.guards \subseteq e.guards
  /\ DOMAIN d.ledger \subseteq DOMAIN e.ledger
  /\ \A v \in DOMAIN d.ledger : e.ledger[v] = d.ledger[v]

\* A database is made empty, is dropped with the sessions on it, or keeps what it has,
\* unless it is restored into.
Alters(p) ==
  /\ \A n \in DOMAIN db' \ DOMAIN db :
       n = On(p) /\ db'[n] = Empty(p.id) /\ Task(p).do \in {"create", "recreate", "restore"}
  /\ \A n \in DOMAIN db \ DOMAIN db' :
       /\ Replaces(p, at[p], n) /\ Task(p).do # "restore"
       /\ phase'[p] \in {"start", "create"}
       /\ \A q \in Proc \ {p} :
            Running(q) /\ On(q) = n /\ Task(q).do # "ready" /\ phase[q] \notin {"start", "create"}
              => phase'[q] = "severed"
  /\ \A n \in DOMAIN db \cap DOMAIN db' :
       /\ db'[n].by = db[n].by
       /\ n # On(p) => db'[n] = db[n]
       /\ Task(p).do # "restore" =>
            /\ Grows(db[n], db'[n])
            /\ \A v \in DOMAIN db'[n].ledger \ DOMAIN db[n].ledger :
                 Doing(p, "migrate", "record") /\ v = mem[p].file
       /\ Task(p).do \notin {"restore", "suites"} => db[n].rows \subseteq db'[n].rows
       /\ Task(p).do \notin {"restore", "suites", "count", "spot"} => db'[n].rows = db[n].rows
       /\ Task(p).do # "restore" /\ db'[n].rows # db[n].rows => Version \subseteq db'[n].tables

\* A migrator that is about to record a file has just applied it.
AppliesFirst(p) ==
  phase'[p] = "record" /\ Running(p)' =>
    /\ at'[p] = at[p] /\ mem'[p].file = mem[p].file
    /\ On(p) \in DOMAIN db \cap DOMAIN db'
    /\ mem[p].file \in db'[On(p)].tables \ db[On(p)].tables

LEMMA EndTaskCourse ==
  ASSUME ServerTypeOK, NEW p \in Proc, Running(p), NEW ok, EndTask(p, ok)
  PROVE  Course(p) /\ phase'[p] = "start" /\ (~failed'[p] => ok /\ at'[p] = at[p] + 1)
<1>1. Advances(p) /\ phase'[p] = "start"
  BY EndTaskAdvances
<1>2. /\ \A q \in Proc \ {p} : failed'[q] = failed[q] /\ phase'[q] = phase[q]
      /\ ~failed'[p] => ~failed[p] /\ ok
  BY DEF EndTask, ServerTypeOK
<1>3. ok => at'[p] = at[p] + 1
  BY DEF EndTask, After, ServerTypeOK
<1> QED
  BY <1>1, <1>2, <1>3 DEF Course, Advances

LEMMA VerdictCourse ==
  ASSUME ServerTypeOK, NEW p \in Proc, Running(p), NEW ok, Verdict(p, ok)
  PROVE  Course(p) /\ phase'[p] = "start" /\ at'[p] = at[p] + 1 /\ (~failed'[p] => ok)
<1>1. Advances(p) /\ phase'[p] = "start"
  BY VerdictAdvances
<1>2. /\ \A q \in Proc \ {p} : failed'[q] = failed[q] /\ phase'[q] = phase[q]
      /\ ~failed'[p] => ~failed[p] /\ ok
  BY DEF Verdict, ServerTypeOK
<1>3. at'[p] = at[p] + 1
  BY DEF Verdict, ServerTypeOK
<1> QED
  BY <1>1, <1>2, <1>3 DEF Course, Advances

LEMMA GotoCourse ==
  ASSUME ServerTypeOK, NEW p \in Proc, Running(p), NEW step \in Phases, Goto(p, step)
  PROVE  Course(p) /\ phase'[p] = step /\ at'[p] = at[p] /\ failed'[p] = failed[p]
<1>1. Advances(p) /\ phase'[p] = step /\ at'[p] = at[p]
  BY GotoAdvances
<1>2. failed' = failed /\ \A q \in Proc \ {p} : phase'[q] = phase[q]
  BY DEF Goto, ServerTypeOK
<1> QED
  BY <1>1, <1>2 DEF Course, Advances

LEMMA StayingCourse ==
  ASSUME ServerTypeOK, NEW p \in Proc, Running(p), UNCHANGED <<at, phase, failed>>
  PROVE  Course(p) /\ phase'[p] = phase[p]
<1>1. Advances(p) /\ phase'[p] = phase[p] /\ at'[p] = at[p]
  BY StayingAdvances
<1> QED
  BY <1>1 DEF Course, Advances

LEMMA KillCourse ==
  ASSUME ServerTypeOK, NEW p \in Proc, Kill(p)
  PROVE  Course(p) /\ failed'[p] /\ ~Running(p)' /\ UNCHANGED <<db, phase>>
<1>1. /\ Running(p) /\ UNCHANGED <<db, phase>>
      /\ at' = [at EXCEPT ![p] = Len(p.plan) + 1] /\ failed' = [failed EXCEPT ![p] = TRUE]
  BY DEF Kill
<1>2. StepsAside(p)
  BY KillAside
<1>3. failed'[p] /\ \A q \in Proc \ {p} : failed'[q] = failed[q]
  BY <1>1 DEF ServerTypeOK
<1>4. at'[p] = Len(p.plan) + 1 /\ ~Running(p)'
  BY <1>1, PlanLengths DEF ServerTypeOK, Running
<1> QED
  BY <1>1, <1>2, <1>3, <1>4 DEF Course, StepsAside, Advances

LEMMA DropCourse ==
  ASSUME ServerTypeOK, NEW p \in Proc, Running(p), NEW names, NEW ok, DropThen(p, names, ok),
         Task(p).do \in {"absent", "drop", "cleanup"}, names \subseteq {On(p), Task(p).other}
  PROVE  /\ Course(p) /\ phase'[p] = "start" /\ at'[p] = at[p] + 1 /\ (~failed'[p] => ok)
         /\ Alters(p) /\ DOMAIN db' = DOMAIN db \ names
<1>1. Advances(p) /\ phase'[p] = "start"
  BY DropAdvances
<1>2. /\ \A q \in Proc \ {p} : failed'[q] = failed[q]
      /\ ~failed'[p] => ~failed[p] /\ ok
      /\ at'[p] = at[p] + 1
  BY DEF DropThen, ServerTypeOK
<1>3. Course(p)
  BY <1>1, <1>2 DEF Course, Advances
<1>4. DOMAIN db' = DOMAIN db \ names /\ \A n \in DOMAIN db' : db'[n] = db[n]
  BY DEF DropThen, Without
<1>5. ASSUME NEW n \in DOMAIN db \ DOMAIN db' PROVE Replaces(p, at[p], n) /\ n \in names
  BY <1>4 DEF Replaces, On, Task
<1>6. ASSUME NEW q \in Proc \ {p}, Running(q), On(q) \in names, Task(q).do # "ready",
             phase[q] \notin {"start", "create"}
      PROVE  phase'[q] = "severed"
  BY <1>6 DEF DropThen, Severed
<1> QED
  BY <1>1, <1>2, <1>3, <1>4, <1>5, <1>6 DEF Alters, Grows

LEMMA SameAlters ==
  ASSUME UNCHANGED db, NEW p
  PROVE  Alters(p)
BY DEF Alters, Grows

LEMMA CreatedAlters ==
  ASSUME NEW p, ~Exists(On(p)), db' = With(On(p), p.id),
         Task(p).do \in {"create", "recreate", "restore"}
  PROVE  Alters(p) /\ DOMAIN db' = DOMAIN db \cup {On(p)} /\ db'[On(p)] = Empty(p.id)
<1>1. /\ DOMAIN db' = DOMAIN db \cup {On(p)}
      /\ \A n \in DOMAIN db : db'[n] = db[n]
      /\ db'[On(p)] = Empty(p.id)
  BY DEF With, Joined, Exists
<1> QED
  BY <1>1 DEF Alters, Grows, Exists

\* The step changes p's own database only.
LEMMA OneAlters ==
  ASSUME NEW p, NEW d, Exists(On(p)), db' = [db EXCEPT ![On(p)] = d],
         d.by = db[On(p)].by,
         Task(p).do # "restore" =>
            /\ Grows(db[On(p)], d)
            /\ \A v \in DOMAIN d.ledger \ DOMAIN db[On(p)].ledger :
                 Doing(p, "migrate", "record") /\ v = mem[p].file
            /\ d.rows # db[On(p)].rows => Version \subseteq d.tables,
         Task(p).do \notin {"restore", "suites"} => db[On(p)].rows \subseteq d.rows,
         Task(p).do \notin {"restore", "suites", "count", "spot"} => d.rows = db[On(p)].rows
  PROVE  Alters(p) /\ DOMAIN db' = DOMAIN db /\ db'[On(p)] = d
<1>1. DOMAIN db' = DOMAIN db /\ db'[On(p)] = d /\ \A n \in DOMAIN db \ {On(p)} : db'[n] = db[n]
  BY DEF Exists
<1> QED
  BY <1>1 DEF Alters, Grows

LEMMA SameMemorises ==
  ASSUME NEW p, UNCHANGED mem
  PROVE  Memorises(p)
BY DEF Memorises

LEMMA OneMemorises ==
  ASSUME ServerTypeOK, NEW p \in Proc, NEW m, mem' = [mem EXCEPT ![p] = m],
         m.used \subseteq mem[p].used \cup {db[n].by : n \in DOMAIN db \cap {On(p)}},
         Task(p).do # "backup" => m.dump = mem[p].dump,
         Task(p).do # "restore" => m.copy = mem[p].copy,
         Task(p).do \notin {"count", "shape"} => m.shape = mem[p].shape
  PROVE  Memorises(p) /\ mem'[p] = m
<1>1. mem'[p] = m /\ \A q \in Proc \ {p} : mem'[q] = mem[q]
  BY MemoriesAre
<1> QED
  BY <1>1 DEF Memorises

LEMMA UsedIs ==
  ASSUME ServerTypeOK, NEW p \in Proc, Exists(On(p))
  PROVE  \E m \in Memory :
           /\ Use(p) = [mem EXCEPT ![p] = m] /\ m.dump = mem[p].dump /\ m.copy = mem[p].copy
           /\ m.shape = mem[p].shape
           /\ m.used = mem[p].used \cup {db[On(p)].by}
<1>1. mem[p] \in Memory /\ db[On(p)].by \in Origin
  BY MemoriesAre DEF ServerTypeOK, Exists, Database
<1>2. PICK u \in SUBSET Origin : u = mem[p].used \cup {db[On(p)].by}
  BY <1>1 DEF Memory
<1> DEFINE m == [mem[p] EXCEPT !.used = u]
<1>3. /\ m \in Memory /\ m.dump = mem[p].dump /\ m.copy = mem[p].copy
      /\ m.shape = mem[p].shape /\ m.used = u
  BY <1>1 DEF Memory
<1>4. Use(p) = [mem EXCEPT ![p] = m]
  BY <1>2 DEF Use
<1> HIDE DEF m
<1> QED
  BY <1>2, <1>3, <1>4

LEMMA UseMemorises ==
  ASSUME ServerTypeOK, NEW p \in Proc, Exists(On(p)), mem' = Use(p)
  PROVE  Memorises(p)
<1>1. PICK m \in Memory :
        /\ Use(p) = [mem EXCEPT ![p] = m] /\ m.dump = mem[p].dump /\ m.copy = mem[p].copy
        /\ m.shape = mem[p].shape
        /\ m.used = mem[p].used \cup {db[On(p)].by}
  BY UsedIs
<1> QED
  BY <1>1, OneMemorises DEF Exists

LEMMA LostMemorises ==
  ASSUME ServerTypeOK, NEW p \in Proc, mem' = [mem EXCEPT ![p].lost = TRUE]
  PROVE  Memorises(p)
<1> DEFINE m == [mem[p] EXCEPT !.lost = TRUE]
<1>1. /\ m.dump = mem[p].dump /\ m.copy = mem[p].copy /\ m.shape = mem[p].shape
      /\ m.used = mem[p].used
  BY MemoriesAre DEF Memory
<1>2. mem' = [mem EXCEPT ![p] = m]
  OBVIOUS
<1> HIDE DEF m
<1> QED
  BY <1>1, <1>2, OneMemorises

\* What a step of p is, whichever it is.
Steps(p) == Course(p) /\ Memorises(p) /\ Alters(p) /\ AppliesFirst(p)

-----------------------------------------------------------------------------
(* The migrator and the probe.                                               *)

LEMMA CreateLedgerSteps ==
  ASSUME ServerTypeOK, NEW p \in Proc, CreateLedger(p)
  PROVE  Steps(p)
<1>1. Running(p) /\ Task(p).do = "migrate" /\ Exists(On(p)) /\ Goto(p, "lookup")
  BY DEF CreateLedger, Doing
<1>2. Course(p) /\ AppliesFirst(p)
  BY <1>1, GotoCourse DEF Phases, AppliesFirst
<1> DEFINE d == [db[On(p)] EXCEPT !.tables = @ \cup {0}]
<1>3. /\ d.by = db[On(p)].by /\ Grows(db[On(p)], d) /\ d.ledger = db[On(p)].ledger
      /\ d.rows = db[On(p)].rows
  BY <1>1, DatabaseChanges DEF Exists, Database, Grows
<1>4. db' = [db EXCEPT ![On(p)] = d]
  BY DEF CreateLedger
<1> HIDE DEF d
<1>5. Alters(p)
  BY <1>1, <1>3, <1>4, OneAlters
<1> DEFINE m == [mem[p] EXCEPT !.file = 1, !.skipped = FALSE, !.applied = FALSE,
                               !.used = mem[p].used \cup {db[On(p)].by}]
<1>6. /\ m.dump = mem[p].dump /\ m.copy = mem[p].copy /\ m.shape = mem[p].shape
      /\ m.used = mem[p].used \cup {db[On(p)].by}
  BY MemoriesAre DEF Memory
<1>7. mem' = [mem EXCEPT ![p] = m]
  BY DEF CreateLedger
<1> HIDE DEF m
<1>8. Memorises(p)
  BY <1>1, <1>6, <1>7, OneMemorises DEF Exists
<1> QED
  BY <1>2, <1>5, <1>8 DEF Steps

LEMMA EndsSteps ==
  ASSUME ServerTypeOK, NEW p \in Proc, Running(p), NEW ok, EndTask(p, ok) \/ Verdict(p, ok),
         UNCHANGED db, Memorises(p)
  PROVE  Steps(p)
BY EndTaskCourse, VerdictCourse, SameAlters DEF Steps, AppliesFirst

LEMMA LookupSteps ==
  ASSUME ServerTypeOK, NEW p \in Proc, Lookup(p)
  PROVE  Steps(p)
<1>1. Running(p) /\ Task(p).do = "migrate" /\ UNCHANGED db /\ phase[p] = "lookup"
  BY DEF Lookup, Doing
<1>2. CASE EndTask(p, FALSE) /\ UNCHANGED mem
  BY <1>1, <1>2, EndsSteps, SameMemorises
<1>3. CASE mem' = [mem EXCEPT ![p].file = mem[p].file + 1, ![p].skipped = TRUE]
           /\ UNCHANGED <<at, phase, failed>>
  <2> DEFINE m == [mem[p] EXCEPT !.file = mem[p].file + 1, !.skipped = TRUE]
  <2>1. /\ m.dump = mem[p].dump /\ m.copy = mem[p].copy /\ m.shape = mem[p].shape
        /\ m.used = mem[p].used
    BY MemoriesAre DEF Memory
  <2>2. mem' = [mem EXCEPT ![p] = m]
    BY <1>3
  <2> HIDE DEF m
  <2>3. Memorises(p)
    BY <2>1, <2>2, OneMemorises
  <2> QED
    BY <1>1, <1>3, <2>3, StayingCourse, SameAlters DEF Steps, AppliesFirst
<1>4. CASE Goto(p, "apply") /\ UNCHANGED mem
  BY <1>1, <1>4, GotoCourse, SameAlters, SameMemorises DEF Steps, AppliesFirst, Phases
<1> QED
  BY <1>2, <1>3, <1>4 DEF Lookup

LEMMA ApplySteps ==
  ASSUME ServerTypeOK, NEW p \in Proc, Apply(p)
  PROVE  Steps(p)
<1> DEFINE n == On(p)
           v == mem[p].file
           d == [db[n] EXCEPT !.tables = @ \cup {v}, !.guards = @ \cup {v}]
<1>1. Running(p) /\ Task(p).do = "migrate" /\ Exists(n) /\ UNCHANGED mem
  BY DEF Apply, Doing
<1>2. CASE EndTask(p, FALSE) /\ UNCHANGED db
  BY <1>1, <1>2, EndsSteps, SameMemorises
<1>3. CASE Goto(p, "record") /\ db' = [db EXCEPT ![n] = d] /\ v \notin db[n].tables
  <2>1. Course(p) /\ at'[p] = at[p]
    BY <1>1, <1>3, GotoCourse DEF Phases
  <2>2. /\ d.by = db[n].by /\ Grows(db[n], d) /\ d.ledger = db[n].ledger
        /\ d.rows = db[n].rows /\ d.tables = db[n].tables \cup {v}
    BY <1>1, DatabaseChanges DEF Exists, Database, Grows
  <2> HIDE DEF d
  <2>3. Alters(p) /\ DOMAIN db' = DOMAIN db /\ db'[n] = d
    BY <1>1, <1>3, <2>2, OneAlters
  <2>4. AppliesFirst(p)
    BY <1>1, <1>3, <2>1, <2>2, <2>3 DEF AppliesFirst, Exists
  <2> QED
    BY <1>1, <2>1, <2>3, <2>4, SameMemorises DEF Steps
<1> QED
  BY <1>2, <1>3 DEF Apply

LEMMA RecordFileSteps ==
  ASSUME ServerTypeOK, NEW p \in Proc, RecordFile(p)
  PROVE  Steps(p)
<1> DEFINE n == On(p)
           v == mem[p].file
           row == [w \in {v} |-> Build(p)[w]]
           d == [db[n] EXCEPT !.ledger = Joined(@, row)]
<1>1. Running(p) /\ Task(p).do = "migrate" /\ Exists(n) /\ Doing(p, "migrate", "record")
  BY DEF RecordFile, Doing
<1>2. CASE EndTask(p, FALSE) /\ UNCHANGED <<db, mem>>
  BY <1>1, <1>2, EndsSteps, SameMemorises
<1>3. CASE /\ db' = [db EXCEPT ![n] = d]
           /\ mem' = [mem EXCEPT ![p].file = v + 1, ![p].applied = TRUE]
           /\ Goto(p, "lookup")
  <2>1. Course(p) /\ AppliesFirst(p)
    BY <1>1, <1>3, GotoCourse DEF Phases, AppliesFirst
  <2>2. /\ d.by = db[n].by /\ d.tables = db[n].tables /\ d.guards = db[n].guards
        /\ d.rows = db[n].rows /\ d.ledger = Joined(db[n].ledger, row)
    BY <1>1, DatabaseChanges DEF Exists, Database
  <2>3. /\ DOMAIN d.ledger = DOMAIN db[n].ledger \cup {v}
        /\ \A w \in DOMAIN db[n].ledger : d.ledger[w] = db[n].ledger[w]
    BY <2>2 DEF Joined
  <2> HIDE DEF d
  <2>4. Alters(p)
    BY <1>1, <1>3, <2>2, <2>3, OneAlters DEF Grows
  <2> DEFINE m == [mem[p] EXCEPT !.file = v + 1, !.applied = TRUE]
  <2>5. /\ m.dump = mem[p].dump /\ m.copy = mem[p].copy /\ m.shape = mem[p].shape
        /\ m.used = mem[p].used
    BY MemoriesAre DEF Memory
  <2>6. mem' = [mem EXCEPT ![p] = m]
    BY <1>3
  <2> HIDE DEF m
  <2>7. Memorises(p)
    BY <2>5, <2>6, OneMemorises
  <2> QED
    BY <2>1, <2>4, <2>7 DEF Steps
<1> QED
  BY <1>2, <1>3 DEF RecordFile

LEMMA ReadySteps ==
  ASSUME ServerTypeOK, NEW p \in Proc, Ready(p)
  PROVE  Steps(p)
<1>1. Running(p) /\ UNCHANGED db /\ phase[p] \in {"start", "checks"}
  BY DEF Ready, Ask, Check, CheckThrows, Answer, Doing
<1>2. Course(p) /\ AppliesFirst(p)
  BY <1>1, GotoCourse, StayingCourse, EndTaskCourse
     DEF Ready, Ask, Check, CheckThrows, Answer, Doing, Phases, AppliesFirst
<1>3. Memorises(p)
  <2>1. mem[p] \in Memory
    BY MemoriesAre
  <2>2. PICK m : /\ mem' = [mem EXCEPT ![p] = m]
                 /\ m.dump = mem[p].dump /\ m.copy = mem[p].copy /\ m.shape = mem[p].shape
                 /\ m.used = mem[p].used
    <3>1. CASE Ask(p)
      <4> DEFINE m == [mem[p] EXCEPT !.pending = Checks, !.bad = FALSE]
      <4>1. /\ m.dump = mem[p].dump /\ m.copy = mem[p].copy /\ m.shape = mem[p].shape
            /\ m.used = mem[p].used /\ mem' = [mem EXCEPT ![p] = m]
        BY <2>1, <3>1 DEF Memory, Ask
      <4> QED
        BY <4>1
    <3>2. CASE Check(p)
      <4>1. PICK c : mem' = [mem EXCEPT ![p].pending = @ \ {c},
                                        ![p].bad = @ \/ ~Exists(On(p)) \/ ~Passes(p, c)]
        BY <3>2 DEF Check
      <4> DEFINE m == [mem[p] EXCEPT !.pending = @ \ {c},
                                     !.bad = @ \/ ~Exists(On(p)) \/ ~Passes(p, c)]
      <4>2. /\ m.dump = mem[p].dump /\ m.copy = mem[p].copy /\ m.shape = mem[p].shape
            /\ m.used = mem[p].used /\ mem' = [mem EXCEPT ![p] = m]
        BY <2>1, <4>1 DEF Memory
      <4> QED
        BY <4>2
    <3>3. CASE CheckThrows(p)
      <4> DEFINE m == [mem[p] EXCEPT !.pending = {}, !.bad = TRUE, !.lost = TRUE]
      <4>1. /\ m.dump = mem[p].dump /\ m.copy = mem[p].copy /\ m.shape = mem[p].shape
            /\ m.used = mem[p].used /\ mem' = [mem EXCEPT ![p] = m]
        BY <2>1, <3>3 DEF Memory, CheckThrows
      <4> QED
        BY <4>1
    <3>4. CASE Answer(p)
      <4> DEFINE says == IF KeyPasses(p) /\ ~mem[p].bad THEN "yes"
                         ELSE IF mem[p].ready = "no" THEN "no" ELSE "withdrawn"
                 m == [mem[p] EXCEPT !.ready = says]
      <4>1. mem' = [mem EXCEPT ![p] = m]
        BY <3>4 DEF Answer
      <4> HIDE DEF says
      <4>2. /\ m.dump = mem[p].dump /\ m.copy = mem[p].copy /\ m.shape = mem[p].shape
            /\ m.used = mem[p].used
        BY <2>1 DEF Memory
      <4> QED
        BY <4>1, <4>2
    <3> QED
      BY <3>1, <3>2, <3>3, <3>4 DEF Ready
  <2> QED
    BY <2>2, OneMemorises
<1> QED
  BY <1>1, <1>2, <1>3, SameAlters DEF Steps

-----------------------------------------------------------------------------
(* The scripts of Releases.                                                  *)

LEMMA BackupSteps ==
  ASSUME ServerTypeOK, NEW p \in Proc, Backup(p)
  PROVE  Steps(p)
<1>1. Running(p) /\ Task(p).do = "backup" /\ Exists(On(p)) /\ UNCHANGED db
  BY DEF Backup, Doing
<1>2. Memorises(p)
  <2>1. CASE UNCHANGED mem
    BY <2>1, SameMemorises
  <2>2. CASE mem' = [Use(p) EXCEPT ![p].dump = db[On(p)]]
    <3>1. PICK u \in Memory :
            /\ Use(p) = [mem EXCEPT ![p] = u] /\ u.dump = mem[p].dump /\ u.copy = mem[p].copy
            /\ u.shape = mem[p].shape
            /\ u.used = mem[p].used \cup {db[On(p)].by}
      BY <1>1, UsedIs
    <3> DEFINE m == [u EXCEPT !.dump = db[On(p)]]
    <3>2. /\ m.copy = mem[p].copy /\ m.shape = mem[p].shape
          /\ m.used = mem[p].used \cup {db[On(p)].by}
      BY <3>1 DEF Memory
    <3>3. mem' = [mem EXCEPT ![p] = m]
      BY <2>2, <3>1, MemoriesAre
    <3> HIDE DEF m
    <3> QED
      BY <1>1, <3>2, <3>3, OneMemorises DEF Exists
  <2> QED
    BY <2>1, <2>2 DEF Backup
<1> QED
  BY <1>1, <1>2, EndsSteps DEF Backup

LEMMA LookAtTargetSteps ==
  ASSUME ServerTypeOK, NEW p \in Proc, LookAtTarget(p)
  PROVE  Steps(p)
<1>1. /\ Running(p) /\ UNCHANGED db
      /\ mem' = [mem EXCEPT ![p].created = FALSE, ![p].errors = FALSE]
  BY DEF LookAtTarget, Doing
<1>2. Memorises(p)
  <2> DEFINE m == [mem[p] EXCEPT !.created = FALSE, !.errors = FALSE]
  <2>1. /\ m.dump = mem[p].dump /\ m.copy = mem[p].copy /\ m.shape = mem[p].shape
        /\ m.used = mem[p].used
    BY MemoriesAre DEF Memory
  <2>2. mem' = [mem EXCEPT ![p] = m]
    BY <1>1
  <2> HIDE DEF m
  <2> QED
    BY <2>1, <2>2, OneMemorises
<1>3. PICK step \in {"clean", "tables", "create"} : EndTask(p, FALSE) \/ Goto(p, step)
  BY DEF LookAtTarget
<1>4. CASE EndTask(p, FALSE)
  BY <1>1, <1>2, <1>4, EndsSteps
<1>5. CASE Goto(p, step)
  BY <1>1, <1>2, <1>5, GotoCourse, SameAlters DEF Steps, AppliesFirst, Phases
<1> QED
  BY <1>3, <1>4, <1>5

\* A statement of a restore that changes its target, and notes its errors.
LEMMA ErrorsMemorise ==
  ASSUME ServerTypeOK, NEW p \in Proc, NEW b, mem' = [mem EXCEPT ![p].errors = b]
  PROVE  Memorises(p) /\ mem'[p].errors = b /\ mem'[p].dump = mem[p].dump
         /\ mem'[p].copy = mem[p].copy
<1> DEFINE m == [mem[p] EXCEPT !.errors = b]
<1>1. /\ m.dump = mem[p].dump /\ m.copy = mem[p].copy /\ m.shape = mem[p].shape
      /\ m.used = mem[p].used /\ m.errors = b
  BY MemoriesAre DEF Memory
<1>2. mem' = [mem EXCEPT ![p] = m]
  OBVIOUS
<1> HIDE DEF m
<1> QED
  BY <1>1, <1>2, OneMemorises

LEMMA TargetSteps ==
  ASSUME ServerTypeOK, NEW p \in Proc, Running(p), Task(p).do = "restore", Exists(On(p)),
         NEW d, db' = [db EXCEPT ![On(p)] = d], d.by = db[On(p)].by,
         NEW step \in {"tables", "rows", "guards", "verify"}, EndTask(p, FALSE) \/ Goto(p, step),
         UNCHANGED mem \/ \E b \in BOOLEAN : mem' = [mem EXCEPT ![p].errors = b]
  PROVE  Steps(p)
<1>1. Memorises(p)
  BY SameMemorises, ErrorsMemorise
<1>2. Course(p) /\ AppliesFirst(p)
  BY EndTaskCourse, GotoCourse DEF Phases, AppliesFirst
<1>3. Alters(p)
  BY OneAlters
<1> QED
  BY <1>1, <1>2, <1>3 DEF Steps

LEMMA CreateTargetSteps ==
  ASSUME ServerTypeOK, NEW p \in Proc, CreateTarget(p)
  PROVE  Steps(p)
<1>1. Running(p) /\ Task(p).do = "restore"
  BY DEF CreateTarget, Doing
<1>2. CASE EndTask(p, FALSE) /\ UNCHANGED <<db, mem>>
  BY <1>1, <1>2, EndsSteps, SameMemorises
<1>3. CASE /\ db' = With(On(p), p.id) /\ mem' = [mem EXCEPT ![p].created = TRUE]
           /\ Goto(p, "tables") /\ ~Exists(On(p))
  <2> DEFINE m == [mem[p] EXCEPT !.created = TRUE]
  <2>1. /\ m.dump = mem[p].dump /\ m.copy = mem[p].copy /\ m.shape = mem[p].shape
        /\ m.used = mem[p].used
    BY MemoriesAre DEF Memory
  <2>2. mem' = [mem EXCEPT ![p] = m]
    BY <1>3
  <2> HIDE DEF m
  <2>3. Memorises(p)
    BY <2>1, <2>2, OneMemorises
  <2> QED
    BY <1>1, <1>3, <2>3, GotoCourse, CreatedAlters DEF Steps, AppliesFirst, Phases
<1> QED
  BY <1>2, <1>3 DEF CreateTarget

LEMMA CleanTargetSteps ==
  ASSUME ServerTypeOK, NEW p \in Proc, CleanTarget(p)
  PROVE  Steps(p)
<1> DEFINE n == On(p)
           dropped == {v \in mem[p].dump.tables :
                         v = 0 \/ \A w \in db[n].tables \ mem[p].dump.tables : w < v}
           d == [db[n] EXCEPT !.tables = @ \ dropped, !.guards = @ \ dropped,
                   !.ledger = IF 0 \in dropped THEN NoLedger ELSE @,
                   !.rows = IF dropped \cap Version = {} THEN @ ELSE {}]
           b == dropped # mem[p].dump.tables
<1>1. Running(p) /\ Task(p).do = "restore" /\ Exists(n) /\ Goto(p, "tables")
  BY DEF CleanTarget, Doing
<1>2. db' = [db EXCEPT ![n] = d] /\ mem' = [mem EXCEPT ![p].errors = b] /\ b \in BOOLEAN
  BY DEF CleanTarget
<1> HIDE DEF dropped, b
<1>3. d.by = db[n].by
  BY <1>1, DatabaseChanges DEF Exists, Database
<1> HIDE DEF d
<1> QED
  BY <1>1, <1>2, <1>3, TargetSteps

LEMMA RestoreTablesSteps ==
  ASSUME ServerTypeOK, NEW p \in Proc, RestoreTables(p)
  PROVE  Steps(p)
<1> DEFINE n == On(p)
           d == [db[n] EXCEPT !.tables = @ \cup mem[p].dump.tables]
           b == mem[p].errors \/ db[n].tables \cap mem[p].dump.tables # {}
<1>1. Running(p) /\ Task(p).do = "restore" /\ Exists(n) /\ Goto(p, "rows")
  BY DEF RestoreTables, Doing
<1>2. db' = [db EXCEPT ![n] = d] /\ mem' = [mem EXCEPT ![p].errors = b] /\ b \in BOOLEAN
  BY DEF RestoreTables
<1>3. d.by = db[n].by
  BY <1>1, DatabaseChanges DEF Exists, Database
<1> HIDE DEF b, d
<1> QED
  BY <1>1, <1>2, <1>3, TargetSteps

LEMMA RestoreRowsSteps ==
  ASSUME ServerTypeOK, NEW p \in Proc, RestoreRows(p)
  PROVE  Steps(p)
<1> DEFINE n == On(p)
           inTheWay == DOMAIN db[n].ledger \cap DOMAIN mem[p].dump.ledger # {}
           d == [db[n] EXCEPT !.ledger = IF inTheWay THEN @ ELSE Joined(@, mem[p].dump.ledger),
                              !.rows = @ \cup mem[p].dump.rows]
           b == mem[p].errors \/ inTheWay \/ db[n].rows \cap mem[p].dump.rows # {}
<1>1. Running(p) /\ Task(p).do = "restore" /\ Exists(n) /\ Goto(p, "guards")
  BY DEF RestoreRows, Doing
<1>2. db' = [db EXCEPT ![n] = d] /\ mem' = [mem EXCEPT ![p].errors = b] /\ b \in BOOLEAN
  BY DEF RestoreRows
<1> HIDE DEF b, inTheWay
<1>3. d.by = db[n].by
  BY <1>1, DatabaseChanges DEF Exists, Database
<1> HIDE DEF d
<1> QED
  BY <1>1, <1>2, <1>3, TargetSteps

LEMMA RestoreGuardsSteps ==
  ASSUME ServerTypeOK, NEW p \in Proc, RestoreGuards(p)
  PROVE  Steps(p)
<1> DEFINE n == On(p)
           d == [db[n] EXCEPT !.guards = @ \cup mem[p].dump.guards]
<1>1. /\ Running(p) /\ Task(p).do = "restore" /\ Exists(n) /\ UNCHANGED mem
      /\ EndTask(p, FALSE) \/ Goto(p, "verify")
      /\ db' = [db EXCEPT ![n] = d]
  BY DEF RestoreGuards, Doing
<1>2. d.by = db[n].by
  BY <1>1, DatabaseChanges DEF Exists, Database
<1> HIDE DEF d
<1> QED
  BY <1>1, <1>2, TargetSteps

LEMMA VerifyRestoreSteps ==
  ASSUME ServerTypeOK, NEW p \in Proc, VerifyRestore(p)
  PROVE  Steps(p) /\ mem'[p].copy = db[On(p)]
<1>1. /\ Running(p) /\ Exists(On(p)) /\ UNCHANGED db /\ Task(p).do = "restore"
      /\ mem' = [Use(p) EXCEPT ![p].copy = db[On(p)]]
      /\ EndTask(p, db[On(p)].tables # {})
  BY DEF VerifyRestore, Doing
<1>2. PICK u \in Memory :
        /\ Use(p) = [mem EXCEPT ![p] = u] /\ u.dump = mem[p].dump /\ u.copy = mem[p].copy
        /\ u.shape = mem[p].shape
        /\ u.used = mem[p].used \cup {db[On(p)].by}
  BY <1>1, UsedIs
<1> DEFINE m == [u EXCEPT !.copy = db[On(p)]]
<1>3. /\ m.dump = mem[p].dump /\ m.shape = mem[p].shape /\ m.copy = db[On(p)]
      /\ m.used = mem[p].used \cup {db[On(p)].by}
  BY <1>2 DEF Memory
<1>4. mem' = [mem EXCEPT ![p] = m]
  BY <1>1, <1>2, MemoriesAre
<1> HIDE DEF m
<1>5. /\ m.used \subseteq mem[p].used \cup {db[n].by : n \in DOMAIN db \cap {On(p)}}
      /\ Task(p).do # "restore" => m.copy = mem[p].copy
  BY <1>1, <1>3 DEF Exists
<1>6. Memorises(p) /\ mem'[p] = m
  BY <1>3, <1>4, <1>5, OneMemorises
<1> QED
  BY <1>1, <1>3, <1>6, EndsSteps

LEMMA RestoreSteps ==
  ASSUME ServerTypeOK, NEW p \in Proc, Restore(p)
  PROVE  Steps(p)
BY LookAtTargetSteps, CreateTargetSteps, CleanTargetSteps, RestoreTablesSteps,
   RestoreRowsSteps, RestoreGuardsSteps, VerifyRestoreSteps DEF Restore

LEMMA CountSourceSteps ==
  ASSUME ServerTypeOK, NEW p \in Proc, CountSource(p)
  PROVE  /\ Steps(p)
         /\ ~failed'[p] => at'[p] = at[p] + 1 /\ mem'[p].shape.rows # {}
<1> DEFINE n == On(p)
           r == IF db[n].rows = {} THEN {p.id} ELSE db[n].rows
<1>1. Running(p) /\ Exists(n) /\ Task(p).do = "count"
  BY DEF CountSource, Doing
<1>2. CASE UNCHANGED <<db, mem>> /\ EndTask(p, FALSE)
  BY <1>1, <1>2, SameMemorises, EndsSteps, EndTaskCourse
<1>3. CASE /\ db' = [db EXCEPT ![n].rows = r] /\ mem' = [mem EXCEPT ![p].shape.rows = r]
           /\ EndTask(p, TRUE) /\ Version \subseteq db[n].tables
  <2>1. db[n].rows \subseteq r /\ r # {}
    OBVIOUS
  <2> HIDE DEF r
  <2> DEFINE d == [db[n] EXCEPT !.rows = r]
  <2>2. /\ d.by = db[n].by /\ d.tables = db[n].tables /\ d.guards = db[n].guards
        /\ d.ledger = db[n].ledger /\ d.rows = r
    BY <1>1, DatabaseChanges DEF Exists, Database
  <2>3. db' = [db EXCEPT ![n] = d]
    BY <1>3
  <2> HIDE DEF d
  <2>4. Alters(p)
    BY <1>1, <1>3, <2>1, <2>2, <2>3, OneAlters DEF Grows
  <2> DEFINE m == [mem[p] EXCEPT !.shape = [mem[p].shape EXCEPT !.rows = r]]
  <2>5. /\ m.dump = mem[p].dump /\ m.copy = mem[p].copy /\ m.used = mem[p].used
        /\ m.shape.rows = r
    <3>1. mem[p] \in Memory /\ mem[p].shape \in Database
      BY MemoriesAre DEF Memory
    <3> QED
      BY <3>1 DEF Memory, Database
  <2>6. mem' = [mem EXCEPT ![p] = m]
    BY <1>3
  <2> HIDE DEF m
  <2>7. Memorises(p) /\ mem'[p] = m
    BY <1>1, <2>5, <2>6, OneMemorises
  <2> QED
    BY <1>1, <1>3, <2>1, <2>4, <2>5, <2>7, EndTaskCourse DEF Steps, AppliesFirst
<1> QED
  BY <1>2, <1>3 DEF CountSource

LEMMA ReadBackSteps ==
  ASSUME ServerTypeOK, NEW p \in Proc, ReadBack(p)
  PROVE  /\ Steps(p) /\ UNCHANGED <<db, mem>>
         /\ ~failed'[p] => Exists(On(p)) /\ db[On(p)].rows = mem[p].shape.rows
                           /\ at'[p] = at[p] + 1
<1>1. /\ Running(p) /\ UNCHANGED <<db, mem>> /\ Exists(On(p))
      /\ EndTask(p, db[On(p)].rows = mem[p].shape.rows /\ Top \in db[On(p)].guards)
  BY DEF ReadBack, Doing
<1> QED
  BY <1>1, EndsSteps, EndTaskCourse, SameMemorises

LEMMA CleanupSteps ==
  ASSUME ServerTypeOK, NEW p \in Proc, Cleanup(p)
  PROVE  Steps(p)
<1>1. Running(p) /\ Task(p).do = "cleanup"
  BY DEF Cleanup, Doing
<1>2. CASE DropThen(p, {On(p)}, TRUE)
  <2>1. PICK names : names = {On(p)}
    OBVIOUS
  <2>2. Memorises(p)
    BY <1>2, SameMemorises DEF DropThen
  <2> QED
    BY <1>1, <1>2, <2>1, <2>2, DropCourse DEF Steps, AppliesFirst
<1>3. CASE Verdict(p, TRUE) /\ UNCHANGED <<db, mem>>
  BY <1>1, <1>3, EndsSteps, SameMemorises
<1> QED
  BY <1>2, <1>3 DEF Cleanup

LEMMA GatesSteps ==
  ASSUME ServerTypeOK, NEW p \in Proc, Preflight(p) \/ CompareShape(p)
  PROVE  Steps(p)
<1>1. /\ Running(p) /\ Exists(On(p)) /\ UNCHANGED db /\ mem' = Use(p)
      /\ \E ok : Verdict(p, ok)
  BY DEF Preflight, CompareShape, Doing
<1> QED
  BY <1>1, UseMemorises, EndsSteps

LEMMA RowsSteps ==
  ASSUME ServerTypeOK, NEW p \in Proc, Suites(p) \/ SpotGates(p)
  PROVE  Steps(p)
<1> DEFINE n == On(p)
<1>1. /\ Running(p) /\ Exists(n) /\ mem' = Use(p) /\ Task(p).do \in {"suites", "spot"}
      /\ \E ok : EndTask(p, ok) \/ Verdict(p, ok)
  BY DEF Suites, SpotGates, Doing
<1>2. Course(p) /\ phase'[p] = "start" /\ Memorises(p)
  BY <1>1, EndTaskCourse, VerdictCourse, UseMemorises
<1>3. CASE UNCHANGED db
  BY <1>2, <1>3, SameAlters DEF Steps, AppliesFirst
<1>4. ASSUME NEW r, db' = [db EXCEPT ![n].rows = r], Version \subseteq db[n].tables,
             Task(p).do = "spot" => db[n].rows \subseteq r
      PROVE  Steps(p)
  <2> DEFINE d == [db[n] EXCEPT !.rows = r]
  <2>1. /\ d.by = db[n].by /\ d.tables = db[n].tables /\ d.guards = db[n].guards
        /\ d.ledger = db[n].ledger /\ d.rows = r
    BY <1>1, DatabaseChanges DEF Exists, Database
  <2>2. db' = [db EXCEPT ![n] = d]
    BY <1>4
  <2> HIDE DEF d
  <2>3. Alters(p)
    BY <1>1, <1>4, <2>1, <2>2, OneAlters DEF Grows
  <2> QED
    BY <1>2, <2>3 DEF Steps, AppliesFirst
<1>5. CASE Suites(p)
  <2>1. CASE db' = [db EXCEPT ![n].rows = {p.id}] /\ Version \subseteq db[n].tables
    <3>1. PICK r : r = {p.id}
      OBVIOUS
    <3>2. Task(p).do = "suites"
      BY <1>5 DEF Suites, Doing
    <3> QED
      BY <1>4, <2>1, <3>1, <3>2
  <2> QED
    BY <1>3, <1>5, <2>1 DEF Suites
<1>6. CASE SpotGates(p)
  <2>1. CASE db' = [db EXCEPT ![n].rows = db[n].rows \cup {p.id}] /\ Version \subseteq db[n].tables
    <3>1. PICK r : r = db[n].rows \cup {p.id}
      OBVIOUS
    <3> QED
      BY <1>4, <2>1, <3>1
  <2> QED
    BY <1>3, <1>6, <2>1 DEF SpotGates
<1> QED
  BY <1>5, <1>6

LEMMA ReadShapeSteps ==
  ASSUME ServerTypeOK, NEW p \in Proc, ReadShape(p)
  PROVE  Steps(p)
<1>1. /\ Running(p) /\ Exists(On(p)) /\ UNCHANGED db /\ EndTask(p, TRUE)
      /\ mem' = [Use(p) EXCEPT ![p].shape = db[On(p)]] /\ Task(p).do = "shape"
  BY DEF ReadShape, Doing
<1>2. PICK u \in Memory :
        /\ Use(p) = [mem EXCEPT ![p] = u] /\ u.dump = mem[p].dump /\ u.copy = mem[p].copy
        /\ u.shape = mem[p].shape
        /\ u.used = mem[p].used \cup {db[On(p)].by}
  BY <1>1, UsedIs
<1> DEFINE m == [u EXCEPT !.shape = db[On(p)]]
<1>3. /\ m.dump = mem[p].dump /\ m.copy = mem[p].copy
      /\ m.used = mem[p].used \cup {db[On(p)].by}
  BY <1>2 DEF Memory
<1>4. mem' = [mem EXCEPT ![p] = m]
  BY <1>1, <1>2, MemoriesAre
<1> HIDE DEF m
<1>5. On(p) \in DOMAIN db /\ Task(p).do = "shape"
  BY <1>1 DEF Exists
<1>6. Memorises(p)
  BY <1>3, <1>4, <1>5, OneMemorises
<1> QED
  BY <1>1, <1>6, EndsSteps

LEMMA CreateSteps ==
  ASSUME ServerTypeOK, NEW p \in Proc, Create(p)
  PROVE  /\ Steps(p)
         /\ ~failed'[p] => ~Exists(On(p)) /\ db' = With(On(p), p.id) /\ at'[p] = at[p] + 1
<1>1. /\ Running(p) /\ UNCHANGED mem /\ EndTask(p, ~Exists(On(p)))
      /\ Task(p).do \in {"create", "recreate"}
  BY DEF Create, Doing
<1>2. Alters(p)
  BY <1>1, SameAlters, CreatedAlters DEF Create
<1> QED
  BY <1>1, <1>2, EndTaskCourse, SameMemorises DEF Steps, AppliesFirst, Create

LEMMA DropForRecreationSteps ==
  ASSUME ServerTypeOK, NEW p \in Proc, DropForRecreation(p)
  PROVE  Steps(p)
<1>1. Running(p) /\ Task(p).do = "recreate" /\ UNCHANGED mem
  BY DEF DropForRecreation, Doing
<1>2. CASE EndTask(p, FALSE) /\ UNCHANGED db
  BY <1>1, <1>2, EndsSteps, SameMemorises
<1>3. CASE /\ db' = Without({On(p)}) /\ UNCHANGED <<at, failed>>
           /\ phase' = [Severed(p, {On(p)}) EXCEPT ![p] = "create"]
  <2>1. /\ phase'[p] = "create"
        /\ \A q \in Proc \ {p} : phase'[q] \in {phase[q], "severed"}
        /\ \A q \in Proc \ {p} :
             Running(q) /\ On(q) = On(p) /\ Task(q).do # "ready"
             /\ phase[q] \notin {"start", "create"} => phase'[q] = "severed"
    BY <1>3 DEF Severed, ServerTypeOK
  <2>2. DOMAIN db' = DOMAIN db \ {On(p)} /\ \A n \in DOMAIN db' : db'[n] = db[n]
    BY <1>3 DEF Without
  <2>3. Proc' = Proc /\ at[p] <= at'[p]
    BY <1>3, PlanLengths DEF Proc
  <2>4. Course(p)
    BY <1>1, <1>3, <2>1, <2>3 DEF Course
  <2>5. Replaces(p, at[p], On(p))
    BY <1>1 DEF Replaces, On, Task
  <2>6. Alters(p)
    BY <1>1, <2>1, <2>2, <2>5 DEF Alters, Grows
  <2> QED
    BY <1>1, <2>1, <2>4, <2>6, SameMemorises DEF Steps, AppliesFirst
<1> QED
  BY <1>2, <1>3 DEF DropForRecreation

LEMMA RoundSteps ==
  ASSUME ServerTypeOK, NEW p \in Proc, CheckResidue(p) \/ DropRound(p)
  PROVE  /\ Steps(p) /\ at'[p] = at[p] + 1 /\ UNCHANGED mem
         /\ \A n \in Names(p) : n \notin DOMAIN db'
         /\ CheckResidue(p) /\ ~failed'[p] => Names(p) \cap DOMAIN db = {}
<1>1. PICK names : names = Names(p)
  OBVIOUS
<1>2. PICK there : there = names \cap DOMAIN db
  OBVIOUS
<1>3. /\ Running(p) /\ Task(p).do \in {"absent", "drop"} /\ UNCHANGED mem
      /\ names = {On(p), Task(p).other} /\ there \subseteq names
  BY <1>1, <1>2 DEF CheckResidue, DropRound, Doing, Names, DropThen
<1>4. CASE DropRound(p)
  <2>1. DropThen(p, names, TRUE) /\ ~CheckResidue(p)
    BY <1>1, <1>4 DEF DropRound, CheckResidue, Doing
  <2>2. /\ Course(p) /\ phase'[p] = "start" /\ at'[p] = at[p] + 1
        /\ Alters(p) /\ DOMAIN db' = DOMAIN db \ names
    BY <1>3, <2>1, DropCourse
  <2> QED
    BY <1>1, <1>3, <2>1, <2>2, SameMemorises DEF Steps, AppliesFirst
<1>5. CASE CheckResidue(p)
  <2>1. DropThen(p, there, there = {})
    BY <1>1, <1>2, <1>5 DEF CheckResidue
  <2>2. /\ Course(p) /\ phase'[p] = "start" /\ at'[p] = at[p] + 1 /\ (~failed'[p] => there = {})
        /\ Alters(p) /\ DOMAIN db' = DOMAIN db \ there
    BY <1>3, <2>1, DropCourse
  <2> QED
    BY <1>1, <1>2, <1>3, <2>2, SameMemorises DEF Steps, AppliesFirst
<1> QED
  BY <1>4, <1>5

LEMMA OtherSteps ==
  ASSUME ServerTypeOK, NEW p \in Proc, CheckDropped(p) \/ Fail(p) \/ Done(p)
  PROVE  Steps(p)
<1>1. /\ Running(p) /\ UNCHANGED db
      /\ UNCHANGED mem \/ mem' = [mem EXCEPT ![p].lost = TRUE]
      /\ \E ok : EndTask(p, ok) \/ Verdict(p, ok)
  BY DEF CheckDropped, Fail, Done, Doing
<1> QED
  BY <1>1, EndsSteps, SameMemorises, LostMemorises

LEMMA KillSteps ==
  ASSUME ServerInv, NEW p \in Proc, Kill(p)
  PROVE  Steps(p)
<1>1. Course(p) /\ ~Running(p)' /\ UNCHANGED <<db, phase>>
  BY KillCourse DEF ServerInv
<1> QED
  BY <1>1, SameAlters, LostMemorises DEF Steps, AppliesFirst, Kill, ServerInv

LEMMA EveryStep ==
  ASSUME ServerInv, NEW p \in Proc, MigrationStep(p) \/ Gate(p) \/ Fresh(p)
  PROVE  Steps(p)
<1>1. ServerTypeOK
  BY DEF ServerInv
<1>2. CASE MigrationStep(p)
  BY <1>1, <1>2, CreateLedgerSteps, LookupSteps, ApplySteps, RecordFileSteps, ReadySteps,
     OtherSteps, KillSteps DEF MigrationStep, Migrate
<1>3. CASE Gate(p)
  BY <1>1, <1>3, BackupSteps, RestoreSteps, CountSourceSteps, ReadBackSteps, CleanupSteps,
     GatesSteps, RowsSteps, ReadShapeSteps DEF Gate
<1>4. CASE Fresh(p)
  BY <1>1, <1>4, DropForRecreationSteps, CreateSteps, RoundSteps, OtherSteps DEF Fresh
<1> QED
  BY <1>2, <1>3, <1>4

\* Which actions a task has, of a script that goes on.
LEMMA TaskOf ==
  ASSUME NEW p
  PROVE  /\ Migrate(p) => Task(p).do = "migrate"
         /\ Ready(p) => Task(p).do = "ready"
         /\ Backup(p) => Task(p).do = "backup"
         /\ Restore(p) => Task(p).do = "restore"
         /\ CountSource(p) => Task(p).do = "count"
         /\ ReadBack(p) => Task(p).do = "readback"
         /\ Cleanup(p) => Task(p).do = "cleanup"
         /\ Preflight(p) => Task(p).do = "preflight"
         /\ Suites(p) => Task(p).do = "suites"
         /\ SpotGates(p) => Task(p).do = "spot"
         /\ ReadShape(p) => Task(p).do = "shape"
         /\ CompareShape(p) => Task(p).do = "compare"
         /\ DropForRecreation(p) => Task(p).do = "recreate"
         /\ Create(p) => Task(p).do \in {"create", "recreate"}
         /\ CheckResidue(p) => Task(p).do = "absent"
         /\ DropRound(p) => Task(p).do = "drop"
         /\ CheckDropped(p) => Task(p).do = "gone"
<1>1. Migrate(p) => Task(p).do = "migrate"
  BY DEF Migrate, CreateLedger, Lookup, Done, Apply, RecordFile, Doing
<1>2. Ready(p) => Task(p).do = "ready"
  BY DEF Ready, Ask, Check, CheckThrows, Answer, Doing
<1>3. Restore(p) => Task(p).do = "restore"
  BY DEF Restore, LookAtTarget, CreateTarget, CleanTarget, RestoreTables, RestoreRows,
     RestoreGuards, VerifyRestore, Doing
<1>4. /\ Backup(p) => Task(p).do = "backup"
      /\ CountSource(p) => Task(p).do = "count"
      /\ ReadBack(p) => Task(p).do = "readback"
      /\ Cleanup(p) => Task(p).do = "cleanup"
      /\ Preflight(p) => Task(p).do = "preflight"
      /\ Suites(p) => Task(p).do = "suites"
      /\ SpotGates(p) => Task(p).do = "spot"
      /\ ReadShape(p) => Task(p).do = "shape"
      /\ CompareShape(p) => Task(p).do = "compare"
  BY DEF Backup, CountSource, ReadBack, Cleanup, Preflight, Suites, SpotGates, ReadShape,
     CompareShape, Doing
<1>5. /\ DropForRecreation(p) => Task(p).do = "recreate"
      /\ Create(p) => Task(p).do \in {"create", "recreate"}
      /\ CheckResidue(p) => Task(p).do = "absent"
      /\ DropRound(p) => Task(p).do = "drop"
      /\ CheckDropped(p) => Task(p).do = "gone"
  BY DEF DropForRecreation, Create, CheckResidue, DropRound, CheckDropped, Doing
<1> QED
  BY <1>1, <1>2, <1>3, <1>4, <1>5

LEMMA FailingFails ==
  ASSUME ServerTypeOK, NEW p \in Proc, Fail(p) \/ Kill(p)
  PROVE  failed'[p]
<1>1. CASE Fail(p)
  BY <1>1, EndTaskCourse DEF Fail
<1> QED
  BY <1>1, KillCourse

-----------------------------------------------------------------------------
(* Audits beside one another.                                                *)

RoundNames(p) == {p.plan[1].on, p.plan[1].other}

Together(p, q) ==
  /\ p # q /\ Is(p, "absent") /\ p.plan = q.plan
  /\ \A r \in Proc \ {p, q} : \A j \in 1..Len(r.plan) :
       \A n \in RoundNames(p) : ~Replaces(r, j, n)

\* An audit holds its names from its CREATE to its DROP.
Holds(p) == at[p] \in 3..10

\* While it has not failed an audit has what it created, and no other that has not failed
\* either holds the names too; what the other has left is gone.
AuditsApart(p, q) ==
  Together(p, q) /\ ~failed[p] /\ ~failed[q] =>
    /\ Holds(p) => p.plan[1].on \in DOMAIN db
    /\ ~(Holds(p) /\ Holds(q))
    /\ at[p] >= 2 /\ ~Holds(q) => \A n \in RoundNames(p) \cap DOMAIN db : db[n].by # q.id
    /\ q.id \notin mem[p].used

AuditInv == \A p, q \in Proc : AuditsApart(p, q)

LEMMA RoundPlan ==
  ASSUME ServerTypeOK, NEW p \in Proc, Is(p, "absent")
  PROVE  /\ Len(p.plan) = 11
         /\ \A i \in 1..11 : /\ p.plan[i].on \in RoundNames(p) /\ p.plan[i].other \in RoundNames(p)
                             /\ p.plan[i].do = "absent" <=> i = 1
                             /\ p.plan[i].do = "create" <=> i = 2
                             /\ p.plan[i].do = "drop" <=> i = 10
                             /\ p.plan[i].do = "gone" <=> i = 11
                             /\ p.plan[i].do \notin {"recreate", "cleanup"}
                             /\ p.plan[i].do = "restore" => i = 8
         /\ p.plan[2].on = p.plan[1].on
         /\ RoundNames(p) = {p.plan[1].on, p.plan[1].other}
         /\ RoundNames(p) = {p.plan[10].on, p.plan[10].other}
<1>1. PICK on, other : p.plan = Round(on, other)
  BY ScriptsAssumption DEF ServerTypeOK
<1>2. /\ Len(p.plan) = 11 /\ p.plan[1].on = on /\ p.plan[1].other = other
      /\ p.plan[10].on = on /\ p.plan[10].other = other /\ p.plan[2].on = on
  BY <1>1 DEF Round, T, On2
<1>3. ASSUME NEW i \in 1..11
      PROVE  /\ p.plan[i].on \in {on, other} /\ p.plan[i].other \in {on, other}
             /\ p.plan[i].do = "absent" <=> i = 1
             /\ p.plan[i].do = "create" <=> i = 2
             /\ p.plan[i].do = "drop" <=> i = 10
             /\ p.plan[i].do = "gone" <=> i = 11
             /\ p.plan[i].do \notin {"recreate", "cleanup"}
             /\ p.plan[i].do = "restore" => i = 8
  BY <1>1 DEF Round, T, On2, MigrateWanting
<1> QED
  BY <1>2, <1>3 DEF RoundNames

LEMMA IdsDiffer ==
  ASSUME ServerTypeOK, NEW p \in Proc, NEW q \in Proc, p # q
  PROVE  p.id # q.id /\ p.id # "nobody"
BY ScriptsAssumption DEF ServerTypeOK

\* What the step of an audit does that goes on.
LEMMA AuditGoesOn ==
  ASSUME ServerInv, NEW p \in Proc, Is(p, "absent"), ~failed'[p],
         MigrationStep(p) \/ Gate(p) \/ Fresh(p)
  PROVE  /\ Steps(p) /\ at[p] \in 1..11 /\ at'[p] \in {at[p], at[p] + 1}
         /\ at[p] = 1 => /\ at'[p] = 2 /\ UNCHANGED mem
                         /\ \A n \in RoundNames(p) : n \notin DOMAIN db /\ n \notin DOMAIN db'
         /\ at[p] = 2 => /\ at'[p] = 3 /\ UNCHANGED mem /\ p.plan[1].on \notin DOMAIN db
                         /\ p.plan[1].on \in DOMAIN db'
         /\ at[p] = 10 => at'[p] = 11 /\ \A n \in RoundNames(p) : n \notin DOMAIN db'
         /\ at[p] = 11 => UNCHANGED <<db, mem>>
         /\ at[p] # 10 => \A n \in DOMAIN db : n \in DOMAIN db'
<1>1. ServerTypeOK
  BY DEF ServerInv
<1>2. Steps(p)
  BY EveryStep
<1>3. at[p] \in 1..11 /\ Task(p) = p.plan[at[p]]
  BY <1>1, <1>2, RoundPlan DEF Steps, Course, Running, Task
<1>4. at'[p] \in {at[p], at[p] + 1}
  BY <1>2 DEF Steps, Course
<1>5. ~Fail(p) /\ ~Kill(p)
  BY <1>1, FailingFails
<1>6. at[p] = 1 => CheckResidue(p)
  BY <1>1, <1>3, <1>5, RoundPlan, TaskOf DEF MigrationStep, Gate, Fresh
<1>7. at[p] = 2 => Create(p)
  BY <1>1, <1>3, <1>5, RoundPlan, TaskOf DEF MigrationStep, Gate, Fresh
<1>8. at[p] = 10 => DropRound(p)
  BY <1>1, <1>3, <1>5, RoundPlan, TaskOf DEF MigrationStep, Gate, Fresh
<1>9. at[p] = 11 => CheckDropped(p)
  BY <1>1, <1>3, <1>5, RoundPlan, TaskOf DEF MigrationStep, Gate, Fresh
<1>10. at[p] \in {1, 10} => Names(p) = RoundNames(p)
  BY <1>1, <1>3, RoundPlan DEF Names, On
<1>11. ASSUME at[p] = 1
       PROVE  /\ at'[p] = 2 /\ UNCHANGED mem
              /\ \A n \in RoundNames(p) : n \notin DOMAIN db /\ n \notin DOMAIN db'
  <2>1. PICK names : names = Names(p)
    OBVIOUS
  <2>2. at'[p] = 2 /\ UNCHANGED mem /\ names \cap DOMAIN db = {}
        /\ \A n \in names : n \notin DOMAIN db'
    BY <1>1, <1>6, <1>11, <2>1, RoundSteps
  <2> QED
    BY <1>10, <1>11, <2>1, <2>2
<1>12. ASSUME at[p] = 2
       PROVE  /\ at'[p] = 3 /\ UNCHANGED mem /\ p.plan[1].on \notin DOMAIN db
              /\ p.plan[1].on \in DOMAIN db'
  <2>1. On(p) = p.plan[1].on
    BY <1>1, <1>3, <1>12, RoundPlan DEF On
  <2>2. ~Exists(On(p)) /\ db' = With(On(p), p.id) /\ at'[p] = 3 /\ UNCHANGED mem
    BY <1>1, <1>7, <1>12, CreateSteps DEF Create
  <2>3. On(p) \in DOMAIN db'
    BY <2>2 DEF With, Joined
  <2> QED
    BY <2>1, <2>2, <2>3 DEF Exists
<1>13. ASSUME at[p] = 10
       PROVE  at'[p] = 11 /\ \A n \in RoundNames(p) : n \notin DOMAIN db'
  <2>1. PICK names : names = Names(p)
    OBVIOUS
  <2>2. at'[p] = 11 /\ \A n \in names : n \notin DOMAIN db'
    BY <1>1, <1>8, <1>13, <2>1, RoundSteps
  <2> QED
    BY <1>10, <1>13, <2>1, <2>2
<1>14. at[p] = 11 => UNCHANGED <<db, mem>>
  BY <1>9 DEF CheckDropped
<1>15. ASSUME at[p] # 10, NEW n \in DOMAIN db PROVE n \in DOMAIN db'
  <2>1. CASE at[p] = 1
    <3>1. \A m \in DOMAIN db \ DOMAIN db' : Replaces(p, at[p], m)
      BY <1>2 DEF Steps, Alters
    <3>2. \A m : Replaces(p, at[p], m) => m \in RoundNames(p)
      BY <1>1, <2>1, RoundPlan DEF Replaces
    <3> QED
      BY <1>11, <2>1, <3>1, <3>2
  <2>2. CASE at[p] # 1
    <3>1. \A m \in DOMAIN db \ DOMAIN db' : Replaces(p, at[p], m) /\ Task(p).do # "restore"
      BY <1>2 DEF Steps, Alters
    <3>2. Task(p).do \notin {"absent", "drop", "recreate", "cleanup"}
      BY <1>1, <1>3, <1>15, <2>2, RoundPlan
    <3> QED
      BY <1>3, <3>1, <3>2 DEF Replaces
  <2> QED
    BY <2>1, <2>2
<1> QED
  BY <1>2, <1>3, <1>4, <1>11, <1>12, <1>13, <1>14, <1>15

\* p's step.
LEMMA AuditsApartOwn ==
  ASSUME ServerInv, AuditInv, NEW p \in Proc, NEW q \in Proc, Together(p, q),
         ~failed'[p], ~failed'[q],
         MigrationStep(p) \/ Gate(p) \/ Fresh(p)
  PROVE  AuditsApart(p, q)' /\ AuditsApart(q, p)'
<1>1. ServerTypeOK /\ Is(p, "absent") /\ p # q /\ p.plan = q.plan /\ Is(q, "absent")
      /\ Together(q, p) /\ RoundNames(q) = RoundNames(p)
  BY DEF ServerInv, Together, Is, RoundNames
<1>2. /\ Steps(p) /\ at[p] \in 1..11 /\ at'[p] \in {at[p], at[p] + 1}
      /\ at[p] = 1 => /\ at'[p] = 2 /\ UNCHANGED mem
                      /\ \A n \in RoundNames(p) : n \notin DOMAIN db /\ n \notin DOMAIN db'
      /\ at[p] = 2 => /\ at'[p] = 3 /\ UNCHANGED mem /\ p.plan[1].on \notin DOMAIN db
                      /\ p.plan[1].on \in DOMAIN db'
      /\ at[p] = 10 => at'[p] = 11 /\ \A n \in RoundNames(p) : n \notin DOMAIN db'
      /\ at[p] = 11 => UNCHANGED <<db, mem>>
      /\ at[p] # 10 => \A n \in DOMAIN db : n \in DOMAIN db'
  BY <1>1, AuditGoesOn
<1>3. /\ ~failed[p] /\ ~failed[q] /\ at'[q] = at[q] /\ mem'[q] = mem[q]
      /\ mem'[p].used \subseteq mem[p].used \cup {db[n].by : n \in DOMAIN db \cap {On(p)}}
  BY <1>1, <1>2 DEF Steps, Course, Memorises
<1>4. AuditsApart(p, q) /\ AuditsApart(q, p)
  BY DEF AuditInv
<1>5. at[q] \in Nat /\ On(p) \in RoundNames(p) /\ p.plan[1].on \in RoundNames(p)
  BY <1>1, <1>2, PlanLengths, RoundPlan DEF On, Task, RoundNames
<1>6. /\ \A n \in DOMAIN db \cap DOMAIN db' : db'[n].by = db[n].by
      /\ \A n \in DOMAIN db' \ DOMAIN db : db'[n].by = p.id
  BY <1>2 DEF Steps, Alters, Empty
<1>7. p.id # q.id
  BY <1>1, IdsDiffer
\* What p has and does of the names.
<1>8. /\ Holds(p) => p.plan[1].on \in DOMAIN db
      /\ Holds(q) => p.plan[1].on \in DOMAIN db
      /\ ~(Holds(p) /\ Holds(q))
      /\ at[p] >= 2 /\ ~Holds(q) => \A n \in RoundNames(p) \cap DOMAIN db : db[n].by # q.id
      /\ at[q] >= 2 /\ ~Holds(p) => \A n \in RoundNames(p) \cap DOMAIN db : db[n].by # p.id
      /\ q.id \notin mem[p].used /\ p.id \notin mem[q].used
  BY <1>1, <1>3, <1>4 DEF AuditsApart
<1>9. Holds(p)' => p.plan[1].on \in DOMAIN db'
  BY <1>2, <1>8 DEF Holds
<1>10. ~(Holds(p)' /\ Holds(q)') /\ Holds(q)' = Holds(q)
  BY <1>2, <1>3, <1>8 DEF Holds
<1>11. Holds(q)' => p.plan[1].on \in DOMAIN db'
  BY <1>2, <1>3, <1>8, <1>10 DEF Holds
<1>12. at'[p] >= 2 /\ ~Holds(q)' => \A n \in RoundNames(p) \cap DOMAIN db' : db'[n].by # q.id
  <2> SUFFICES ASSUME at'[p] >= 2, ~Holds(q), NEW n \in RoundNames(p) \cap DOMAIN db'
               PROVE  db'[n].by # q.id
    BY <1>10
  <2>1. CASE at[p] = 1
    BY <1>2, <2>1
  <2>2. CASE at[p] # 1
    BY <1>2, <1>6, <1>7, <1>8, <2>2
  <2> QED
    BY <2>1, <2>2
<1>13. at'[q] >= 2 /\ ~Holds(p)' => \A n \in RoundNames(p) \cap DOMAIN db' : db'[n].by # p.id
  <2> SUFFICES ASSUME at[q] >= 2, ~Holds(p)', NEW n \in RoundNames(p) \cap DOMAIN db'
               PROVE  db'[n].by # p.id
    BY <1>3
  <2>1. CASE at[p] \in {1, 10}
    BY <1>2, <2>1
  <2>2. at[p] # 2 /\ at[p] \notin 3..9
    BY <1>2 DEF Holds
  <2>3. CASE at[p] = 11
    BY <1>2, <1>8, <2>3 DEF Holds
  <2> QED
    BY <1>2, <2>1, <2>2, <2>3
<1>14. q.id \notin mem'[p].used
  <2>1. CASE at[p] \in {1, 2, 11}
    BY <1>2, <1>8, <2>1
  <2>2. CASE at[p] \in 3..10
    <3>1. \A n \in RoundNames(p) \cap DOMAIN db : db[n].by # q.id
      BY <1>8, <2>2 DEF Holds
    <3> QED
      BY <1>3, <1>5, <1>8, <3>1
  <2> QED
    BY <1>2, <2>1, <2>2
<1>15. p.id \notin mem'[q].used
  BY <1>3, <1>8
<1> QED
  BY <1>1, <1>9, <1>10, <1>11, <1>12, <1>13, <1>14, <1>15 DEF AuditsApart

\* The step of another script, which does not replace their databases.
LEMMA AuditsApartOther ==
  ASSUME ServerInv, AuditInv, NEW p \in Proc, NEW q \in Proc, Together(p, q),
         NEW r \in Proc \ {p, q}, ~failed'[p], ~failed'[q],
         MigrationStep(r) \/ Gate(r) \/ Fresh(r)
  PROVE  AuditsApart(p, q)'
<1>1. ServerTypeOK /\ Is(p, "absent") /\ p # q /\ p.plan = q.plan /\ Steps(r)
  BY EveryStep DEF ServerInv, Together
<1>2. /\ at'[p] = at[p] /\ at'[q] = at[q] /\ mem'[p] = mem[p] /\ ~failed[p] /\ ~failed[q]
  BY <1>1 DEF Steps, Course, Memorises
<1>3. at[r] \in 1..Len(r.plan) /\ \A n \in RoundNames(p) : ~Replaces(r, at[r], n)
  BY <1>1 DEF Steps, Course, Running, Together
<1>4. /\ \A n \in RoundNames(p) \cap DOMAIN db : n \in DOMAIN db' /\ db'[n].by = db[n].by
      /\ \A n \in DOMAIN db' \ DOMAIN db : db'[n].by = r.id
  BY <1>1, <1>3 DEF Steps, Alters, Empty
<1>5. r.id # q.id
  BY <1>1, IdsDiffer
<1>6. AuditsApart(p, q) /\ p.plan[1].on \in RoundNames(p)
  BY DEF AuditInv, RoundNames
<1> QED
  BY <1>2, <1>4, <1>5, <1>6 DEF AuditsApart, Holds

LEMMA AuditStep ==
  ASSUME ServerInv, AuditInv, [ReleaseNext]_serverVars
  PROVE  AuditInv'
<1>1. CASE UNCHANGED serverVars
  BY <1>1 DEF AuditInv, AuditsApart, Together, Holds, serverVars, Proc
<1>2. ASSUME NEW r \in Proc, MigrationStep(r) \/ Gate(r) \/ Fresh(r) PROVE AuditInv'
  <2>1. Proc' = Proc
    BY <1>2, EveryStep DEF Steps, Course
  <2> SUFFICES ASSUME NEW p \in Proc, NEW q \in Proc, ~failed'[p], ~failed'[q], Together(p, q)
               PROVE  AuditsApart(p, q)'
    BY <2>1 DEF AuditInv, AuditsApart, Together
  <2>2. Together(q, p)
    BY DEF Together, Is, RoundNames
  <2>3. CASE r = p
    BY <1>2, <2>3, AuditsApartOwn
  <2>4. CASE r = q
    BY <1>2, <2>2, <2>4, AuditsApartOwn
  <2>5. CASE r \notin {p, q}
    BY <1>2, <2>5, AuditsApartOther
  <2> QED
    BY <2>3, <2>4, <2>5
<1> QED
  BY <1>1, <1>2 DEF ReleaseNext, AllEnded

LEMMA InitAudits ==
  ASSUME ServerInit
  PROVE  AuditInv
<1> SUFFICES ASSUME NEW p \in Proc, NEW q \in Proc PROVE AuditsApart(p, q)
  BY DEF AuditInv
<1>1. at[p] = 1 /\ at[q] = 1 /\ mem[p] = Forgotten
  BY DEF ServerInit, Proc
<1> QED
  BY <1>1 DEF AuditsApart, Holds, Forgotten

\* scripts/audit: of two audits of the same names, one that passes has only used databases
\* that the other did not make.
THEOREM AuditsAreApart == ReleaseSpec => []AuditsStandOnTheirOwn
<1>1. ASSUME ServerInv, AuditInv PROVE AuditsStandOnTheirOwn
  <2> SUFFICES ASSUME NEW p \in Proc, NEW q \in Proc, p # q, Is(p, "absent"), p.plan = q.plan,
                      Passed(p), Passed(q),
                      \A r \in Proc \ {p, q} : \A j \in 1..Len(r.plan) :
                        \A n \in {p.plan[1].on, p.plan[1].other} : ~Replaces(r, j, n)
               PROVE  q.id \notin mem[p].used
    BY DEF AuditsStandOnTheirOwn
  <2>1. Together(p, q)
    BY DEF Together, RoundNames
  <2> QED
    BY <1>1, <2>1 DEF AuditInv, AuditsApart, Passed
<1>2. ServerInv /\ AuditInv /\ [ReleaseNext]_serverVars => AuditInv'
  BY AuditStep
<1>3. ServerInit => AuditInv
  BY InitAudits
<1>4. ReleaseSpec => []AuditInv
  BY <1>2, <1>3, ServerIsInvariant, PTL DEF ReleaseSpec
<1> QED
  BY <1>1, <1>4, ServerIsInvariant, PTL

-----------------------------------------------------------------------------
(* What a restore leaves.                                                    *)

Sole(p, n) == NoOther(p, n, {"restore", "suites"})
Restoring(p) == Running(p) /\ Task(p).do = "restore"
Recorder(q, n) == Running(q) /\ Task(q).do = "migrate" /\ phase[q] = "record" /\ On(q) = n

\* An unforced restore begins in a database whose ledger and migrators name only tables
\* that are there, and all it restores was not.
Backed(n) ==
  /\ n \in DOMAIN db => DOMAIN db[n].ledger \subseteq db[n].tables
  /\ \A q \in Proc : Recorder(q, n) => n \in DOMAIN db /\ mem[q].file \in db[n].tables
StillToRestore(p, i) ==
  at[p] < i \/ (at[p] = i /\ phase[p] \in {"start", "create", "clean", "tables"})
SourceKnows(p) ==
  \A i \in 1..Len(p.plan) :
    /\ p.plan[i].do = "restore" /\ ~p.plan[i].force
    /\ Sole(p, p.plan[i].on) /\ StillToRestore(p, i)
    => Backed(p.plan[i].on)

\* What the ledger of n has and the dump has not was migrated after the dump's tables.
Beyond(p, n) ==
  /\ \A v \in DOMAIN db[n].ledger \ DOMAIN mem[p].dump.ledger : v \notin mem[p].dump.tables
  /\ \A q \in Proc : Recorder(q, n) => mem[q].file \notin mem[p].dump.tables
HasRows(p, d) ==
  /\ mem[p].dump.rows \subseteq d.rows
  /\ DOMAIN mem[p].dump.ledger \subseteq DOMAIN d.ledger
  /\ \A v \in DOMAIN mem[p].dump.ledger : d.ledger[v] = mem[p].dump.ledger[v]
TargetKnows(p) ==
  Restoring(p) =>
    /\ phase[p] = "clean" => Task(p).force
    /\ phase[p] = "verify" => ~mem[p].errors
    /\ Sole(p, On(p)) /\ phase[p] \in {"rows", "guards", "verify"} =>
         /\ Exists(On(p)) /\ mem[p].dump.tables \subseteq db[On(p)].tables
         /\ ~mem[p].errors /\ ~Task(p).force => Beyond(p, On(p))
         /\ ~mem[p].errors /\ phase[p] # "rows" => HasRows(p, db[On(p)])
         /\ phase[p] = "verify" => mem[p].dump.guards \subseteq db[On(p)].guards

CopyKnows(p) ==
  mem[p].copy.by # "nobody" =>
    \A i \in 1..Len(p.plan) : p.plan[i].do = "restore" =>
      /\ at[p] > i
      /\ Sole(p, p.plan[i].on) => Restored(mem[p].dump, mem[p].copy, p.plan[i].force)

RestoreKnows(p) == SourceKnows(p) /\ TargetKnows(p) /\ CopyKnows(p)
RestoreInv == \A p \in Proc : RestoreKnows(p)

-----------------------------------------------------------------------------
(* The steps of others, and those of p before and after its restore.         *)

LEMMA SoleStays ==
  ASSUME NEW p, Proc' = Proc
  PROVE  \A n : Sole(p, n)' = Sole(p, n)
BY DEF Sole, NoOther

\* No step of r but p's own restore takes anything from a database that p alone restores.
LEMMA SoleGrows ==
  ASSUME NEW p, NEW n, Sole(p, n), NEW r \in Proc, Steps(r),
         r = p => Task(p).do # "restore", n \in DOMAIN db \cap DOMAIN db'
  PROVE  /\ Grows(db[n], db'[n])
         /\ \A v \in DOMAIN db'[n].ledger \ DOMAIN db[n].ledger :
              Recorder(r, n) /\ v = mem[r].file
         /\ r # p => db[n].rows \subseteq db'[n].rows
<1>1. r # p /\ On(r) = n => Task(r).do \notin {"restore", "suites"}
  BY DEF Sole, NoOther, On, Task, Steps, Course, Running
<1>2. CASE On(r) # n
  <2>1. db'[n] = db[n]
    BY <1>2 DEF Steps, Alters
  <2> QED
    BY <2>1 DEF Grows
<1>3. CASE On(r) = n
  <2>1. /\ Task(r).do # "restore"
        /\ r # p => Task(r).do \notin {"restore", "suites"}
    BY <1>1, <1>3
  <2>2. /\ Grows(db[n], db'[n])
        /\ \A v \in DOMAIN db'[n].ledger \ DOMAIN db[n].ledger :
             Doing(r, "migrate", "record") /\ v = mem[r].file
    BY <2>1 DEF Steps, Alters
  <2>3. r # p => db[n].rows \subseteq db'[n].rows
    BY <2>1 DEF Steps, Alters
  <2> QED
    BY <1>3, <2>2, <2>3 DEF Recorder, Doing
<1> QED
  BY <1>2, <1>3

\* Who is a recorder after the step of r was one before, or is r, which has just applied.
LEMMA Recorders ==
  ASSUME ServerTypeOK, NEW r \in Proc, Steps(r), NEW n, NEW q \in Proc, Recorder(q, n)'
  PROVE  /\ n \in DOMAIN db /\ n \notin DOMAIN db' => FALSE
         /\ \/ Recorder(q, n) /\ mem'[q].file = mem[q].file
            \/ /\ n \in DOMAIN db \cap DOMAIN db'
               /\ mem'[q].file \in db'[n].tables \ db[n].tables
<1>1. CASE q = r
  <2>1. phase'[r] = "record" /\ Running(r)' /\ On(r)' = n
    BY <1>1 DEF Recorder
  <2>2. at'[r] = at[r]
    BY <2>1 DEF Steps, AppliesFirst
  <2>3. On(r) = n
    BY <2>1, <2>2 DEF On, Task
  <2>4. /\ mem'[r].file = mem[r].file /\ On(r) \in DOMAIN db \cap DOMAIN db'
        /\ mem[r].file \in db'[On(r)].tables \ db[On(r)].tables
    BY <2>1 DEF Steps, AppliesFirst
  <2> QED
    BY <1>1, <2>3, <2>4
<1>2. CASE q # r
  <2>1. at'[q] = at[q] /\ mem'[q] = mem[q] /\ phase'[q] \in {phase[q], "severed"}
    BY <1>2 DEF Steps, Course, Memorises
  <2>2. phase'[q] = "record"
    BY DEF Recorder
  <2>3. Recorder(q, n)
    BY <2>1, <2>2 DEF Recorder, Running, Task, On
  <2>4. ASSUME n \in DOMAIN db \ DOMAIN db' PROVE FALSE
    <3>1. Running(q) /\ On(q) = n /\ Task(q).do # "ready" /\ phase[q] \notin {"start", "create"}
      BY <2>3 DEF Recorder
    <3>2. phase'[q] = "severed"
      BY <1>2, <2>4, <3>1 DEF Steps, Alters
    <3> QED
      BY <2>2, <3>2
  <2> QED
    BY <2>1, <2>3, <2>4
<1> QED
  BY <1>1, <1>2

LEMMA BackedStays ==
  ASSUME ServerTypeOK, NEW p, NEW n, Sole(p, n), NEW r \in Proc, Steps(r),
         r = p => Task(p).do # "restore", Backed(n)
  PROVE  Backed(n)'
<1>1. Proc' = Proc
  BY DEF Steps, Course
<1>2. n \in DOMAIN db' => DOMAIN db'[n].ledger \subseteq db'[n].tables
  <2>1. CASE n \in DOMAIN db \cap DOMAIN db'
    <3>1. /\ Grows(db[n], db'[n])
          /\ \A v \in DOMAIN db'[n].ledger \ DOMAIN db[n].ledger :
               Recorder(r, n) /\ v = mem[r].file
      BY <2>1, SoleGrows
    <3> QED
      BY <2>1, <3>1 DEF Backed, Grows
  <2>2. CASE n \in DOMAIN db' \ DOMAIN db
    <3>1. db'[n] = Empty(r.id)
      BY <2>2 DEF Steps, Alters
    <3> QED
      BY <3>1 DEF Empty, NoLedger
  <2> QED
    BY <2>1, <2>2
<1>3. ASSUME NEW q \in Proc, Recorder(q, n)' PROVE n \in DOMAIN db' /\ mem'[q].file \in db'[n].tables
  <2>1. /\ n \in DOMAIN db /\ n \notin DOMAIN db' => FALSE
        /\ \/ Recorder(q, n) /\ mem'[q].file = mem[q].file
           \/ /\ n \in DOMAIN db \cap DOMAIN db'
              /\ mem'[q].file \in db'[n].tables \ db[n].tables
    BY <1>3, Recorders
  <2>2. CASE Recorder(q, n) /\ mem'[q].file = mem[q].file
    <3>1. n \in DOMAIN db \cap DOMAIN db' /\ mem[q].file \in db[n].tables
      BY <2>1, <2>2 DEF Backed
    <3> QED
      BY <2>2, <3>1, SoleGrows DEF Grows
  <2> QED
    BY <2>1, <2>2
<1> QED
  BY <1>1, <1>2, <1>3 DEF Backed

LEMMA SourceStays ==
  ASSUME ServerTypeOK, ServerTypeOK', NEW p \in Proc, NEW r \in Proc, Steps(r),
         r = p => Task(p).do # "restore", SourceKnows(p)
  PROVE  SourceKnows(p)'
<1>1. \A n : Sole(p, n)' = Sole(p, n)
  BY SoleStays DEF Steps, Course
<1> SUFFICES ASSUME NEW i \in 1..Len(p.plan), p.plan[i].do = "restore", ~p.plan[i].force,
                    Sole(p, p.plan[i].on), StillToRestore(p, i)'
             PROVE  Backed(p.plan[i].on)'
  BY <1>1 DEF SourceKnows
<1>2. StillToRestore(p, i)
  <2>1. CASE r # p
    <3>1. at'[p] = at[p] /\ phase'[p] \in {phase[p], "severed"}
      BY <2>1 DEF Steps, Course
    <3> QED
      BY <3>1 DEF StillToRestore
  <2>2. CASE r = p
    <3>1. at[p] # i /\ at[p] <= at'[p]
      BY <2>2 DEF Task, Steps, Course
    <3>2. at[p] \in Nat /\ at'[p] \in Nat /\ i \in Nat
      BY PlanLengths DEF ServerTypeOK, Steps, Course
    <3>3. at'[p] <= i
      BY <3>2 DEF StillToRestore
    <3> QED
      BY <3>1, <3>2, <3>3 DEF StillToRestore
  <2> QED
    BY <2>1, <2>2
<1>3. Backed(p.plan[i].on)
  BY <1>2 DEF SourceKnows
<1>4. PICK n : n = p.plan[i].on
  OBVIOUS
<1> QED
  BY <1>3, <1>4, BackedStays

LEMMA TargetStays ==
  ASSUME ServerTypeOK, NEW p \in Proc, NEW r \in Proc \ {p}, Steps(r), TargetKnows(p)
  PROVE  TargetKnows(p)'
<1> SUFFICES ASSUME Restoring(p)' PROVE TargetKnows(p)'
  BY DEF TargetKnows
<1>1. /\ at'[p] = at[p] /\ mem'[p] = mem[p] /\ phase'[p] \in {phase[p], "severed"}
      /\ Proc' = Proc
  BY DEF Steps, Course, Memorises
<1>2. Restoring(p) /\ Task(p)' = Task(p)
  BY <1>1 DEF Restoring, Running, Task
<1>3. PICK n : n = On(p)
  OBVIOUS
<1>4. On(p)' = n
  BY <1>1, <1>3 DEF On, Task
<1>5. Sole(p, n)' = Sole(p, n)
  BY <1>1, SoleStays
<1>6. ASSUME Sole(p, n), phase'[p] \in {"rows", "guards", "verify"}
      PROVE  /\ n \in DOMAIN db' /\ mem[p].dump.tables \subseteq db'[n].tables
             /\ ~mem[p].errors /\ ~Task(p).force => Beyond(p, n)'
             /\ ~mem[p].errors /\ phase[p] # "rows" => HasRows(p, db[n])'
             /\ phase[p] = "verify" => mem[p].dump.guards \subseteq db'[n].guards
  <2>1. phase'[p] = phase[p]
    BY <1>1, <1>6
  <2>2. /\ n \in DOMAIN db /\ mem[p].dump.tables \subseteq db[n].tables
        /\ ~mem[p].errors /\ ~Task(p).force => Beyond(p, n)
        /\ ~mem[p].errors /\ phase[p] # "rows" => HasRows(p, db[n])
        /\ phase[p] = "verify" => mem[p].dump.guards \subseteq db[n].guards
    BY <1>2, <1>3, <1>6, <2>1 DEF TargetKnows, Exists
  <2>3. n \in DOMAIN db'
    <3> SUFFICES ASSUME n \in DOMAIN db \ DOMAIN db' PROVE FALSE
      BY <2>2
    <3>1. Running(p) /\ On(p) = n /\ Task(p).do # "ready" /\ phase[p] \notin {"start", "create"}
      BY <1>2, <1>3, <1>6, <2>1 DEF Restoring
    <3>2. phase'[p] = "severed"
      BY <3>1 DEF Steps, Alters
    <3> QED
      BY <1>6, <3>2
  <2>4. /\ Grows(db[n], db'[n])
        /\ \A v \in DOMAIN db'[n].ledger \ DOMAIN db[n].ledger :
             Recorder(r, n) /\ v = mem[r].file
        /\ db[n].rows \subseteq db'[n].rows
    <3>1. n \in DOMAIN db \cap DOMAIN db'
      BY <2>2, <2>3
    <3> QED
      BY <1>6, <3>1, SoleGrows
  <2>5. HasRows(p, db[n]) => HasRows(p, db[n])'
    BY <1>1, <2>4 DEF HasRows, Grows
  <2>6. ASSUME Beyond(p, n) PROVE Beyond(p, n)'
    <3>1. ASSUME NEW v \in DOMAIN db'[n].ledger \ DOMAIN mem[p].dump.ledger
          PROVE  v \notin mem[p].dump.tables
      BY <2>4, <2>6 DEF Beyond
    <3>2. ASSUME NEW q \in Proc, Recorder(q, n)' PROVE mem'[q].file \notin mem[p].dump.tables
      BY <2>2, <2>6, <3>2, Recorders DEF Beyond
    <3> QED
      BY <1>1, <3>1, <3>2 DEF Beyond
  <2> QED
    BY <2>2, <2>3, <2>4, <2>5, <2>6 DEF Grows
<1>7. /\ phase'[p] = "clean" => Task(p).force
      /\ phase'[p] = "verify" => ~mem[p].errors
  BY <1>1, <1>2 DEF TargetKnows
<1>8. phase'[p] \in {"rows", "guards", "verify"} => phase'[p] = phase[p]
  BY <1>1
<1> QED
  BY <1>1, <1>2, <1>4, <1>5, <1>6, <1>7, <1>8 DEF TargetKnows, Exists, HasRows

LEMMA TargetStart ==
  ASSUME NEW p \in Proc, Steps(p), at'[p] # at[p] \/ Task(p).do # "restore"
  PROVE  TargetKnows(p)'
<1> SUFFICES ASSUME Restoring(p)' PROVE TargetKnows(p)'
  BY DEF TargetKnows
<1>1. at'[p] # at[p]
  BY DEF Restoring, Task
<1>2. phase'[p] = "start"
  BY <1>1 DEF Restoring, Steps, Course
<1> QED
  BY <1>2 DEF TargetKnows

\* What is dumped is dumped before it is restored.
LEMMA CopyStays ==
  ASSUME ServerTypeOK, ServerTypeOK', NEW p \in Proc, NEW r \in Proc, Steps(r),
         mem'[p].copy = mem[p].copy, CopyKnows(p)
  PROVE  CopyKnows(p)'
<1>1. \A n : Sole(p, n)' = Sole(p, n)
  BY SoleStays DEF Steps, Course
<1> SUFFICES ASSUME mem[p].copy.by # "nobody", NEW i \in 1..Len(p.plan), p.plan[i].do = "restore"
             PROVE  /\ at'[p] > i
                    /\ Sole(p, p.plan[i].on) => Restored(mem'[p].dump, mem[p].copy, p.plan[i].force)
  BY <1>1 DEF CopyKnows
<1>2. /\ at[p] > i
      /\ Sole(p, p.plan[i].on) => Restored(mem[p].dump, mem[p].copy, p.plan[i].force)
  BY DEF CopyKnows
<1>3. at[p] \in Nat /\ at'[p] \in Nat /\ i \in Nat /\ at[p] <= at'[p]
  <2>1. at[p] <= at'[p]
    BY PlanLengths DEF Steps, Course
  <2> QED
    BY <2>1, PlanLengths DEF ServerTypeOK, Steps, Course
<1>4. mem'[p].dump = mem[p].dump
  <2>1. CASE r # p
    BY <2>1 DEF Steps, Memorises
  <2>2. CASE r = p
    <3>1. at[p] \in 1..Len(p.plan)
      BY <2>2 DEF Steps, Course, Running
    <3>2. p.plan[at[p]].do \notin {"backup", "restore"}
      BY <1>2, <1>3, <3>1, ScriptsAssumption DEF ServerTypeOK
    <3> QED
      BY <2>2, <3>2 DEF Steps, Memorises, Task
  <2> QED
    BY <2>1, <2>2
<1> QED
  BY <1>2, <1>3, <1>4

\* p's steps but those of its restore.
LEMMA OthersRestoreStays ==
  ASSUME ServerTypeOK, ServerTypeOK', NEW p \in Proc, NEW r \in Proc, Steps(r),
         r = p => Task(p).do # "restore", RestoreKnows(p)
  PROVE  RestoreKnows(p)'
<1>1. SourceKnows(p)'
  BY SourceStays DEF RestoreKnows
<1>2. TargetKnows(p)'
  BY TargetStays, TargetStart DEF RestoreKnows
<1>3. mem'[p].copy = mem[p].copy
  BY DEF Steps, Memorises
<1>4. CopyKnows(p)'
  BY <1>3, CopyStays DEF RestoreKnows
<1> QED
  BY <1>1, <1>2, <1>4 DEF RestoreKnows

-----------------------------------------------------------------------------
(* The statements of a restore.                                              *)

LEMMA FieldsOf ==
  ASSUME ServerTypeOK, NEW p \in Proc
  PROVE  /\ mem' = [mem EXCEPT ![p].created = FALSE, ![p].errors = FALSE] =>
              mem'[p].dump = mem[p].dump /\ mem'[p].copy = mem[p].copy
         /\ mem' = [mem EXCEPT ![p].created = TRUE] =>
              mem'[p].dump = mem[p].dump /\ mem'[p].copy = mem[p].copy
         /\ mem' = [mem EXCEPT ![p].lost = TRUE] =>
              mem'[p].dump = mem[p].dump /\ mem'[p].copy = mem[p].copy
BY MemoriesAre DEF Memory, ServerTypeOK

\* A script restores once.
LEMMA RestoresOnce ==
  ASSUME ServerTypeOK, NEW p \in Proc, Restoring(p), NEW i \in 1..Len(p.plan),
         p.plan[i].do = "restore"
  PROVE  i = at[p] /\ (CopyKnows(p) => mem[p].copy.by = "nobody")
<1>1. at[p] \in 1..Len(p.plan) /\ p.plan[at[p]].do = "restore" /\ Len(p.plan) \in Nat
  BY PlanLengths DEF Restoring, Running, Task
<1>2. i <= at[p] /\ at[p] <= i
  BY <1>1, ScriptsAssumption DEF ServerTypeOK
<1>3. i = at[p]
  BY <1>1, <1>2
<1> QED
  BY <1>1, <1>3 DEF CopyKnows

LEMMA OwnRecorders ==
  ASSUME NEW p \in Proc, Steps(p), Task(p).do = "restore", NEW n, NEW q \in Proc, Recorder(q, n)'
  PROVE  Recorder(q, n) /\ mem'[q].file = mem[q].file
<1>1. CASE q = p
  <2>1. phase'[p] = "record" /\ Task(p)'.do = "migrate" /\ Running(p)'
    BY <1>1 DEF Recorder
  <2>2. at'[p] = at[p]
    BY <2>1 DEF Steps, Course
  <2> QED
    BY <2>1, <2>2 DEF Task
<1>2. CASE q # p
  <2>1. at'[q] = at[q] /\ mem'[q] = mem[q] /\ phase'[q] \in {phase[q], "severed"}
    BY <1>2 DEF Steps, Course, Memorises
  <2> QED
    BY <2>1 DEF Recorder, Running, Task, On
<1> QED
  BY <1>1, <1>2

\* A statement after which the restore is over.
LEMMA RestoreEnds ==
  ASSUME ServerTypeOK, ServerTypeOK', NEW p \in Proc, Restoring(p), Steps(p), at'[p] > at[p],
         mem'[p].copy = mem[p].copy \/
           (Sole(p, On(p)) => Restored(mem[p].dump, mem'[p].copy, Task(p).force)),
         RestoreKnows(p)
  PROVE  RestoreKnows(p)'
<1>1. Proc' = Proc /\ at[p] \in Nat /\ at'[p] \in Nat
  BY PlanLengths DEF Steps, Course, ServerTypeOK
<1>2. \A n : Sole(p, n)' = Sole(p, n)
  BY <1>1, SoleStays
<1>3. SourceKnows(p)'
  <2> SUFFICES ASSUME NEW i \in 1..Len(p.plan), p.plan[i].do = "restore", StillToRestore(p, i)'
               PROVE  FALSE
    BY DEF SourceKnows
  <2>1. i = at[p]
    BY RestoresOnce
  <2> QED
    BY <1>1, <2>1 DEF StillToRestore
<1>4. TargetKnows(p)'
  BY <1>1, TargetStart
<1>5. CASE mem'[p].copy = mem[p].copy
  BY <1>3, <1>4, <1>5, CopyStays DEF RestoreKnows
<1>6. CASE Sole(p, On(p)) => Restored(mem[p].dump, mem'[p].copy, Task(p).force)
  <2>1. mem'[p].dump = mem[p].dump
    BY DEF Steps, Memorises, Restoring
  <2>2. ASSUME NEW i \in 1..Len(p.plan), p.plan[i].do = "restore"
        PROVE  /\ at'[p] > i
               /\ Sole(p, p.plan[i].on) => Restored(mem'[p].dump, mem'[p].copy, p.plan[i].force)
    <3>1. i = at[p]
      BY <2>2, RestoresOnce
    <3> QED
      BY <1>6, <2>1, <3>1 DEF On, Task
  <2>3. CopyKnows(p)'
    BY <1>2, <2>2 DEF CopyKnows
  <2> QED
    BY <1>3, <1>4, <2>3 DEF RestoreKnows
<1> QED
  BY <1>5, <1>6

\* A statement after which it goes on.
LEMMA RestoreGoesOn ==
  ASSUME ServerTypeOK, ServerTypeOK', NEW p \in Proc, Restoring(p), Steps(p), at'[p] = at[p],
         mem'[p].copy = mem[p].copy, RestoreKnows(p),
         ~Task(p).force /\ Sole(p, On(p)) /\ phase'[p] \in {"start", "create", "clean", "tables"}
           => Backed(On(p))',
         TargetKnows(p)'
  PROVE  RestoreKnows(p)'
<1>1. Proc' = Proc /\ at[p] \in Nat
  BY PlanLengths DEF Steps, Course, ServerTypeOK
<1>2. \A n : Sole(p, n)' = Sole(p, n)
  BY <1>1, SoleStays
<1>3. PICK n : n = On(p)
  OBVIOUS
<1>4. SourceKnows(p)'
  <2> SUFFICES ASSUME NEW i \in 1..Len(p.plan), p.plan[i].do = "restore", ~p.plan[i].force,
                      Sole(p, p.plan[i].on), StillToRestore(p, i)'
               PROVE  Backed(p.plan[i].on)'
    BY <1>2 DEF SourceKnows
  <2>1. i = at[p]
    BY RestoresOnce
  <2>2. p.plan[i].on = n /\ ~Task(p).force
    BY <1>3, <2>1 DEF On, Task
  <2>3. phase'[p] \in {"start", "create", "clean", "tables"}
    BY <1>1, <2>1 DEF StillToRestore
  <2>4. On(p)' = On(p)
    BY DEF On, Task
  <2> QED
    BY <1>3, <2>2, <2>3, <2>4
<1>5. CopyKnows(p)'
  BY CopyStays DEF RestoreKnows
<1> QED
  BY <1>4, <1>5 DEF RestoreKnows

LEMMA BackedInPlace ==
  ASSUME NEW p \in Proc, Steps(p), Task(p).do = "restore", UNCHANGED db, NEW n, Backed(n)
  PROVE  Backed(n)'
<1>1. Proc' = Proc
  BY DEF Steps, Course
<1>2. ASSUME NEW q \in Proc, Recorder(q, n)' PROVE n \in DOMAIN db /\ mem'[q].file \in db[n].tables
  BY <1>2, OwnRecorders DEF Backed
<1> QED
  BY <1>1, <1>2 DEF Backed

LEMMA LookAtTargetKeeps ==
  ASSUME ServerTypeOK, ServerTypeOK', NEW p \in Proc, LookAtTarget(p), RestoreKnows(p)
  PROVE  RestoreKnows(p)'
<1>1. /\ Restoring(p) /\ phase[p] = "start" /\ UNCHANGED db
      /\ mem' = [mem EXCEPT ![p].created = FALSE, ![p].errors = FALSE]
  BY DEF LookAtTarget, Doing, Restoring
<1>2. Steps(p) /\ mem'[p].copy = mem[p].copy
  BY <1>1, LookAtTargetSteps, FieldsOf
<1>3. CASE EndTask(p, FALSE)
  BY <1>1, <1>2, <1>3, EndTaskAdvances, RestoreEnds DEF Restoring
<1>4. ASSUME NEW step \in {"clean", "tables", "create"}, Goto(p, step), step = "clean" => Task(p).force
      PROVE  RestoreKnows(p)'
  <2>1. at'[p] = at[p] /\ phase'[p] = step /\ Proc' = Proc
    BY <1>1, <1>4, GotoCourse DEF Restoring, Phases, Course
  <2>2. PICK n : n = On(p)
    OBVIOUS
  <2>3. On(p)' = n /\ Task(p)' = Task(p)
    BY <2>1, <2>2 DEF On, Task
  <2>4. ~Task(p).force /\ Sole(p, n) => Backed(n)
    BY <1>1, <2>2 DEF RestoreKnows, SourceKnows, StillToRestore, Restoring, Running, On, Task
  <2>5. Backed(n) => Backed(n)'
    BY <1>1, <1>2, BackedInPlace DEF Restoring
  <2>6. TargetKnows(p)'
    BY <1>4, <2>1, <2>3 DEF TargetKnows
  <2>7. ~Task(p).force /\ Sole(p, On(p)) /\ phase'[p] \in {"start", "create", "clean", "tables"}
           => Backed(On(p))'
    BY <2>2, <2>3, <2>4, <2>5
  <2> QED
    BY <1>1, <1>2, <2>1, <2>6, <2>7, RestoreGoesOn
<1> QED
  BY <1>3, <1>4 DEF LookAtTarget

LEMMA CreateTargetKeeps ==
  ASSUME ServerTypeOK, ServerTypeOK', NEW p \in Proc, CreateTarget(p), RestoreKnows(p)
  PROVE  RestoreKnows(p)'
<1>1. Restoring(p) /\ phase[p] = "create"
  BY DEF CreateTarget, Doing, Restoring
<1>2. Steps(p)
  BY CreateTargetSteps
<1>3. CASE EndTask(p, FALSE) /\ UNCHANGED mem
  BY <1>1, <1>2, <1>3, EndTaskAdvances, RestoreEnds DEF Restoring
<1>4. CASE /\ db' = With(On(p), p.id) /\ mem' = [mem EXCEPT ![p].created = TRUE]
           /\ Goto(p, "tables") /\ ~Exists(On(p))
  <2>1. at'[p] = at[p] /\ phase'[p] = "tables" /\ Proc' = Proc
    BY <1>1, <1>4, GotoCourse DEF Restoring, Phases, Course
  <2>2. mem'[p].copy = mem[p].copy
    BY <1>4, FieldsOf
  <2>3. PICK n : n = On(p)
    OBVIOUS
  <2>4. On(p)' = n /\ Task(p)' = Task(p)
    BY <2>1, <2>3 DEF On, Task
  <2>5. ~Task(p).force /\ Sole(p, n) => Backed(n)
    BY <1>1, <2>3 DEF RestoreKnows, SourceKnows, StillToRestore, Restoring, Running, On, Task
  <2>6. n \notin DOMAIN db /\ db'[n] = Empty(p.id)
    BY <1>1, <1>4, <2>3, CreatedAlters DEF Restoring, Exists
  <2>7. ASSUME Backed(n) PROVE Backed(n)'
    <3>1. ASSUME NEW q \in Proc, Recorder(q, n)' PROVE FALSE
      BY <1>1, <1>2, <2>6, <2>7, <3>1, OwnRecorders DEF Backed, Restoring
    <3>2. DOMAIN db'[n].ledger \subseteq db'[n].tables
      BY <2>6 DEF Empty, NoLedger
    <3> QED
      BY <2>1, <3>1, <3>2 DEF Backed
  <2>8. TargetKnows(p)'
    BY <2>1 DEF TargetKnows
  <2>9. ~Task(p).force /\ Sole(p, On(p)) /\ phase'[p] \in {"start", "create", "clean", "tables"}
           => Backed(On(p))'
    BY <2>3, <2>4, <2>5, <2>7
  <2> QED
    BY <1>1, <1>2, <2>1, <2>2, <2>8, <2>9, RestoreGoesOn
<1> QED
  BY <1>3, <1>4 DEF CreateTarget

LEMMA CleanTargetKeeps ==
  ASSUME ServerTypeOK, ServerTypeOK', NEW p \in Proc, CleanTarget(p), RestoreKnows(p)
  PROVE  RestoreKnows(p)'
<1>1. Restoring(p) /\ phase[p] = "clean" /\ Goto(p, "tables")
  BY DEF CleanTarget, Doing, Restoring
<1>2. Steps(p)
  BY CleanTargetSteps
<1>3. at'[p] = at[p] /\ phase'[p] = "tables"
  BY <1>1, GotoCourse DEF Restoring, Phases
<1>4. mem'[p].copy = mem[p].copy
  <2>1. PICK b : mem' = [mem EXCEPT ![p].errors = b]
    BY DEF CleanTarget
  <2> QED
    BY <2>1, ErrorsMemorise
<1>5. Task(p).force
  BY <1>1 DEF RestoreKnows, TargetKnows
<1>6. TargetKnows(p)'
  BY <1>3 DEF TargetKnows
<1> QED
  BY <1>1, <1>2, <1>3, <1>4, <1>5, <1>6, RestoreGoesOn

LEMMA RestoreTablesKeeps ==
  ASSUME ServerTypeOK, ServerTypeOK', NEW p \in Proc, RestoreTables(p), RestoreKnows(p)
  PROVE  RestoreKnows(p)'
<1>1. Restoring(p) /\ phase[p] = "tables" /\ Goto(p, "rows") /\ Exists(On(p))
  BY DEF RestoreTables, Doing, Restoring
<1>2. Steps(p)
  BY RestoreTablesSteps
<1>3. at'[p] = at[p] /\ phase'[p] = "rows" /\ Proc' = Proc
  BY <1>1, GotoCourse DEF Restoring, Phases, Course
<1>4. PICK n : n = On(p)
  OBVIOUS
<1>5. On(p)' = n /\ Task(p)' = Task(p) /\ Sole(p, n)' = Sole(p, n)
  BY <1>3, <1>4, SoleStays DEF On, Task
<1>6. PICK b : /\ b = (mem[p].errors \/ db[n].tables \cap mem[p].dump.tables # {})
               /\ mem' = [mem EXCEPT ![p].errors = b]
  BY <1>4 DEF RestoreTables
<1>7. mem'[p].errors = b /\ mem'[p].dump = mem[p].dump /\ mem'[p].copy = mem[p].copy
  BY <1>6, ErrorsMemorise
<1>8. /\ n \in DOMAIN db /\ DOMAIN db' = DOMAIN db
      /\ db'[n].tables = db[n].tables \cup mem[p].dump.tables /\ db'[n].ledger = db[n].ledger
  BY <1>1, <1>4, DatabaseChanges DEF RestoreTables, Exists, Database
<1>9. ASSUME ~b, ~Task(p).force, Sole(p, n) PROVE Beyond(p, n)'
  <2>1. Backed(n)
    BY <1>1, <1>4, <1>9 DEF RestoreKnows, SourceKnows, StillToRestore, Restoring, Running, On, Task
  <2>2. db[n].tables \cap mem[p].dump.tables = {}
    BY <1>6, <1>9
  <2>3. \A v \in DOMAIN db[n].ledger : v \notin mem[p].dump.tables
    BY <1>8, <2>1, <2>2 DEF Backed
  <2>4. ASSUME NEW q \in Proc, Recorder(q, n)' PROVE mem'[q].file \notin mem[p].dump.tables
    BY <1>1, <1>2, <2>1, <2>2, <2>4, OwnRecorders DEF Backed, Restoring
  <2> QED
    BY <1>3, <1>7, <1>8, <2>3, <2>4 DEF Beyond
<1>10. TargetKnows(p)'
  BY <1>3, <1>5, <1>7, <1>8, <1>9 DEF TargetKnows, Exists
<1> QED
  BY <1>1, <1>2, <1>3, <1>7, <1>10, RestoreGoesOn

LEMMA RestoreRowsKeeps ==
  ASSUME ServerTypeOK, ServerTypeOK', NEW p \in Proc, RestoreRows(p), RestoreKnows(p)
  PROVE  RestoreKnows(p)'
<1>1. Restoring(p) /\ phase[p] = "rows" /\ Goto(p, "guards") /\ Exists(On(p))
  BY DEF RestoreRows, Doing, Restoring
<1>2. Steps(p)
  BY RestoreRowsSteps
<1>3. at'[p] = at[p] /\ phase'[p] = "guards" /\ Proc' = Proc
  BY <1>1, GotoCourse DEF Restoring, Phases, Course
<1>4. PICK n : n = On(p)
  OBVIOUS
<1>5. On(p)' = n /\ Task(p)' = Task(p) /\ Sole(p, n)' = Sole(p, n)
  BY <1>3, <1>4, SoleStays DEF On, Task
<1>6. PICK inTheWay \in BOOLEAN :
        inTheWay = (DOMAIN db[n].ledger \cap DOMAIN mem[p].dump.ledger # {})
  OBVIOUS
<1>7. PICK b : /\ b = (mem[p].errors \/ inTheWay \/ db[n].rows \cap mem[p].dump.rows # {})
               /\ mem' = [mem EXCEPT ![p].errors = b]
  BY <1>4, <1>6 DEF RestoreRows
<1>8. mem'[p].errors = b /\ mem'[p].dump = mem[p].dump /\ mem'[p].copy = mem[p].copy
  BY <1>7, ErrorsMemorise
<1>9. PICK row : row = IF inTheWay THEN db[n].ledger ELSE Joined(db[n].ledger, mem[p].dump.ledger)
  OBVIOUS
<1>10. db' = [db EXCEPT ![n].ledger = row, ![n].rows = @ \cup mem[p].dump.rows]
  BY <1>4, <1>6, <1>9 DEF RestoreRows
<1>11. /\ n \in DOMAIN db /\ DOMAIN db' = DOMAIN db /\ db'[n].tables = db[n].tables
       /\ db'[n].ledger = row /\ db'[n].rows = db[n].rows \cup mem[p].dump.rows
  BY <1>1, <1>4, <1>10, DatabaseChanges DEF Exists, Database
<1>12. ~b => /\ DOMAIN row = DOMAIN db[n].ledger \cup DOMAIN mem[p].dump.ledger
             /\ \A v \in DOMAIN mem[p].dump.ledger : row[v] = mem[p].dump.ledger[v]
  BY <1>6, <1>7, <1>9 DEF Joined
<1>13. Sole(p, n) => /\ mem[p].dump.tables \subseteq db[n].tables
                     /\ ~mem[p].errors /\ ~Task(p).force => Beyond(p, n)
  BY <1>1, <1>4 DEF RestoreKnows, TargetKnows
<1>14. ASSUME ~b, ~Task(p).force, Sole(p, n) PROVE Beyond(p, n)'
  <2>1. Beyond(p, n)
    BY <1>7, <1>13, <1>14
  <2>2. \A v \in DOMAIN row \ DOMAIN mem[p].dump.ledger : v \notin mem[p].dump.tables
    BY <1>12, <1>14, <2>1 DEF Beyond
  <2>3. ASSUME NEW q \in Proc, Recorder(q, n)' PROVE mem'[q].file \notin mem[p].dump.tables
    BY <1>1, <1>2, <2>1, <2>3, OwnRecorders DEF Beyond, Restoring
  <2> QED
    BY <1>3, <1>8, <1>11, <2>2, <2>3 DEF Beyond
<1>15. ~b => HasRows(p, db[n])'
  BY <1>8, <1>11, <1>12 DEF HasRows
<1>16. TargetKnows(p)'
  BY <1>3, <1>5, <1>8, <1>11, <1>13, <1>14, <1>15 DEF TargetKnows, Exists, HasRows
<1> QED
  BY <1>1, <1>2, <1>3, <1>8, <1>16, RestoreGoesOn

LEMMA RestoreGuardsKeeps ==
  ASSUME ServerTypeOK, ServerTypeOK', NEW p \in Proc, RestoreGuards(p), RestoreKnows(p)
  PROVE  RestoreKnows(p)'
<1>1. /\ Restoring(p) /\ phase[p] = "guards" /\ Exists(On(p)) /\ UNCHANGED mem
      /\ db' = [db EXCEPT ![On(p)].guards = @ \cup mem[p].dump.guards]
  BY DEF RestoreGuards, Doing, Restoring
<1>2. Steps(p)
  BY RestoreGuardsSteps
<1>3. CASE EndTask(p, FALSE)
  BY <1>1, <1>2, <1>3, EndTaskAdvances, RestoreEnds DEF Restoring
<1>4. CASE Goto(p, "verify") /\ ~mem[p].errors
  <2>1. at'[p] = at[p] /\ phase'[p] = "verify" /\ Proc' = Proc
    BY <1>1, <1>4, GotoCourse DEF Restoring, Phases, Course
  <2>2. PICK n : n = On(p)
    OBVIOUS
  <2>3. On(p)' = n /\ Task(p)' = Task(p) /\ Sole(p, n)' = Sole(p, n)
    BY <2>1, <2>2, SoleStays DEF On, Task
  <2>4. /\ n \in DOMAIN db /\ DOMAIN db' = DOMAIN db /\ db'[n].tables = db[n].tables
        /\ db'[n].ledger = db[n].ledger /\ db'[n].rows = db[n].rows
        /\ mem[p].dump.guards \subseteq db'[n].guards
    BY <1>1, <2>2, DatabaseChanges DEF Exists, Database
  <2>5. Sole(p, n) => /\ mem[p].dump.tables \subseteq db[n].tables
                      /\ ~Task(p).force => Beyond(p, n)
                      /\ HasRows(p, db[n])
    BY <1>1, <1>4, <2>2 DEF RestoreKnows, TargetKnows
  <2>6. ASSUME Beyond(p, n) PROVE Beyond(p, n)'
    <3>1. ASSUME NEW q \in Proc, Recorder(q, n)' PROVE mem'[q].file \notin mem[p].dump.tables
      BY <1>1, <1>2, <2>6, <3>1, OwnRecorders DEF Beyond, Restoring
    <3> QED
      BY <1>1, <2>1, <2>4, <2>6, <3>1 DEF Beyond
  <2>7. HasRows(p, db[n]) => HasRows(p, db[n])'
    BY <1>1, <2>4 DEF HasRows
  <2>8. TargetKnows(p)'
    BY <1>1, <1>4, <2>1, <2>3, <2>4, <2>5, <2>6, <2>7 DEF TargetKnows, Exists, HasRows
  <2> QED
    BY <1>1, <1>2, <2>1, <2>8, RestoreGoesOn
<1> QED
  BY <1>3, <1>4 DEF RestoreGuards

LEMMA VerifyRestoreKeeps ==
  ASSUME ServerTypeOK, ServerTypeOK', NEW p \in Proc, VerifyRestore(p), RestoreKnows(p)
  PROVE  RestoreKnows(p)'
<1>1. Restoring(p) /\ phase[p] = "verify" /\ EndTask(p, db[On(p)].tables # {})
  BY DEF VerifyRestore, Doing, Restoring
<1>2. Steps(p) /\ mem'[p].copy = db[On(p)]
  BY VerifyRestoreSteps
<1>3. at'[p] > at[p]
  BY <1>1, EndTaskAdvances DEF Restoring
<1>4. ASSUME Sole(p, On(p)) PROVE Restored(mem[p].dump, db[On(p)], Task(p).force)
  <2>1. /\ mem[p].dump.tables \subseteq db[On(p)].tables
        /\ ~Task(p).force => Beyond(p, On(p))
        /\ HasRows(p, db[On(p)])
        /\ mem[p].dump.guards \subseteq db[On(p)].guards
    BY <1>1, <1>4 DEF RestoreKnows, TargetKnows
  <2> QED
    BY <2>1 DEF Restored, Beyond, HasRows
<1> QED
  BY <1>1, <1>2, <1>3, <1>4, RestoreEnds

LEMMA RestoreKeeps ==
  ASSUME ServerInv, ServerTypeOK', NEW p \in Proc, RestoreKnows(p), NEW r \in Proc,
         MigrationStep(r) \/ Gate(r) \/ Fresh(r)
  PROVE  RestoreKnows(p)'
<1>1. ServerTypeOK
  BY DEF ServerInv
<1>2. Steps(r)
  BY EveryStep
<1>3. CASE r # p \/ Task(p).do # "restore"
  <2>1. r = p => Task(p).do # "restore"
    BY <1>3
  <2> QED
    BY <1>1, <1>2, <2>1, OthersRestoreStays
<1>4. CASE r = p /\ Task(p).do = "restore"
  <2>1. Restoring(p)
    BY <1>2, <1>4 DEF Restoring, Steps, Course
  <2>2. Restore(p) \/ Fail(p) \/ Kill(p)
    BY <1>4, TaskOf DEF MigrationStep, Gate, Fresh
  <2>3. CASE Restore(p)
    BY <1>1, <2>3, LookAtTargetKeeps, CreateTargetKeeps, CleanTargetKeeps, RestoreTablesKeeps,
       RestoreRowsKeeps, RestoreGuardsKeeps, VerifyRestoreKeeps DEF Restore
  <2>4. CASE Fail(p) \/ Kill(p)
    <3>1. mem' = [mem EXCEPT ![p].lost = TRUE]
      BY <2>4 DEF Fail, Kill
    <3>2. mem'[p].copy = mem[p].copy
      BY <1>1, <3>1, FieldsOf
    <3>3. CASE Fail(p)
      <4>1. EndTask(p, FALSE)
        BY <3>3 DEF Fail
      <4>2. at'[p] > at[p]
        BY <1>1, <2>1, <4>1, EndTaskAdvances DEF Restoring
      <4> QED
        BY <1>1, <1>2, <1>4, <2>1, <3>2, <4>2, RestoreEnds
    <3>4. CASE Kill(p)
      <4>1. at'[p] = Len(p.plan) + 1
        BY <1>1, <3>4 DEF Kill, ServerTypeOK
      <4>2. at'[p] > at[p]
        BY <1>1, <2>1, <4>1, PlanLengths DEF Restoring, Running
      <4> QED
        BY <1>1, <1>2, <1>4, <2>1, <3>2, <4>2, RestoreEnds
    <3> QED
      BY <2>4, <3>3, <3>4
  <2> QED
    BY <2>2, <2>3, <2>4
<1> QED
  BY <1>3, <1>4

-----------------------------------------------------------------------------
(* What a gate reads back.                                                   *)

Known == \A n \in DOMAIN db : db[n].by # "nobody"

\* Where no other script writes rows, a gate's target has none until they are restored, and
\* then the dump's or, when it has been replaced, none again.
AloneFills(p, n) == NoOther(p, n, {"restore", "suites", "count", "spot"})
Early(p) == at[p] <= 2 \/ (at[p] = 3 /\ phase[p] \in {"start", "create"})
Filling(p) == at[p] = 3 /\ phase[p] \in {"tables", "rows"}
Filled(p) == at[p] = 4 \/ (at[p] = 3 /\ phase[p] \in {"guards", "verify"})
RowsBack(p) ==
  LET n == p.plan[4].on IN
  AloneFills(p, n) =>
    /\ n \in DOMAIN db =>
         /\ Early(p) => (db[n].tables = {} => db[n].rows = {})
         /\ Filling(p) => db[n].rows = {}
         /\ Filled(p) => db[n].rows \in {{}, mem[p].dump.rows}
    /\ at[p] >= 5 => mem[p].dump.rows = mem[p].shape.rows
ReadsBack(p) ==
  Is(p, "readback") /\ ~failed[p] =>
    /\ at[p] >= 2 => mem[p].shape.rows # {}
    /\ at[p] >= 4 => mem[p].copy.by # "nobody"
    /\ RowsBack(p)
GateInv == Known /\ \A p \in Proc : ReadsBack(p)

LEMMA GatePlan ==
  ASSUME ServerTypeOK, NEW p \in Proc, Is(p, "readback")
  PROVE  /\ Len(p.plan) = 5
         /\ p.plan[1].do = "count" /\ p.plan[2].do = "backup" /\ p.plan[3].do = "restore"
         /\ p.plan[4].do = "readback" /\ p.plan[5].do = "cleanup"
         /\ p.plan[3].on = p.plan[4].on /\ ~p.plan[3].force
<1>1. PICK test, fresh : p.plan = RestoreGate(test, fresh)
  BY ScriptsAssumption DEF ServerTypeOK
<1> QED
  BY <1>1 DEF RestoreGate, T, On2

LEMMA AloneStays ==
  ASSUME NEW p, Proc' = Proc
  PROVE  \A n : AloneFills(p, n)' = AloneFills(p, n)
BY DEF AloneFills, NoOther

LEMMA KnownStays ==
  ASSUME ServerTypeOK, Known, NEW r \in Proc, Steps(r)
  PROVE  Known'
<1> SUFFICES ASSUME NEW n \in DOMAIN db' PROVE db'[n].by # "nobody"
  BY DEF Known
<1>1. CASE n \in DOMAIN db
  BY <1>1 DEF Known, Steps, Alters
<1>2. CASE n \notin DOMAIN db
  <2>1. db'[n] = Empty(r.id)
    BY <1>2 DEF Steps, Alters
  <2>2. r.id # "nobody"
    BY ScriptsAssumption DEF ServerTypeOK
  <2> QED
    BY <2>1, <2>2 DEF Empty
<1> QED
  BY <1>1, <1>2

\* The steps of others, and those of the gate before its restore, bring no rows into a
\* database without tables.
LEMMA RowsStay ==
  ASSUME ServerTypeOK, NEW p, NEW n, AloneFills(p, n), NEW r \in Proc, Steps(r), n \in DOMAIN db',
         r = p => Task(p).do # "restore"
  PROVE  /\ n \notin DOMAIN db => db'[n].rows = {}
         /\ n \in DOMAIN db => db[n].tables \subseteq db'[n].tables
         /\ n \in DOMAIN db /\ db'[n].tables = {} => db'[n].rows = db[n].rows
         /\ n \in DOMAIN db /\ r # p => db'[n].rows = db[n].rows
<1>1. r # p /\ On(r) = n => Task(r).do \notin {"restore", "suites", "count", "spot"}
  BY DEF AloneFills, NoOther, On, Task, Steps, Course, Running
<1>2. ASSUME n \notin DOMAIN db PROVE db'[n].rows = {}
  BY <1>2 DEF Steps, Alters, Empty
<1>3. ASSUME n \in DOMAIN db, On(r) # n PROVE db'[n] = db[n]
  BY <1>3 DEF Steps, Alters
<1>4. ASSUME n \in DOMAIN db, On(r) = n
      PROVE  /\ db[n].tables \subseteq db'[n].tables
             /\ db'[n].rows # db[n].rows => Version \subseteq db'[n].tables
  <2>1. Task(r).do # "restore"
    BY <1>1, <1>4
  <2> QED
    BY <1>4, <2>1 DEF Steps, Alters, Grows
<1>5. ASSUME n \in DOMAIN db, On(r) = n, r # p PROVE db'[n].rows = db[n].rows
  <2>1. Task(r).do \notin {"restore", "suites", "count", "spot"}
    BY <1>1, <1>5
  <2> QED
    BY <1>5, <2>1 DEF Steps, Alters
<1>6. 1 \in Version
  BY VersionsAssumption DEF Version
<1> QED
  BY <1>2, <1>3, <1>4, <1>5, <1>6

LEMMA OthersReadBack ==
  ASSUME ServerTypeOK, NEW p \in Proc, NEW r \in Proc \ {p}, Steps(r), ReadsBack(p)
  PROVE  ReadsBack(p)'
<1> SUFFICES ASSUME Is(p, "readback"), ~failed'[p] PROVE ReadsBack(p)'
  BY DEF ReadsBack, Is
<1>1. /\ at'[p] = at[p] /\ mem'[p] = mem[p] /\ phase'[p] \in {phase[p], "severed"}
      /\ failed'[p] = failed[p] /\ Proc' = Proc
  BY DEF Steps, Course, Memorises
<1>2. RowsBack(p) /\ (at[p] >= 2 => mem[p].shape.rows # {})
      /\ (at[p] >= 4 => mem[p].copy.by # "nobody")
  BY <1>1 DEF ReadsBack
<1>3. /\ Early(p)' => Early(p)
      /\ Filling(p)' => Filling(p)
      /\ Filled(p)' => Filled(p)
  BY <1>1 DEF Early, Filling, Filled
<1>4. PICK n : n = p.plan[4].on
  OBVIOUS
<1>5. AloneFills(p, n)' = AloneFills(p, n)
  BY <1>1, AloneStays
<1>6. ASSUME AloneFills(p, n), n \in DOMAIN db'
      PROVE  /\ Early(p)' => (db'[n].tables = {} => db'[n].rows = {})
             /\ Filling(p)' => db'[n].rows = {}
             /\ Filled(p)' => db'[n].rows \in {{}, mem[p].dump.rows}
  <2>1. /\ n \notin DOMAIN db => db'[n].rows = {}
        /\ n \in DOMAIN db => db[n].tables \subseteq db'[n].tables
        /\ n \in DOMAIN db => db'[n].rows = db[n].rows
    BY <1>6, RowsStay
  <2>2. n \in DOMAIN db =>
         /\ Early(p) => (db[n].tables = {} => db[n].rows = {})
         /\ Filling(p) => db[n].rows = {}
         /\ Filled(p) => db[n].rows \in {{}, mem[p].dump.rows}
    BY <1>2, <1>4, <1>6 DEF RowsBack
  <2> QED
    BY <1>3, <2>1, <2>2
<1>7. AloneFills(p, n) /\ at[p] >= 5 => mem[p].dump.rows = mem[p].shape.rows
  BY <1>2, <1>4 DEF RowsBack
<1>8. RowsBack(p)'
  BY <1>1, <1>4, <1>5, <1>6, <1>7 DEF RowsBack
<1> QED
  BY <1>1, <1>2, <1>8 DEF ReadsBack

\* A step of the gate itself that does not fail.
LEMMA GateBefore ==
  ASSUME ServerTypeOK, ServerTypeOK', NEW p \in Proc, Steps(p), ReadsBack(p), Is(p, "readback"),
         ~failed'[p], at[p] \in {1, 2}, at[p] = 1 => CountSource(p)
  PROVE  ReadsBack(p)'
<1>1. /\ at[p] \in Nat /\ at'[p] \in {at[p], at[p] + 1} /\ ~failed[p] /\ Proc' = Proc /\ Running(p)
      /\ at'[p] = at[p] \/ phase'[p] = "start" \/ ~Running(p)'
  BY PlanLengths DEF Steps, Course
<1>2. Len(p.plan) = 5
  BY GatePlan
<1>3. Early(p) /\ Early(p)' /\ ~Filling(p)' /\ ~Filled(p)' /\ ~(at'[p] >= 4)
  BY <1>1, <1>2 DEF Early, Filling, Filled, Running
<1>4. PICK n : n = p.plan[4].on
  OBVIOUS
<1>5. Task(p).do \notin {"restore", "readback"} /\ (at[p] = 2 => Task(p).do = "backup")
  BY GatePlan DEF Task
<1>6. ASSUME AloneFills(p, n), n \in DOMAIN db', db'[n].tables = {} PROVE db'[n].rows = {}
  <2>1. /\ n \notin DOMAIN db => db'[n].rows = {}
        /\ n \in DOMAIN db => db[n].tables \subseteq db'[n].tables
        /\ n \in DOMAIN db => db'[n].rows = db[n].rows
    BY <1>5, <1>6, RowsStay
  <2>2. n \in DOMAIN db /\ db[n].tables = {} => db[n].rows = {}
    BY <1>1, <1>3, <1>4, <1>6 DEF ReadsBack, RowsBack
  <2> QED
    BY <1>6, <2>1, <2>2
<1>7. AloneFills(p, n)' = AloneFills(p, n)
  BY <1>1, AloneStays
<1>8. RowsBack(p)'
  BY <1>1, <1>3, <1>4, <1>6, <1>7 DEF RowsBack
<1>9. at'[p] >= 2 => mem'[p].shape.rows # {}
  <2>1. CASE at[p] = 1
    BY <2>1, CountSourceSteps
  <2>2. CASE at[p] = 2
    <3>1. mem'[p].shape = mem[p].shape
      BY <1>5, <2>2 DEF Steps, Memorises
    <3> QED
      BY <1>1, <2>2, <3>1 DEF ReadsBack
  <2> QED
    BY <2>1, <2>2
<1> QED
  BY <1>3, <1>8, <1>9 DEF ReadsBack

\* What a statement of its restore that succeeds does to the rows of its target.
LEMMA RestoreFills ==
  ASSUME ServerTypeOK, Known, NEW p \in Proc, Restore(p), ~failed'[p], ~Task(p).force,
         phase[p] = "clean" => Task(p).force, NEW n, n = On(p)
  PROVE  \/ /\ phase[p] = "start" /\ at'[p] = at[p] /\ UNCHANGED db
            /\ \/ phase'[p] = "create"
               \/ phase'[p] = "tables" /\ n \in DOMAIN db /\ db[n].tables = {}
         \/ /\ phase[p] = "create" /\ at'[p] = at[p] /\ phase'[p] = "tables"
            /\ n \in DOMAIN db' /\ db'[n].rows = {}
         \/ /\ phase[p] \in {"tables", "guards"} /\ at'[p] = at[p]
            /\ phase'[p] = IF phase[p] = "tables" THEN "rows" ELSE "verify"
            /\ n \in DOMAIN db /\ db'[n].rows = db[n].rows
         \/ /\ phase[p] = "rows" /\ at'[p] = at[p] /\ phase'[p] = "guards"
            /\ n \in DOMAIN db /\ db'[n].rows = db[n].rows \cup mem[p].dump.rows
         \/ /\ phase[p] = "verify" /\ at'[p] = at[p] + 1 /\ UNCHANGED db
            /\ mem'[p].copy.by # "nobody"
<1>1. Running(p)
  BY DEF Restore, LookAtTarget, CreateTarget, CleanTarget, RestoreTables, RestoreRows,
     RestoreGuards, VerifyRestore, Doing
<1>2. ~EndTask(p, FALSE)
  BY <1>1, EndTaskCourse
<1>3. ASSUME LookAtTarget(p)
      PROVE  /\ phase[p] = "start" /\ at'[p] = at[p] /\ UNCHANGED db
             /\ \/ phase'[p] = "create"
                \/ phase'[p] = "tables" /\ n \in DOMAIN db /\ db[n].tables = {}
  <2>1. /\ phase[p] = "start" /\ UNCHANGED db
        /\ \/ Goto(p, "create")
           \/ Goto(p, "tables") /\ n \in DOMAIN db /\ db[n].tables = {}
    BY <1>2, <1>3 DEF LookAtTarget, Doing, Exists
  <2> QED
    BY <1>1, <2>1, GotoCourse DEF Phases
<1>4. ASSUME CreateTarget(p)
      PROVE  /\ phase[p] = "create" /\ at'[p] = at[p] /\ phase'[p] = "tables"
             /\ n \in DOMAIN db' /\ db'[n].rows = {}
  <2>1. phase[p] = "create" /\ Goto(p, "tables") /\ db' = With(n, p.id) /\ ~Exists(n)
    BY <1>2, <1>4 DEF CreateTarget, Doing
  <2>2. n \in DOMAIN db' /\ db'[n] = Empty(p.id)
    BY <2>1 DEF With, Joined, Exists
  <2> QED
    BY <1>1, <2>1, <2>2, GotoCourse DEF Phases, Empty
<1>5. ~CleanTarget(p)
  BY DEF CleanTarget, Doing
<1>6. ASSUME RestoreTables(p)
      PROVE  /\ phase[p] = "tables" /\ at'[p] = at[p] /\ phase'[p] = "rows"
             /\ n \in DOMAIN db /\ db'[n].rows = db[n].rows
  <2>1. phase[p] = "tables" /\ Goto(p, "rows") /\ n \in DOMAIN db
        /\ db' = [db EXCEPT ![n].tables = @ \cup mem[p].dump.tables]
    BY <1>6 DEF RestoreTables, Doing, Exists
  <2>2. db'[n].rows = db[n].rows
    BY <2>1, DatabaseChanges DEF Database
  <2> QED
    BY <1>1, <2>1, <2>2, GotoCourse DEF Phases
<1>7. ASSUME RestoreRows(p)
      PROVE  /\ phase[p] = "rows" /\ at'[p] = at[p] /\ phase'[p] = "guards"
             /\ n \in DOMAIN db /\ db'[n].rows = db[n].rows \cup mem[p].dump.rows
  <2>1. phase[p] = "rows" /\ Goto(p, "guards") /\ n \in DOMAIN db
        /\ \E row : db' = [db EXCEPT ![n].ledger = row, ![n].rows = @ \cup mem[p].dump.rows]
    BY <1>7 DEF RestoreRows, Doing, Exists
  <2>2. db'[n].rows = db[n].rows \cup mem[p].dump.rows
    BY <2>1, DatabaseChanges DEF Database
  <2> QED
    BY <1>1, <2>1, <2>2, GotoCourse DEF Phases
<1>8. ASSUME RestoreGuards(p)
      PROVE  /\ phase[p] = "guards" /\ at'[p] = at[p] /\ phase'[p] = "verify"
             /\ n \in DOMAIN db /\ db'[n].rows = db[n].rows
  <2>1. phase[p] = "guards" /\ Goto(p, "verify") /\ n \in DOMAIN db
        /\ db' = [db EXCEPT ![n].guards = @ \cup mem[p].dump.guards]
    BY <1>2, <1>8 DEF RestoreGuards, Doing, Exists
  <2>2. db'[n].rows = db[n].rows
    BY <2>1, DatabaseChanges DEF Database
  <2> QED
    BY <1>1, <2>1, <2>2, GotoCourse DEF Phases
<1>9. ASSUME VerifyRestore(p)
      PROVE  /\ phase[p] = "verify" /\ at'[p] = at[p] + 1 /\ UNCHANGED db
             /\ mem'[p].copy.by # "nobody"
  <2>1. /\ phase[p] = "verify" /\ UNCHANGED db /\ n \in DOMAIN db
        /\ EndTask(p, db[n].tables # {})
    BY <1>9 DEF VerifyRestore, Doing, Exists
  <2>2. mem'[p].copy = db[n]
    BY <1>9, VerifyRestoreSteps
  <2>3. at'[p] = at[p] + 1
    BY <1>1, <2>1, EndTaskCourse
  <2> QED
    BY <2>1, <2>2, <2>3 DEF Known
<1> QED
  BY <1>3, <1>4, <1>5, <1>6, <1>7, <1>8, <1>9 DEF Restore

LEMMA GateRestores ==
  ASSUME ServerTypeOK, ServerTypeOK', Known, NEW p \in Proc, Steps(p), RestoreKnows(p),
         ReadsBack(p), Is(p, "readback"), ~failed'[p], at[p] = 3, Restore(p)
  PROVE  ReadsBack(p)'
<1>1. ~failed[p] /\ Proc' = Proc /\ Running(p)
  BY DEF Steps, Course
<1>2. PICK n : n = p.plan[4].on
  OBVIOUS
<1>3. /\ n = On(p) /\ ~Task(p).force /\ Task(p).do = "restore"
  BY <1>2, GatePlan DEF On, Task
<1>4. phase[p] = "clean" => Task(p).force
  BY <1>1, <1>3 DEF RestoreKnows, TargetKnows, Restoring
<1>5. mem'[p].dump = mem[p].dump /\ mem'[p].shape = mem[p].shape
  BY <1>3 DEF Steps, Memorises
<1>6. mem[p].shape.rows # {}
  BY <1>1 DEF ReadsBack
<1>7. AloneFills(p, n)' = AloneFills(p, n)
  BY <1>1, AloneStays
<1>8. AloneFills(p, n) /\ n \in DOMAIN db =>
         /\ Early(p) => (db[n].tables = {} => db[n].rows = {})
         /\ Filling(p) => db[n].rows = {}
         /\ Filled(p) => db[n].rows \in {{}, mem[p].dump.rows}
  BY <1>1, <1>2 DEF ReadsBack, RowsBack
<1>9. CASE /\ phase[p] = "start" /\ at'[p] = at[p] /\ UNCHANGED db
           /\ \/ phase'[p] = "create"
              \/ phase'[p] = "tables" /\ n \in DOMAIN db /\ db[n].tables = {}
  BY <1>1, <1>2, <1>5, <1>6, <1>7, <1>8, <1>9 DEF ReadsBack, RowsBack, Early, Filling, Filled, Is
<1>10. CASE /\ phase[p] = "create" /\ at'[p] = at[p] /\ phase'[p] = "tables"
            /\ n \in DOMAIN db' /\ db'[n].rows = {}
  BY <1>1, <1>2, <1>5, <1>6, <1>7, <1>10 DEF ReadsBack, RowsBack, Early, Filling, Filled, Is
<1>11. CASE /\ phase[p] \in {"tables", "guards"} /\ at'[p] = at[p]
            /\ phase'[p] = IF phase[p] = "tables" THEN "rows" ELSE "verify"
            /\ n \in DOMAIN db /\ db'[n].rows = db[n].rows
  BY <1>1, <1>2, <1>5, <1>6, <1>7, <1>8, <1>11 DEF ReadsBack, RowsBack, Early, Filling, Filled, Is
<1>12. CASE /\ phase[p] = "rows" /\ at'[p] = at[p] /\ phase'[p] = "guards"
            /\ n \in DOMAIN db /\ db'[n].rows = db[n].rows \cup mem[p].dump.rows
  BY <1>1, <1>2, <1>5, <1>6, <1>7, <1>8, <1>12 DEF ReadsBack, RowsBack, Early, Filling, Filled, Is
<1>13. CASE /\ phase[p] = "verify" /\ at'[p] = at[p] + 1 /\ UNCHANGED db
            /\ mem'[p].copy.by # "nobody"
  BY <1>1, <1>2, <1>5, <1>6, <1>7, <1>8, <1>13 DEF ReadsBack, RowsBack, Early, Filling, Filled, Is
<1> QED
  BY <1>3, <1>4, <1>9, <1>10, <1>11, <1>12, <1>13, RestoreFills

LEMMA GateAfter ==
  ASSUME ServerTypeOK, ServerTypeOK', NEW p \in Proc, Steps(p), ReadsBack(p), Is(p, "readback"),
         ~failed'[p], at[p] \in {4, 5}, at[p] = 4 => ReadBack(p)
  PROVE  ReadsBack(p)'
<1>1. ~failed[p] /\ Proc' = Proc /\ at'[p] \in {at[p], at[p] + 1}
  BY DEF Steps, Course
<1>2. /\ mem'[p].dump = mem[p].dump /\ mem'[p].shape = mem[p].shape
      /\ mem'[p].copy = mem[p].copy
  BY GatePlan DEF Steps, Memorises, Task
<1>3. PICK n : n = p.plan[4].on
  OBVIOUS
<1>4. AloneFills(p, n)' = AloneFills(p, n)
  BY <1>1, AloneStays
<1>5. mem[p].shape.rows # {} /\ mem[p].copy.by # "nobody" /\ RowsBack(p)
  BY <1>1 DEF ReadsBack
<1>6. at'[p] >= 5
  BY <1>1, ReadBackSteps
<1>7. ASSUME AloneFills(p, n) PROVE mem[p].dump.rows = mem[p].shape.rows
  <2>1. CASE at[p] = 4
    <3>1. n = On(p)
      BY <1>3, <2>1 DEF On, Task
    <3>2. n \in DOMAIN db /\ db[n].rows = mem[p].shape.rows
      BY <2>1, <3>1, ReadBackSteps DEF Exists
    <3>3. db[n].rows \in {{}, mem[p].dump.rows}
      BY <1>3, <1>5, <1>7, <2>1, <3>2 DEF RowsBack, Filled
    <3> QED
      BY <1>5, <3>2, <3>3
  <2>2. CASE at[p] = 5
    BY <1>3, <1>5, <1>7, <2>2 DEF RowsBack
  <2> QED
    BY <2>1, <2>2
<1>8. ~Early(p)' /\ ~Filling(p)' /\ ~Filled(p)'
  BY <1>1, <1>6 DEF Early, Filling, Filled
<1>9. RowsBack(p)'
  BY <1>2, <1>3, <1>4, <1>7, <1>8 DEF RowsBack
<1> QED
  BY <1>2, <1>5, <1>9 DEF ReadsBack

LEMMA GateKeeps ==
  ASSUME ServerInv, ServerTypeOK', Known, NEW p \in Proc, RestoreKnows(p), ReadsBack(p),
         NEW r \in Proc, MigrationStep(r) \/ Gate(r) \/ Fresh(r)
  PROVE  ReadsBack(p)'
<1>1. ServerTypeOK
  BY DEF ServerInv
<1>2. Steps(r)
  BY EveryStep
<1>3. CASE r # p
  BY <1>1, <1>2, <1>3, OthersReadBack
<1>4. CASE r = p
  <2> SUFFICES ASSUME Is(p, "readback"), ~failed'[p] PROVE ReadsBack(p)'
    BY DEF ReadsBack, Is
  <2>1. ~Fail(p) /\ ~Kill(p)
    BY <1>1, FailingFails
  <2>2. at[p] \in 1..5 /\ Task(p) = p.plan[at[p]]
    BY <1>1, <1>2, <1>4, GatePlan DEF Steps, Course, Running, Task
  <2>3. CASE at[p] \in {1, 2}
    <3>1. at[p] = 1 => CountSource(p)
      BY <1>1, <1>4, <2>1, <2>2, GatePlan, TaskOf DEF MigrationStep, Gate, Fresh
    <3> QED
      BY <1>1, <1>2, <1>4, <2>3, <3>1, GateBefore
  <2>4. CASE at[p] = 3
    <3>1. Restore(p)
      BY <1>1, <1>4, <2>1, <2>2, <2>4, GatePlan, TaskOf DEF MigrationStep, Gate, Fresh
    <3> QED
      BY <1>1, <1>2, <1>4, <2>4, <3>1, GateRestores
  <2>5. CASE at[p] \in {4, 5}
    <3>1. at[p] = 4 => ReadBack(p)
      BY <1>1, <1>4, <2>1, <2>2, GatePlan, TaskOf DEF MigrationStep, Gate, Fresh
    <3> QED
      BY <1>1, <1>2, <1>4, <2>5, <3>1, GateAfter
  <2> QED
    BY <2>2, <2>3, <2>4, <2>5
<1> QED
  BY <1>3, <1>4

LEMMA RestoreStep ==
  ASSUME ServerInv, ServerInv', RestoreInv, GateInv, [ReleaseNext]_serverVars
  PROVE  RestoreInv' /\ GateInv'
<1>1. CASE UNCHANGED serverVars
  <2>1. UNCHANGED <<db, at, phase, mem, failed>> /\ Proc' = Proc
    BY <1>1 DEF serverVars, Proc
  <2>2. RestoreInv'
    BY <2>1 DEF RestoreInv, RestoreKnows, SourceKnows, TargetKnows, CopyKnows, Sole, NoOther,
       StillToRestore, Backed, Recorder, Restoring, Running, Task, On, Beyond, HasRows, Exists
  <2>3. GateInv'
    BY <2>1 DEF GateInv, Known, ReadsBack, RowsBack, AloneFills, NoOther, Early, Filling, Filled, Is
  <2> QED
    BY <2>2, <2>3
<1>2. ASSUME NEW r \in Proc, MigrationStep(r) \/ Gate(r) \/ Fresh(r) PROVE RestoreInv' /\ GateInv'
  <2>1. ServerTypeOK /\ ServerTypeOK'
    BY DEF ServerInv
  <2>2. Steps(r) /\ Proc' = Proc
    BY <1>2, EveryStep DEF Steps, Course
  <2>3. \A p \in Proc : RestoreKnows(p)'
    BY <1>2, <2>1, RestoreKeeps DEF RestoreInv
  <2>4. \A p \in Proc : ReadsBack(p)'
    BY <1>2, <2>1, GateKeeps DEF RestoreInv, GateInv
  <2>5. Known'
    BY <2>1, <2>2, KnownStays DEF GateInv
  <2> QED
    BY <2>2, <2>3, <2>4, <2>5 DEF RestoreInv, GateInv
<1> QED
  BY <1>1, <1>2 DEF ReleaseNext, AllEnded

LEMMA InitRestores ==
  ASSUME ServerInit
  PROVE  RestoreInv /\ GateInv
<1>1. db = AtStart
  BY DEF ServerInit
<1>2. \A n \in DOMAIN db : /\ DOMAIN db[n].ledger \subseteq db[n].tables
                           /\ db[n].rows # {} => db[n].tables # {}
                           /\ db[n].by # "nobody"
  BY <1>1, StartAssumption DEF Follows
<1>3. \A p \in Proc : at[p] = 1 /\ phase[p] = "start" /\ mem[p] = Forgotten
  BY DEF ServerInit, Proc
<1>4. \A n : Backed(n)
  BY <1>2, <1>3 DEF Backed, Recorder
<1>5. \A p \in Proc : RestoreKnows(p)
  BY <1>3, <1>4 DEF RestoreKnows, SourceKnows, TargetKnows, CopyKnows, Forgotten, Empty
<1>6. \A p \in Proc : ReadsBack(p)
  BY <1>2, <1>3 DEF ReadsBack, RowsBack, Early, Filling, Filled
<1> QED
  BY <1>2, <1>5, <1>6 DEF RestoreInv, GateInv, Known

\* scripts/pg-restore and the CI gate: a restore that ends well has left the dump in its
\* target, whoever else is at work on the server; a gate that passes has read back what it
\* counted.
THEOREM RestoresAreTrue == ReleaseSpec => []RestoredIsTheDump
<1>1. ASSUME ServerInv, RestoreInv, GateInv PROVE RestoredIsTheDump
  <2>1. ServerTypeOK
    BY <1>1 DEF ServerInv
  <2>2. ASSUME NEW p \in Proc, NEW i \in 1..Len(p.plan), p.plan[i].do = "restore",
               mem[p].copy.by # "nobody", NoOther(p, p.plan[i].on, {"restore", "suites"})
        PROVE  Restored(mem[p].dump, mem[p].copy, p.plan[i].force)
    BY <1>1, <2>2 DEF RestoreInv, RestoreKnows, CopyKnows, Sole
  <2>3. ASSUME NEW p \in Proc, NEW i \in 1..Len(p.plan), p.plan[i].do = "readback", Passed(p)
        PROVE  /\ mem[p].copy.by # "nobody"
               /\ NoOther(p, p.plan[i].on, {"restore", "suites", "count", "spot"})
                    => mem[p].dump.rows = mem[p].shape.rows
    <3>1. Is(p, "readback")
      BY <2>3 DEF Is
    <3>2. Len(p.plan) = 5 /\ p.plan[1].do = "count" /\ p.plan[2].do = "backup"
          /\ p.plan[3].do = "restore" /\ p.plan[5].do = "cleanup"
      BY <2>1, <3>1, GatePlan
    <3>3. i = 4
      BY <2>3, <3>2
    <3>4. at[p] = 6 /\ ReadsBack(p) /\ ~failed[p]
      BY <1>1, <2>3, <3>2 DEF GateInv, Passed
    <3> QED
      BY <3>1, <3>3, <3>4 DEF ReadsBack, RowsBack, AloneFills
  <2> QED
    BY <2>2, <2>3 DEF RestoredIsTheDump
<1>2. ServerInv /\ ServerInv' /\ RestoreInv /\ GateInv /\ [ReleaseNext]_serverVars
        => RestoreInv' /\ GateInv'
  BY RestoreStep
<1>3. ServerInit => RestoreInv /\ GateInv
  BY InitRestores
<1>4. ReleaseSpec => [](RestoreInv /\ GateInv)
  BY <1>2, <1>3, ServerIsInvariant, PTL DEF ReleaseSpec
<1> QED
  BY <1>1, <1>4, ServerIsInvariant, PTL
=============================================================================
