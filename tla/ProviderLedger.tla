--------------------------- MODULE ProviderLedger ---------------------------
(***************************************************************************)
(* The controlled provider: the OpenAI-compatible adapter, which asks a    *)
(* model for an article over HTTP, and the ledger that records one row per *)
(* execution.                                                              *)
(*                                                                         *)
(* A call is refused before the network, or posted under a timer that      *)
(* covers the headers and the body; a 429 or a 5xx is posted once more.    *)
(* Its end is handed to the ledger in the same step as it is returned, but *)
(* the row is written out of band: whoever wants it durable calls drain(), *)
(* which awaits what was enqueued since the last one.  A write that fails  *)
(* while no drain awaits it is an unhandled rejection, on which the host   *)
(* may end the process.                                                    *)
(*                                                                         *)
(* Texts are abstracted to what the classification tells apart; counts of  *)
(* tokens keep the width of the INTEGER columns, IntMax.                   *)
(***************************************************************************)
EXTENDS Naturals, FiniteSets, TLC

CONSTANTS
  Call,     \* records: key, project, adapter, env, knownModel, wellFormed
  Drain,    \* calls of drain()
  Project,  \* rows of table project
  Tokens,   \* counts a provider reports
  IntMax    \* the largest value of an INTEGER column

ASSUME CallAssumption ==
  \A c \in Call : /\ c.adapter \in {"offline", "network"}
                  /\ c.env \in {"off", "keyless", "ready"}
                  /\ {c.knownModel, c.wellFormed} \subseteq BOOLEAN
ASSUME TokensAssumption == Tokens \subseteq Nat /\ IntMax \in Nat

VARIABLES
  up,       \* the process runs
  pc,       \* pc[c]: unsent, post (no headers yet), body (reading it), returned
  attempt,  \* attempt[c]: requests posted for c
  reply,    \* reply[c][n]: the status that answered attempt n, or none
  served,   \* served[c]: the attempts for which the provider ran the model
  answer,   \* answer[c]: what generateArticleContent returned
  write,    \* write[c]: where recordExecution is
  record,   \* record[c]: the execution record c's end emitted
  rows,     \* provider_execution
  pending,  \* #pending: the calls whose writes are enqueued
  drain,    \* drain[d]: idle, waiting, resolved, rejected
  taken,    \* taken[d]: the writes d awaits
  owed      \* history, owed[d]: writes enqueued when d began, if d is promised them

callVars == <<pc, attempt, reply, served, answer>>
drainVars == <<drain, taken, owed>>
vars == <<up, callVars, write, record, rows, pending, drainVars>>

Errors ==
  {"TIMEOUT", "RATE_LIMIT", "AUTH_FAILED", "CONTRACT_INVALID", "EMPTY_RESPONSE",
   "TOKEN_LIMIT", "UNAVAILABLE"}
Answers == {"none", "CONTENT"} \cup Errors
Status == {"2xx", "auth", "429", "5xx", "other"}
TurnedAway == {"auth", "429", "other"}
\* What a completion can be: not JSON or cut off, truncated by the model, without
\* text, text that is no JSON, JSON with governance in it or of another shape,
\* JSON whose fields are all blank, an article.
NoText == {"unparsed", "textless", "blank"}
OffContract == {"prose", "governance", "offShape"}
Bodies == {"truncated", "article"} \cup NoText \cup OffContract

\* One row per idempotency key; prompt and completion are NULL (0) on an ERROR row.
Record(c, outcome, prompt, completion) ==
  [by |-> c, key |-> c.key, project |-> c.project, outcome |-> outcome,
   prompt |-> prompt, completion |-> completion, total |-> prompt + completion]

Init ==
  /\ up = TRUE
  /\ pc = [c \in Call |-> "unsent"]
  /\ attempt = [c \in Call |-> 0]
  /\ reply = [c \in Call |-> [n \in 1..2 |-> "none"]]
  /\ served = [c \in Call |-> {}]
  /\ answer = [c \in Call |-> "none"]
  /\ write = [c \in Call |-> "none"]
  /\ record = [c \in Call |-> Record(c, "none", 0, 0)]
  /\ rows = {}
  /\ pending = {}
  /\ drain = [d \in Drain |-> "idle"]
  /\ taken = [d \in Drain |-> {}]
  /\ owed = [d \in Drain |-> {}]

-----------------------------------------------------------------------------
(* The adapter.                                                            *)

Return(c, what) ==
  /\ pc' = [pc EXCEPT ![c] = "returned"]
  /\ answer' = [answer EXCEPT ![c] = what]

\* The observer starts recordExecution and pushes its promise on #pending.
Enqueue(c, row) ==
  /\ write' = [write EXCEPT ![c] = "insert"]
  /\ record' = [record EXCEPT ![c] = row]
  /\ pending' = pending \cup {c}

FinishError(c, code) == Return(c, code) /\ Enqueue(c, Record(c, code, 0, 0))

FinishSuccess(c, prompt, completion) ==
  Return(c, "CONTENT") /\ Enqueue(c, Record(c, "CONTENT", prompt, completion))

Post(c) ==
  /\ pc' = [pc EXCEPT ![c] = "post"]
  /\ attempt' = [attempt EXCEPT ![c] = @ + 1]
  /\ UNCHANGED <<answer, write, record, pending>>

RuntimeEnabled(c) == c.env # "off"

\* Flag, allow-list, key: why c may not go to the network.
Refusals(c) ==
  IF ~RuntimeEnabled(c) THEN {"UNAVAILABLE"}
  ELSE IF ~c.knownModel THEN {"CONTRACT_INVALID"}
  ELSE IF c.env = "keyless" THEN {"AUTH_FAILED"}
  ELSE {}

Unsent(c) == up /\ pc[c] = "unsent"

\* validateProviderGenerateRequest.
Valid(c) == c.wellFormed

\* A malformed request is refused, and the offline adapter answers, without a record.
AnswerAtOnce(c) ==
  /\ Unsent(c)
  /\ \/ ~Valid(c) /\ Return(c, "CONTRACT_INVALID")
     \/ Valid(c) /\ c.adapter = "offline" /\ Return(c, "CONTENT")
  /\ UNCHANGED <<up, attempt, reply, served, write, record, rows, pending, drainVars>>

Generate(c) ==
  /\ Unsent(c)
  /\ Valid(c) /\ c.adapter = "network"
  /\ \/ Refusals(c) = {} /\ Post(c)
     \/ /\ \E code \in Refusals(c) : FinishError(c, code)
        /\ UNCHANGED attempt
  /\ UNCHANGED <<up, reply, served, rows, drainVars>>

\* External: the provider runs the model for a request it has received, also
\* when nobody waits for it any more, but not for one it has turned away.
Serve(c) ==
  /\ \E n \in 1..attempt[c] \ served[c] :
       /\ reply[c][n] \notin TurnedAway
       /\ served' = [served EXCEPT ![c] = @ \cup {n}]
  /\ UNCHANGED <<up, pc, attempt, reply, answer, write, record, rows, pending, drainVars>>

\* fetch resolves.  A 2xx says the model ran, a 401, 403, 429 or other 4xx that it
\* did not; behind a 5xx of the gateway it may have.
Headers(c) ==
  /\ up /\ pc[c] = "post"
  /\ \E s \in Status :
       /\ s = "2xx" => attempt[c] \in served[c]
       /\ s \in TurnedAway => attempt[c] \notin served[c]
       /\ reply' = [reply EXCEPT ![c][attempt[c]] = s]
  /\ pc' = [pc EXCEPT ![c] = "body"]
  /\ UNCHANGED <<up, attempt, served, answer, write, record, rows, pending, drainVars>>

\* Mutant: a transport error is retried like a 5xx.
RetryableAny(code, s) == code \in {"RATE_LIMIT", "UNAVAILABLE", "TIMEOUT"}

Retryable(code, s) == code = "RATE_LIMIT" \/ (code = "UNAVAILABLE" /\ s = "5xx")

\* Mutant: every attempt is reported to the observer.
EndAttemptRecorded(c, code, s) ==
  IF Retryable(code, s) /\ attempt[c] = 1
  THEN /\ pc' = [pc EXCEPT ![c] = "post"]
       /\ attempt' = [attempt EXCEPT ![c] = @ + 1]
       /\ Enqueue(c, Record(c, code, 0, 0))
       /\ UNCHANGED answer
  ELSE FinishError(c, code) /\ UNCHANGED attempt

\* #runAttempt returned an error: exactly one retry.
EndAttempt(c, code, s) ==
  IF Retryable(code, s) /\ attempt[c] = 1 THEN Post(c)
  ELSE FinishError(c, code) /\ UNCHANGED attempt

\* The connection fails, or the timer fires, before the headers.
TransportError(c, code) ==
  /\ up /\ pc[c] = "post"
  /\ EndAttempt(c, code, "none")
  /\ UNCHANGED <<up, reply, served, rows, drainVars>>

\* validateProviderContent of what a 2xx carried.
ContentErrors(body) ==
  IF body \in NoText THEN {"EMPTY_RESPONSE"}
  ELSE IF body \in OffContract THEN {"CONTRACT_INVALID"}
  ELSE {}

\* #classify: the errors of a response; none is a validated article.
Classify(s, body) ==
  IF s = "auth" THEN {"AUTH_FAILED"}
  ELSE IF s = "429" THEN {"RATE_LIMIT"}
  ELSE IF s = "5xx" THEN {"UNAVAILABLE"}
  ELSE IF body = "truncated" THEN {"TOKEN_LIMIT"}
  ELSE IF s = "other" THEN {"CONTRACT_INVALID"}
  ELSE ContentErrors(body)

Current(c) == reply[c][attempt[c]]

Settle(c, body) ==
  /\ \/ \E code \in Classify(Current(c), body) : EndAttempt(c, code, Current(c))
     \/ /\ Classify(Current(c), body) = {}
        /\ \E prompt, completion \in Tokens : FinishSuccess(c, prompt, completion)
        /\ UNCHANGED attempt
  /\ UNCHANGED <<up, reply, served, rows, drainVars>>

\* response.json() resolves, or rejects on what is no JSON.
Body(c) ==
  /\ up /\ pc[c] = "body"
  /\ \E body \in Bodies : Settle(c, body)

\* Mutant: the timer is cleared when the headers are there.
AbortBeforeHeaders(c) == TransportError(c, "TIMEOUT")

\* The timer fires.  While the body is read its rejection is swallowed, and the
\* status alone is classified.
Abort(c) ==
  \/ TransportError(c, "TIMEOUT")
  \/ up /\ pc[c] = "body" /\ Settle(c, "unparsed")

Disconnect(c) ==
  \/ TransportError(c, "UNAVAILABLE")
  \/ up /\ pc[c] = "body" /\ Settle(c, "unparsed")

-----------------------------------------------------------------------------
(* The ledger.                                                             *)

RowOf(key) == {row \in rows : row.key = key}
Awaited(c) == \E d \in Drain : drain[d] = "waiting" /\ c \in taken[d]

\* INSERT ... SELECT FROM project ... ON CONFLICT DO NOTHING, alone in its
\* transaction.  The server runs it even when the process has ended.
Insert(c) ==
  /\ write[c] = "insert"
  /\ record[c].total <= IntMax
  /\ IF record[c].project \in Project /\ RowOf(record[c].key) = {}
     THEN /\ rows' = rows \cup {record[c]}
          /\ write' = [write EXCEPT ![c] = "resolved"]
     ELSE /\ write' = [write EXCEPT ![c] = "count"]
          /\ UNCHANGED rows
  /\ UNCHANGED <<up, callVars, record, pending, drainVars>>

\* A drain that awaits c rejects with it; with none, the host may end the process.
Reject(c) ==
  /\ write' = [write EXCEPT ![c] = "rejected"]
  /\ IF Awaited(c) THEN UNCHANGED up ELSE up' \in {up, FALSE}

\* SELECT count(*): a conflict has a row, a missing project has none.
Count(c) ==
  /\ up /\ write[c] = "count"
  /\ IF RowOf(record[c].key) # {}
     THEN write' = [write EXCEPT ![c] = "resolved"] /\ UNCHANGED up
     ELSE Reject(c)
  /\ UNCHANGED <<callVars, record, rows, pending, drainVars>>

\* The provider reported more tokens than the column holds.
InsertTooWide(c) ==
  /\ up /\ write[c] = "insert"
  /\ record[c].total > IntMax
  /\ Reject(c)
  /\ UNCHANGED <<callVars, record, rows, pending, drainVars>>

\* The connection is lost; the INSERT may have been applied.
StatementFails(c) ==
  /\ up /\ write[c] \in {"insert", "count"}
  /\ Reject(c)
  /\ \/ UNCHANGED rows
     \/ /\ write[c] = "insert"
        /\ record[c].total <= IntMax
        /\ record[c].project \in Project /\ RowOf(record[c].key) = {}
        /\ rows' = rows \cup {record[c]}
  /\ UNCHANGED <<callVars, record, pending, drainVars>>

\* drain() takes #pending and leaves it empty.
StartDrain(d) ==
  /\ up /\ drain[d] = "idle"
  /\ drain' = [drain EXCEPT ![d] = "waiting"]
  /\ taken' = [taken EXCEPT ![d] = pending]
  /\ pending' = {}
  /\ owed' = [owed EXCEPT ![d] =
       IF \A e \in Drain : drain[e] \in {"idle", "resolved"}
       THEN {c \in Call : write[c] # "none"} ELSE {}]
  /\ UNCHANGED <<up, callVars, write, record, rows>>

\* Mutant: #pending is emptied when the wait is over.
EndDrainClearing(d) ==
  /\ up /\ drain[d] = "waiting"
  /\ \A c \in taken[d] : write[c] = "resolved"
  /\ drain' = [drain EXCEPT ![d] = "resolved"]
  /\ pending' = {}
  /\ UNCHANGED <<up, callVars, write, record, rows, taken, owed>>

\* Promise.all resolves when all of them have, and rejects with the first that does.
EndDrain(d) ==
  /\ up /\ drain[d] = "waiting"
  /\ \/ /\ \A c \in taken[d] : write[c] = "resolved"
        /\ drain' = [drain EXCEPT ![d] = "resolved"]
     \/ /\ \E c \in taken[d] : write[c] = "rejected"
        /\ drain' = [drain EXCEPT ![d] = "rejected"]
  /\ UNCHANGED <<up, callVars, write, record, rows, pending, taken, owed>>

\* The process is killed.
Crash ==
  /\ up /\ up' = FALSE
  /\ UNCHANGED <<callVars, write, record, rows, pending, drainVars>>

-----------------------------------------------------------------------------

RecordExecution(c) == Insert(c) \/ InsertTooWide(c) \/ Count(c)

CallStep(c) ==
  \/ AnswerAtOnce(c) \/ Generate(c) \/ Serve(c) \/ Headers(c) \/ Body(c) \/ Abort(c)
  \/ Disconnect(c) \/ RecordExecution(c) \/ StatementFails(c)

\* The process has nothing to do, or is gone.
Idle ==
  /\ up => \A c \in Call : /\ pc[c] \in {"unsent", "returned"}
                           /\ write[c] \notin {"insert", "count"}
  /\ UNCHANGED vars

Next ==
  \/ \E c \in Call : CallStep(c)
  \/ \E d \in Drain : StartDrain(d) \/ EndDrain(d)
  \/ Crash
  \/ Idle

\* setTimeout fires; the database ends the statements it is given.
Fairness ==
  /\ \A c \in Call : WF_vars(Abort(c)) /\ WF_vars(RecordExecution(c))
  /\ \A d \in Drain : WF_vars(EndDrain(d))

Spec == Init /\ [][Next]_vars /\ Fairness

-----------------------------------------------------------------------------
(* Properties.                                                             *)

TypeOK ==
  /\ up \in BOOLEAN
  /\ pc \in [Call -> {"unsent", "post", "body", "returned"}]
  /\ attempt \in [Call -> 0..2]
  /\ reply \in [Call -> [1..2 -> Status \cup {"none"}]]
  /\ served \in [Call -> SUBSET (1..2)]
  /\ answer \in [Call -> Answers]
  /\ write \in [Call -> {"none", "insert", "count", "resolved", "rejected"}]
  /\ rows \subseteq {record[c] : c \in Call}
  /\ pending \subseteq Call
  /\ drain \in [Drain -> {"idle", "waiting", "resolved", "rejected"}]
  /\ taken \in [Drain -> SUBSET Call] /\ owed \in [Drain -> SUBSET Call]

\* The ledger says what the callers were told: a row is the end of a call as its
\* caller got it, also when the call took two requests; an article the provider
\* did not make is never returned; one row per key, of an existing project; and
\* nothing is recorded of a malformed request or of the offline adapter.
LedgerAgreesWithAnswers ==
  /\ TypeOK
  /\ \A row \in rows :
       /\ answer[row.by] = row.outcome
       /\ row.outcome # "CONTENT" => row.total = 0
       /\ row.project \in Project
       /\ row.by.wellFormed /\ row.by.adapter = "network"
  /\ \A r1, r2 \in rows : r1.key = r2.key => r1 = r2
  /\ \A c \in Call : answer[c] = "CONTENT" /\ c.adapter = "network" => attempt[c] \in served[c]

\* The model is run twice for one call only when the gateway answered the first
\* request with a 5xx: after a timeout or a lost connection, when the first may
\* have been run and billed, there is no second.
PaidTwiceOnlyAfterServerError ==
  \A c \in Call : served[c] = {1, 2} => reply[c][1] = "5xx"

\* A drain that resolves has everything enqueued before it began in the ledger,
\* under its key, unless another drain was waiting or had failed by then: what that
\* one had taken is not this one's.  So a drain does not resolve over an INSERT that
\* failed, also one whose token counts do not fit their columns.
DrainedIsDurable ==
  \A d \in Drain : drain[d] = "resolved" =>
    \A c \in owed[d] : RowOf(record[c].key) # {}

\* Whatever the provider and the network do, every call returns and every drain
\* ends as long as the process runs, so that of finitely many none waits for
\* ever: the timer covers the body too, and a write always settles.
NobodyWaitsForEver ==
  []<>(up => /\ \A c \in Call : pc[c] \notin {"post", "body"}
             /\ \A d \in Drain : drain[d] # "waiting")
=============================================================================
