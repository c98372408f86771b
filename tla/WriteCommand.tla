---------------------------- MODULE WriteCommand ----------------------------
(***************************************************************************)
(* The write-command runtime: runWriteCommand and recordDeniedCommand of   *)
(* src/src/runtime/commands/runtime-context.ts over the pooled Postgres    *)
(* transactions of src/src/persistence/pg/pg-database.ts.                  *)
(*                                                                         *)
(* Every command route of the API runs this way: resolve the session and   *)
(* the tenant, refuse or deny, else open ONE transaction, look the         *)
(* Idempotency-Key up in the audit trail, perform the write, append one    *)
(* ALLOWED event, commit.  A request is one HTTP attempt; a retry is       *)
(* another request with the same actor, action and key, and nothing stops  *)
(* it from arriving while the first attempt is still running.              *)
(*                                                                         *)
(* BEGIN opens a READ COMMITTED transaction: a statement sees what is      *)
(* committed when it runs, plus its own transaction's writes.  tx[r] holds *)
(* those uncommitted writes.  What perform inserts is abstracted to one    *)
(* entity, named by the request that created it (its id is a fresh UUID);  *)
(* the modules that extend this one give the commands' own tables.         *)
(***************************************************************************)
EXTENDS Integers, FiniteSets

CONSTANTS
  Request,   \* HTTP attempts, records with fields actor, action, key (and more)
  NoKey,     \* the key of a request without an Idempotency-Key
  PoolMax    \* connections of the pool (10 in the code)

ASSUME RequestAssumption == IsFiniteSet(Request)
ASSUME PoolAssumption == PoolMax \in Nat \ {0}

VARIABLES
  pc,        \* pc[r]: where the handler of r is
  free,      \* idle connections of the pool
  clock,     \* the database's clock, read by now() when a transaction begins
  began,     \* began[r]: now() of r's transaction, the created_at of its rows
  tx,        \* tx[r]: uncommitted writes of r's transaction
  rows,      \* committed entities
  audit,     \* committed audit_event rows that runWriteCommand can read
  answer,    \* answer[r]: what the client of r was told
  overlap    \* history: overlap[r], the requests in a transaction when r began

ledgerVars == <<pc, free, clock, began, tx, rows, audit, answer, overlap>>

InTxLabels == {"begun", "performing", "performed", "audited"}
Labels == {"unsent", "authorized", "answered"} \cup InTxLabels
EmptyTx == [rows |-> {}, audit |-> {}]
None == [kind |-> "none", result |-> {}]
Kinds == {"none", "refused", "forbidden", "created", "replayed", "error"}
Outcomes == {"ALLOWED", "DENIED"}
AuditEvent == [req: Request, outcome: Outcomes, at: Nat]

InTx(r) == pc[r] \in InTxLabels
Open == {r \in Request : InTx(r)}
AllowedEvent(r) == [req |-> r, outcome |-> "ALLOWED", at |-> began[r]]
DeniedEvent(r) == [req |-> r, outcome |-> "DENIED", at |-> clock]

-----------------------------------------------------------------------------
LedgerInit ==
  /\ pc = [r \in Request |-> "unsent"]
  /\ free = PoolMax
  /\ clock = 0
  /\ began = [r \in Request |-> 0]
  /\ tx = [r \in Request |-> EmptyTx]
  /\ rows = {}
  /\ audit = {}
  /\ answer = [r \in Request |-> None]
  /\ overlap = [r \in Request |-> {}]

Goto(r, label) == pc' = [pc EXCEPT ![r] = label]
Tell(r, kind, result) ==
  /\ Goto(r, "answered")
  /\ answer' = [answer EXCEPT ![r] = [kind |-> kind, result |-> result]]

\* No session, a malformed body or an unknown target: answered without a write.
Refuse(r) ==
  /\ pc[r] = "unsent"
  /\ Tell(r, "refused", {})
  /\ UNCHANGED <<free, clock, began, tx, rows, audit, overlap>>

\* The session's organization may write for the tenant of the target.
Authorize(r) ==
  /\ pc[r] = "unsent"
  /\ Goto(r, "authorized")
  /\ UNCHANGED <<free, clock, began, tx, rows, audit, answer, overlap>>

\* Cross-tenant or wrong role: a DENIED event in a transaction of its own,
\* committed before the 403 is sent.
RecordDenied(r) ==
  /\ pc[r] = "unsent"
  /\ free > 0
  /\ audit' = audit \cup {DeniedEvent(r)}
  /\ Tell(r, "forbidden", {})
  /\ UNCHANGED <<free, clock, began, tx, rows, overlap>>

\* That transaction itself fails: the error propagates and nothing is written.
RecordDeniedFails(r) ==
  /\ pc[r] = "unsent"
  /\ free > 0
  /\ Tell(r, "error", {})
  /\ UNCHANGED <<free, clock, began, tx, rows, audit, overlap>>

\* pool.connect() and BEGIN.  The clock may or may not tick in between.
Begin(r) ==
  /\ pc[r] = "authorized"
  /\ free > 0
  /\ free' = free - 1
  /\ clock' \in {clock, clock + 1}
  /\ began' = [began EXCEPT ![r] = clock']
  /\ overlap' = [overlap EXCEPT ![r] = Open]
  /\ Goto(r, "begun")
  /\ UNCHANGED <<tx, rows, audit, answer>>

\* Mutant: the lookup forgets actor_user_id.
PriorOfAnyActor(r) ==
  {e \in audit : e.outcome = "ALLOWED" /\ e.req.action = r.action /\ e.req.key = r.key}

\* The ALLOWED events with r's actor, action and key ...
Prior(r) ==
  {e \in audit : /\ e.outcome = "ALLOWED"
                 /\ e.req.actor = r.actor
                 /\ e.req.action = r.action
                 /\ e.req.key = r.key}
\* (the lookup is made only when the request has a key)
Used(r) == r.key # NoKey /\ Prior(r) # {}
\* ... the oldest of which (ORDER BY created_at ASC LIMIT 1) is replayed.
FindIdempotentReplay(r) == {e \in Prior(r) : \A d \in Prior(r) : e.at <= d.at}

\* The key was used before: the stored DTO is the answer, nothing is written,
\* the transaction commits and the connection goes back to the pool.
Replay(r) ==
  /\ pc[r] = "begun"
  /\ Used(r)
  /\ \E e \in FindIdempotentReplay(r) : Tell(r, "replayed", {e.req})
  /\ free' = free + 1
  /\ UNCHANGED <<clock, began, tx, rows, audit, overlap>>

\* Mutant: the lookup is skipped.
LookupSkipped(r) ==
  /\ pc[r] = "begun"
  /\ Goto(r, "performing")
  /\ UNCHANGED <<free, clock, began, tx, rows, audit, answer, overlap>>

\* No key, or no prior event: the perform closure is called.
LookupMisses(r) ==
  /\ pc[r] = "begun"
  /\ ~Used(r)
  /\ Goto(r, "performing")
  /\ UNCHANGED <<free, clock, began, tx, rows, audit, answer, overlap>>

\* The closure's inserts, on the transaction's connection.
Perform(r) ==
  /\ pc[r] = "performing"
  /\ tx' = [tx EXCEPT ![r] = [rows |-> @.rows \cup {r}, audit |-> @.audit]]
  /\ Goto(r, "performed")
  /\ UNCHANGED <<free, clock, began, rows, audit, answer, overlap>>

\* Mutant: the event is appended through the pool instead of the transaction.
AppendAuditOnThePool(r) ==
  /\ pc[r] = "performed"
  /\ audit' = audit \cup {AllowedEvent(r)}
  /\ Goto(r, "audited")
  /\ UNCHANGED <<free, clock, began, tx, rows, answer, overlap>>

\* Exactly one ALLOWED event per command, with its key and its result.
AppendAudit(r) ==
  /\ pc[r] = "performed"
  /\ tx' = [tx EXCEPT ![r] =
       [rows |-> @.rows, audit |-> @.audit \cup {AllowedEvent(r)}]]
  /\ Goto(r, "audited")
  /\ UNCHANGED <<free, clock, began, rows, audit, answer, overlap>>

\* The server applies COMMIT: all the transaction's rows become visible at once.
Apply(r) ==
  /\ pc[r] = "audited"
  /\ rows' = rows \cup tx[r].rows
  /\ audit' = audit \cup tx[r].audit
  /\ tx' = [tx EXCEPT ![r] = EmptyTx]
  /\ free' = free + 1

Commit(r) ==
  /\ Apply(r)
  /\ Tell(r, "created", {r})
  /\ UNCHANGED <<clock, began, overlap>>

\* COMMIT is applied but its acknowledgement is lost: client.query rejects, the
\* handler answers with an error, and the rows are there.
CommitUnacknowledged(r) ==
  /\ Apply(r)
  /\ Tell(r, "error", {})
  /\ UNCHANGED <<clock, began, overlap>>

\* Mutant: release() is not in a finally block.
RollbackLeaksConnection(r) ==
  /\ InTx(r)
  /\ tx' = [tx EXCEPT ![r] = EmptyTx]
  /\ Tell(r, "error", {})
  /\ UNCHANGED <<free, clock, began, rows, audit, overlap>>

\* Mutant: the catch block and the finally block both release.
RollbackReleasesTwice(r) ==
  /\ InTx(r)
  /\ tx' = [tx EXCEPT ![r] = EmptyTx]
  /\ free' = free + 2
  /\ Tell(r, "error", {})
  /\ UNCHANGED <<clock, began, rows, audit, overlap>>

\* A CommandAbortError, a domain or SQL error, or a lost connection: ROLLBACK,
\* the connection is released, the client is told of an error.
Rollback(r) ==
  /\ InTx(r)
  /\ tx' = [tx EXCEPT ![r] = EmptyTx]
  /\ free' = free + 1
  /\ Tell(r, "error", {})
  /\ UNCHANGED <<clock, began, rows, audit, overlap>>

\* What the handler does by itself, without perform's own steps, which a
\* command's module replaces; Rollback is the environment's doing.
BeforePerform(r) ==
  \/ Refuse(r) \/ Authorize(r) \/ RecordDenied(r) \/ RecordDeniedFails(r)
  \/ Begin(r) \/ Replay(r) \/ LookupMisses(r)
AfterPerform(r) == AppendAudit(r) \/ Commit(r) \/ CommitUnacknowledged(r)

Progress(r) == BeforePerform(r) \/ Perform(r) \/ AfterPerform(r)
\* Whatever was sent is answered: the server may rest.
Idle == \A r \in Request : pc[r] \in {"unsent", "answered"}
LedgerNext ==
  \/ \E r \in Request : Progress(r) \/ Rollback(r)
  \/ Idle /\ UNCHANGED ledgerVars

LedgerSafety == LedgerInit /\ [][LedgerNext]_ledgerVars
Sent(r) == pc[r] # "unsent"
\* Node.js runs every ready callback and Postgres every statement that waits
\* for nobody.  A client need not send its request, and nothing need fail.
LedgerSpec == LedgerSafety /\ \A r \in Request : WF_ledgerVars(Sent(r) /\ Progress(r))

-----------------------------------------------------------------------------
LedgerTypeOK ==
  /\ pc \in [Request -> Labels]
  /\ free \in 0..PoolMax
  /\ clock \in Nat
  /\ began \in [Request -> Nat]
  /\ tx \in [Request -> [rows: SUBSET Request, audit: SUBSET AuditEvent]]
  /\ rows \subseteq Request
  /\ audit \subseteq AuditEvent
  /\ answer \in [Request -> [kind: Kinds, result: SUBSET Request]]
  /\ overlap \in [Request -> SUBSET Request]

Raced(r, s) == r \in overlap[s] \/ s \in overlap[r]
Retry(r, s) ==
  /\ r # s /\ r.key # NoKey
  /\ <<r.actor, r.action, r.key>> = <<s.actor, s.action, s.key>>
\* No two attempts with r's key had transactions open at the same time.
NeverRaced(r) ==
  \A s, t \in Request : (s = r \/ Retry(r, s)) /\ Retry(s, t) => ~Raced(s, t)
Succeeded(r) == answer[r].kind \in {"created", "replayed"}
Allowed(r) == {e \in audit : e.req = r /\ e.outcome = "ALLOWED"}

(***************************************************************************)
(* The write and its audit event are one unit: wherever the transaction    *)
(* stops, an entity is there exactly when one ALLOWED event of its request *)
(* is, and never two (runtime-context.ts, "exactly one ALLOWED            *)
(* AuditEvent ... all in the same transaction").                           *)
(***************************************************************************)
WrittenIffAudited ==
  \A r \in Request : Allowed(r) = IF r \in rows THEN {AllowedEvent(r)} ELSE {}

(***************************************************************************)
(* A key whose attempts never had transactions open together has written   *)
(* at most one entity, whatever failed in between: rollback, an            *)
(* unacknowledged COMMIT, a retry after either.                            *)
(***************************************************************************)
SequentialRetriesWriteOnce ==
  \A r, s \in rows : Retry(r, s) => Raced(r, s)

(***************************************************************************)
(* Every successful answer for such a key is the one entity it wrote, also *)
(* when the attempt that wrote it was told of an error.                    *)
(***************************************************************************)
SequentialRetriesAgree ==
  \A r \in rows, s \in Request :
    Retry(r, s) /\ NeverRaced(r) /\ Succeeded(s) => answer[s].result = {r}

(***************************************************************************)
(* No answer claims what did not happen: a created entity is committed, a  *)
(* replay names an entity the same actor wrote with the same action and    *)
(* key and adds none, a 403 has left its DENIED event and nothing else.    *)
(***************************************************************************)
AnswersAreTrue ==
  \A r \in Request :
    LET a == answer[r] IN
    /\ a.kind = "created" => r \in rows /\ a.result = {r}
    /\ a.kind = "replayed" =>
         r \notin rows /\ \E e \in rows : a.result = {e} /\ Retry(e, r)
    /\ a.kind \in {"refused", "forbidden"} => r \notin rows
    /\ a.kind = "forbidden" => \E e \in audit : e.req = r /\ e.outcome = "DENIED"

(***************************************************************************)
(* Every path out of transaction() releases its connection exactly once.   *)
(***************************************************************************)
ConnectionsConserved ==
  free + Cardinality(Open) = PoolMax

(***************************************************************************)
(* The inductive invariant.  A transaction holds exactly the writes of the *)
(* statements it has run; open transactions have raced; and so have two    *)
(* attempts of one key that both missed in the ledger, since the later of  *)
(* them to look would have found the other's event had it been committed.  *)
(***************************************************************************)
TxHoldsItsWrites ==
  \A r \in Request :
    /\ tx[r].rows = IF pc[r] \in {"performed", "audited"} THEN {r} ELSE {}
    /\ tx[r].audit = IF pc[r] = "audited" THEN {AllowedEvent(r)} ELSE {}
    /\ r \in rows => pc[r] = "answered"
OpenHaveRaced == \A r, s \in Request : InTx(r) /\ InTx(s) /\ r # s => Raced(r, s)
Missed(r) == pc[r] \in {"performing", "performed", "audited"} \/ r \in rows
MissedHaveRaced ==
  \A r, s \in Request : Retry(r, s) /\ Missed(r) /\ Missed(s) => Raced(r, s)
LedgerInv ==
  /\ LedgerTypeOK
  /\ ConnectionsConserved
  /\ TxHoldsItsWrites
  /\ WrittenIffAudited
  /\ OpenHaveRaced
  /\ MissedHaveRaced

(***************************************************************************)
(* With more requests than connections every request that is sent is still *)
(* answered: the server always comes to rest.                              *)
(***************************************************************************)
EveryRequestAnswered == []<>Idle

=============================================================================
