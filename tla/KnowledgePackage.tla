-------------------------- MODULE KnowledgePackage --------------------------
(***************************************************************************)
(* The knowledge API over one knowledge package: ingestion of files and    *)
(* pages, sealing of snapshots, confirmation, resolution of issues.        *)
(*                                                                         *)
(* These routes do not use runWriteCommand.  Ingestion and sealing are     *)
(* sequences of statements that each commit by themselves, with the audit  *)
(* event last; only the sealing of the snapshot row, the confirmation and  *)
(* the resolution are transactions.  Any statement may fail, and the       *)
(* process may stop between two of them: what was committed stays.         *)
(*                                                                         *)
(* A document is named by its title (uq_knowledge_document_package_title), *)
(* a text by its sha256.  Packages share no rows: one is modelled.         *)
(***************************************************************************)
EXTENDS Integers, FiniteSets, FiniteSetsExt

CONSTANTS
  Request,  \* records: kind, user, and title, format and text, or issue
  Title, Text, Issue, User,
  Unsupported,  \* UnsupportedKnowledgeFormatError
  NoOne

Kinds == {"ingest", "seal", "confirm", "resolve"}
ASSUME NoOneAssumption == NoOne \notin User /\ Unsupported \notin Text
ASSUME RequestAssumption ==
  \A r \in Request :
    /\ r.kind \in Kinds
    /\ r.kind = "ingest" => r.title \in Title /\ r.text \in Text
    /\ r.kind = "resolve" => r.issue \in Issue
    /\ r.kind \in {"confirm", "resolve"} => r.user \in User

VARIABLES
  pc,         \* pc[r]: the statement r's handler runs next
  answer,     \* answer[r]: what the client of r was told
  head,       \* head[t]: current_version_number of document t, or Absent
  versions,   \* knowledge_version rows
  content,    \* paths of knowledge_content, a document and a hash each
  snapshots,  \* knowledge_snapshot rows; parts is what content_hash hashes
  current,    \* numbers of the snapshots whose superseded_at is NULL
  confirmed,  \* confirmed_by_user_id of the package
  resolved,   \* resolved[i]: resolved_by_user_id of issue i
  audit,      \* requests whose audit event is committed
  read,       \* read[r]: what r has read and keeps in local variables
  tx          \* tx[r]: uncommitted writes of r's sealing transaction

vars == <<pc, answer, head, versions, content, snapshots, current, confirmed,
          resolved, audit, read, tx>>
rowVars == <<head, versions, content, snapshots, current, confirmed, resolved, audit>>

Absent == -1
Version == [doc: Title, n: Nat, text: Text]
Snapshot == [number: Nat, parts: [Title -> Int], by: Request]
NoTx == [old |-> {}, new |-> {}]
Nothing == [n |-> 0, target |-> {}, parts |-> [t \in Title |-> Absent], start |-> [t \in Title |-> Absent]]
Labels ==
  {"unsent", "answered", "find", "create", "put", "number", "add", "count",
   "list", "latest", "supersede", "insert", "commit", "audit", "issue", "update"}
Answers == {"none", "refused", "skipped", "done", "unchanged", "rejected", "error"}

Init ==
  /\ pc = [r \in Request |-> "unsent"]
  /\ answer = [r \in Request |-> "none"]
  /\ head = [t \in Title |-> Absent]
  /\ versions = {}
  /\ content = {}
  /\ snapshots = {}
  /\ current = {}
  /\ confirmed = NoOne
  /\ resolved = [i \in Issue |-> NoOne]
  /\ audit = {}
  /\ read = [r \in Request |-> Nothing]
  /\ tx = [r \in Request |-> NoTx]

Of(t) == {v \in versions : v.doc = t}
Latest(t) == Max({v.n : v \in Of(t)} \cup {0})

At(r, kind, label) == r.kind = kind /\ pc[r] = label
Goto(r, label) == pc' = [pc EXCEPT ![r] = label] /\ UNCHANGED answer
Tell(r, what) ==
  /\ pc' = [pc EXCEPT ![r] = "answered"]
  /\ answer' = [answer EXCEPT ![r] = what]
Keep(r, value) == read' = [read EXCEPT ![r] = value]

\* No session, or a package of another client.
Refuse(r) ==
  /\ pc[r] = "unsent"
  /\ Tell(r, "refused")
  /\ UNCHANGED <<rowVars, read, tx>>

\* requirePrincipal and requireOwnedPackage pass.
Accept(r) ==
  /\ pc[r] = "unsent"
  /\ Goto(r, [ingest |-> "find", seal |-> "list", confirm |-> "update", resolve |-> "issue"][r.kind])
  /\ Keep(r, [Nothing EXCEPT !.start = head])
  /\ UNCHANGED <<rowVars, tx>>

\* Mutant: a failed transaction is not rolled back and keeps its locks.
FailKeepsTransaction(r) ==
  /\ pc[r] \notin {"unsent", "answered"}
  /\ Tell(r, "error")
  /\ UNCHANGED <<rowVars, read, tx>>

\* A statement fails or the connection is lost: a transaction is rolled back,
\* what earlier statements committed stays.
Fail(r) ==
  /\ pc[r] \notin {"unsent", "answered"}
  /\ Tell(r, "error")
  /\ tx' = [tx EXCEPT ![r] = NoTx]
  /\ UNCHANGED <<rowVars, read>>

-----------------------------------------------------------------------------
(* Ingestion.                                                              *)

\* By content type, then by the file name's extension: pictures, spreadsheets and
\* whatever is unknown are out of scope.
DetectKnowledgeFormat(r) ==
  IF r.format \in {"DOCX", "PDF", "URL", "MARKDOWN", "TXT"} THEN r.format ELSE Unsupported
\* Two formats may hold one text.  An extractor that throws is a failed statement.
Parse(r) == IF DetectKnowledgeFormat(r) = Unsupported THEN Unsupported ELSE r.text

\* The parser refuses the input: nothing is stored, nothing is audited.
Skip(r) ==
  /\ At(r, "ingest", "find")
  /\ Parse(r) = Unsupported
  /\ Tell(r, "skipped")
  /\ UNCHANGED <<rowVars, read, tx>>

\* listByPackage(...).find(title).
FindDocument(r) ==
  /\ At(r, "ingest", "find")
  /\ Parse(r) # Unsupported
  /\ Goto(r, IF head[r.title] = Absent THEN "create" ELSE "put")
  /\ UNCHANGED <<rowVars, read, tx>>

\* The INSERT of the document; the title may have been taken meanwhile.
CreateDocument(r) ==
  /\ At(r, "ingest", "create")
  /\ IF head[r.title] # Absent
     THEN Tell(r, "rejected") /\ UNCHANGED rowVars
     ELSE /\ Goto(r, "put")
          /\ head' = [head EXCEPT ![r.title] = 0]
          /\ UNCHANGED <<versions, content, snapshots, current, confirmed, resolved, audit>>
  /\ UNCHANGED <<read, tx>>

\* contentStore.put: ON CONFLICT DO NOTHING, then the hashes are compared,
\* which agree because the path ends in the hash.
PutContent(r) ==
  /\ At(r, "ingest", "put")
  /\ content' = content \cup {<<r.title, Parse(r)>>}
  /\ Goto(r, "number")
  /\ UNCHANGED <<head, versions, snapshots, current, confirmed, resolved, audit, read, tx>>

\* addVersion is one statement.  Its snapshot gives MAX(version_number) + 1 ...
NumberVersion(r) ==
  /\ At(r, "ingest", "number")
  /\ Keep(r, [read[r] EXCEPT !.n = Latest(r.title) + 1])
  /\ Goto(r, "add")
  /\ UNCHANGED <<rowVars, tx>>

NewVersion(r) ==
  [doc |-> r.title, n |-> read[r].n, text |-> Parse(r)]
StoreVersion(r) ==
  /\ versions' = versions \cup {NewVersion(r)}
  /\ head' = [head EXCEPT ![r.title] = read[r].n]
  /\ Goto(r, "count")
  /\ UNCHANGED <<content, snapshots, current, confirmed, resolved, audit>>

\* Mutant: (document, version_number) is not unique.
AddVersionUnchecked(r) ==
  /\ At(r, "ingest", "add")
  /\ StoreVersion(r)
  /\ UNCHANGED <<read, tx>>

\* ... and its INSERT meets the unique index, which another ingestion of the
\* same document may have filled; the counter is set by the same statement.
AddVersion(r) ==
  /\ At(r, "ingest", "add")
  /\ IF \E v \in Of(r.title) : v.n = read[r].n
     THEN Tell(r, "rejected") /\ UNCHANGED rowVars
     ELSE StoreVersion(r)
  /\ UNCHANGED <<read, tx>>

\* getWithCounts, for the answer only.
CountPackage(r) ==
  /\ pc[r] = "count"
  /\ IF r.kind = "ingest" THEN Goto(r, "audit") ELSE Tell(r, "done")
  /\ UNCHANGED <<rowVars, read, tx>>

\* The audit event of an ingestion or of a snapshot: a statement of its own.
RecordAudit(r) ==
  /\ pc[r] = "audit"
  /\ audit' = audit \cup {r}
  /\ Tell(r, "done")
  /\ UNCHANGED <<head, versions, content, snapshots, current, confirmed, resolved, read, tx>>

-----------------------------------------------------------------------------
(* Sealing.                                                                *)

\* listByPackage: the documents whose latest versions will be read.
ListDocuments(r) ==
  /\ At(r, "seal", "list")
  /\ Keep(r, [read[r] EXCEPT !.target = {t \in Title : head[t] # Absent}])
  /\ Goto(r, "latest")
  /\ UNCHANGED <<rowVars, tx>>

\* Mutant: the latest version is taken to be the one first created.
ReadFirst(r) ==
  /\ At(r, "seal", "latest")
  /\ \E t \in read[r].target :
       Keep(r, [read[r] EXCEPT !.target = @ \ {t},
                               !.parts[t] = IF Of(t) = {} THEN 0 ELSE 1])
  /\ UNCHANGED <<pc, answer, rowVars, tx>>

\* versions.getLatest of the next document (0 when it has none yet).
ReadLatest(r) ==
  /\ At(r, "seal", "latest")
  /\ \E t \in read[r].target :
       Keep(r, [read[r] EXCEPT !.target = @ \ {t}, !.parts[t] = Latest(t)])
  /\ UNCHANGED <<pc, answer, rowVars, tx>>

\* All are read and hashed.  The UPDATE finds the current snapshot, if any ...
FindCurrent(r) ==
  /\ At(r, "seal", "latest")
  /\ read[r].target = {}
  /\ Keep(r, [read[r] EXCEPT !.target = current])
  /\ Goto(r, "supersede")
  /\ UNCHANGED <<rowVars, tx>>

Superseding(n) == {r \in Request : n \in tx[r].old}
Sealing == {r \in Request : tx[r] # NoTx}
\* ... waits for a transaction that is superseding it, and supersedes it unless
\* that one has.
Supersede(r) ==
  /\ At(r, "seal", "supersede")
  /\ \A n \in read[r].target : Superseding(n) = {}
  /\ tx' = [tx EXCEPT ![r].old = read[r].target \cap current]
  /\ Goto(r, "insert")
  /\ UNCHANGED <<rowVars, read>>

NewSnapshot(r) ==
  [number |-> Max({s.number : s \in snapshots} \cup {0}) + 1,
   parts |-> read[r].parts, by |-> r]
StoreSnapshot(r) ==
  /\ tx' = [tx EXCEPT ![r].new = {NewSnapshot(r)}]
  /\ Goto(r, "commit")

\* Mutant: no unique index on the package's current snapshot.
InsertUnchecked(r) ==
  /\ At(r, "seal", "insert")
  /\ StoreSnapshot(r)
  /\ UNCHANGED <<rowVars, read>>

\* The INSERT of the next number waits for any other transaction that holds an
\* entry of uq_knowledge_snapshot_one_current_per_package; a current snapshot
\* that r has not superseded refuses it, and the transaction rolls back.
InsertSnapshot(r) ==
  /\ At(r, "seal", "insert")
  /\ Sealing \subseteq {r}
  /\ IF current \subseteq tx[r].old
     THEN StoreSnapshot(r)
     ELSE Tell(r, "rejected") /\ tx' = [tx EXCEPT ![r] = NoTx]
  /\ UNCHANGED <<rowVars, read>>

CommitSnapshot(r) ==
  /\ At(r, "seal", "commit")
  /\ snapshots' = snapshots \cup tx[r].new
  /\ current' = (current \ tx[r].old) \cup {s.number : s \in tx[r].new}
  /\ tx' = [tx EXCEPT ![r] = NoTx]
  /\ Goto(r, "audit")
  /\ UNCHANGED <<head, versions, content, confirmed, resolved, audit, read>>

-----------------------------------------------------------------------------
(* Confirmation and resolution: one transaction each, with its event.      *)

\* The UPDATE has no condition on the package's status.
Confirm(r) ==
  /\ At(r, "confirm", "update")
  /\ confirmed' = r.user
  /\ audit' = audit \cup {r}
  /\ Goto(r, "count")
  /\ UNCHANGED <<head, versions, content, snapshots, current, resolved, read, tx>>

\* The issue is read first; a resolved one is returned as it is.
ReadIssue(r) ==
  /\ At(r, "resolve", "issue")
  /\ IF resolved[r.issue] # NoOne THEN Tell(r, "unchanged") ELSE Goto(r, "update")
  /\ UNCHANGED <<rowVars, read, tx>>

StoreResolution(r) ==
  /\ resolved' = [resolved EXCEPT ![r.issue] = r.user]
  /\ audit' = audit \cup {r}
  /\ Tell(r, "done")
  /\ UNCHANGED <<head, versions, content, snapshots, current, confirmed>>

\* Mutant: the UPDATE does not ask for resolved = false.
ResolveAgain(r) ==
  /\ At(r, "resolve", "update")
  /\ StoreResolution(r)
  /\ UNCHANGED <<read, tx>>

\* UPDATE ... WHERE resolved = false; when it finds no row, it throws.
Resolve(r) ==
  /\ At(r, "resolve", "update")
  /\ IF resolved[r.issue] # NoOne
     THEN Tell(r, "rejected") /\ UNCHANGED rowVars
     ELSE StoreResolution(r)
  /\ UNCHANGED <<read, tx>>

-----------------------------------------------------------------------------
Ingest(r) ==
  \/ Skip(r) \/ FindDocument(r) \/ CreateDocument(r) \/ PutContent(r)
  \/ NumberVersion(r) \/ AddVersion(r)
Seal(r) ==
  \/ ListDocuments(r) \/ ReadLatest(r) \/ FindCurrent(r)
  \/ Supersede(r) \/ InsertSnapshot(r) \/ CommitSnapshot(r)
Step(r) ==
  \/ Refuse(r) \/ Accept(r) \/ Ingest(r) \/ Seal(r)
  \/ Confirm(r) \/ ReadIssue(r) \/ Resolve(r) \/ CountPackage(r) \/ RecordAudit(r)
Sent(r) == pc[r] # "unsent"
\* Whatever was sent is answered.
Idle == \A r \in Request : pc[r] \in {"unsent", "answered"}
Next ==
  \/ \E r \in Request : Step(r) \/ Fail(r)
  \/ Idle /\ UNCHANGED vars
Safety == Init /\ [][Next]_vars
\* Node.js runs every ready continuation and Postgres every statement that
\* waits for nobody.  A client need not send its request, and nothing need fail.
Spec == Safety /\ \A r \in Request : WF_vars(Sent(r) /\ Step(r))

-----------------------------------------------------------------------------
TypeOK ==
  /\ pc \in [Request -> Labels]
  /\ answer \in [Request -> Answers]
  /\ head \in [Title -> Nat \cup {Absent}]
  /\ versions \subseteq Version
  /\ content \subseteq Title \X Text
  /\ snapshots \subseteq Snapshot
  /\ current \subseteq {s.number : s \in snapshots}
  /\ confirmed \in User \cup {NoOne}
  /\ resolved \in [Issue -> User \cup {NoOne}]
  /\ audit \subseteq Request
  /\ DOMAIN read = Request /\ DOMAIN tx = Request

(***************************************************************************)
(* version-repository.ts:8-9, "so the two never drift": a document's       *)
(* versions are 1..n, one row each, and current_version_number is n, with  *)
(* any number of ingestions of it at once; and the text of every one of    *)
(* them is in the content store, whatever stopped the others.              *)
(***************************************************************************)
VersionsAndCounterAgree ==
  /\ TypeOK
  /\ \A t \in Title :
       /\ {v.n : v \in Of(t)} = 1..(IF head[t] = Absent THEN 0 ELSE head[t])
       /\ \A v, w \in Of(t) : v.n = w.n => v = w
  /\ \A v \in versions : <<v.doc, v.text>> \in content

(***************************************************************************)
(* However many sealings overlap, fail or are refused, the snapshots of a  *)
(* package are numbered 1..n and the last of them, and only that one, is   *)
(* current: a failed sealing never leaves the package without one.         *)
(***************************************************************************)
NewestSnapshotIsCurrent ==
  LET numbers == {s.number : s \in snapshots} IN
  /\ numbers = 1..Cardinality(snapshots)
  /\ current = IF numbers = {} THEN {} ELSE {Max(numbers)}

(***************************************************************************)
(* A snapshot covers at least every version that was there when its        *)
(* request arrived, and nothing that was never ingested.                   *)
(***************************************************************************)
SealCoversWhatWasThere ==
  \A s \in snapshots : \A t \in Title :
    /\ read[s.by].start[t] <= s.parts[t]
    /\ s.parts[t] <= Latest(t)

(***************************************************************************)
(* An issue is resolved once, by one user, and by the one request whose    *)
(* event says so; of two that race, the other changes nothing.             *)
(***************************************************************************)
ResolvedOnceAndAudited ==
  \A i \in Issue :
    LET done == {r \in audit : r.kind = "resolve" /\ r.issue = i} IN
    /\ Cardinality(done) = (IF resolved[i] = NoOne THEN 0 ELSE 1)
    /\ \A r \in done : resolved[i] = r.user

(***************************************************************************)
(* Sealings that wait for one another's rows all end: every request that   *)
(* is sent is answered.                                                    *)
(***************************************************************************)
EveryRequestAnswered == []<>Idle

=============================================================================
