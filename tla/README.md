# Verification of geoplane

geoplane is a multi-tenant Next.js application over PostgreSQL 16: agencies work
for client organizations, turn their documents into knowledge packages, these into
keyword-question maps and opportunities, and reviewed opportunities into articles
that are gated, approved, packaged and delivered. This directory holds TLA+ models
of the parts of it in which something can go wrong that a test would hardly reach:
commands that overlap, fail in the middle, are retried, or act on what they read
earlier; pages whose answers overtake one another; a provider that answers late or
not at all; scripts that meet on one database server. TLC checks the models on small
instances; the TLA+ proof system (TLAPS) proves the core of them for every size.

Paths below are relative to `src/src/` unless they begin with `migrations/`,
`scripts/` or `docs/` (all under `src/`) or are `middleware.ts` (`src/middleware.ts`).
`PROJECT.json` maps every definition to the lines it models.

## 1. Inventory

| Component | State it keeps | Operations | Modelled in |
|---|---|---|---|
| Write-command runtime (`runtime/commands/`, `persistence/pg/pg-database.ts`) | pooled connections, open transactions, `audit_event` | `runWriteCommand`, `recordDeniedCommand`, `transaction` | `WriteCommand` |
| Article compile (`app/api/article-drafts/compile`, `article-pipeline-service.ts`) | `provider_article_content`, `article_draft` | ingest pointer, list, compile, insert | `ArticleCompile`, `DraftHistory` |
| Opportunity review, families, briefs | `human_review_decision`, `opportunity_family`, `article_brief` | load page, decide, create family, write brief | `OpportunityReview` |
| Approval, publishing, delivery | gate results, approvals, packages, plans, receipts | approve, run-gate, package, plan, receipt; the delivery centre, a draft's detail | `ArticlePublishing` |
| Knowledge packages | documents, versions, content store, snapshots, confirmation, issues | ingest file or URL, seal, confirm, resolve | `KnowledgePackage` |
| Knowledge grounding | packages, industry profiles, keyword maps, opportunities, validations | the five commands that make them | `KnowledgeGrounding` |
| Tenancy | organizations, assignments, projects, invitations | provision, create, assign, create project, invite; portfolio, acting context, view, accept | `Tenancy` |
| Sessions | `session` rows, signing keys, the devices' cookies | login, three resolutions of a cookie, logout, key rotation | `Sessions` |
| Provider adapter and execution ledger (`runtime/provider/`) | `provider_execution`, pending writes | generate, record, drain | `ProviderLedger` |
| Migrator, readiness | `schema_migrations`, the schema | migrate, probe | `Databases` |
| Backup, restore, CI gates, audits (`scripts/`) | databases of a server, dumps | back up, restore, create, gate, compare, drop | `Releases` |
| Browser hooks and the pages that write | rows shown, buttons' states, acting banner | load, reload, retry, leave and return, submit, select | `Workspace` |
| Composition root, in-memory repositories and onboarding; unused parsers and downloader; cross-site check; other pages and scripts | | | section 9 |

**How they interact.** A page calls an API route over HTTP. The route resolves the
cookie against the session table, which also yields the clients an agency is
assigned to: the command routes by `runtime/auth/runtime-context.ts`, the geo-read
routes and the knowledge routes each by a resolver of their own; the middleware
checks the cookie alone before it serves a page. A command route then checks the
tenant and calls `runWriteCommand`, which opens one READ COMMITTED transaction, looks
up the Idempotency-Key in the audit trail, runs the route's `perform` closure with
repositories bound to that transaction, appends one ALLOWED event and commits. The
knowledge routes and `run-gate` do not: their statements commit one by one. All
components meet in PostgreSQL only; the process keeps a connection pool and the
signing keys, and, where a provider is used, the ledger's pending writes. There is no
queue and no background worker. The migrator runs when a process starts or an
operator calls it; the scripts run beside all this on the same server.

**What is hard.** (a) Two HTTP requests interleave at every `await`, and a
READ COMMITTED statement sees whatever is committed when it begins. (b) Unique indexes
make an INSERT *wait* for an uncommitted row and then succeed or fail, while the
statement keeps the snapshot it had. (c) Any statement may fail and COMMIT may be
applied without its acknowledgement; clients retry. (d) Where there is no
transaction the process may stop between two commits. (e) Values are read before
they are used: the session's scope, the page's review version, the latest versions
a seal hashes, a package's derived version. (f) `created_at` is when a transaction
began, not when it committed. (g) In the browser answers come in any order, to pages
that may have been left. (h) A provider may run a request whose answer nobody gets.
(i) Scripts share database names and know nothing of one another. The list, with
lines, is `hazards` in `PROJECT.json`.

**What makes each correct** is stated as the properties of its module, section 4.

## 2. Modules and how they correspond to the code

```
WriteCommand ──┬── ArticleCompile ── (INSTANCE) DraftHistory
               ├── OpportunityReview
               ├── ArticlePublishing
               ├── KnowledgeGrounding
               └── Tenancy
KnowledgePackage     Sessions     ProviderLedger     Workspace
Databases ── Releases
WriteCommandProofs (EXTENDS WriteCommand, TLAPS)
CompileAndTenancyProofs (EXTENDS ArticleCompile, Tenancy, WriteCommandProofs)
OperationsProofs (EXTENDS ProviderLedger, Releases, TLAPS)
OpportunityReviewProofs (EXTENDS OpportunityReview, WriteCommandProofs)
ArticlePublishingProofs (EXTENDS ArticlePublishing, WriteCommandProofs)
KnowledgePackageProofs (EXTENDS KnowledgePackage, TLAPS)
KnowledgeGroundingProofs (EXTENDS KnowledgeGrounding, WriteCommandProofs)
BrowserProofs (EXTENDS Sessions, Workspace, TLAPS)
```

**WriteCommand.** A request `r` is one HTTP attempt, a record with its actor, action
and key. `pc[r]` is where its handler is; `tx[r]` are the writes of its open
transaction that only it sees; `rows` and `audit` are what is committed; `free`
counts idle pool connections; `began[r]` is its transaction's `now()`. `Begin` is
`pool.connect()` and `BEGIN`, `Replay`/`LookupMisses` the key's lookup, `Perform` the
closure, `AppendAudit` the event, `Commit` and `CommitUnacknowledged` the two ways
COMMIT is applied, `Rollback` every way it is not. `overlap` is a history variable:
which transactions were open when one began. `perform` inserts one abstract entity
here. A command's module EXTENDS this one, takes `BeforePerform` and `AfterPerform`
as they are and puts the statements of its own closure where `Perform` stands; it
publishes its rows in the same step as `Commit` and drops them at `Rollback`.

**ArticleCompile.** One action per statement of the closure. `want[r]` is the version
an INSERT has computed from its snapshot, `content[r]` and `draft[r]` the versions of
r's uncommitted rows. `Held` is the wait on the unique index. `DraftHistory` is the
abstract promise: per brief, a sequence that grows by one draft at its end.

**OpportunityReview.** `Load` is the page (`buildReviewReference`, which offers a
control only while the review is open), `version[r]` the count it carries,
`CheckVersion` and `Decide` the two statements of the command. A family's members
are checked one per step (`CheckMember`) and inserted at the end; a brief finds its
family and carries the decisions of its members forward.

**ArticlePublishing.** The four commands of the chain cite the row before them, so a
request carries the request whose row it names; each inserts its rows (two, for a
package and a receipt) in its transaction. `run-gate` has a program counter per gate
(`branch`), because its three evaluations run concurrently and outlive the answer.
`page` is one of two pages between its statements, with the facts read so far:
each maps them to a status per draft, and the order of its statements is the code's.

**KnowledgePackage.** Stands alone: these routes do not use `runWriteCommand`. A
handler is a sequence of labels, one per statement; `Fail` stops it anywhere and
what was committed stays. `tx[r]` is the one transaction there is, sealing's. A
file's format is detected from its type and name, and an unsupported one is refused
before anything is written.

**KnowledgeGrounding.** `GeoVersion` is the bridge's ROW_NUMBER over `(created_at, id)`
at the moment of reading; `created_at` is `began` of the creating transaction.

**Tenancy.** `ResolveSession` reads the assignments before the handler starts.
`BeginCreate` and `CreateIdempotent` split one statement into its snapshot and its
INSERT, because the wait lies between them; `found[r]` is what its SELECT returns,
or what a reading handler shows. The handlers that only read end in an event by a
statement of its own.

**Sessions.** A row's `n` is its place in `(created_at, id)`, taken when the INSERT
starts. `visit` and `logout` resolve as the command routes do (the latest row, its
version, no cookie older than an idle window), `read` as the geo-read and knowledge
routes do (the latest of the rows in force), `page` as the middleware does. `keys` are
read once per process, so changing them is a `Restart` that ends the handlers that
run. One unit of time is an idle window.

**ProviderLedger.** A call is `generateArticleContent` with its configuration; `Post`
sends an attempt, `Serve` is the provider running the model (external, also for a
request nobody waits for any more), `Headers` and `Body` the two awaits, `Abort` and
`Disconnect` what may end either. `record[c]` is what the observer emits, `write[c]`
where `recordExecution` is with its INSERT and its count, `pending` the ledger's
array, `taken[d]` what a drain has taken from it.

**Databases, Releases.** A script is a process whose plan is a sequence of tasks on
databases, taken from its main function (at the end of `Releases`); a task is one or
more statements, and `After` says where it goes on when a task throws. A database is
its tables, its triggers, its ledger and the origins of its data. `Databases` has
the migrator, statement by statement, and the readiness probe with its three
concurrent checks; `Releases` adds `pg_dump` and `pg_restore` (not one transaction:
tables, rows, triggers), the gates and the audit, and `DROP DATABASE ... WITH (FORCE)`,
which severs the sessions of others.

**Workspace.** A page is mounted with `nonce` 1; `calls` are the fetches under way,
each with the load (`gen`) it belongs to. `Reload` clears the state and `StartLoad`, the
effect, comes later: between the two the load before is still active. `Submit`,
`Answered` and `QueueAnswered` are the two kinds of write handlers (with
`useWriteAction`, and a bare `await`); `Select` and `Selected` the agency's choice, whose
store belongs to the layout and outlives the page. The server's side is the review
command, the confirmation and the reads, one step per commit.

## 3. Abstractions

- Ids, texts, names and views are model values or the request that made them. Wording,
  logging and response shapes are left out.
- A domain or SQL error, an abort and a lost connection before COMMIT are one action,
  `Rollback`: the client is told of an error and nothing is kept.
- Reads of facts that no modelled command changes (an organization's name, a user's
  email, a draft once compiled) are part of the step that uses them.
- Domain events that a service records in the transaction of its command stand and
  fall with it and are left out.
- In `Sessions` one user with one membership stands for all: users share only keys,
  and no route changes a membership. An HTTP request is taken to end within a tick.
- The model's pool has 2 or 3 connections where the code has 10: the properties
  concern exhaustion and release, which need only more requests than connections.
- In `ProviderLedger` a body is one of the classes that `#classify` and
  `validateProviderContent` tell apart. PostgreSQL's INTEGER is `IntMax`.
- In `Databases` a migration is a number: its tables and its triggers. What a dump
  holds of the data is who wrote it.
- `Workspace` renders at once: a state that is set is shown, except that effects run
  in a step of their own.

## 4. Properties and runs

Twelve runs: eleven that pass, one that exhibits a disagreement between the code and
what it says of itself. State counts are of distinct states.

| Run | Instance | What it shows |
|---|---|---|
| `write_command` | 3 attempts of one key, or 2 and another actor's with the same key; pool of 2; 53 k | the write and its event are one unit (`WrittenIffAudited`); attempts that did not overlap write once (`SequentialRetriesWriteOnce`) and are all told of that entity (`SequentialRetriesAgree`), also after a lost acknowledgement; `AnswersAreTrue`; `ConnectionsConserved`; every request that is sent is answered (`EveryRequestAnswered`, liveness) |
| `article_compile` | 3 compiles of one brief, or 2 beside another brief's; pool of 2; 123 k | drafts numbered 1..n (`VersionsContiguous`); content and draft together (`CompileIsAtomic`); draft v uses exactly contents 1..v (`SourcesComplete`); refines `DraftHistory` (`DraftHistoryOnlyGrows`); waiting ends (`EveryCompileAnswered`) |
| `opportunity_review` | 3 reviewers of one opportunity, or 2 and families citing them, or 1, a family and briefs of it and of one that never is; pool of 3; 204 k | what the version check gives without a lock (`RecordedAtItsVersion`, `ClosedReviewStaysClosed`); families and briefs rest on approvals (`FamiliesAreAuthorized`) |
| `article_publishing` | 2 approvals or an approval and a gate run, beside one of two pages, or the chain to 3 receipts beside the delivery centre; 149 k | `ApprovedWithItsGates`; `DeliveredThroughTheChain`; `PageIsCurrent` |
| `knowledge_package` | 2 uploads and a seal, 3 seals and an unsupported file, or 3 resolutions and a confirmation, any failing anywhere; 122 k | numbering, counter and texts (`VersionsAndCounterAgree`), `SealCoversWhatWasThere`, `NewestSnapshotIsCurrent`, `ResolvedOnceAndAudited`, `EveryRequestAnswered` |
| `knowledge_grounding` | 2 packages, a map and an opportunity; keywords that repeat or are not the map's; a project classified twice; a package confirmed twice; 219 k | `RecordedVersionsAreExplained`; `OpportunitiesAreGrounded` |
| `tenancy` | 2 attempts to provision, a project, an invitation; 2 assignments and a project; an agency created, assigned and acting; or a client's project viewed and its invitation accepted; 33 k | `OneClientPerKey`; `AgenciesActForTheirClients` |
| `create_idempotent` | 2 attempts to provision | **violates** `CreateFindsTheRow` |
| `sessions` | 2 devices with 5 requests; or logins with a visit, a read or a page beside rotations and time; 342 k | nothing rests on an ended session (`LogoutIsObeyed`); `RejectedForAReason`; the rotation contract (`KeysInForce`) |
| `provider_ledger` | 2 calls that share a key, of which one may name no project; or every refusal; 2 drains and a crash; 68 k | `LedgerAgreesWithAnswers`; `PaidTwiceOnlyAfterServerError`; `DrainedIsDurable`; calls and drains end (`NobodyWaitsForEver`, liveness) |
| `releases` | eleven meetings of up to four scripts on one server, 2 migrations; 242 k | a ledger lags its schema by one file at most (`LedgerFollowsSchema`); `ReadyIsTrue`; exit code 0 of a restore, and of the gate on it (`RestoredIsTheDump`); two audits of the same names (`AuditsStandOnTheirOwn`) |
| `workspace` | a list of 2 opportunities with 3 loads, or with 2 beside the agency's queue; a package; the agency's 2 clients; one mishap; 51 k | `AcknowledgedIsShown`; `BannerFollowsTheChoice`; buttons come back (`ButtonsComeBack`, liveness) |

Each passing run also checks its module's type invariant: as a conjunct of the first
property, or, in the first two, by way of the proofs, whose inductive invariants
contain it. Every property of a passing run has a mutant in `PROJECT.json`: a plausible
bug in a mapped definition under which TLC finds the property violated. Most mutants
stand beside the definition they replace, marked "Mutant:".

### Bounds and why they are enough

`Request` is a fixed set of attempts with distinct ids; an MC module names the
*meetings* it is made of, and the action constraint `OneMeeting` keeps a run within
one of them. The constraint restricts which requests are sent, never in which order
they step: within a meeting every interleaving, failure and commit order happens.
Three attempts are the fewest in which two race while a third comes before, after or
waits for a connection; the indexes and versions compare pairs. At most one request
is turned away at the door, since a refused request leaves at most a DENIED event
that nothing reads. In runs where no request has a key, or a key has at most one
event, the database clock stands still, since only the replay's ORDER BY and the
packages' places read it; in `knowledge_grounding` it ticks for packages.

`Sessions` takes windows of 1 < 2 < 4 units, the order of 30 min < 12 h < 24 h, a
clock up to 3 (a key can be rotated, outlive a cookie's TTL and be retired) and three
keys (a routine and an emergency rotation, either order). A device logs in twice at
most, one login after the other, where time moves.

`ProviderLedger`: one call alone meets every status and body in both its attempts;
where two calls share a key each is posted once and is answered or times out, which
is all that the ledger's conflict sees. Two drains are the fewest that can take from
each other. `Tokens` and `IntMax` are such that two counts fit each and not together.

`Releases`: two migrations are the fewest of which one can be missing while the
other is there. A script that is *frail* may fail or be killed once; in the meeting of
two audits nothing fails, because a failed audit has not passed and the property
speaks of those that have. Every script may come to an end, so this run does not
check for deadlock. What the two properties leave out is false and known: two restores
of one target are not kept apart (the look at it and the first statement on it are not
one step), the suites truncate what they are run on, another script may add rows to what
the gate reads back, and of *three* audits at once the third can drop what the first holds for the second to be let in.

`Workspace` bounds the loads of a page (three: one, a reload that races with it, and
one more) and the mishaps (one lost or refused call); a button is only pressed while
a load is left for its answer. Two rows are needed for an answer that overtakes
another, two clients for a choice that does.

Elsewhere deadlock is checked: `Idle` or `Quiet` lets the system rest when everything
that was sent is answered, so a wait that never ends would be reported.

### Fairness

`WF(Sent(r) /\ Step(r))` for each request, in `WriteCommand`, `ArticleCompile` and
`KnowledgePackage`: Node runs every ready continuation and PostgreSQL every
statement that waits for nobody. A client need not send a request (`Sent`), nothing
need fail (`Rollback` and `Fail` are outside), and a statement that waits on an index
or for a connection is not enabled, hence not assumed to proceed: that it is
eventually enabled is what the liveness properties show. A pool queue is FIFO in the
code; weak fairness suffices because a finite number of requests contend.

In `ProviderLedger` only the timer (`Abort`), the ledger's statements and the end of a
drain are fair: neither the provider nor the network is assumed to answer, so that
calls end is the timer's doing. In `Workspace` the server's and the browser's part of
each call are fair together: a fetch is answered or its connection ends, which the
browser tells; React runs the effects of what it has rendered (`StartLoad`). That no
call is lost is not assumed, nor that the user does anything.

## 5. What is proved

Every constant is arbitrary, from the named assumptions of the modules: `Request` is
finite and `PoolMax` positive; a request is of a kind its module names and what it
cites is of the kind the route looks up (a compile's brief is in `Brief`, a family's
members are a non-empty sequence, a package names an approval, a plan a package, a
receipt a plan); what is created has an id of its own, and a project has at most one
profile from the start; a call's adapter, environment and checks are of the kinds named, and
counts and the column's width are natural numbers; the idle window is shorter than a
cookie's TTL, and that by more than a tick than a row's; a key of an actor and an
action is used for one kind of command, since a route has an action of its own; a
database at the start has the tables its ledger names, in order, and rows only in
tables; a script's plan goes on to a later task, restores once, after its dump, and is the
gate's or the audit's where it reads back or wants databases absent; an opportunity is
no package, and of the agency's list of clients one page is open. The runs satisfy
them all. None of the properties is
inductive; each module has an inductive invariant from which they follow.

- `WriteCommandProofs`: `LedgerIsInvariant`, and from it `LedgerTypesAndPool`,
  `WriteIsAuditedAtomically`, `RetriesWriteOnce`, `NoAnswerLies` and `RetriesAgree`.
  `LedgerInv` adds what an open transaction holds (`TxHoldsItsWrites`: exactly the
  writes of the statements it has run), that two open transactions have raced
  (`OpenHaveRaced`), and that two attempts of one key that both missed in the ledger
  have raced (`MissedHaveRaced`). The last is the heart of it: the later of two that
  never overlapped looks when the earlier has committed its write *and its event*, by
  `WrittenIffAudited`, and so finds it. `Cardinality` of the open transactions is
  what `ConnectionsConserved` counts, hence finiteness. `AnswersInv` says of each
  answer what it was true of when it was given, and that rows and events are only
  added keeps it so; two replays that are told of different entities would show two
  attempts that never overlapped and both wrote.
- `CompileAndTenancyProofs`, of compiles: `CompileIsWriteCommand` (every behaviour of the compile
  command is one of the write-command runtime, so the theorems above hold of it),
  `CompileIsInvariant`, and from it `DraftsAreContiguous`, `ContentAndDraftTogether`,
  `DraftsMissNothing`, `CompilesAreSerial` and the refinement
  `CompileImplementsHistory`. `CompileInv` says that contents and drafts of a brief
  are both numbered 1..n, that whoever has inserted a content and not committed it
  holds n + 1, and is therefore alone (`WritersAlone`), and so that list, version and
  draft are computed from a state no other compile can change.
- The same module, of tenants: `TenancyIsInvariant`, and from it `CreatesOnce` and
  `AgenciesStayAssigned`. `LedgerInv` does not hold here: a choice of the client to act
  for leaves an ALLOWED event without a row, so `TenantLedger` says what remains of it,
  and that a key never replays such an event needs the assumption above. What races
  is settled by `Exclusive`: of a key, and of a pair, one open transaction has inserted a
  row; and by `Creates`: who holds its own organization found none under its key, and
  that stays so until it commits, because to publish one a racer would have to hold it
  too. `Cleared` says that the target of a command that was permitted does not change
  under it, since a project is made once, and a session's scope, read before the
  transaction, stays within the assignments because these are only added.
- `OpportunityReviewProofs`: `ReviewIsWriteCommand`, `ReviewIsInvariant`, and from it
  `FamiliesHaveApprovals`. `ReviewInv` says that the members a loop of `createFamily` has
  behind it are authorized (`MembersChecked`), which stays so because decisions are
  only added, and that a family is inserted when its loop is through; `FamiliesAreRows`
  ties the families to the runtime's rows, and so to the audit. `HistoryIsInvariant`
  gives `VersionsCountDecisions` and `ClosedReviewsStayClosed`. `HistoryInv` keeps, for a
  transaction that has compared its page's version, the set it counted (`CountedAtCheck`):
  whatever is recorded since raced with it; that who is stamped earlier than a committed
  decision raced with its request (`EarlierHaveRaced`), which is how a decision can
  appear *before* one that is there; and that a decision which nothing has overtaken is
  the last (`LastUnlessOvertaken`), because a page of the current version shows a review
  that is open (`PageHolds`), hence one whose decisions are all overtaken.
- `ArticlePublishingProofs`: `CommandsAreInvariant`, and from it `ApprovalsAreGated`,
  `DeliveriesFollowTheChain` and, with the pages, `PagesAreCurrent`. `CommandInv` says
  that what a request past its checks cites is committed, that the chain is the union
  of what the committed commands inserted, and that an approval in flight holds the
  gates it has evaluated, in their order and all passed. Its steps include those of
  `run-gate`, which are outside the runtime and add gate results that are nobody's
  approval. `PageInv` says that what a page has read is still so, since rows are only
  added, and that where a draft was when the page began is among what it has read or
  has yet to read: it is the order of its statements that makes this inductive.
- `OperationsProofs`, of the provider: `ProviderIsInvariant`, and from it `NoSecondBillAfterTimeout`
  and `LedgerTellsTheTruth`. `ProviderInv` adds that a status which turned a request
  away is of one the model never runs for (`RepliesAreTrue`), which excludes a second
  bill behind a 429; that a second attempt has a 429 or a 5xx before it
  (`RetriedWhenRetryable`); and that a record is made once, when its call returns, with
  the answer it returns (`CallsInOrder`, `RecordsAreAnswers`), so that a row, however
  late it is written, still agrees with it (`RowsAreRecords`). Neither the drains nor a
  crash can disturb it: they leave calls, records and rows alone. `DrainIsInvariant` gives
  `DrainsAreDurable`: what was enqueued is in `pending` or taken by a drain
  (`EnqueuedIsHeld`), and what a drain owes it has taken or finds resolved
  (`OwedIsTaken`), which a drain that overlaps it would break.
- The same module, of migrators and probes: `ServerIsInvariant`, and from it
  `LedgersFollowSchemas` and `ReadinessIsTrue`, for any number of migrations, scripts and
  failures. `ServerInv` speaks of the databases that no script drops or restores into
  (`Disturbed`): their ledger names what is there (`SchemasHold`), what is before a
  migrator's file is recorded, also when another migrator is at the same file
  (`MigratorKnows`), and what a probe's checks have found is still so when it answers,
  because such a database loses nothing (`ProbeKnows`, `InstanceServes`).
- The same module, of the scripts: `AuditsAreApart` and `RestoresAreTrue`, for any number
  of migrations and any scripts on the server. Both rest on what any step of any script
  leaves as it is (`Steps`): its place in its plan, the memories of the others, and that
  a database is made empty, dropped with the sessions on it, or only grows, unless it is
  restored into. `AuditInv` says that of two audits of the same names which have not failed
  one at most holds the names (`AuditsApart`): the CREATE fails on what the other still
  has, and what the other has left was dropped and would have been flagged.
  `RestoreInv` follows a restore by its statements: an unforced one finds a ledger that
  names only tables that are there, and so do the migrators that are about to record
  (`Backed`); when none of the dump's tables was there, what the ledger has beyond the
  dump's was migrated after them (`Beyond`), and no other script takes away what was
  restored without ending the session that restores. `GateInv` keeps where the gate's
  counted rows are: nowhere, or in the target because the dump brought them.
- `KnowledgePackageProofs`: `PackageIsInvariant`, and from it `VersionsNeverDrift`,
  `LastSealIsCurrent`, `SealsCover` and `IssuesResolveOnce`. `PackageInv` says that a
  document's versions are 1..n with their texts stored, so that a number an ingestion
  has computed is taken or the next, and the unique index decides which (`Ingests`);
  that what a sealing has read of a document is no less than when it arrived
  (`Seals`); and that who is about to commit a seal holds the next number, has
  superseded the current snapshot, and is alone (`Sealed`), because the unique index
  lets one transaction insert. The new snapshot then takes the place of the current
  one in one step. Any handler may stop at any label: each of these survives it.
- `KnowledgeGroundingProofs`: `GroundingIsWriteCommand`, `GroundingIsInvariant`, and from
  it `VersionsAreThePackages` and `EveryOpportunityIsGrounded`. `GroundingInv` dates the
  packages (`Dated`): a transaction that is open began no earlier than a committed
  package did, unless the two were open together (`OpenCameLater`, by `OpenHaveRaced`).
  A package that becomes visible before another in the order, and so moves its place by
  one, is therefore one that raced it or began in the same instant, and `Late` grows by
  one with it: that a version *was had* (`HadVersion`) is itself kept by every commit.
  `ReadsStand` says that what an open transaction has read of packages, maps and the
  profile still holds when it commits, since these rows are only added; `OneProfile`
  that who holds an uncommitted profile is alone and there is none yet; that a map is
  read once and its package again, later, gives the order of the two versions.
- `BrowserProofs`, of sessions: `SessionIsInvariant`, and from it `RevocationIsFinal`,
  `NobodyIsTurnedAwayForNothing` and `RotationContract`. `SessionInv` says that a cookie
  whose key was replaced, and not compromised, was signed before the replacement and
  finds its key as the previous one while it lives (`InForce`); that a cookie is of a
  session whose login ended within a tick of its signing (`OfLogin`); and that rows are
  numbered in the order of their logins, up to a tick (`LoginsOrdered`). From the last
  two, a latest row that has run out is of a login no earlier than the cookie's, so the
  cookie's window closed long before (`LatestOutlives`): that is why no other
  login, restart or rotation can end a session. That a latest row exists at all among
  any set of rows is `MaxOfBounded`.
- The same module, of pages: `ListsAreFresh` and `BannersFollow`. `PageInv` says that a
  load is asked for once, that a page shows nothing while its load is under way
  (`LoadsInOrder`), and that a page is never told of more decisions than were recorded
  (`Counted`). What a load brings, and what a page shows, then covers what the page was
  told of (`FreshInv`): the server answers from what is recorded, and the only step that
  tells a page of one more decision moves its `nonce` on, so that no load asked for before
  is of the latest. `ChoiceInv` says that a choice under way from the page as it is
  mounted keeps its row submitting, hence every button disabled, and is the only one
  (`SelectsShown`); a choice made while none of an earlier visit is under way is
  therefore the only one at all until it is answered.

**Only model-checked:** the liveness properties and anything under fairness or with
ENABLED, which are beyond this prover. The inductive invariants were invariants of the runs while
the proofs were written; the runs now check the properties they imply.

## 6. Where the code and its words differ

Exhibited by a run:

1. `persistence/pg/organization-repository.ts:69`: the racer that waits for another's
   create inserts nothing and its SELECT still reads the snapshot from before the
   wait; the statement returns no row and the request fails, against the comment at
   :58-61 (`create_idempotent`). One client per key still holds.

Seen while modelling, and not given a run of their own; where a property states what
does hold, it is named:

*Commands*
- `reviews/route.ts:169-171` says the version check has "no TOCTOU race"; two reviewers
  on the same version are both recorded (`RecordedAtItsVersion`).
- `app/api/article-drafts/[id]/run-gate/route.ts:82` stores again, with the same ids, results
  that the gate service has already inserted (`quality-gate-service.ts:59`): every run
  ends in a primary-key violation and a 500, its results committed.
- `runtime/knowledge/ingest-request.ts:88`: a version whose event fails has none,
  against :41-43.
- `compile/route.ts:14` "a retried compile yield ONE draft" holds of sequential
  retries, as `runtime-context.ts:24` says: `SequentialRetriesWriteOnce` is the exact
  statement; overlapping retries write two.
- `snapshots/route.ts:6-8` speaks of the package's content at a moment; the seal reads
  each document separately, so it may mix moments. `SealCoversWhatWasThere` is what holds.
- `snapshots/route.ts:36` seals packages that are not confirmed, against
  `migrations/0002_knowledge_runtime.sql:38-39`, and `package-repository.ts:141`
  confirms a confirmed package again and overwrites who and when, where
  `entities.ts:72` has "Set once, at seal time".
- `resolve/route.ts:9-10` calls a repeated resolve an idempotent no-op; of two that
  race one is answered with a 500 (`issue-repository.ts:100`; `ResolvedOnceAndAudited`).
- A package's version is derived (`knowledge-package-bridge.ts:109`) and can move when
  a package that began earlier commits later, against `entities.ts:125-128`
  (`RecordedVersionsAreExplained`).
- A brief's keywords are taken from the request's body, where `entities.ts:420` says
  "carried forward from the family's underlying Opportunities".

*Tenancy and sessions*
- The acting client that `setAgencyContext` sets is in a copy of the session that is
  never stored, so `actingClientOrganizationId` is null in every later request and the
  rule of `auth-service.ts:505-506` never applies.
- `acceptInvitation` stores nothing; `openReviewCount` of the portfolio is always 0.
- `logout/route.ts:2` "revokes the caller's" session: it revokes the user's latest,
  perhaps another device's (`LogoutIsObeyed` is what holds). The runbook's section 7
  (`docs/pilot/PILOT_OPERATOR_RUNBOOK.md:156`) offers a row with a higher
  `session_version` to make older sessions stale: that row is then the latest, to
  which old cookies resolve, and every later login, at version 1, is behind it.
- What that section says of the idle cutoff (:160), of staleness (:157) and of
  revocation (:151) is so on the command routes. The geo-read and knowledge routes
  (`runtime/geo/runtime-context.ts:127`, `runtime/knowledge/runtime-context.ts:155`) take the
  newest of the user's rows in force, of any organization, with no idle window and no
  version check: the cookie of a revoked session resolves to the session of another
  device. Pages check the cookie alone.
- `middleware.ts:17` says the cookie is not signed; `decodeSessionCookie` verifies it.

*Provider, scripts*
- `openai-compatible-adapter.ts:29` "an abort maps to PROVIDER_TIMEOUT": while the
  body is read it is swallowed (:456), and the status alone decides.
- Readiness compares names, not checksums, and knows no triggers: a database restored
  halfway, or with an edited migration, is ready.
- A restore that fails after it has created its database leaves it there, and the gate
  that called it does not drop it (`run-backup-restore-gate.mjs:374`).

*Pages*
- The agency's review queue sends no note (`review-queue/page.tsx:74`, it has no field
  for one), so that to return or defer is always refused, and neither this page nor the
  list of clients catches a rejected fetch: their buttons stay disabled.
- A late answer of a choice made in an earlier visit sets the banner
  (`agency/clients/page.tsx:64`), which is why `BannerFollowsTheChoice` is stated for
  choices of one visit.
- The list of briefs (`listArticleBriefsWithDraftAndGateStatus`) fails as soon as its
  project has a brief. `geo-read-repository.ts:26` says of `asArrayParam` that "pg
  supports array binding via ANY()", but it passes the ids themselves as the list of
  parameters: the query for `= ANY($1)` at line 284 gets one id where an array belongs,
  or more parameters than it has, and the statements after it (299, 306) never run. No
  run shows it: what fails is one statement, and there is nothing to interleave.
- `DeliveryService.publicationStatus` and `derivePublicationStatus` are used by no route.

## 7. Plan and its state

Order of work, most important behaviour first. Done, with proofs: `WriteCommand`,
`ArticleCompile` over `DraftHistory`, `OpportunityReview`, `ArticlePublishing`,
`ProviderLedger`, `KnowledgePackage`, `KnowledgeGrounding`, `Sessions`, `Tenancy`,
`Databases`, `Releases`, `Workspace`. Left: an abstract registry for `Tenancy` (a key
maps to at most one client for ever) and for snapshots (a log with a current end), each
refined by its module.

## 8. Running

In this directory, `tlc -workers 2 -config X.cfg MCX.tla` for each run of
`PROJECT.json`, and `tlapm M.tla` for each of `WriteCommandProofs`,
`CompileAndTenancyProofs`, `OpportunityReviewProofs`, `ArticlePublishingProofs`,
`OperationsProofs`, `KnowledgePackageProofs`, `KnowledgeGroundingProofs` and
`BrowserProofs`.

## 9. Not modelled, and why

- The in-memory acceptance pipeline (`composition/geo-business-services.ts` and what it
  wires, `contracts/geo-business/repository.ts`), onboarding and the in-memory tenancy
  repository with the invitation state machine: no route uses them; they run in tests,
  one call after another in one process.
- The cross-site check (`lib/request-origin.ts`) is a predicate of one request's headers.
- `ReliableKnowledgeParser` and the URL fetcher are wired to no route. What the parsers
  in use extract from bytes is beyond TLC; that they extract a text or refuse is modelled.
- Preflight's other checks are predicates of the environment, which does not change
  while a process runs. Logging formats lines.
- Pages that only read show what one load returned, with the hook that `Workspace`
  models; the order of the statements behind two of them is in `ArticlePublishing`. The
  list of briefs answers an error once there is a brief (section 6).
- The CI evidence generator, the security and repository scans, the HTTP smoke test and
  the provider canary run alone, one step after another.
- How issues of a knowledge package come to be (no route creates one), and users with
  several memberships (users share nothing but the keys; no route adds one).
- `recovered/` holds partial evidence files that are not built.
