--------------------------- MODULE ArticleCompile ---------------------------
(***************************************************************************)
(* POST /api/article-drafts/compile: one write command (WriteCommand)      *)
(* whose perform closure ingests the pointer to a provider envelope as the *)
(* brief's next provider_article_content, lists all of the brief's         *)
(* contents, and compiles them into the brief's next article_draft.        *)
(*                                                                         *)
(* Both version numbers are computed as highest + 1 from what the          *)
(* statement can see (READ COMMITTED) and both tables have a UNIQUE        *)
(* (article_brief_id, version).  An INSERT that meets an uncommitted row   *)
(* with its version waits for that transaction; one that meets a committed *)
(* row fails and takes the whole transaction with it.                      *)
(***************************************************************************)
EXTENDS WriteCommand

CONSTANT Brief   \* article briefs; requests have a field brief
ASSUME BriefAssumption == \A r \in Request : r.brief \in Brief

VARIABLES
  contents,  \* committed provider_article_content rows
  drafts,    \* committed article_draft rows
  stage,     \* stage[r]: which statement of perform r runs next
  want,      \* want[r]: the version r's pending INSERT has computed
  content,   \* content[r]: version of r's uncommitted content, 0 when none
  sources,   \* sources[r]: the contents r has listed, by the request that ingested them
  draft      \* draft[r]: version of r's uncommitted draft, 0 when none

compileVars == <<contents, drafts, stage, want, content, sources, draft>>
vars == <<ledgerVars, compileVars>>

Stages == {"version", "ingest", "list", "compile", "insert", "stored"}
ContentRow == [req: Request, brief: Brief, version: Nat]
DraftRow == [req: Request, brief: Brief, version: Nat, sources: SUBSET Request]

Init ==
  /\ LedgerInit
  /\ contents = {}
  /\ drafts = {}
  /\ stage = [r \in Request |-> "version"]
  /\ want = [r \in Request |-> 0]
  /\ content = [r \in Request |-> 0]
  /\ sources = [r \in Request |-> {}]
  /\ draft = [r \in Request |-> 0]

Of(table, b) == {row \in table : row.brief = b}
Versions(table, b) == {row.version : row \in Of(table, b)}
Highest(V) == IF V = {} THEN 0 ELSE CHOOSE v \in V : \A w \in V : w <= v
\* COALESCE(MAX(version), 0) + 1
NextVersion(V) == Highest(V) + 1

\* Another open transaction has inserted this version of the brief: the index
\* makes the INSERT wait for it.
Held(held, r) ==
  \E s \in Request \ {r} : InTx(s) /\ s.brief = r.brief /\ held[s] = want[r]

At(r, label) == pc[r] = "performing" /\ stage[r] = label
Then(r, label) == stage' = [stage EXCEPT ![r] = label]

\* The INSERT's subselect: MAX(version) + 1 of the rows its snapshot shows.
ComputeContentVersion(r) ==
  /\ At(r, "version")
  /\ want' = [want EXCEPT ![r] = NextVersion(Versions(contents, r.brief))]
  /\ Then(r, "ingest")
  /\ UNCHANGED <<ledgerVars, contents, drafts, content, sources, draft>>

\* Mutant: provider_article_content has no UNIQUE (article_brief_id, version).
InsertContentUnchecked(r) ==
  /\ At(r, "ingest")
  /\ content' = [content EXCEPT ![r] = want[r]]
  /\ Then(r, "list")
  /\ UNCHANGED <<ledgerVars, contents, drafts, want, sources, draft>>

\* Mutant: the pipeline service writes through the pool: its content is
\* committed at once and a later rollback does not take it back.
InsertContentOnThePool(r) ==
  /\ At(r, "ingest")
  /\ contents' = contents \cup {[req |-> r, brief |-> r.brief, version |-> want[r]]}
  /\ content' = [content EXCEPT ![r] = want[r]]
  /\ Then(r, "list")
  /\ UNCHANGED <<ledgerVars, drafts, want, sources, draft>>

\* ingestProviderArticleContent: the row is inserted, and visible to r alone.
InsertContent(r) ==
  /\ At(r, "ingest")
  /\ ~Held(content, r)
  /\ want[r] \notin Versions(contents, r.brief)
  /\ content' = [content EXCEPT ![r] = want[r]]
  /\ Then(r, "list")
  /\ UNCHANGED <<ledgerVars, contents, drafts, want, sources, draft>>

\* The closure's locals and uncommitted rows go with the transaction.
Forget(r) ==
  /\ stage' = [stage EXCEPT ![r] = "version"]
  /\ want' = [want EXCEPT ![r] = 0]
  /\ content' = [content EXCEPT ![r] = 0]
  /\ sources' = [sources EXCEPT ![r] = {}]
  /\ draft' = [draft EXCEPT ![r] = 0]

\* Leaving without a commit: nothing of perform's remains.
Discard(r) == Forget(r) /\ UNCHANGED <<contents, drafts>>

\* Unique violation: "refusing to overwrite existing id", the command aborts.
ContentConflict(r) ==
  /\ At(r, "ingest")
  /\ ~Held(content, r)
  /\ want[r] \in Versions(contents, r.brief)
  /\ Rollback(r)
  /\ Discard(r)

\* providerArticleContents.listByArticleBrief: the committed rows and r's own.
ListContents(r) ==
  /\ At(r, "list")
  /\ sources' = [sources EXCEPT ![r] = {row.req : row \in Of(contents, r.brief)} \cup {r}]
  /\ Then(r, "compile")
  /\ UNCHANGED <<ledgerVars, contents, drafts, want, content, draft>>

\* Mutant: the version is the brief's highest, not the one after it.
ComputeHighestVersion(r) ==
  /\ At(r, "compile")
  /\ want' = [want EXCEPT ![r] = Highest(Versions(drafts, r.brief))]
  /\ Then(r, "insert")
  /\ UNCHANGED <<ledgerVars, contents, drafts, content, sources, draft>>

\* compileDraft: drafts.listByArticleBrief, then highest + 1.
ComputeDraftVersion(r) ==
  /\ At(r, "compile")
  /\ want' = [want EXCEPT ![r] = NextVersion(Versions(drafts, r.brief))]
  /\ Then(r, "insert")
  /\ UNCHANGED <<ledgerVars, contents, drafts, content, sources, draft>>

\* compileDraft: the draft is inserted, which ends the perform closure, unless
\* the index refuses the version.
InsertDraft(r) ==
  /\ At(r, "insert")
  /\ ~Held(draft, r)
  /\ IF want[r] \in Versions(drafts, r.brief)
     THEN Rollback(r) /\ Discard(r)
     ELSE /\ draft' = [draft EXCEPT ![r] = want[r]]
          /\ Then(r, "stored")
          /\ Perform(r)
          /\ UNCHANGED <<contents, drafts, want, content, sources>>

\* Mutant: a brief has one draft, which each compile overwrites.
PublishOverwriting(r) ==
  /\ contents' = contents \cup
       {[req |-> r, brief |-> r.brief, version |-> content[r]]}
  /\ drafts' = (drafts \ Of(drafts, r.brief)) \cup
       {[req |-> r, brief |-> r.brief, version |-> 1, sources |-> sources[r]]}
  /\ Forget(r)

NewContent(r) == [req |-> r, brief |-> r.brief, version |-> content[r]]
\* compileArticleDraft: the brief's draft, from the contents that were listed.
NewDraft(r) == [req |-> r, brief |-> r.brief, version |-> draft[r], sources |-> sources[r]]
\* COMMIT makes the content and the draft visible together.
Publish(r) ==
  /\ contents' = contents \cup {NewContent(r)}
  /\ drafts' = drafts \cup {NewDraft(r)}
  /\ Forget(r)

Compile(r) ==
  \/ ComputeContentVersion(r) \/ InsertContent(r) \/ ContentConflict(r)
  \/ ListContents(r)
  \/ ComputeDraftVersion(r) \/ InsertDraft(r)
Finish(r) ==
  \/ AppendAudit(r) /\ UNCHANGED compileVars
  \/ Commit(r) /\ Publish(r)
  \/ CommitUnacknowledged(r) /\ Publish(r)

Step(r) == (BeforePerform(r) /\ UNCHANGED compileVars) \/ Compile(r) \/ Finish(r)
Fail(r) == Rollback(r) /\ Discard(r)
Next ==
  \/ \E r \in Request : Step(r) \/ Fail(r)
  \/ Idle /\ UNCHANGED vars

Safety == Init /\ [][Next]_vars
Spec == Safety /\ \A r \in Request : WF_vars(Sent(r) /\ Step(r))

-----------------------------------------------------------------------------
TypeOK ==
  /\ LedgerTypeOK
  /\ contents \subseteq ContentRow
  /\ drafts \subseteq DraftRow
  /\ stage \in [Request -> Stages]
  /\ want \in [Request -> Nat]
  /\ content \in [Request -> Nat]
  /\ sources \in [Request -> SUBSET Request]
  /\ draft \in [Request -> Nat]

(***************************************************************************)
(* Each brief's drafts are numbered 1, 2, ... n without a gap or a repeat, *)
(* whatever raced, conflicted or rolled back.                              *)
(***************************************************************************)
VersionsContiguous ==
  \A b \in Brief :
    /\ Versions(drafts, b) = 1..Highest(Versions(drafts, b))
    /\ \A d, e \in Of(drafts, b) : d.version = e.version => d = e

(***************************************************************************)
(* A content row and a draft row of one compile are there together or not  *)
(* at all, and belong to a command that committed.                         *)
(***************************************************************************)
CompileIsAtomic ==
  /\ {c.req : c \in contents} = rows
  /\ {d.req : d \in drafts} = rows

(***************************************************************************)
(* Draft v of a brief is compiled from exactly the contents 1..v: it       *)
(* misses nothing ingested before it and includes nothing that came after. *)
(***************************************************************************)
SourcesComplete ==
  \A d \in drafts :
    d.sources = {c.req : c \in {c \in Of(contents, d.brief) : c.version <= d.version}}

(***************************************************************************)
(* Once its content is inserted a compile is alone on its brief until it   *)
(* commits or rolls back: the content's unique index, not the draft's,     *)
(* serializes compiles, so the list, the version and the draft are         *)
(* computed from a state no other compile can change.                      *)
(***************************************************************************)
Compiling(r) == InTx(r) /\ content[r] # 0
OneCompileAtATime ==
  \A r, s \in Request : Compiling(r) /\ Compiling(s) /\ r.brief = s.brief => r = s

(***************************************************************************)
(* The inductive invariant.  Contents and drafts of a brief are both       *)
(* numbered 1..n; an INSERT still to come has computed at most n + 1; and  *)
(* a row inserted and not committed is number n + 1, so it is alone.       *)
(***************************************************************************)
Committed(b) == Highest(Versions(contents, b))
TablesNumbered ==
  \A b \in Brief :
    /\ Committed(b) \in Nat
    /\ Versions(contents, b) = 1..Committed(b)
    /\ Versions(drafts, b) = 1..Committed(b)
RowsUnique ==
  /\ \A c, d \in contents : c.brief = d.brief /\ c.version = d.version => c = d
  /\ \A c, d \in drafts : c.brief = d.brief /\ c.version = d.version => c = d
Writing(r) == stage[r] \in {"list", "compile", "insert", "stored"}
WorkInStage ==
  \A r \in Request :
    /\ pc[r] \notin {"performing", "performed", "audited"} => stage[r] = "version"
    /\ pc[r] \in {"performed", "audited"} <=> stage[r] = "stored"
    /\ stage[r] = "ingest" => want[r] \in 1..(Committed(r.brief) + 1)
    /\ content[r] = IF Writing(r) THEN Committed(r.brief) + 1 ELSE 0
    /\ stage[r] \in {"compile", "insert", "stored"} =>
         sources[r] = {c.req : c \in Of(contents, r.brief)} \cup {r}
    /\ stage[r] = "insert" => want[r] = Committed(r.brief) + 1
    /\ draft[r] = IF stage[r] = "stored" THEN Committed(r.brief) + 1 ELSE 0
WritersAlone ==
  \A r, s \in Request : Writing(r) /\ Writing(s) /\ r.brief = s.brief => r = s
CompileInv ==
  /\ TypeOK
  /\ LedgerInv
  /\ TablesNumbered
  /\ RowsUnique
  /\ CompileIsAtomic
  /\ SourcesComplete
  /\ WorkInStage
  /\ WritersAlone

(***************************************************************************)
(* The compiler implements the append-only draft history.                  *)
(***************************************************************************)
DraftNumbered(table, b, v) == CHOOSE d \in table : d.brief = b /\ d.version = v
HistoryOf(table, b) ==
  [v \in 1..Highest(Versions(table, b)) |-> DraftNumbered(table, b, v).req]
History == INSTANCE DraftHistory
  WITH Author <- Request, history <- [b \in Brief |-> HistoryOf(drafts, b)]
DraftHistoryOnlyGrows == History!Spec

(***************************************************************************)
(* Every compile that is sent is answered: waiting on another              *)
(* transaction's uncommitted version, or for its connection, ends, for its *)
(* holder always can finish.                                               *)
(***************************************************************************)
EveryCompileAnswered == []<>Idle
=============================================================================
