-------------------------- MODULE ArticlePublishing --------------------------
(***************************************************************************)
(* From a compiled draft to its delivery.                                  *)
(*                                                                         *)
(*   approve   POST /api/article-drafts/[id]/reviews: the three gates, and *)
(*             an ArticleApproval when all of them passed                  *)
(*   package   POST /api/publish-packages: PublishPackage and its          *)
(*             channel-neutral package                                     *)
(*   plan      POST /api/distribution-plans: the chosen channels           *)
(*   receipt   POST /api/publication-receipts: receipt and delivery        *)
(*   gate      POST /api/article-drafts/[id]/run-gate: the gates alone     *)
(*                                                                         *)
(* The first four are write commands; what they insert is named by their   *)
(* request and is in rows once committed.  run-gate opens no transaction:  *)
(* its three evaluations run concurrently over the pool, each statement    *)
(* committed by itself, and go on after the answer when one of them fails. *)
(* The pages (geo-read-repository.ts), the delivery centre and the detail  *)
(* of a draft, read the tables one statement after the other, outside a    *)
(* transaction, while all this runs.  The list of briefs is not one of     *)
(* them: its statements bind a list of ids as the list of parameters and   *)
(* fail as soon as the project has a brief.                                *)
(***************************************************************************)
EXTENDS WriteCommand

CONSTANTS
  Draft,      \* drafts, records of what the gates look at
  Channel,    \* channels a plan may name
  Automatic   \* FORBIDDEN_AUTOMATIC_ACTOR_IDS
\* Requests also have fields kind, draft of an approve or gate, of (the request
\* whose row is cited) of the others, channels of a plan, channel and by of a
\* receipt.
ASSUME PublishingAssumption ==
  \A r \in Request :
    /\ r.kind \in {"approve", "package", "plan", "receipt", "gate"}
    /\ r.kind \in {"approve", "gate"} => r.draft \in Draft
    /\ r.kind = "package" => r.of.kind = "approve"
    /\ r.kind = "plan" => r.of.kind = "package" /\ r.channels \in (SUBSET Channel) \ {{}}
    /\ r.kind = "receipt" => r.of.kind = "plan" /\ r.channel \in Channel

VARIABLES
  gates,   \* committed quality, platform and vertical gate results
  chain,   \* committed rows of the five tables from article_approval to delivery
  held,    \* held[r]: gate results in r's uncommitted transaction
  branch,  \* branch[r][g]: where run-gate r is with gate g
  page     \* a page: its kind, the facts read so far, and what it showed

publishingVars == <<gates, chain, held, branch, page>>
vars == <<ledgerVars, publishingVars>>

Gate == {"quality", "platform", "vertical"}
Stages == {"evaluate", "emit", "evaluated", "stored", "duplicate", "failed"}
Actor ==
  {r.actor : r \in Request} \cup {r.by : r \in {q \in Request : q.kind = "receipt"}}
GateResult == [req: Request, draft: Draft, gate: Gate, passed: BOOLEAN]
Statuses == 0..3  \* IN_PRODUCTION, IN_REVIEW, APPROVED, DELIVERED
ApprovalRow ==
  [table: {"approval"}, req: Request, draft: Draft, by: Actor, gates: SUBSET GateResult]
PackageRow == [table: {"package"}, req: Request, of: Request, draft: Draft]
\* "Zero by construction": no channel is chosen for a content package.
ChannelNeutralRow == [table: {"neutral"}, req: Request, of: Request, channels: {{}}]
PlanRow == [table: {"plan"}, req: Request, of: Request, channels: (SUBSET Channel) \ {{}}]
ReceiptRow == [table: {"receipt"}, req: Request, of: Request, channel: Channel, by: Actor]
DeliveryRow == [table: {"delivery"}, req: Request, of: Request, plan: Request]
Pages == {"centre", "detail"}
Shown == 4
Page == [kind: Pages, read: 0..Shown, approved: SUBSET Draft, inReview: SUBSET Draft,
         since: [Draft -> Statuses], shown: [Draft -> Statuses]]

PassesQuality(d) == d.sections /\ d.headings /\ d.planned /\ d.sources
PassesPlatform(d) == d.sources /\ d.title
PassesVertical(d) == d.sections
Passes(d, g) ==
  \/ g = "quality"  /\ PassesQuality(d)
  \/ g = "platform" /\ PassesPlatform(d)
  \/ g = "vertical" /\ PassesVertical(d)
Result(r, g) == [req |-> r, draft |-> r.draft, gate |-> g, passed |-> Passes(r.draft, g)]

\* What each command inserts; every row cites, in "of", the request whose row it
\* is made from, and a package carries the draft of its approval forward.
Rows(table) == {x \in chain : x.table = table}
NewApproval(r) ==
  {[table |-> "approval", req |-> r, draft |-> r.draft, by |-> r.actor, gates |-> held[r]]}
NewPackage(r) ==
  {[table |-> "package", req |-> r, of |-> a.req, draft |-> a.draft] :
     a \in {x \in Rows("approval") : x.req = r.of}}
NewChannelNeutral(r) ==
  {[table |-> "neutral", req |-> r, of |-> r, channels |-> {}]}
NewPlan(r) ==
  {[table |-> "plan", req |-> r, of |-> n.req, channels |-> r.channels] :
     n \in {x \in Rows("neutral") : x.req = r.of}}
NewReceipt(r) ==
  {[table |-> "receipt", req |-> r, of |-> l.req, channel |-> r.channel, by |-> r.by] :
     l \in {x \in Rows("plan") : x.req = r.of}}
NewDelivery(r) == {[table |-> "delivery", req |-> r, of |-> r, plan |-> r.of]}
Added(r) ==
  CASE r.kind = "approve" -> NewApproval(r)
    [] r.kind = "package" -> NewPackage(r) \cup NewChannelNeutral(r)
    [] r.kind = "plan"    -> NewPlan(r)
    [] r.kind = "receipt" -> NewReceipt(r) \cup NewDelivery(r)

\* delivery, receipt, plan, channel-neutral package, package: the read side's join.
Delivered ==
  {p.draft : p \in {x \in Rows("package") :
     \E n \in Rows("neutral"), l \in Rows("plan"), t \in Rows("receipt"), d \in Rows("delivery") :
       d.of = t.req /\ d.plan = l.req /\ l.of = n.req /\ n.of = x.req}}
Approved == {a.draft : a \in Rows("approval")}
Gated == {x.draft : x \in gates}
Status(d) ==
  IF d \in Delivered THEN 3 ELSE IF d \in Approved THEN 2 ELSE IF d \in Gated THEN 1 ELSE 0

Blank(kind) ==
  [kind |-> kind, read |-> 0, approved |-> {}, inReview |-> {},
   since |-> [d \in Draft |-> 0], shown |-> [d \in Draft |-> 0]]
Init ==
  /\ LedgerInit
  /\ gates = {}
  /\ chain = {}
  /\ held = [r \in Request |-> {}]
  /\ branch = [r \in Request |-> [g \in Gate |-> "evaluate"]]
  /\ \E kind \in Pages : page = Blank(kind)

-----------------------------------------------------------------------------
\* The route reads the cited row first, for its tenant: none, no command.
Found(r) == r.kind \in {"approve", "gate"} \/ \E x \in chain : x.req = r.of
Route(r) ==
  /\ IF pc[r] = "unsent" /\ ~Found(r) THEN Refuse(r) ELSE BeforePerform(r)
  /\ r.kind = "gate" => pc[r] = "unsent"
  /\ UNCHANGED publishingVars

Performing(r, kind) == pc[r] = "performing" /\ r.kind = kind
Abort(r) ==
  /\ Rollback(r)
  /\ held' = [held EXCEPT ![r] = {}]
  /\ UNCHANGED <<gates, chain, branch, page>>

\* Mutant: the gate repositories are bound to the pool, not to the transaction.
EvaluateOnThePool(r, g) ==
  /\ Performing(r, "approve")
  /\ Result(r, g) \notin gates
  /\ gates' = gates \cup {Result(r, g)}
  /\ held' = [held EXCEPT ![r] = @ \cup {Result(r, g)}]
  /\ UNCHANGED <<ledgerVars, chain, branch, page>>

\* One gate evaluated and its result inserted: quality, platform, vertical.
Evaluate(r, g) ==
  /\ Performing(r, "approve")
  /\ g = CASE Cardinality(held[r]) = 0 -> "quality"
           [] Cardinality(held[r]) = 1 -> "platform"
           [] OTHER -> "vertical"
  /\ Result(r, g) \notin held[r]
  /\ held' = [held EXCEPT ![r] = @ \cup {Result(r, g)}]
  /\ UNCHANGED <<ledgerVars, gates, chain, branch, page>>

\* Mutant: the gates are evaluated and not looked at.
ApproveUnconditionally(r) ==
  /\ Performing(r, "approve")
  /\ Cardinality(held[r]) = 3
  /\ Perform(r)
  /\ UNCHANGED publishingVars

\* approveArticle, when none of the three failed; else nothing is kept.
Approve(r) ==
  /\ Performing(r, "approve")
  /\ Cardinality(held[r]) = 3
  /\ IF \A x \in held[r] : x.passed
     THEN Perform(r) /\ UNCHANGED publishingVars
     ELSE Abort(r)

\* createPublishPackage and createChannelNeutralPackage: both or neither.
BuildPackage(r) ==
  /\ Performing(r, "package")
  /\ Perform(r)
  /\ UNCHANGED publishingVars

\* createDistributionPlan, for whatever channels were chosen.
CreatePlan(r) ==
  /\ Performing(r, "plan")
  /\ Perform(r)
  /\ UNCHANGED publishingVars

\* Mutant: the receipt is recorded for whatever channel is named.
RecordAnyReceipt(r) ==
  /\ Performing(r, "receipt")
  /\ IF r.by \notin Automatic
     THEN Perform(r) /\ UNCHANGED publishingVars
     ELSE Abort(r)

\* recordPublicationReceipt: a channel of the plan, by no automatic actor.
RecordReceipt(r) ==
  /\ Performing(r, "receipt")
  /\ IF r.channel \in r.of.channels /\ r.by \notin Automatic
     THEN Perform(r) /\ UNCHANGED publishingVars
     ELSE Abort(r)

Finish(r) ==
  \/ AppendAudit(r) /\ UNCHANGED publishingVars
  \/ /\ Commit(r) \/ CommitUnacknowledged(r)
     /\ gates' = gates \cup held[r]
     /\ chain' = chain \cup Added(r)
     /\ held' = [held EXCEPT ![r] = {}]
     /\ UNCHANGED <<branch, page>>

-----------------------------------------------------------------------------
\* run-gate: its statements wait for a connection of the pool each.  When one
\* rejects its Promise.all and the client is answered, the others still run.
Running(r) ==
  /\ r.kind = "gate"
  /\ free > 0
  /\ \/ pc[r] = "authorized"
     \/ pc[r] = "answered" /\ \E g \in Gate : branch[r][g] \in {"failed", "duplicate"}
AllEvaluated(r) == \A g \in Gate : branch[r][g] \notin {"evaluate", "emit", "failed"}
MoveTo(r, g, stage) == branch' = [branch EXCEPT ![r] = [@ EXCEPT ![g] = stage]]

\* infra.audit.record: the gate's own event, its second statement.
EmitAudit(r, g) ==
  /\ Running(r) /\ branch[r][g] = "emit"
  /\ MoveTo(r, g, "evaluated")
  /\ UNCHANGED <<ledgerVars, gates, chain, held, page>>

EvaluateGate(r, g) ==
  /\ Running(r) /\ branch[r][g] = "evaluate"
  /\ gates' = gates \cup {Result(r, g)}
  /\ MoveTo(r, g, "emit")
  /\ UNCHANGED <<ledgerVars, chain, held, page>>

\* The second Promise.all adds the three results by their ids again.
AddAgain(r, g) ==
  /\ Running(r) /\ branch[r][g] = "evaluated"
  /\ AllEvaluated(r)
  /\ IF Result(r, g) \in gates
     THEN MoveTo(r, g, "duplicate") /\ UNCHANGED gates
     ELSE MoveTo(r, g, "stored") /\ gates' = gates \cup {Result(r, g)}
  /\ UNCHANGED <<ledgerVars, chain, held, page>>

\* A statement fails, the INSERT before or after the server applied it.
StatementFails(r, g) ==
  /\ Running(r)
  /\ \/ branch[r][g] \in {"evaluate", "emit"}
     \/ branch[r][g] = "evaluated" /\ AllEvaluated(r)
  /\ MoveTo(r, g, "failed")
  /\ gates' \in {gates, gates \cup {Result(r, g)}}
  /\ UNCHANGED <<ledgerVars, chain, held, page>>

\* All six are done, or one has rejected: the results, or a 500.
AnswerGates(r) ==
  /\ r.kind = "gate" /\ pc[r] = "authorized"
  /\ LET stored == \A g \in Gate : branch[r][g] = "stored" IN
     /\ stored \/ \E g \in Gate : branch[r][g] \in {"failed", "duplicate"}
     /\ Tell(r, IF stored THEN "created" ELSE "error", {})
  /\ UNCHANGED <<free, clock, began, tx, rows, audit, overlap, publishingVars>>

RunGate(r, g) ==
  \/ EvaluateGate(r, g) \/ EmitAudit(r, g) \/ AddAgain(r, g) \/ StatementFails(r, g)

-----------------------------------------------------------------------------
(* The pages' statements, in their order; each shows every draft.          *)

Reading(kind, n) == page.kind = kind /\ page.read = n
Nobody == UNCHANGED <<ledgerVars, gates, chain, held, branch>>
\* A page's first statement notes, for the properties, where the drafts were.
First == [page EXCEPT !.read = 1, !.since = [d \in Draft |-> Status(d)]]
\* deriveArticleDeliveryStatus.
Show(delivered, approved, inReview) ==
  page' = [page EXCEPT !.read = Shown, !.approved = {}, !.inReview = {}, !.shown =
    [d \in Draft |-> IF d \in delivered THEN 3
                     ELSE IF d \in approved THEN 2
                     ELSE IF d \in inReview THEN 1
                     ELSE 0]]

\* The delivery centre: the approvals, the gates, the deliveries.
ReadApprovals ==
  /\ Reading("centre", 0)
  /\ page' = [First EXCEPT !.approved = Approved]
  /\ Nobody

\* Mutant: the UNION lost two of its tables.
ReadQualityGates ==
  /\ Reading("centre", 1)
  /\ page' = [page EXCEPT !.read = 2,
                          !.inReview = {x.draft : x \in {y \in gates : y.gate = "quality"}}]
  /\ Nobody

ReadGates ==
  /\ Reading("centre", 1)
  /\ page' = [page EXCEPT !.read = 2, !.inReview = Gated]
  /\ Nobody

\* The join from delivery back to the draft.
ReadDeliveries ==
  /\ Reading("centre", 2)
  /\ Show(Delivered, page.approved, page.inReview)
  /\ Nobody

\* The detail of a draft: a gate's latest result after the other's, then the approval.
ReadDetailGate ==
  /\ \E n \in 0..2 :
       LET gate == <<"quality", "platform", "vertical">>[n + 1] IN
       /\ Reading("detail", n)
       /\ page' = [IF n = 0 THEN First ELSE page EXCEPT
                      !.read = n + 1,
                      !.inReview = @ \cup {x.draft : x \in {y \in gates : y.gate = gate}}]
  /\ Nobody
ReadDetailApproval ==
  /\ Reading("detail", 3)
  /\ Show({}, Approved, page.inReview)
  /\ Nobody

\* The next visit, of any page.
Reload ==
  /\ page.read = Shown
  /\ \E kind \in Pages : page' = Blank(kind)
  /\ Nobody

ReadPage ==
  \/ ReadApprovals \/ ReadGates \/ ReadDeliveries
  \/ ReadDetailGate \/ ReadDetailApproval
  \/ Reload

Step(r) ==
  \/ Route(r) \/ Approve(r) \/ BuildPackage(r) \/ CreatePlan(r)
  \/ RecordReceipt(r) \/ Finish(r)
  \/ AnswerGates(r)
  \/ \E g \in Gate : Evaluate(r, g) \/ RunGate(r, g)
Next == ReadPage \/ \E r \in Request : Step(r) \/ Abort(r)
Spec == Init /\ [][Next]_vars

-----------------------------------------------------------------------------
TypeOK ==
  /\ LedgerTypeOK
  /\ gates \subseteq GateResult
  /\ \A x \in chain :
       \/ x \in ApprovalRow \/ x \in PackageRow \/ x \in ChannelNeutralRow
       \/ x \in PlanRow \/ x \in ReceiptRow \/ x \in DeliveryRow
  /\ held \in [Request -> SUBSET GateResult]
  /\ branch \in [Request -> [Gate -> Stages]]
  /\ page \in Page

(***************************************************************************)
(* article-drafts/[id]/reviews: an approval's three gates are committed    *)
(* with it and passed; a refused, failed or interrupted approval leaves    *)
(* not even its gates ("NO auto-approve: a failed gate blocks approval     *)
(* ...; nothing is written").                                              *)
(***************************************************************************)
ApprovedWithItsGates ==
  \A r \in Request : r.kind = "approve" =>
    {x \in gates : x.req = r} =
      IF r \in rows THEN [req: {r}, draft: {r.draft}, gate: Gate, passed: {TRUE}] ELSE {}

(***************************************************************************)
(* SYSTEM_INVARIANTS_V1, "Publication": what is delivered was published to *)
(* a channel somebody chose, by nobody automatic, from a package of an     *)
(* approval whose draft passes every gate, and each of these was committed *)
(* and audited before.                                                     *)
(***************************************************************************)
DeliveredThroughTheChain ==
  /\ TypeOK
  /\ \A t \in Rows("receipt") :
       /\ t.by \notin Automatic
       /\ \E d \in Rows("delivery") : d.of = t.req /\ d.plan = t.of
       /\ \E l \in Rows("plan"), n \in Rows("neutral"), p \in Rows("package"),
             a \in Rows("approval") :
            /\ t.of = l.req /\ l.of = n.req /\ n.of = p.req /\ p.of = a.req
            /\ t.channel \in l.channels
            /\ a.draft = p.draft
            /\ a.gates \subseteq gates
            /\ {g.gate : g \in a.gates} = Gate /\ \A g \in a.gates : g.passed
            /\ \A e \in {t.req, l.req, p.req, a.req} : Allowed(e) = {AllowedEvent(e)}

(***************************************************************************)
(* A page reads its tables by several statements while they change: it     *)
(* still shows each draft a status no older than the one it had when the   *)
(* page began, and none it has not reached; so a page never shows less     *)
(* than the page before it.  Only the delivery centre tells what is        *)
(* delivered from what is approved.                                        *)
(***************************************************************************)
PageIsCurrent ==
  LET told(status) == IF page.kind # "centre" /\ status = 3 THEN 2 ELSE status IN
  page.read = Shown =>
    \A d \in Draft : told(page.since[d]) <= page.shown[d] /\ page.shown[d] <= Status(d)

=============================================================================
