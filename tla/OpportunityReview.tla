-------------------------- MODULE OpportunityReview --------------------------
(***************************************************************************)
(* Human review of opportunities, and the families it authorizes.          *)
(*                                                                         *)
(* POST /api/opportunities/[id]/reviews records a decision on the          *)
(* opportunity's one validation.  A client loads a view first (views.ts):  *)
(* it carries a review reference only while the review is open, and the    *)
(* number of decisions recorded so far, which the command re-checks        *)
(* (reviewVersion, optimistic concurrency).  Internal callers send none.   *)
(*                                                                         *)
(* POST /api/opportunity-families groups opportunities, each of which must *)
(* cite an APPROVED decision of its own; POST /api/article-briefs makes a  *)
(* brief of a family, which carries the ids of those decisions forward.    *)
(*                                                                         *)
(* Decisions are append-only: rows of human_review_decision are read in    *)
(* the order of decided_at, the server's clock when the service ran.       *)
(***************************************************************************)
EXTENDS WriteCommand, Sequences

CONSTANT Opportunity
\* Requests also have fields id, kind ("decide", "family" or "brief"), opp,
\* decision and versioned of a decision, members (a sequence of [opp, decision])
\* of a family, family (its id) of a brief.
Member == [opp: Opportunity, decision: Nat]
ASSUME ReviewAssumption ==
  \A r \in Request :
    /\ r.kind = "decide" => r.opp \in Opportunity
    /\ r.kind = "family" => r.id \in Nat /\ r.members \in Seq(Member) \ {<<>>}

VARIABLES
  decisions,  \* committed human_review_decision rows
  families,   \* committed opportunity_family rows with their members
  briefs,     \* committed article_brief rows
  version,    \* version[r]: the reviewVersion r's client has read
  next,       \* next[r]: how many of perform's checks r has passed, plus one
  stamp,      \* stamp[r]: decidedAt of r's uncommitted decision, 0 when none
  now         \* the server's clock: decisions stamped so far

reviewVars == <<decisions, families, briefs, version, next, stamp, now>>
vars == <<ledgerVars, reviewVars>>

NotLoaded == -1
NoVersion == -2
Statuses == {"APPROVED", "CHANGES_REQUESTED", "REJECTED"}
\* CONFIRMED is the one that approves; what is DEFERRED is held as REJECTED.
StatusOf(r) ==
  CASE r.decision = "CONFIRMED" -> "APPROVED"
    [] r.decision = "CHANGES_REQUESTED" -> "CHANGES_REQUESTED"
    [] OTHER -> "REJECTED"
Decision == [req: Request, opp: Opportunity, status: Statuses, at: Nat, version: Int]
BriefRow == [req: Request, family: Nat, authorizedBy: (SUBSET Nat) \ {{}}]

Init ==
  /\ LedgerInit
  /\ decisions = {}
  /\ families = {}
  /\ briefs = {}
  /\ version = [r \in Request |->
       IF r.kind = "decide" /\ r.versioned THEN NotLoaded ELSE NoVersion]
  /\ next = [r \in Request |-> 1]
  /\ stamp = [r \in Request |-> 0]
  /\ now = 0

On(o) == {d \in decisions : d.opp = o}
Latest(o) == CHOOSE d \in On(o) : \A e \in On(o) : e.at <= d.at
\* buildReviewReference: pending, or changes were requested.
Reviewable(o) == On(o) # {} => Latest(o).status = "CHANGES_REQUESTED"

\* The client's page: the review reference and the decisions recorded so far.
Load(r) ==
  /\ pc[r] = "unsent"
  /\ version[r] = NotLoaded
  /\ Reviewable(r.opp)
  /\ version' = [version EXCEPT ![r] = Cardinality(On(r.opp))]
  /\ UNCHANGED <<ledgerVars, decisions, families, briefs, next, stamp, now>>

\* A closed review offers no control: nothing is sent.
NotOffered(r) ==
  /\ pc[r] = "unsent"
  /\ version[r] = NotLoaded
  /\ ~Reviewable(r.opp)
  /\ Tell(r, "refused", {})
  /\ UNCHANGED <<free, clock, began, tx, rows, audit, overlap, reviewVars>>

\* getById of the family a brief is made of, with its members.
FamilyOf(r) == {f \in families : f.id = r.family}

\* The route, once the client has what it sends (a forged reference code or a
\* missing note is Refuse); a brief's needs its family.
Route(r) ==
  /\ version[r] # NotLoaded
  /\ IF pc[r] = "unsent" /\ r.kind = "brief" /\ FamilyOf(r) = {}
     THEN Refuse(r)
     ELSE BeforePerform(r)
  /\ UNCHANGED reviewVars

\* Nothing of perform's remains when the transaction is gone.
Forget(r) ==
  /\ next' = [next EXCEPT ![r] = 1]
  /\ stamp' = [stamp EXCEPT ![r] = 0]
  /\ UNCHANGED <<version, now>>
Abort(r) ==
  /\ Rollback(r)
  /\ Forget(r)
  /\ UNCHANGED <<decisions, families, briefs>>
Pass(r) ==
  /\ next' = [next EXCEPT ![r] = @ + 1]
  /\ UNCHANGED <<ledgerVars, decisions, families, briefs, version, stamp, now>>

Deciding(r) == pc[r] = "performing" /\ r.kind = "decide"
Grouping(r) == pc[r] = "performing" /\ r.kind = "family"

\* Mutant: the count is not compared.
CheckNoVersion(r) == Deciding(r) /\ next[r] = 1 /\ Pass(r)

\* listByScope, counted for the validation and compared with reviewVersion.
CheckVersion(r) ==
  /\ Deciding(r)
  /\ next[r] = 1
  /\ IF version[r] \in {NoVersion, Cardinality(On(r.opp))} THEN Pass(r) ELSE Abort(r)

\* confirm, requestChanges or reject: decidedAt is read, the row is inserted.
Decide(r) ==
  /\ Deciding(r)
  /\ next[r] = 2
  /\ now' = now + 1
  /\ stamp' = [stamp EXCEPT ![r] = now']
  /\ Perform(r)
  /\ UNCHANGED <<decisions, families, briefs, version, next>>

\* Mutant: any decision of the opportunity will do.
AuthorizesAny(m) == \E d \in On(m.opp) : d.req.id = m.decision

\* getById finds the decision, APPROVED and of the member's opportunity.
Authorizes(m) ==
  \E d \in decisions :
    d.req.id = m.decision /\ d.status = "APPROVED" /\ d.opp = m.opp

\* createFamily's loop, one member at a time.
CheckMember(r) ==
  /\ Grouping(r)
  /\ next[r] <= Len(r.members)
  /\ IF Authorizes(r.members[next[r]]) THEN Pass(r) ELSE Abort(r)

\* Mutant: the repository opens a transaction of its own for the family.
InsertFamilyApart(r) ==
  /\ Grouping(r)
  /\ next[r] = Len(r.members) + 1
  /\ families' = families \cup {r}
  /\ Perform(r)
  /\ UNCHANGED <<decisions, briefs, version, next, stamp, now>>

\* families.add: the family and its members, in the command's transaction; an
\* opportunity named twice breaks uq_ofm_opportunity.
InsertFamily(r) ==
  /\ Grouping(r)
  /\ next[r] = Len(r.members) + 1
  /\ IF \E i, j \in 1..Len(r.members) : i # j /\ r.members[i].opp = r.members[j].opp
     THEN Abort(r)
     ELSE Perform(r) /\ UNCHANGED reviewVars

\* createBrief: the family is read again, and is there as it was.
InsertBrief(r) ==
  /\ pc[r] = "performing" /\ r.kind = "brief"
  /\ IF FamilyOf(r) = {} THEN Abort(r) ELSE Perform(r) /\ UNCHANGED reviewVars

DecisionOf(r) ==
  [req |-> r, opp |-> r.opp, status |-> StatusOf(r), at |-> stamp[r], version |-> version[r]]
BriefOf(r, f) ==
  [req |-> r, family |-> f.id, authorizedBy |-> {f.members[i].decision : i \in DOMAIN f.members}]
AddedBriefs(r) ==
  IF r.kind = "brief" THEN {BriefOf(r, f) : f \in FamilyOf(r)} ELSE {}
Wrote(r, kind) == {r} \cap {q \in Request : q.kind = kind}
\* COMMIT shows the decision, the family with all its members, or the brief.
Publish(r) ==
  /\ decisions' = decisions \cup {DecisionOf(q) : q \in Wrote(r, "decide")}
  /\ families' = families \cup Wrote(r, "family")
  /\ briefs' = briefs \cup AddedBriefs(r)
  /\ Forget(r)

Step(r) ==
  \/ Load(r) \/ NotOffered(r) \/ Route(r)
  \/ CheckVersion(r) \/ Decide(r)
  \/ CheckMember(r) \/ InsertFamily(r) \/ InsertBrief(r)
  \/ AppendAudit(r) /\ UNCHANGED reviewVars
  \/ (Commit(r) \/ CommitUnacknowledged(r)) /\ Publish(r)
Next ==
  \/ \E r \in Request : Step(r) \/ Abort(r)
  \/ Idle /\ UNCHANGED vars
Spec == Init /\ [][Next]_vars

-----------------------------------------------------------------------------
TypeOK ==
  /\ LedgerTypeOK
  /\ decisions \subseteq Decision
  /\ families \subseteq Request
  /\ briefs \subseteq BriefRow
  /\ version \in [Request -> Nat \cup {NotLoaded, NoVersion}]
  /\ next \in [Request -> Nat \ {0}]
  /\ stamp \in [Request -> 0..now]
  /\ now \in Nat

Versioned(d) == d.version # NoVersion
Before(d) == {e \in On(d.opp) : e.at < d.at}
Contested(d) == {e \in On(d.opp) : Raced(e.req, d.req)}

(***************************************************************************)
(* reviews/route.ts:169, "inside the transaction, so no TOCTOU race", as   *)
(* far as it holds: the version a decision carries counts every decision   *)
(* made before its transaction began, and none made after it ended.        *)
(***************************************************************************)
RecordedAtItsVersion ==
  /\ TypeOK
  /\ \A d \in decisions :
       Versioned(d) =>
         /\ Cardinality(Before(d) \ Contested(d)) <= d.version
         /\ d.version <= Cardinality(Before(d) \cup Contested(d))

(***************************************************************************)
(* A client's decision that closes the review, and that no other           *)
(* transaction contested, is the last one the clients record: their pages  *)
(* no longer offer it, and those loaded before are out of date.            *)
(***************************************************************************)
ClosedReviewStaysClosed ==
  \A d \in decisions :
    /\ d.status # "CHANGES_REQUESTED"
    /\ Contested(d) = {}
    /\ \A e \in On(d.opp) : Versioned(e)
    => \A e \in On(d.opp) : e.at <= d.at

(***************************************************************************)
(* No opportunity is in a family without an approval of its own, also when *)
(* the family was built while its decisions were being made; a family is   *)
(* there exactly when its command was audited; and what a brief carries    *)
(* forward are approvals of the members of a committed family.             *)
(***************************************************************************)
FamiliesAreAuthorized ==
  /\ \A f \in families : \A i \in DOMAIN f.members :
       \E d \in decisions :
         /\ d.req.id = f.members[i].decision
         /\ d.opp = f.members[i].opp
         /\ d.status = "APPROVED"
  /\ \A r \in Request : r.kind = "family" => (r \in families <=> Allowed(r) # {})
  /\ \A b \in briefs : \E f \in families :
       /\ f.id = b.family
       /\ \A i \in DOMAIN f.members : \E d \in decisions :
            d.req.id \in b.authorizedBy /\ d.opp = f.members[i].opp /\ d.status = "APPROVED"

=============================================================================
