------------------------------ MODULE Workspace ------------------------------
(***************************************************************************)
(* Pages of the workspaces in a browser, beside one another: the client's  *)
(* list of opportunities with a review control in each row                 *)
(* (app/app/content) and its knowledge package with the confirmation       *)
(* (KnowledgePackageDetailView), made of the two hooks useAsyncData and    *)
(* useWriteAction; the agency's review queue (app/agency/review-queue) and *)
(* its list of clients (app/agency/clients), which load with the first     *)
(* hook and write with handlers of their own.                              *)
(*                                                                         *)
(* A page asks for its rows when it is mounted and at each reload; every   *)
(* request is a call of its own, answered whenever the server and the      *)
(* network please, or never heard of again: the fetch is rejected, while   *)
(* the server may still be about to carry it out.  A reload takes effect   *)
(* in two steps: the state is cleared by the handler, and the effect that  *)
(* forgets the load under way and starts the next runs after the render.   *)
(* What lists the rows' controls unmounts them; their calls go on.         *)
(***************************************************************************)
EXTENDS Integers, Sequences, FiniteSetsExt

CONSTANTS
  Meetings,      \* sets of pages that may be open together
  Opportunity,
  Package,
  Client,        \* the clients the agency is assigned to
  NoClient,
  Decision,      \* the decisions that are clicked
  MaxMishaps     \* bound: calls that are lost or that the server fails
\* Pages have fields kind and loads, the bound of their loads; of the agency's list of
\* clients, one is open.
ASSUME WorkspaceAssumption ==
  /\ Decision \subseteq {"CONFIRMED", "CHANGES_REQUESTED", "DEFERRED"}
  /\ MaxMishaps \in Nat /\ NoClient \notin Client /\ Opportunity \cap Package = {}
  /\ \A M \in Meetings : \A p \in M :
       /\ p.kind \in {"content", "package", "queue", "clients"} /\ p.loads \in Nat \ {0}
       /\ \A q \in M \ {p} : p.kind = "clients" => q.kind # "clients"

VARIABLES
  decided,  \* decided[o]: the decisions recorded on o, oldest first; or that it is
            \* confirmed, of a package
  calls,    \* the calls that are under way
  nonce,    \* nonce[p]: loads p has asked for
  gen,      \* gen[p]: the load whose effect is active
  visit,    \* visit[p]: p's first load since it was last mounted
  shown,    \* shown[p]: what the page shows: its rows, or why there are none
  control,  \* control[p][x]: state of the control in row x, while there are rows
  acting,   \* the agency shell's acting-context store: the banner
  mishaps,
  acked,    \* history: acked[p][o]: the decisions on o that p was told of
  choice    \* history: the last client chosen, and how that ended
pagesVars == <<decided, calls, nonce, gen, visit, shown, control, acting, mishaps, acked, choice>>

Page == DOMAIN nonce
Loading == [status |-> "loading"]
Failure(status) == [kind |-> "failure", status |-> status]
Success(rows) == [status |-> "success", rows |-> rows]
HasRows(p) == shown[p].status = "success"
Subject == Opportunity \cup Package
ListRow == Subject \cup Client
\* The pages made of both hooks.
Hooked(p) == p.kind \in {"content", "package"}
AllIdle == [x \in ListRow |-> "idle"]
NoVersion == -1
Unanswered == [kind |-> "none"]

Load(p, g) == [kind |-> "load", page |-> p, gen |-> g, lost |-> FALSE, reply |-> Unanswered]

PagesInit ==
  \E M \in Meetings :
    /\ decided = [o \in Subject |-> <<>>]
    /\ nonce = [p \in M |-> 1]
    /\ gen = nonce /\ visit = nonce
    /\ calls = {Load(p, 1) : p \in M}
    /\ shown = [p \in M |-> Loading]
    /\ control = [p \in M |-> AllIdle]
    /\ acting = NoClient
    /\ mishaps = 0
    /\ acked = [p \in M |-> [o \in Subject |-> 0]]
    /\ choice = [client |-> NoClient, outcome |-> "none", alone |-> TRUE]

\* Every call that may reload the page still can.
Reloading(p) == {c \in calls : c.page = p /\ c.kind = "decide" /\ Hooked(p)}
Budget(p) == nonce[p] + Cardinality(Reloading(p)) < p.loads
Mounted(c) == c.gen >= visit[c.page]
\* The control that made the call is still there.
Alive(c) == c.gen = gen[c.page] /\ HasRows(c.page)

-----------------------------------------------------------------------------
(* The server.                                                             *)

LatestDecision(o) == decided[o][Len(decided[o])]
\* buildReviewReference.
Reviewable(o) == decided[o] # <<>> => LatestDecision(o) = "CHANGES_REQUESTED"
\* toOpportunityViews, of the client's first project.
Opportunities == [o \in Opportunity |-> [version |-> Len(decided[o]), open |-> Reviewable(o)]]
\* The readiness of the package; a confirmed one shows no action.
Readiness == [k \in Package |-> [version |-> Len(decided[k]), open |-> decided[k] = <<>>]]
\* toReviewQueueViews, of every project of the agency's, each by a GET of its own;
\* the first that fails fails them all.
ReviewQueue ==
  [o \in {o \in Opportunity : decided[o] = <<>>} |-> [version |-> 0, open |-> TRUE]]
\* listAgencyClients.
Portfolio == [x \in Client |-> [version |-> 0, open |-> TRUE]]
RowsFor(kind) ==
  CASE kind = "content" -> Opportunities
    [] kind = "package" -> Readiness
    [] kind = "queue" -> ReviewQueue
    [] kind = "clients" -> Portfolio

\* The reply travels to the page, if it still listens.
Reply(c, r) ==
  calls' = (calls \ {c}) \cup (IF c.lost THEN {} ELSE {[c EXCEPT !.reply = r]})
Waiting(c) == c.reply = Unanswered
ServerOnly == UNCHANGED <<nonce, gen, visit, shown, control, acting, mishaps, acked, choice>>

\* The GETs of a load.  One that fails fails the load.
Read(c) ==
  /\ c.kind = "load" /\ Waiting(c)
  /\ Reply(c, [kind |-> "rows", rows |-> RowsFor(c.page.kind)])
  /\ UNCHANGED decided /\ ServerOnly

\* POST .../reviews up to its insert: the note, which the queue has no field
\* for, and the version, which the queue does not send.
CheckReview(c) ==
  /\ c.kind = "decide" /\ Waiting(c) /\ ~c.checked /\ c.row \in Opportunity
  /\ IF c.decision # "CONFIRMED" /\ ~c.input.note THEN Reply(c, Failure("error"))
     ELSE IF c.input.version \notin {NoVersion, Len(decided[c.row])} THEN Reply(c, Failure("error"))
     ELSE calls' = (calls \ {c}) \cup {[c EXCEPT !.checked = TRUE]}
  /\ UNCHANGED decided /\ ServerOnly

Record(c) ==
  /\ c.kind = "decide" /\ Waiting(c) /\ c.checked
  /\ decided' = [decided EXCEPT ![c.row] = Append(@, c.decision)]
  /\ Reply(c, [kind |-> "ok", n |-> Len(decided'[c.row])])
  /\ ServerOnly

\* POST .../confirm, whatever the package's status.
ConfirmPackage(c) ==
  /\ c.kind = "decide" /\ Waiting(c) /\ c.row \in Package
  /\ decided' = [decided EXCEPT ![c.row] = <<"CONFIRMED">>]
  /\ Reply(c, [kind |-> "ok", n |-> 1])
  /\ ServerOnly

\* POST /api/agency/context: the agency is assigned to the clients it is shown.
\* The session that setAgencyContext returns is not kept.
Grant(c) ==
  /\ c.kind = "select" /\ Waiting(c)
  /\ Reply(c, [kind |-> "ok", n |-> 0])
  /\ UNCHANGED decided /\ ServerOnly

\* An answer that is not the one hoped for: a session that has ended, or an
\* envelope with an error (or none, of a status that is not 2xx).
RefuseCall(c) ==
  /\ Waiting(c) /\ mishaps < MaxMishaps
  /\ mishaps' = mishaps + 1
  /\ \E status \in {"error", "forbidden"} : Reply(c, Failure(status))
  /\ UNCHANGED <<decided, nonce, gen, visit, shown, control, acting, acked, choice>>

-----------------------------------------------------------------------------
(* useAsyncData.                                                           *)

\* reload(), from the page p that is mounted.
Reload(p) ==
  /\ nonce' = [nonce EXCEPT ![p] = @ + 1]
  /\ shown' = [shown EXCEPT ![p] = Loading]
  /\ control' = [control EXCEPT ![p] = AllIdle]

\* Mutant: what is shown is not cleared again by the effect.
StartLoadOnly(p) ==
  /\ nonce[p] # gen[p]
  /\ gen' = [gen EXCEPT ![p] = nonce[p]]
  /\ calls' = calls \cup {Load(p, nonce[p])}
  /\ UNCHANGED <<decided, nonce, visit, shown, control, acting, mishaps, acked, choice>>

\* The effect of a new nonce: the load before it is forgotten.
StartLoad(p) ==
  /\ nonce[p] # gen[p]
  /\ gen' = [gen EXCEPT ![p] = nonce[p]]
  /\ shown' = [shown EXCEPT ![p] = Loading]
  /\ control' = [control EXCEPT ![p] = AllIdle]
  /\ calls' = calls \cup {Load(p, nonce[p])}
  /\ UNCHANGED <<decided, nonce, visit, acting, mishaps, acked, choice>>

\* selectAsyncState; a rejected load is an INTERNAL_ERROR.
Settled(r) ==
  IF r.kind # "rows" THEN [status |-> r.status]
  ELSE IF DOMAIN r.rows = {} THEN [status |-> "empty"] ELSE Success(r.rows)
Active(c) == c.gen = gen[c.page]
Settle(c, r) ==
  /\ shown' = IF Active(c) THEN [shown EXCEPT ![c.page] = Settled(r)] ELSE shown
  /\ UNCHANGED <<nonce, control, acting, acked, choice>>

\* The error of a load of the client's pages offers to try again.
Retry(p) ==
  /\ Hooked(p) /\ shown[p].status = "error" /\ Budget(p)
  /\ Reload(p)
  /\ UNCHANGED <<decided, calls, gen, visit, acting, mishaps, acked, choice>>

\* The user leaves the page and comes back: a new mount.
Revisit(p) ==
  /\ Budget(p)
  /\ nonce' = [nonce EXCEPT ![p] = @ + 1]
  /\ gen' = [gen EXCEPT ![p] = nonce'[p]]
  /\ visit' = [visit EXCEPT ![p] = nonce'[p]]
  /\ shown' = [shown EXCEPT ![p] = Loading]
  /\ control' = [control EXCEPT ![p] = AllIdle]
  /\ calls' = calls \cup {Load(p, nonce'[p])}
  /\ UNCHANGED <<decided, acting, mishaps, acked, choice>>

-----------------------------------------------------------------------------
(* Writing.                                                                *)

\* OpportunityReviewControl, ReviewActionRow: the buttons are disabled while a
\* review is not offered or the row's own call is under way, and the queue's
\* are gone once it is done.
Ready(p, x) == control[p][x] \notin {"submitting", "done"} /\ shown[p].rows[x].open
\* submitOpportunityReview, with the version of the row.
ReviewInput(p, x) == [note |-> TRUE, version |-> shown[p].rows[x].version]
\* submitReviewDecision, of the queue: no version, and no field for the note.
QueueInput == [note |-> FALSE, version |-> NoVersion]
Post(p, x, d) ==
  [kind |-> "decide", page |-> p, gen |-> gen[p], row |-> x, decision |-> d,
   input |-> IF p.kind = "queue" THEN QueueInput ELSE ReviewInput(p, x),
   checked |-> FALSE, lost |-> FALSE, reply |-> Unanswered]
Offered(p) == IF p.kind = "package" THEN {"CONFIRMED"} ELSE Decision
Submit(p, x, d) ==
  /\ p.kind # "clients" /\ HasRows(p) /\ x \in DOMAIN shown[p].rows /\ d \in Offered(p)
  /\ Ready(p, x) /\ (Hooked(p) => Budget(p))
  /\ control' = [control EXCEPT ![p][x] = "submitting"]
  /\ calls' = calls \cup {Post(p, x, d)}
  /\ UNCHANGED <<decided, nonce, gen, visit, shown, acting, mishaps, acked, choice>>

SetControl(c, state) ==
  control' = IF Alive(c) THEN [control EXCEPT ![c.page][c.row] = state] ELSE control

Acknowledge(c, r) == [acked EXCEPT ![c.page][c.row] = Max({@, r.n})]

\* useWriteAction's answer; onSuccess reloads the page, also for a control that
\* is gone.
Answered(c, r) ==
  /\ Hooked(c.page)
  /\ IF r.kind = "ok" /\ Mounted(c)
     THEN /\ Reload(c.page)
          /\ acked' = Acknowledge(c, r)
     ELSE /\ SetControl(c, "error")
          /\ UNCHANGED <<nonce, shown, acked>>
  /\ UNCHANGED <<acting, choice>>

\* The queue's row after its await; a rejected fetch ends the handler there.
QueueAnswered(c, r) ==
  /\ c.page.kind = "queue"
  /\ SetControl(c, IF r.kind = "ok" THEN "done" ELSE "error")
  /\ UNCHANGED <<nonce, shown, acting, acked, choice>>

\* Mutant: the buttons are not disabled while a choice is pending.
ReadyAlways(p) == TRUE
Pending(p) == \E x \in Client : control[p][x] = "submitting"
ReadyToSelect(p) == ~Pending(p)

\* selectClient: any row's button, of all that are disabled while one is pending.
Select(p, x) ==
  /\ p.kind = "clients" /\ HasRows(p) /\ ReadyToSelect(p) /\ x \in DOMAIN shown[p].rows
  /\ control' = [control EXCEPT ![p][x] = "submitting"]
  /\ calls' = calls \cup
       {[kind |-> "select", page |-> p, gen |-> gen[p], row |-> x,
         lost |-> FALSE, reply |-> Unanswered]}
  /\ choice' = [client |-> x, outcome |-> "pending",
                alone |-> \A c \in calls : c.kind = "select" => Mounted(c)]
  /\ UNCHANGED <<decided, nonce, gen, visit, shown, acting, mishaps, acked>>

\* The store belongs to the agency's shell: it is set also when the page is gone.
Selected(c, r) ==
  /\ acting' = IF r.kind = "ok" THEN c.row ELSE NoClient
  /\ SetControl(c, "idle")
  /\ choice' = IF c.row = choice.client
               THEN [choice EXCEPT !.outcome = IF r.kind = "ok" THEN "granted" ELSE "refused"]
               ELSE choice
  /\ UNCHANGED <<nonce, shown, acked>>

-----------------------------------------------------------------------------
\* http.ts: an answer is returned, whatever it says.
Deliver(c) ==
  /\ ~Waiting(c) /\ ~c.lost
  /\ \/ c.kind = "load" /\ Settle(c, c.reply)
     \/ c.kind = "decide" /\ (Answered(c, c.reply) \/ QueueAnswered(c, c.reply))
     \/ c.kind = "select" /\ Selected(c, c.reply)
  /\ calls' = calls \ {c}
  /\ UNCHANGED <<decided, gen, visit, mishaps>>

\* Mutant: useWriteAction has no handler of a rejection.
ThrownAway(c) ==
  IF c.kind = "load" THEN Settle(c, Failure("error"))
  ELSE UNCHANGED <<nonce, shown, control, acting, acked, choice>>

\* ... a fetch that fails, or an answer that cannot be read, is thrown: the hooks
\* show an error, the agency's pages do not catch it.
Thrown(c) ==
  \/ c.kind = "load" /\ Settle(c, Failure("error"))
  \/ c.kind = "decide" /\ Answered(c, Failure("error"))
  \/ /\ c.kind # "load" /\ ~Hooked(c.page)
     /\ UNCHANGED <<nonce, shown, control, acting, acked, choice>>
Lose(c) ==
  /\ ~c.lost /\ mishaps < MaxMishaps
  /\ mishaps' = mishaps + 1
  /\ Thrown(c)
  /\ calls' = (calls \ {c}) \cup
       {[d EXCEPT !.lost = TRUE] : d \in {c} \cap {d \in calls : d.kind = "decide" /\ Waiting(d)}}
  /\ UNCHANGED <<decided, gen, visit>>

Serve(c) == Read(c) \/ CheckReview(c) \/ Record(c) \/ ConfirmPackage(c) \/ Grant(c)
\* Nothing is under way: the user need not do more.
Quiet == calls = {} /\ nonce = gen
PagesNext ==
  \/ \E c \in calls : Serve(c) \/ RefuseCall(c) \/ Deliver(c) \/ Lose(c)
  \/ \E p \in Page :
       \/ StartLoad(p) \/ Retry(p) \/ Revisit(p)
       \/ \E x \in Subject, d \in Decision \cup {"CONFIRMED"} : Submit(p, x, d)
       \/ \E x \in Client : Select(p, x)
  \/ Quiet /\ UNCHANGED pagesVars
Safety == PagesInit /\ [][PagesNext]_pagesVars

AllPages == UNION Meetings
Loads(p) == {c \in calls : c.page = p /\ c.kind = "load" /\ Active(c)}
CallsFrom(p, x) == {c \in calls : c.page = p /\ c.kind # "load" /\ c.row = x}
\* The browser settles every fetch, for the server answers or the connection
\* ends, and React runs the effects of what it has rendered.
PagesSpec ==
  /\ Safety
  /\ \A p \in AllPages :
       /\ WF_pagesVars(\E c \in Loads(p) : Serve(c) \/ Deliver(c))
       /\ WF_pagesVars(p \in Page /\ StartLoad(p))
       /\ \A x \in ListRow : WF_pagesVars(\E c \in CallsFrom(p, x) : Serve(c) \/ Deliver(c))

-----------------------------------------------------------------------------
States == {"idle", "submitting", "done", "error"}
PagesTypeOK ==
  /\ decided \in [Subject -> Seq(Decision \cup {"CONFIRMED"})]
  /\ \A c \in calls : c.page \in Page /\ c.gen \in 1..gen[c.page]
  /\ \A p \in Page : nonce[p] \in 1..p.loads
  /\ \A p \in Page : visit[p] <= gen[p] /\ gen[p] <= nonce[p]
  /\ \A p \in Page : shown[p].status \in {"loading", "error", "forbidden", "empty", "success"}
  /\ control \in [Page -> [ListRow -> States]]
  /\ \A p \in Page : ~HasRows(p) => control[p] = AllIdle
  /\ acting \in Client \cup {NoClient}
  /\ acked \in [Page -> [Subject -> Nat]]

(***************************************************************************)
(* OpportunityReviewControl.tsx:42, "Refresh the opportunity list after a  *)
(* recorded decision so the new status shows", and AsyncBoundary.tsx:35,   *)
(* "Stale responses from a superseded load are ignored": once the reload's *)
(* effect has run, the client's rows are never older than a decision the   *)
(* page was told of, however the answers of loads and of other rows'       *)
(* decisions overtake one another.                                         *)
(***************************************************************************)
AcknowledgedIsShown ==
  /\ PagesTypeOK
  /\ \A p \in Page :
       Hooked(p) /\ HasRows(p) /\ gen[p] = nonce[p] =>
         \A x \in DOMAIN shown[p].rows : acked[p][x] <= shown[p].rows[x].version

(***************************************************************************)
(* The agency's banner names the client that was chosen last, when the     *)
(* server has granted it, and none when it was refused, whatever became of *)
(* the choices before it, as long as they were made in the same visit to   *)
(* the page (AgencyActingBannerMount.tsx:5-7).                             *)
(***************************************************************************)
BannerFollowsTheChoice ==
  choice.alone =>
    /\ choice.outcome = "granted" => acting = choice.client
    /\ choice.outcome = "refused" => acting = NoClient

Submitting(p, x) == p \in Page /\ control[p][x] = "submitting"

(***************************************************************************)
(* WriteAction.tsx:8-9: a control of the client's pages that submits ends  *)
(* submitting, or is gone, also when its call is lost, fails, or another   *)
(* row's answer reloads the list in between.                               *)
(***************************************************************************)
ButtonsComeBack ==
  \A p \in {p \in AllPages : Hooked(p)}, x \in Subject :
    Submitting(p, x) ~> ~Submitting(p, x)
=============================================================================
