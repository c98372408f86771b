------------------------------- MODULE Tenancy -------------------------------
(***************************************************************************)
(* The commands that make tenants: the platform creates an agency or a     *)
(* client (ops/agencies, ops/clients) and assigns one to the other         *)
(* (ops/assignments), an agency owner provisions a client                  *)
(* (commands/agency/clients), a project is created for a client            *)
(* (commands/projects) and its owner invited (projects/[id]/invitations).  *)
(* Each is a write command (WriteCommand).  Beside them those that only    *)
(* read: an agency lists its clients (agency/clients) and chooses the one  *)
(* it acts for (agency/context), a project is viewed (projects/[id]), an   *)
(* invitation is accepted, which changes nothing that is stored.           *)
(*                                                                         *)
(* The tenant of a command is decided from the session, which is resolved  *)
(* before the command's transaction and carries the clients its agency was *)
(* assigned to at that time.  No route revokes an assignment.              *)
(*                                                                         *)
(* An INSERT that meets an uncommitted row of a unique index waits for     *)
(* that row's transaction; a statement sees the rows that were committed   *)
(* when it began (READ COMMITTED), also after it has waited.               *)
(***************************************************************************)
EXTENDS WriteCommand

CONSTANTS
  Agency,
  Existing   \* clients that are there from the start
\* Requests also have fields id, kind ("create", "provision", "assign",
\* "project", "invite", "list", "act", "view" or "accept"), role ("platform", "agency",
\* "client") and home (the actor's organization), type of what is created,
\* agency and client of an assignment, client of a project or a choice,
\* of (the request that creates the project, or the invitation), to (the
\* user an invitation is addressed to).

\* The ids are fresh UUIDs; a route creates one kind of thing and has an action of
\* its own; organizations that are named are those of some request or were there.
ASSUME TenantAssumption ==
  \A r \in Request :
    /\ r.role \in {"platform", "agency", "client"}
    /\ r.kind \in {"create", "provision"} => r.type \in {"AGENCY", "CLIENT"}
    /\ r.kind = "provision" => r.home \in Agency \cup {s.id : s \in Request}
    /\ r.kind = "assign" => r.agency \in Agency \cup {s.id : s \in Request}
    /\ r.kind \in {"assign", "project"} => r.client \in {s.id : s \in Request} \cup Existing
    /\ \A s \in Request :
         /\ r.id = s.id => r = s
         /\ r.key # NoKey /\ <<r.actor, r.action, r.key>> = <<s.actor, s.action, s.key>> =>
              r.kind = s.kind

VARIABLES
  organizations, \* committed organization rows
  assignments,  \* committed agency_client_assignment rows, all ACTIVE
  projects,     \* committed project rows
  invitations,  \* committed invitation rows, all PENDING
  scope,        \* scope[r]: assignedClientOrganizationIds of r's session
  step,         \* step[r]: which statement of r's handler runs next
  found         \* found[r]: the organization a statement of r has returned

tenantVars == <<organizations, assignments, projects, invitations, scope, step, found>>
tenancyVars == <<ledgerVars, tenantVars>>

Ids == {r.id : r \in Request}
OrganizationRow == [org: Ids, type: {"AGENCY", "CLIENT"}, by: Request]
Assignment == [agency: Agency \cup Ids, client: Ids \cup Existing, req: Request]
Project == [client: Ids \cup Existing, req: Request]
Steps == {"session", "route", "create", "assign", "done"}

TenancyInit ==
  /\ LedgerInit
  /\ organizations = {}
  /\ assignments = {}
  /\ projects = {}
  /\ invitations = {}
  /\ scope = [r \in Request |-> {}]
  /\ step = [r \in Request |-> "session"]
  /\ found = [r \in Request |-> {}]

AssignedTo(g) == {a.client : a \in {a \in assignments : a.agency = g}}
OfType(type) == {row.org : row \in {row \in organizations : row.type = type}}
ExistingClient(c) == c \in Existing \cup OfType("CLIENT")
ExistingAgency(g) == g \in Agency \cup OfType("AGENCY")
ProjectOf(r) == {p \in projects : p.req = r.of}
OfProject(r) == r.kind \in {"invite", "view"}
TargetOf(r) == IF OfProject(r) THEN {p.client : p \in ProjectOf(r)} ELSE {r.client}

\* resolveSession: an agency's session carries its ACTIVE assignments.
ResolveSession(r) ==
  /\ pc[r] = "unsent"
  /\ step[r] = "session"
  /\ scope' = [scope EXCEPT ![r] = IF r.role = "agency" THEN AssignedTo(r.home) ELSE {}]
  /\ step' = [step EXCEPT ![r] = "route"]
  /\ UNCHANGED <<ledgerVars, organizations, assignments, projects, invitations, found>>

\* Mutant: an agency may name any client in the body.
PermittedAny(r) ==
  CASE r.kind = "provision" -> r.role = "agency"
    [] r.kind \in {"create", "assign"} -> r.role = "platform"
    [] OTHER -> TRUE

\* canAccessClientOrganization: any client for the platform, an assigned one
\* for an agency, its own for a client.
CanAccess(r) ==
  CASE r.role = "platform" -> TRUE
    [] r.role = "agency" -> TargetOf(r) \subseteq scope[r]
    [] r.role = "client" -> TargetOf(r) \subseteq {r.home}

\* An agency (its owner) provisions, the platform creates and assigns.
Permitted(r) ==
  CASE r.kind = "provision" -> r.role = "agency"
    [] r.kind \in {"create", "assign"} -> r.role = "platform"
    [] OTHER -> CanAccess(r)

ReadOnly(r) == r.kind \in {"list", "act", "view", "accept"}
\* The handler up to the perform closure.
RouteTenants(r) ==
  /\ step[r] = "route" /\ ~ReadOnly(r)
  /\ IF pc[r] # "unsent" THEN BeforePerform(r)
     ELSE \/ Refuse(r)
          \/ /\ OfProject(r) => ProjectOf(r) # {}
             /\ IF Permitted(r) THEN Authorize(r) ELSE RecordDenied(r) \/ RecordDeniedFails(r)
  /\ UNCHANGED tenantVars

Performing(r, kind, label) == pc[r] = "performing" /\ r.kind = kind /\ step[r] = label
Proceed(r, label, c) ==
  /\ step' = [step EXCEPT ![r] = label]
  /\ found' = [found EXCEPT ![r] = c]
  /\ UNCHANGED <<ledgerVars, organizations, assignments, projects, invitations, scope>>
ForgetTenants(r) ==
  /\ step' = [step EXCEPT ![r] = "route"]
  /\ found' = [found EXCEPT ![r] = {}]
  /\ UNCHANGED scope
AbortTenants(r) ==
  /\ Rollback(r)
  /\ ForgetTenants(r)
  /\ UNCHANGED <<organizations, assignments, projects, invitations>>
Insert(r) ==
  /\ Perform(r)
  /\ step' = [step EXCEPT ![r] = "done"]
  /\ UNCHANGED <<organizations, assignments, projects, invitations, scope, found>>

-----------------------------------------------------------------------------
(* The handlers that only read; they end in one statement or two.          *)

\* recordAuditEvent with the verdict, by a statement of its own, before the answer.
PersistIntent(r, outcome) ==
  /\ free > 0
  /\ audit' = audit \cup {[req |-> r, outcome |-> outcome, at |-> clock]}
DenyAccess(r) == RecordDenied(r) \/ RecordDeniedFails(r)
Show(r, c) ==
  /\ step' = [step EXCEPT ![r] = "done"]
  /\ found' = [found EXCEPT ![r] = c]
  /\ UNCHANGED <<pc, free, clock, began, tx, rows, answer, overlap,
                 organizations, assignments, projects, invitations, scope>>

\* listAgencyClients: the clients whose assignment is ACTIVE now.
ListAgencyClients(r) ==
  /\ step[r] = "route" /\ pc[r] = "unsent" /\ r.kind = "list"
  /\ IF r.role = "agency" THEN Show(r, AssignedTo(r.home)) /\ UNCHANGED audit
     ELSE Refuse(r) /\ UNCHANGED tenantVars

\* setAgencyContext: the assignment is read again.  The acting client is set in
\* a copy of the session that nobody keeps: no later request sees it.
SetAgencyContext(r) ==
  /\ step[r] = "route" /\ pc[r] = "unsent" /\ r.kind = "act"
  /\ IF r.role = "agency" /\ r.client \in AssignedTo(r.home)
     THEN PersistIntent(r, "ALLOWED") /\ Show(r, {r.client})
     ELSE (Refuse(r) \/ DenyAccess(r)) /\ UNCHANGED tenantVars

\* getProject, of a project that is there.
GetProject(r) ==
  /\ step[r] = "route" /\ pc[r] = "unsent" /\ r.kind = "view"
  /\ \/ Refuse(r) /\ UNCHANGED tenantVars
     \/ /\ ProjectOf(r) # {}
        /\ IF Permitted(r) THEN Show(r, TargetOf(r)) /\ UNCHANGED audit
           ELSE DenyAccess(r) /\ UNCHANGED tenantVars

\* acceptInvitation: usable and addressed to the user, it is answered with the
\* account view; markAccepted is not called, so it stays PENDING.
AcceptInvitation(r) ==
  /\ step[r] = "route" /\ pc[r] = "unsent" /\ r.kind = "accept"
  /\ \/ Refuse(r) /\ UNCHANGED tenantVars
     \/ /\ r.of \in invitations
        /\ r.actor = r.of.to
        /\ Show(r, TargetOf(r.of)) /\ UNCHANGED audit

-----------------------------------------------------------------------------
(* The statements of the write commands.                                   *)

\* idempotency_key of the organization: of the actor's key, or a fresh UUID.
OrgKey(r) == IF r.key = NoKey THEN <<r.id>> ELSE <<r.action, r.actor, r.key>>
WithKey(r) == {row.org : row \in {row \in organizations : OrgKey(row.by) = OrgKey(r)}}
Creating(r) == r.kind \in {"create", "provision"}
\* Another open transaction has inserted an organization with r's key.
HeldKey(r) ==
  \E s \in Request \ {r} :
    /\ InTx(s) /\ Creating(s) /\ OrgKey(s) = OrgKey(r)
    /\ s.id \in found[s]

\* createIdempotent, one statement.  The rows its SELECT will see ...
BeginCreate(r) ==
  /\ Performing(r, r.kind, "route") /\ Creating(r)
  /\ Proceed(r, "create", WithKey(r))

\* Mutant: idempotency_key is not unique.
CreateUnchecked(r) ==
  /\ Performing(r, r.kind, "create")
  /\ Proceed(r, "assign", {r.id})

\* ... and its INSERT, which waits for a racer; ON CONFLICT DO NOTHING.  The
\* racer's row is there now, and is not among the rows the SELECT sees.
CreateIdempotent(r) ==
  /\ Performing(r, r.kind, "create")
  /\ ~HeldKey(r)
  /\ Proceed(r, "assign", IF WithKey(r) = {} THEN {r.id} ELSE found[r])

\* "createIdempotent returned no row".
ReturnedNoRow(r) ==
  /\ Performing(r, r.kind, "assign")
  /\ found[r] = {}
  /\ AbortTenants(r)
\* The platform's commands create the organization and no more.
CreateOrganization(r) ==
  /\ Performing(r, "create", "assign")
  /\ found[r] # {}
  /\ Insert(r)

\* findById of both organizations, which never change once they are there, and
\* isAuthorized; otherwise VALIDATION_FAILED or CONFLICT.
CheckAssignment(r) ==
  /\ Performing(r, "assign", "route")
  /\ IF ExistingAgency(r.agency) /\ ExistingClient(r.client) /\ r.client \notin AssignedTo(r.agency)
     THEN Proceed(r, "assign", {r.client})
     ELSE AbortTenants(r)

AgencyOf(r) == IF r.kind = "assign" THEN r.agency ELSE r.home
Assigning(r) == r.kind \in {"provision", "assign"}
\* Another open transaction has inserted the pair.
HeldPair(r) ==
  \E s \in Request \ {r} :
    /\ InTx(s) /\ Assigning(s) /\ step[s] = "done"
    /\ AgencyOf(s) = AgencyOf(r) /\ found[s] = found[r]

\* assign: the ACTIVE pair is unique; a violation fails the command.
Assign(r) ==
  /\ pc[r] = "performing" /\ Assigning(r) /\ step[r] = "assign"
  /\ found[r] # {}
  /\ ~HeldPair(r)
  /\ IF found[r] \subseteq AssignedTo(AgencyOf(r)) THEN AbortTenants(r) ELSE Insert(r)

\* The client is looked up inside the transaction.
CreateProject(r) ==
  /\ Performing(r, "project", "route")
  /\ IF ExistingClient(r.client) THEN Insert(r) ELSE AbortTenants(r)

\* The project was found before; its client's owner is invited.
CreateInvitation(r) == Performing(r, "invite", "route") /\ Insert(r)

\* COMMIT shows what the command has inserted.
PublishTenants(r) ==
  /\ organizations' = organizations \cup
       {[org |-> s.id, type |-> s.type, by |-> s] :
          s \in {s \in {r} : Creating(s) /\ s.id \in found[s]}}
  /\ assignments' = assignments \cup
       {[agency |-> AgencyOf(s), client |-> c, req |-> s] :
          s \in {s \in {r} : Assigning(s)}, c \in found[r]}
  /\ projects' = projects \cup
       {[client |-> s.client, req |-> s] : s \in {s \in {r} : s.kind = "project"}}
  /\ invitations' = invitations \cup {s \in {r} : s.kind = "invite"}
  /\ step' = [step EXCEPT ![r] = "route"]
  /\ UNCHANGED <<found, scope>>

TenancyStep(r) ==
  \/ ResolveSession(r) \/ RouteTenants(r)
  \/ ListAgencyClients(r) \/ SetAgencyContext(r) \/ GetProject(r) \/ AcceptInvitation(r)
  \/ BeginCreate(r) \/ CreateIdempotent(r) \/ ReturnedNoRow(r) \/ CreateOrganization(r)
  \/ CheckAssignment(r) \/ Assign(r)
  \/ CreateProject(r) \/ CreateInvitation(r)
  \/ AppendAudit(r) /\ UNCHANGED tenantVars
  \/ (Commit(r) \/ CommitUnacknowledged(r)) /\ PublishTenants(r)
TenancyNext ==
  \/ \E r \in Request : TenancyStep(r) \/ AbortTenants(r)
  \/ Idle /\ UNCHANGED tenancyVars
TenancySpec == TenancyInit /\ [][TenancyNext]_tenancyVars

-----------------------------------------------------------------------------
TenancyTypeOK ==
  /\ LedgerTypeOK
  /\ organizations \subseteq OrganizationRow
  /\ assignments \subseteq Assignment
  /\ projects \subseteq Project
  /\ invitations \subseteq Request
  /\ scope \in [Request -> SUBSET (Ids \cup Existing)]
  /\ step \in [Request -> Steps]
  /\ found \in [Request -> SUBSET (Ids \cup Existing)]

\* The organizations that the answer to r names.
Named(r) == UNION {found[s] : s \in answer[r].result}

(***************************************************************************)
(* agency/clients/route.ts:15, "Idempotency-Key ... makes a retried create *)
(* yield ONE client org", and organization-repository.ts:6-7: unlike the   *)
(* other commands' writes, an organization is created once under its key   *)
(* also when the attempts race, and no two attempts are told of different  *)
(* ones; a client that an agency has provisioned is assigned to it from    *)
(* the moment it is there.                                                 *)
(***************************************************************************)
OneClientPerKey ==
  /\ TenancyTypeOK
  /\ \A c, d \in organizations : OrgKey(c.by) = OrgKey(d.by) => c = d
  /\ \A r, s \in Request :
       Creating(r) /\ Retry(r, s) /\ Succeeded(r) /\ Succeeded(s) =>
         Named(r) = Named(s)
  /\ \A c \in organizations : c.by.kind = "provision" => c.org \in AssignedTo(c.by.home)

(***************************************************************************)
(* SYSTEM_INVARIANTS_V1.md:9, "may only act on CLIENT organizations it has *)
(* an explicit, active assignment to": no agency has made, or is shown, a  *)
(* project, an invitation or an acting context of a client it is not       *)
(* assigned to; no project is of a client that is not there, and no pair   *)
(* is ACTIVE twice, whatever races with the check that it is free.         *)
(***************************************************************************)
AgenciesActForTheirClients ==
  /\ \A a, b \in assignments : a.agency = b.agency /\ a.client = b.client => a = b
  /\ \A p \in projects :
       /\ ExistingClient(p.client)
       /\ p.req.role = "agency" => p.client \in AssignedTo(p.req.home)
  /\ \A i \in invitations :
       /\ ProjectOf(i) # {}
       /\ i.role = "agency" => TargetOf(i) \subseteq AssignedTo(i.home)
  /\ \A r \in Request :
       r.kind \in {"list", "act", "view"} /\ r.role = "agency" => found[r] \subseteq AssignedTo(r.home)

(***************************************************************************)
(* organization-repository.ts:58-61, "every other racer blocks on the      *)
(* unique index, then finds the committed row via the UNION-ALL fallback.  *)
(* The result is always the single canonical row for that key".            *)
(***************************************************************************)
CreateFindsTheRow ==
  \A r \in Request : Creating(r) /\ step[r] = "assign" => found[r] # {}
=============================================================================
