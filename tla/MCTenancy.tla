------------------------------ MODULE MCTenancy ------------------------------
(***************************************************************************)
(* Small instances of Tenancy: two attempts of an agency owner to          *)
(* provision a client, a project of it and an invitation; the platform     *)
(* assigns an agency to a client twice, beside a project of that agency;   *)
(* it creates an agency and assigns it to a client, which the agency       *)
(* chooses to act for; the client's owner makes a project, which the       *)
(* agency that is being assigned views, and accepts an invitation to it.   *)
(* MCRetry has the two attempts.                                           *)
(***************************************************************************)
EXTENDS Tenancy

CONSTANTS alice, bob, carol, root, platform, command, k1, none, g1, g2, c0

Provision(n) ==
  [id |-> n, kind |-> "provision", actor |-> alice, action |-> command, key |-> k1,
   role |-> "agency", home |-> g1, type |-> "CLIENT"]
Create(n, type) ==
  [id |-> n, kind |-> "create", actor |-> root, action |-> command, key |-> k1,
   role |-> "platform", home |-> platform, type |-> type]
AssignPair(n, g) ==
  [id |-> n, kind |-> "assign", actor |-> root, action |-> command, key |-> none,
   role |-> "platform", home |-> platform, agency |-> g, client |-> c0]
ActFor(n, g, c) ==
  [id |-> n, kind |-> "act", actor |-> bob, action |-> command, key |-> none,
   role |-> "agency", home |-> g, client |-> c]
ListOf(n, role, home) ==
  [id |-> n, kind |-> "list", actor |-> bob, action |-> command, key |-> none,
   role |-> role, home |-> home]
ProjectFor(n, who, role, home, c) ==
  [id |-> n, kind |-> "project", actor |-> who, action |-> command, key |-> none,
   role |-> role, home |-> home, client |-> c]
Invitation(n, p) ==
  [id |-> n, kind |-> "invite", actor |-> p.actor, action |-> command, key |-> none,
   role |-> p.role, home |-> p.home, of |-> p, to |-> carol]

View(n, role, home, p) ==
  [id |-> n, kind |-> "view", actor |-> bob, action |-> command, key |-> none,
   role |-> role, home |-> home, of |-> p]
Accept(n, i) ==
  [id |-> n, kind |-> "accept", actor |-> carol, action |-> command, key |-> none,
   role |-> "client", home |-> c0, of |-> i]

p1 == ProjectFor(3, alice, "agency", g1, 1)
p8 == ProjectFor(8, carol, "client", c0, c0)
i14 == Invitation(14, p8)
MCRetry == {Provision(1), Provision(2)}
Meetings ==
  {MCRetry \cup {p1, Invitation(4, p1)},
   {AssignPair(5, g2), AssignPair(6, g2), ProjectFor(7, bob, "agency", g2, c0)},
   {Create(9, "AGENCY"), AssignPair(11, 9), ActFor(12, 9, c0), ListOf(16, "agency", 9)},
   {AssignPair(5, g2), p8, View(13, "agency", g2, p8), i14, Accept(15, i14)}}
MCTenants == UNION Meetings

\* The requests that are sent in one run, or whose session is resolved, are
\* those of one meeting, and at most one of them is turned away.  A key has at
\* most one event, so nothing depends on its time: one instant stands for all.
TurnedAway == {r \in Request : answer'[r].kind \in {"refused", "forbidden"}}
OneMeeting ==
  /\ \E M \in Meetings : {r \in Request : step'[r] # "session"} \subseteq M
  /\ Cardinality(TurnedAway) <= 1
  /\ clock' = clock
=============================================================================
