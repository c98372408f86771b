----------------------------- MODULE MCWorkspace -----------------------------
(***************************************************************************)
(* Small instances of Workspace: the client's list of two opportunities    *)
(* alone, and beside the agency's review queue; its knowledge package; and *)
(* the agency's list of two clients.                                       *)
(***************************************************************************)
EXTENDS Workspace

Content(n) == [kind |-> "content", loads |-> n]
Confirmation(n) == [kind |-> "package", loads |-> n]
Queue(n) == [kind |-> "queue", loads |-> n]
Clients(n) == [kind |-> "clients", loads |-> n]
MCMeetings == {{Content(3)}, {Content(2), Queue(1)}, {Confirmation(3)},
               {Clients(3)}}
=============================================================================
