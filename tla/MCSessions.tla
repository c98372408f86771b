----------------------------- MODULE MCSessions -----------------------------
(***************************************************************************)
(* Small instances of Sessions: a user logs in from two devices, logs out  *)
(* on one of them and visits from both, or reads from both; or logs in     *)
(* twice from one device and visits, or once and reads or opens a page,    *)
(* while keys are rotated and time passes.                                 *)
(***************************************************************************)
EXTENDS Sessions

CONSTANTS d1, d2

Login(n, d) == [id |-> n, kind |-> "login", device |-> d]
Logout(n, d) == [id |-> n, kind |-> "logout", device |-> d]
Visit(n, d) == [id |-> n, kind |-> "visit", device |-> d]
Read(n, d) == [id |-> n, kind |-> "read", device |-> d]
OpenPage(n, d) == [id |-> n, kind |-> "page", device |-> d]

Entries == {Login(1, d1), Login(2, d2), Logout(3, d1)}
Devices == {Entries \cup {Visit(4, d1), Visit(5, d2)}, Entries \cup {Read(7, d1), Read(8, d2)}}
Logins == {Login(1, d1), Login(6, d1)}
Rotations ==
  {Logins \cup {Visit(4, d1)}, {Login(1, d1), Read(7, d1)}, {Login(1, d1), OpenPage(9, d1)}}
MCSessionRequests == UNION (Devices \cup Rotations)

\* The requests that are sent in one run are those of one meeting.  Keys and time
\* move in Rotations, where the second login follows the first, nobody is
\* refused at a login and at most one request fails.
Ending(what) == {r \in Request : answer'[r] = what}
OneMeeting ==
  LET sent == {r \in Request : pc'[r] # "unsent"} IN
  \/ (\E M \in Devices : sent \subseteq M) /\ now' = 0 /\ keys'.current = 1
  \/ /\ \E M \in Rotations : sent \subseteq M
     /\ Login(6, d1) \in sent => pc'[Login(1, d1)] = "answered"
     /\ Ending("refused") \cap Logins = {}
     /\ Cardinality(Ending("error")) <= 1
=============================================================================
