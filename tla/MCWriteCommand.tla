--------------------------- MODULE MCWriteCommand ---------------------------
(***************************************************************************)
(* A small instance of WriteCommand: three attempts of alice under one     *)
(* key, or two of hers and one of bob, who happens to send the same key    *)
(* string.  Two connections, so attempts race in pairs and another queues. *)
(***************************************************************************)
EXTENDS WriteCommand

CONSTANTS alice, bob, create, k1, none

Attempt(n, actor, key) == [id |-> n, actor |-> actor, action |-> create, key |-> key]
a1 == Attempt(1, alice, k1)
a2 == Attempt(2, alice, k1)
Meetings == {{a1, a2, Attempt(3, alice, k1)}, {a1, a2, Attempt(4, bob, k1)}}
MCAttempts == UNION Meetings

\* The requests that are sent in one run are those of one meeting, and at most
\* one of them is turned away at the door: such a request leaves nothing but its
\* DENIED event.
TurnedAway == {r \in Request : answer'[r].kind \in {"refused", "forbidden"}}
OneMeeting ==
  /\ \E M \in Meetings : {r \in Request : pc'[r] # "unsent"} \subseteq M
  /\ Cardinality(TurnedAway) <= 1
=============================================================================
