-------------------------- MODULE MCArticleCompile --------------------------
(***************************************************************************)
(* Small instances of ArticleCompile: three compiles of one brief, two of  *)
(* them a retry of each other, or these two beside one of another brief.   *)
(***************************************************************************)
EXTENDS ArticleCompile

CONSTANTS alice, compile, k1, none, b1, b2

Attempt(n, key, brief) ==
  [id |-> n, actor |-> alice, action |-> compile, key |-> key, brief |-> brief]
Retries == {Attempt(1, k1, b1), Attempt(2, k1, b1)}
Meetings == {Retries \cup {Attempt(3, none, b1)}, Retries \cup {Attempt(4, none, b2)}}
MCCompiles == UNION Meetings

\* The requests that are sent in one run are those of one meeting, and at most
\* one of them is turned away at the door: such a request leaves nothing but its
\* DENIED event.
TurnedAway == {r \in Request : answer'[r].kind \in {"refused", "forbidden"}}
OneMeeting ==
  /\ \E M \in Meetings : {r \in Request : pc'[r] # "unsent"} \subseteq M
  /\ Cardinality(TurnedAway) <= 1
=============================================================================
