------------------------- MODULE MCKnowledgePackage -------------------------
(***************************************************************************)
(* Small instances of KnowledgePackage: two texts of one document, or one  *)
(* of each of two, and a seal; or three seals and an input the parser      *)
(* refuses; or a confirmation and three resolutions of one issue, by two   *)
(* users.                                                                  *)
(***************************************************************************)
EXTENDS KnowledgePackage

CONSTANTS alice, bob, a, b, x, y, i1

Upload(n, title, format, text) ==
  [id |-> n, kind |-> "ingest", user |-> alice,
   title |-> title, format |-> format, text |-> text]
Snap(n) == [id |-> n, kind |-> "seal", user |-> bob]
Confirming(n, who) == [id |-> n, kind |-> "confirm", user |-> who]
Resolving(n, who) == [id |-> n, kind |-> "resolve", user |-> who, issue |-> i1]

Meetings ==
  {{Upload(1, a, "DOCX", x), Upload(2, a, "PDF", y), Snap(4)},
   {Upload(1, a, "DOCX", x), Upload(3, b, "URL", x), Snap(4)},
   {Snap(4), Snap(5), Snap(6), Upload(11, a, "image", x)},
   {Confirming(7, alice), Resolving(8, alice), Resolving(9, bob), Resolving(10, bob)}}
MCDesk == UNION Meetings

\* The requests that are sent in one run are those of one meeting, and at most
\* one of them is turned away at the door, which changes nothing.
TurnedAway == {r \in Request : answer'[r] = "refused"}
OneMeeting ==
  /\ \E M \in Meetings : {r \in Request : pc'[r] # "unsent"} \subseteq M
  /\ Cardinality(TurnedAway) <= 1
=============================================================================
