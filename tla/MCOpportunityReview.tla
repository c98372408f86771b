------------------------ MODULE MCOpportunityReview ------------------------
(***************************************************************************)
(* Small instances of OpportunityReview: three reviewers of one            *)
(* opportunity, one of whom asks for changes; or two reviewers who send no *)
(* version, beside families that cite the decision of one and of the       *)
(* other; or briefs of a family that is being made and of one that never   *)
(* is.                                                                     *)
(***************************************************************************)
EXTENDS OpportunityReview

CONSTANTS alice, bob, carol, decide, group, none, o1

Review(n, who, decision, versioned) ==
  [id |-> n, actor |-> who, action |-> decide, key |-> none, kind |-> "decide",
   opp |-> o1, decision |-> decision, versioned |-> versioned]
Family(n, who, members) ==
  [id |-> n, actor |-> who, action |-> group, key |-> none, kind |-> "family",
   members |-> members]

Brief(n, who, f) ==
  [id |-> n, actor |-> who, action |-> group, key |-> none, kind |-> "brief", family |-> f]

Meetings ==
  {{Review(1, alice, "CONFIRMED", TRUE), Review(2, bob, "CHANGES_REQUESTED", TRUE),
    Review(3, carol, "REJECTED", TRUE)},
   {Review(4, alice, "CONFIRMED", FALSE), Review(5, bob, "DEFERRED", FALSE),
    Family(6, carol, <<[opp |-> o1, decision |-> 4]>>),
    Family(7, carol, <<[opp |-> o1, decision |-> 5]>>)},
   {Review(4, alice, "CONFIRMED", FALSE), Family(6, carol, <<[opp |-> o1, decision |-> 4]>>),
    Brief(8, carol, 6), Brief(9, carol, 7)}}
MCReviews == UNION Meetings

\* The requests that are sent in one run, or whose page is loaded, are those of
\* one meeting, and at most one of them is turned away: it leaves nothing but
\* its DENIED event.  None has a key, so nothing reads the time of an event: one
\* instant stands for all.
TurnedAway == {r \in Request : answer'[r].kind \in {"refused", "forbidden"}}
OneMeeting ==
  /\ \E M \in Meetings : {r \in Request : pc'[r] # "unsent" \/ version'[r] \in Nat} \subseteq M
  /\ Cardinality(TurnedAway) <= 1
  /\ clock' = clock
=============================================================================
