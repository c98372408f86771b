------------------------- MODULE MCArticlePublishing -------------------------
(***************************************************************************)
(* Small instances of ArticlePublishing: an approval of a draft that       *)
(* passes every gate beside one of a draft without headings, or beside a   *)
(* gate run of the draft; or the chain from an approval to receipts of a   *)
(* planned channel, an unplanned one and an automatic actor.               *)
(* The delivery centre is read beside all of them, the detail of a draft   *)
(* beside the approvals and the gate run.                                  *)
(***************************************************************************)
EXTENDS ArticlePublishing

CONSTANTS alice, k, none, c1, c2, system

good == [id |-> 1, sections |-> TRUE, headings |-> TRUE, planned |-> TRUE,
         sources |-> TRUE, title |-> TRUE]
bare == [id |-> 2, sections |-> TRUE, headings |-> FALSE, planned |-> TRUE,
         sources |-> TRUE, title |-> TRUE]

Approval(n, d) ==
  [id |-> n, actor |-> alice, action |-> k, key |-> none, kind |-> "approve", draft |-> d]
Package(n, a) ==
  [id |-> n, actor |-> alice, action |-> k, key |-> none, kind |-> "package", of |-> a,
   draft |-> a.draft]
Plan(n, p) ==
  [id |-> n, actor |-> alice, action |-> k, key |-> none, kind |-> "plan", of |-> p,
   channels |-> {c1}]
Receipt(n, p, c, by) ==
  [id |-> n, actor |-> alice, action |-> k, key |-> none, kind |-> "receipt", of |-> p,
   channel |-> c, by |-> by]
GateRun(n, d) ==
  [id |-> n, actor |-> alice, action |-> k, key |-> none, kind |-> "gate", draft |-> d]

a1 == Approval(1, good)
p1 == Package(4, a1)
l1 == Plan(5, p1)
MCDraft == {good, bare}
Chain ==
  {a1, p1, l1, Receipt(6, l1, c1, alice), Receipt(7, l1, c2, alice), Receipt(8, l1, c1, system)}
Approvals == {{a1, Approval(2, bare)}, {a1, GateRun(9, good)}}
MCPublishing == Chain \cup UNION Approvals

\* The requests that are sent in one run are two approvals, an approval and a
\* gate run, or the chain.  At most one is turned away and leaves nothing but its
\* DENIED event; in the chain, the approval, or a package asked for too early.
\* None has a key, so nothing reads the time of an event: one instant stands for
\* all.
TurnedAway == {r \in Request : answer'[r].kind \in {"refused", "forbidden"}}
OneMeeting ==
  LET sent == {r \in Request : pc'[r] # "unsent"} IN
  /\ \/ \E M \in Approvals : sent \subseteq M
     \/ page'.kind = "centre" /\ sent \subseteq Chain /\ TurnedAway \subseteq {a1, p1}
  /\ Cardinality(TurnedAway) <= 1
  /\ clock' = clock
=============================================================================
