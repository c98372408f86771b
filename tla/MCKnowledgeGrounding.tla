------------------------ MODULE MCKnowledgeGrounding ------------------------
(***************************************************************************)
(* Small instances of KnowledgeGrounding: two packages created while a map *)
(* and an opportunity are made of one of them; one package, a map of it    *)
(* and one with a repeated keyword, and an opportunity of a keyword that   *)
(* is not the map's; a map of a project that is being classified twice;    *)
(* or a package that is confirmed twice.                                   *)
(***************************************************************************)
EXTENDS KnowledgeGrounding

CONSTANTS alice, none, create, k1, k2, f0

Package(n) ==
  [id |-> n, actor |-> alice, action |-> create, key |-> none, kind |-> "package"]
Confirm(n, p) ==
  [id |-> n, actor |-> alice, action |-> create, key |-> none, kind |-> "confirm",
   package |-> p]
Profile(n) ==
  [id |-> n, actor |-> alice, action |-> create, key |-> none, kind |-> "profile"]
Map(n, p, words, f) ==
  [id |-> n, actor |-> alice, action |-> create, key |-> none, kind |-> "map",
   package |-> p, keywords |-> words, profile |-> f]
Opportunity(n, m, word) ==
  [id |-> n, actor |-> alice, action |-> create, key |-> none, kind |-> "opportunity",
   map |-> m, keyword |-> word]

Versions == {Package(1), Package(2), Map(3, 1, <<k1>>, f0), Opportunity(4, 3, k1)}
Keywords ==
  {Package(1), Map(5, 1, <<k1, k1>>, f0), Map(3, 1, <<k1>>, f0), Opportunity(6, 3, k2)}
Classifications == {Package(1), Profile(7), Profile(8), Map(9, 1, <<k1>>, 7)}
Confirmations == {Package(1), Confirm(10, 1), Confirm(11, 1)}
MCGrounding == Versions \cup Keywords \cup Classifications \cup Confirmations

\* The requests that are sent in one run are those of one meeting.  Nothing reads
\* the time at which a map or an opportunity began, so the clock ticks for
\* packages.  Outside Versions at most one is turned away, leaving nothing but its
\* DENIED event, and all begin in one instant: with one package its place does
\* not depend on created_at, and no request has a key.
TurnedAway == {r \in Request : answer'[r].kind \in {"refused", "forbidden"}}
OneMeeting ==
  LET sent == {r \in Request : pc'[r] # "unsent"} IN
  \/ /\ sent \subseteq Versions /\ TurnedAway = {} /\ profiles = Classified
     /\ clock' # clock => \E r \in Request : r.kind = "package" /\ pc[r] # pc'[r]
  \/ /\ clock' = 0 /\ Cardinality(TurnedAway) <= 1
     /\ \/ (sent \subseteq Keywords \/ sent \subseteq Confirmations) /\ profiles = Classified
        \/ sent \subseteq Classifications /\ f0 \notin profiles
=============================================================================
