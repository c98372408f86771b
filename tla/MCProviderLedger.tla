-------------------------- MODULE MCProviderLedger --------------------------
(***************************************************************************)
(* Small instances of ProviderLedger: two calls of one key, a retry by the *)
(* caller of what may be recorded already; the same where one names a      *)
(* project that does not exist; or every way of being refused or answered  *)
(* without the network; each with two drains.                              *)
(***************************************************************************)
EXTENDS ProviderLedger

CONSTANTS k1, k2, k3, p1, nowhere

Ready(n, key, project) ==
  [id |-> n, key |-> key, project |-> project, adapter |-> "network", env |-> "ready",
   knownModel |-> TRUE, wellFormed |-> TRUE]
Other(n, key) == [Ready(n, key, p1) EXCEPT !.id = n]

Retries == {{Ready(1, k1, p1), Ready(2, k1, p1)}, {Ready(1, k1, p1), Ready(3, k1, nowhere)}}
Meetings ==
  {{[Other(5, k1) EXCEPT !.env = "off"], [Other(6, k2) EXCEPT !.env = "keyless"]},
   {[Other(7, k3) EXCEPT !.knownModel = FALSE]},
   {[Other(8, k3) EXCEPT !.wellFormed = FALSE], [Other(9, k3) EXCEPT !.adapter = "offline"]}}
  \cup Retries
MCCalls == UNION Meetings

\* The calls that are made in one run are those of one meeting, and of two drains
\* the first begins first.  A call alone meets every answer of the provider; of two
\* with one key each is posted once and answered with an article or not at all.
OneMeeting ==
  LET sent == {c \in Call : pc'[c] # "unsent"} IN
  /\ \E M \in Meetings : sent \subseteq M
  /\ drain'[2] # "idle" => drain'[1] # "idle"
  /\ sent \in Retries =>
       \A c \in sent : /\ attempt'[c] <= 1
                      /\ reply'[c][1] \in {"none", "2xx"}
                      /\ record'[c].prompt = record'[c].completion
                      /\ answer'[c] \in {"none", "CONTENT", "TIMEOUT"}
=============================================================================
