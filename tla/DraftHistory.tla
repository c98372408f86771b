---------------------------- MODULE DraftHistory ----------------------------
(***************************************************************************)
(* What the compiler promises of article drafts: each brief has a history  *)
(* of drafts, version i at position i, which only ever grows by one draft  *)
(* at its end (compile/route.ts, "append-only: each call produces a NEW    *)
(* draft with an incremented version; no existing draft is mutated").      *)
(***************************************************************************)
EXTENDS Sequences

CONSTANTS Brief, Author
VARIABLE history   \* history[b]: who compiled the drafts of b, in version order

Init == history = [b \in Brief |-> <<>>]
Extend(b, a) == history' = [history EXCEPT ![b] = Append(@, a)]
Next == \E b \in Brief, a \in Author : Extend(b, a)
Spec == Init /\ [][Next]_history
=============================================================================
