------------------------------- MODULE TurnLog -------------------------------
(***************************************************************************)
(* What a run promises about its history: it only grows, an action of the  *)
(* player appears in it at most once however often it was submitted, and   *)
(* the arrival turn the server writes by itself directly follows the       *)
(* action that caused it. TurnPipeline implements it.                      *)
(***************************************************************************)
EXTENDS Sequences

CONSTANT Keys       \* idempotency keys of the player's actions

VARIABLE log        \* [key, by]: the turn's own key (or "enter") and the action behind it

Init == log = <<>>

Act(k) ==
  /\ \A i \in DOMAIN log : log[i].key # k
  /\ log' = Append(log, [key |-> k, by |-> k])

Arrive ==
  /\ log # <<>>
  /\ log[Len(log)].key # "enter"
  /\ log' = Append(log, [key |-> "enter", by |-> log[Len(log)].key])

Next == Arrive \/ \E k \in Keys : Act(k)

Spec == Init /\ [][Next]_log
=============================================================================
