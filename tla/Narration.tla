------------------------------ MODULE Narration ------------------------------
(***************************************************************************)
(* What the narration of a turn promises its player, with no worker, lock  *)
(* or poll: a committed turn waits for its text until the text is there or *)
(* the server says that it failed; only the player asks again, and only    *)
(* after a failure; nobody waits for ever. LlmWorker implements it.        *)
(***************************************************************************)
CONSTANT Turns

VARIABLE text       \* [Turns -> "none", "waiting", "ready" or "failed"]

Init == text = [t \in Turns |-> "none"]

Move(t, from, to) ==
  /\ text[t] = from
  /\ text' = [text EXCEPT ![t] = to]

Request(t) == Move(t, "none", "waiting")
Deliver(t) == Move(t, "waiting", "ready")
Fail(t) == Move(t, "waiting", "failed")

\* The text was delivered, but what the server does after it went wrong.
Withdraw(t) == Move(t, "ready", "failed")
Retry(t) == Move(t, "failed", "waiting")

Next == \E t \in Turns : Request(t) \/ Deliver(t) \/ Fail(t) \/ Withdraw(t) \/ Retry(t)

\* What may never happen; Spec adds that the waiting ends.
Safe == Init /\ [][Next]_text

Spec ==
  /\ Safe
  /\ \A t \in Turns : WF_text(Deliver(t) \/ Fail(t))
=============================================================================
