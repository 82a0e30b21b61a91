---------------------------- MODULE MCLlmWorker ----------------------------
(* Turn 2 is the arrival turn of action 1: it shares its charge key.       *)
EXTENDS LlmWorker

MCKey == [t \in Turns |-> IF t = 2 THEN 1 ELSE t]
=============================================================================
