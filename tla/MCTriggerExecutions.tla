------------------------ MODULE MCTriggerExecutions -------------------------
(* Two authenticated callers and one execution, which may be replayed once. *)
EXTENDS TriggerExecutions
=============================================================================
