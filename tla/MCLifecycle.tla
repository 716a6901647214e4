---------------------------- MODULE MCLifecycle ----------------------------
(* EvaluatorLifecycle for a fixed number of workers and tasks.               *)
EXTENDS EvaluatorLifecycle
=============================================================================
