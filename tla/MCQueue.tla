------------------------------ MODULE MCQueue ------------------------------
(* WorkStealingQueue on small instances: which pushes find room depends on   *)
(* InitSize, which the configurations choose.                                *)
EXTENDS WorkStealingQueue
=============================================================================
