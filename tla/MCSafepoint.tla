---------------------------- MODULE MCSafepoint ----------------------------
(* GcSafepoint for a fixed set of workers.                                   *)
EXTENDS GcSafepoint
=============================================================================
