---------------------------- MODULE MCCollector ----------------------------
(* GcCollector with a handful of objects; ADTs are interchangeable.          *)
EXTENDS GcCollector, TLC

ADTSymmetry == Permutations(Objects \ Arrays)
=============================================================================
