---------------------------- MODULE SchemeSemantics ----------------------------
(* The virtual machine computes what the scheme means.                        *)
EXTENDS InternalForm

CONSTANT Fuel   \* calls inside each other: enough for every program

Scheme == INSTANCE SchemeMeaning WITH NoResult <- Fault

Expected == Scheme!Meaning(program, program.main, << >>, Fuel)

(* The program's result is what its scheme means, however its tasks were      *)
(* interleaved and whatever was speculated on; and a function that throws in  *)
(* a task the program needs throws in the scheme's meaning as well.           *)
ComputesMeaning ==
  /\ ctx[Main].status = "ended" => Results(ctx[Main]) = Expected
  /\ \A t \in thrower : ~ctx[t].proactive => Expected = Fault

(* "If the unneeded branch is long, we cancel its computation" (InternalForm. *)
(* cpp:138): speculating on it does not change what the program does.  A      *)
(* canceled task forks nothing any more, so its functions find too few        *)
(* arguments, throw, and the whole evaluation is aborted.                     *)
UnneededBranchHarmless == thrower # {} => Expected = Fault
=============================================================================
