---------------------------- MODULE MCScheduler ----------------------------
(* Programs for TaskScheduler.                                               *)
EXTENDS TaskScheduler

TaskNames == {"main", "a", "b", "c", "d"}
Program(code) == [t \in TaskNames |-> IF t \in DOMAIN code THEN code[t] ELSE << >>]

(* Parallel operands within parallel operands, and one after another.        *)
ForkJoin == Program(
  [main |-> <<Fork("a"), Fork("b"), Join("b"), Join("a")>>,
   a    |-> <<Fork("c"), Join("c")>>,
   b    |-> <<Fork("d"), Join("d")>>])

(* A condition whose branches "b" and "c" are both long, computed next to    *)
(* task "a", which has a condition whose false branch "d" alone is long.     *)
Branches == Program(
  [main |-> <<Fork("a"), Speculate("b"), Speculate("c"), Choose("b", "c"), Join("a")>>,
   a    |-> <<Speculate("d"), Choose(NoTask, "d")>>])

(* A condition whose true branch "c" forks "d", next to a task that forks.   *)
Nested == Program(
  [main |-> <<Fork("a"), Speculate("c"), Choose("c", NoTask), Join("a")>>,
   a    |-> <<Fork("b"), Join("b")>>,
   c    |-> <<Fork("d"), Join("d")>>])

AllPrograms == {ForkJoin, Branches, Nested}
=============================================================================
