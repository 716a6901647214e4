---------------------------- MODULE MCInternalForm ----------------------------
(* Programs for the virtual machine.  A program is written as FPTL would,     *)
(* above the table of its nodes.                                              *)
EXTENDS SchemeSemantics

Lib == INSTANCE Library WITH Slow <- "slow"
MCUndefined == Lib!createUndefinedValue
MCFalse     == Lib!createBoolean(FALSE)
MCApply(fn, args) == Lib!getFunction(fn, args)
True        == Lib!createBoolean(TRUE)
Number(n)   == ConstantNode(Lib!createInt(n))

Add  == FunctionNode("add", FALSE)
Sub  == FunctionNode("sub", FALSE)
Less == FunctionNode("less", FALSE)
Slow == FunctionNode("slow", TRUE)       \* a long identity
Undef == FunctionNode("undefined", FALSE)
Program(nodes, functions) == [nodes |-> nodes, functions |-> functions, main |-> Len(nodes)]

(* fib = (([1] * 2) . less) -> [1],                                            *)
(*       ((([1] * 1) . sub . fib) * (([1] * 2) . sub . fib)) . add;   3 . fib *)
Fibonacci == Program(<<
  TakeNode(1, 1), Number(2), ParallelNode(1, 2), Less, SequentialNode(3, 4),
  Number(1), ParallelNode(1, 6), Sub, SchemeNode("fib"),
  SequentialNode(7, 8), SequentialNode(10, 9),
  SequentialNode(3, 8), SequentialNode(12, 9),
  ParallelNode(11, 13), Add, SequentialNode(14, 15),
  ConditionNode(5, 1, 16),
  Number(3), SchemeNode("fib"), SequentialNode(18, 19)>>, [fib |-> 17])

(* (a * b) . (([1] * [2]) . less . slow -> (([1] . slow) * ([2] . slow)) . sub, *)
(*                                         [1] . slow)                          *)
BothLong(a, b) == Program(<<
  TakeNode(1, 1), TakeNode(2, 2), ParallelNode(1, 2), Less, Slow,
  SequentialNode(3, 4), SequentialNode(6, 5),
  SequentialNode(1, 5), SequentialNode(2, 5), ParallelNode(8, 9), Sub, SequentialNode(10, 11),
  ConditionNode(7, 12, 8),
  Number(a), Number(b), ParallelNode(14, 15), SequentialNode(16, 13)>>, << >>)

(* 5 * ((a * b) . ((([1] * [2]) . less * v . slow) -> [1], (1 . sub) . slow)) * 6 *)
(* v is "true" or undefined; the long branch throws.                             *)
OneThrows(a, b, v) == Program(<<
  TakeNode(1, 1), TakeNode(2, 2), ParallelNode(1, 2), Less, SequentialNode(3, 4), Slow,
  v, SequentialNode(7, 6), ParallelNode(5, 8),
  Number(1), Sub, SequentialNode(10, 11), SequentialNode(12, 6),
  ConditionNode(9, 1, 13),
  Number(a), Number(b), ParallelNode(15, 16), SequentialNode(17, 14),
  Number(5), ParallelNode(19, 18), Number(6), ParallelNode(20, 21)>>, << >>)

(* (1 * 2 * 3) . (((([2 ... -1] . slow) * [-3] . slow) . [2 ... -1])             *)
(*                * ([1 ... 2] . (slow . (sub * [0]))) * [2])                   *)
Tuples == Program(<<
  Number(1), Number(2), ParallelNode(1, 2), Number(3), ParallelNode(3, 4),
  TakeNode(2, -1), Slow, SequentialNode(6, 7), TakeNode(-3, -3), SequentialNode(9, 7),
  ParallelNode(8, 10), SequentialNode(11, 6),
  TakeNode(1, 2), Sub, TakeNode(2, 1), ParallelNode(14, 15), SequentialNode(7, 16),
  SequentialNode(13, 17),
  ParallelNode(12, 18), TakeNode(2, 2), ParallelNode(19, 20), SequentialNode(5, 21)>>, << >>)

(* (1 . slow) * ((2 . slow) . sub): one operand throws.                         *)
Throws == Program(<<
  Number(1), Slow, SequentialNode(1, 2), Number(2), SequentialNode(4, 2), Sub,
  SequentialNode(5, 6), ParallelNode(3, 7)>>, << >>)

(* 5 . ((([1] * 0) . less . slow -> then, [1]) * double): the branch "then" is *)
(* canceled.  Stacked on a task that waits, it has something to rob.           *)
Beside(then) == Program(<<
  TakeNode(1, 1), Number(0), ParallelNode(1, 2), Less, Slow,
  SequentialNode(3, 4), SequentialNode(6, 5), ParallelNode(5, 5), Add, SequentialNode(8, 9),
  then, ConditionNode(7, 11, 1), ParallelNode(12, 10), Number(5), SequentialNode(14, 13)>>, << >>)
JoinsAnothers   == Beside(SequentialNode(8, 9))      \* it forks
CancelsAnothers == Beside(ConditionNode(7, 5, 1))    \* it speculates
JoinsItself == Program(<<
  TakeNode(1, 1), Number(0), ParallelNode(1, 2), Less, Slow,
  SequentialNode(3, 4), SequentialNode(6, 5), ParallelNode(5, 5), Add, SequentialNode(8, 9),
  ParallelNode(5, 10), ConditionNode(7, 11, 1), Number(5), SequentialNode(13, 12)>>, << >>)

AllPrograms == {Fibonacci, Tuples, Throws, BothLong(1, 2), BothLong(2, 1),
                OneThrows(1, 2, ConstantNode(True)), OneThrows(1, 2, Undef),
                OneThrows(2, 1, ConstantNode(True)), JoinsAnothers, CancelsAnothers, JoinsItself}

OneSpeculation == {BothLong(2, 1)}
=============================================================================
