------------------------------- MODULE Generator -------------------------------
(* Generator: a graph of functional schemes becomes the internal form.       *)
(* Source/InternalForm/Generator.*, Source/FScheme/FScheme.*.                 *)
(* A program is a record: "nodes", its scheme nodes in the order of their     *)
(* construction (children first), "functions", from the name of an FScheme to *)
(* its firstNode, and "main".  A node names its kind and its children by      *)
(* their positions in "nodes".                                                *)
EXTENDS Integers, Sequences

ParallelNode(left, right)  == [kind |-> "parallel", left |-> left, right |-> right]
SequentialNode(fst, snd)   == [kind |-> "sequential", fst |-> fst, snd |-> snd]
ConditionNode(cond, then, else) ==
  [kind |-> "condition", cond |-> cond, then |-> then, else |-> else]
SchemeNode(name)           == [kind |-> "scheme", name |-> name]
FunctionNode(name, isLong) == [kind |-> "function", name |-> name, isLong |-> isLong]
TakeNode(from, to)         == [kind |-> "take", from |-> from, to |-> to]
ConstantNode(value)        == [kind |-> "constant", value |-> value]

Children(node) ==
  {node[f] : f \in DOMAIN node \cap {"left", "right", "fst", "snd", "cond", "then", "else"}}

(* A graph is built from its leaves up: a constructor is given nodes that     *)
(* exist.  A FScheme has its firstNode before the program is done.            *)
RefersBack(node, i) ==
  \/ node.kind = "parallel"   /\ {node.left, node.right} \subseteq 1 .. i - 1
  \/ node.kind = "sequential" /\ {node.fst, node.snd} \subseteq 1 .. i - 1
  \/ node.kind = "condition"  /\ {node.cond, node.then, node.else} \subseteq 1 .. i - 1
  \/ node.kind = "take"       /\ {node.from, node.to} \subseteq Int
  \/ node.kind \in {"scheme", "function", "constant"}
WellBuilt(p) ==
  /\ Len(p.nodes) \in Nat /\ DOMAIN p.nodes = 1 .. Len(p.nodes)
  /\ \A i \in DOMAIN p.nodes :
       /\ RefersBack(p.nodes[i], i)
       /\ p.nodes[i].kind = "scheme" => p.nodes[i].name \in DOMAIN p.functions
  /\ \A name \in DOMAIN p.functions : p.functions[name] \in DOMAIN p.nodes
  /\ p.main \in DOMAIN p.nodes

(* isLong(): does a node deserve a task of its own?  An FScheme is long until *)
(* setFirstNode gives it its body, which the nodes inside the body see.       *)
IsLong(p) ==
  LET long[i \in DOMAIN p.nodes] ==
        LET node == p.nodes[i] IN
        \/ node.kind = "function" /\ node.isLong
        \/ node.kind = "scheme" /\ (p.functions[node.name] > i \/ long[p.functions[node.name]])
        \/ \E c \in Children(node) : long[c]
  IN long

(* Nodes of the internal form.  A node and all that its mNext leads to is a   *)
(* code, a sequence of nodes; the empty one is EndOp.  A branch is one code   *)
(* or none, the null pointer.                                                 *)
NoBranch     == << >>
Branch(code) == <<code>>
ParFork(right)           == [op |-> "ParFork", forks |-> <<right>>]
ParJoin                  == [op |-> "ParJoin"]
SeqBegin                 == [op |-> "SeqBegin"]
SeqAdvance               == [op |-> "SeqAdvance"]
SeqEnd                   == [op |-> "SeqEnd"]
CondStart(then, else)    == [op |-> "CondStart", forks |-> then \o else]
CondChoose(then, else)   == [op |-> "CondChoose", then |-> then, else |-> else]
RecFn(name)              == [op |-> "RecFn", name |-> name]
Ret                      == [op |-> "Ret"]
BasicFn(name)            == [op |-> "BasicFn", name |-> name]
GetArg(from, to)         == [op |-> "GetArg", from |-> from, to |-> to]
Constant(value)          == [op |-> "Constant", value |-> value]

(* FParallelNode: a fork if both operands are long, else one after the other. *)
ParallelSpan(left, right, fork) ==
  IF fork THEN <<ParFork(right)>> \o left \o <<ParJoin>> ELSE left \o right

(* FSequentialNode: a chain (..(A . B) . C) gets one frame for all its links. *)
(* Mutant: the chain is closed by the rest of the program only.               *)
ChainSpanOpen(links) == <<SeqBegin>> \o links
ChainSpan(links)     == <<SeqBegin>> \o links \o <<SeqEnd>>
LinkSpan(fst, snd)   == fst \o <<SeqAdvance>> \o snd

(* FConditionNode: with a long condition, long branches are speculated on.    *)
ConditionSpan(cond, then, else, forkThen, forkElse) ==
  LET Forked(code, fork) == IF fork THEN Branch(code) ELSE NoBranch
      Inline(code, fork) == IF fork THEN NoBranch ELSE Branch(code)
  IN  <<CondStart(Forked(then, forkThen), Forked(else, forkElse))>> \o cond
      \o <<CondChoose(Inline(then, forkThen), Inline(else, forkElse))>>

(* createSpan of every node.  link[i] is the code of node i at the head of a  *)
(* chain, which its chain's SeqBegin has opened; elsewhere a sequential node  *)
(* is a chain of its own.                                                     *)
Framed(node, code) == IF node.kind = "sequential" THEN ChainSpan(code) ELSE code

LinkOf(p, proactive, long, link, i) ==
  LET node  == p.nodes[i]
      Of(c) == Framed(p.nodes[c], link[c])
      forks == proactive /\ long[node.cond]
  IN CASE node.kind = "parallel" ->
            ParallelSpan(Of(node.left), Of(node.right), long[node.left] /\ long[node.right])
       [] node.kind = "sequential" -> LinkSpan(link[node.fst], Of(node.snd))
       [] node.kind = "condition" ->
            ConditionSpan(Of(node.cond), Of(node.then), Of(node.else),
                          forks /\ long[node.then], forks /\ long[node.else])
       [] node.kind = "scheme"   -> <<RecFn(node.name)>>
       [] node.kind = "function" -> <<BasicFn(node.name)>>
       [] node.kind = "take"     -> <<GetArg(node.from, node.to)>>
       [] node.kind = "constant" -> <<Constant(node.value)>>

Spans(p, proactive) ==
  LET long == IsLong(p)
      link[i \in DOMAIN p.nodes] == LinkOf(p, proactive, long, link, i)
  IN [i \in DOMAIN p.nodes |-> Framed(p.nodes[i], link[i])]

(* generate(): the main code, and for each FScheme the code its calls jump to *)
(* once resolveRec has run.                                                   *)
Generate(p, proactive) ==
  LET span == Spans(p, proactive) IN
  [main      |-> span[p.main],
   functions |-> [name \in DOMAIN p.functions |-> span[p.functions[name]] \o <<Ret>>]]
=============================================================================
