---------------------------- MODULE SchemeGenerator ----------------------------
(* From the syntax tree to the graph of functional schemes: Interpreter::Eval *)
(* up to the evaluator, and FSchemeGenerator, which visits the tree, builds   *)
(* nodes bottom up on a stack, substitutes plain equations and instantiates   *)
(* recursive ones, funs and calls with functional parameters.                 *)
(* Source/FScheme/FSchemeGenerator.cpp, ConstructorGenerator.cpp,             *)
(* Source/Interpreter/Interpreter.cpp.  "work" is what the recursive visitor  *)
(* still has to do, the innermost call first.                                 *)
EXTENDS Semantic, Generator, TLC

CONSTANTS Programs,   \* the syntax trees considered
          LongOnes,   \* functions of the library registered as long
          MaxWork     \* bound: the C++ stack overflows beyond it

ASSUME SchemeGeneratorAssumption == MaxWork \in Nat

VARIABLES
  tree,                \* the program
  mConstructors,       \* ConstructorGenerator's table
  recursive,           \* the definitions RecursionFinder marked
  status,              \* where Interpreter::Eval is
  work,
  mNodeStack,
  mDefinitions,        \* the schemes instantiated in the current context
  mDefinitionsStack,
  nodes, functions,    \* the graph, as Generator describes it
  mProgram             \* the result

context == <<mDefinitions, mDefinitionsStack>>
graph   == <<nodes, functions>>
vars    == <<tree, mConstructors, recursive, status, work, mNodeStack, context, graph, mProgram>>

Translate(d)       == [do |-> "data", data |-> d]
Process(f, term)   == [do |-> "process", fun |-> f, term |-> term]
Build(term)        == [do |-> "build", fun |-> "", term |-> term]
Define(f, name)    == [do |-> "define", fun |-> f, name |-> name]
Close(scheme)      == [do |-> "close", scheme |-> scheme]
Enter(f)           == [do |-> "enter", name |-> f]
Leave(f)           == [do |-> "leave", name |-> f]
Known(name)        == [do |-> "known", name |-> name]
Bind(f)            == [do |-> "bind", name |-> f]
Return(f)          == [do |-> "return", name |-> f]
Conclude           == [do |-> "conclude"]
ApplyToInput       == [do |-> "apply"]

Init ==
  /\ tree \in Programs
  /\ status = "parsed" /\ mConstructors = << >> /\ recursive = {}
  /\ work = << >> /\ mNodeStack = << >>
  /\ mDefinitions = << >> /\ mDefinitionsStack = << >>
  /\ nodes = << >> /\ functions = << >> /\ mProgram = 0

(* getAST: a program with semantic errors is not run.                         *)
Check ==
  /\ status = "parsed"
  /\ IF Accepted(tree)
     THEN /\ status' = "generating"
          /\ work' = [i \in DOMAIN tree.data |-> Translate(tree.data[i])]
                     \o <<Enter(tree.scheme), Conclude>>
          /\ recursive' = BlockCycles(tree, tree.scheme, {})
     ELSE status' = "rejected" /\ UNCHANGED <<work, recursive>>
  /\ UNCHANGED <<tree, mConstructors, mNodeStack, context, graph, mProgram>>

-----------------------------------------------------------------------------
Pending(do) == status = "generating" /\ Len(work) \in 1..MaxWork /\ Head(work).do = do
Visits(op) == Pending("process") /\ Head(work).term.op = op
Builds(op) == Pending("build") /\ Head(work).term.op = op
Term       == Head(work).term

Proceed(items)  == work' = items \o Tail(work) /\ UNCHANGED <<tree, recursive, status, mProgram>>
Continue(items) == Proceed(items) /\ UNCHANGED mConstructors
Throw ==
  /\ status' = "failed"
  /\ UNCHANGED <<tree, mConstructors, recursive, work, mNodeStack, context, graph, mProgram>>

(* The n nodes on top of the stack give way to the last of the new ones.      *)
Replace(n, new) ==
  /\ nodes' = nodes \o new
  /\ mNodeStack' = Append(SubSeq(mNodeStack, 1, Len(mNodeStack) - n), Len(nodes) + Len(new))
TopNode(k) == mNodeStack[Len(mNodeStack) - k]
PushNode(node) == Replace(0, <<node>>) /\ Continue(<< >>) /\ UNCHANGED <<context, functions>>

(* ConstructorGenerator.  The types of a field's own parameters are not kept  *)
(* apart, for matchType does not compare them.  The types in the old notation *)
(* stay in mTypeTuple and become fields of the block's first constructor.     *)
TypeTuple(fields) ==
  [i \in DOMAIN fields |-> [param |-> fields[i].op = "param", name |-> fields[i].name]]
HandleData ==
  LET d == Head(work).data
      left == FlattenSeq(d.old)
      Fields(i) == TypeTuple(IF i = 1 THEN left \o d.variants[1].fields ELSE d.variants[i].fields)
      made == [c \in {d.variants[i].name : i \in DOMAIN d.variants} |->
                 LET i == CHOOSE k \in DOMAIN d.variants : d.variants[k].name = c
                 IN [name |-> c, type |-> d.name, fields |-> Fields(i)]]
  IN /\ Pending("data")
     /\ mConstructors' = mConstructors @@ made
     /\ Proceed(<< >>)
     /\ UNCHANGED <<mNodeStack, context, graph>>

HandleConstant == Visits("constant") /\ PushNode(ConstantNode(Term.value))

(* [0] is the empty tuple.                                                    *)
HandleTake ==
  /\ Visits("take")
  /\ PushNode(IF Term.from = 0 /\ Term.to = 0 THEN TakeNode(2, 1)
              ELSE TakeNode(Term.from, Term.to))

HandleBuiltIn == Visits("builtin") /\ PushNode(FunctionNode(Term.name, Term.name \in LongOnes))

(* getConstructor throws if there is none of that name.                       *)
HandleConstructor ==
  \E op \in {"constructor", "destructor"} :
    /\ Visits(op)
    /\ IF Term.name \notin DOMAIN mConstructors THEN Throw
       ELSE PushNode(FunctionNode(IF op = "destructor" THEN "~" \o Term.name ELSE Term.name,
                               FALSE))

HandleInputVar ==
  LET of == SelectSeq(tree.vars, LAMBDA v : v.name = Term.name)
  IN /\ Visits("var")
     /\ IF of = << >> THEN Throw
        ELSE /\ Continue(<<Process("", Head(of).term)>>)
             /\ UNCHANGED <<mNodeStack, context, graph>>

(* NodeVisitor: the kids first.  A condition visits its else branch before    *)
(* its then branch.                                                           *)
VisitOrder(term) ==
  IF term.op = "condition" /\ Len(term.kids) = 3
  THEN <<term.kids[1], term.kids[3], term.kids[2]>> ELSE term.kids
HandleKids ==
  /\ \E op \in {"sequential", "composition", "condition", "variant"} : Visits(op)
  /\ LET kids == VisitOrder(Term)
     IN Continue([i \in DOMAIN kids |-> Process(Head(work).fun, kids[i])] \o <<Build(Term)>>)
  /\ UNCHANGED <<mNodeStack, context, graph>>

(* "So that the tree branches to the left only": A . (B . C) is turned into   *)
(* (A . B) . C, at this node.                                                 *)
BuildSequential ==
  LET second == TopNode(0)
      first  == TopNode(1)
      right  == nodes[second]
  IN /\ Builds("sequential")
     /\ IF right.kind = "sequential"
        THEN Replace(2, <<SequentialNode(first, right.fst),
                          SequentialNode(Len(nodes) + 1, right.snd)>>)
        ELSE Replace(2, <<SequentialNode(first, second)>>)
     /\ Continue(<< >>)
     /\ UNCHANGED <<context, functions>>

BuildComposition ==
  /\ Builds("composition")
  /\ Replace(2, <<ParallelNode(TopNode(1), TopNode(0))>>)
  /\ Continue(<< >>)
  /\ UNCHANGED <<context, functions>>

BuildVariant == Builds("variant") /\ Throw

(* Without an else branch there is one that pushes an undefined value.        *)
BuildCondition ==
  /\ Builds("condition")
  /\ IF Len(Term.kids) = 3
     THEN Replace(3, <<ConditionNode(TopNode(2), TopNode(0), TopNode(1))>>)
     ELSE Replace(2, <<FunctionNode("undefined", FALSE),
                       ConditionNode(TopNode(1), TopNode(0), Len(nodes) + 1)>>)
  /\ Continue(<< >>)
  /\ UNCHANGED <<context, functions>>

-----------------------------------------------------------------------------
(* processFunctionalTerm.  A plain equation is substituted; a recursive one   *)
(* or a fun is instantiated when the context has no scheme of that name; what *)
(* is left can only be a functional parameter.                                *)
Substituted(target) == target.op = "equation" /\ target \notin recursive
(* Mutant: whatever is in the context is instantiated again.                  *)
MissingAlways(target, name) == target.op \in {"equation", "fun"}
Missing(target, name) == target.op \in {"equation", "fun"} /\ name \notin DOMAIN mDefinitions
HandleName ==
  LET name   == Term.name
      target == Resolve(tree, Head(work).fun, name)
      body   == getDefinition(tree, target.fun, name).term
      make   == IF target.op = "fun" THEN Enter(name) ELSE Define(target.fun, name)
  IN /\ Visits("name")
     /\ Continue(IF Substituted(target) THEN <<Process(target.fun, body)>>
                 ELSE IF Missing(target, name) THEN <<make, Known(name)>>
                 ELSE <<Known(name)>>)
     /\ UNCHANGED <<mNodeStack, context, graph>>

(* mDefinitions.at(name) goes on the stack, or out_of_range is thrown.        *)
PushKnown ==
  LET name == Head(work).name
  IN /\ Pending("known")
     /\ IF name \notin DOMAIN mDefinitions THEN Throw
        ELSE /\ mNodeStack' = Append(mNodeStack, mDefinitions[name])
             /\ Continue(<< >>)
             /\ UNCHANGED <<context, graph>>

(* handle(DefinitionNode): a scheme without a body yet, entered in the        *)
(* context under its name so that its own body finds it.                      *)
DefineEquation ==
  LET it == Head(work)
      me == Len(nodes) + 1
  IN /\ Pending("define")
     /\ nodes' = Append(nodes, SchemeNode(me))
     /\ mDefinitions' = mDefinitions @@ (it.name :> me)
     /\ Continue(<<Process(it.fun, getDefinition(tree, it.fun, it.name).term), Close(me)>>)
     /\ UNCHANGED <<mNodeStack, mDefinitionsStack, functions>>

CloseEquation ==
  /\ Pending("close")
  /\ functions' = functions @@ (Head(work).scheme :> TopNode(0))
  /\ mNodeStack' = Front(mNodeStack)
  /\ Continue(<< >>)
  /\ UNCHANGED <<context, nodes>>

(* handle(FunctionNode) of a block without parameters: its main equation in a *)
(* context of its own, then the block's scheme in the one around it.          *)
EnterBlock ==
  LET f == Head(work).name
  IN /\ Pending("enter")
     /\ mDefinitionsStack' = Append(mDefinitionsStack, mDefinitions)
     /\ mDefinitions' = << >>
     /\ Continue(<<Define(f, f), Leave(f)>>)
     /\ UNCHANGED <<mNodeStack, graph>>

LeaveBlock ==
  LET f == Head(work).name
  IN /\ Pending("leave")
     /\ mDefinitions' = Last(mDefinitionsStack) @@ (f :> mDefinitions[f])
     /\ mDefinitionsStack' = Front(mDefinitionsStack)
     /\ Continue(<< >>)
     /\ UNCHANGED <<mNodeStack, graph>>

(* FuncObjectWithParameters: the arguments first, in the caller's context.    *)
HandleCall ==
  /\ Visits("call")
  /\ Continue([i \in DOMAIN Term.kids |-> Process(Head(work).fun, Term.kids[i])]
              \o <<Bind(Term.name)>>)
  /\ UNCHANGED <<mNodeStack, context, graph>>

(* Each becomes a scheme, unless it is one, and is the definition of its      *)
(* formal parameter in a new context, where the block is instantiated anew.   *)
(* The stack gives the last argument first, the list of formal parameters its *)
(* last one too.  Mutants: the stack gives the first; no argument is wrapped.  *)
ArgumentReversed(n, i) == TopNode(i - 1)
Argument(n, i) == TopNode(n - i)
BareNone(n) == {}
Bare(n) == {i \in 1..n : nodes[Argument(n, i)].kind # "scheme"}
BindParameters ==
  LET f       == Head(work).name
      formals == tree.blocks[f].formals
      n       == Len(formals)
      bare    == Bare(n)
      wrapper == [i \in bare |-> Len(nodes) + Cardinality({k \in bare : k >= i})]
  IN /\ Pending("bind")
     /\ nodes' = nodes \o [k \in 1 .. Cardinality(bare) |-> SchemeNode(Len(nodes) + k)]
     /\ functions' = functions @@ [s \in {wrapper[i] : i \in bare} |->
                                     Argument(n, CHOOSE i \in bare : wrapper[i] = s)]
     /\ mNodeStack' = SubSeq(mNodeStack, 1, Len(mNodeStack) - n)
     /\ mDefinitionsStack' = Append(mDefinitionsStack, mDefinitions)
     /\ mDefinitions' = [x \in ToSet(formals) |->
          LET i == CHOOSE k \in 1..n : formals[k] = x
          IN IF i \in bare THEN wrapper[i] ELSE Argument(n, i)]
     /\ Continue(<<Define(f, f), Return(f)>>)

(* The scheme of the instance is the term's; the caller's context returns.    *)
(* Mutant: the instance's context stays.                                      *)
ReturnWithoutRestore ==
  /\ Pending("return")
  /\ mNodeStack' = Append(mNodeStack, mDefinitions[Head(work).name])
  /\ Continue(<< >>)
  /\ UNCHANGED <<context, graph>>
ReturnScheme ==
  /\ Pending("return")
  /\ mNodeStack' = Append(mNodeStack, mDefinitions[Head(work).name])
  /\ mDefinitions' = Last(mDefinitionsStack)
  /\ mDefinitionsStack' = Front(mDefinitionsStack)
  /\ Continue(<< >>)
  /\ UNCHANGED graph

-----------------------------------------------------------------------------
(* handle(FunctionalProgram): the scheme, applied to the input if there is    *)
(* some.                                                                      *)
Finish(main) ==
  /\ mProgram' = main /\ status' = "done" /\ work' = << >>
  /\ UNCHANGED <<tree, mConstructors, recursive>>
ConcludeScheme ==
  /\ Pending("conclude")
  /\ IF tree.input = << >>
     THEN Finish(mDefinitions[tree.scheme])
     ELSE Continue(<<Process("", tree.input[1]), ApplyToInput>>)
  /\ UNCHANGED <<mNodeStack, context, graph>>

ApplyScheme ==
  /\ Pending("apply")
  /\ nodes' = Append(nodes, SequentialNode(TopNode(0), mDefinitions[tree.scheme]))
  /\ mNodeStack' = Front(mNodeStack)
  /\ Finish(Len(nodes) + 1)
  /\ UNCHANGED <<context, functions>>

(* The visitor recurses on the C++ stack.                                     *)
Overflow ==
  /\ status = "generating" /\ Len(work) > MaxWork
  /\ status' = "overflow"
  /\ UNCHANGED <<tree, mConstructors, recursive, work, mNodeStack, context, graph, mProgram>>

Next ==
  \/ Check \/ HandleData \/ Overflow
  \/ HandleConstant \/ HandleTake \/ HandleBuiltIn \/ HandleConstructor \/ HandleInputVar
  \/ HandleKids \/ BuildSequential \/ BuildComposition \/ BuildVariant \/ BuildCondition
  \/ HandleName \/ HandleCall \/ PushKnown \/ DefineEquation \/ CloseEquation
  \/ EnterBlock \/ LeaveBlock \/ BindParameters \/ ReturnScheme
  \/ ConcludeScheme \/ ApplyScheme

Spec == Init /\ [][Next]_vars

-----------------------------------------------------------------------------
(* Properties                                                                *)

(* Every variable has its type: the stacks and contexts refer to nodes, a     *)
(* node's children come before it, and only schemes have bodies and names.    *)
TypeOK ==
  /\ status \in {"parsed", "rejected", "generating", "failed", "overflow", "done"}
  /\ \A c \in DOMAIN mConstructors :
       /\ mConstructors[c].name = c /\ mConstructors[c].type \in {d.name : d \in ToSet(tree.data)}
       /\ \A i \in DOMAIN mConstructors[c].fields : mConstructors[c].fields[i].param \in BOOLEAN
  /\ ToSet(mNodeStack) \subseteq DOMAIN nodes /\ mProgram \in {0} \cup DOMAIN nodes
  /\ \A c \in {mDefinitions} \cup ToSet(mDefinitionsStack) : \A x \in DOMAIN c :
       c[x] \in DOMAIN nodes /\ nodes[c[x]].kind = "scheme"
  /\ \A i \in DOMAIN nodes : RefersBack(nodes[i], i)
  /\ \A i \in DOMAIN functions : functions[i] \in DOMAIN nodes /\ nodes[i].kind = "scheme"
  /\ status = "done" =>
       WellBuilt([nodes |-> nodes, functions |-> functions, main |-> mProgram])

(* What is left to do takes from the two stacks exactly what is on them, in   *)
(* every nesting of substitutions, instances and parameters: no handler pops  *)
(* a node that another one pushed for itself or meets an empty stack, and     *)
(* every context that was left aside comes back.                              *)
Gain(item) ==
  CASE item.do \in {"process", "known", "return"} -> 1
    [] item.do \in {"close", "apply"} -> -1
    [] item.do = "build" -> 1 - Len(item.term.kids)
    [] item.do = "bind"  -> 1 - Len(tree.blocks[item.name].formals)
    [] OTHER -> 0
StacksMatchWork ==
  status \in {"generating", "done"} =>
    /\ Len(mNodeStack) + FoldSeq(LAMBDA item, sum : Gain(item) + sum, 0, work) = 0
    /\ Len(mDefinitionsStack) =
         Len(SelectSeq(work, LAMBDA item : item.do \in {"leave", "return"}))
=============================================================================
