---------------------------- MODULE SourceSemantics ----------------------------
(* What a program means by its text, with every name bound where it is        *)
(* written, and what the front end makes of it.                               *)
EXTENDS SchemeGenerator

CONSTANTS Fault, Slow, NoResult,
          Fuel   \* bound: names and schemes followed inside each other

ASSUME FuelAssumption == Fuel \in Nat

Lib == INSTANCE Library

(* A node of the graph calls a function of the library, or a constructor as   *)
(* the generator made it.                                                     *)
Call(fn, args) ==
  CASE fn \in DOMAIN mConstructors -> Lib!execConstructor(mConstructors[fn], args)
    [] \E c \in DOMAIN mConstructors : fn = "~" \o c ->
         Lib!execDestructor(mConstructors[CHOOSE c \in DOMAIN mConstructors : fn = "~" \o c], args)
    [] OTHER -> Lib!getFunction(fn, args)

Scheme == INSTANCE SchemeMeaning
            WITH Apply <- Call, Undefined <- Lib!createUndefinedValue,
                 False <- Lib!createBoolean(FALSE)

-----------------------------------------------------------------------------
(* What the text of the data blocks says of a constructor: it takes values of *)
(* the types written, one type for a parameter, and its destructor undoes it. *)
BlockOf(c) == CHOOSE d \in ToSet(tree.data) : \E v \in ToSet(d.variants) : v.name = c
FieldsOf(c) == (CHOOSE v \in ToSet(BlockOf(c).variants) : v.name = c).fields
Belongs(val, type) ==
  type.op \in {"type", "template"} => Lib!getType(val) = type.name
Constructed(c, args) ==
  LET fields == FieldsOf(c) IN
  IF /\ Len(args) >= Len(fields)
     /\ \A i \in DOMAIN fields : Belongs(args[i], fields[i])
     /\ \A i, k \in DOMAIN fields : fields[i].op = "param" /\ fields[i] = fields[k] =>
          Lib!getType(args[i]) = Lib!getType(args[k])
  THEN <<Lib!createADT([name |-> c, type |-> BlockOf(c).name], SubSeq(args, 1, Len(fields)))>>
  ELSE Fault
Destructed(c, args) ==
  IF args = << >> THEN Fault
  ELSE IF args[1].ops = "ADT" /\ args[1].ctor.name = c THEN args[1].values
  ELSE <<Lib!createUndefinedValue>>

(* The meaning of a term of block f; env gives, for each block that was       *)
(* called, what its formal parameters stand for: a term, and where that is.   *)
Closure(f, term, env) == [fun |-> f, term |-> term, env |-> env]

RECURSIVE Meaning(_, _, _, _, _)
Meaning(f, t, env, args, fuel) ==
  LET Of(term, tuple) == Meaning(f, term, env, tuple, fuel)
      Follow(g, term, e) == IF fuel = 0 THEN NoResult ELSE Meaning(g, term, e, args, fuel - 1)
      target == Resolve(tree, f, t.name)
      main(g) == getDefinition(tree, g, g).term
  IN CASE t.op = "composition" ->
            LET l == Of(t.kids[1], args)
                r == Of(t.kids[2], args)
            IN IF Scheme!Stuck(l) THEN l ELSE IF Scheme!Stuck(r) THEN r ELSE l \o r
       [] t.op = "sequential" ->
            LET middle == Of(t.kids[1], args)
            IN IF Scheme!Stuck(middle) THEN middle ELSE Of(t.kids[2], middle)
       [] t.op = "condition" ->
            LET verdict == Of(t.kids[1], args)
            IN IF Scheme!Stuck(verdict) THEN verdict
               ELSE IF Scheme!Holds(verdict) THEN Of(t.kids[2], args)
               ELSE IF Len(t.kids) = 3 THEN Of(t.kids[3], args)
               ELSE <<Lib!createUndefinedValue>>
       [] t.op = "name" /\ target.op = "equation" ->
            Follow(target.fun, getDefinition(tree, target.fun, t.name).term, env)
       [] t.op = "name" /\ target.op = "fun"    -> Follow(t.name, main(t.name), env)
       [] t.op = "name" /\ target.op = "formal" ->
            LET c == env[f][t.name] IN Follow(c.fun, c.term, c.env)
       [] t.op = "call" ->
            LET formals == tree.blocks[t.name].formals
                bound == [x \in ToSet(formals) |->
                            Closure(f, t.kids[CHOOSE i \in DOMAIN formals : formals[i] = x], env)]
            IN Follow(t.name, main(t.name), (t.name :> bound) @@ env)
       [] t.op = "builtin"     -> Lib!getFunction(t.name, args)
       [] t.op = "constructor" -> Constructed(t.name, args)
       [] t.op = "destructor"  -> Destructed(t.name, args)
       [] t.op = "constant"    -> <<t.value>>
       [] t.op = "var" -> Of(Head(SelectSeq(tree.vars, LAMBDA v : v.name = t.name)).term, args)
       [] t.op = "take" ->
            IF t.from = 0 /\ t.to = 0 THEN << >> ELSE Scheme!Element(args, t.from, t.to)

SourceResult(fuel) ==
  LET input == IF tree.input = << >> THEN << >> ELSE Meaning("", tree.input[1], << >>, << >>, fuel)
  IN Meaning(tree.scheme, NameTerm(tree.scheme), << >>, input, fuel)

GraphResult(fuel) ==
  Scheme!Meaning([nodes |-> nodes, functions |-> functions], mProgram, << >>, fuel)

-----------------------------------------------------------------------------
AllTerms == UNION {Terms(tree, f) : f \in DOMAIN tree.blocks}

(* A block inside another has a scheme, or a formal parameter, of the same     *)
(* name as one of the outer block.  The generator looks schemes up by name in  *)
(* the innermost context, so an outer equation that is substituted there finds *)
(* the inner one: the names of what is not substituted are bound dynamically.  *)
RECURSIVE Outer(_)
Outer(f) == Parents(tree, f) \cup UNION {Outer(g) : g \in Parents(tree, f)}
Looked(f) == {target.name : target \in {d \in ToSet(Local(tree, f)) : ~Substituted(d)}}
Captures == \E f \in DOMAIN tree.blocks : \E g \in Outer(f) : (Looked(f) \ {f}) \cap Looked(g) # {}

(* A constructor of the program takes nothing, or more than is written: one   *)
(* with a field of a base type, which the text calls "int" and the value      *)
(* "Int", and the first one of a block that also has the old notation.        *)
Misdeclared ==
  \E t \in AllTerms : t.op = "constructor" /\
    LET d == BlockOf(t.name) IN
      \/ \E field \in ToSet(FieldsOf(t.name)) : field.op = "base"
      \/ d.old # << >> /\ d.variants[1].name = t.name

(* The graph means what the text means: whatever was substituted, shared,     *)
(* instantiated or rotated, and in whichever context.                         *)
SchemeMeansSource ==
  status = "done" /\ ~Captures /\ ~Misdeclared =>
    LET source == SourceResult(Fuel)
        graphs == GraphResult(Fuel)
    IN /\ source # NoResult => graphs = source
       /\ graphs # NoResult => SourceResult(4 * Fuel) = graphs

-----------------------------------------------------------------------------
(* An equation of a block mentions a formal parameter of the block, and a     *)
(* nested block the equation.                                                 *)
RECURSIVE Mentions(_, _, _)
Mentions(f, t, seen) ==
  \E s \in SubTerms(t) :
    s.op \in {"name", "call"} /\
    LET target == Resolve(tree, f, s.name)
    IN \/ target.op = "formal"
       \/ target.op = "equation" /\ s.name \notin seen
          /\ Mentions(target.fun, getDefinition(tree, target.fun, s.name).term, seen \cup {s.name})
FormalEscapes ==
  \E f \in DOMAIN tree.blocks : \E s \in TermsList(tree, f) :
    LET target == Resolve(tree, f, s.name)
    IN target.op = "equation" /\ target.fun # f
       /\ Mentions(target.fun, getDefinition(tree, target.fun, s.name).term, {s.name})

(* The generator expects a correct tree: of those the checks accept, it fails *)
(* only on "+", on a destructor of nothing, on a type taken for a function,   *)
(* and where a formal parameter escapes through an equation.                  *)
AcceptedGenerates ==
  status = "failed" =>
    \/ \E t \in AllTerms : t.op = "variant"
    \/ \E t \in AllTerms : t.op = "destructor" /\ t.name \notin DOMAIN mConstructors
    \/ \E f \in DOMAIN tree.blocks : \E t \in TermsList(tree, f) :
         Resolve(tree, f, t.name).op = "type"
    \/ FormalEscapes

(* What the equation of a target, or the main equation of a block, refers to. *)
Uses(target) ==
  LET f == IF target.op = "fun" THEN target.name ELSE target.fun
      terms == IF target.op \in {"fun", "equation"}
               THEN SubTerms(getDefinition(tree, f, target.name).term) ELSE {}
  IN {Resolve(tree, f, t.name) : t \in {s \in terms : s.op \in {"name", "call"}}}
RECURSIVE Reaches(_, _, _)
Reaches(from, to, seen) ==
  \E next \in Uses(from) \ seen : next = to \/ Reaches(next, to, seen \cup {next})

(* Generation goes on for ever only where a fun is reached from itself other  *)
(* than by its own recursion: from another fun, or through an equation of its *)
(* parent.  Each instance has a context of its own, where what is around it   *)
(* is not known and is instantiated again.                                    *)
OverflowsOnlyOnCycles ==
  status = "overflow" =>
    \E f \in DOMAIN tree.blocks : \E d \in ToSet(Funs(tree, f)) : Reaches(d, d, {})
=============================================================================
