-------------------------------- MODULE Syntax --------------------------------
(* The syntax tree of an FPTL program, as Source/Parser/parser.yy builds it    *)
(* from the nodes of Source/Parser/Nodes.h.  A program is a record: "data",    *)
(* its data blocks; "blocks", from the name of the scheme or of a fun to its   *)
(* node; "scheme", the name of the scheme; and the application: "vars", "run"  *)
(* (the name after %) and "input" (<< >> or one term).  Every fun has a name   *)
(* of its own.                                                                 *)
EXTENDS Naturals, Sequences, FiniteSets

(* Terms.  A condition has two or three kids: the grammar's order.            *)
ConstantTerm(value)     == [op |-> "constant", value |-> value]
TakeTerm(from, to)      == [op |-> "take", from |-> from, to |-> to]
BuiltInTerm(name)       == [op |-> "builtin", name |-> name]
ConstructorTerm(name)   == [op |-> "constructor", name |-> name]
DestructorTerm(name)    == [op |-> "destructor", name |-> name]
NameTerm(name)          == [op |-> "name", name |-> name]
CallTerm(name, args)    == [op |-> "call", name |-> name, kids |-> args]
InputVarTerm(name)      == [op |-> "var", name |-> name]
SequentialTerm(l, r)    == [op |-> "sequential", kids |-> <<l, r>>]
CompositionTerm(l, r)   == [op |-> "composition", kids |-> <<l, r>>]
ConditionTerm(c, t, e)  == [op |-> "condition", kids |-> <<c, t, e>>]
IfThenTerm(c, t)        == [op |-> "condition", kids |-> <<c, t>>]
VariantTerm(l, r)       == [op |-> "variant", kids |-> <<l, r>>]

(* A block's definitions: equations and funs, in the order of the source (the *)
(* lists are kept backwards and visited backwards).                           *)
Definition(name, term)     == [op |-> "equation", name |-> name, term |-> term]
ConstructionFun(name)      == [op |-> "fun", name |-> name]
FunctionBlock(formals, definitions) == [formals |-> formals, definitions |-> definitions]

(* Types, as the fields of constructors are written.                          *)
BaseType(name)       == [op |-> "base", name |-> name]
TypeName(name)       == [op |-> "type", name |-> name]
Template(name, args) == [op |-> "template", name |-> name, kids |-> args]
TypeParameter(name)  == [op |-> "param", name |-> name]

(* Data name <params> { Constructors { old } name = variants; }: constructors  *)
(* with their fields in the new notation, signatures in the old one.           *)
Variant(name, fields) == [name |-> name, fields |-> fields]
DataBlock(name, params, old, variants) ==
  [name |-> name, params |-> params, old |-> old, variants |-> variants]

Kids(term) == IF "kids" \in DOMAIN term THEN term.kids ELSE << >>

Equations(b)  == SelectSeq(b.definitions, LAMBDA d : d.op = "equation")
getFunctionNodes(b) == SelectSeq(b.definitions, LAMBDA d : d.op = "fun")

(* getDefinition: the equation of that name; the one named like the block is  *)
(* its main equation, written "@ = ...".                                      *)
getDefinition(p, f, name) ==
  CHOOSE d \in {Equations(p.blocks[f])[i] : i \in DOMAIN Equations(p.blocks[f])} : d.name = name

(* numParameters of a reference and of a block.                               *)
numParameters(term) == Len(Kids(term))
=============================================================================
