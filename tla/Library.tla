-------------------------------- MODULE Library --------------------------------
(* The function libraries on integers, booleans, undefined values and ADTs.   *)
(* Source/Libraries/StandardLib.cpp, LogicLib.cpp, FunctionLibrary.cpp, the   *)
(* operations of Source/DataTypes/Ops and the constructors of ADTValue.cpp.   *)
(* The build is the one of Macros.h, with its checks.  Numbers stay far from  *)
(* the ends of int64_t.  A call returns the values it pushes, or throws.      *)
EXTENDS Integers, Sequences, SequencesExt

CONSTANTS Fault,   \* what a call that throws is taken to return
          Slow     \* a name: a long function that returns its arguments

-----------------------------------------------------------------------------
(* DataBuilders: a DataValue is its Ops and the union beside it.              *)
createInt(n)          == [ops |-> "Int", mIntVal |-> n]
createBoolean(b)      == [ops |-> "Boolean", mIntVal |-> IF b THEN 1 ELSE 0]
createUndefinedValue  == [ops |-> "Undefined", mIntVal |-> 0]
createADT(ctor, vals) ==
  [ops |-> "ADT", ctor |-> [name |-> ctor.name, type |-> ctor.type], values |-> vals]

opsCheck(ops, val) == val.ops = ops

(* Operations BaseOps leaves undefined throw for every type of value.         *)
Arithmetic == {"add", "sub", "mul", "div", "mod"}
Comparison == {"equal", "nequal", "greater", "gequal", "less", "lequal"}
Defines(ops, fn) ==
  \/ ops = "Int" /\ fn \in Arithmetic \cup Comparison
  \/ ops \in {"Boolean", "Undefined"} /\ fn \in {"equal", "nequal"}

(* C++ division truncates towards zero.                                       *)
Magnitude(n)  == IF n < 0 THEN -n ELSE n
Quotient(l, r) ==
  LET q == Magnitude(l) \div Magnitude(r) IN IF (l < 0) = (r < 0) THEN q ELSE -q

IntegerOps(fn, l, r) ==
  CASE fn = "sub" -> l - r
    [] fn = "mul" -> l * r
    [] fn = "div" -> Quotient(l, r)
    [] fn = "mod" -> l - r * Quotient(l, r)

(* equal of undefined values is false, so nequal of them is true; gequal and  *)
(* lequal are the negations of less and greater.                              *)
Holds(fn, l, r) ==
  LET eq == IF l.ops = "Undefined" THEN FALSE ELSE l.mIntVal = r.mIntVal
  IN CASE fn = "equal"   -> eq
       [] fn = "nequal"  -> ~eq
       [] fn = "less"    -> l.mIntVal < r.mIntVal
       [] fn = "gequal"  -> ~(l.mIntVal < r.mIntVal)
       [] fn = "greater" -> l.mIntVal > r.mIntVal
       [] fn = "lequal"  -> ~(l.mIntVal > r.mIntVal)

(* Not, And, Or and Xor work on toInt of booleans.                            *)
Logic(fn, l, r) ==
  CASE fn = "and" -> l * r # 0
    [] fn = "or"  -> l + r # 0
    [] fn = "xor" -> l # r

-----------------------------------------------------------------------------
(* One operator per signature; getArg throws when an argument is missing.     *)
Add(args) ==
  IF /\ args # << >> /\ Defines(args[1].ops, "add")
     /\ \A i \in DOMAIN args : opsCheck(args[1].ops, args[i])
  THEN <<createInt(FoldSeq(LAMBDA v, sum : v.mIntVal + sum, 0, args))>>
  ELSE Fault

Binary(fn, args) ==
  IF /\ Len(args) >= 2 /\ opsCheck(args[1].ops, args[2]) /\ Defines(args[1].ops, fn)
     /\ fn \in {"div", "mod"} => args[2].mIntVal # 0
  THEN IF fn \in Comparison THEN <<createBoolean(Holds(fn, args[1], args[2]))>>
       ELSE <<createInt(IntegerOps(fn, args[1].mIntVal, args[2].mIntVal))>>
  ELSE Fault

Boolean(fn, args) ==
  IF /\ Len(args) >= 2 /\ opsCheck("Boolean", args[1]) /\ opsCheck("Boolean", args[2])
  THEN <<createBoolean(Logic(fn, args[1].mIntVal, args[2].mIntVal))>>
  ELSE Fault

Not(args) ==
  IF args # << >> /\ opsCheck("Boolean", args[1])
  THEN <<createBoolean(args[1].mIntVal = 0)>> ELSE Fault

Abs(args) ==
  IF args # << >> /\ args[1].ops = "Int"
  THEN <<createInt(Magnitude(args[1].mIntVal))>> ELSE Fault

ToInteger(args) ==
  IF args # << >> /\ args[1].ops \in {"Int", "Boolean"}
  THEN <<createInt(args[1].mIntVal)>> ELSE Fault

(* FunctionLibrary::getFunction: a name nobody has registered pushes an       *)
(* undefined value whenever it is called.                                     *)
getFunction(fn, args) ==
  CASE fn = "add"      -> Add(args)
    [] fn \in (Arithmetic \ {"add"}) \cup Comparison -> Binary(fn, args)
    [] fn \in {"and", "or", "xor"} -> Boolean(fn, args)
    [] fn = "not"      -> Not(args)
    [] fn = "abs"      -> Abs(args)
    [] fn = "toInt"    -> ToInteger(args)
    [] fn = "tupleLen" -> <<createInt(Len(args))>>
    [] fn = Slow       -> args
    [] OTHER           -> <<createUndefinedValue>>

-----------------------------------------------------------------------------
(* TypeInfo::matchType: a type parameter stands for any type, the same one    *)
(* everywhere; a type matches its name.  Parameters of types are not compared.*)
matchType(types, refs) ==
  \A i \in DOMAIN refs :
    \/ refs[i].param /\ \A k \in 1 .. i - 1 : refs[k] = refs[i] => types[k] = types[i]
    \/ ~refs[i].param /\ refs[i].name = types[i]

(* Constructor: its name, its type and the types of its fields.  A value       *)
(* points to its constructor, for which its name stands here.                  *)
getType(val) == IF val.ops = "ADT" THEN val.ctor.type ELSE val.ops

execConstructor(ctor, args) ==
  LET n == Len(ctor.fields) IN
  IF Len(args) >= n /\ matchType([i \in 1..n |-> getType(args[i])], ctor.fields)
  THEN <<createADT(ctor, SubSeq(args, 1, n))>> ELSE Fault

execDestructor(ctor, args) ==
  IF args = << >> THEN Fault
  ELSE IF args[1].ops = "ADT" /\ args[1].ctor.name = ctor.name THEN args[1].values
  ELSE <<createUndefinedValue>>
=============================================================================
