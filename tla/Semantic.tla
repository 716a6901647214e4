------------------------------- MODULE Semantic -------------------------------
(* The checks between the parser and the generator of schemes: NamesChecker   *)
(* finds the target of every name, RecursionFinder the equations that must    *)
(* not be substituted for their names.  Source/Parser/Semantic.cpp,           *)
(* SemanticCheck.h.                                                           *)
EXTENDS Syntax, SequencesExt

RECURSIVE SubTerms(_)
SubTerms(term) == {term} \cup UNION {SubTerms(Kids(term)[i]) : i \in DOMAIN Kids(term)}

Terms(p, f) == UNION {SubTerms(d.term) : d \in ToSet(Equations(p.blocks[f]))}

(* The names a block's equations refer to; destructors are not among them.    *)
TermsList(p, f) == {t \in Terms(p, f) : t.op \in {"name", "call", "constructor"}}

-----------------------------------------------------------------------------
(* A target is what a name may stand for: a definition and its block.         *)
Target(op, f, name) == [op |-> op, fun |-> f, name |-> name]
NoTarget == Target("undefined", "", "")

Named(op, f, definitions) ==
  [i \in DOMAIN definitions |-> Target(op, f, definitions[i].name)]

(* The DefinitionsList of a block: its funs first, then its equations as they *)
(* are visited, its formal parameters last.                                   *)
Funs(p, f)    == Named("fun", f, getFunctionNodes(p.blocks[f]))
Formals(p, f) == [i \in DOMAIN p.blocks[f].formals |-> Target("formal", f, p.blocks[f].formals[i])]
Local(p, f)   == Funs(p, f) \o Named("equation", f, Equations(p.blocks[f])) \o Formals(p, f)

(* mContextStack[0]: types, their constructors, and the scheme.               *)
DataNames(p) ==
  FlattenSeq([i \in DOMAIN p.data |-> <<Target("type", "", p.data[i].name)>>
                                      \o Named("constructor", "", p.data[i].variants)])
Global(p) == DataNames(p) \o <<Target("fun", "", p.scheme)>>

(* The block that a fun is defined in.                                        *)
Parents(p, f) ==
  {g \in DOMAIN p.blocks : \E i \in DOMAIN p.blocks[g].definitions :
     p.blocks[g].definitions[i] = ConstructionFun(f)}

(* The context that was pushed when a fun was entered has what its parent had *)
(* inserted so far: the equations before it, and no formal parameter.         *)
(* Mutant: its formal parameters too.                                         *)
InheritedFormals(p, f) == IF Parents(p, f) = {} THEN << >>
                          ELSE Local(p, CHOOSE h \in Parents(p, f) : TRUE)
Inherited(p, f) ==
  IF Parents(p, f) = {} THEN << >>
  ELSE LET g == CHOOSE h \in Parents(p, f) : TRUE
           all == p.blocks[g].definitions
           at == CHOOSE i \in DOMAIN all : all[i] = ConstructionFun(f)
           before == SelectSeq(SubSeq(all, 1, at - 1), LAMBDA d : d.op = "equation")
       IN Funs(p, g) \o Named("equation", g, before)

Find(targets, name) ==
  LET hits == SelectSeq(targets, LAMBDA t : t.name = name)
  IN IF hits = << >> THEN NoTarget ELSE Head(hits)

(* checkName: the block, its parent, the globals.                             *)
Resolve(p, f, name) == Find(Local(p, f) \o Inherited(p, f) \o Global(p), name)

Data(p, name) == CHOOSE d \in ToSet(p.data) : d.name = name
targetParameters(p, target) ==
  CASE target.op = "fun"  -> Len(p.blocks[target.name].formals)
    [] target.op = "type" -> Len(Data(p, target.name).params)
    [] OTHER -> 0

(* A name is in order if it stands for something with as many parameters.     *)
Checked(p, f, t) ==
  LET target == Resolve(p, f, t.name)
  IN target # NoTarget /\ numParameters(t) = targetParameters(p, target)

Duplicates(targets) ==
  \E i, k \in DOMAIN targets : i < k /\ targets[i].name = targets[k].name

BlockInOrder(p, f) ==
  /\ ~Duplicates(Local(p, f))
  /\ \E d \in ToSet(Equations(p.blocks[f])) : d.name = f
  /\ \A t \in TermsList(p, f) : Checked(p, f, t)

(* A data block: its parameters, and the types its fields name, which may be  *)
(* defined later.                                                             *)
Types(d) ==
  UNION {UNION {SubTerms(fields[i]) : i \in DOMAIN fields} :
           fields \in ToSet(d.old) \cup {v.fields : v \in ToSet(d.variants)}}
DataInOrder(p, d, known) ==
  /\ Cardinality(ToSet(d.params)) = Len(d.params)
  /\ \A t \in Types(d) :
       /\ t.op = "param" => t.name \in ToSet(d.params)
       /\ t.op \in {"type", "template"} =>
            LET target == Find(known, t.name)
            IN target # NoTarget /\ numParameters(t) = targetParameters(p, target)

(* The application: what is to run is a block, the values name what exists.   *)
ApplicationInOrder(p) ==
  LET vars  == Named("var", "", p.vars)
      known == Global(p) \o vars
      terms == UNION ({SubTerms(p.vars[i].term) : i \in DOMAIN p.vars}
                      \cup {SubTerms(p.input[i]) : i \in DOMAIN p.input})
  IN /\ ~Duplicates(known)
     /\ \A d \in ToSet(p.data) : DataInOrder(p, d, known)
     /\ Find(known, p.run).op = "fun"
     /\ targetParameters(p, Find(known, p.run)) = 0
     /\ \A t \in terms : t.op \in {"var", "constructor"} => Find(known, t.name) # NoTarget

Accepted(p) == (\A f \in DOMAIN p.blocks : BlockInOrder(p, f)) /\ ApplicationInOrder(p)

-----------------------------------------------------------------------------
(* RecursionFinder follows names from every equation; the name of an equation *)
(* it is inside of, whichever block that is in, makes its target recursive.   *)
(* Of a call only the arguments are followed.                                 *)
RECURSIVE TermCycles(_, _, _, _), BlockCycles(_, _, _)
EquationCycles(p, f, d, inside) == TermCycles(p, f, d.term, inside \cup {d.name})

BlockCycles(p, f, inside) ==
  UNION ({EquationCycles(p, f, d, inside) : d \in ToSet(Equations(p.blocks[f]))}
         \cup {BlockCycles(p, d.name, inside) : d \in ToSet(getFunctionNodes(p.blocks[f]))})

TermCycles(p, f, t, inside) ==
  IF t.op # "name" THEN UNION {TermCycles(p, f, Kids(t)[i], inside) : i \in DOMAIN Kids(t)}
  ELSE LET target == Resolve(p, f, t.name) IN
       IF t.name \in inside THEN {target}
       ELSE CASE target.op = "equation" ->
                   EquationCycles(p, target.fun, getDefinition(p, target.fun, t.name), inside)
              [] target.op = "fun" -> BlockCycles(p, t.name, inside)
              [] OTHER -> {}
=============================================================================
