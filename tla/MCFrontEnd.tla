------------------------------ MODULE MCFrontEnd ------------------------------
(* Programs for the front end: every choice of terms for a few shapes of      *)
(* blocks.                                                                    *)
EXTENDS SourceSemantics

Number(n)     == ConstantTerm(Lib!createInt(n))

N(name)       == NameTerm(name)
Seq2(l, r)    == SequentialTerm(l, r)
Par(l, r)     == CompositionTerm(l, r)
Arg(i)        == TakeTerm(i, i)
With(fn, n)   == Seq2(Par(Arg(1), Number(n)), BuiltInTerm(fn))
Inc           == With("add", 1)
Dec           == With("sub", 1)
IsZero        == With("equal", 0)
(* zero -> [1], dec . name                                                    *)
Down(name)    == ConditionTerm(IsZero, Arg(1), Seq2(Dec, N(name)))
(* zero -> name                                                               *)
OnlyZero(name) == IfThenTerm(IsZero, N(name))

(* Data List['t] { List = c_nil ++ 't * List['t] . c_cons; }                  *)
t_      == TypeParameter("'t")
NilCons == <<Variant("c_nil", << >>), Variant("c_cons", <<t_, Template("List", <<t_>>)>>)>>
List    == DataBlock("List", <<"'t">>, << >>, NilCons)
Plain   == DataBlock("Plain", << >>, << >>, <<Variant("c_plain", << >>)>>)

WithTypes(data, blocks, input) ==
  [data |-> data, blocks |-> blocks, scheme |-> "S", vars |-> <<Definition("v", Number(2))>>,
   run |-> "S", input |-> input]
Program(blocks, input) == WithTypes(<<Plain, List>>, blocks, input)
Two == <<InputVarTerm("v")>>
Def(name, term) == Definition(name, term)

(* Scheme S { @ = t1; A = t2; fun F<x, y> { @ = t3; B = t4; } }, with A        *)
(* before or after F.                                                         *)
CallF(x, y) == CallTerm("F", <<x, y>>)
WithFunctional ==
  {Program(
     [S |-> FunctionBlock(<< >>, <<Def("S", t1)>> \o (IF early THEN <<Def("A", t2)>> ELSE << >>)
              \o <<ConstructionFun("F")>> \o (IF early THEN << >> ELSE <<Def("A", t2)>>)),
      F |-> FunctionBlock(<<"x", "y">>, <<Def("F", t3), Def("B", t4)>>)], Two) :
     early \in BOOLEAN,
     t1 \in {N("A"), N("F"), CallF(N("A"), Arg(1)),
             CallF(CallF(N("A"), N("S")), BuiltInTerm("abs")),
             Seq2(N("A"), Seq2(Inc, CallF(BuiltInTerm("slow"), N("A"))))},
     t2 \in {Inc, Down("A"), Down("S"), OnlyZero("B")},
     t3 \in {N("x"), Par(N("x"), Seq2(N("y"), N("B"))), N("A"), Down("F"), OnlyZero("y")},
     t4 \in {Seq2(N("y"), Inc), N("A"), Down("B"),
             ConditionTerm(IsZero, N("x"), Seq2(Dec, N("B")))}}

(* Scheme S { @ = t1; A = t2; fun G { @ = t3; K = Inc; } fun H { @ = t4; } }   *)
WithSiblings ==
  {Program(
     [S |-> FunctionBlock(<< >>, <<Def("S", t1), Def("A", t2),
                                   ConstructionFun("G"), ConstructionFun("H")>>),
      G |-> FunctionBlock(<< >>, <<Def("G", t3), Def("K", Inc)>>),
      H |-> FunctionBlock(<< >>, <<Def("H", t4)>>)], Two) :
     t1 \in {Par(N("G"), N("H")), Par(N("G"), N("G")), Seq2(N("A"), N("H"))},
     t2 \in {Dec, Down("A"), N("H"), OnlyZero("G")},
     t3 \in {N("K"), Down("G"), Down("H"), Seq2(N("K"), N("A")), Down("S"), Seq2(N("K"), N("H"))},
     t4 \in {Inc, Down("G"), Down("H"), Seq2(Dec, N("A")), N("K")}}

(* Scheme S { @ = t1; A = t2; C = t5;                                          *)
(*            fun F<x> { @ = t3; B = N("A"); fun G<y> { @ = t4; C = Dec; } } } *)
(* where the inner equation may have another name.                            *)
WithNesting ==
  UNION {{Program(
     [S |-> FunctionBlock(<< >>, <<Def("S", CallTerm("F", <<t1>>)), Def("A", t2), Def("C", t5),
                                   ConstructionFun("F")>>),
      F |-> FunctionBlock(<<"x">>, <<Def("F", t3), Def("B", N("A")), ConstructionFun("G")>>),
      G |-> FunctionBlock(<<"y">>, <<Def("G", t4), Def(inner, Down(inner))>>)], Two) :
     t1 \in {N("C"), N("A")},
     t2 \in {N("C"), Down("A"), Seq2(N("C"), N("C"))},
     t3 \in {CallTerm("G", <<N("x")>>), N("G"),
             Par(CallTerm("G", <<N("B")>>), CallTerm("G", <<N("x")>>))},
     t5 \in {Inc, ConditionTerm(IsZero, Number(1), Seq2(Dec, N("C")))},
     t4 \in {N("y"), N("A"), Par(N("B"), N(inner)), Par(N(inner), N("B")), Down("G"),
             Par(N("x"), N("y"))}} :
         inner \in {"C", "D"}}

(* One equation and names of every kind, with and without an input.           *)
ConsOf(head, tail) == Seq2(Par(head, tail), ConstructorTerm("c_cons"))
WithNames ==
  {Program([S |-> FunctionBlock(<< >>, main \o <<Def("A", t)>>)], input) :
     main \in {<<Def("S", Seq2(N("A"), Arg(1)))>>, <<Def("S", N("A")), Def("A", Inc)>>, << >>},
     t \in {ConsOf(Number(1), ConstructorTerm("c_nil")),
            Seq2(ConsOf(Arg(1), ConstructorTerm("c_nil")), DestructorTerm("c_cons")),
            Seq2(ConstructorTerm("c_nil"), DestructorTerm("c_cons")),
            ConstructorTerm("c_other"), DestructorTerm("c_other"), N("List"), N("Plain"),
            N("X"),
            CallTerm("A", <<Arg(1)>>), VariantTerm(Arg(1), Inc), TakeTerm(0, 0), Arg(-1),
            Seq2(Par(Inc, Dec), Seq2(BuiltInTerm("add"), Inc)),
            Seq2(Par(Inc, Dec), Seq2(BuiltInTerm("add"), Seq2(Inc, Dec)))},
     input \in {<< >>, Two, <<InputVarTerm("w")>>}}

(* Data blocks: two variants of one signature, one type for two fields, types  *)
(* before their definition, base types, the old notation, and mistakes.        *)
s_ == TypeParameter("'s")
OneTwo(name, params, old, fields) ==
  DataBlock(name, params, old, <<Variant("c_one", fields), Variant("c_two", fields)>>)
FirstBlocks ==
  {OneTwo("Old", << >>, <<<<BaseType("int")>>, <<TypeName("Plain")>>>>, <<TypeName("Plain")>>),
   OneTwo("Plain", << >>, << >>, << >>),
   OneTwo("Twins", <<"'t", "'t">>, << >>, <<t_>>)}
  \cup {OneTwo("Twins", <<"'t">>, << >>, fields) : fields \in
          {<<t_, t_>>, <<t_>>, <<s_>>, <<TypeName("Plain"), t_>>, <<BaseType("int"), t_>>,
           <<Template("List", <<BaseType("int")>>)>>, <<TypeName("List")>>,
           <<TypeName("Other")>>, <<Template("Twins", <<t_>>)>>, << >>}}
Made ==
  {Number(1), Par(Number(1), Number(2)), ConstructorTerm("c_plain"),
   Par(ConstructorTerm("c_plain"), Number(1)), ConstructorTerm("c_two"),
   Par(Number(1), Par(ConstructorTerm("c_plain"), ConstructorTerm("c_plain"))),
   ConsOf(Number(1), ConstructorTerm("c_nil"))}
WithData ==
  {WithTypes(<<first, Plain, List>>,
             [S |-> FunctionBlock(<< >>,
                      <<Def("S", Seq2(a, Seq2(ConstructorTerm("c_one"), d)))>>)],
             << >>) :
     first \in FirstBlocks, a \in Made,
     d \in {DestructorTerm("c_one"), DestructorTerm("c_two"), ConstructorTerm("c_two")}}

AllPrograms == WithFunctional \cup WithSiblings \cup WithNesting \cup WithNames \cup WithData
=============================================================================
