----------------------------- MODULE SchemeMeaning -----------------------------
(* What a functional scheme means: a function from tuples to tuples, undefined *)
(* where a function of the library throws.  This is the reference the code is  *)
(* compared with.                                                              *)
EXTENDS Integers, Sequences, SequencesExt

CONSTANTS Apply(_, _), Undefined, False, Fault,
          NoResult   \* more than "fuel" schemes inside each other

Stuck(tuple) == tuple \in {Fault, NoResult}

(* A condition holds unless one of its values is undefined or the last false. *)
Holds(verdict) == verdict = << >> \/ (Undefined \notin Range(verdict) /\ Last(verdict) # False)

Element(args, from, to) ==
  LET n == Len(args)
      At(k) == IF k < 0 THEN n + k + 1 ELSE k
  IN IF \A k \in At(from) .. At(to) : k \in 1..n THEN SubSeq(args, At(from), At(to)) ELSE Fault

(* The meaning of node i of graph p applied to a tuple.                       *)
RECURSIVE Meaning(_, _, _, _)
Meaning(p, i, args, fuel) ==
  LET node == p.nodes[i]
      Of(c, tuple) == Meaning(p, c, tuple, fuel)
  IN CASE node.kind = "parallel" ->
            LET l == Of(node.left, args)
                r == Of(node.right, args)
            IN IF Stuck(l) THEN l ELSE IF Stuck(r) THEN r ELSE l \o r
       [] node.kind = "sequential" ->
            LET middle == Of(node.fst, args)
            IN IF Stuck(middle) THEN middle ELSE Of(node.snd, middle)
       [] node.kind = "condition" ->
            LET verdict == Of(node.cond, args)
            IN IF Stuck(verdict) THEN verdict
               ELSE Of(IF Holds(verdict) THEN node.then ELSE node.else, args)
       [] node.kind = "scheme"   -> IF fuel = 0 THEN NoResult
                                    ELSE Meaning(p, p.functions[node.name], args, fuel - 1)
       [] node.kind = "function" -> Apply(node.name, args)
       [] node.kind = "constant" -> <<node.value>>
       [] node.kind = "take"     -> Element(args, node.from, node.to)
=============================================================================
