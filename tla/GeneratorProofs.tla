----------------------------- MODULE GeneratorProofs -----------------------------
(* What the generator emits is balanced, for every program: the code of a node  *)
(* leaves the control stack, and the forks that are to be joined, as it found   *)
(* them.                                                                        *)
EXTENDS Generator, SequencesExt, FiniteSetTheorems, SequenceTheorems, TLAPS

IsSeq(s) == s \in Seq(Range(s))

-----------------------------------------------------------------------------
(* Induction on the naturals, as the least number that violates a statement.  *)

(* A set of naturals that is not empty has a least element.                   *)
LEMMA Least == ASSUME NEW S \in SUBSET Nat, S # {} PROVE \E n \in S : \A m \in S : n <= m
<1>1. PICK k \in S : TRUE OBVIOUS
<1>2. k \in Nat /\ IsFiniteSet(0 .. k) BY <1>1, FS_Interval
<1> DEFINE R == StrictSubsetOrdering(0 .. k)
           T == {0 .. m : m \in {x \in S : x <= k}}
<1>3. FiniteSubsetsOf(0 .. k) = SUBSET (0 .. k) BY <1>2, FS_FiniteSubsetsOfFinite
<1>4. IsWellFoundedOn(R, SUBSET (0 .. k)) BY <1>3, FS_StrictSubsetOrderingWellFounded
<1>5. T \subseteq SUBSET (0 .. k)
  <2>1. ASSUME NEW m \in S, m <= k PROVE 0 .. m \subseteq 0 .. k BY <2>1, <1>2
  <2>2. QED BY <2>1
<1>6. T # {} BY <1>1, <1>2
<1> HIDE DEF R, T
<1>7. PICK x \in T : \A y \in T : <<y, x>> \notin R BY <1>4, <1>5, <1>6, WFMin
<1>8. PICK n \in S : n <= k /\ x = 0 .. n BY <1>7 DEF T
<1>9. ASSUME NEW m \in S, ~(n <= m) PROVE FALSE
  <2>1. m < n /\ m <= k /\ m \in Nat /\ n \in Nat BY <1>8, <1>9, <1>2
  <2>2. 0 .. m \in T BY <2>1 DEF T
  <2>3. n \in 0 .. n /\ n \notin 0 .. m BY <2>1
  <2>4. 0 .. m \subseteq 0 .. n BY <2>1
  <2>5. <<0 .. m, 0 .. n>> \in R BY <2>2, <2>3, <2>4, <1>5, <1>7, <1>8 DEF R, StrictSubsetOrdering
  <2>6. QED BY <2>5, <1>7, <1>8, <2>2
<1>10. QED BY <1>9

-----------------------------------------------------------------------------
(* Sequences.                                                                 *)

(* Whatever is a sequence over some set is a sequence.                        *)
LEMMA SeqIs == ASSUME NEW S, NEW s \in Seq(S) PROVE IsSeq(s)
BY SeqOfRange DEF IsSeq

(* Length and elements of a sequence.                                         *)
LEMMA SeqFacts == ASSUME NEW s, IsSeq(s)
  PROVE Len(s) \in Nat /\ DOMAIN s = 1 .. Len(s) /\ (s # << >> => Len(s) > 0)
BY LenProperties, EmptySeq DEF IsSeq

(* Concatenation.                                                             *)
LEMMA SeqConcat == ASSUME NEW s, NEW t, IsSeq(s), IsSeq(t)
  PROVE /\ IsSeq(s \o t) /\ Len(s \o t) = Len(s) + Len(t)
        /\ \A i \in 1 .. Len(s) + Len(t) :
             (s \o t)[i] = IF i <= Len(s) THEN s[i] ELSE t[i - Len(s)]
<1> DEFINE S == Range(s) \cup Range(t)
<1>1. s \in Seq(S) /\ t \in Seq(S) BY SeqMonotonic DEF IsSeq
<1> HIDE DEF S
<1>2. QED BY <1>1, ConcatProperties, SeqIs

(* One element.                                                               *)
LEMMA SeqOne == ASSUME NEW x PROVE IsSeq(<<x>>) /\ Len(<<x>>) = 1 /\ <<x>>[1] = x
<1>1. <<x>> \in Seq({x}) OBVIOUS
<1>2. QED BY <1>1, SeqIs

(* No element.                                                                *)
LEMMA SeqNone == IsSeq(<< >>) /\ Len(<< >>) = 0
<1>1. << >> \in Seq({}) BY EmptySeq
<1>2. QED BY <1>1, SeqIs, EmptySeq

(* The first element and the others.                                          *)
LEMMA SeqHeadTail == ASSUME NEW s, IsSeq(s), s # << >>
  PROVE /\ IsSeq(Tail(s)) /\ Len(Tail(s)) = Len(s) - 1 /\ Head(s) = s[1]
        /\ \A i \in 1 .. Len(s) - 1 : Tail(s)[i] = s[i + 1]
<1>1. s \in Seq(Range(s)) BY DEF IsSeq
<1>2. Tail(s) \in Seq(Range(s)) BY <1>1, HeadTailProperties
<1>3. Len(Tail(s)) = Len(s) - 1 /\ \A i \in 1 .. Len(Tail(s)) : Tail(s)[i] = s[i + 1]
  BY <1>1, HeadTailProperties
<1>4. Head(s) = s[1] BY <1>1
<1>5. QED BY <1>2, <1>3, <1>4, SeqIs

(* The order of concatenation does not matter.                                *)
LEMMA SeqAssociates == ASSUME NEW s, NEW t, NEW u, IsSeq(s), IsSeq(t), IsSeq(u)
  PROVE (s \o t) \o u = s \o (t \o u)
<1> DEFINE S == Range(s) \cup Range(t) \cup Range(u)
<1>1. s \in Seq(S) /\ t \in Seq(S) /\ u \in Seq(S) BY SeqMonotonic DEF IsSeq
<1> HIDE DEF S
<1>2. QED BY <1>1, ConcatAssociative

(* The first element and the others, of a sequence that ends with x.          *)
LEMMA SeqHeadCut == ASSUME NEW s, IsSeq(s), NEW x
  PROVE /\ s = << >> => Head(s \o <<x>>) = x
        /\ s # << >> => Head(s \o <<x>>) = Head(s) /\ Tail(s \o <<x>>) = Tail(s) \o <<x>>
<1> DEFINE S == Range(s) \cup {x}
<1>1. s \in Seq(S) /\ <<x>> \in Seq(S) BY SeqMonotonic DEF IsSeq
<1>2. s \o <<x>> = Append(s, x) BY <1>1, AppendIsConcat
<1>3. ASSUME s # << >> PROVE Tail(s) \o <<x>> = Append(Tail(s), x)
  <2>1. Tail(s) \in Seq(S) BY <1>1, <1>3, HeadTailProperties
  <2>2. QED BY <2>1, AppendIsConcat
<1>4. QED BY <1>1, <1>2, <1>3, HeadTailAppend

(* A part.                                                                    *)
LEMMA SeqPart == ASSUME NEW s, IsSeq(s), NEW m \in Int, NEW n \in Int, 1 <= m, n <= Len(s)
  PROVE /\ IsSeq(SubSeq(s, m, n)) /\ Len(SubSeq(s, m, n)) = (IF m <= n THEN n - m + 1 ELSE 0)
        /\ \A i \in 1 .. n - m + 1 : SubSeq(s, m, n)[i] = s[m + i - 1]
<1>1. s \in Seq(Range(s)) /\ Len(s) \in Nat BY SeqFacts DEF IsSeq
<1>2. \A i \in m .. n : s[i] \in Range(s)
  <2>1. \A i \in 1 .. Len(s) : s[i] \in Range(s) BY <1>1, ElementOfSeq
  <2>2. QED BY <2>1, <1>1
<1>3. SubSeq(s, m, n) \in Seq(Range(s)) BY <1>2, SubSeqProperties
<1>4. Len(SubSeq(s, m, n)) = IF m <= n THEN n - m + 1 ELSE 0 BY <1>2, SubSeqProperties
<1>5. \A i \in 1 .. n - m + 1 : SubSeq(s, m, n)[i] = s[m + i - 1] BY <1>2, SubSeqProperties
<1>6. IsSeq(SubSeq(s, m, n)) BY <1>3, SeqIs
<1>7. QED BY <1>4, <1>5, <1>6

(* The last element and the others.                                           *)
LEMMA SeqFrontLast == ASSUME NEW s, IsSeq(s), s # << >>
  PROVE /\ IsSeq(Front(s)) /\ Len(Front(s)) = Len(s) - 1 /\ Last(s) = s[Len(s)]
        /\ \A i \in 1 .. Len(s) - 1 : Front(s)[i] = s[i]
<1>1. Len(s) \in Nat /\ Len(s) > 0 BY SeqFacts
<1> DEFINE n == Len(s) - 1
<1>2. n \in Nat /\ n <= Len(s) BY <1>1
<1> HIDE DEF n
<1>3. n - 1 + 1 = n /\ (IF 1 <= n THEN n - 1 + 1 ELSE 0) = n BY <1>2
<1>4. /\ IsSeq(SubSeq(s, 1, n)) /\ Len(SubSeq(s, 1, n)) = n
      /\ \A i \in 1 .. n : SubSeq(s, 1, n)[i] = s[1 + i - 1]
  BY <1>2, <1>3, SeqPart
<1>5. \A i \in 1 .. n : 1 + i - 1 = i BY <1>2
<1>6. QED BY <1>4, <1>5 DEF Front, Last, n

(* One more element.                                                          *)
LEMMA SeqAppend == ASSUME NEW s, IsSeq(s), NEW x
  PROVE /\ IsSeq(Append(s, x)) /\ Len(Append(s, x)) = Len(s) + 1
        /\ Append(s, x)[Len(s) + 1] = x /\ \A i \in 1 .. Len(s) : Append(s, x)[i] = s[i]
<1> DEFINE S == Range(s) \cup {x}
<1>1. s \in Seq(S) /\ x \in S BY SeqMonotonic DEF IsSeq
<1> HIDE DEF S
<1>2. Append(s, x) \in Seq(S) /\ Len(Append(s, x)) = Len(s) + 1 BY <1>1, AppendProperties
<1>3. Append(s, x)[Len(s) + 1] = x BY <1>1, AppendProperties
<1>4. \A i \in 1 .. Len(s) : Append(s, x)[i] = s[i] BY <1>1, AppendProperties
<1>5. QED BY <1>2, <1>3, <1>4, SeqIs

-----------------------------------------------------------------------------
(* What each node of a code does to the kinds of frames on the control stack  *)
(* and to the number of forks that are to be joined.                          *)
Empty         == [kind |-> "none", below |-> "none", height |-> 0]
Push(kind, s) == [kind |-> kind, below |-> s, height |-> s.height + 1]

Missing(x) == (IF x.then = NoBranch THEN 1 ELSE 0) + (IF x.else = NoBranch THEN 1 ELSE 0)

Step(x, s, m, r, n) ==
  \/ x.op = "SeqBegin"   /\ r = Push("seq", s)  /\ n = m
  \/ x.op = "SeqEnd"     /\ s = Push("seq", r)  /\ n = m
  \/ x.op = "CondStart"  /\ r = Push("cond", s) /\ n = m + Len(x.forks)
  \/ x.op = "CondChoose" /\ s = Push("cond", r) /\ m = n + Missing(x)
  \/ x.op = "ParFork"    /\ r = s /\ n = m + 1
  \/ x.op = "ParJoin"    /\ r = s /\ m = n + 1
  \/ x.op = "SeqAdvance" /\ s.kind = "seq" /\ r = s /\ n = m
  \/ x.op \in {"RecFn", "BasicFn", "GetArg", "Constant"} /\ r = s /\ n = m

Leads(c, s, m, r, n) ==
  \E K : \E D \in [1 .. Len(c) + 1 -> Nat] :
    /\ K[1] = s /\ D[1] = m /\ K[Len(c) + 1] = r /\ D[Len(c) + 1] = n
    /\ \A i \in 1 .. Len(c) : Step(c[i], K[i], D[i], K[i + 1], D[i + 1])

(* A code that leaves both as they are, wherever it runs or, if it is linked, *)
(* within a chain; and that only refers to blocks of B and to functions that  *)
(* exist.                                                                     *)
Balanced(c, linked) ==
  IsSeq(c) /\ \A s : (linked => s.kind = "seq") => \A m \in Nat : Leads(c, s, m, s, m)

NodeOK(x, B, names) ==
  /\ x.op = "ParFork"    => IsSeq(x.forks) /\ Len(x.forks) = 1
  /\ x.op = "CondStart"  => IsSeq(x.forks)
  /\ x.op \in {"ParFork", "CondStart"} => \A k \in DOMAIN x.forks : x.forks[k] \in B
  /\ x.op = "CondChoose" => {x.then, x.else} \subseteq {NoBranch} \cup {<<b>> : b \in B}
  /\ x.op = "RecFn"      => x.name \in names
  /\ x.op = "GetArg"     => {x.from, x.to} \subseteq Int
CodeOK(c, B, names) == \A i \in DOMAIN c : NodeOK(c[i], B, names)

(* The empty code does nothing.                                               *)
LEMMA LeadsNone == ASSUME NEW s, NEW m, NEW r, NEW n
  PROVE Leads(<< >>, s, m, r, n) <=> s = r /\ m = n /\ m \in Nat
<1>1. Len(<< >>) = 0 BY SeqNone
<1>2. ASSUME Leads(<< >>, s, m, r, n) PROVE s = r /\ m = n /\ m \in Nat BY <1>1, <1>2 DEF Leads
<1>3. ASSUME s = r, m = n, m \in Nat PROVE Leads(<< >>, s, m, r, n)
  <2> DEFINE K == [i \in {1} |-> s]
             D == [i \in 1 .. 1 |-> m]
  <2>1. D \in [1 .. 1 -> Nat] /\ D[1] = m /\ K[1] = s BY <1>3
  <2> HIDE DEF K, D
  <2>2. QED BY <2>1, <1>1, <1>3 DEF Leads
<1>4. QED BY <1>2, <1>3

(* A code of one node.                                                        *)
LEMMA LeadsOne == ASSUME NEW x, NEW s, NEW r, NEW m \in Nat, NEW n \in Nat, Step(x, s, m, r, n)
  PROVE Leads(<<x>>, s, m, r, n)
<1> DEFINE c == <<x>>
           K == [i \in 1 .. 2 |-> IF i = 1 THEN s ELSE r]
           D == [i \in 1 .. 2 |-> IF i = 1 THEN m ELSE n]
<1>1. Len(c) = 1 /\ c[1] = x BY SeqOne
<1>2. D \in [1 .. 2 -> Nat] /\ D[1] = m /\ D[2] = n /\ K[1] = s /\ K[2] = r OBVIOUS
<1> HIDE DEF c, K, D
<1>3. \A i \in 1 .. 1 : Step(c[i], K[i], D[i], K[i + 1], D[i + 1]) BY <1>1, <1>2
<1>4. Leads(c, s, m, r, n) BY <1>1, <1>2, <1>3 DEF Leads
<1>5. QED BY <1>4 DEF c

(* A code after another.                                                      *)
LEMMA LeadsConcat ==
  ASSUME NEW a, NEW b, IsSeq(a), IsSeq(b), NEW s, NEW m, NEW r, NEW n, NEW u, NEW k,
         Leads(a, s, m, r, n), Leads(b, r, n, u, k)
  PROVE  Leads(a \o b, s, m, u, k)
<1> DEFINE A == Len(a)
           B == Len(b)
<1>1. A \in Nat /\ B \in Nat BY SeqFacts
<1>2. PICK K1 : \E D1 \in [1 .. A + 1 -> Nat] :
        /\ K1[1] = s /\ D1[1] = m /\ K1[A + 1] = r /\ D1[A + 1] = n
        /\ \A i \in 1 .. A : Step(a[i], K1[i], D1[i], K1[i + 1], D1[i + 1])
  BY DEF Leads
<1>3. PICK D1 \in [1 .. A + 1 -> Nat] :
        /\ K1[1] = s /\ D1[1] = m /\ K1[A + 1] = r /\ D1[A + 1] = n
        /\ \A i \in 1 .. A : Step(a[i], K1[i], D1[i], K1[i + 1], D1[i + 1])
  BY <1>2
<1>4. PICK K2 : \E D2 \in [1 .. B + 1 -> Nat] :
        /\ K2[1] = r /\ D2[1] = n /\ K2[B + 1] = u /\ D2[B + 1] = k
        /\ \A i \in 1 .. B : Step(b[i], K2[i], D2[i], K2[i + 1], D2[i + 1])
  BY DEF Leads
<1>5. PICK D2 \in [1 .. B + 1 -> Nat] :
        /\ K2[1] = r /\ D2[1] = n /\ K2[B + 1] = u /\ D2[B + 1] = k
        /\ \A i \in 1 .. B : Step(b[i], K2[i], D2[i], K2[i + 1], D2[i + 1])
  BY <1>4
<1>6. /\ Len(a \o b) = A + B
      /\ \A i \in 1 .. A + B : (a \o b)[i] = IF i <= A THEN a[i] ELSE b[i - A]
  BY SeqConcat
<1> HIDE DEF A, B
<1> DEFINE K == [i \in 1 .. A + B + 1 |-> IF i <= A + 1 THEN K1[i] ELSE K2[i - A]]
           D == [i \in 1 .. A + B + 1 |-> IF i <= A + 1 THEN D1[i] ELSE D2[i - A]]
<1>7. D \in [1 .. A + B + 1 -> Nat]
  <2>1. ASSUME NEW i \in 1 .. A + B + 1 PROVE (IF i <= A + 1 THEN D1[i] ELSE D2[i - A]) \in Nat
    <3>1. CASE i <= A + 1 BY <3>1, <1>1, <1>3
    <3>2. CASE ~(i <= A + 1)
      <4>1. i - A \in 1 .. B + 1 BY <3>2, <1>1
      <4>2. QED BY <4>1, <3>2, <1>5
    <3>3. QED BY <3>1, <3>2
  <2>2. QED BY <2>1
<1>8. /\ \A i \in 1 .. A + 1 : K[i] = K1[i] /\ D[i] = D1[i]
      /\ \A i \in 1 .. B + 1 : K[i + A] = K2[i] /\ D[i + A] = D2[i]
  <2>1. \A i \in 1 .. A + 1 : K[i] = K1[i] /\ D[i] = D1[i] BY <1>1
  <2>2. ASSUME NEW i \in 1 .. B + 1 PROVE K[i + A] = K2[i] /\ D[i + A] = D2[i]
    <3>1. i + A \in 1 .. A + B + 1 /\ (i + A) - A = i BY <1>1
    <3>2. CASE i = 1 BY <3>1, <3>2, <1>1, <1>3, <1>5
    <3>3. CASE i # 1
      <4>1. ~(i + A <= A + 1) BY <3>3, <1>1
      <4>2. QED BY <3>1, <4>1
    <3>4. QED BY <3>2, <3>3
  <2>3. QED BY <2>1, <2>2
<1> HIDE DEF K, D
<1>9. K[1] = s /\ D[1] = m BY <1>1, <1>3, <1>8
<1>10. K[A + B + 1] = u /\ D[A + B + 1] = k
  <2>1. B + 1 \in 1 .. B + 1 /\ (B + 1) + A = A + B + 1 BY <1>1
  <2>2. QED BY <2>1, <1>5, <1>8
<1>11. ASSUME NEW i \in 1 .. A + B PROVE Step((a \o b)[i], K[i], D[i], K[i + 1], D[i + 1])
  <2>1. CASE i <= A
    <3>1. i \in 1 .. A /\ i \in 1 .. A + 1 /\ i + 1 \in 1 .. A + 1 BY <2>1, <1>1
    <3>2. (a \o b)[i] = a[i] BY <1>6, <2>1
    <3>3. QED BY <3>1, <3>2, <1>3, <1>8
  <2>2. CASE ~(i <= A)
    <3> DEFINE j == i - A
    <3>1. j \in 1 .. B /\ j \in 1 .. B + 1 /\ j + 1 \in 1 .. B + 1 /\ j + A = i /\ (j + 1) + A = i + 1
      BY <2>2, <1>1
    <3>2. (a \o b)[i] = b[j] BY <1>6, <2>2
    <3> HIDE DEF j
    <3>3. K[i] = K2[j] /\ D[i] = D2[j] BY <3>1, <1>8
    <3>4. K[i + 1] = K2[j + 1] /\ D[i + 1] = D2[j + 1] BY <3>1, <1>8
    <3>5. QED BY <3>1, <3>2, <3>3, <3>4, <1>5
  <2>3. QED BY <2>1, <2>2
<1>12. QED BY <1>6, <1>7, <1>9, <1>10, <1>11 DEF Leads

(* The first node of a code and the rest.                                     *)
LEMMA LeadsHead ==
  ASSUME NEW c, IsSeq(c), c # << >>, NEW s, NEW m, NEW r, NEW n, Leads(c, s, m, r, n)
  PROVE  m \in Nat /\ \E u : \E k \in Nat : Step(Head(c), s, m, u, k) /\ Leads(Tail(c), u, k, r, n)
<1> DEFINE L == Len(c)
<1>1. L \in Nat /\ L > 0 BY SeqFacts
<1>2. PICK K : \E D \in [1 .. L + 1 -> Nat] :
        /\ K[1] = s /\ D[1] = m /\ K[L + 1] = r /\ D[L + 1] = n
        /\ \A i \in 1 .. L : Step(c[i], K[i], D[i], K[i + 1], D[i + 1])
  BY DEF Leads
<1>3. PICK D \in [1 .. L + 1 -> Nat] :
        /\ K[1] = s /\ D[1] = m /\ K[L + 1] = r /\ D[L + 1] = n
        /\ \A i \in 1 .. L : Step(c[i], K[i], D[i], K[i + 1], D[i + 1])
  BY <1>2
<1>4. /\ Len(Tail(c)) = L - 1 /\ Head(c) = c[1]
      /\ \A i \in 1 .. L - 1 : Tail(c)[i] = c[i + 1]
  BY SeqHeadTail
<1> HIDE DEF L
<1> DEFINE K2 == [i \in 1 .. L |-> K[i + 1]]
           D2 == [i \in 1 .. L |-> D[i + 1]]
<1>5. D2 \in [1 .. L -> Nat] BY <1>1
<1>6. \A i \in 1 .. L : K2[i] = K[i + 1] /\ D2[i] = D[i + 1] OBVIOUS
<1> HIDE DEF K2, D2
<1>7. Step(Head(c), s, m, K[2], D[2]) /\ D[2] \in Nat /\ m \in Nat BY <1>1, <1>3, <1>4
<1>8. K2[1] = K[2] /\ D2[1] = D[2] /\ K2[L] = r /\ D2[L] = n BY <1>1, <1>3, <1>6
<1>9. ASSUME NEW i \in 1 .. L - 1 PROVE Step(Tail(c)[i], K2[i], D2[i], K2[i + 1], D2[i + 1])
  <2>1. i + 1 \in 1 .. L /\ i \in 1 .. L BY <1>1
  <2>2. QED BY <2>1, <1>3, <1>4, <1>6
<1>10. Leads(Tail(c), K[2], D[2], r, n)
  <2> DEFINE T == Tail(c)
  <2>1. Len(T) = L - 1 /\ Len(T) + 1 = L BY <1>1, <1>4
  <2>2. \A i \in 1 .. Len(T) : Step(T[i], K2[i], D2[i], K2[i + 1], D2[i + 1]) BY <2>1, <1>9
  <2>3. D2 \in [1 .. Len(T) + 1 -> Nat] BY <2>1, <1>5
  <2>4. K2[Len(T) + 1] = r /\ D2[Len(T) + 1] = n BY <2>1, <1>8
  <2> HIDE DEF T
  <2>5. Leads(T, K[2], D[2], r, n) BY <2>2, <2>3, <2>4, <1>8 DEF Leads
  <2>6. QED BY <2>5 DEF T
<1>11. QED BY <1>7, <1>10
-----------------------------------------------------------------------------
(* The constructs, from sound codes of their parts.                           *)
Sound(c, B, names, linked) == Balanced(c, linked) /\ CodeOK(c, B, names)

(* One after the other.                                                       *)
LEMMA SoundConcat ==
  ASSUME NEW a, NEW b, NEW B, NEW names, NEW linked,
         Sound(a, B, names, linked), Sound(b, B, names, linked)
  PROVE  Sound(a \o b, B, names, linked)
<1>1. IsSeq(a) /\ IsSeq(b) BY DEF Sound, Balanced
<1>2. IsSeq(a \o b) BY <1>1, SeqConcat
<1>3. ASSUME NEW s, linked => s.kind = "seq", NEW m \in Nat PROVE Leads(a \o b, s, m, s, m)
  <2>1. Leads(a, s, m, s, m) /\ Leads(b, s, m, s, m) BY <1>3 DEF Sound, Balanced
  <2>2. QED BY <1>1, <2>1, LeadsConcat
<1>4. CodeOK(a \o b, B, names)
  <2>1. Len(a) \in Nat /\ Len(b) \in Nat /\ DOMAIN a = 1 .. Len(a) /\ DOMAIN b = 1 .. Len(b)
    BY <1>1, SeqFacts
  <2>2. DOMAIN (a \o b) = 1 .. Len(a) + Len(b) BY <1>1, <1>2, SeqConcat, SeqFacts
  <2>3. ASSUME NEW i \in 1 .. Len(a) + Len(b) PROVE NodeOK((a \o b)[i], B, names)
    <3>1. CASE i <= Len(a)
      <4>1. i \in DOMAIN a /\ (a \o b)[i] = a[i] BY <3>1, <2>1, <1>1, SeqConcat
      <4>2. QED BY <4>1 DEF Sound, CodeOK
    <3>2. CASE ~(i <= Len(a))
      <4>1. i - Len(a) \in DOMAIN b /\ (a \o b)[i] = b[i - Len(a)]
        BY <3>2, <2>1, <1>1, SeqConcat
      <4>2. QED BY <4>1 DEF Sound, CodeOK
    <3>3. QED BY <3>1, <3>2
  <2>4. QED BY <2>2, <2>3 DEF CodeOK
<1>5. QED BY <1>2, <1>3, <1>4 DEF Sound, Balanced

(* One node.                                                                  *)
LEMMA CodeOne == ASSUME NEW x, NEW B, NEW names, NodeOK(x, B, names) PROVE CodeOK(<<x>>, B, names)
<1>1. DOMAIN <<x>> = 1 .. 1 /\ <<x>>[1] = x BY SeqOne, SeqFacts
<1>2. QED BY <1>1 DEF CodeOK

(* A node that touches neither.                                               *)
LEMMA SoundOne ==
  ASSUME NEW x, NEW B, NEW names, NodeOK(x, B, names),
         x.op \in {"RecFn", "BasicFn", "GetArg", "Constant"}
  PROVE  Sound(<<x>>, B, names, FALSE)
<1>1. \A s : \A m \in Nat : Step(x, s, m, s, m) BY DEF Step
<1>2. \A s : \A m \in Nat : Leads(<<x>>, s, m, s, m) BY <1>1, LeadsOne
<1>3. QED BY <1>2, SeqOne, CodeOne DEF Sound, Balanced

(* A code between a node that changes something and one that changes it back. *)
LEMMA SoundBetween ==
  ASSUME NEW x, NEW c, NEW y, NEW B, NEW names, NEW linked, Sound(c, B, names, linked),
         NodeOK(x, B, names), NodeOK(y, B, names),
         \A s : \A m \in Nat : \E r : \E n \in Nat :
           (linked => r.kind = "seq") /\ Step(x, s, m, r, n) /\ Step(y, r, n, s, m)
  PROVE  Sound(<<x>> \o c \o <<y>>, B, names, FALSE)
<1>1. IsSeq(<<x>>) /\ IsSeq(<<y>>) /\ IsSeq(c) BY SeqOne DEF Sound, Balanced
<1>2. IsSeq(<<x>> \o c) /\ IsSeq(<<x>> \o c \o <<y>>) BY <1>1, SeqConcat
<1>3. ASSUME NEW s, NEW m \in Nat PROVE Leads(<<x>> \o c \o <<y>>, s, m, s, m)
  <2>1. PICK r : \E n \in Nat :
          (linked => r.kind = "seq") /\ Step(x, s, m, r, n) /\ Step(y, r, n, s, m)
    OBVIOUS
  <2>2. PICK n \in Nat : (linked => r.kind = "seq") /\ Step(x, s, m, r, n) /\ Step(y, r, n, s, m)
    BY <2>1
  <2>3. Leads(<<x>>, s, m, r, n) /\ Leads(<<y>>, r, n, s, m) BY <2>2, LeadsOne
  <2>4. Leads(c, r, n, r, n) BY <2>2 DEF Sound, Balanced
  <2>5. Leads(<<x>> \o c, s, m, r, n) BY <1>1, <2>3, <2>4, LeadsConcat
  <2>6. QED BY <1>1, <1>2, <2>3, <2>5, LeadsConcat
<1>4. CodeOK(<<x>> \o c \o <<y>>, B, names)
  <2> DEFINE d == <<x>> \o c \o <<y>>
  <2>1. /\ Len(<<x>>) = 1 /\ <<x>>[1] = x /\ Len(<<y>>) = 1 /\ <<y>>[1] = y
        /\ Len(c) \in Nat /\ DOMAIN c = 1 .. Len(c)
    BY <1>1, SeqOne, SeqFacts
  <2>2. /\ Len(<<x>> \o c) = Len(c) + 1
        /\ \A i \in 1 .. Len(c) + 1 : (<<x>> \o c)[i] = IF i <= 1 THEN x ELSE c[i - 1]
    BY <1>1, <2>1, SeqConcat
  <2>3. /\ Len(d) = Len(c) + 2
        /\ \A i \in 1 .. Len(c) + 2 : d[i] = IF i <= Len(c) + 1 THEN (<<x>> \o c)[i] ELSE y
    BY <1>1, <1>2, <2>1, <2>2, SeqConcat
  <2>4. DOMAIN d = 1 .. Len(c) + 2 BY <1>2, <2>3, SeqFacts
  <2> HIDE DEF d
  <2>5. ASSUME NEW i \in 1 .. Len(c) + 2 PROVE NodeOK(d[i], B, names)
    <3>1. CASE i = 1 BY <3>1, <2>1, <2>2, <2>3
    <3>2. CASE i = Len(c) + 2 BY <3>2, <2>1, <2>3
    <3>3. CASE i # 1 /\ i # Len(c) + 2
      <4>1. i - 1 \in DOMAIN c /\ d[i] = c[i - 1] BY <3>3, <2>1, <2>2, <2>3
      <4>2. QED BY <4>1 DEF Sound, CodeOK
    <3>4. QED BY <3>1, <3>2, <3>3
  <2>6. CodeOK(d, B, names) BY <2>4, <2>5 DEF CodeOK
  <2>7. QED BY <2>6 DEF d
<1>5. QED BY <1>2, <1>3, <1>4 DEF Sound, Balanced

(* A chain and its links (FSequentialNode).                                   *)
LEMMA SoundChain ==
  ASSUME NEW c, NEW B, NEW names, Sound(c, B, names, TRUE)
  PROVE  Sound(ChainSpan(c), B, names, FALSE)
<1>1. NodeOK(SeqBegin, B, names) /\ NodeOK(SeqEnd, B, names) BY DEF NodeOK, SeqBegin, SeqEnd
<1>2. \A s : \A m \in Nat : Step(SeqBegin, s, m, Push("seq", s), m) /\ Step(SeqEnd, Push("seq", s), m, s, m)
  BY DEF Step, SeqBegin, SeqEnd
<1>3. \A s : \A m \in Nat : \E r : \E n \in Nat :
        (TRUE => r.kind = "seq") /\ Step(SeqBegin, s, m, r, n) /\ Step(SeqEnd, r, n, s, m)
  <2>1. \A s : Push("seq", s).kind = "seq" BY DEF Push
  <2>2. QED BY <1>2, <2>1
<1>4. QED BY <1>1, <1>3, SoundBetween DEF ChainSpan

(* One more link of a chain, after what is linked already.                    *)
LEMMA SoundLink ==
  ASSUME NEW a, NEW b, NEW B, NEW names, NEW linked,
         Sound(a, B, names, linked), Sound(b, B, names, FALSE)
  PROVE  Sound(LinkSpan(a, b), B, names, TRUE)
<1>1. NodeOK(SeqAdvance, B, names) BY DEF NodeOK, SeqAdvance
<1>2. \A s : s.kind = "seq" => \A m \in Nat : Step(SeqAdvance, s, m, s, m) BY DEF Step, SeqAdvance
<1>3. \A s : s.kind = "seq" => \A m \in Nat : Leads(<<SeqAdvance>>, s, m, s, m) BY <1>2, LeadsOne
<1>4. Sound(<<SeqAdvance>>, B, names, TRUE) BY <1>1, <1>3, SeqOne, CodeOne DEF Sound, Balanced
<1>5. Sound(a, B, names, TRUE)
  <2>1. \A s : (TRUE => s.kind = "seq") => \A m \in Nat : Leads(a, s, m, s, m) BY DEF Sound, Balanced
  <2>2. QED BY <2>1 DEF Sound, Balanced
<1>6. Sound(b, B, names, TRUE) BY DEF Sound, Balanced
<1>7. QED BY <1>4, <1>5, <1>6, SoundConcat DEF LinkSpan

(* Operands, one forked and joined or both in place (FParallelNode).          *)
LEMMA SoundParallel ==
  ASSUME NEW a, NEW b, NEW fork, NEW B, NEW names,
         Sound(a, B, names, FALSE), Sound(b, B, names, FALSE), b \in B
  PROVE  Sound(ParallelSpan(a, b, fork), B, names, FALSE)
<1>1. CASE ~fork BY <1>1, SoundConcat DEF ParallelSpan
<1>2. CASE fork
  <2>1. IsSeq(<<b>>) /\ Len(<<b>>) = 1 /\ <<b>>[1] = b /\ DOMAIN <<b>> = 1 .. 1 BY SeqOne, SeqFacts
  <2>2. NodeOK(ParFork(b), B, names) /\ NodeOK(ParJoin, B, names) BY <2>1 DEF NodeOK, ParFork, ParJoin
  <2>3. \A s : \A m \in Nat : Step(ParFork(b), s, m, s, m + 1) /\ Step(ParJoin, s, m + 1, s, m)
    BY DEF Step, ParFork, ParJoin
  <2>4. \A s : \A m \in Nat : \E r : \E n \in Nat :
          (FALSE => r.kind = "seq") /\ Step(ParFork(b), s, m, r, n) /\ Step(ParJoin, r, n, s, m)
    <3> TAKE s
    <3> TAKE m \in Nat
    <3>1. m + 1 \in Nat OBVIOUS
    <3>2. QED BY <2>3, <3>1
  <2>5. QED BY <1>2, <2>2, <2>4, SoundBetween DEF ParallelSpan
<1>3. QED BY <1>1, <1>2

(* A condition with any of its branches forked (FConditionNode).              *)
LEMMA SoundCondition ==
  ASSUME NEW c, NEW a, NEW b, NEW forkThen, NEW forkElse, NEW B, NEW names,
         Sound(c, B, names, FALSE), a \in B, b \in B
  PROVE  Sound(ConditionSpan(c, a, b, forkThen, forkElse), B, names, FALSE)
<1> DEFINE then1 == IF forkThen THEN <<a>> ELSE << >>
           else1 == IF forkElse THEN <<b>> ELSE << >>
           then2 == IF forkThen THEN << >> ELSE <<a>>
           else2 == IF forkElse THEN << >> ELSE <<b>>
           x == CondStart(then1, else1)
           y == CondChoose(then2, else2)
           k == Len(x.forks)
<1>1. ConditionSpan(c, a, b, forkThen, forkElse) = <<x>> \o c \o <<y>>
  BY DEF ConditionSpan, Branch, NoBranch
<1>2. x.op = "CondStart" /\ x.forks = then1 \o else1 /\ y.op = "CondChoose" /\ y.then = then2 /\ y.else = else2
  BY DEF CondStart, CondChoose
<1>3. /\ IsSeq(then1) /\ Len(then1) = (IF forkThen THEN 1 ELSE 0)
      /\ IsSeq(else1) /\ Len(else1) = (IF forkElse THEN 1 ELSE 0)
  BY SeqOne, SeqNone
<1>4. IsSeq(x.forks) /\ k = Len(then1) + Len(else1)
  <2> HIDE DEF then1, else1
  <2>1. IsSeq(then1 \o else1) /\ Len(then1 \o else1) = Len(then1) + Len(else1) BY <1>3, SeqConcat
  <2> HIDE DEF x
  <2>2. QED BY <2>1, <1>2
<1>5. ASSUME NEW i \in DOMAIN x.forks PROVE x.forks[i] \in {a, b}
  <2>1. i \in 1 .. Len(then1) + Len(else1) BY <1>4, SeqFacts
  <2>2. x.forks[i] = IF i <= Len(then1) THEN then1[i] ELSE else1[i - Len(then1)]
    BY <2>1, <1>2, <1>3, SeqConcat
  <2>3. CASE i <= Len(then1)
    <3>1. forkThen /\ i = 1 BY <2>1, <2>3, <1>3
    <3>2. QED BY <3>1, <2>2, <2>3, SeqOne
  <2>4. CASE ~(i <= Len(then1))
    <3>1. forkElse /\ i - Len(then1) = 1 BY <2>1, <2>4, <1>3
    <3>2. QED BY <3>1, <2>2, <2>4, SeqOne
  <2>5. QED BY <2>3, <2>4
<1>6. k = Missing(y)
  <2>1. <<a>> # << >> /\ <<b>> # << >> BY SeqOne, SeqNone
  <2>2. then2 = NoBranch <=> forkThen BY <2>1 DEF NoBranch
  <2>3. else2 = NoBranch <=> forkElse BY <2>1 DEF NoBranch
  <2> HIDE DEF then2, else2, y
  <2>4. Missing(y) = (IF forkThen THEN 1 ELSE 0) + (IF forkElse THEN 1 ELSE 0)
    BY <2>2, <2>3, <1>2 DEF Missing
  <2> HIDE DEF then1, else1, k
  <2>5. QED BY <2>4, <1>3, <1>4
<1>7. k \in Nat BY <1>4, SeqFacts
<1>8. {y.then, y.else} \subseteq {NoBranch} \cup {<<d>> : d \in B} BY <1>2 DEF NoBranch
<1> HIDE DEF then1, else1, then2, else2, x, y
<1>9. NodeOK(x, B, names) BY <1>2, <1>4, <1>5 DEF NodeOK
<1>10. NodeOK(y, B, names) BY <1>2, <1>8 DEF NodeOK
<1>11. ASSUME NEW s, NEW m \in Nat
       PROVE \E r : \E n \in Nat :
               (FALSE => r.kind = "seq") /\ Step(x, s, m, r, n) /\ Step(y, r, n, s, m)
  <2>1. Step(x, s, m, Push("cond", s), m + k) BY <1>2 DEF Step
  <2>2. Step(y, Push("cond", s), m + k, s, m)
    <3> HIDE DEF k
    <3>1. QED BY <1>2, <1>6 DEF Step
  <2>3. m + k \in Nat BY <1>7
  <2>4. QED BY <2>1, <2>2, <2>3
<1>12. \A s : \A m \in Nat : \E r : \E n \in Nat :
         (FALSE => r.kind = "seq") /\ Step(x, s, m, r, n) /\ Step(y, r, n, s, m)
  BY <1>11
<1>13. QED BY <1>1, <1>9, <1>10, <1>12, SoundBetween

-----------------------------------------------------------------------------
(* All nodes of a graph.                                                      *)

(* The code of a node refers to those of earlier nodes only.                  *)
LEMMA LinkOfLocal ==
  ASSUME NEW p, WellBuilt(p), NEW proactive, NEW long, NEW i \in DOMAIN p.nodes,
         NEW f, NEW g, \A j \in 1 .. i - 1 : f[j] = g[j]
  PROVE  LinkOf(p, proactive, long, f, i) = LinkOf(p, proactive, long, g, i)
<1> DEFINE node == p.nodes[i]
<1>1. RefersBack(node, i) BY DEF WellBuilt
<1>2. CASE node.kind = "parallel"
  <2>1. f[node.left] = g[node.left] /\ f[node.right] = g[node.right] BY <1>1, <1>2 DEF RefersBack
  <2>2. QED BY <1>2, <2>1 DEF LinkOf
<1>3. CASE node.kind = "sequential"
  <2>1. f[node.fst] = g[node.fst] /\ f[node.snd] = g[node.snd] BY <1>1, <1>3 DEF RefersBack
  <2>2. QED BY <1>3, <2>1 DEF LinkOf
<1>4. CASE node.kind = "condition"
  <2>1. f[node.cond] = g[node.cond] /\ f[node.then] = g[node.then] /\ f[node.else] = g[node.else]
    BY <1>1, <1>4 DEF RefersBack
  <2>2. QED BY <1>4, <2>1 DEF LinkOf
<1>5. CASE node.kind \in {"take", "scheme", "function", "constant"} BY <1>5 DEF LinkOf
<1>6. QED BY <1>1, <1>2, <1>3, <1>4, <1>5 DEF RefersBack

(* So the recursive definition has a solution.                                *)
LEMMA LinksExist ==
  ASSUME NEW p, WellBuilt(p), NEW proactive, NEW long
  PROVE  \E f : f = [i \in DOMAIN p.nodes |-> LinkOf(p, proactive, long, f, i)]
<1> DEFINE N == Len(p.nodes)
           Solves(f, n) == f = [i \in 1 .. n |-> LinkOf(p, proactive, long, f, i)]
           Bad == {n \in 0 .. N : ~ \E f : Solves(f, n)}
<1>1. N \in Nat /\ DOMAIN p.nodes = 1 .. N BY DEF WellBuilt
<1> HIDE DEF N
<1>2. ASSUME Bad # {} PROVE FALSE
  <2>1. Bad \in SUBSET Nat BY <1>1
  <2>2. PICK n \in Bad : \A m \in Bad : n <= m BY <1>2, <2>1, Least
  <2>3. n \in 0 .. N /\ ~ \E f : Solves(f, n) OBVIOUS
  <2>4. n # 0
    <3>1. ASSUME n = 0 PROVE FALSE
      <4> DEFINE e == [i \in 1 .. 0 |-> i]
      <4>1. e = [i \in 1 .. 0 |-> LinkOf(p, proactive, long, e, i)] OBVIOUS
      <4>2. QED BY <4>1, <3>1, <2>3
    <3>2. QED BY <3>1
  <2>5. n - 1 \in 0 .. N /\ n - 1 \notin Bad BY <2>1, <2>2, <2>3, <2>4, <1>1
  <2>6. PICK f : Solves(f, n - 1) BY <2>5
  <2> DEFINE g == [i \in 1 .. n |-> IF i < n THEN f[i] ELSE LinkOf(p, proactive, long, f, n)]
  <2>7. \A j \in 1 .. n - 1 : f[j] = g[j] BY <2>3, <1>1
  <2>8. ASSUME NEW i \in 1 .. n PROVE g[i] = LinkOf(p, proactive, long, g, i)
    <3>1. i \in DOMAIN p.nodes BY <1>1, <2>3
    <3>2. \A j \in 1 .. i - 1 : f[j] = g[j] BY <2>7, <2>3, <1>1
    <3> HIDE DEF g
    <3>3. LinkOf(p, proactive, long, f, i) = LinkOf(p, proactive, long, g, i)
      BY <3>1, <3>2, LinkOfLocal
    <3>4. CASE i < n
      <4>1. i \in 1 .. n - 1 BY <3>4, <2>3, <1>1
      <4>2. f[i] = LinkOf(p, proactive, long, f, i) BY <4>1, <2>6
      <4>3. QED BY <4>1, <4>2, <3>3, <2>7
    <3>5. CASE ~(i < n)
      <4>1. i = n BY <3>5, <2>3, <1>1
      <4>2. g[n] = LinkOf(p, proactive, long, f, n) BY <2>3, <2>4, <1>1 DEF g
      <4>3. QED BY <4>1, <4>2, <3>3
    <3>6. QED BY <3>4, <3>5
  <2>9. DOMAIN g = 1 .. n /\ g = [i \in 1 .. n |-> g[i]] OBVIOUS
  <2> HIDE DEF g
  <2>10. Solves(g, n) BY <2>8, <2>9
  <2>11. QED BY <2>3, <2>10
<1>3. N \in 0 .. N /\ N \notin Bad BY <1>2, <1>1
<1>4. PICK f : Solves(f, N) BY <1>3
<1>5. QED BY <1>1, <1>4

(* The equation of the recursive definition.                                  *)
LEMMA SpansEquation ==
  ASSUME NEW p, WellBuilt(p), NEW proactive
  PROVE  \E long, link :
           /\ link = [i \in DOMAIN p.nodes |-> LinkOf(p, proactive, long, link, i)]
           /\ Spans(p, proactive) = [i \in DOMAIN p.nodes |-> Framed(p.nodes[i], link[i])]
<1> DEFINE long == IsLong(p)
           P(f) == f = [i \in DOMAIN p.nodes |-> LinkOf(p, proactive, long, f, i)]
           link == CHOOSE f : P(f)
<1>1. Spans(p, proactive) = [i \in DOMAIN p.nodes |-> Framed(p.nodes[i], link[i])] BY DEF Spans
<1>2. \E f : P(f)
  <2> HIDE DEF long
  <2>1. QED BY LinksExist
<1> HIDE DEF P
<1>3. P(link) BY <1>2
<1> HIDE DEF link, long
<1>4. QED BY <1>1, <1>3 DEF P

(* The code of every node is balanced, whichever nodes are forked, and refers *)
(* to codes of nodes and to functions of the program only: what a fork starts *)
(* or a branch continues with is again such a code (Generator.cpp).           *)
THEOREM SpansSound ==
  ASSUME NEW p, WellBuilt(p), NEW proactive
  PROVE  \A i \in DOMAIN p.nodes :
           Sound(Spans(p, proactive)[i], Range(Spans(p, proactive)), DOMAIN p.functions, FALSE)
<1> DEFINE span == Spans(p, proactive)
           B == Range(span)
           names == DOMAIN p.functions
           N == Len(p.nodes)
<1>1. N \in Nat /\ DOMAIN p.nodes = 1 .. N BY DEF WellBuilt
<1>2. PICK long, link :
        /\ link = [i \in DOMAIN p.nodes |-> LinkOf(p, proactive, long, link, i)]
        /\ span = [i \in DOMAIN p.nodes |-> Framed(p.nodes[i], link[i])]
  BY SpansEquation
<1> HIDE DEF span, N
<1>3. \A i \in 1 .. N : /\ link[i] = LinkOf(p, proactive, long, link, i)
                        /\ span[i] = Framed(p.nodes[i], link[i]) /\ span[i] \in B
  BY <1>1, <1>2 DEF Range
<1> HIDE DEF B, names
<1> DEFINE Good(i) == /\ p.nodes[i].kind = "sequential" => Sound(link[i], B, names, TRUE)
                      /\ p.nodes[i].kind # "sequential" => Sound(link[i], B, names, FALSE)
<1>4. ASSUME NEW i \in 1 .. N, Good(i) PROVE Sound(span[i], B, names, FALSE)
  <2>1. CASE p.nodes[i].kind = "sequential" BY <2>1, <1>3, <1>4, SoundChain DEF Framed
  <2>2. CASE p.nodes[i].kind # "sequential" BY <2>2, <1>3, <1>4 DEF Framed
  <2>3. QED BY <2>1, <2>2
<1>5. ASSUME NEW i \in 1 .. N, \A j \in 1 .. i - 1 : Good(j)
      PROVE Good(i)
  <2> DEFINE node == p.nodes[i]
             Of(c) == Framed(p.nodes[c], link[c])
  <2>1. RefersBack(node, i) /\ (node.kind = "scheme" => node.name \in names)
    BY <1>1 DEF WellBuilt, names
  <2>2. ASSUME NEW j \in 1 .. i - 1 PROVE Sound(Of(j), B, names, FALSE) /\ Of(j) \in B
    <3>1. j \in 1 .. N BY <1>1
    <3>2. Good(j) BY <1>5
    <3> HIDE DEF Good
    <3>3. QED BY <3>1, <3>2, <1>3, <1>4
  <2>3. link[i] = LinkOf(p, proactive, long, link, i) BY <1>3
  <2> HIDE DEF Of
  <2>4. CASE node.kind = "parallel"
    <3>1. node.left \in 1 .. i - 1 /\ node.right \in 1 .. i - 1 BY <2>1, <2>4 DEF RefersBack
    <3>2. link[i] = ParallelSpan(Of(node.left), Of(node.right), long[node.left] /\ long[node.right])
      BY <2>3, <2>4 DEF LinkOf, Of
    <3>3. Sound(link[i], B, names, FALSE) BY <3>1, <3>2, <2>2, SoundParallel
    <3>4. QED BY <3>3, <2>4
  <2>5. CASE node.kind = "sequential"
    <3>1. node.fst \in 1 .. i - 1 /\ node.snd \in 1 .. i - 1 BY <2>1, <2>5 DEF RefersBack
    <3>2. link[i] = LinkSpan(link[node.fst], Of(node.snd)) BY <2>3, <2>5 DEF LinkOf, Of
    <3>3. \E linked : Sound(link[node.fst], B, names, linked) BY <3>1, <1>5
    <3>4. Sound(link[i], B, names, TRUE) BY <3>1, <3>2, <3>3, <2>2, SoundLink
    <3>5. QED BY <3>4, <2>5
  <2>6. CASE node.kind = "condition"
    <3>1. node.cond \in 1 .. i - 1 /\ node.then \in 1 .. i - 1 /\ node.else \in 1 .. i - 1
      BY <2>1, <2>6 DEF RefersBack
    <3>2. link[i] = ConditionSpan(Of(node.cond), Of(node.then), Of(node.else),
                      (proactive /\ long[node.cond]) /\ long[node.then],
                      (proactive /\ long[node.cond]) /\ long[node.else])
      BY <2>3, <2>6 DEF LinkOf, Of
    <3>3. Sound(link[i], B, names, FALSE) BY <3>1, <3>2, <2>2, SoundCondition
    <3>4. QED BY <3>3, <2>6
  <2>7. CASE node.kind = "scheme"
    <3>1. link[i] = <<RecFn(node.name)>> BY <2>3, <2>7 DEF LinkOf
    <3>2. NodeOK(RecFn(node.name), B, names) /\ RecFn(node.name).op = "RecFn"
      BY <2>1, <2>7 DEF NodeOK, RecFn
    <3>3. Sound(link[i], B, names, FALSE) BY <3>1, <3>2, SoundOne
    <3>4. QED BY <3>3, <2>7
  <2>8. CASE node.kind = "function"
    <3>1. link[i] = <<BasicFn(node.name)>> BY <2>3, <2>8 DEF LinkOf
    <3>2. NodeOK(BasicFn(node.name), B, names) /\ BasicFn(node.name).op = "BasicFn"
      BY DEF NodeOK, BasicFn
    <3>3. Sound(link[i], B, names, FALSE) BY <3>1, <3>2, SoundOne
    <3>4. QED BY <3>3, <2>8
  <2>9. CASE node.kind = "take"
    <3>1. link[i] = <<GetArg(node.from, node.to)>> BY <2>3, <2>9 DEF LinkOf
    <3>2. {node.from, node.to} \subseteq Int BY <2>1, <2>9 DEF RefersBack
    <3>3. NodeOK(GetArg(node.from, node.to), B, names) /\ GetArg(node.from, node.to).op = "GetArg"
      BY <3>2 DEF NodeOK, GetArg
    <3>4. Sound(link[i], B, names, FALSE) BY <3>1, <3>3, SoundOne
    <3>5. QED BY <3>4, <2>9
  <2>10. CASE node.kind = "constant"
    <3>1. link[i] = <<Constant(node.value)>> BY <2>3, <2>10 DEF LinkOf
    <3>2. NodeOK(Constant(node.value), B, names) /\ Constant(node.value).op = "Constant"
      BY DEF NodeOK, Constant
    <3>3. Sound(link[i], B, names, FALSE) BY <3>1, <3>2, SoundOne
    <3>4. QED BY <3>3, <2>10
  <2>11. QED BY <2>1, <2>4, <2>5, <2>6, <2>7, <2>8, <2>9, <2>10 DEF RefersBack
<1> HIDE DEF Good
<1> DEFINE Bad == {i \in 1 .. N : ~ Good(i)}
<1>6. Bad = {}
  <2>1. ASSUME Bad # {} PROVE FALSE
    <3>1. Bad \in SUBSET Nat BY <1>1
    <3>2. PICK i \in Bad : \A j \in Bad : i <= j BY <2>1, <3>1, Least
    <3>3. \A j \in 1 .. i - 1 : Good(j) BY <3>2, <1>1
    <3>4. QED BY <3>3, <1>5
  <2>2. QED BY <2>1
<1>7. \A i \in 1 .. N : Good(i) BY <1>6
<1>8. QED BY <1>1, <1>4, <1>7 DEF B, names, span
=============================================================================
