--------------------------- MODULE InternalFormProofs ---------------------------
(* Proofs about the virtual machine, for every program that a generator can be *)
(* given and every library.  GeneratorProofs says of each code that it is      *)
(* balanced; here the balance is followed through the calls, branches and forks *)
(* of a context, until a canceled task takes what another one waits for, and   *)
(* as far as it goes through that step.                                        *)
EXTENDS InternalForm, GeneratorProofs

-----------------------------------------------------------------------------
(* The code of a context.  K[i] is the control stack, as kinds of frames, up  *)
(* to its i-th frame; E[i], for a frame of a call, the forks left to join     *)
(* when the call returns.                                                     *)
Stacked(control, K) ==
  K[0] = Empty /\ \A i \in 1 .. Len(control) :
                    K[i] = Push(control[i].kind, K[i-1]) /\ K[i].height = i

(* Code goes, with m forks to join, either to the end of the task or, as the  *)
(* body of a function, to the return of the call of one of the first n frames.*)
Goes(code, n, s, m, control, K, E) ==
  \/ Leads(code, s, m, Empty, 0)
  \/ \E b : \E j \in 1 .. n :
       /\ IsSeq(b) /\ code = b \o <<Ret>>
       /\ control[j].kind = "ret" /\ Leads(b, s, m, K[j], E[j])

Returns(control, K, E) ==
  \A i \in 1 .. Len(control) : control[i].kind = "ret" =>
    Goes(control[i].code, i - 1, K[i-1], E[i], control, K, E)

(* Of m forks to join p are pending: all of them, but for those that a        *)
(* canceled context has skipped.                                              *)
Counts(p, m, canceled) == p <= m /\ (canceled \/ p = m)

Typed(code, control, p, canceled) ==
  \E K : \E E \in [Nat -> Nat] : \E m \in Nat :
    /\ Stacked(control, K) /\ Returns(control, K, E) /\ Counts(p, m, canceled)
    /\ Goes(code, Len(control), K[Len(control)], m, control, K, E)

(* Only the first n frames matter.                                            *)
Agree(n, control, K, E, control2, K2, E2) ==
  \A j \in 1 .. n : control2[j] = control[j] /\ K2[j] = K[j] /\ E2[j] = E[j]

(* What a code leads to depends on the frames below it only.                  *)
LEMMA GoesLocal ==
  ASSUME NEW code, NEW n \in Nat, NEW n2 \in Nat, n <= n2, NEW s, NEW m,
         NEW control, NEW K, NEW E, NEW control2, NEW K2, NEW E2,
         Agree(n, control, K, E, control2, K2, E2),
         Goes(code, n, s, m, control, K, E)
  PROVE  Goes(code, n2, s, m, control2, K2, E2)
<1>1. CASE Leads(code, s, m, Empty, 0) BY <1>1 DEF Goes
<1>2. CASE \E b : \E j \in 1 .. n :
             /\ IsSeq(b) /\ code = b \o <<Ret>>
             /\ control[j].kind = "ret" /\ Leads(b, s, m, K[j], E[j])
  <2>1. PICK b : \E j \in 1 .. n :
             /\ IsSeq(b) /\ code = b \o <<Ret>>
             /\ control[j].kind = "ret" /\ Leads(b, s, m, K[j], E[j])
    BY <1>2
  <2>2. PICK j \in 1 .. n :
             /\ IsSeq(b) /\ code = b \o <<Ret>>
             /\ control[j].kind = "ret" /\ Leads(b, s, m, K[j], E[j])
    BY <2>1
  <2>3. j \in 1 .. n2 /\ control2[j] = control[j] /\ K2[j] = K[j] /\ E2[j] = E[j] BY DEF Agree
  <2>4. control2[j].kind = "ret" /\ Leads(b, s, m, K2[j], E2[j]) BY <2>2, <2>3
  <2>5. QED BY <2>2, <2>3, <2>4 DEF Goes
<1>3. QED BY <1>1, <1>2 DEF Goes

(* A node that is not Ret, and the rest.                                      *)
LEMMA GoesHead ==
  ASSUME NEW code, IsSeq(code), code # << >>, Head(code).op # "Ret",
         NEW n, NEW s, NEW m, NEW control, NEW K, NEW E,
         Goes(code, n, s, m, control, K, E)
  PROVE  \E u : \E k \in Nat : Step(Head(code), s, m, u, k) /\ Goes(Tail(code), n, u, k, control, K, E)
<1>1. CASE Leads(code, s, m, Empty, 0)
  <2>1. PICK u : \E k \in Nat : Step(Head(code), s, m, u, k) /\ Leads(Tail(code), u, k, Empty, 0)
    BY <1>1, LeadsHead
  <2>2. QED BY <2>1 DEF Goes
<1>2. CASE \E b : \E j \in 1 .. n :
             /\ IsSeq(b) /\ code = b \o <<Ret>>
             /\ control[j].kind = "ret" /\ Leads(b, s, m, K[j], E[j])
  <2>1. PICK b : \E j \in 1 .. n :
             /\ IsSeq(b) /\ code = b \o <<Ret>>
             /\ control[j].kind = "ret" /\ Leads(b, s, m, K[j], E[j])
    BY <1>2
  <2>2. PICK j \in 1 .. n :
             /\ IsSeq(b) /\ code = b \o <<Ret>>
             /\ control[j].kind = "ret" /\ Leads(b, s, m, K[j], E[j])
    BY <2>1
  <2>3. b # << >> /\ Head(code) = Head(b) /\ Tail(code) = Tail(b) \o <<Ret>>
    BY <2>2, SeqHeadCut DEF Ret
  <2>4. PICK u : \E k \in Nat : Step(Head(b), s, m, u, k) /\ Leads(Tail(b), u, k, K[j], E[j])
    BY <2>2, <2>3, LeadsHead
  <2>5. IsSeq(Tail(b)) BY <2>2, <2>3, SeqHeadTail
  <2>6. QED BY <2>2, <2>3, <2>4, <2>5 DEF Goes
<1>3. QED BY <1>1, <1>2 DEF Goes

(* The end of a function's body.                                              *)
AtReturn(n, s, m, control, K, E) ==
  \E j \in 1 .. n : control[j].kind = "ret" /\ s = K[j] /\ m = E[j]

(* At a Ret the body of the topmost call still open is over, and balanced.    *)
LEMMA GoesRet ==
  ASSUME NEW code, IsSeq(code), code # << >>, Head(code).op = "Ret",
         NEW n \in Nat, NEW s, NEW m \in Nat, NEW control, NEW K, NEW E \in [Nat -> Nat],
         Goes(code, n, s, m, control, K, E)
  PROVE  AtReturn(n, s, m, control, K, E)
<1>1. \A u, k, r, l : ~ Step(Head(code), u, k, r, l) BY SMTT(30) DEF Step
<1>2. ~ Leads(code, s, m, Empty, 0)
  <2>1. ASSUME Leads(code, s, m, Empty, 0) PROVE FALSE
    <3>1. PICK u : \E k \in Nat : Step(Head(code), s, m, u, k) BY <2>1, LeadsHead
    <3>2. QED BY <3>1, <1>1
  <2>2. QED BY <2>1
<1>3. PICK b : \E j \in 1 .. n :
           /\ IsSeq(b) /\ code = b \o <<Ret>>
           /\ control[j].kind = "ret" /\ Leads(b, s, m, K[j], E[j])
  BY <1>2 DEF Goes
<1>4. b = << >>
  <2>1. ASSUME b # << >> PROVE FALSE
    <3>1. Head(code) = Head(b) BY <1>3, <2>1, SeqHeadCut
    <3>2. PICK j \in 1 .. n : Leads(b, s, m, K[j], E[j]) BY <1>3
    <3>3. PICK u : \E k \in Nat : Step(Head(b), s, m, u, k) BY <1>3, <2>1, <3>2, LeadsHead
    <3>4. QED BY <1>1, <3>1, <3>3
  <2>2. QED BY <2>1
<1>5. QED BY <1>3, <1>4, LeadsNone, SMTT(30) DEF AtReturn

(* A code before another.                                                     *)
LEMMA GoesConcat ==
  ASSUME NEW a, NEW code, IsSeq(a), IsSeq(code), NEW n, NEW s, NEW m, NEW u, NEW k,
         NEW control, NEW K, NEW E,
         Leads(a, s, m, u, k), Goes(code, n, u, k, control, K, E)
  PROVE  Goes(a \o code, n, s, m, control, K, E)
<1>1. CASE Leads(code, u, k, Empty, 0) BY <1>1, LeadsConcat DEF Goes
<1>2. CASE \E b : \E j \in 1 .. n :
             /\ IsSeq(b) /\ code = b \o <<Ret>>
             /\ control[j].kind = "ret" /\ Leads(b, u, k, K[j], E[j])
  <2>1. PICK b : \E j \in 1 .. n :
             /\ IsSeq(b) /\ code = b \o <<Ret>>
             /\ control[j].kind = "ret" /\ Leads(b, u, k, K[j], E[j])
    BY <1>2
  <2>2. PICK j \in 1 .. n :
             /\ IsSeq(b) /\ code = b \o <<Ret>>
             /\ control[j].kind = "ret" /\ Leads(b, u, k, K[j], E[j])
    BY <2>1
  <2>3. IsSeq(a \o b) BY <2>2, SeqConcat
  <2>4. Leads(a \o b, s, m, K[j], E[j]) BY <2>2, LeadsConcat
  <2>5. a \o code = (a \o b) \o <<Ret>>
    <3>1. IsSeq(<<Ret>>) /\ IsSeq(b) BY <2>2, SeqOne
    <3>2. (a \o b) \o <<Ret>> = a \o (b \o <<Ret>>) BY <3>1, <2>2, SeqAssociates, SMTT(30)
    <3>3. QED BY <2>2, <3>2
  <2>6. QED BY <2>2, <2>3, <2>4, <2>5 DEF Goes
<1>3. QED BY <1>1, <1>2 DEF Goes

(* A frame is pushed.                                                         *)
AfterPush(control, f, e, K, E, K2, E2) ==
  /\ Stacked(Append(control, f), K2) /\ Returns(Append(control, f), K2, E2)
  /\ K2[Len(control) + 1] = Push(f.kind, K[Len(control)]) /\ E2[Len(control) + 1] = e
  /\ \A j \in 0 .. Len(control) : K2[j] = K[j] /\ E2[j] = E[j]
Resumes(f, control, K, E, e) ==
  f.kind = "ret" => Goes(f.code, Len(control), K[Len(control)], e, control, K, E)

(* A frame pushed on a described control stack leaves it described.           *)
LEMMA StackedPush ==
  ASSUME NEW control, IsSeq(control), NEW K, NEW E \in [Nat -> Nat], Stacked(control, K),
         Returns(control, K, E), NEW f, NEW e \in Nat, Resumes(f, control, K, E, e)
  PROVE  \E K2 : \E E2 \in [Nat -> Nat] : AfterPush(control, f, e, K, E, K2, E2)
<1> DEFINE n == Len(control)
           control2 == Append(control, f)
           K2 == [i \in 0 .. n + 1 |-> IF i = n + 1 THEN Push(f.kind, K[n]) ELSE K[i]]
           E2 == [i \in Nat |-> IF i = n + 1 THEN e ELSE E[i]]
<1>1. n \in Nat BY SeqFacts
<1>2. /\ Len(control2) = n + 1 /\ control2[n + 1] = f
      /\ \A i \in 1 .. n : control2[i] = control[i]
  BY SeqAppend
<1> HIDE DEF n, control2
<1>3. /\ E2 \in [Nat -> Nat] /\ K2[n + 1] = Push(f.kind, K[n]) /\ E2[n + 1] = e
      /\ \A j \in 0 .. n : K2[j] = K[j] /\ E2[j] = E[j]
  <2>1. n + 1 \in 0 .. n + 1 /\ n + 1 \in Nat BY <1>1
  <2>2. \A j \in 0 .. n : j \in 0 .. n + 1 /\ j \in Nat /\ j # n + 1 BY <1>1
  <2>3. E2 \in [Nat -> Nat] OBVIOUS
  <2>4. QED BY <2>1, <2>2, <2>3
<1> HIDE DEF K2, E2
<1>4. K2[0] = Empty
  <2>1. 0 \in 0 .. n BY <1>1
  <2>2. QED BY <2>1, <1>3 DEF Stacked
<1>5. ASSUME NEW i \in 1 .. n + 1
      PROVE  K2[i] = Push(control2[i].kind, K2[i-1]) /\ K2[i].height = i
  <2>1. CASE i = n + 1
    <3>1. K[n].height = n
      <4>1. CASE n = 0 BY <4>1 DEF Stacked, Empty
      <4>2. CASE n # 0
        <5>1. n \in 1 .. n BY <4>2, <1>1
        <5>2. QED BY <5>1 DEF Stacked, n
      <4>3. QED BY <4>1, <4>2
    <3>2. K2[i] = Push(f.kind, K[n]) /\ K2[i-1] = K[n] /\ control2[i] = f BY <2>1, <1>1, <1>2, <1>3
    <3>3. K2[i].height = K[n].height + 1 BY <3>2 DEF Push
    <3>4. QED BY <2>1, <3>1, <3>2, <3>3
  <2>2. CASE i # n + 1
    <3>1. i \in 1 .. n /\ i \in 0 .. n /\ i - 1 \in 0 .. n BY <2>2, <1>1
    <3>2. K[i] = Push(control[i].kind, K[i-1]) /\ K[i].height = i BY <3>1 DEF Stacked, n
    <3>3. QED BY <3>1, <3>2, <1>2, <1>3
  <2>3. QED BY <2>1, <2>2
<1>6. ASSUME NEW i \in 1 .. n + 1, control2[i].kind = "ret"
      PROVE  Goes(control2[i].code, i - 1, K2[i-1], E2[i], control2, K2, E2)
  <2>1. i - 1 \in Nat /\ i - 1 <= n /\ i - 1 \in 0 .. n BY <1>1
  <2>2. Agree(i - 1, control, K, E, control2, K2, E2)
    <3>1. \A j \in 1 .. i - 1 : j \in 1 .. n /\ j \in 0 .. n BY <2>1, <1>1
    <3>2. QED BY <3>1, <1>2, <1>3 DEF Agree
  <2>3. Goes(control2[i].code, i - 1, K[i-1], E2[i], control, K, E)
    <3>1. CASE i = n + 1 BY <3>1, <1>1, <1>2, <1>3, <1>6 DEF n, Resumes
    <3>2. CASE i # n + 1
      <4>1. i \in 1 .. n /\ i \in 0 .. n BY <3>2, <1>1
      <4>2. control2[i] = control[i] /\ E2[i] = E[i] BY <4>1, <1>2, <1>3
      <4>3. QED BY <4>1, <4>2, <1>6 DEF Returns, n
    <3>3. QED BY <3>1, <3>2
  <2>4. K2[i-1] = K[i-1] BY <2>1, <1>3
  <2>5. Goes(control2[i].code, i - 1, K[i-1], E2[i], control2, K2, E2)
    BY <2>1, <2>2, <2>3, GoesLocal
  <2>6. QED BY <2>4, <2>5
<1>7. Stacked(control2, K2) BY <1>2, <1>4, <1>5 DEF Stacked
<1>8. Returns(control2, K2, E2) BY <1>2, <1>6 DEF Returns
<1>9. QED BY <1>3, <1>7, <1>8 DEF AfterPush, n, control2

(* The last frame is popped.                                                  *)
LEMMA StackedPop ==
  ASSUME NEW control, IsSeq(control), control # << >>, NEW K, NEW E,
         Stacked(control, K), Returns(control, K, E)
  PROVE  Stacked(Front(control), K) /\ Returns(Front(control), K, E)
<1> DEFINE n == Len(control)
           control2 == Front(control)
<1>1. n \in Nat /\ n > 0 BY SeqFacts
<1>2. Len(control2) = n - 1 /\ \A i \in 1 .. n - 1 : control2[i] = control[i] BY SeqFrontLast
<1> HIDE DEF control2
<1>3. Stacked(control2, K)
  <2>1. \A i \in 1 .. n - 1 : K[i] = Push(control[i].kind, K[i-1]) /\ K[i].height = i
    BY <1>1 DEF Stacked
  <2>2. QED BY <1>2, <2>1 DEF Stacked
<1>4. ASSUME NEW i \in 1 .. n - 1, control2[i].kind = "ret"
      PROVE  Goes(control2[i].code, i - 1, K[i-1], E[i], control2, K, E)
  <2>1. i \in 1 .. n /\ i - 1 \in Nat /\ control2[i] = control[i] BY <1>1, <1>2
  <2>2. Goes(control[i].code, i - 1, K[i-1], E[i], control, K, E) BY <2>1, <1>4 DEF Returns
  <2>3. Agree(i - 1, control, K, E, control2, K, E) BY <1>1, <1>2 DEF Agree
  <2>4. QED BY <2>1, <2>2, <2>3, GoesLocal
<1>5. Returns(control2, K, E) BY <1>2, <1>4 DEF Returns
<1>6. QED BY <1>3, <1>5 DEF control2

(* The kind on top is that of the last frame.                                 *)
Topped(control, K, kind, u) ==
  IsSeq(control) /\ Stacked(control, K) /\ K[Len(control)] = Push(kind, u) /\ kind # "none"

(* If the description says a kind is on top, a frame of that kind is.         *)
LEMMA StackedTop ==
  ASSUME NEW control, NEW K, NEW kind, NEW u, Topped(control, K, kind, u)
  PROVE  control # << >> /\ Last(control).kind = kind /\ u = K[Len(Front(control))]
<1> USE DEF Topped
<1> DEFINE n == Len(control)
<1>1. n \in Nat BY SeqFacts
<1>2. n # 0
  <2>1. ASSUME n = 0 PROVE FALSE BY <2>1 DEF Stacked, Empty, Push
  <2>2. QED BY <2>1
<1>3. control # << >> BY <1>2, SeqNone
<1>4. n \in 1 .. n /\ K[n] = Push(control[n].kind, K[n-1]) BY <1>1, <1>2 DEF Stacked
<1>5. Last(control) = control[n] /\ Len(Front(control)) = n - 1 BY <1>3, SeqFrontLast
<1>6. control[n].kind = kind /\ u = K[n-1] BY <1>4 DEF Push
<1>7. QED BY <1>3, <1>5, <1>6

(* A code that begins.                                                        *)
LEMMA TypedBegin ==
  ASSUME NEW b, NEW B, NEW names, Sound(b, B, names, FALSE), NEW canceled
  PROVE  Typed(b, << >>, 0, canceled)
<1> DEFINE K == [i \in {0} |-> Empty]
           E == [i \in Nat |-> 0]
<1>1. Len(<< >>) = 0 /\ K[0] = Empty /\ E \in [Nat -> Nat] BY SeqNone
<1> HIDE DEF K, E
<1>2. Stacked(<< >>, K) /\ Returns(<< >>, K, E) BY <1>1 DEF Stacked, Returns
<1>3. Leads(b, Empty, 0, Empty, 0) BY DEF Sound, Balanced
<1>4. Goes(b, 0, Empty, 0, << >>, K, E) BY <1>3 DEF Goes
<1>5. Counts(0, 0, canceled) /\ 0 \in Nat BY DEF Counts
<1>6. QED BY <1>1, <1>2, <1>4, <1>5 DEF Typed

(* A code that is over.                                                       *)
LEMMA TypedDone == ASSUME NEW control, IsSeq(control), NEW p \in Nat,
         NEW canceled, Typed(<< >>, control, p, canceled)
  PROVE control = << >> /\ p = 0
<1> DEFINE n == Len(control)
<1>1. PICK K : \E E \in [Nat -> Nat] : \E m \in Nat :
        /\ Stacked(control, K) /\ Returns(control, K, E) /\ Counts(p, m, canceled)
        /\ Goes(<< >>, n, K[n], m, control, K, E)
  BY DEF Typed
<1>2. PICK E \in [Nat -> Nat], m \in Nat :
        /\ Stacked(control, K) /\ Returns(control, K, E) /\ Counts(p, m, canceled)
        /\ Goes(<< >>, n, K[n], m, control, K, E)
  BY <1>1
<1>3. ASSUME NEW b, IsSeq(b), << >> = b \o <<Ret>> PROVE FALSE
  <2>1. IsSeq(<<Ret>>) /\ Len(<<Ret>>) = 1 BY SeqOne
  <2>2. Len(b \o <<Ret>>) = Len(b) + 1 /\ Len(b) \in Nat BY <1>3, <2>1, SeqConcat, SeqFacts
  <2>3. Len(b \o <<Ret>>) = 0 BY <1>3, SeqNone
  <2>4. QED BY <2>2, <2>3
<1>4. K[n] = Empty /\ m = 0 BY <1>2, <1>3, LeadsNone DEF Goes
<1>5. n = 0
  <2>1. n \in Nat BY SeqFacts
  <2>2. ASSUME n # 0 PROVE FALSE
    <3>1. n \in 1 .. n BY <2>1, <2>2
    <3>2. K[n].height = n BY <3>1, <1>2 DEF Stacked
    <3>3. QED BY <2>2, <3>2, <1>4 DEF Empty
  <2>3. QED BY <2>2
<1>6. p = 0 BY <1>2, <1>4 DEF Counts
<1>7. QED BY <1>5, <1>6, SeqFacts

(* Fewer tasks may be pending, if no exact count is asked for.                *)
LEMMA TypedFewer ==
  ASSUME NEW code, NEW control, NEW p \in Nat, NEW canceled,
         Typed(code, control, p, canceled), NEW q \in Nat, q <= p
  PROVE  Typed(code, control, q, TRUE)
<1>1. PICK K : \E E \in [Nat -> Nat] : \E m \in Nat :
        /\ Stacked(control, K) /\ Returns(control, K, E) /\ Counts(p, m, canceled)
        /\ Goes(code, Len(control), K[Len(control)], m, control, K, E)
  BY DEF Typed
<1>2. PICK E \in [Nat -> Nat], m \in Nat :
        /\ Stacked(control, K) /\ Returns(control, K, E) /\ Counts(p, m, canceled)
        /\ Goes(code, Len(control), K[Len(control)], m, control, K, E)
  BY <1>1
<1>3. Counts(q, m, TRUE) BY <1>2 DEF Counts
<1>4. QED BY <1>2, <1>3 DEF Typed

(* What is known before a node that is not Ret.                               *)
Before(x, rest, control, p, canceled, K, E, m, u, k) ==
  /\ Stacked(control, K) /\ Returns(control, K, E) /\ Counts(p, m, canceled)
  /\ Step(x, K[Len(control)], m, u, k)
  /\ Goes(rest, Len(control), u, k, control, K, E)

(* A context whose next node is not Ret is as described before that node.     *)
LEMMA TypedNode ==
  ASSUME NEW code, IsSeq(code), code # << >>, Head(code).op # "Ret",
         NEW control, NEW p, NEW canceled, Typed(code, control, p, canceled)
  PROVE  \E K, u : \E E \in [Nat -> Nat] : \E m \in Nat, k \in Nat :
           Before(Head(code), Tail(code), control, p, canceled, K, E, m, u, k)
<1> DEFINE n == Len(control)
<1>1. PICK K : \E E \in [Nat -> Nat] : \E m \in Nat :
        /\ Stacked(control, K) /\ Returns(control, K, E) /\ Counts(p, m, canceled)
        /\ Goes(code, n, K[n], m, control, K, E)
  BY DEF Typed
<1>2. PICK E \in [Nat -> Nat], m \in Nat :
        /\ Stacked(control, K) /\ Returns(control, K, E) /\ Counts(p, m, canceled)
        /\ Goes(code, n, K[n], m, control, K, E)
  BY <1>1
<1>3. PICK u : \E k \in Nat :
        Step(Head(code), K[n], m, u, k) /\ Goes(Tail(code), n, u, k, control, K, E)
  BY <1>2, GoesHead
<1>4. QED BY <1>2, <1>3 DEF Before

(* And after a node that leaves the control stack alone.                      *)
LEMMA TypedAfter ==
  ASSUME NEW control, NEW K, NEW E \in [Nat -> Nat], NEW rest, NEW k \in Nat, NEW q,
         NEW canceled, Counts(q, k, canceled),
         Stacked(control, K), Returns(control, K, E),
         Goes(rest, Len(control), K[Len(control)], k, control, K, E)
  PROVE  Typed(rest, control, q, canceled)
BY DEF Typed

(* After one that pushes a frame, which returns to what follows if it is a    *)
(* call's.                                                                    *)
LEMMA TypedPushed ==
  ASSUME NEW control, IsSeq(control), NEW K, NEW E \in [Nat -> Nat], NEW rest,
         NEW k \in Nat, NEW q, NEW canceled, Counts(q, k, canceled),
         NEW f, f.kind # "ret",
         Stacked(control, K), Returns(control, K, E),
         Goes(rest, Len(control), Push(f.kind, K[Len(control)]), k, control, K, E)
  PROVE  Typed(rest, Append(control, f), q, canceled)
<1> DEFINE n == Len(control)
           control2 == Append(control, f)
<1>1. n \in Nat /\ Len(control2) = n + 1 /\ \A i \in 1 .. n : control2[i] = control[i]
  BY SeqFacts, SeqAppend
<1>2. PICK K2 : \E E2 \in [Nat -> Nat] : AfterPush(control, f, 0, K, E, K2, E2)
  <2>1. Resumes(f, control, K, E, 0) BY DEF Resumes
  <2>2. QED BY <2>1, StackedPush
<1>3. PICK E2 \in [Nat -> Nat] :
        /\ Stacked(control2, K2) /\ Returns(control2, K2, E2)
        /\ K2[n + 1] = Push(f.kind, K[n])
        /\ \A j \in 0 .. n : K2[j] = K[j] /\ E2[j] = E[j]
  BY <1>2 DEF AfterPush
<1> HIDE DEF control2
<1>4. Agree(n, control, K, E, control2, K2, E2)
  <2>1. \A j \in 1 .. n : j \in 0 .. n BY <1>1
  <2>2. QED BY <2>1, <1>1, <1>3 DEF Agree
<1>5. n + 1 \in Nat /\ n <= n + 1 BY <1>1
<1>6. Goes(rest, n + 1, Push(f.kind, K[n]), k, control2, K2, E2)
  BY <1>1, <1>4, <1>5, GoesLocal
<1>7. Typed(rest, control2, q, canceled)
  <2>1. Goes(rest, Len(control2), K2[Len(control2)], k, control2, K2, E2) BY <1>1, <1>3, <1>6
  <2>2. QED BY <1>3, <2>1, TypedAfter
<1>8. QED BY <1>7 DEF control2

(* After one that pops a frame.                                               *)
LEMMA TypedPopped ==
  ASSUME NEW control, IsSeq(control), NEW K, NEW E \in [Nat -> Nat], NEW rest,
         NEW k \in Nat, NEW q, NEW canceled, Counts(q, k, canceled),
         NEW kind, kind \notin {"none", "ret"}, NEW u,
         Stacked(control, K), Returns(control, K, E), K[Len(control)] = Push(kind, u),
         Goes(rest, Len(control), u, k, control, K, E)
  PROVE  /\ control # << >> /\ Last(control).kind = kind
         /\ Typed(rest, Front(control), q, canceled)
<1> DEFINE n == Len(control)
           control2 == Front(control)
<1>1. n \in Nat BY SeqFacts
<1>2. kind # "none" OBVIOUS
<1>3. control # << >> /\ Last(control).kind = kind /\ u = K[Len(control2)]
  <2>1. Topped(control, K, kind, u) BY <1>2 DEF Topped
  <2>2. QED BY <2>1, StackedTop
<1>4. /\ n > 0 /\ Len(control2) = n - 1 /\ Last(control) = control[n]
      /\ \A i \in 1 .. n - 1 : control2[i] = control[i]
  BY <1>3, SeqFacts, SeqFrontLast
<1>5. Stacked(control2, K) /\ Returns(control2, K, E) BY <1>3, StackedPop
<1> HIDE DEF control2
<1>6. n - 1 \in Nat BY <1>1, <1>4
<1>7. Agree(n - 1, control, K, E, control2, K, E) BY <1>4 DEF Agree
<1>8. Goes(rest, n - 1, u, k, control2, K, E)
  <2>1. CASE Leads(rest, u, k, Empty, 0) BY <2>1 DEF Goes
  <2>2. CASE \E b : \E j \in 1 .. n :
               /\ IsSeq(b) /\ rest = b \o <<Ret>>
               /\ control[j].kind = "ret" /\ Leads(b, u, k, K[j], E[j])
    <3>1. PICK b : \E j \in 1 .. n :
               /\ IsSeq(b) /\ rest = b \o <<Ret>>
               /\ control[j].kind = "ret" /\ Leads(b, u, k, K[j], E[j])
      BY <2>2
    <3>2. PICK j \in 1 .. n :
               /\ IsSeq(b) /\ rest = b \o <<Ret>>
               /\ control[j].kind = "ret" /\ Leads(b, u, k, K[j], E[j])
      BY <3>1
    <3>3. j # n BY <3>2, <1>3, <1>4
    <3>4. j \in 1 .. n - 1 BY <3>3, <1>1
    <3>5. control2[j].kind = "ret" BY <3>2, <3>4, <1>4
    <3>6. QED BY <3>2, <3>4, <3>5 DEF Goes
  <2>3. QED BY <2>1, <2>2 DEF Goes
<1>9. Goes(rest, Len(control2), K[Len(control2)], k, control2, K, E) BY <1>3, <1>4, <1>8
<1>10. Typed(rest, control2, q, canceled) BY <1>5, <1>9, TypedAfter
<1>11. QED BY <1>3, <1>10 DEF control2

(* One lemma per node.  p tasks at most were pending before it.               *)
LEMMA TypedPlain ==
  ASSUME NEW code, IsSeq(code), code # << >>, NEW control, IsSeq(control),
         NEW p \in Nat, NEW canceled, Typed(code, control, p, canceled),
         Head(code).op \in {"BasicFn", "GetArg", "Constant"}
  PROVE  Typed(Tail(code), control, p, canceled)
<1>1. PICK K, u : \E E \in [Nat -> Nat] : \E m \in Nat, k \in Nat :
        Before(Head(code), Tail(code), control, p, canceled, K, E, m, u, k)
  BY TypedNode
<1>2. PICK E \in [Nat -> Nat], m \in Nat, k \in Nat :
        Before(Head(code), Tail(code), control, p, canceled, K, E, m, u, k)
  BY <1>1
<1>3. u = K[Len(control)] /\ k = m BY <1>2 DEF Before, Step
<1>4. QED BY <1>2, <1>3, TypedAfter DEF Before

(* ParFork.                                                                   *)
LEMMA TypedParFork ==
  ASSUME NEW code, IsSeq(code), code # << >>, NEW control, IsSeq(control),
         NEW p \in Nat, NEW canceled, Typed(code, control, p, canceled), Head(code).op = "ParFork"
  PROVE  Typed(Tail(code), control, p, TRUE) /\ Typed(Tail(code), control, p + 1, canceled)
<1>1. PICK K, u : \E E \in [Nat -> Nat] : \E m \in Nat, k \in Nat :
        Before(Head(code), Tail(code), control, p, canceled, K, E, m, u, k)
  BY TypedNode
<1>2. PICK E \in [Nat -> Nat], m \in Nat, k \in Nat :
        Before(Head(code), Tail(code), control, p, canceled, K, E, m, u, k)
  BY <1>1
<1>3. u = K[Len(control)] /\ k = m + 1 /\ Counts(p, m, canceled) BY <1>2 DEF Before, Step
<1>4. Counts(p, k, TRUE) /\ Counts(p + 1, k, canceled) BY <1>3 DEF Counts
<1>5. QED BY <1>2, <1>3, <1>4, TypedAfter DEF Before

(* ParJoin.                                                                   *)
LEMMA TypedParJoin ==
  ASSUME NEW code, IsSeq(code), code # << >>, NEW control, IsSeq(control),
         NEW p \in Nat, NEW canceled, Typed(code, control, p, canceled), Head(code).op = "ParJoin"
  PROVE  (canceled \/ p # 0) /\ Typed(Tail(code), control, IF p = 0 THEN 0 ELSE p - 1, canceled)
<1>1. PICK K, u : \E E \in [Nat -> Nat] : \E m \in Nat, k \in Nat :
        Before(Head(code), Tail(code), control, p, canceled, K, E, m, u, k)
  BY TypedNode
<1>2. PICK E \in [Nat -> Nat], m \in Nat, k \in Nat :
        Before(Head(code), Tail(code), control, p, canceled, K, E, m, u, k)
  BY <1>1
<1> DEFINE q == IF p = 0 THEN 0 ELSE p - 1
<1>3. u = K[Len(control)] /\ m = k + 1 /\ Counts(p, m, canceled) BY <1>2 DEF Before, Step
<1>4. Counts(q, k, canceled) /\ (canceled \/ p # 0)
  <2>1. p <= k + 1 /\ (canceled \/ p = k + 1) BY <1>3 DEF Counts
  <2>2. CASE p = 0
    <3>1. q = 0 /\ 0 <= k /\ p # k + 1 BY <2>2
    <3> HIDE DEF q
    <3>2. QED BY <2>1, <3>1 DEF Counts
  <2>3. CASE p # 0
    <3>1. q <= k /\ (p = k + 1 => q = k) BY <2>1, <2>3
    <3> HIDE DEF q
    <3>2. QED BY <2>1, <2>3, <3>1 DEF Counts
  <2>4. QED BY <2>2, <2>3
<1> HIDE DEF q
<1>5. Typed(Tail(code), control, q, canceled) BY <1>2, <1>3, <1>4, TypedAfter DEF Before
<1>6. QED BY <1>4, <1>5 DEF q

(* SeqBegin.                                                                  *)
LEMMA TypedSeqBegin ==
  ASSUME NEW code, IsSeq(code), code # << >>, NEW control, IsSeq(control),
         NEW p \in Nat, NEW canceled, Typed(code, control, p, canceled), Head(code).op = "SeqBegin",
         NEW f, f.kind = "seq"
  PROVE  Typed(Tail(code), Append(control, f), p, canceled)
<1>1. PICK K, u : \E E \in [Nat -> Nat] : \E m \in Nat, k \in Nat :
        Before(Head(code), Tail(code), control, p, canceled, K, E, m, u, k)
  BY TypedNode
<1>2. PICK E \in [Nat -> Nat], m \in Nat, k \in Nat :
        Before(Head(code), Tail(code), control, p, canceled, K, E, m, u, k)
  BY <1>1
<1>3. u = Push(f.kind, K[Len(control)]) /\ Counts(p, k, canceled) BY <1>2 DEF Before, Step
<1>4. f.kind # "ret" OBVIOUS
<1>5. QED BY <1>2, <1>3, <1>4, TypedPushed DEF Before

(* CondStart, with up to d forks.                                             *)
LEMMA TypedCondStart ==
  ASSUME NEW code, IsSeq(code), code # << >>, NEW control, IsSeq(control),
         NEW p \in Nat, NEW canceled, Typed(code, control, p, canceled), Head(code).op = "CondStart",
         IsSeq(Head(code).forks), NEW d \in Nat, Counts(d, Len(Head(code).forks), canceled),
         NEW f, f.kind = "cond"
  PROVE  Typed(Tail(code), Append(control, f), p + d, canceled)
<1>1. PICK K, u : \E E \in [Nat -> Nat] : \E m \in Nat, k \in Nat :
        Before(Head(code), Tail(code), control, p, canceled, K, E, m, u, k)
  BY TypedNode
<1>2. PICK E \in [Nat -> Nat], m \in Nat, k \in Nat :
        Before(Head(code), Tail(code), control, p, canceled, K, E, m, u, k)
  BY <1>1
<1>3. u = Push(f.kind, K[Len(control)]) /\ k = m + Len(Head(code).forks) /\ Counts(p, m, canceled)
  BY <1>2 DEF Before, Step
<1>4. Counts(p + d, k, canceled)
  <2> DEFINE L == Len(Head(code).forks)
  <2>1. L \in Nat /\ k = m + L /\ Counts(d, L, canceled) /\ Counts(p, m, canceled) BY <1>3, SeqFacts
  <2> HIDE DEF L
  <2>2. QED BY <2>1 DEF Counts
<1>5. f.kind # "ret" OBVIOUS
<1>6. QED BY <1>2, <1>3, <1>4, <1>5, TypedPushed DEF Before

(* SeqAdvance: a chain is open.                                               *)
LEMMA TypedSeqAdvance ==
  ASSUME NEW code, IsSeq(code), code # << >>, NEW control, IsSeq(control),
         NEW p \in Nat, NEW canceled, Typed(code, control, p, canceled), Head(code).op = "SeqAdvance"
  PROVE  /\ control # << >> /\ Last(control).kind = "seq"
         /\ Typed(Tail(code), control, p, canceled)
<1>1. PICK K, u : \E E \in [Nat -> Nat] : \E m \in Nat, k \in Nat :
        Before(Head(code), Tail(code), control, p, canceled, K, E, m, u, k)
  BY TypedNode
<1>2. PICK E \in [Nat -> Nat], m \in Nat, k \in Nat :
        Before(Head(code), Tail(code), control, p, canceled, K, E, m, u, k)
  BY <1>1
<1>3. K[Len(control)].kind = "seq" /\ u = K[Len(control)] /\ k = m BY <1>2 DEF Before, Step
<1>4. Typed(Tail(code), control, p, canceled) BY <1>2, <1>3, TypedAfter DEF Before
<1>5. Stacked(control, K) BY <1>2 DEF Before
<1>6. control # << >> /\ Last(control).kind = "seq"
  <2> DEFINE n == Len(control)
  <2>1. n \in Nat BY SeqFacts
  <2>2. n # 0
    <3>1. ASSUME n = 0 PROVE FALSE BY <3>1, <1>3, <1>5 DEF Stacked, Empty
    <3>2. QED BY <3>1
  <2>3. K[n] = Push(control[n].kind, K[n-1]) BY <2>1, <2>2, <1>5 DEF Stacked
  <2>4. control[n].kind = "seq" BY <2>3, <1>3 DEF Push
  <2>5. control # << >> BY <2>2, SeqNone
  <2>6. QED BY <2>4, <2>5, SeqFrontLast
<1>7. QED BY <1>4, <1>6

(* SeqEnd.                                                                    *)
LEMMA TypedSeqEnd ==
  ASSUME NEW code, IsSeq(code), code # << >>, NEW control, IsSeq(control),
         NEW p \in Nat, NEW canceled, Typed(code, control, p, canceled), Head(code).op = "SeqEnd"
  PROVE  /\ control # << >> /\ Last(control).kind = "seq"
         /\ Typed(Tail(code), Front(control), p, canceled)
<1>1. PICK K, u : \E E \in [Nat -> Nat] : \E m \in Nat, k \in Nat :
        Before(Head(code), Tail(code), control, p, canceled, K, E, m, u, k)
  BY TypedNode
<1>2. PICK E \in [Nat -> Nat], m \in Nat, k \in Nat :
        Before(Head(code), Tail(code), control, p, canceled, K, E, m, u, k)
  BY <1>1
<1>3. K[Len(control)] = Push("seq", u) /\ k = m BY <1>2 DEF Before, Step
<1>4. "seq" \notin {"none", "ret"} OBVIOUS
<1>5. /\ Stacked(control, K) /\ Returns(control, K, E) /\ Counts(p, k, canceled)
      /\ Goes(Tail(code), Len(control), u, k, control, K, E)
  BY <1>2, <1>3 DEF Before
<1>6. QED BY <1>3, <1>4, <1>5, TypedPopped

(* RecFn: the body of the function returns to what follows.                   *)
LEMMA TypedRecFn ==
  ASSUME NEW code, IsSeq(code), code # << >>, NEW control, IsSeq(control),
         NEW p \in Nat, NEW canceled, Typed(code, control, p, canceled), Head(code).op = "RecFn",
         NEW f, f.kind = "ret", f.code = Tail(code),
         NEW b, NEW B, NEW names, Sound(b, B, names, FALSE)
  PROVE  Typed(b \o <<Ret>>, Append(control, f), p, canceled)
<1>1. PICK K, u : \E E \in [Nat -> Nat] : \E m \in Nat, k \in Nat :
        Before(Head(code), Tail(code), control, p, canceled, K, E, m, u, k)
  BY TypedNode
<1>2. PICK E \in [Nat -> Nat], m \in Nat, k \in Nat :
        Before(Head(code), Tail(code), control, p, canceled, K, E, m, u, k)
  BY <1>1
<1> DEFINE n == Len(control)
           control2 == Append(control, f)
<1>3. u = K[n] /\ k = m BY <1>2 DEF Before, Step
<1>4. Resumes(f, control, K, E, m) BY <1>2, <1>3 DEF Resumes, Before
<1>5. PICK K2 : \E E2 \in [Nat -> Nat] : AfterPush(control, f, m, K, E, K2, E2)
  BY <1>2, <1>4, StackedPush DEF Before
<1>6. PICK E2 \in [Nat -> Nat] : AfterPush(control, f, m, K, E, K2, E2) BY <1>5
<1>7. n \in Nat /\ Len(control2) = n + 1 /\ control2[n + 1] = f BY SeqFacts, SeqAppend
<1>8. E2[n + 1] = m BY <1>6 DEF AfterPush
<1> HIDE DEF n, control2
<1>9. n + 1 \in 1 .. n + 1 /\ control2[n + 1].kind = "ret"
  <2>1. n \in Nat => n + 1 \in 1 .. n + 1 OBVIOUS
  <2>2. QED BY <2>1, <1>7
<1>10. IsSeq(b) /\ Leads(b, K2[n + 1], m, K2[n + 1], m) BY DEF Sound, Balanced
<1>11. Goes(b \o <<Ret>>, n + 1, K2[n + 1], m, control2, K2, E2) BY <1>8, <1>9, <1>10 DEF Goes
<1>12. Stacked(control2, K2) /\ Returns(control2, K2, E2) BY <1>6 DEF AfterPush, control2
<1>13. Counts(p, m, canceled) BY <1>2 DEF Before
<1>14. Typed(b \o <<Ret>>, control2, p, canceled)
  <2>1. Goes(b \o <<Ret>>, Len(control2), K2[Len(control2)], m, control2, K2, E2) BY <1>7, <1>11
  <2>2. QED BY <2>1, <1>12, <1>13, TypedAfter
<1>15. QED BY <1>14 DEF control2

(* Ret: the caller goes on.                                                   *)
LEMMA TypedRet ==
  ASSUME NEW code, IsSeq(code), code # << >>, NEW control, IsSeq(control),
         NEW p \in Nat, NEW canceled, Typed(code, control, p, canceled), Head(code).op = "Ret"
  PROVE  /\ control # << >> /\ Last(control).kind = "ret"
         /\ Typed(Last(control).code, Front(control), p, canceled)
<1> DEFINE n == Len(control)
           control2 == Front(control)
<1>1. PICK K : \E E \in [Nat -> Nat] : \E m \in Nat :
        /\ Stacked(control, K) /\ Returns(control, K, E) /\ Counts(p, m, canceled)
        /\ Goes(code, n, K[n], m, control, K, E)
  BY DEF Typed
<1>2. PICK E \in [Nat -> Nat], m \in Nat :
        /\ Stacked(control, K) /\ Returns(control, K, E) /\ Counts(p, m, canceled)
        /\ Goes(code, n, K[n], m, control, K, E)
  BY <1>1
<1>3. n \in Nat BY SeqFacts
<1>4. PICK j \in 1 .. n : control[j].kind = "ret" /\ K[n] = K[j] /\ m = E[j]
  <2> HIDE DEF n
  <2> DEFINE s == K[n]
  <2>1. Goes(code, n, s, m, control, K, E) BY <1>2
  <2> HIDE DEF s
  <2>2. AtReturn(n, s, m, control, K, E) BY <1>3, <2>1, GoesRet
  <2>3. QED BY <2>2 DEF AtReturn, s
<1>5. j = n
  <2>1. n \in 1 .. n BY <1>3, <1>4
  <2>2. K[n].height = n /\ K[j].height = j BY <2>1, <1>2 DEF Stacked
  <2>3. QED BY <2>2, <1>4
<1>6. control # << >>
  <2>1. n # 0 BY <1>4
  <2>2. QED BY <2>1, SeqNone
<1>7. /\ Len(control2) = n - 1 /\ Last(control) = control[n]
      /\ \A i \in 1 .. n - 1 : control2[i] = control[i]
  BY <1>6, SeqFrontLast
<1>8. Stacked(control2, K) /\ Returns(control2, K, E) BY <1>2, <1>6, StackedPop
<1>9. Goes(control[n].code, n - 1, K[n-1], m, control, K, E)
  <2>1. n \in 1 .. n /\ control[n].kind = "ret" /\ E[n] = m BY <1>3, <1>4, <1>5
  <2>2. QED BY <2>1, <1>2 DEF Returns
<1> HIDE DEF control2
<1>10. Goes(control[n].code, n - 1, K[n-1], m, control2, K, E)
  <2>1. n - 1 \in Nat /\ n - 1 <= n - 1 BY <1>3, <1>4
  <2>2. Agree(n - 1, control, K, E, control2, K, E) BY <1>7 DEF Agree
  <2>3. QED BY <2>1, <2>2, <1>9, GoesLocal
<1>11. Typed(control[n].code, control2, p, canceled) BY <1>2, <1>7, <1>8, <1>10, TypedAfter
<1>12. QED BY <1>4, <1>5, <1>6, <1>7, <1>11 DEF control2

(* What a choice goes on with, from nb forks more than it leaves.             *)
Joins(branch) == IF branch = NoBranch THEN 1 ELSE 0

(* The branch taken, or the join in its place, joins just these.              *)
LEMMA TakenLeads ==
  ASSUME NEW B, NEW names, \A b \in B : Sound(b, B, names, FALSE),
         NEW branch \in {NoBranch} \cup {<<b>> : b \in B}, NEW u, NEW k \in Nat
  PROVE  /\ IsSeq(Taken(branch)) /\ CodeOK(Taken(branch), B, names)
         /\ Leads(Taken(branch), u, k + Joins(branch), u, k)
<1>1. CASE branch = NoBranch
  <2>1. Taken(branch) = <<ParJoin>> /\ Joins(branch) = 1 BY <1>1 DEF Taken, Joins
  <2>2. Step(ParJoin, u, k + 1, u, k) BY DEF Step, ParJoin
  <2>3. Leads(<<ParJoin>>, u, k + 1, u, k)
    <3>1. k + 1 \in Nat OBVIOUS
    <3>2. QED BY <3>1, <2>2, LeadsOne
  <2>4. NodeOK(ParJoin, B, names) BY DEF NodeOK, ParJoin
  <2>5. CodeOK(<<ParJoin>>, B, names) BY <2>4, CodeOne
  <2>6. QED BY <2>1, <2>3, <2>5, SeqOne
<1>2. CASE branch # NoBranch
  <2>1. PICK b \in B : branch = <<b>> BY <1>2
  <2>2. Taken(branch) = b /\ Joins(branch) = 0 BY <1>2, <2>1 DEF Taken, Joins
  <2>3. Sound(b, B, names, FALSE) OBVIOUS
  <2>4. IsSeq(b) /\ CodeOK(b, B, names) /\ Leads(b, u, k, u, k) BY <2>3 DEF Sound, Balanced
  <2>5. k + 0 = k OBVIOUS
  <2>6. QED BY <2>2, <2>4, <2>5
<1>3. QED BY <1>1, <1>2

(* The joins that a choice leaves to make.                                    *)
LEMMA JoinNumbers == ASSUME NEW x, NEW branch PROVE Missing(x) \in Nat /\ Joins(branch) \in Nat
<1>1. Missing(x) \in Nat BY DEF Missing
<1>2. Joins(branch) \in Nat BY DEF Joins
<1>3. QED BY <1>1, <1>2

(* A choice, with d forks to join and j joins to make after it, has gone from *)
(* p pending tasks to q.                                                      *)
Settles(p, d, q, j, canceled) ==
  (q <= j \/ q + d <= p + j) /\ (canceled \/ ~(d <= p) \/ q + d = p + j)

(* Of m forks to join, d were those of the choice and k are left after it; j  *)
(* joins more will take the q tasks still pending.                            *)
LEMMA JoinsEnough ==
  ASSUME NEW d \in Nat, NEW j \in Nat, NEW m \in Nat, NEW k \in Nat, NEW p \in Nat, NEW q \in Nat,
         NEW canceled, m = k + d, Counts(p, m, canceled),
         Settles(p, d, q, j, canceled)
  PROVE  Counts(q, k + j, canceled) /\ k + j \in Nat
BY DEF Counts, Settles

(* CondChoose, if the branches it has forked are as many as are left pending. *)
LEMMA TypedCondChoose ==
  ASSUME NEW code, IsSeq(code), code # << >>, NEW control, IsSeq(control),
         NEW p \in Nat, NEW canceled, Typed(code, control, p, canceled), Head(code).op = "CondChoose",
         NEW B, NEW names, \A b \in B : Sound(b, B, names, FALSE),
         NEW branch \in {NoBranch} \cup {<<b>> : b \in B}, NEW q \in Nat,
         Settles(p, Missing(Head(code)), q, Joins(branch), canceled)
  PROVE  /\ control # << >> /\ Last(control).kind = "cond"
         /\ Typed(Taken(branch) \o Tail(code), Front(control), q, canceled)
<1>1. PICK K, u : \E E \in [Nat -> Nat] : \E m \in Nat, k \in Nat :
        Before(Head(code), Tail(code), control, p, canceled, K, E, m, u, k)
  BY TypedNode
<1>2. PICK E \in [Nat -> Nat], m \in Nat, k \in Nat :
        Before(Head(code), Tail(code), control, p, canceled, K, E, m, u, k)
  BY <1>1
<1>3. K[Len(control)] = Push("cond", u) /\ m = k + Missing(Head(code)) /\ Counts(p, m, canceled)
  BY <1>2 DEF Before, Step
<1>4. /\ IsSeq(Taken(branch)) /\ Leads(Taken(branch), u, k + Joins(branch), u, k)
      /\ IsSeq(Tail(code))
  BY TakenLeads, SeqHeadTail
<1>5. Missing(Head(code)) \in Nat /\ Joins(branch) \in Nat BY JoinNumbers
<1> DEFINE d == Missing(Head(code))
           j == Joins(branch)
<1>6. Counts(q, k + j, canceled) /\ k + j \in Nat
  <2>1. d \in Nat /\ j \in Nat /\ m = k + d /\ Counts(p, m, canceled) /\ Settles(p, d, q, j, canceled)
    BY <1>3, <1>5
  <2> HIDE DEF d, j
  <2>2. QED BY <2>1, JoinsEnough
<1> HIDE DEF d, j
<1> DEFINE rest == Taken(branch) \o Tail(code)
<1>7. Goes(rest, Len(control), u, k + j, control, K, E)
  BY <1>2, <1>4, GoesConcat DEF Before, j
<1> HIDE DEF rest
<1>8. "cond" \notin {"none", "ret"} OBVIOUS
<1>9. /\ control # << >> /\ Last(control).kind = "cond"
      /\ Typed(rest, Front(control), q, canceled)
  BY <1>2, <1>3, <1>6, <1>7, <1>8, TypedPopped DEF Before
<1>10. QED BY <1>9 DEF rest
-----------------------------------------------------------------------------
(* The pointers into the stack.  A level is what holds of them while a frame  *)
(* is the last one: where the arguments are, where the results start, and how *)
(* many results there are at least.                                           *)
Levels == {l \in [pos : Nat, num : Nat, window : Nat, arity : Nat] : l.pos + l.num <= l.window}

(* The level k is opened by the frame f on the level l.                       *)
Follows(f, l, k) ==
  \/ /\ f.kind = "seq"
     /\ f.argPos = l.pos /\ f.inArity = l.num /\ f.size = l.window + f.outArity
     /\ f.outArity \in Nat /\ l.arity <= f.outArity /\ k.arity = 0 /\ f.size <= k.window
  \/ /\ f.kind = "cond"
     /\ f.outArity \in Nat /\ l.arity <= f.outArity /\ k = [l EXCEPT !.arity = f.outArity]
  \/ f.kind = "ret" /\ k = l

Leveled(control, L) ==
  /\ \A i \in 0 .. Len(control) : L[i] \in Levels
  /\ L[0].pos = 0 /\ L[0].num = L[0].window
  /\ \A i \in 1 .. Len(control) : Follows(control[i], L[i-1], L[i])
Layout(control, l) == \E L : Leveled(control, L) /\ L[Len(control)] = l

Now(c, l) ==
  /\ c.argPos = l.pos /\ c.argNum = l.num
  /\ c.arity \in Nat /\ l.arity <= c.arity /\ l.window + c.arity = Len(c.stack)

(* A context without a frame.                                                 *)
LEMMA LayoutNone ==
  ASSUME NEW l \in Levels, l.pos = 0, l.num = l.window
  PROVE  Layout(<< >>, l)
<1> DEFINE L == [i \in {0} |-> l]
<1>1. L[0] = l OBVIOUS
<1> HIDE DEF L
<1>2. QED BY <1>1, SeqNone DEF Layout, Leveled

(* A frame is pushed.                                                         *)
LEMMA LayoutPush ==
  ASSUME NEW control, IsSeq(control), NEW l, Layout(control, l),
         NEW f, NEW k \in Levels, Follows(f, l, k)
  PROVE  Layout(Append(control, f), k)
<1> DEFINE n == Len(control)
           control2 == Append(control, f)
<1>1. PICK L : Leveled(control, L) /\ L[n] = l BY DEF Layout
<1> DEFINE L2 == [i \in 0 .. n + 1 |-> IF i = n + 1 THEN k ELSE L[i]]
<1>2. n \in Nat BY SeqFacts
<1>3. Len(control2) = n + 1 /\ control2[n + 1] = f /\ \A i \in 1 .. n : control2[i] = control[i]
  BY SeqAppend
<1> HIDE DEF control2
<1>4. L2[n + 1] = k /\ \A i \in 0 .. n : L2[i] = L[i] BY <1>2
<1> HIDE DEF L2
<1>5. ASSUME NEW i \in 0 .. n + 1 PROVE L2[i] \in Levels
  <2>1. CASE i = n + 1 BY <2>1, <1>4
  <2>2. CASE i # n + 1
    <3>1. i \in 0 .. n BY <2>2, <1>2
    <3>2. QED BY <3>1, <1>1, <1>4 DEF Leveled, n
  <2>3. QED BY <2>1, <2>2
<1>6. ASSUME NEW i \in 1 .. n + 1 PROVE Follows(control2[i], L2[i-1], L2[i])
  <2>1. CASE i = n + 1
    <3>1. i - 1 = n /\ n \in 0 .. n BY <2>1, <1>2
    <3>2. L2[i-1] = l /\ L2[i] = k /\ control2[i] = f BY <2>1, <3>1, <1>1, <1>3, <1>4
    <3>3. QED BY <3>2
  <2>2. CASE i # n + 1
    <3>1. i \in 1 .. n /\ i \in 0 .. n /\ i - 1 \in 0 .. n BY <2>2, <1>2
    <3>2. L2[i-1] = L[i-1] /\ L2[i] = L[i] /\ control2[i] = control[i] BY <3>1, <1>3, <1>4
    <3>3. Follows(control[i], L[i-1], L[i]) BY <3>1, <1>1 DEF Leveled, n
    <3>4. QED BY <3>2, <3>3
  <2>3. QED BY <2>1, <2>2
<1>7. L2[0].pos = 0 /\ L2[0].num = L2[0].window
  <2>1. 0 \in 0 .. n BY <1>2
  <2>2. QED BY <2>1, <1>1, <1>4 DEF Leveled
<1>8. Leveled(control2, L2) BY <1>3, <1>5, <1>6, <1>7 DEF Leveled
<1>9. QED BY <1>3, <1>4, <1>8 DEF Layout, control2

(* The last frame is popped.                                                  *)
LEMMA LayoutPop ==
  ASSUME NEW control, IsSeq(control), control # << >>, NEW k, Layout(control, k)
  PROVE  \E l \in Levels : Layout(Front(control), l) /\ Follows(Last(control), l, k)
<1> DEFINE n == Len(control)
           control2 == Front(control)
<1>1. PICK L : Leveled(control, L) /\ L[n] = k BY DEF Layout
<1>2. n \in Nat /\ n > 0 BY SeqFacts
<1>3. /\ Len(control2) = n - 1 /\ Last(control) = control[n]
      /\ \A i \in 1 .. n - 1 : control2[i] = control[i]
  BY SeqFrontLast
<1> HIDE DEF control2
<1>4. n \in 1 .. n /\ n - 1 \in 0 .. n BY <1>2
<1>5. L[n-1] \in Levels /\ Follows(Last(control), L[n-1], k) BY <1>1, <1>3, <1>4 DEF Leveled
<1>6. Leveled(control2, L)
  <2>1. \A i \in 0 .. n - 1 : i \in 0 .. n BY <1>2
  <2>2. \A i \in 1 .. n - 1 : i \in 1 .. n BY <1>2
  <2> HIDE DEF n
  <2>3. \A i \in 0 .. n - 1 : L[i] \in Levels BY <2>1, <1>1 DEF Leveled, n
  <2>4. \A i \in 1 .. n - 1 : Follows(control[i], L[i-1], L[i]) BY <2>2, <1>1 DEF Leveled, n
  <2>5. \A i \in 1 .. n - 1 : Follows(control2[i], L[i-1], L[i]) BY <2>4, <1>3
  <2>6. L[0].pos = 0 /\ L[0].num = L[0].window BY <1>1 DEF Leveled
  <2>7. QED BY <2>3, <2>5, <2>6, <1>3 DEF Leveled
<1>7. Layout(control2, L[n-1]) BY <1>3, <1>6 DEF Layout
<1>8. QED BY <1>5, <1>7 DEF control2

(* The arguments and results of a chain's frame move on.                      *)
LEMMA LayoutMoves ==
  ASSUME NEW control, IsSeq(control), control # << >>, Last(control).kind = "seq",
         NEW l \in Levels, Layout(control, l), NEW k \in Levels, k.arity = 0, l.window <= k.window
  PROVE  Layout(control, k)
<1> DEFINE n == Len(control)
<1>1. PICK L : Leveled(control, L) /\ L[n] = l BY DEF Layout
<1>2. n \in Nat /\ n > 0 /\ control[n].kind = "seq" BY SeqFacts, SeqFrontLast
<1> DEFINE L2 == [i \in 0 .. n |-> IF i = n THEN k ELSE L[i]]
<1>3. L2[n] = k /\ \A i \in 0 .. n - 1 : L2[i] = L[i]
  <2>1. n \in 0 .. n /\ \A i \in 0 .. n - 1 : i \in 0 .. n /\ i # n BY <1>2
  <2>2. QED BY <2>1
<1> HIDE DEF L2, n
<1>4. ASSUME NEW i \in 0 .. n PROVE L2[i] \in Levels
  <2>1. CASE i = n BY <2>1, <1>3
  <2>2. CASE i # n
    <3>1. i \in 0 .. n - 1 BY <2>2, <1>2
    <3>2. QED BY <3>1, <1>1, <1>3 DEF Leveled, n
  <2>3. QED BY <2>1, <2>2
<1>5. ASSUME NEW i \in 1 .. n PROVE Follows(control[i], L2[i-1], L2[i])
  <2>1. i - 1 \in 0 .. n - 1 BY <1>2
  <2>2. L2[i-1] = L[i-1] BY <2>1, <1>3
  <2>3. Follows(control[i], L[i-1], L[i]) BY <1>1 DEF Leveled, n
  <2>4. CASE i = n
    <3>1. Follows(control[n], L[n-1], l) BY <2>3, <2>4, <1>1
    <3>2. control[n].size <= l.window /\ l.window \in Nat /\ k.window \in Nat
      BY <3>1, <1>2 DEF Follows, Levels
    <3>3. control[n].size \in Nat
      <4>1. n - 1 \in 0 .. n BY <1>2
      <4>2. L[n-1] \in Levels BY <4>1, <1>1 DEF Leveled, n
      <4>3. L[n-1].window \in Nat BY <4>2 DEF Levels
      <4>4. control[n].size = L[n-1].window + control[n].outArity /\ control[n].outArity \in Nat
        BY <3>1, <1>2 DEF Follows
      <4>5. QED BY <4>3, <4>4
    <3>4. control[n].size <= k.window BY <3>2, <3>3
    <3>5. Follows(control[n], L[n-1], k) BY <3>1, <3>4, <1>2 DEF Follows
    <3>6. QED BY <3>5, <2>2, <2>4, <1>3
  <2>5. CASE i # n
    <3>1. i \in 0 .. n - 1 BY <2>5, <1>2
    <3>2. QED BY <3>1, <2>2, <2>3, <1>3
  <2>6. QED BY <2>4, <2>5
<1>6. L2[0].pos = 0 /\ L2[0].num = L2[0].window
  <2>1. 0 \in 0 .. n - 1 BY <1>2
  <2>2. QED BY <2>1, <1>1, <1>3 DEF Leveled
<1>7. Leveled(control, L2) BY <1>4, <1>5, <1>6 DEF Leveled, n
<1>8. QED BY <1>3, <1>7 DEF Layout, n

(* What never falls from one to the next never falls.                         *)
LEMMA Ascends ==
  ASSUME NEW n \in Nat, NEW W \in [0 .. n -> Nat], \A i \in 1 .. n : W[i-1] <= W[i]
  PROVE  \A i, j \in 0 .. n : i <= j => W[i] <= W[j]
<1>1. ASSUME NEW i \in 0 .. n PROVE \A j \in 0 .. n : i <= j => W[i] <= W[j]
  <2> DEFINE Bad == {j \in i .. n : ~(W[i] <= W[j])}
  <2>1. ASSUME Bad # {} PROVE FALSE
    <3>1. Bad \in SUBSET Nat OBVIOUS
    <3>2. PICK j \in Bad : \A k \in Bad : j <= k BY <2>1, <3>1, Least
    <3>3. j \in 0 .. n /\ i <= j /\ ~(W[i] <= W[j]) BY <3>2
    <3>4. j # i BY <3>3
    <3>5. j - 1 \in i .. n /\ ~(j <= j - 1) /\ j \in 1 .. n BY <3>3, <3>4
    <3>6. W[i] <= W[j-1] BY <3>2, <3>5
    <3>7. W[j-1] <= W[j] BY <3>5
    <3>8. W[i] \in Nat /\ W[j] \in Nat /\ W[j-1] \in Nat BY <3>3, <3>5
    <3>9. QED BY <3>3, <3>6, <3>7, <3>8
  <2>2. ASSUME NEW j \in 0 .. n, i <= j, ~(W[i] <= W[j]) PROVE FALSE
    <3>1. j \in Bad BY <2>2
    <3>2. QED BY <2>1, <3>1
  <2>3. QED BY <2>2
<1>2. QED BY <1>1

(* The levels of all frames, seen from the last one.                          *)
LEMMA LayoutWindows ==
  ASSUME NEW control, IsSeq(control), NEW l, Layout(control, l),
         NEW i \in DOMAIN control, control[i].kind = "seq"
  PROVE  LET f == control[i] IN
         /\ f.argPos + f.inArity + f.outArity <= f.size /\ f.size <= l.window /\ f.size \in Nat
         /\ \A j \in DOMAIN control :
              i < j /\ control[j].kind = "seq" => f.size + control[j].outArity <= control[j].size
<1> DEFINE n == Len(control)
           f == control[i]
<1>1. PICK L : Leveled(control, L) /\ L[n] = l BY DEF Layout
<1>2. n \in Nat /\ DOMAIN control = 1 .. n BY SeqFacts
<1> DEFINE W == [j \in 0 .. n |-> L[j].window]
<1>3. \A j \in 0 .. n : L[j] \in Levels /\ W[j] = L[j].window BY <1>1 DEF Leveled
<1>4. \A j \in 1 .. n : Follows(control[j], L[j-1], L[j]) BY <1>1 DEF Leveled
<1>5. W \in [0 .. n -> Nat]
  <2>1. \A j \in 0 .. n : L[j].window \in Nat BY <1>3 DEF Levels
  <2>2. QED BY <2>1
<1> HIDE DEF W, n
<1>6. ASSUME NEW j \in 1 .. n PROVE W[j-1] <= W[j]
  <2>1. j \in 0 .. n /\ j - 1 \in 0 .. n BY <1>2
  <2>2. W[j] = L[j].window /\ W[j-1] = L[j-1].window /\ W[j] \in Nat /\ W[j-1] \in Nat
    BY <2>1, <1>3, <1>5
  <2>3. CASE control[j].kind = "seq"
    <3>1. /\ control[j].size = W[j-1] + control[j].outArity /\ control[j].size <= W[j]
          /\ control[j].outArity \in Nat
      BY <2>2, <2>3, <1>4 DEF Follows
    <3>2. QED BY <3>1, <2>2
  <2>4. CASE control[j].kind = "cond"
    <3>1. L[j] = [L[j-1] EXCEPT !.arity = control[j].outArity] BY <2>4, <1>4 DEF Follows
    <3>2. L[j-1] \in [pos : Nat, num : Nat, window : Nat, arity : Nat] BY <2>1, <1>3 DEF Levels
    <3>3. L[j].window = L[j-1].window BY <3>1, <3>2
    <3>4. QED BY <3>3, <2>2
  <2>5. CASE control[j].kind = "ret"
    <3>1. L[j] = L[j-1] BY <2>5, <1>4 DEF Follows
    <3>2. QED BY <3>1, <2>2
  <2>6. QED BY <2>3, <2>4, <2>5, <1>4 DEF Follows
<1>7. \A j, k \in 0 .. n : j <= k => W[j] <= W[k] BY <1>2, <1>5, <1>6, Ascends
<1>8. ASSUME NEW j \in 1 .. n, control[j].kind = "seq"
      PROVE  /\ control[j].size = W[j-1] + control[j].outArity /\ control[j].size <= W[j]
             /\ control[j].outArity \in Nat /\ W[j-1] \in Nat /\ W[j] \in Nat
             /\ control[j].argPos = L[j-1].pos /\ control[j].inArity = L[j-1].num
  <2>1. j \in 0 .. n /\ j - 1 \in 0 .. n BY <1>2
  <2>2. W[j] = L[j].window /\ W[j-1] = L[j-1].window /\ W[j] \in Nat /\ W[j-1] \in Nat
    BY <2>1, <1>3, <1>5
  <2>3. QED BY <2>2, <1>4, <1>8 DEF Follows
<1>9. i \in 1 .. n /\ i \in 0 .. n /\ i - 1 \in 0 .. n /\ n \in 0 .. n BY <1>2
<1>10. f.argPos + f.inArity + f.outArity <= f.size
  <2>1. L[i-1].pos \in Nat /\ L[i-1].num \in Nat /\ L[i-1].pos + L[i-1].num <= L[i-1].window
    BY <1>9, <1>3 DEF Levels
  <2>2. W[i-1] = L[i-1].window BY <1>9, <1>3
  <2>3. /\ f.size = W[i-1] + f.outArity /\ f.outArity \in Nat /\ W[i-1] \in Nat
        /\ f.argPos = L[i-1].pos /\ f.inArity = L[i-1].num
    BY <1>8, <1>9
  <2> HIDE DEF f
  <2>4. QED BY <2>1, <2>2, <2>3
<1>11. f.size \in Nat /\ W[i] \in Nat /\ f.size <= W[i] BY <1>8, <1>9
<1>12. f.size <= l.window
  <2>1. i <= n BY <1>9
  <2>2. W[i] <= W[n] /\ W[n] = l.window BY <1>9, <1>7, <1>1, <1>3, <2>1 DEF n
  <2>3. W[n] \in Nat BY <1>9, <1>5
  <2> HIDE DEF f
  <2>4. QED BY <1>11, <2>2, <2>3
<1>13. ASSUME NEW j \in DOMAIN control, i < j, control[j].kind = "seq"
       PROVE  f.size + control[j].outArity <= control[j].size
  <2>1. j \in 1 .. n /\ j - 1 \in 0 .. n /\ i <= j - 1 BY <1>2, <1>13, <1>9
  <2>2. W[i] <= W[j-1] BY <2>1, <1>7, <1>9
  <2>3. control[j].size = W[j-1] + control[j].outArity /\ control[j].outArity \in Nat /\ W[j-1] \in Nat
    BY <2>1, <1>8, <1>13
  <2> HIDE DEF f
  <2>4. QED BY <2>2, <2>3, <1>11
<1>14. QED BY <1>10, <1>11, <1>12, <1>13 DEF f

(* A context whose pointers fit its stack.                                    *)
Fits(c) == \E l \in Levels : Layout(c.control, l) /\ Now(c, l)

(* The pointers of such a context.                                            *)
LEMMA FitsFacts == ASSUME NEW c, Fits(c)
  PROVE  /\ c.argPos \in Nat /\ c.argNum \in Nat /\ c.arity \in Nat /\ Len(c.stack) \in Nat
         /\ c.argPos + c.argNum + c.arity <= Len(c.stack)
<1>1. PICK l \in Levels : Layout(c.control, l) /\ Now(c, l) BY DEF Fits
<1>2. /\ l.pos \in Nat /\ l.num \in Nat /\ l.window \in Nat /\ l.arity \in Nat
      /\ l.pos + l.num <= l.window
  BY DEF Levels
<1> DEFINE size == Len(c.stack)
<1>3. c.argPos = l.pos /\ c.argNum = l.num /\ c.arity \in Nat /\ l.window + c.arity = size
  BY <1>1 DEF Now
<1> HIDE DEF size
<1>4. size \in Nat /\ c.argPos + c.argNum + c.arity <= size BY <1>2, <1>3
<1>5. QED BY <1>2, <1>3, <1>4 DEF size

(* The frame on top.                                                          *)
LEMMA FitsTop == ASSUME NEW c, Fits(c), IsSeq(c.control), c.control # << >>
  PROVE  LET f == Last(c.control) IN
         /\ f.kind = "seq"  => f.size \in Nat /\ f.size + c.arity <= Len(c.stack)
         /\ f.kind = "cond" => f.outArity \in Nat /\ f.outArity <= c.arity
<1> DEFINE f == Last(c.control)
           size == Len(c.stack)
<1>1. PICK k \in Levels : Layout(c.control, k) /\ Now(c, k) BY DEF Fits
<1>2. PICK l \in Levels : Follows(f, l, k) BY <1>1, LayoutPop
<1> HIDE DEF f
<1>3. l.window \in Nat /\ l.arity \in Nat /\ k.window \in Nat BY DEF Levels
<1>4. k.window + c.arity = size /\ k.arity <= c.arity /\ c.arity \in Nat BY <1>1 DEF Now
<1> HIDE DEF size
<1>5. CASE f.kind = "seq"
  <2>1. f.size = l.window + f.outArity /\ f.outArity \in Nat /\ f.size <= k.window
    BY <1>2, <1>5 DEF Follows
  <2>2. f.size \in Nat BY <2>1, <1>3
  <2>3. f.size + c.arity <= size BY <2>1, <2>2, <1>3, <1>4
  <2>4. QED BY <2>2, <2>3, <1>5 DEF f, size
<1>6. CASE f.kind = "cond"
  <2>1. f.outArity \in Nat /\ k = [l EXCEPT !.arity = f.outArity] BY <1>2, <1>6 DEF Follows
  <2>2. k.arity = f.outArity BY <2>1 DEF Levels
  <2>3. QED BY <2>1, <2>2, <1>4, <1>6 DEF f
<1>7. QED BY <1>5, <1>6 DEF f

(* Values are pushed.                                                         *)
LEMMA FitsPush ==
  ASSUME NEW c, Fits(c), NEW d, NEW n \in Nat, d.control = c.control,
         d.argPos = c.argPos, d.argNum = c.argNum,
         d.arity = c.arity + n, Len(d.stack) = Len(c.stack) + n
  PROVE  Fits(d)
<1>1. PICK l \in Levels : Layout(c.control, l) /\ Now(c, l) BY DEF Fits
<1>2. l.window \in Nat /\ l.arity \in Nat BY DEF Levels
<1> DEFINE size == Len(c.stack)
           size2 == Len(d.stack)
<1>3. l.window + c.arity = size /\ l.arity <= c.arity /\ c.arity \in Nat /\ size2 = size + n
  BY <1>1 DEF Now
<1> HIDE DEF size, size2
<1>4. d.arity \in Nat /\ l.arity <= d.arity /\ l.window + d.arity = size2 BY <1>2, <1>3
<1>5. Now(d, l) BY <1>1, <1>4 DEF Now, size2
<1>6. QED BY <1>1, <1>5 DEF Fits

(* A chain is opened.                                                         *)
LEMMA FitsSeqBegin ==
  ASSUME NEW c, Fits(c), IsSeq(c.control), NEW d, NEW f,
         f.kind = "seq", f.argPos = c.argPos, f.size = Len(c.stack), f.inArity = c.argNum,
         f.outArity = c.arity, d.control = Append(c.control, f),
         d.argPos = c.argPos, d.argNum = c.argNum, d.arity = 0, d.stack = c.stack
  PROVE  Fits(d)
<1>1. PICK l \in Levels : Layout(c.control, l) /\ Now(c, l) BY DEF Fits
<1>2. /\ l.pos \in Nat /\ l.num \in Nat /\ l.window \in Nat /\ l.arity \in Nat
      /\ l.pos + l.num <= l.window
  BY DEF Levels
<1> DEFINE size == Len(c.stack)
           k == [pos |-> l.pos, num |-> l.num, window |-> size, arity |-> 0]
<1>3. /\ c.argPos = l.pos /\ c.argNum = l.num
      /\ l.window + c.arity = size /\ l.arity <= c.arity /\ c.arity \in Nat
  BY <1>1 DEF Now
<1>4. f.size = size /\ Len(d.stack) = size OBVIOUS
<1> HIDE DEF size
<1>5. size \in Nat /\ l.pos + l.num <= size BY <1>2, <1>3
<1>6. k \in Levels BY <1>2, <1>5 DEF Levels
<1>7. k.pos = l.pos /\ k.num = l.num /\ k.window = size /\ k.arity = 0 OBVIOUS
<1> HIDE DEF k
<1>8. Follows(f, l, k)
  <2>1. f.size <= k.window BY <1>4, <1>5, <1>7
  <2>2. QED BY <2>1, <1>3, <1>4, <1>7 DEF Follows
<1>9. Layout(d.control, k) BY <1>1, <1>6, <1>8, LayoutPush
<1>10. Now(d, k)
  <2>1. k.window + 0 = size /\ k.arity <= 0 BY <1>5, <1>7
  <2>2. QED BY <2>1, <1>3, <1>4, <1>7 DEF Now
<1>11. QED BY <1>6, <1>9, <1>10 DEF Fits

(* The next link of a chain: the results become the arguments.                *)
LEMMA FitsSeqAdvance ==
  ASSUME NEW c, Fits(c), IsSeq(c.control), c.control # << >>, Last(c.control).kind = "seq",
         NEW d, d.control = c.control, d.stack = c.stack,
         d.argPos = Len(c.stack) - c.arity, d.argNum = c.arity, d.arity = 0
  PROVE  Fits(d)
<1>1. PICK l \in Levels : Layout(c.control, l) /\ Now(c, l) BY DEF Fits
<1>2. l.window \in Nat BY DEF Levels
<1> DEFINE size == Len(c.stack)
           k == [pos |-> l.window, num |-> c.arity, window |-> size, arity |-> 0]
<1>3. l.window + c.arity = size /\ c.arity \in Nat BY <1>1 DEF Now
<1>4. Len(d.stack) = size /\ d.argPos = size - c.arity OBVIOUS
<1> HIDE DEF size
<1>5. size \in Nat /\ l.window + c.arity <= size /\ l.window <= size /\ d.argPos = l.window
  BY <1>2, <1>3, <1>4
<1>6. k \in Levels BY <1>2, <1>3, <1>5 DEF Levels
<1>7. k.pos = l.window /\ k.num = c.arity /\ k.window = size /\ k.arity = 0 OBVIOUS
<1> HIDE DEF k
<1>8. Layout(c.control, k)
  <2>1. l.window <= k.window BY <1>5, <1>7
  <2>2. QED BY <2>1, <1>1, <1>6, <1>7, LayoutMoves
<1>9. Now(d, k)
  <2>1. k.window + 0 = size /\ k.arity <= 0 BY <1>5, <1>7
  <2>2. QED BY <2>1, <1>4, <1>5, <1>7 DEF Now
<1>10. QED BY <1>6, <1>8, <1>9 DEF Fits

(* A chain is closed.                                                         *)
LEMMA FitsSeqEnd ==
  ASSUME NEW c, Fits(c), IsSeq(c.control), c.control # << >>,
         NEW f, f = Last(c.control), f.kind = "seq", NEW d, d.control = Front(c.control),
         Len(d.stack) = f.size + c.arity, d.argPos = f.argPos, d.argNum = f.inArity,
         d.arity = c.arity + f.outArity
  PROVE  Fits(d)
<1>1. PICK k \in Levels : Layout(c.control, k) /\ Now(c, k) BY DEF Fits
<1>2. PICK l \in Levels : Layout(d.control, l) /\ Follows(f, l, k) BY <1>1, LayoutPop
<1>3. l.window \in Nat /\ l.arity \in Nat /\ c.arity \in Nat BY <1>1 DEF Levels, Now
<1>4. /\ f.argPos = l.pos /\ f.inArity = l.num /\ f.size = l.window + f.outArity
      /\ f.outArity \in Nat /\ l.arity <= f.outArity
  BY <1>2 DEF Follows
<1> DEFINE size == Len(d.stack)
<1>5. size = f.size + c.arity OBVIOUS
<1> HIDE DEF size
<1>6. d.arity \in Nat /\ l.arity <= d.arity /\ l.window + d.arity = size BY <1>3, <1>4, <1>5
<1>7. Now(d, l) BY <1>4, <1>6 DEF Now, size
<1>8. QED BY <1>2, <1>7 DEF Fits

(* A choice is opened, or a function called.                                  *)
Opens(f, arity) == f.kind = "ret" \/ (f.kind = "cond" /\ f.outArity = arity)

(* Neither moves a pointer of the context.                                    *)
LEMMA FitsOpen ==
  ASSUME NEW c, Fits(c), IsSeq(c.control), NEW d, NEW f, d.control = Append(c.control, f),
         Opens(f, c.arity),
         d.argPos = c.argPos, d.argNum = c.argNum, d.arity = c.arity, d.stack = c.stack
  PROVE  Fits(d)
<1>1. PICK l \in Levels : Layout(c.control, l) /\ Now(c, l) BY DEF Fits
<1>2. /\ l \in [pos : Nat, num : Nat, window : Nat, arity : Nat] /\ l.pos + l.num <= l.window
  BY DEF Levels
<1>3. c.arity \in Nat /\ l.arity <= c.arity BY <1>1 DEF Now
<1>4. CASE f.kind = "ret"
  <2>1. Follows(f, l, l) BY <1>4 DEF Follows
  <2>2. Layout(d.control, l) BY <2>1, <1>1, LayoutPush
  <2>3. Now(d, l) BY <1>1 DEF Now
  <2>4. QED BY <2>2, <2>3 DEF Fits
<1>5. CASE f.kind = "cond" /\ f.outArity = c.arity
  <2> DEFINE k == [l EXCEPT !.arity = c.arity]
  <2>1. k.pos = l.pos /\ k.num = l.num /\ k.window = l.window /\ k.arity = c.arity BY <1>2
  <2>2. k \in Levels
    <3>1. k \in [pos : Nat, num : Nat, window : Nat, arity : Nat] BY <1>2, <1>3
    <3> HIDE DEF k
    <3>2. QED BY <3>1, <2>1, <1>2 DEF Levels
  <2>3. Follows(f, l, k) BY <1>3, <1>5 DEF Follows
  <2> HIDE DEF k
  <2>4. Layout(d.control, k) BY <2>2, <2>3, <1>1, LayoutPush
  <2>5. k.arity <= c.arity BY <2>1, <1>3
  <2>6. Now(d, k) BY <2>1, <2>5, <1>1 DEF Now
  <2>7. QED BY <2>2, <2>4, <2>6 DEF Fits
<1>6. QED BY <1>4, <1>5 DEF Opens

(* A function returns.                                                        *)
LEMMA FitsRet ==
  ASSUME NEW c, Fits(c), IsSeq(c.control), c.control # << >>, Last(c.control).kind = "ret",
         NEW d, d.control = Front(c.control),
         d.argPos = c.argPos, d.argNum = c.argNum, d.arity = c.arity, d.stack = c.stack
  PROVE  Fits(d)
<1>1. PICK k \in Levels : Layout(c.control, k) /\ Now(c, k) BY DEF Fits
<1>2. PICK l \in Levels : Layout(d.control, l) /\ Follows(Last(c.control), l, k) BY <1>1, LayoutPop
<1>3. k = l BY <1>2 DEF Follows
<1>4. Now(d, l) BY <1>1, <1>3 DEF Now
<1>5. QED BY <1>2, <1>4 DEF Fits

(* The verdict of a condition is taken off the stack.                         *)
LEMMA FitsCondChoose ==
  ASSUME NEW c, Fits(c), IsSeq(c.control), c.control # << >>,
         NEW f, f = Last(c.control), f.kind = "cond", NEW d, d.control = Front(c.control),
         d.argPos = c.argPos, d.argNum = c.argNum, d.arity = f.outArity,
         Len(d.stack) = Len(c.stack) - (c.arity - f.outArity)
  PROVE  Fits(d)
<1>1. PICK k \in Levels : Layout(c.control, k) /\ Now(c, k) BY DEF Fits
<1>2. PICK l \in Levels : Layout(d.control, l) /\ Follows(f, l, k) BY <1>1, LayoutPop
<1>3. l \in [pos : Nat, num : Nat, window : Nat, arity : Nat] BY DEF Levels
<1>4. f.outArity \in Nat /\ l.arity <= f.outArity /\ k = [l EXCEPT !.arity = f.outArity]
  BY <1>2 DEF Follows
<1>5. k.pos = l.pos /\ k.num = l.num /\ k.window = l.window BY <1>3, <1>4
<1> DEFINE size == Len(c.stack)
           size2 == Len(d.stack)
<1>6. l.window + c.arity = size /\ c.arity \in Nat /\ size2 = size - (c.arity - f.outArity)
  BY <1>1, <1>5 DEF Now
<1> HIDE DEF size, size2
<1>7. l.window + f.outArity = size2 BY <1>3, <1>4, <1>6
<1>8. Now(d, l) BY <1>1, <1>4, <1>5, <1>7 DEF Now, size2
<1>9. QED BY <1>2, <1>8 DEF Fits
-----------------------------------------------------------------------------
(* A context, with blocks B and functions of the names given.                 *)
FrameOK(f, B, names) ==
  /\ f.kind \in {"seq", "cond", "ret"}
  /\ f.kind = "ret" => IsSeq(f.code) /\ CodeOK(f.code, B, names)

Runs(code, control, p, canceled, B, names) ==
  /\ IsSeq(code) /\ IsSeq(control) /\ CodeOK(code, B, names)
  /\ \A i \in DOMAIN control : FrameOK(control[i], B, names)
  /\ Typed(code, control, p, canceled)

Fields(c) ==
  /\ DOMAIN c = {"code", "status", "ready", "canceled", "proactive", "stack", "argPos",
                 "argNum", "arity", "control", "pending", "spawned", "below"}
  /\ c.status \in {"queued", "running", "ended"}
  /\ c.ready \in BOOLEAN /\ c.canceled \in BOOLEAN /\ c.proactive \in BOOLEAN
  /\ c.ready <=> c.canceled \/ c.status = "ended"
  /\ c.spawned \in Nat /\ IsSeq(c.stack) /\ IsSeq(c.pending)
  /\ IsSeq(c.below)

CtxOK(c, B, names) ==
  Fields(c) /\ Fits(c) /\ Runs(c.code, c.control, Len(c.pending), c.canceled, B, names)

Blocky(B, names) == \A b \in B : Sound(b, B, names, FALSE)

(* A node and the rest.                                                       *)
LEMMA CodeCut ==
  ASSUME NEW code, IsSeq(code), code # << >>, NEW B, NEW names, CodeOK(code, B, names)
  PROVE  NodeOK(Head(code), B, names) /\ IsSeq(Tail(code)) /\ CodeOK(Tail(code), B, names)
<1>1. DOMAIN code = 1 .. Len(code) /\ Len(code) \in Nat /\ Len(code) > 0 BY SeqFacts
<1>2. /\ IsSeq(Tail(code)) /\ Len(Tail(code)) = Len(code) - 1 /\ Head(code) = code[1]
      /\ \A i \in 1 .. Len(code) - 1 : Tail(code)[i] = code[i + 1]
  BY SeqHeadTail
<1>3. DOMAIN Tail(code) = 1 .. Len(code) - 1 BY <1>2, SeqFacts
<1>4. 1 \in DOMAIN code /\ \A i \in 1 .. Len(code) - 1 : i + 1 \in DOMAIN code BY <1>1
<1>5. QED BY <1>2, <1>3, <1>4 DEF CodeOK

(* A code before another.                                                     *)
LEMMA CodeConcat ==
  ASSUME NEW a, NEW b, IsSeq(a), IsSeq(b), NEW B, NEW names,
         CodeOK(a, B, names), CodeOK(b, B, names)
  PROVE  IsSeq(a \o b) /\ CodeOK(a \o b, B, names)
<1>1. Len(a) \in Nat /\ Len(b) \in Nat /\ DOMAIN a = 1 .. Len(a) /\ DOMAIN b = 1 .. Len(b)
  BY SeqFacts
<1>2. IsSeq(a \o b) /\ DOMAIN (a \o b) = 1 .. Len(a) + Len(b) BY SeqConcat, SeqFacts
<1>3. ASSUME NEW i \in 1 .. Len(a) + Len(b) PROVE NodeOK((a \o b)[i], B, names)
  <2>1. CASE i <= Len(a)
    <3>1. (a \o b)[i] = a[i] /\ i \in DOMAIN a BY <2>1, <1>1, SeqConcat
    <3>2. QED BY <3>1 DEF CodeOK
  <2>2. CASE ~(i <= Len(a))
    <3>1. (a \o b)[i] = b[i - Len(a)] BY <2>2, SeqConcat
    <3>2. i - Len(a) \in DOMAIN b BY <2>2, <1>1
    <3>3. QED BY <3>1, <3>2 DEF CodeOK
  <2>3. QED BY <2>1, <2>2
<1>4. QED BY <1>2, <1>3 DEF CodeOK

(* The frames after a push.                                                   *)
LEMMA FramesPush ==
  ASSUME NEW control, IsSeq(control), NEW B, NEW names,
         \A i \in DOMAIN control : FrameOK(control[i], B, names), NEW f, FrameOK(f, B, names)
  PROVE  /\ IsSeq(Append(control, f))
         /\ \A i \in DOMAIN Append(control, f) : FrameOK(Append(control, f)[i], B, names)
<1> DEFINE d == Append(control, f)
<1>1. Len(control) \in Nat /\ DOMAIN control = 1 .. Len(control) BY SeqFacts
<1>2. IsSeq(d) /\ Len(d) = Len(control) + 1 BY SeqAppend
<1>3. d[Len(control) + 1] = f /\ \A i \in 1 .. Len(control) : d[i] = control[i] BY SeqAppend
<1>4. DOMAIN d = 1 .. Len(control) + 1 BY <1>2, SeqFacts
<1> HIDE DEF d
<1>5. ASSUME NEW i \in DOMAIN d PROVE FrameOK(d[i], B, names)
  <2>1. CASE i = Len(control) + 1 BY <2>1, <1>3
  <2>2. CASE i # Len(control) + 1
    <3>1. i \in 1 .. Len(control) BY <2>2, <1>1, <1>4
    <3>2. QED BY <3>1, <1>1, <1>3
  <2>3. QED BY <2>1, <2>2
<1>6. QED BY <1>2, <1>5 DEF d

(* And after a pop.                                                           *)
LEMMA FramesPop ==
  ASSUME NEW control, IsSeq(control), control # << >>, NEW B, NEW names,
         \A i \in DOMAIN control : FrameOK(control[i], B, names)
  PROVE  /\ IsSeq(Front(control)) /\ FrameOK(Last(control), B, names)
         /\ \A i \in DOMAIN Front(control) : FrameOK(Front(control)[i], B, names)
<1> DEFINE d == Front(control)
<1>1. Len(control) \in Nat /\ Len(control) > 0 /\ DOMAIN control = 1 .. Len(control) BY SeqFacts
<1>2. IsSeq(d) /\ Len(d) = Len(control) - 1 /\ Last(control) = control[Len(control)]
  BY SeqFrontLast
<1>3. \A i \in 1 .. Len(control) - 1 : d[i] = control[i] BY SeqFrontLast
<1>4. DOMAIN d = 1 .. Len(control) - 1 BY <1>2, SeqFacts
<1> HIDE DEF d
<1>5. Len(control) \in DOMAIN control /\ \A i \in DOMAIN d : i \in DOMAIN control BY <1>1, <1>4
<1>6. QED BY <1>2, <1>3, <1>4, <1>5 DEF d

(* A new context.                                                             *)
LEMMA ContextNew ==
  ASSUME NEW B, NEW names, Blocky(B, names), NEW b \in B, NEW args, IsSeq(args),
         NEW flag \in BOOLEAN
  PROVE  CtxOK(NewContext(b, args, flag), B, names)
<1> DEFINE c == NewContext(b, args, flag)
           size == Len(args)
           l == [pos |-> 0, num |-> size, window |-> size, arity |-> 0]
<1>1. /\ c.code = b /\ c.control = << >> /\ c.pending = << >> /\ c.stack = args
      /\ c.argPos = 0 /\ c.argNum = size /\ c.arity = 0
  BY DEF NewContext
<1>2. Fields(c)
  <2>1. /\ c.status = "queued" /\ c.ready = FALSE /\ c.canceled = FALSE /\ c.proactive = flag
        /\ c.spawned = 0
        /\ DOMAIN c = {"code", "status", "ready", "canceled", "proactive", "stack", "argPos",
                       "argNum", "arity", "control", "pending", "spawned", "below"}
        /\ c.below = << >>
    BY DEF NewContext
  <2> HIDE DEF c
  <2>2. c.ready <=> c.canceled \/ c.status = "ended"
    <3>1. ~c.ready /\ ~c.canceled /\ c.status # "ended" BY <2>1
    <3>2. QED BY <3>1
  <2>3. c.ready \in BOOLEAN /\ c.canceled \in BOOLEAN /\ c.proactive \in BOOLEAN BY <2>1
  <2>4. IsSeq(c.stack) /\ IsSeq(c.pending) /\ IsSeq(c.below) /\ c.spawned \in Nat
    BY <2>1, <1>1, SeqNone
  <2>5. QED BY <2>1, <2>2, <2>3, <2>4 DEF Fields
<1> HIDE DEF c
<1>3. Sound(b, B, names, FALSE) BY DEF Blocky
<1>4. Runs(c.code, c.control, Len(c.pending), c.canceled, B, names)
  <2>1. IsSeq(b) /\ CodeOK(b, B, names) BY <1>3 DEF Sound, Balanced
  <2>2. Typed(b, << >>, 0, c.canceled) BY <1>3, TypedBegin
  <2>3. IsSeq(<< >>) /\ Len(<< >>) = 0 BY SeqNone
  <2>4. QED BY <2>1, <2>2, <2>3, <1>1 DEF Runs
<1>5. Fits(c)
  <2>1. size \in Nat BY SeqFacts
  <2>2. Len(c.stack) = size BY <1>1
  <2> HIDE DEF size
  <2>3. l \in Levels BY <2>1 DEF Levels
  <2>4. l.pos = 0 /\ l.num = size /\ l.window = size /\ l.arity = 0 OBVIOUS
  <2> HIDE DEF l
  <2>5. Layout(<< >>, l) BY <2>3, <2>4, LayoutNone
  <2>6. l.arity <= c.arity /\ l.window + c.arity = size BY <2>1, <2>4, <1>1
  <2>7. Now(c, l) BY <2>2, <2>4, <2>6, <1>1 DEF Now
  <2>8. QED BY <2>3, <2>5, <2>7, <1>1 DEF Fits
<1>6. CtxOK(c, B, names) BY <1>2, <1>4, <1>5 DEF CtxOK
<1>7. QED BY <1>6 DEF c

(* A code that runs, when no exact count of the pending tasks is asked for.   *)
LEMMA RunsFewer ==
  ASSUME NEW code, NEW control, NEW p \in Nat, NEW canceled, NEW B, NEW names,
         Runs(code, control, p, canceled, B, names), NEW q \in Nat, q <= p
  PROVE  Runs(code, control, q, TRUE, B, names)
<1>1. Typed(code, control, q, TRUE) BY TypedFewer DEF Runs
<1>2. QED BY <1>1 DEF Runs

(* The same of a context.                                                     *)
LEMMA RunsLoosely ==
  ASSUME NEW c, Fields(c), NEW B, NEW names,
         Runs(c.code, c.control, Len(c.pending), c.canceled, B, names)
  PROVE  Runs(c.code, c.control, Len(c.pending), TRUE, B, names)
<1> DEFINE p == Len(c.pending)
<1>1. p \in Nat BY SeqFacts DEF Fields
<1>2. p <= p BY <1>1
<1> HIDE DEF p
<1>3. Runs(c.code, c.control, p, TRUE, B, names) BY <1>1, <1>2, RunsFewer DEF p
<1>4. QED BY <1>3 DEF p

(* A context changes its status, or is canceled.                              *)
Started(c, below) == [c EXCEPT !.status = "running", !.below = below]
Finished(c) == [c EXCEPT !.status = "ended", !.ready = TRUE]

(* None of the three touches the stacks, so a fit context stays fit.          *)
LEMMA ContextStatus ==
  ASSUME NEW B, NEW names, NEW c, CtxOK(c, B, names)
  PROVE  /\ CtxOK(Canceled(c), B, names)
         /\ c.status = "queued" =>
              \A below : IsSeq(below) => CtxOK(Started(c, below), B, names)
         /\ CtxOK(Finished(c), B, names)
<1>1. Fields(c) BY DEF CtxOK
<1>2. ASSUME NEW d, Fields(d), d.code = c.code, d.control = c.control, d.pending = c.pending,
             d.stack = c.stack, d.argPos = c.argPos, d.argNum = c.argNum, d.arity = c.arity,
             d.canceled = c.canceled \/ d.canceled = TRUE
      PROVE  CtxOK(d, B, names)
  <2>1. Fits(c) /\ Runs(c.code, c.control, Len(c.pending), c.canceled, B, names) BY DEF CtxOK
  <2>2. Fits(d) BY <2>1, <1>2 DEF Fits, Now
  <2>3. Runs(c.code, c.control, Len(c.pending), TRUE, B, names) BY <2>1, <1>1, RunsLoosely
  <2>4. Runs(d.code, d.control, Len(d.pending), d.canceled, B, names) BY <2>1, <2>3, <1>2
  <2>5. QED BY <2>2, <2>4, <1>2 DEF CtxOK
<1>3. CtxOK(Canceled(c), B, names)
  <2> DEFINE d == Canceled(c)
  <2>1. /\ d.code = c.code /\ d.control = c.control /\ d.pending = c.pending
        /\ d.stack = c.stack /\ d.argPos = c.argPos /\ d.argNum = c.argNum /\ d.arity = c.arity
        /\ d.canceled = TRUE
    BY <1>1 DEF Canceled, Fields
  <2>2. Fields(d) BY <1>1 DEF Canceled, Fields
  <2> HIDE DEF d
  <2>3. CtxOK(d, B, names) BY <2>1, <2>2, <1>2
  <2>4. QED BY <2>3 DEF d
<1>4. ASSUME c.status = "queued", NEW below, IsSeq(below)
      PROVE  CtxOK(Started(c, below), B, names)
  <2> DEFINE d == Started(c, below)
  <2>1. /\ d.code = c.code /\ d.control = c.control /\ d.pending = c.pending
        /\ d.stack = c.stack /\ d.argPos = c.argPos /\ d.argNum = c.argNum /\ d.arity = c.arity
        /\ d.canceled = c.canceled
    BY <1>1 DEF Started, Fields
  <2>2. Fields(d) BY <1>1, <1>4 DEF Started, Fields
  <2> HIDE DEF d
  <2>3. CtxOK(d, B, names) BY <2>1, <2>2, <1>2
  <2>4. QED BY <2>3 DEF d
<1>5. CtxOK(Finished(c), B, names)
  <2> DEFINE d == Finished(c)
  <2>1. /\ d.code = c.code /\ d.control = c.control /\ d.pending = c.pending
        /\ d.stack = c.stack /\ d.argPos = c.argPos /\ d.argNum = c.argNum /\ d.arity = c.arity
        /\ d.canceled = c.canceled
    BY <1>1 DEF Finished, Fields
  <2>2. Fields(d) BY <1>1 DEF Finished, Fields
  <2> HIDE DEF d
  <2>3. CtxOK(d, B, names) BY <2>1, <2>2, <1>2
  <2>4. QED BY <2>3 DEF d
<1>6. QED BY <1>3, <1>4, <1>5

(* What no node changes of its context.                                       *)
Moved(c, d) ==
  /\ DOMAIN d = DOMAIN c /\ d.status = c.status /\ d.ready = c.ready
  /\ d.canceled = c.canceled /\ d.proactive = c.proactive /\ d.below = c.below

(* So a context is still fit when its code and its stacks are.                *)
LEMMA ContextMoved ==
  ASSUME NEW B, NEW names, NEW c, CtxOK(c, B, names), NEW d, Moved(c, d),
         d.spawned \in Nat, IsSeq(d.stack), IsSeq(d.pending), Fits(d),
         Runs(d.code, d.control, Len(d.pending), c.canceled, B, names)
  PROVE  CtxOK(d, B, names)
<1>1. Fields(d) BY DEF CtxOK, Moved, Fields
<1>2. d.canceled = c.canceled BY DEF Moved
<1>3. QED BY <1>1, <1>2 DEF CtxOK

(* BasicFn, GetArg and Constant, when they do not throw.                      *)
LEMMA ContextYield ==
  ASSUME NEW B, NEW names, NEW c, CtxOK(c, B, names), c.code # << >>,
         Head(c.code).op \in {"BasicFn", "GetArg", "Constant"}, NEW values, IsSeq(values)
  PROVE  CtxOK(Proceed(PushAll(c, values)), B, names)
<1> DEFINE d == Proceed(PushAll(c, values))
<1>1. Fields(c) /\ Fits(c) /\ Runs(c.code, c.control, Len(c.pending), c.canceled, B, names) BY DEF CtxOK
<1>2. /\ d.code = Tail(c.code) /\ d.control = c.control /\ d.pending = c.pending
      /\ d.stack = c.stack \o values /\ d.argPos = c.argPos /\ d.argNum = c.argNum
      /\ d.arity = c.arity + Len(values) /\ d.spawned = c.spawned
  BY <1>1 DEF Proceed, PushAll, Fields
<1>3. Moved(c, d) BY <1>1 DEF Proceed, PushAll, Fields, Moved
<1> HIDE DEF d
<1>4. IsSeq(c.stack) /\ IsSeq(c.pending) /\ c.spawned \in Nat BY <1>1 DEF Fields
<1>5. IsSeq(d.stack) /\ Len(d.stack) = Len(c.stack) + Len(values) /\ Len(values) \in Nat
  BY <1>2, <1>4, SeqConcat, SeqFacts
<1>6. Fits(d) BY <1>1, <1>2, <1>5, FitsPush
<1>7. Runs(d.code, d.control, Len(d.pending), c.canceled, B, names)
  <2>1. Len(c.pending) \in Nat BY <1>4, SeqFacts
  <2>2. Typed(Tail(c.code), c.control, Len(c.pending), c.canceled) BY <2>1, <1>1, TypedPlain DEF Runs
  <2>3. IsSeq(Tail(c.code)) /\ CodeOK(Tail(c.code), B, names) BY <1>1, CodeCut DEF Runs
  <2>4. QED BY <2>2, <2>3, <1>1, <1>2 DEF Runs
<1>8. CtxOK(d, B, names) BY <1>2, <1>3, <1>4, <1>5, <1>6, <1>7, ContextMoved
<1>9. QED BY <1>8 DEF d

(* A fork, by ParFork or CondStart, with the tasks in kids.                   *)
Forks(c) == IF c.canceled THEN << >> ELSE Head(c.code).forks
Parent(c, kids) ==
  Proceed([c EXCEPT !.pending = @ \o kids, !.spawned = @ + Len(Forks(c))])

(* A ParFork leaves its context fit, with one more task pending.              *)
LEMMA ContextFork ==
  ASSUME NEW B, NEW names, NEW c, CtxOK(c, B, names), c.code # << >>,
         Head(c.code).op = "ParFork", NEW kids, IsSeq(kids), Len(kids) = Len(Forks(c))
  PROVE  CtxOK(Parent(c, kids), B, names)
<1> DEFINE d == Parent(c, kids)
<1>1. Fields(c) /\ Fits(c) /\ Runs(c.code, c.control, Len(c.pending), c.canceled, B, names) BY DEF CtxOK
<1>2. /\ d.code = Tail(c.code) /\ d.control = c.control /\ d.pending = c.pending \o kids
      /\ d.stack = c.stack /\ d.argPos = c.argPos /\ d.argNum = c.argNum
      /\ d.arity = c.arity /\ d.spawned = c.spawned + Len(kids)
  BY <1>1 DEF Parent, Proceed, Fields
<1>3. Moved(c, d) BY <1>1 DEF Parent, Proceed, Fields, Moved
<1> HIDE DEF d
<1>4. IsSeq(c.stack) /\ IsSeq(c.pending) /\ c.spawned \in Nat BY <1>1 DEF Fields
<1>5. NodeOK(Head(c.code), B, names) /\ IsSeq(Tail(c.code)) /\ CodeOK(Tail(c.code), B, names)
  BY <1>1, CodeCut DEF Runs
<1>6. Len(kids) \in {0, 1} /\ (Len(kids) = 0 => c.canceled = TRUE)
  <2>1. Len(Head(c.code).forks) = 1 BY <1>5 DEF NodeOK
  <2>2. c.canceled \in BOOLEAN BY <1>1 DEF Fields
  <2>3. CASE c.canceled = TRUE
    <3>1. Len(kids) = 0 BY <2>3, SeqNone DEF Forks
    <3>2. QED BY <2>3, <3>1
  <2>4. CASE c.canceled = FALSE
    <3>1. Len(kids) = 1 BY <2>1, <2>4 DEF Forks
    <3>2. QED BY <3>1
  <2>5. c.canceled = TRUE \/ c.canceled = FALSE BY <2>2
  <2>6. QED BY <2>3, <2>4, <2>5
<1>7. IsSeq(d.pending) /\ Len(d.pending) = Len(c.pending) + Len(kids) /\ d.spawned \in Nat
  <2>1. IsSeq(c.pending \o kids) /\ Len(c.pending \o kids) = Len(c.pending) + Len(kids)
    BY <1>4, SeqConcat
  <2>2. IsSeq(d.pending) /\ Len(d.pending) = Len(c.pending) + Len(kids) BY <2>1, <1>2
  <2>3. Len(kids) \in Nat BY <1>6
  <2>4. QED BY <2>2, <2>3, <1>2, <1>4
<1>8. Fits(d)
  <2>1. d.arity = c.arity + 0 /\ Len(d.stack) = Len(c.stack) + 0 /\ 0 \in Nat
    BY <1>1, <1>2, FitsFacts
  <2>2. QED BY <2>1, <1>1, <1>2, FitsPush
<1>9. Runs(d.code, d.control, Len(d.pending), c.canceled, B, names)
  <2>1. Len(c.pending) \in Nat BY <1>4, SeqFacts
  <2>2. /\ Typed(Tail(c.code), c.control, Len(c.pending), TRUE)
        /\ Typed(Tail(c.code), c.control, Len(c.pending) + 1, c.canceled)
    BY <2>1, <1>1, TypedParFork DEF Runs
  <2>3. \/ Len(d.pending) = Len(c.pending) /\ c.canceled = TRUE
        \/ Len(d.pending) = Len(c.pending) + 1
    <3> DEFINE p == Len(c.pending)
               q == Len(d.pending)
               k == Len(kids)
    <3>1. p \in Nat /\ k \in {0, 1} /\ q = p + k /\ (k = 0 => c.canceled = TRUE)
      BY <2>1, <1>6, <1>7
    <3> HIDE DEF p, q, k
    <3>2. (q = p /\ c.canceled = TRUE) \/ q = p + 1 BY <3>1
    <3>3. QED BY <3>2 DEF p, q
  <2>4. Typed(Tail(c.code), c.control, Len(d.pending), c.canceled) BY <2>2, <2>3
  <2>5. QED BY <2>4, <1>1, <1>2, <1>5 DEF Runs
<1>10. CtxOK(d, B, names) BY <1>2, <1>3, <1>4, <1>7, <1>8, <1>9, ContextMoved
<1>11. QED BY <1>10 DEF d

(* A speculation: the frame is pushed before the fork.                        *)
LEMMA ContextCondStart ==
  ASSUME NEW B, NEW names, NEW c, CtxOK(c, B, names), c.code # << >>,
         Head(c.code).op = "CondStart", NEW kids, IsSeq(kids), Len(kids) = Len(Forks(c))
  PROVE  CtxOK(Parent(Pushed(c, CondFrame(c)), kids), B, names)
<1> DEFINE f == CondFrame(c)
           d == Parent(Pushed(c, f), kids)
<1>1. Fields(c) /\ Fits(c) /\ Runs(c.code, c.control, Len(c.pending), c.canceled, B, names) BY DEF CtxOK
<1>2. f.kind = "cond" /\ f.outArity = c.arity BY DEF CondFrame
<1> HIDE DEF f
<1>3. Forks(Pushed(c, f)) = Forks(c) BY <1>1 DEF Forks, Pushed, Fields
<1>4. /\ d.code = Tail(c.code) /\ d.control = Append(c.control, f)
      /\ d.pending = c.pending \o kids
      /\ d.stack = c.stack /\ d.argPos = c.argPos /\ d.argNum = c.argNum
      /\ d.arity = c.arity /\ d.spawned = c.spawned + Len(kids)
  BY <1>1, <1>3 DEF Parent, Proceed, Pushed, Fields
<1>5. Moved(c, d) BY <1>1 DEF Parent, Proceed, Pushed, Fields, Moved
<1> HIDE DEF d
<1>6. IsSeq(c.stack) /\ IsSeq(c.pending) /\ c.spawned \in Nat BY <1>1 DEF Fields
<1>7. NodeOK(Head(c.code), B, names) /\ IsSeq(Tail(c.code)) /\ CodeOK(Tail(c.code), B, names)
  BY <1>1, CodeCut DEF Runs
<1>8. /\ IsSeq(Head(c.code).forks) /\ Len(kids) \in Nat
      /\ Counts(Len(kids), Len(Head(c.code).forks), c.canceled)
  <2>1. IsSeq(Head(c.code).forks) BY <1>7 DEF NodeOK
  <2>2. Len(Head(c.code).forks) \in Nat BY <2>1, SeqFacts
  <2>3. CASE c.canceled
    <3>1. Len(kids) = 0 BY <2>3, SeqNone DEF Forks
    <3>2. QED BY <2>1, <2>2, <2>3, <3>1 DEF Counts
  <2>4. CASE ~c.canceled
    <3>1. Len(kids) = Len(Head(c.code).forks) BY <2>4 DEF Forks
    <3>2. QED BY <2>1, <2>2, <3>1 DEF Counts
  <2>5. QED BY <2>3, <2>4
<1>9. IsSeq(d.pending) /\ Len(d.pending) = Len(c.pending) + Len(kids) /\ d.spawned \in Nat
  <2>1. /\ IsSeq(c.pending \o kids)
        /\ Len(c.pending \o kids) = Len(c.pending) + Len(kids)
    BY <1>6, SeqConcat
  <2>2. c.spawned + Len(kids) \in Nat BY <1>6, <1>8
  <2>3. QED BY <2>1, <2>2, <1>4
<1>10. IsSeq(c.control) BY <1>1 DEF Runs
<1>11. Fits(d)
  <2>1. Opens(f, c.arity) BY <1>2 DEF Opens
  <2>2. QED BY <2>1, <1>1, <1>4, <1>10, FitsOpen
<1>12. Runs(d.code, d.control, Len(d.pending), c.canceled, B, names)
  <2>1. Len(c.pending) \in Nat BY <1>6, SeqFacts
  <2>2. Typed(Tail(c.code), Append(c.control, f), Len(c.pending) + Len(kids), c.canceled)
    BY <2>1, <1>1, <1>2, <1>8, <1>10, TypedCondStart DEF Runs
  <2>3. FrameOK(f, B, names) BY <1>2 DEF FrameOK
  <2>4. /\ IsSeq(Append(c.control, f))
        /\ \A i \in DOMAIN Append(c.control, f) : FrameOK(Append(c.control, f)[i], B, names)
    BY <2>3, <1>1, FramesPush DEF Runs
  <2>5. QED BY <2>2, <2>4, <1>4, <1>7, <1>9 DEF Runs
<1>13. CtxOK(d, B, names) BY <1>4, <1>5, <1>6, <1>9, <1>11, <1>12, ContextMoved
<1>14. QED BY <1>13 DEF d, f

(* ParJoin: the context goes on with no result, or with those of the task.    *)
LEMMA ContextJoin ==
  ASSUME NEW B, NEW names, NEW c, CtxOK(c, B, names), c.code # << >>,
         Head(c.code).op = "ParJoin"
  PROVE  /\ c.pending = << >> =>
              /\ CtxOK(Proceed(c), B, names)
              /\ \A values : IsSeq(values) => CtxOK(PushAll(Proceed(c), values), B, names)
         /\ c.pending # << >> => LET rest == Proceed([c EXCEPT !.pending = Front(@)]) IN
              /\ CtxOK(rest, B, names)
              /\ \A values : IsSeq(values) => CtxOK(PushAll(rest, values), B, names)
<1>1. Fields(c) /\ Fits(c) /\ Runs(c.code, c.control, Len(c.pending), c.canceled, B, names) BY DEF CtxOK
<1>2. IsSeq(c.stack) /\ IsSeq(c.pending) /\ c.spawned \in Nat BY <1>1 DEF Fields
<1>3. IsSeq(Tail(c.code)) /\ CodeOK(Tail(c.code), B, names) BY <1>1, CodeCut DEF Runs
<1> DEFINE p == Len(c.pending)
<1>4. p \in Nat BY <1>2, SeqFacts
<1>5. Typed(Tail(c.code), c.control, IF p = 0 THEN 0 ELSE p - 1, c.canceled)
  BY <1>1, <1>4, TypedParJoin DEF Runs
<1>6. ASSUME NEW d, NEW values, IsSeq(values), Moved(c, d), d.code = Tail(c.code),
             d.control = c.control, d.spawned = c.spawned, d.stack = c.stack \o values,
             d.argPos = c.argPos, d.argNum = c.argNum, d.arity = c.arity + Len(values),
             IsSeq(d.pending), Len(d.pending) = IF p = 0 THEN 0 ELSE p - 1
      PROVE  CtxOK(d, B, names)
  <2>1. IsSeq(d.stack) /\ Len(d.stack) = Len(c.stack) + Len(values) /\ Len(values) \in Nat
    BY <1>2, <1>6, SeqConcat, SeqFacts
  <2>2. Fits(d) BY <2>1, <1>1, <1>6, FitsPush
  <2>3. Runs(d.code, d.control, Len(d.pending), c.canceled, B, names) BY <1>1, <1>3, <1>5, <1>6 DEF Runs
  <2>4. QED BY <2>1, <2>2, <2>3, <1>2, <1>6, ContextMoved
<1>7. ASSUME NEW s, IsSeq(s) PROVE s \o << >> = s BY <1>7, ConcatEmptySeq DEF IsSeq
<1>8. c.arity + 0 = c.arity /\ c.arity \in Nat BY <1>1, FitsFacts
<1>9. c.stack \o << >> = c.stack /\ IsSeq(<< >>) /\ Len(<< >>) = 0 BY <1>2, <1>7, SeqNone
<1>10. ASSUME c.pending = << >>
       PROVE  /\ CtxOK(Proceed(c), B, names)
              /\ \A values : IsSeq(values) => CtxOK(PushAll(Proceed(c), values), B, names)
  <2> DEFINE d == Proceed(c)
  <2>1. /\ d.code = Tail(c.code) /\ d.control = c.control /\ d.pending = c.pending
        /\ d.stack = c.stack /\ d.argPos = c.argPos /\ d.argNum = c.argNum
        /\ d.arity = c.arity /\ d.spawned = c.spawned
    BY <1>1 DEF Proceed, Fields
  <2>2. Moved(c, d) BY <1>1 DEF Proceed, Fields, Moved
  <2>3. p = 0 BY <1>10, <1>9
  <2> HIDE DEF d, p
  <2>4. Len(d.pending) = 0 /\ IsSeq(d.pending) BY <2>1, <1>10, <1>9
  <2>5. d.stack = c.stack \o << >> /\ d.arity = c.arity + Len(<< >>) BY <2>1, <1>8, <1>9
  <2>6. CtxOK(d, B, names) BY <2>1, <2>2, <2>3, <2>4, <2>5, <1>6, <1>9
  <2>7. ASSUME NEW values, IsSeq(values) PROVE CtxOK(PushAll(d, values), B, names)
    <3> DEFINE e == PushAll(d, values)
    <3>1. Fields(d) BY <2>6 DEF CtxOK
    <3>2. /\ e.code = d.code /\ e.control = d.control /\ e.pending = d.pending
          /\ e.stack = d.stack \o values /\ e.argPos = d.argPos /\ e.argNum = d.argNum
          /\ e.arity = d.arity + Len(values) /\ e.spawned = d.spawned
      BY <3>1 DEF PushAll, Fields
    <3>3. Moved(d, e) BY <3>1 DEF PushAll, Fields, Moved
    <3> HIDE DEF e
    <3>4. Moved(c, e) BY <3>3, <2>2 DEF Moved
    <3>5. CtxOK(e, B, names) BY <2>1, <2>3, <2>4, <2>7, <3>2, <3>4, <1>6
    <3>6. QED BY <3>5 DEF e
  <2>8. QED BY <2>6, <2>7 DEF d
<1>11. ASSUME c.pending # << >>
       PROVE  LET rest == Proceed([c EXCEPT !.pending = Front(@)]) IN
              /\ CtxOK(rest, B, names)
              /\ \A values : IsSeq(values) => CtxOK(PushAll(rest, values), B, names)
  <2> DEFINE rest == Proceed([c EXCEPT !.pending = Front(@)])
  <2>1. /\ rest.code = Tail(c.code) /\ rest.control = c.control /\ rest.pending = Front(c.pending)
        /\ rest.stack = c.stack /\ rest.argPos = c.argPos /\ rest.argNum = c.argNum
        /\ rest.arity = c.arity /\ rest.spawned = c.spawned
    BY <1>1 DEF Proceed, Fields
  <2>2. Moved(c, rest) BY <1>1 DEF Proceed, Fields, Moved
  <2>3. IsSeq(Front(c.pending)) /\ Len(Front(c.pending)) = p - 1 /\ p # 0
    BY <1>2, <1>11, SeqFrontLast, SeqFacts
  <2> HIDE DEF rest, p
  <2>4. CtxOK(rest, B, names)
    <3>1. rest.stack = c.stack \o << >> /\ rest.arity = c.arity + Len(<< >>) BY <2>1, <1>8, <1>9
    <3>2. QED BY <2>1, <2>2, <2>3, <3>1, <1>6, <1>9
  <2>5. ASSUME NEW values, IsSeq(values) PROVE CtxOK(PushAll(rest, values), B, names)
    <3> DEFINE d == PushAll(rest, values)
    <3>1. Fields(rest) BY <2>4 DEF CtxOK
    <3>2. /\ d.code = rest.code /\ d.control = rest.control /\ d.pending = rest.pending
          /\ d.stack = rest.stack \o values /\ d.argPos = rest.argPos /\ d.argNum = rest.argNum
          /\ d.arity = rest.arity + Len(values) /\ d.spawned = rest.spawned
      BY <3>1 DEF PushAll, Fields
    <3>3. Moved(rest, d) BY <3>1 DEF PushAll, Fields, Moved
    <3> HIDE DEF d
    <3>4. Moved(c, d) BY <3>3, <2>2 DEF Moved
    <3>5. CtxOK(d, B, names) BY <2>1, <2>3, <2>5, <3>2, <3>4, <1>6
    <3>6. QED BY <3>5 DEF d
  <2>6. QED BY <2>4, <2>5 DEF rest
<1>12. QED BY <1>10, <1>11

(* SeqBegin.                                                                  *)
LEMMA ContextSeqBegin ==
  ASSUME NEW B, NEW names, NEW c, CtxOK(c, B, names), c.code # << >>,
         Head(c.code).op = "SeqBegin"
  PROVE  CtxOK(Proceed(Opened(c)), B, names)
<1> DEFINE f == SeqFrame(c)
           d == Proceed(Pushed([c EXCEPT !.arity = 0], f))
<1>1. Fields(c) /\ Fits(c) /\ Runs(c.code, c.control, Len(c.pending), c.canceled, B, names) BY DEF CtxOK
<1>2. /\ f.kind = "seq" /\ f.argPos = c.argPos /\ f.size = Len(c.stack)
      /\ f.inArity = c.argNum /\ f.outArity = c.arity
  BY DEF SeqFrame
<1>3. d = Proceed(Opened(c)) BY DEF Opened
<1> HIDE DEF f
<1>4. /\ d.code = Tail(c.code) /\ d.control = Append(c.control, f) /\ d.pending = c.pending
      /\ d.stack = c.stack /\ d.argPos = c.argPos /\ d.argNum = c.argNum
      /\ d.arity = 0 /\ d.spawned = c.spawned
  BY <1>1 DEF Proceed, Pushed, Fields
<1>5. Moved(c, d) BY <1>1 DEF Proceed, Pushed, Fields, Moved
<1> HIDE DEF d
<1>6. IsSeq(c.stack) /\ IsSeq(c.pending) /\ c.spawned \in Nat BY <1>1 DEF Fields
<1>7. IsSeq(c.control) BY <1>1 DEF Runs
<1>8. Fits(d) BY <1>1, <1>2, <1>4, <1>7, FitsSeqBegin
<1>9. Runs(d.code, d.control, Len(d.pending), c.canceled, B, names)
  <2>1. Len(c.pending) \in Nat BY <1>6, SeqFacts
  <2>2. Typed(Tail(c.code), Append(c.control, f), Len(c.pending), c.canceled)
    BY <2>1, <1>1, <1>2, <1>7, TypedSeqBegin DEF Runs
  <2>3. FrameOK(f, B, names) BY <1>2 DEF FrameOK
  <2>4. /\ IsSeq(Append(c.control, f))
        /\ \A i \in DOMAIN Append(c.control, f) : FrameOK(Append(c.control, f)[i], B, names)
    BY <2>3, <1>1, FramesPush DEF Runs
  <2>5. IsSeq(Tail(c.code)) /\ CodeOK(Tail(c.code), B, names) BY <1>1, CodeCut DEF Runs
  <2>6. QED BY <2>2, <2>4, <2>5, <1>4 DEF Runs
<1>10. CtxOK(d, B, names) BY <1>4, <1>5, <1>6, <1>8, <1>9, ContextMoved
<1>11. QED BY <1>3, <1>10

(* SeqAdvance.                                                                *)
LEMMA ContextSeqAdvance ==
  ASSUME NEW B, NEW names, NEW c, CtxOK(c, B, names), c.code # << >>,
         Head(c.code).op = "SeqAdvance"
  PROVE  CtxOK(Proceed(Advance(c)), B, names)
<1> DEFINE d == Proceed(Advance(c))
<1>1. Fields(c) /\ Fits(c) /\ Runs(c.code, c.control, Len(c.pending), c.canceled, B, names) BY DEF CtxOK
<1>2. /\ d.code = Tail(c.code) /\ d.control = c.control /\ d.pending = c.pending
      /\ d.stack = c.stack /\ d.argPos = Len(c.stack) - c.arity /\ d.argNum = c.arity
      /\ d.arity = 0 /\ d.spawned = c.spawned
  BY <1>1 DEF Proceed, Advance, Fields
<1>3. Moved(c, d) BY <1>1 DEF Proceed, Advance, Fields, Moved
<1> HIDE DEF d
<1>4. IsSeq(c.stack) /\ IsSeq(c.pending) /\ c.spawned \in Nat BY <1>1 DEF Fields
<1>5. /\ c.control # << >> /\ Last(c.control).kind = "seq"
      /\ Typed(Tail(c.code), c.control, Len(c.pending), c.canceled)
  <2>1. Len(c.pending) \in Nat BY <1>4, SeqFacts
  <2>2. QED BY <2>1, <1>1, TypedSeqAdvance DEF Runs
<1>6. IsSeq(c.control) BY <1>1 DEF Runs
<1>7. Fits(d) BY <1>1, <1>2, <1>5, <1>6, FitsSeqAdvance
<1>8. Runs(d.code, d.control, Len(d.pending), c.canceled, B, names)
  <2>1. IsSeq(Tail(c.code)) /\ CodeOK(Tail(c.code), B, names) BY <1>1, CodeCut DEF Runs
  <2>2. QED BY <2>1, <1>1, <1>2, <1>5 DEF Runs
<1>9. CtxOK(d, B, names) BY <1>2, <1>3, <1>4, <1>7, <1>8, ContextMoved
<1>10. QED BY <1>9 DEF d

(* The results of a context.                                                  *)
LEMMA ResultsPart ==
  ASSUME NEW c, Fits(c), IsSeq(c.stack)
  PROVE  IsSeq(Results(c)) /\ Len(Results(c)) = c.arity
<1> DEFINE size == Len(c.stack)
<1>1. c.arity \in Nat /\ size \in Nat /\ c.arity <= size
  <2>1. /\ c.argPos \in Nat /\ c.argNum \in Nat /\ c.arity \in Nat /\ size \in Nat
        /\ c.argPos + c.argNum + c.arity <= size
    BY FitsFacts
  <2> HIDE DEF size
  <2>2. QED BY <2>1
<1> HIDE DEF size
<1>2. /\ size - c.arity + 1 \in Int /\ size \in Int /\ 1 <= size - c.arity + 1
      /\ size <= size
      /\ (IF size - c.arity + 1 <= size THEN size - (size - c.arity + 1) + 1 ELSE 0) = c.arity
  BY <1>1
<1>3. /\ IsSeq(SubSeq(c.stack, size - c.arity + 1, size))
      /\ Len(SubSeq(c.stack, size - c.arity + 1, size)) = c.arity
  BY <1>2, SeqPart DEF size
<1>4. QED BY <1>3 DEF Results, size

(* SeqEnd: the frame is a chain's.                                            *)
LEMMA ContextSeqEnd ==
  ASSUME NEW B, NEW names, NEW c, CtxOK(c, B, names), c.code # << >>,
         Head(c.code).op = "SeqEnd"
  PROVE  /\ c.control # << >> /\ Last(c.control).kind = "seq"
         /\ CtxOK(Proceed(Closed(c, Last(c.control))), B, names)
<1> DEFINE f == Last(c.control)
           d == Proceed(Closed(c, f))
<1>1. Fields(c) /\ Fits(c) /\ Runs(c.code, c.control, Len(c.pending), c.canceled, B, names) BY DEF CtxOK
<1>2. IsSeq(c.stack) /\ IsSeq(c.pending) /\ c.spawned \in Nat BY <1>1 DEF Fields
<1>3. /\ c.control # << >> /\ f.kind = "seq"
      /\ Typed(Tail(c.code), Front(c.control), Len(c.pending), c.canceled)
  <2>1. Len(c.pending) \in Nat BY <1>2, SeqFacts
  <2>2. QED BY <2>1, <1>1, TypedSeqEnd DEF Runs
<1>4. IsSeq(c.control) BY <1>1 DEF Runs
<1>5. f.size \in Nat /\ f.size + c.arity <= Len(c.stack) /\ c.arity \in Nat
  BY <1>1, <1>3, <1>4, FitsTop, FitsFacts
<1> HIDE DEF f
<1>6. Results(Popped(c)) = Results(c) BY <1>1 DEF Results, Popped, Fields
<1>7. /\ d.code = Tail(c.code) /\ d.control = Front(c.control) /\ d.pending = c.pending
      /\ d.stack = SubSeq(c.stack, 1, f.size) \o Results(c) /\ d.argPos = f.argPos
      /\ d.argNum = f.inArity /\ d.arity = c.arity + f.outArity /\ d.spawned = c.spawned
  BY <1>1, <1>6 DEF Proceed, Closed, Unwind, Popped, Fields
<1>8. Moved(c, d) BY <1>1 DEF Proceed, Closed, Unwind, Popped, Fields, Moved
<1> HIDE DEF d
<1>9. IsSeq(d.stack) /\ Len(d.stack) = f.size + c.arity
  <2>1. IsSeq(Results(c)) /\ Len(Results(c)) = c.arity BY <1>1, <1>2, ResultsPart
  <2>2. IsSeq(SubSeq(c.stack, 1, f.size)) /\ Len(SubSeq(c.stack, 1, f.size)) = f.size
    <3> DEFINE size == Len(c.stack)
    <3>1. size \in Nat BY <1>2, SeqFacts
    <3>2. f.size + c.arity <= size BY <1>5
    <3> HIDE DEF size
    <3>3. 1 \in Int /\ f.size \in Int /\ 1 <= 1 /\ f.size <= size BY <3>1, <3>2, <1>5
    <3>4. (IF 1 <= f.size THEN f.size - 1 + 1 ELSE 0) = f.size BY <1>5
    <3>5. QED BY <3>3, <3>4, <1>2, SeqPart DEF size
  <2> DEFINE kept == SubSeq(c.stack, 1, f.size)
             results == Results(c)
  <2>3. d.stack = kept \o results BY <1>7
  <2> HIDE DEF kept, results
  <2>4. IsSeq(kept \o results) /\ Len(kept \o results) = Len(kept) + Len(results)
    BY <2>1, <2>2, SeqConcat DEF kept, results
  <2>5. Len(kept) = f.size /\ Len(results) = c.arity BY <2>1, <2>2 DEF kept, results
  <2>6. QED BY <2>3, <2>4, <2>5
<1>10. Fits(d) BY <1>1, <1>3, <1>4, <1>7, <1>9, FitsSeqEnd DEF f
<1>11. Runs(d.code, d.control, Len(d.pending), c.canceled, B, names)
  <2>1. IsSeq(Tail(c.code)) /\ CodeOK(Tail(c.code), B, names) BY <1>1, CodeCut DEF Runs
  <2>2. /\ IsSeq(Front(c.control))
        /\ \A i \in DOMAIN Front(c.control) : FrameOK(Front(c.control)[i], B, names)
    BY <1>1, <1>3, FramesPop DEF Runs
  <2>3. QED BY <2>1, <2>2, <1>3, <1>7 DEF Runs
<1>12. CtxOK(d, B, names) BY <1>2, <1>7, <1>8, <1>9, <1>10, <1>11, ContextMoved
<1>13. QED BY <1>3, <1>12 DEF d, f

(* RecFn: the body of a function.                                             *)
LEMMA ContextRecFn ==
  ASSUME NEW B, NEW names, Blocky(B, names), NEW c, CtxOK(c, B, names), c.code # << >>,
         Head(c.code).op = "RecFn", NEW b \in B
  PROVE  CtxOK([Pushed(c, RetFrame(Tail(c.code))) EXCEPT !.code = b \o <<Ret>>], B, names)
<1> DEFINE f == RetFrame(Tail(c.code))
           body == b \o <<Ret>>
           d == [Pushed(c, f) EXCEPT !.code = body]
<1>1. Fields(c) /\ Fits(c) /\ Runs(c.code, c.control, Len(c.pending), c.canceled, B, names) BY DEF CtxOK
<1>2. f.kind = "ret" /\ f.code = Tail(c.code) BY DEF RetFrame
<1>3. Sound(b, B, names, FALSE) BY DEF Blocky
<1>4. IsSeq(body) /\ CodeOK(body, B, names)
  <2>1. NodeOK(Ret, B, names) BY DEF NodeOK, Ret
  <2>2. IsSeq(<<Ret>>) /\ CodeOK(<<Ret>>, B, names) BY <2>1, CodeOne, SeqOne
  <2>3. IsSeq(b) /\ CodeOK(b, B, names) BY <1>3 DEF Sound, Balanced
  <2>4. QED BY <2>2, <2>3, CodeConcat
<1> HIDE DEF f
<1>5. Typed(body, Append(c.control, f), Len(c.pending), c.canceled)
  <2>1. Len(c.pending) \in Nat BY <1>1, SeqFacts DEF Fields
  <2>2. IsSeq(c.code) /\ IsSeq(c.control) /\ Typed(c.code, c.control, Len(c.pending), c.canceled)
    BY <1>1 DEF Runs
  <2>3. QED BY <2>1, <2>2, <1>2, <1>3, TypedRecFn
<1> HIDE DEF body
<1>6. /\ d.code = body /\ d.control = Append(c.control, f) /\ d.pending = c.pending
      /\ d.stack = c.stack /\ d.argPos = c.argPos /\ d.argNum = c.argNum
      /\ d.arity = c.arity /\ d.spawned = c.spawned
  BY <1>1 DEF Pushed, Fields
<1>7. Moved(c, d) BY <1>1 DEF Pushed, Fields, Moved
<1> HIDE DEF d
<1>8. IsSeq(c.stack) /\ IsSeq(c.pending) /\ c.spawned \in Nat BY <1>1 DEF Fields
<1>9. IsSeq(c.control) BY <1>1 DEF Runs
<1>10. Fits(d)
  <2>1. Opens(f, c.arity) BY <1>2 DEF Opens
  <2>2. Fits(c) BY <1>1
  <2>3. QED BY <2>1, <2>2, <1>6, <1>9, FitsOpen
<1>11. Runs(d.code, d.control, Len(d.pending), c.canceled, B, names)
  <2>1. IsSeq(Tail(c.code)) /\ CodeOK(Tail(c.code), B, names) BY <1>1, CodeCut DEF Runs
  <2>2. FrameOK(f, B, names) BY <2>1, <1>2 DEF FrameOK
  <2>3. /\ IsSeq(Append(c.control, f))
        /\ \A i \in DOMAIN Append(c.control, f) : FrameOK(Append(c.control, f)[i], B, names)
    BY <2>2, <1>1, FramesPush DEF Runs
  <2>4. QED BY <2>3, <1>4, <1>5, <1>6 DEF Runs
<1>12. CtxOK(d, B, names) BY <1>6, <1>7, <1>8, <1>10, <1>11, ContextMoved
<1>13. QED BY <1>12 DEF d, body, f

(* Ret: the frame is a call's.                                                *)
LEMMA ContextRet ==
  ASSUME NEW B, NEW names, NEW c, CtxOK(c, B, names), c.code # << >>,
         Head(c.code).op = "Ret"
  PROVE  /\ c.control # << >> /\ Last(c.control).kind = "ret"
         /\ CtxOK([Popped(c) EXCEPT !.code = Last(c.control).code], B, names)
<1> DEFINE f == Last(c.control)
           d == [Popped(c) EXCEPT !.code = f.code]
<1>1. Fields(c) /\ Fits(c) /\ Runs(c.code, c.control, Len(c.pending), c.canceled, B, names) BY DEF CtxOK
<1>2. IsSeq(c.stack) /\ IsSeq(c.pending) /\ c.spawned \in Nat BY <1>1 DEF Fields
<1>3. IsSeq(c.control) BY <1>1 DEF Runs
<1>4. /\ c.control # << >> /\ f.kind = "ret"
      /\ Typed(f.code, Front(c.control), Len(c.pending), c.canceled)
  <2>1. Len(c.pending) \in Nat BY <1>2, SeqFacts
  <2>2. QED BY <2>1, <1>1, TypedRet DEF Runs
<1>5. /\ IsSeq(Front(c.control)) /\ FrameOK(f, B, names)
      /\ \A i \in DOMAIN Front(c.control) : FrameOK(Front(c.control)[i], B, names)
  BY <1>1, <1>4, FramesPop DEF Runs
<1>6. /\ d.code = f.code /\ d.control = Front(c.control) /\ d.pending = c.pending
      /\ d.stack = c.stack /\ d.argPos = c.argPos /\ d.argNum = c.argNum
      /\ d.arity = c.arity /\ d.spawned = c.spawned
  BY <1>1 DEF Popped, Fields
<1>7. Moved(c, d) BY <1>1 DEF Popped, Fields, Moved
<1> HIDE DEF d
<1>8. Fits(d) BY <1>1, <1>3, <1>4, <1>6, FitsRet
<1> HIDE DEF f
<1>9. Runs(d.code, d.control, Len(d.pending), c.canceled, B, names)
  BY <1>4, <1>5, <1>6 DEF Runs, FrameOK
<1>10. CtxOK(d, B, names) BY <1>2, <1>6, <1>7, <1>8, <1>9, ContextMoved
<1>11. QED BY <1>4, <1>10 DEF d, f

(* One element of a sequence is erased.                                       *)
LEMMA SeqErase == ASSUME NEW s, IsSeq(s), NEW i \in 1 .. Len(s)
  PROVE /\ IsSeq(Erased(s, i)) /\ Len(Erased(s, i)) = Len(s) - 1
        /\ \A j \in 1 .. Len(s) - 1 : Erased(s, i)[j] = IF j < i THEN s[j] ELSE s[j + 1]
<1> DEFINE n == Len(s)
           a == SubSeq(s, 1, i - 1)
           b == SubSeq(s, i + 1, n)
<1>1. n \in Nat BY SeqFacts
<1>2. Erased(s, i) = a \o b BY DEF Erased, RemoveAt
<1>3. /\ IsSeq(a) /\ Len(a) = i - 1 /\ \A j \in 1 .. i - 1 : a[j] = s[j]
  <2>1. 1 \in Int /\ i - 1 \in Int /\ 1 <= 1 /\ i - 1 <= n BY <1>1
  <2>2. (IF 1 <= i - 1 THEN (i - 1) - 1 + 1 ELSE 0) = i - 1 /\ (i - 1) - 1 + 1 = i - 1 BY <1>1
  <2>3. /\ IsSeq(a) /\ Len(a) = i - 1 /\ \A j \in 1 .. i - 1 : a[j] = s[1 + j - 1]
    BY <2>1, <2>2, SeqPart
  <2>4. \A j \in 1 .. i - 1 : 1 + j - 1 = j BY <1>1
  <2>5. QED BY <2>3, <2>4
<1>4. /\ IsSeq(b) /\ Len(b) = n - i /\ \A j \in 1 .. n - i : b[j] = s[i + j]
  <2>1. i + 1 \in Int /\ n \in Int /\ 1 <= i + 1 /\ n <= n BY <1>1
  <2>2. (IF i + 1 <= n THEN n - (i + 1) + 1 ELSE 0) = n - i /\ n - (i + 1) + 1 = n - i BY <1>1
  <2> DEFINE m == i + 1
             k == n - i
  <2>3. n <= Len(s) /\ \A j \in 1 .. k : m + j - 1 = i + j BY <1>1
  <2>4. b = SubSeq(s, m, n) OBVIOUS
  <2> HIDE DEF b, m, k, n
  <2>5. /\ IsSeq(SubSeq(s, m, n)) /\ Len(SubSeq(s, m, n)) = k
        /\ \A j \in 1 .. k : SubSeq(s, m, n)[j] = s[m + j - 1]
    BY <2>1, <2>2, <2>3, SeqPart DEF m, k
  <2>6. QED BY <2>3, <2>4, <2>5 DEF k
<1> HIDE DEF a, b
<1>5. /\ IsSeq(a \o b) /\ Len(a \o b) = (i - 1) + (n - i)
      /\ \A j \in 1 .. (i - 1) + (n - i) : (a \o b)[j] = IF j <= i - 1 THEN a[j] ELSE b[j - (i - 1)]
  <2> DEFINE m == i - 1
             k == n - i
  <2>1. Len(a) = m /\ Len(b) = k BY <1>3, <1>4
  <2> HIDE DEF m, k
  <2>2. /\ IsSeq(a \o b) /\ Len(a \o b) = m + k
        /\ \A j \in 1 .. m + k : (a \o b)[j] = IF j <= m THEN a[j] ELSE b[j - m]
    BY <2>1, <1>3, <1>4, SeqConcat
  <2>3. QED BY <2>2 DEF m, k
<1> HIDE DEF n
<1>6. (i - 1) + (n - i) = n - 1 BY <1>1
<1>7. ASSUME NEW j \in 1 .. n - 1 PROVE (a \o b)[j] = IF j < i THEN s[j] ELSE s[j + 1]
  <2>1. CASE j < i
    <3>1. j <= i - 1 /\ j \in 1 .. i - 1 BY <2>1
    <3>2. QED BY <3>1, <2>1, <1>3, <1>5, <1>6
  <2>2. CASE ~(j < i)
    <3>1. ~(j <= i - 1) /\ j - (i - 1) \in 1 .. n - i /\ i + (j - (i - 1)) = j + 1 BY <2>2, <1>1
    <3>2. QED BY <3>1, <2>2, <1>4, <1>5, <1>6
  <2>3. QED BY <2>1, <2>2
<1>8. QED BY <1>2, <1>5, <1>6, <1>7 DEF n

(* A choice leaves no more tasks pending than the code will join: its branch  *)
(* joins those it has itself forked, but for the one that is canceled.        *)
Branches(x, isFalse) == IF isFalse THEN x.else ELSE x.then

(* The count, for each of the ways a choice can be compiled.                  *)
LEMMA ChoiceCounts ==
  ASSUME NEW x, NEW isFalse \in BOOLEAN, NEW p \in Nat
  PROVE  LET pos == CancelPos(x, isFalse)
             nb  == Joins(Branches(x, isFalse))
             q   == IF pos > 0 /\ p - pos + 1 > 0 THEN p - 1 ELSE p
         IN pos \in 0 .. 2 /\ q \in Nat /\ \A canceled : Settles(p, Missing(x), q, nb, canceled)
<1> DEFINE pos == CancelPos(x, isFalse)
           nb  == Joins(Branches(x, isFalse))
           d   == Missing(x)
           q   == IF pos > 0 /\ p - pos + 1 > 0 THEN p - 1 ELSE p
<1>1. \/ pos = 0 /\ nb \in {0, 1} /\ d = nb
      \/ pos = 1 /\ nb \in {0, 1} /\ d = nb + 1
      \/ pos = 2 /\ nb = 1 /\ d = 2
  <2>1. CASE isFalse
    BY <2>1 DEF CancelPos, Joins, Branches, Missing
  <2>2. CASE ~isFalse
    BY <2>2 DEF CancelPos, Joins, Branches, Missing
  <2>3. QED BY <2>1, <2>2
<1> HIDE DEF pos, nb, d
<1>2. /\ pos \in 0 .. 2 /\ q \in Nat
      /\ (q <= nb \/ q + d <= p + nb) /\ (~(d <= p) \/ q + d = p + nb)
  <2>1. CASE pos = 0 /\ nb \in {0, 1} /\ d = nb BY <2>1
  <2>2. CASE pos = 1 /\ nb \in {0, 1} /\ d = nb + 1 BY <2>2
  <2>3. CASE pos = 2 /\ nb = 1 /\ d = 2 BY <2>3
  <2>4. QED BY <1>1, <2>1, <2>2, <2>3
<1> HIDE DEF q
<1>3. \A canceled : Settles(p, d, q, nb, canceled) BY <1>2 DEF Settles
<1>4. QED BY <1>2, <1>3 DEF pos, nb, d, q

(* A choice finds its own frame and leaves its context fit.                   *)
LEMMA ContextCondChoose ==
  ASSUME NEW B, NEW names, Blocky(B, names), NEW c, CtxOK(c, B, names), c.code # << >>,
         Head(c.code).op = "CondChoose"
  PROVE  /\ c.control # << >> /\ Last(c.control).kind = "cond"
         /\ Last(c.control).outArity <= c.arity
         /\ \A isFalse \in BOOLEAN : CtxOK(Chosen(c, isFalse), B, names)
<1> DEFINE f == Last(c.control)
           x == Head(c.code)
           p == Len(c.pending)
<1>1. Fields(c) /\ Fits(c) /\ Runs(c.code, c.control, Len(c.pending), c.canceled, B, names) BY DEF CtxOK
<1>2. IsSeq(c.stack) /\ IsSeq(c.pending) /\ c.spawned \in Nat /\ p \in Nat
  BY <1>1, SeqFacts DEF Fields
<1>3. IsSeq(c.control) /\ IsSeq(c.code) BY <1>1 DEF Runs
<1>4. NodeOK(x, B, names) /\ IsSeq(Tail(c.code)) /\ CodeOK(Tail(c.code), B, names)
  BY <1>1, CodeCut DEF Runs
<1>5. \A b \in B : Sound(b, B, names, FALSE) BY DEF Blocky
<1>6. ASSUME NEW isFalse \in BOOLEAN
      PROVE  Branches(x, isFalse) \in {NoBranch} \cup {<<b>> : b \in B}
  BY <1>4 DEF NodeOK, Branches
<1>7. ASSUME NEW isFalse \in BOOLEAN, NEW q \in Nat,
             Settles(p, Missing(x), q, Joins(Branches(x, isFalse)), c.canceled)
      PROVE  /\ c.control # << >> /\ f.kind = "cond"
             /\ Typed(Taken(Branches(x, isFalse)) \o Tail(c.code), Front(c.control), q, c.canceled)
  <2> DEFINE branch == Branches(x, isFalse)
  <2>1. branch \in {NoBranch} \cup {<<b>> : b \in B} BY <1>6
  <2>2. Settles(p, Missing(Head(c.code)), q, Joins(branch), c.canceled) BY <1>7
  <2> HIDE DEF branch, p
  <2>3. Typed(c.code, c.control, p, c.canceled) BY <1>1 DEF Runs, p
  <2>4. QED BY <2>1, <2>2, <2>3, <1>2, <1>3, <1>5, TypedCondChoose DEF branch
<1>8. c.control # << >> /\ f.kind = "cond"
  <2> DEFINE q == IF CancelPos(x, TRUE) > 0 /\ p - CancelPos(x, TRUE) + 1 > 0 THEN p - 1 ELSE p
  <2>1. q \in Nat /\ Settles(p, Missing(x), q, Joins(Branches(x, TRUE)), c.canceled)
    BY <1>2, ChoiceCounts
  <2> HIDE DEF q
  <2>2. QED BY <2>1, <1>7
<1>9. f.outArity \in Nat /\ f.outArity <= c.arity BY <1>1, <1>3, <1>8, FitsTop
<1>10. ASSUME NEW isFalse \in BOOLEAN PROVE CtxOK(Chosen(c, isFalse), B, names)
  <2> DEFINE pos == CancelPos(x, isFalse)
             i == p - pos + 1
             cancels == pos > 0 /\ i > 0
             q == IF cancels THEN p - 1 ELSE p
             branch == Branches(x, isFalse)
             size == Len(c.stack)
             v == Len(Verdict(c, f))
             d == Chosen(c, isFalse)
  <2>1. pos \in 0 .. 2 /\ q \in Nat /\ Settles(p, Missing(x), q, Joins(branch), c.canceled)
    BY <1>2, ChoiceCounts
  <2>2. Typed(Taken(branch) \o Tail(c.code), Front(c.control), q, c.canceled) BY <2>1, <1>7
  <2>3. /\ d.code = Taken(branch) \o Tail(c.code) /\ d.control = Front(c.control)
        /\ d.pending = (IF cancels THEN Erased(c.pending, i) ELSE c.pending)
        /\ d.stack = SubSeq(c.stack, 1, size - v) /\ d.argPos = c.argPos /\ d.argNum = c.argNum
        /\ d.arity = f.outArity /\ d.spawned = c.spawned
    BY <1>1 DEF Chosen, Popped, Fields, Branches
  <2>4. Moved(c, d) BY <1>1 DEF Chosen, Popped, Fields, Moved
  <2> HIDE DEF d, branch
  <2>5. IsSeq(d.pending) /\ Len(d.pending) = q
    <3>1. CASE cancels
      <4>1. i \in 1 .. p BY <3>1, <2>1, <1>2
      <4> HIDE DEF i
      <4>2. IsSeq(Erased(c.pending, i)) /\ Len(Erased(c.pending, i)) = p - 1
        BY <4>1, <1>2, SeqErase
      <4>3. QED BY <4>2, <3>1, <2>3
    <3>2. CASE ~cancels
      <4> HIDE DEF cancels
      <4>1. QED BY <3>2, <2>3, <1>2
    <3>3. QED BY <3>1, <3>2
  <2> HIDE DEF q, cancels, i, pos, p
  <2>6. size \in Nat /\ c.arity \in Nat /\ c.arity <= size
    <3>1. /\ c.argPos \in Nat /\ c.argNum \in Nat /\ c.arity \in Nat /\ size \in Nat
          /\ c.argPos + c.argNum + c.arity <= size
      BY <1>1, FitsFacts
    <3> HIDE DEF size
    <3>2. QED BY <3>1
  <2> HIDE DEF f
  <2>7. v = c.arity - f.outArity
    <3> DEFINE e == c.arity - f.outArity
    <3>1. e \in Nat /\ e <= size BY <2>6, <1>9
    <3>2. v = Len(SubSeq(c.stack, size - e + 1, size)) BY DEF Verdict
    <3> HIDE DEF e, size
    <3>3. /\ size - e + 1 \in Int /\ size \in Int /\ 1 <= size - e + 1 /\ size <= size
          /\ (IF size - e + 1 <= size THEN size - (size - e + 1) + 1 ELSE 0) = e
      BY <3>1, <2>6
    <3>4. v = e BY <3>2, <3>3, <1>2, SeqPart DEF size
    <3>5. QED BY <3>4 DEF e
  <2> HIDE DEF v
  <2>8. IsSeq(d.stack) /\ Len(d.stack) = size - (c.arity - f.outArity)
    <3> DEFINE e == size - v
    <3>1. e \in Nat /\ e <= size BY <2>6, <2>7, <1>9
    <3>2. d.stack = SubSeq(c.stack, 1, e) BY <2>3
    <3> HIDE DEF e, size
    <3>3. 1 \in Int /\ e \in Int /\ 1 <= 1 /\ (IF 1 <= e THEN e - 1 + 1 ELSE 0) = e BY <3>1
    <3>4. IsSeq(SubSeq(c.stack, 1, e)) /\ Len(SubSeq(c.stack, 1, e)) = e
      <4>1. IsSeq(c.stack) /\ e \in Int /\ e <= Len(c.stack) BY <3>1, <3>3, <1>2 DEF size
      <4>2. QED BY <4>1, <3>3, SeqPart
    <3>5. QED BY <3>2, <3>4, <2>7 DEF e
  <2>9. Fits(d) BY <2>3, <2>8, <1>1, <1>3, <1>8, FitsCondChoose DEF f
  <2>10. Runs(d.code, d.control, Len(d.pending), c.canceled, B, names)
    <3>1. IsSeq(Taken(branch)) /\ CodeOK(Taken(branch), B, names)
      <4>1. branch \in {NoBranch} \cup {<<b>> : b \in B} /\ 0 \in Nat BY <1>6 DEF branch
      <4>2. QED BY <4>1, <1>5, TakenLeads
    <3>2. IsSeq(d.code) /\ CodeOK(d.code, B, names) BY <3>1, <1>4, <2>3, CodeConcat
    <3>3. /\ IsSeq(Front(c.control))
          /\ \A j \in DOMAIN Front(c.control) : FrameOK(Front(c.control)[j], B, names)
      BY <1>1, <1>8, FramesPop DEF Runs
    <3>4. QED BY <3>2, <3>3, <2>2, <2>3, <2>5 DEF Runs
  <2>11. CtxOK(d, B, names) BY <2>3, <2>4, <2>5, <2>8, <2>9, <2>10, <1>2, ContextMoved
  <2>12. QED BY <2>11 DEF d
<1>11. QED BY <1>8, <1>9, <1>10
-----------------------------------------------------------------------------
(* The tree of contexts.  A context is named by the path to it: the tasks     *)
(* below it are those whose paths begin with its own.                         *)

(* The path of a fork.                                                        *)
LEMMA Paths ==
  ASSUME NEW t \in Seq(Nat), NEW k \in Nat
  PROVE  /\ Append(t, k) \in Seq(Nat) /\ Append(t, k) # << >> /\ Append(t, k) # t
         /\ ~ IsPrefix(Append(t, k), t)
         /\ \A v \in Seq(Nat), l \in Nat : Append(t, k) = Append(v, l) => t = v /\ k = l
<1>1. /\ Append(t, k) \in Seq(Nat) /\ Append(t, k) # << >> /\ Len(Append(t, k)) = Len(t) + 1
  BY AppendProperties
<1>2. Len(t) \in Nat BY LenProperties
<1>3. Append(t, k) # t /\ ~(Len(t) + 1 <= Len(t)) BY <1>1, <1>2
<1>4. ~ IsPrefix(Append(t, k), t) BY <1>1, <1>3 DEF IsPrefix
<1>5. \A v \in Seq(Nat), l \in Nat : Append(t, k) = Append(v, l) => t = v /\ k = l
  BY AppendInjective
<1>6. QED BY <1>1, <1>3, <1>4, <1>5

(* What is below a fork is below its parent, or is that fork.                 *)
LEMMA PathsBelow ==
  ASSUME NEW s \in Seq(Nat), NEW k \in Nat, NEW t \in Seq(Nat), NEW l \in Nat,
         IsPrefix(Append(s, k), Append(t, l))
  PROVE  IsPrefix(Append(s, k), t) \/ (s = t /\ k = l)
<1> DEFINE p == Append(s, k)
           w == Append(t, l)
           n == Len(p)
<1>1. p \in Seq(Nat) /\ w \in Seq(Nat) /\ Len(w) = Len(t) + 1 /\ w = t \o <<l>> /\ <<l>> \in Seq(Nat)
  BY AppendProperties, AppendIsConcat
<1>2. n \in Nat /\ n > 0 /\ Len(t) \in Nat BY AppendProperties, LenProperties
<1>3. n <= Len(w) /\ SubSeq(p, 1, n) = SubSeq(w, 1, n) BY DEF IsPrefix
<1>4. SubSeq(p, 1, n) = p BY <1>1, SubSeqFull
<1> HIDE DEF p, w, n
<1>5. CASE n = Len(w)
  <2>1. SubSeq(w, 1, n) = w BY <1>1, <1>5, SubSeqFull
  <2>2. p = w BY <2>1, <1>3, <1>4
  <2>3. s = t /\ k = l BY <2>2, Paths DEF p, w
  <2>4. QED BY <2>3
<1>6. CASE n # Len(w)
  <2>1. n <= Len(t) /\ 1 \in 1 .. Len(t) /\ n \in 1 .. Len(t) BY <1>1, <1>2, <1>3, <1>6
  <2>2. SubSeq(w, 1, n) = SubSeq(t, 1, n) BY <2>1, <1>1, SubSeqOfConcat1
  <2>3. SubSeq(p, 1, n) = SubSeq(t, 1, n) BY <2>2, <1>3
  <2>4. IsPrefix(p, t) BY <2>1, <2>3 DEF IsPrefix, n
  <2>5. QED BY <2>4 DEF p
<1>7. QED BY <1>5, <1>6

(* The pending tasks of a context are forks of its own, each once.            *)
Child(u, t, spawned) == \E k \in Nat : k <= spawned /\ u = Append(t, k)
Kin(pending, spawned, t) ==
  \A i \in 1 .. Len(pending) :
    /\ Child(pending[i], t, spawned)
    /\ \A j \in 1 .. Len(pending) : pending[j] = pending[i] => j = i

(* They exist, and are needed as long as their parent is.                     *)
Needs(x, t) ==
  \A i \in 1 .. Len(x[t].pending) : LET u == x[t].pending[i] IN
    u \in DOMAIN x /\ (~x[t].canceled => ~x[u].canceled)

All(x, B, names) ==
  /\ Main \in DOMAIN x /\ DOMAIN x \subseteq Seq(Nat)
  /\ \A t \in DOMAIN x :
       CtxOK(x[t], B, names) /\ Kin(x[t].pending, x[t].spawned, t) /\ Needs(x, t)

(* The tasks beneath one that runs exist, and none of them has ended.         *)
Stacks(x) ==
  \A t \in DOMAIN x : x[t].status = "running" =>
    \A u \in Range(x[t].below) : u \in DOMAIN x /\ x[u].status # "ended"

(* Nobody starts and nobody ends.                                             *)
LEMMA StacksKept ==
  ASSUME NEW x, Stacks(x), NEW y,
         \A v \in DOMAIN y : y[v].status = "running" =>
           v \in DOMAIN x /\ x[v].status = "running" /\ y[v].below = x[v].below,
         \A v \in DOMAIN x : x[v].status # "ended" => v \in DOMAIN y /\ y[v].status # "ended"
  PROVE  Stacks(y)
<1>1. ASSUME NEW t \in DOMAIN y, y[t].status = "running", NEW u \in Range(y[t].below)
      PROVE  u \in DOMAIN y /\ y[u].status # "ended"
  <2>1. t \in DOMAIN x /\ x[t].status = "running" /\ u \in Range(x[t].below) BY <1>1
  <2>2. u \in DOMAIN x /\ x[u].status # "ended" BY <2>1 DEF Stacks
  <2>3. QED BY <2>2
<1>2. QED BY <1>1 DEF Stacks

(* What is left of a context that is robbed: its code may join more than it   *)
(* has pending.                                                               *)
LooseOK(c, B, names) ==
  Fields(c) /\ Fits(c) /\ Runs(c.code, c.control, Len(c.pending), TRUE, B, names)

(* A context that is not robbed.                                              *)
LEMMA NotRobbed == ASSUME NEW B, NEW names, NEW c, CtxOK(c, B, names) PROVE LooseOK(c, B, names)
<1>1. Fields(c) /\ Fits(c) /\ Runs(c.code, c.control, Len(c.pending), c.canceled, B, names)
  BY DEF CtxOK
<1>2. QED BY <1>1, RunsLoosely DEF LooseOK

(* One that is robbed.                                                        *)
LEMMA RobbedLoose ==
  ASSUME NEW B, NEW names, NEW c, CtxOK(c, B, names), NEW i \in 1 .. Len(c.pending)
  PROVE  LooseOK([c EXCEPT !.pending = Erased(@, i)], B, names)
<1> DEFINE d == [c EXCEPT !.pending = Erased(@, i)]
           p == Len(c.pending)
<1>1. Fields(c) /\ Fits(c) /\ Runs(c.code, c.control, p, c.canceled, B, names) BY DEF CtxOK
<1>2. IsSeq(c.pending) BY <1>1 DEF Fields
<1>3. p \in Nat BY <1>2, SeqFacts
<1>4. IsSeq(Erased(c.pending, i)) /\ Len(Erased(c.pending, i)) = p - 1 BY <1>2, SeqErase
<1>5. /\ d.code = c.code /\ d.control = c.control /\ d.pending = Erased(c.pending, i)
      /\ d.stack = c.stack /\ d.argPos = c.argPos /\ d.argNum = c.argNum /\ d.arity = c.arity
  BY <1>1 DEF Fields
<1>6. /\ d.status = c.status /\ d.ready = c.ready /\ d.canceled = c.canceled
      /\ d.proactive = c.proactive /\ d.spawned = c.spawned /\ d.below = c.below
      /\ DOMAIN d = DOMAIN c
  BY <1>1 DEF Fields
<1> HIDE DEF d
<1>7. Fields(d) BY <1>1, <1>4, <1>5, <1>6 DEF Fields
<1>8. Fits(d) BY <1>1, <1>5 DEF Fits, Now
<1>9. Runs(d.code, d.control, Len(d.pending), TRUE, B, names)
  <2>1. i \in 1 .. p OBVIOUS
  <2> HIDE DEF p
  <2>2. p - 1 \in Nat /\ p - 1 <= p BY <2>1, <1>3
  <2>3. Runs(c.code, c.control, p - 1, TRUE, B, names) BY <2>2, <1>1, <1>3, RunsFewer
  <2>4. QED BY <2>3, <1>4, <1>5
<1>10. LooseOK(d, B, names) BY <1>7, <1>8, <1>9 DEF LooseOK
<1>11. QED BY <1>10 DEF d

(* A context goes on by itself.                                               *)
LEMMA AllAlone ==
  ASSUME NEW B, NEW names, NEW x, All(x, B, names), NEW t \in DOMAIN x, NEW d,
         CtxOK(d, B, names), d.pending = x[t].pending, d.spawned = x[t].spawned,
         d.canceled = x[t].canceled
  PROVE  All([x EXCEPT ![t] = d], B, names)
<1> DEFINE y == [x EXCEPT ![t] = d]
<1>1. DOMAIN y = DOMAIN x /\ y[t] = d /\ \A v \in DOMAIN x : v # t => y[v] = x[v] OBVIOUS
<1> HIDE DEF y
<1>2. \A v \in DOMAIN x : /\ y[v].pending = x[v].pending /\ y[v].spawned = x[v].spawned
                          /\ y[v].canceled = x[v].canceled
  BY <1>1
<1>3. ASSUME NEW v \in DOMAIN x PROVE CtxOK(y[v], B, names) /\ Kin(y[v].pending, y[v].spawned, v) /\ Needs(y, v)
  <2>1. CtxOK(y[v], B, names) BY <1>1 DEF All
  <2>2. Kin(y[v].pending, y[v].spawned, v)
    <3>1. Kin(x[v].pending, x[v].spawned, v) BY DEF All
    <3>2. QED BY <3>1, <1>2
  <2>3. Needs(y, v)
    <3>1. Needs(x, v) BY DEF All
    <3>2. ASSUME NEW i \in 1 .. Len(y[v].pending)
          PROVE  LET u == y[v].pending[i] IN u \in DOMAIN y /\ (~y[v].canceled => ~y[u].canceled)
      <4>1. i \in 1 .. Len(x[v].pending) /\ y[v].pending[i] = x[v].pending[i] BY <1>2
      <4>2. x[v].pending[i] \in DOMAIN x BY <4>1, <3>1 DEF Needs
      <4>3. QED BY <4>1, <4>2, <3>1, <1>1, <1>2 DEF Needs
    <3>3. QED BY <3>2 DEF Needs
  <2>4. QED BY <2>1, <2>2, <2>3
<1>4. All(y, B, names) BY <1>1, <1>3 DEF All
<1>5. QED BY <1>4 DEF y

(* The last pending task is joined, and deleted if it was needed.             *)
Joined(x, y, t, d, R) ==
  /\ R \subseteq {Last(x[t].pending)}
  /\ d.pending = Front(x[t].pending) /\ d.spawned = x[t].spawned /\ d.canceled = x[t].canceled
  /\ DOMAIN y = DOMAIN x \ R /\ (t \in DOMAIN y => y[t] = d)
  /\ \A v \in DOMAIN y : v # t => y[v] = x[v]

(* A join keeps the tree: nobody else has that task pending.                  *)
LEMMA AllJoined ==
  ASSUME NEW B, NEW names, NEW x, All(x, B, names), NEW t \in DOMAIN x, x[t].pending # << >>,
         NEW d, CtxOK(d, B, names), NEW R, NEW y, Joined(x, y, t, d, R)
  PROVE  All(y, B, names)
<1> USE DEF Joined
<1> DEFINE p == x[t].pending
           n == Len(p)
<1>1. IsSeq(p) BY DEF All, CtxOK, Fields
<1>2. n \in Nat /\ n > 0 /\ Len(Front(p)) = n - 1 /\ Last(p) = p[n]
  BY <1>1, SeqFacts, SeqFrontLast
<1>3. \A i \in 1 .. n - 1 : Front(p)[i] = p[i] BY <1>1, SeqFrontLast
<1>4. t \in Seq(Nat) /\ Kin(p, x[t].spawned, t) /\ Needs(x, t) BY DEF All
<1>5. n \in 1 .. n BY <1>2
<1>6. PICK k \in Nat : p[n] = Append(t, k) BY <1>4, <1>5 DEF Kin, Child
<1>7. R \subseteq {Append(t, k)} BY <1>2, <1>6
<1>8. t \in DOMAIN y /\ Main \in DOMAIN y
  <2>1. Append(t, k) # t /\ Append(t, k) # << >> BY <1>4, Paths
  <2>2. QED BY <2>1, <1>7 DEF All, Main
<1>9. DOMAIN y \subseteq Seq(Nat) BY DEF All
<1>10. ASSUME NEW v \in DOMAIN y PROVE y[v].canceled = x[v].canceled /\ v \in DOMAIN x BY <1>8
<1>11. d.pending = Front(p) /\ y[t] = d BY <1>8
<1>12. ASSUME NEW v \in DOMAIN y, v # t PROVE CtxOK(y[v], B, names) /\ Kin(y[v].pending, y[v].spawned, v) /\ Needs(y, v)
  <2>1. y[v] = x[v] /\ v \in DOMAIN x /\ v \in Seq(Nat) BY <1>9, <1>12
  <2>2. CtxOK(x[v], B, names) /\ Kin(x[v].pending, x[v].spawned, v) /\ Needs(x, v) BY <2>1 DEF All
  <2>3. ASSUME NEW i \in 1 .. Len(y[v].pending)
        PROVE  LET u == y[v].pending[i] IN u \in DOMAIN y /\ (~y[v].canceled => ~y[u].canceled)
    <3> DEFINE u == y[v].pending[i]
    <3>1. i \in 1 .. Len(x[v].pending) /\ u = x[v].pending[i] BY <2>1
    <3>2. PICK l \in Nat : u = Append(v, l) BY <3>1, <2>2 DEF Kin, Child
    <3>3. u \in DOMAIN x /\ (~x[v].canceled => ~x[u].canceled) BY <3>1, <2>2 DEF Needs
    <3> HIDE DEF u
    <3>4. u \notin R
      <4>1. Append(v, l) # Append(t, k) BY <2>1, <1>4, <1>12, Paths
      <4>2. QED BY <4>1, <3>2, <1>7
    <3>5. u \in DOMAIN y BY <3>3, <3>4
    <3>6. QED BY <3>3, <3>5, <1>10, <2>1 DEF u
  <2>4. QED BY <2>1, <2>2, <2>3 DEF Needs
<1> HIDE DEF p, n
<1>13. Kin(Front(p), d.spawned, t)
  <2>1. ASSUME NEW i \in 1 .. n - 1
        PROVE  /\ Child(Front(p)[i], t, d.spawned)
               /\ \A j \in 1 .. n - 1 : Front(p)[j] = Front(p)[i] => j = i
    <3>1. i \in 1 .. n /\ \A j \in 1 .. n - 1 : j \in 1 .. n BY <1>2
    <3>2. Child(p[i], t, d.spawned) BY <3>1, <1>4 DEF Kin, n
    <3>3. \A j \in 1 .. n : p[j] = p[i] => j = i BY <3>1, <1>4 DEF Kin, n
    <3>4. QED BY <3>1, <3>2, <3>3, <1>3
  <2>2. QED BY <2>1, <1>2 DEF Kin
<1>14. Needs(y, t)
  <2>1. ASSUME NEW i \in 1 .. n - 1
        PROVE  p[i] \in DOMAIN y /\ (~y[t].canceled => ~y[p[i]].canceled)
    <3>1. i \in 1 .. n /\ i # n BY <1>2
    <3>2. p[i] # p[n] BY <3>1, <1>4, <1>5 DEF Kin, n
    <3>3. p[i] \in DOMAIN x /\ (~x[t].canceled => ~x[p[i]].canceled)
      BY <3>1, <1>4 DEF Needs, p, n
    <3>4. p[i] \in DOMAIN y BY <3>2, <3>3, <1>6, <1>7
    <3>5. QED BY <3>3, <3>4, <1>8, <1>10
  <2>2. Len(y[t].pending) = n - 1 /\ \A i \in 1 .. n - 1 : y[t].pending[i] = p[i]
    BY <1>2, <1>3, <1>11
  <2>3. QED BY <2>1, <2>2 DEF Needs
<1>15. QED BY <1>8, <1>9, <1>11, <1>12, <1>13, <1>14 DEF All

(* New tasks are forked.                                                      *)
Grown(x, y, t, d, kids) ==
  /\ \A i \in 1 .. Len(kids) : kids[i] = Append(t, x[t].spawned + i)
  /\ d.pending = x[t].pending \o kids /\ d.spawned = x[t].spawned + Len(kids)
  /\ d.canceled = x[t].canceled
  /\ DOMAIN y = DOMAIN x \cup Range(kids) /\ (t \notin Range(kids) => y[t] = d)
  /\ \A v \in DOMAIN y : v # t /\ v \notin Range(kids) => y[v] = x[v]
Fresh(y, kids, B, names) ==
  \A u \in Range(kids) : CtxOK(y[u], B, names) /\ y[u].pending = << >> /\ ~y[u].canceled

(* Forking keeps the tree: the new paths are used by nobody.                  *)
LEMMA AllForked ==
  ASSUME NEW B, NEW names, NEW x, All(x, B, names), NEW t \in DOMAIN x,
         NEW kids, IsSeq(kids), NEW d, CtxOK(d, B, names), NEW y,
         Grown(x, y, t, d, kids), Fresh(y, kids, B, names)
  PROVE  All(y, B, names)
<1> USE DEF Grown, Fresh
<1> DEFINE p == x[t].pending
           n == Len(p)
           s == x[t].spawned
           m == Len(kids)
           K == Range(kids)
<1>1. IsSeq(p) /\ s \in Nat BY DEF All, CtxOK, Fields
<1>2. n \in Nat /\ m \in Nat BY <1>1, SeqFacts
<1>3. t \in Seq(Nat) /\ Kin(p, s, t) /\ Needs(x, t) BY DEF All
<1>4. DOMAIN kids = 1 .. m BY SeqFacts
<1>5. \A i \in 1 .. m : kids[i] = Append(t, s + i) /\ s + i \in Nat /\ kids[i] \in K
  <2>1. \A i \in 1 .. m : s + i \in Nat BY <1>1, <1>2
  <2>2. QED BY <2>1, <1>4 DEF Range
<1>6. ASSUME NEW u \in K PROVE \E i \in 1 .. m : u = Append(t, s + i) /\ s + i \in Nat
  <2>1. PICK i \in DOMAIN kids : u = kids[i] BY DEF Range
  <2>2. QED BY <2>1, <1>4, <1>5
<1>7. /\ IsSeq(d.pending) /\ Len(d.pending) = n + m
      /\ \A i \in 1 .. n + m : d.pending[i] = IF i <= n THEN p[i] ELSE kids[i - n]
  BY <1>1, SeqConcat
<1>8. d.spawned = s + m OBVIOUS
<1> HIDE DEF p, n, s, m, K
<1>9. t \notin K /\ Main \notin K
  <2>1. ASSUME NEW i \in 1 .. m, s + i \in Nat
        PROVE  Append(t, s + i) # t /\ Append(t, s + i) # << >>
    BY <2>1, <1>3, Paths
  <2>2. QED BY <2>1, <1>6 DEF Main
<1>10. y[t] = d /\ t \in DOMAIN y /\ Main \in DOMAIN y BY <1>9 DEF All, K
<1>11. DOMAIN y \subseteq Seq(Nat)
  <2>1. ASSUME NEW u \in K PROVE u \in Seq(Nat)
    <3>1. PICK i \in 1 .. m : u = Append(t, s + i) /\ s + i \in Nat BY <1>6
    <3>2. QED BY <3>1, <1>3, Paths
  <2>2. QED BY <2>1 DEF All, K
<1>12. ASSUME NEW v \in DOMAIN x, v \notin K PROVE y[v].canceled = x[v].canceled /\ v \in DOMAIN y
  BY <1>12, <1>10 DEF K
<1>13. ASSUME NEW v \in Seq(Nat), NEW l \in Nat, v # t PROVE Append(v, l) \notin K
  <2>1. ASSUME Append(v, l) \in K PROVE FALSE
    <3>1. PICK i \in 1 .. m : Append(v, l) = Append(t, s + i) /\ s + i \in Nat BY <2>1, <1>6
    <3>2. v = t BY <3>1, <1>3, Paths
    <3>3. QED BY <3>2, <1>13
  <2>2. QED BY <2>1
<1>14. ASSUME NEW i \in 1 .. n
       PROVE  /\ p[i] \in DOMAIN x /\ p[i] \notin K /\ (~x[t].canceled => ~x[p[i]].canceled)
              /\ Child(p[i], t, s) /\ \A j \in 1 .. n : p[j] = p[i] => j = i
  <2>1. PICK l \in Nat : l <= s /\ p[i] = Append(t, l) BY <1>3 DEF Kin, Child, n
  <2>2. p[i] \notin K
    <3>1. ASSUME p[i] \in K PROVE FALSE
      <4>1. PICK j \in 1 .. m : Append(t, l) = Append(t, s + j) /\ s + j \in Nat BY <3>1, <2>1, <1>6
      <4>2. l = s + j BY <4>1, <1>3, Paths
      <4>3. QED BY <4>2, <2>1, <1>1
    <3>2. QED BY <3>1
  <2>3. p[i] \in DOMAIN x /\ (~x[t].canceled => ~x[p[i]].canceled) BY <1>3 DEF Needs, n, p
  <2>4. QED BY <2>2, <2>3, <1>3 DEF Kin, n
<1>15. ASSUME NEW v \in DOMAIN y, v \notin K, v # t
       PROVE  CtxOK(y[v], B, names) /\ Kin(y[v].pending, y[v].spawned, v) /\ Needs(y, v)
  <2>1. y[v] = x[v] /\ v \in DOMAIN x /\ v \in Seq(Nat) BY <1>11, <1>15 DEF K
  <2>2. CtxOK(x[v], B, names) /\ Kin(x[v].pending, x[v].spawned, v) /\ Needs(x, v) BY <2>1 DEF All
  <2>3. ASSUME NEW i \in 1 .. Len(y[v].pending)
        PROVE  LET u == y[v].pending[i] IN u \in DOMAIN y /\ (~y[v].canceled => ~y[u].canceled)
    <3> DEFINE u == y[v].pending[i]
    <3>1. i \in 1 .. Len(x[v].pending) /\ u = x[v].pending[i] BY <2>1
    <3>2. PICK l \in Nat : u = Append(v, l) BY <3>1, <2>2 DEF Kin, Child
    <3>3. u \in DOMAIN x /\ (~x[v].canceled => ~x[u].canceled) BY <3>1, <2>2 DEF Needs
    <3> HIDE DEF u
    <3>4. u \notin K BY <3>2, <2>1, <1>13, <1>15
    <3>5. QED BY <3>3, <3>4, <1>12, <2>1 DEF u
  <2>4. QED BY <2>1, <2>2, <2>3 DEF Needs
<1>16. ASSUME NEW v \in K
       PROVE  CtxOK(y[v], B, names) /\ Kin(y[v].pending, y[v].spawned, v) /\ Needs(y, v)
  <2>1. CtxOK(y[v], B, names) /\ y[v].pending = << >> BY DEF K
  <2>2. Len(y[v].pending) = 0 BY <2>1, SeqNone
  <2>3. Kin(y[v].pending, y[v].spawned, v)
    <3> DEFINE q == y[v].pending
    <3>1. Len(q) = 0 BY <2>2
    <3> HIDE DEF q
    <3>2. Kin(q, y[v].spawned, v) BY <3>1 DEF Kin
    <3>3. QED BY <3>2 DEF q
  <2>4. Needs(y, v) BY <2>2 DEF Needs
  <2>5. QED BY <2>1, <2>3, <2>4
<1> HIDE DEF Grown, Fresh
<1>17. Kin(d.pending, d.spawned, t)
  <2>1. ASSUME NEW i \in 1 .. n PROVE Child(p[i], t, s + m)
    <3>1. PICK l \in Nat : l <= s /\ p[i] = Append(t, l) BY <1>14 DEF Child
    <3>2. l <= s + m BY <3>1, <1>1, <1>2
    <3>3. QED BY <3>1, <3>2 DEF Child
  <2>2. ASSUME NEW i \in 1 .. m PROVE Child(kids[i], t, s + m)
    <3>1. s + i <= s + m BY <1>1, <1>2
    <3>2. QED BY <3>1, <1>5 DEF Child
  <2>3. ASSUME NEW i \in 1 .. m, NEW j \in 1 .. m, kids[i] = kids[j] PROVE i = j
    <3>1. Append(t, s + i) = Append(t, s + j) /\ s + i \in Nat /\ s + j \in Nat BY <2>3, <1>5
    <3>2. s + i = s + j BY <3>1, <1>3, Paths
    <3>3. QED BY <3>2, <1>1
  <2>4. ASSUME NEW i \in 1 .. n, NEW j \in 1 .. m PROVE p[i] # kids[j] BY <1>5, <1>14
  <2>5. ASSUME NEW i \in 1 .. n + m
        PROVE  /\ Child(d.pending[i], t, s + m)
               /\ \A j \in 1 .. n + m : d.pending[j] = d.pending[i] => j = i
    <3>1. CASE i <= n
      <4>1. i \in 1 .. n /\ d.pending[i] = p[i] BY <3>1, <1>7
      <4>2. ASSUME NEW j \in 1 .. n + m, d.pending[j] = d.pending[i] PROVE j = i
        <5>1. CASE j <= n
          <6>1. j \in 1 .. n /\ d.pending[j] = p[j] BY <5>1, <1>7
          <6>2. QED BY <6>1, <4>1, <4>2, <1>14
        <5>2. CASE ~(j <= n)
          <6>1. j - n \in 1 .. m BY <5>2, <1>2
          <6>2. d.pending[j] = kids[j - n] BY <5>2, <1>7
          <6>3. QED BY <6>1, <6>2, <4>1, <4>2, <2>4
        <5>3. QED BY <5>1, <5>2
      <4>3. QED BY <4>1, <4>2, <2>1
    <3>2. CASE ~(i <= n)
      <4>1. i - n \in 1 .. m /\ d.pending[i] = kids[i - n]
        <5>1. i - n \in 1 .. m BY <3>2, <1>2
        <5>2. d.pending[i] = kids[i - n] BY <3>2, <1>7
        <5>3. QED BY <5>1, <5>2
      <4>2. ASSUME NEW j \in 1 .. n + m, d.pending[j] = d.pending[i] PROVE j = i
        <5>1. CASE j <= n
          <6>1. j \in 1 .. n /\ d.pending[j] = p[j] BY <5>1, <1>7
          <6>2. QED BY <6>1, <4>1, <4>2, <2>4
        <5>2. CASE ~(j <= n)
          <6>1. j - n \in 1 .. m /\ d.pending[j] = kids[j - n]
            <7>1. j - n \in 1 .. m BY <5>2, <1>2
            <7>2. d.pending[j] = kids[j - n] BY <5>2, <1>7
            <7>3. QED BY <7>1, <7>2
          <6>2. j - n = i - n BY <6>1, <4>1, <4>2, <2>3
          <6>3. QED BY <6>2, <1>2
        <5>3. QED BY <5>1, <5>2
      <4>3. QED BY <4>1, <4>2, <2>2
    <3>3. QED BY <3>1, <3>2
  <2>6. QED BY <2>5, <1>7, <1>8 DEF Kin
<1>18. Needs(y, t)
  <2>1. ASSUME NEW i \in 1 .. n + m
        PROVE  d.pending[i] \in DOMAIN y /\ (~d.canceled => ~y[d.pending[i]].canceled)
    <3>1. CASE i <= n
      <4>1. i \in 1 .. n /\ d.pending[i] = p[i] BY <3>1, <1>7
      <4>2. QED BY <4>1, <1>12, <1>14 DEF Grown
    <3>2. CASE ~(i <= n)
      <4>1. i - n \in 1 .. m /\ d.pending[i] = kids[i - n]
        <5>1. i - n \in 1 .. m BY <3>2, <1>2
        <5>2. d.pending[i] = kids[i - n] BY <3>2, <1>7
        <5>3. QED BY <5>1, <5>2
      <4>2. kids[i - n] \in K BY <4>1, <1>5
      <4>3. QED BY <4>1, <4>2 DEF K, Fresh, Grown
    <3>3. QED BY <3>1, <3>2
  <2>2. QED BY <2>1, <1>7, <1>10 DEF Needs
<1>19. CtxOK(y[t], B, names) /\ Kin(y[t].pending, y[t].spawned, t) BY <1>10, <1>17
<1>20. QED BY <1>10, <1>11, <1>15, <1>16, <1>18, <1>19 DEF All

(* A canceled context is otherwise as it was.                                 *)
LEMMA CanceledKeeps == ASSUME NEW c, Fields(c)
  PROVE  /\ Canceled(c).pending = c.pending /\ Canceled(c).spawned = c.spawned
         /\ Canceled(c).canceled
BY DEF Canceled, Fields

(* One pending task is taken out, and it and all below it are canceled.       *)
LEMMA AllCanceled ==
  ASSUME NEW B, NEW names, NEW x, All(x, B, names), NEW t \in DOMAIN x,
         NEW i \in 1 .. Len(x[t].pending), NEW d, CtxOK(d, B, names),
         d.pending = Erased(x[t].pending, i), d.spawned = x[t].spawned,
         d.canceled = x[t].canceled,
         NEW y, DOMAIN y = DOMAIN x, y[t] = d,
         \A v \in DOMAIN x : v # t =>
           y[v] = IF IsPrefix(x[t].pending[i], v) THEN Canceled(x[v]) ELSE x[v]
  PROVE  All(y, B, names)
<1> DEFINE p == x[t].pending
           n == Len(p)
<1>1. IsSeq(p) BY DEF All, CtxOK, Fields
<1>2. n \in Nat /\ i \in 1 .. n BY <1>1, SeqFacts
<1>3. t \in Seq(Nat) /\ Kin(p, x[t].spawned, t) /\ Needs(x, t) BY DEF All
<1>4. PICK k \in Nat : p[i] = Append(t, k) BY <1>3 DEF Kin, Child
<1>5. /\ Len(d.pending) = n - 1
      /\ \A j \in 1 .. n - 1 : d.pending[j] = IF j < i THEN p[j] ELSE p[j + 1]
  <2>1. d.pending = Erased(p, i) OBVIOUS
  <2> HIDE DEF p
  <2>2. i \in 1 .. Len(p) BY <1>2
  <2>3. QED BY <2>1, <2>2, <1>1, SeqErase
<1>6. ASSUME NEW v \in DOMAIN x, v # t
      PROVE  /\ IsPrefix(p[i], v) => y[v] = Canceled(x[v])
             /\ ~IsPrefix(p[i], v) => y[v] = x[v]
  BY <1>6
<1> HIDE DEF p, n
<1>7. ASSUME NEW c, CtxOK(c, B, names)
      PROVE  /\ Canceled(c).pending = c.pending /\ Canceled(c).spawned = c.spawned
             /\ Canceled(c).canceled
  BY <1>7, CanceledKeeps DEF CtxOK
<1>8. ASSUME NEW v \in DOMAIN x
      PROVE  /\ ~y[v].canceled => ~x[v].canceled /\ ~IsPrefix(p[i], v)
             /\ ~x[v].canceled /\ ~IsPrefix(p[i], v) => ~y[v].canceled
  <2>1. CASE v = t
    <3>1. ~IsPrefix(p[i], t) BY <1>3, <1>4, Paths
    <3>2. QED BY <2>1, <3>1
  <2>2. CASE v # t /\ IsPrefix(p[i], v)
    <3>1. CtxOK(x[v], B, names) BY DEF All
    <3>2. y[v].canceled BY <2>2, <3>1, <1>6, <1>7
    <3>3. QED BY <2>2, <3>2
  <2>3. CASE v # t /\ ~IsPrefix(p[i], v) BY <2>3, <1>6
  <2>4. QED BY <2>1, <2>2, <2>3
<1>9. ASSUME NEW v \in DOMAIN x, v # t
      PROVE  CtxOK(y[v], B, names) /\ Kin(y[v].pending, y[v].spawned, v) /\ Needs(y, v)
  <2>1. CtxOK(x[v], B, names) /\ Kin(x[v].pending, x[v].spawned, v) /\ Needs(x, v) /\ v \in Seq(Nat)
    BY DEF All
  <2>2. CtxOK(Canceled(x[v]), B, names) BY <2>1, ContextStatus
  <2>3. CtxOK(y[v], B, names) BY <1>6, <1>9, <2>1, <2>2
  <2>4. y[v].pending = x[v].pending /\ y[v].spawned = x[v].spawned BY <1>6, <1>7, <1>9, <2>1
  <2>5. ASSUME NEW j \in 1 .. Len(x[v].pending)
        PROVE  LET u == x[v].pending[j] IN u \in DOMAIN x /\ (~y[v].canceled => ~y[u].canceled)
    <3> DEFINE u == x[v].pending[j]
    <3>1. PICK l \in Nat : u = Append(v, l) BY <2>1 DEF Kin, Child
    <3>2. u \in DOMAIN x /\ (~x[v].canceled => ~x[u].canceled) BY <2>1 DEF Needs
    <3> HIDE DEF u
    <3>3. ASSUME ~y[v].canceled PROVE ~y[u].canceled
      <4>1. ~x[v].canceled /\ ~IsPrefix(p[i], v) BY <3>3, <1>8
      <4>2. ~IsPrefix(p[i], u)
        <5>1. ASSUME IsPrefix(Append(t, k), Append(v, l)) PROVE FALSE
          <6>1. IsPrefix(Append(t, k), v) \/ (t = v /\ k = l) BY <5>1, <2>1, <1>3, PathsBelow
          <6>2. QED BY <6>1, <4>1, <1>4, <1>9
        <5>2. QED BY <5>1, <3>1, <1>4
      <4>3. QED BY <4>1, <4>2, <3>2, <1>8
    <3>4. QED BY <3>2, <3>3 DEF u
  <2>6. Needs(y, v) BY <2>4, <2>5 DEF Needs
  <2>7. QED BY <2>1, <2>3, <2>4, <2>6
<1>10. ASSUME NEW j \in 1 .. n - 1
       PROVE  \E h \in 1 .. n : h # i /\ d.pending[j] = p[h] /\ h = IF j < i THEN j ELSE j + 1
  <2>1. CASE j < i
    <3>1. j \in 1 .. n /\ j # i BY <2>1, <1>2
    <3>2. QED BY <2>1, <3>1, <1>5
  <2>2. CASE ~(j < i)
    <3>1. j + 1 \in 1 .. n /\ j + 1 # i BY <2>2, <1>2
    <3>2. QED BY <2>2, <3>1, <1>5
  <2>3. QED BY <2>1, <2>2
<1>11. ASSUME NEW h \in 1 .. n
       PROVE  /\ Child(p[h], t, x[t].spawned) /\ p[h] \in DOMAIN x
              /\ ~x[t].canceled => ~x[p[h]].canceled
              /\ \A j \in 1 .. n : p[j] = p[h] => j = h
  BY <1>3 DEF Kin, Needs, n, p
<1>12. Kin(d.pending, d.spawned, t)
  <2>1. ASSUME NEW j \in 1 .. n - 1, NEW l \in 1 .. n - 1, d.pending[l] = d.pending[j] PROVE l = j
    <3>1. PICK h \in 1 .. n : d.pending[j] = p[h] /\ h = IF j < i THEN j ELSE j + 1 BY <1>10
    <3>2. PICK g \in 1 .. n : d.pending[l] = p[g] /\ g = IF l < i THEN l ELSE l + 1 BY <1>10
    <3>3. g = h BY <2>1, <3>1, <3>2, <1>11
    <3>4. QED BY <3>1, <3>2, <3>3
  <2>2. ASSUME NEW j \in 1 .. n - 1 PROVE Child(d.pending[j], t, d.spawned) BY <1>10, <1>11
  <2>3. QED BY <2>1, <2>2, <1>5 DEF Kin
<1>13. Needs(y, t)
  <2>1. ASSUME NEW j \in 1 .. n - 1
        PROVE  d.pending[j] \in DOMAIN x /\ (~d.canceled => ~y[d.pending[j]].canceled)
    <3>1. PICK h \in 1 .. n : h # i /\ d.pending[j] = p[h] BY <1>10
    <3>2. PICK l \in Nat : p[h] = Append(t, l) BY <1>11 DEF Child
    <3>3. p[h] # p[i] BY <3>1, <1>2, <1>11
    <3>4. ~IsPrefix(p[i], p[h])
      <4>1. ASSUME IsPrefix(Append(t, k), Append(t, l)) PROVE FALSE
        <5>1. IsPrefix(Append(t, k), t) \/ (t = t /\ k = l) BY <4>1, <1>3, PathsBelow
        <5>2. ~IsPrefix(Append(t, k), t) BY <1>3, Paths
        <5>3. QED BY <5>1, <5>2, <3>2, <3>3, <1>4
      <4>2. QED BY <4>1, <3>2, <1>4
    <3>5. p[h] \in DOMAIN x /\ (~x[t].canceled => ~x[p[h]].canceled) BY <1>11
    <3>6. QED BY <3>1, <3>4, <3>5, <1>8
  <2>2. QED BY <2>1, <1>5 DEF Needs
<1>14. CtxOK(y[t], B, names) /\ Kin(y[t].pending, y[t].spawned, t) BY <1>12
<1>15. Main \in DOMAIN y /\ DOMAIN y \subseteq Seq(Nat) BY DEF All
<1>16. QED BY <1>9, <1>13, <1>14, <1>15 DEF All
-----------------------------------------------------------------------------
(* The whole machine.                                                         *)
Blocks == Range(Spans(program, proactive))
Names  == DOMAIN program.functions

(* Until a task is robbed.                                                    *)
Sane ==
  /\ program \in Programs /\ proactive \in BOOLEAN
  /\ thrower \subseteq DOMAIN ctx /\ robbed = {}
  /\ All(ctx, Blocks, Names) /\ Stacks(ctx)

(* And always.                                                                *)
IInv ==
  /\ program \in Programs /\ proactive \in BOOLEAN
  /\ Main \in DOMAIN ctx /\ thrower \cup robbed \subseteq DOMAIN ctx
  /\ \A t \in DOMAIN ctx : LooseOK(ctx[t], Blocks, Names)
  /\ robbed = {} => Sane

(* A function of the library pushes a tuple of values or throws.              *)
LibraryPushesTuples ==
  \A fn, args : IsSeq(args) => Apply(fn, args) = Fault \/ IsSeq(Apply(fn, args))

(* The code the generator made: what is proved of it in GeneratorProofs.      *)
LEMMA InternalCode ==
  ASSUME program \in Programs, proactive \in BOOLEAN
  PROVE  /\ Blocky(Blocks, Names) /\ Internal.main \in Blocks
         /\ \A name \in Names : \E b \in Blocks : Internal.functions[name] = b \o <<Ret>>
<1> DEFINE span == Spans(program, proactive)
<1>1. WellBuilt(program) BY InternalFormAssumption
<1>2. \A i \in DOMAIN program.nodes : Sound(span[i], Blocks, Names, FALSE)
  BY <1>1, SpansSound DEF Blocks, Names
<1>3. DOMAIN span = DOMAIN program.nodes
  <2>1. PICK long, link : span = [i \in DOMAIN program.nodes |-> Framed(program.nodes[i], link[i])]
    BY <1>1, SpansEquation
  <2>2. QED BY <2>1
<1>4. Internal = Generate(program, proactive) BY DEF Internal, Compiled
<1>5. /\ Internal.main = span[program.main]
      /\ \A name \in Names : Internal.functions[name] = span[program.functions[name]] \o <<Ret>>
  BY <1>4 DEF Generate, Names
<1>6. /\ program.main \in DOMAIN program.nodes
      /\ \A name \in Names : program.functions[name] \in DOMAIN program.nodes
  BY <1>1 DEF WellBuilt, Names
<1> HIDE DEF span
<1>7. \A i \in DOMAIN program.nodes : span[i] \in Blocks BY <1>3 DEF Blocks, Range, span
<1>8. Blocky(Blocks, Names)
  <2>1. ASSUME NEW b \in Blocks PROVE Sound(b, Blocks, Names, FALSE)
    <3>1. PICK i \in DOMAIN span : b = span[i] BY DEF Blocks, Range, span
    <3>2. QED BY <3>1, <1>2, <1>3
  <2>2. QED BY <2>1 DEF Blocky
<1>9. QED BY <1>5, <1>6, <1>7, <1>8

(* The arguments of a context.                                                *)
LEMMA ArgumentsPart ==
  ASSUME NEW c, Fits(c), IsSeq(c.stack)
  PROVE  IsSeq(Arguments(c)) /\ Len(Arguments(c)) = c.argNum
<1> DEFINE size == Len(c.stack)
           m == c.argPos + 1
           n == c.argPos + c.argNum
<1>1. /\ c.argPos \in Nat /\ c.argNum \in Nat /\ c.arity \in Nat /\ size \in Nat
      /\ c.argPos + c.argNum + c.arity <= size
  BY FitsFacts
<1> HIDE DEF size
<1>2. /\ m \in Int /\ n \in Int /\ 1 <= m /\ n <= size
      /\ (IF m <= n THEN n - m + 1 ELSE 0) = c.argNum
  BY <1>1
<1>3. Arguments(c) = SubSeq(c.stack, m, n) BY DEF Arguments
<1> HIDE DEF m, n
<1>4. IsSeq(SubSeq(c.stack, m, n)) /\ Len(SubSeq(c.stack, m, n)) = c.argNum
  BY <1>2, SeqPart DEF size
<1>5. QED BY <1>3, <1>4

(* GetArg.                                                                    *)
LEMMA TakePart ==
  ASSUME NEW c, Fits(c), IsSeq(c.stack), NEW from \in Int, NEW to \in Int
  PROVE  Take(c, from, to) = Fault \/ IsSeq(Take(c, from, to))
<1> DEFINE first == SizeT(from, c.argNum)
           last == SizeT(to, c.argNum)
           args == Arguments(c)
<1>1. IsSeq(args) /\ Len(args) = c.argNum BY ArgumentsPart
<1>2. c.argNum \in Nat BY FitsFacts
<1>3. SizeRange \in Nat /\ SizeRange > 0 BY InternalFormAssumption
<1>4. \A i \in Int : SizeT(i, c.argNum) \in Nat
  <2>1. ASSUME NEW i \in Int PROVE (IF i < 0 THEN c.argNum + i ELSE i - 1) \in Int BY <1>2
  <2>2. ASSUME NEW a \in Int PROVE a % SizeRange \in Nat BY <1>3
  <2>3. QED BY <2>1, <2>2 DEF SizeT
<1>5. first \in Nat /\ last \in Nat BY <1>4
<1>6. Take(c, from, to) = IF first > last THEN << >>
                          ELSE IF last >= c.argNum THEN Fault
                          ELSE SubSeq(args, first + 1, last + 1)
  BY DEF Take
<1> HIDE DEF first, last, args
<1>7. ASSUME ~(last >= c.argNum) PROVE IsSeq(SubSeq(args, first + 1, last + 1))
  <2> DEFINE m == first + 1
             n == last + 1
  <2>1. m \in Int /\ n \in Int /\ 1 <= m /\ n <= c.argNum BY <1>2, <1>5, <1>7
  <2> HIDE DEF m, n
  <2>2. IsSeq(SubSeq(args, m, n)) BY <2>1, <1>1, SeqPart
  <2>3. QED BY <2>2 DEF m, n
<1>8. QED BY <1>6, <1>7, SeqNone

(* The forks of a node.                                                       *)
LEMMA KidsAre ==
  ASSUME NEW t \in Seq(Nat), NEW s \in Nat, NEW forks, IsSeq(forks),
         NEW kids, kids = [k \in DOMAIN forks |-> Append(t, s + k)]
  PROVE  /\ IsSeq(kids) /\ Len(kids) = Len(forks)
         /\ \A k \in 1 .. Len(kids) : kids[k] = Append(t, s + k)
         /\ \A u \in Range(kids) : Last(u) - s \in DOMAIN forks
<1> DEFINE n == Len(forks)
<1>1. n \in Nat /\ DOMAIN forks = 1 .. n BY SeqFacts
<1> HIDE DEF n
<1>2. \A k \in 1 .. n : Append(t, s + k) \in Seq(Nat)
  <2>1. \A k \in 1 .. n : s + k \in Nat BY <1>1
  <2>2. QED BY <2>1, AppendProperties
<1>3. kids \in [1 .. n -> Seq(Nat)] /\ \A k \in 1 .. n : kids[k] = Append(t, s + k) BY <1>1, <1>2
<1>4. kids \in Seq(Seq(Nat)) /\ Len(kids) = n BY <1>1, <1>3
<1>5. IsSeq(kids) BY <1>4, SeqIs
<1>6. ASSUME NEW u \in Range(kids) PROVE Last(u) - s \in 1 .. n
  <2>1. PICK k \in 1 .. n : u = Append(t, s + k) BY <1>1, <1>3 DEF Range
  <2>2. s + k \in Nat BY <1>1
  <2>3. Len(u) = Len(t) + 1 /\ u[Len(t) + 1] = s + k BY <2>1, <2>2, AppendProperties
  <2>4. Last(u) = s + k BY <2>3 DEF Last
  <2>5. QED BY <2>4
<1>7. QED BY <1>1, <1>3, <1>4, <1>5, <1>6 DEF n
-----------------------------------------------------------------------------
(* The steps.                                                                 *)
Kept ==
  /\ All(ctx', Blocks, Names) /\ Stacks(ctx')
  /\ thrower' \subseteq DOMAIN ctx' /\ robbed' = {}

(* The first context.                                                         *)
LEMMA Begins == Init => Sane
<1> SUFFICES ASSUME Init PROVE Sane OBVIOUS
<1> DEFINE c == NewContext(Internal.main, << >>, FALSE)
<1>1. program \in Programs /\ proactive \in BOOLEAN /\ thrower = {} /\ robbed = {} BY DEF Init
<1>2. ctx = [t \in {Main} |-> c] BY DEF Init
<1>3. Blocky(Blocks, Names) /\ Internal.main \in Blocks BY <1>1, InternalCode
<1>4. CtxOK(c, Blocks, Names) BY <1>3, SeqNone, ContextNew
<1>5. c.pending = << >> /\ c.status = "queued" BY DEF NewContext
<1> HIDE DEF c
<1>6. DOMAIN ctx = {Main} /\ ctx[Main] = c BY <1>2
<1>7. Main \in Seq(Nat) BY EmptySeq DEF Main
<1>8. 1 .. Len(c.pending) = {} BY <1>5, SeqNone
<1>9. Kin(c.pending, c.spawned, Main) /\ Needs(ctx, Main) BY <1>6, <1>8 DEF Kin, Needs
<1>10. All(ctx, Blocks, Names) BY <1>4, <1>6, <1>7, <1>9 DEF All
<1>11. Stacks(ctx) BY <1>5, <1>6 DEF Stacks
<1>12. QED BY <1>1, <1>10, <1>11 DEF Sane

(* The context that takes a step.                                             *)
LEMMA Steps ==
  ASSUME Sane, NEW t \in DOMAIN ctx
  PROVE  /\ CtxOK(ctx[t], Blocks, Names) /\ Blocky(Blocks, Names) /\ Fits(ctx[t])
         /\ Fields(ctx[t]) /\ IsSeq(ctx[t].code) /\ CodeOK(ctx[t].code, Blocks, Names)
         /\ t \in Seq(Nat) /\ Kin(ctx[t].pending, ctx[t].spawned, t) /\ Needs(ctx, t)
         /\ \A op : At(t, op) =>
              /\ thrower = {} /\ ctx[t].status = "running"
              /\ ctx[t].code # << >> /\ Head(ctx[t].code).op = op
<1>1. CtxOK(ctx[t], Blocks, Names) /\ t \in Seq(Nat)
      /\ Kin(ctx[t].pending, ctx[t].spawned, t) /\ Needs(ctx, t)
  BY DEF Sane, All
<1>2. Blocky(Blocks, Names) BY InternalCode DEF Sane
<1>3. /\ Fits(ctx[t]) /\ Fields(ctx[t]) /\ IsSeq(ctx[t].code)
      /\ CodeOK(ctx[t].code, Blocks, Names)
  BY <1>1 DEF CtxOK, Runs
<1>4. \A op : At(t, op) =>
        /\ thrower = {} /\ ctx[t].status = "running"
        /\ ctx[t].code # << >> /\ Head(ctx[t].code).op = op
  BY DEF At, Active, Over, Node
<1>5. QED BY <1>1, <1>2, <1>3, <1>4

(* One context goes on.                                                       *)
LEMMA GoesOn ==
  ASSUME Sane, NEW t \in DOMAIN ctx, NEW d, CtxOK(d, Blocks, Names), thrower = {},
         d.pending = ctx[t].pending, d.spawned = ctx[t].spawned,
         d.canceled = ctx[t].canceled, d.status = ctx[t].status, d.below = ctx[t].below,
         Goto(t, d)
  PROVE  Kept
<1>1. All(ctx, Blocks, Names) /\ Stacks(ctx) /\ robbed = {} BY DEF Sane
<1>2. All([ctx EXCEPT ![t] = d], Blocks, Names) BY <1>1, AllAlone
<1>3. ctx' = [ctx EXCEPT ![t] = d] /\ thrower' = {} /\ robbed' = {} BY <1>1 DEF Goto
<1>4. DOMAIN ctx' = DOMAIN ctx /\ ctx'[t] = d /\ \A v \in DOMAIN ctx : v # t => ctx'[v] = ctx[v]
  BY <1>3
<1>5. \A v \in DOMAIN ctx : ctx'[v].status = ctx[v].status /\ ctx'[v].below = ctx[v].below
  BY <1>4
<1>6. Stacks(ctx') BY <1>1, <1>4, <1>5, StacksKept
<1>7. QED BY <1>2, <1>3, <1>6 DEF Kept

(* What an element more adds.                                                 *)
LEMMA RangeAppend == ASSUME NEW s, IsSeq(s), NEW e PROVE Range(Append(s, e)) \subseteq Range(s) \cup {e}
<1> DEFINE r == Append(s, e)
           n == Len(s)
<1>1. n \in Nat /\ DOMAIN s = 1 .. n BY SeqFacts
<1>2. IsSeq(r) /\ Len(r) = n + 1 /\ r[n + 1] = e /\ \A i \in 1 .. n : r[i] = s[i] BY SeqAppend
<1>3. DOMAIN r = 1 .. n + 1 BY <1>2, SeqFacts
<1> HIDE DEF r, n
<1>4. ASSUME NEW i \in 1 .. n + 1 PROVE r[i] \in Range(s) \cup {e}
  <2>1. CASE i = n + 1 BY <2>1, <1>2
  <2>2. CASE i # n + 1
    <3>1. i \in 1 .. n BY <2>2, <1>1
    <3>2. QED BY <3>1, <1>1, <1>2 DEF Range
  <2>3. QED BY <2>1, <2>2
<1>5. QED BY <1>3, <1>4 DEF Range, r

(* A task starts, or ends and becomes ready.                                  *)
LEMMA StepTask ==
  ASSUME Sane, NEW t \in DOMAIN ctx, Start(t) \/ Finish(t)
  PROVE  Kept
<1> DEFINE c == ctx[t]
<1>1. CtxOK(c, Blocks, Names) /\ Fields(c) BY Steps
<1>2. thrower = {} BY DEF Start, Finish, Active, Over
<1>3. All(ctx, Blocks, Names) /\ Stacks(ctx) /\ robbed = {} BY DEF Sane
<1>4. CASE Start(t)
  <2>1. PICK below \in Places : Goto(t, [c EXCEPT !.status = "running", !.below = below])
    BY <1>4 DEF Start
  <2>2. IsSeq(below) /\ \A u \in Range(below) : u \in DOMAIN ctx /\ ctx[u].status # "ended"
    <3>1. CASE below = << >>
      <4>1. DOMAIN below = {}
        <5>1. 1 .. 0 = {} OBVIOUS
        <5>2. QED BY <3>1, <5>1, SeqNone, SeqFacts
      <4>2. QED BY <3>1, <4>1, SeqNone DEF Range
    <3>2. CASE below # << >>
      <4>1. PICK w \in DOMAIN ctx : Waits(w) /\ below = Append(ctx[w].below, w)
        BY <2>1, <3>2 DEF Places
      <4>2. At(w, "ParJoin") BY <4>1 DEF Waits
      <4>3. ctx[w].status = "running" /\ Fields(ctx[w]) BY <4>2, Steps
      <4>4. IsSeq(ctx[w].below) BY <4>3 DEF Fields
      <4>5. \A u \in Range(ctx[w].below) : u \in DOMAIN ctx /\ ctx[u].status # "ended"
        BY <4>3, <1>3 DEF Stacks
      <4>6. Range(below) \subseteq Range(ctx[w].below) \cup {w}
        BY <4>1, <4>4, RangeAppend
      <4>7. IsSeq(below) BY <4>1, <4>4, SeqAppend
      <4>8. ctx[w].status # "ended" BY <4>3
      <4>9. QED BY <4>5, <4>6, <4>7, <4>8
    <3>3. QED BY <3>1, <3>2
  <2> DEFINE d == Started(c, below)
  <2>3. c.status = "queued" BY <1>4 DEF Start
  <2>4. CtxOK(d, Blocks, Names) BY <1>1, <2>2, <2>3, ContextStatus
  <2>5. /\ d.pending = c.pending /\ d.spawned = c.spawned /\ d.canceled = c.canceled
        /\ d.status = "running" /\ d.below = below
    BY <1>1 DEF Started, Fields
  <2>6. ctx' = [ctx EXCEPT ![t] = d] /\ UNCHANGED <<thrower, robbed>> BY <2>1 DEF Goto, Started
  <2> HIDE DEF d
  <2>7. All(ctx', Blocks, Names)
    <3>1. All([ctx EXCEPT ![t] = d], Blocks, Names) BY <2>4, <2>5, <1>3, AllAlone
    <3>2. QED BY <3>1, <2>6
  <2>8. /\ DOMAIN ctx' = DOMAIN ctx /\ ctx'[t] = d
        /\ \A v \in DOMAIN ctx : v # t => ctx'[v] = ctx[v]
    BY <2>6
  <2>9. \A u \in DOMAIN ctx : ctx[u].status # "ended" => ctx'[u].status # "ended" BY <2>5, <2>8
  <2>10. ASSUME NEW v \in DOMAIN ctx', ctx'[v].status = "running", NEW u \in Range(ctx'[v].below)
         PROVE  u \in DOMAIN ctx /\ ctx[u].status # "ended"
    <3>1. CASE v = t BY <3>1, <2>2, <2>5, <2>8, <2>10
    <3>2. CASE v # t
      <4>1. ctx'[v] = ctx[v] /\ v \in DOMAIN ctx BY <3>2, <2>8
      <4>2. QED BY <4>1, <2>10, <1>3 DEF Stacks
    <3>3. QED BY <3>1, <3>2
  <2>11. Stacks(ctx') BY <2>8, <2>9, <2>10 DEF Stacks
  <2>12. QED BY <2>6, <2>7, <2>11, <1>2, <1>3 DEF Kept
<1>5. CASE Finish(t)
  <2> DEFINE d == Finished(c)
  <2>1. CtxOK(d, Blocks, Names) BY <1>1, ContextStatus
  <2>2. /\ d.pending = c.pending /\ d.spawned = c.spawned /\ d.canceled = c.canceled
        /\ d.status = "ended" /\ d.below = c.below
    BY <1>1 DEF Finished, Fields
  <2>3. ctx' = [ctx EXCEPT ![t] = d] /\ UNCHANGED <<thrower, robbed>>
    BY <1>5 DEF Finish, Finished, Goto
  <2> HIDE DEF d
  <2>4. All(ctx', Blocks, Names)
    <3>1. All([ctx EXCEPT ![t] = d], Blocks, Names) BY <2>1, <2>2, <1>3, AllAlone
    <3>2. QED BY <3>1, <2>3
  <2>5. /\ DOMAIN ctx' = DOMAIN ctx /\ ctx'[t] = d
        /\ \A v \in DOMAIN ctx : v # t => ctx'[v] = ctx[v]
    BY <2>3
  <2>6. ~Covered(t) BY <1>5 DEF Finish, Active
  <2>7. ASSUME NEW v \in DOMAIN ctx', ctx'[v].status = "running", NEW u \in Range(ctx'[v].below)
        PROVE  u \in DOMAIN ctx' /\ ctx'[u].status # "ended"
    <3>1. v # t /\ v \in DOMAIN ctx BY <2>2, <2>5, <2>7
    <3>2. ctx'[v] = ctx[v] BY <3>1, <2>5
    <3>3. u \in DOMAIN ctx /\ ctx[u].status # "ended" BY <3>1, <3>2, <2>7, <1>3 DEF Stacks
    <3>4. u # t BY <3>1, <3>2, <2>6, <2>7 DEF Covered
    <3>5. QED BY <3>3, <3>4, <2>5
  <2>8. Stacks(ctx') BY <2>7 DEF Stacks
  <2>9. QED BY <2>3, <2>4, <2>8, <1>2, <1>3 DEF Kept
<1>6. QED BY <1>4, <1>5

(* The links of a chain.                                                      *)
LEMMA StepChain ==
  ASSUME Sane, NEW t \in DOMAIN ctx, ExecSeqBegin(t) \/ ExecSeqAdvance(t) \/ ExecSeqEnd(t)
  PROVE  Kept
<1> DEFINE c == ctx[t]
           f == Last(c.control)
<1>1. CtxOK(c, Blocks, Names) /\ Fields(c) BY Steps
<1>2. CASE ExecSeqBegin(t)
  <2> DEFINE d == Proceed(Opened(c))
  <2>1. At(t, "SeqBegin") /\ Goto(t, d) BY <1>2 DEF ExecSeqBegin
  <2>2. thrower = {} /\ c.code # << >> /\ Head(c.code).op = "SeqBegin" BY <2>1, Steps
  <2>3. CtxOK(d, Blocks, Names) BY <2>2, <1>1, ContextSeqBegin
  <2>4. /\ d.pending = c.pending /\ d.spawned = c.spawned /\ d.canceled = c.canceled
        /\ d.status = c.status /\ d.below = c.below
    BY <1>1 DEF Proceed, Opened, Pushed, Fields
  <2> HIDE DEF d
  <2>5. QED BY <2>1, <2>2, <2>3, <2>4, GoesOn
<1>3. CASE ExecSeqAdvance(t)
  <2> DEFINE d == Proceed(Advance(c))
  <2>1. At(t, "SeqAdvance") /\ Goto(t, d) BY <1>3 DEF ExecSeqAdvance
  <2>2. thrower = {} /\ c.code # << >> /\ Head(c.code).op = "SeqAdvance" BY <2>1, Steps
  <2>3. CtxOK(d, Blocks, Names) BY <2>2, <1>1, ContextSeqAdvance
  <2>4. /\ d.pending = c.pending /\ d.spawned = c.spawned /\ d.canceled = c.canceled
        /\ d.status = c.status /\ d.below = c.below
    BY <1>1 DEF Proceed, Advance, Fields
  <2> HIDE DEF d
  <2>5. QED BY <2>1, <2>2, <2>3, <2>4, GoesOn
<1>4. CASE ExecSeqEnd(t)
  <2> DEFINE d == Proceed(Closed(c, f))
  <2>1. At(t, "SeqEnd") /\ Goto(t, d) BY <1>4 DEF ExecSeqEnd, Frame
  <2>2. thrower = {} /\ c.code # << >> /\ Head(c.code).op = "SeqEnd" BY <2>1, Steps
  <2>3. CtxOK(d, Blocks, Names) BY <2>2, <1>1, ContextSeqEnd
  <2>4. /\ d.pending = c.pending /\ d.spawned = c.spawned /\ d.canceled = c.canceled
        /\ d.status = c.status /\ d.below = c.below
    BY <1>1 DEF Proceed, Closed, Unwind, Popped, Fields
  <2> HIDE DEF d
  <2>5. QED BY <2>1, <2>2, <2>3, <2>4, GoesOn
<1>5. QED BY <1>2, <1>3, <1>4

(* A call of a function and the return from it.                               *)
LEMMA StepCall ==
  ASSUME Sane, NEW t \in DOMAIN ctx, ExecRecFn(t) \/ ExecRet(t)
  PROVE  Kept
<1> DEFINE c == ctx[t]
           f == Last(c.control)
<1>1. /\ CtxOK(c, Blocks, Names) /\ Fields(c) /\ Blocky(Blocks, Names)
      /\ IsSeq(c.code) /\ CodeOK(c.code, Blocks, Names)
  BY Steps
<1>2. CASE ExecRecFn(t)
  <2> DEFINE code == Internal.functions[Node(t).name]
             d == [Pushed(c, RetFrame(Tail(c.code))) EXCEPT !.code = code]
  <2>1. At(t, "RecFn") /\ Goto(t, d) BY <1>2 DEF ExecRecFn
  <2>2. thrower = {} /\ c.code # << >> /\ Head(c.code).op = "RecFn" BY <2>1, Steps
  <2>3. Node(t).name \in Names
    <3>1. NodeOK(Head(c.code), Blocks, Names) BY <2>2, <1>1, CodeCut
    <3>2. QED BY <3>1, <2>2 DEF NodeOK, Node
  <2>4. PICK b \in Blocks : code = b \o <<Ret>> BY <2>3, InternalCode DEF Sane
  <2> HIDE DEF code
  <2>5. CtxOK(d, Blocks, Names) BY <2>2, <2>4, <1>1, ContextRecFn
  <2>6. /\ d.pending = c.pending /\ d.spawned = c.spawned /\ d.canceled = c.canceled
        /\ d.status = c.status /\ d.below = c.below
    BY <1>1 DEF Pushed, Fields
  <2> HIDE DEF d
  <2>7. QED BY <2>1, <2>2, <2>5, <2>6, GoesOn
<1>3. CASE ExecRet(t)
  <2> DEFINE d == [Popped(c) EXCEPT !.code = f.code]
  <2>1. At(t, "Ret") /\ Goto(t, d) BY <1>3 DEF ExecRet, Frame
  <2>2. thrower = {} /\ c.code # << >> /\ Head(c.code).op = "Ret" BY <2>1, Steps
  <2>3. CtxOK(d, Blocks, Names) BY <2>2, <1>1, ContextRet
  <2>4. /\ d.pending = c.pending /\ d.spawned = c.spawned /\ d.canceled = c.canceled
        /\ d.status = c.status /\ d.below = c.below
    BY <1>1 DEF Popped, Fields
  <2> HIDE DEF d
  <2>5. QED BY <2>1, <2>2, <2>3, <2>4, GoesOn
<1>4. QED BY <1>2, <1>3

(* A leaf.                                                                    *)
LEMMA StepLeaf ==
  ASSUME Sane, LibraryPushesTuples, NEW t \in DOMAIN ctx,
         ExecBasicFn(t) \/ ExecConstant(t) \/ ExecGetArg(t)
  PROVE  Kept
<1> DEFINE c == ctx[t]
<1>1. /\ CtxOK(c, Blocks, Names) /\ Fields(c) /\ Fits(c) /\ IsSeq(c.code)
      /\ CodeOK(c.code, Blocks, Names)
  BY Steps
<1>2. IsSeq(c.stack) BY <1>1 DEF Fields
<1>3. ASSUME NEW op \in {"BasicFn", "GetArg", "Constant"}, At(t, op), NEW values, Yield(t, values),
             values = Fault \/ IsSeq(values)
      PROVE  Kept
  <2>1. thrower = {} /\ c.code # << >> /\ Head(c.code).op = op BY <1>3, Steps
  <2>2. CASE values = Fault /\ thrower' = {t} /\ UNCHANGED <<ctx, robbed>>
    <3>1. All(ctx', Blocks, Names) /\ Stacks(ctx') /\ robbed' = {} BY <2>2 DEF Sane
    <3>2. QED BY <2>2, <3>1 DEF Kept
  <2>3. CASE values # Fault /\ Goto(t, Proceed(PushAll(c, values)))
    <3> DEFINE d == Proceed(PushAll(c, values))
    <3>1. CtxOK(d, Blocks, Names) BY <2>1, <2>3, <1>1, <1>3, ContextYield
    <3>2. /\ d.pending = c.pending /\ d.spawned = c.spawned /\ d.canceled = c.canceled
          /\ d.status = c.status /\ d.below = c.below
      BY <1>1 DEF Proceed, PushAll, Fields
    <3>3. Goto(t, d) BY <2>3
    <3> HIDE DEF d
    <3>4. QED BY <3>1, <3>2, <3>3, <2>1, GoesOn
  <2>4. QED BY <2>2, <2>3, <1>3 DEF Yield
<1>4. CASE ExecBasicFn(t)
  <2>1. IsSeq(Arguments(c)) BY <1>1, <1>2, ArgumentsPart
  <2> DEFINE values == Apply(Node(t).name, Arguments(c))
  <2>2. values = Fault \/ IsSeq(values) BY <2>1 DEF LibraryPushesTuples
  <2>3. At(t, "BasicFn") /\ Yield(t, values) BY <1>4 DEF ExecBasicFn
  <2> HIDE DEF values
  <2>4. QED BY <2>2, <2>3, <1>3
<1>5. CASE ExecConstant(t)
  <2>1. At(t, "Constant") /\ Yield(t, <<Node(t).value>>) BY <1>5 DEF ExecConstant
  <2>2. IsSeq(<<Node(t).value>>) BY SeqOne
  <2>3. QED BY <2>1, <2>2, <1>3
<1>6. CASE ExecGetArg(t)
  <2> DEFINE values == Take(c, Node(t).from, Node(t).to)
  <2>1. At(t, "GetArg") /\ Yield(t, values) BY <1>6 DEF ExecGetArg
  <2>2. c.code # << >> /\ Head(c.code).op = "GetArg" BY <2>1, Steps
  <2>3. Node(t).from \in Int /\ Node(t).to \in Int
    <3>1. NodeOK(Head(c.code), Blocks, Names) BY <2>2, <1>1, CodeCut
    <3>2. QED BY <3>1, <2>2 DEF NodeOK, Node
  <2>4. values = Fault \/ IsSeq(values) BY <2>3, <1>1, <1>2, TakePart
  <2> HIDE DEF values
  <2>5. QED BY <2>1, <2>4, <1>3
<1>7. QED BY <1>4, <1>5, <1>6

(* The tasks that a node forks, if any.                                       *)
LEMMA StepFork ==
  ASSUME Sane, NEW t \in DOMAIN ctx, NEW c, Fields(c), IsSeq(Arguments(c)),
         c.code = ctx[t].code, c.pending = ctx[t].pending, c.spawned = ctx[t].spawned,
         c.canceled = ctx[t].canceled, c.status = ctx[t].status, c.below = ctx[t].below,
         NEW isProactive \in BOOLEAN, thrower = {},
         c.code # << >>, Head(c.code).op \in {"ParFork", "CondStart"},
         \A kids : IsSeq(kids) /\ Len(kids) = Len(Forks(c)) =>
           CtxOK(Parent(c, kids), Blocks, Names),
         Fork(t, c, isProactive)
  PROVE  Kept
<1> DEFINE forks == IF c.canceled THEN << >> ELSE Node(t).forks
           kids == [k \in DOMAIN forks |-> Append(t, c.spawned + k)]
           d == Proceed([c EXCEPT !.pending = @ \o kids, !.spawned = @ + Len(forks)])
           new(u) == NewContext(forks[Last(u) - c.spawned], Arguments(c), isProactive)
<1>1. /\ Blocky(Blocks, Names) /\ t \in Seq(Nat) /\ IsSeq(ctx[t].code)
      /\ CodeOK(ctx[t].code, Blocks, Names)
  BY Steps
<1>2. NodeOK(Head(c.code), Blocks, Names) BY <1>1, CodeCut
<1>3. IsSeq(forks) /\ \A k \in DOMAIN forks : forks[k] \in Blocks
  <2>1. CASE c.canceled
    <3>1. forks = << >> BY <2>1
    <3>2. IsSeq(forks) /\ DOMAIN forks = {}
      <4>1. 1 .. 0 = {} OBVIOUS
      <4>2. QED BY <3>1, <4>1, SeqNone, SeqFacts
    <3>3. QED BY <3>2
  <2>2. CASE ~c.canceled
    <3>1. forks = Head(c.code).forks BY <2>2 DEF Node
    <3>2. IsSeq(Head(c.code).forks) BY <1>2 DEF NodeOK
    <3>3. \A k \in DOMAIN Head(c.code).forks : Head(c.code).forks[k] \in Blocks BY <1>2 DEF NodeOK
    <3>4. QED BY <3>1, <3>2, <3>3
  <2>3. QED BY <2>1, <2>2
<1>4. c.spawned \in Nat BY DEF Fields
<1>5. forks = Forks(c) BY DEF Forks, Node
<1>6. /\ ctx' = [u \in DOMAIN ctx \cup Range(kids) |->
                   IF u \in Range(kids) THEN new(u) ELSE IF u = t THEN d ELSE ctx[u]]
      /\ thrower' = thrower /\ robbed' = robbed
  BY Zenon DEF Fork
<1> HIDE DEF forks
<1>7. /\ IsSeq(kids) /\ Len(kids) = Len(forks)
      /\ \A k \in 1 .. Len(kids) : kids[k] = Append(t, c.spawned + k)
      /\ \A u \in Range(kids) : Last(u) - c.spawned \in DOMAIN forks
  BY <1>1, <1>3, <1>4, KidsAre
<1> HIDE DEF kids
<1>8. d = Parent(c, kids) BY <1>5, Zenon DEF Parent
<1>9. CtxOK(d, Blocks, Names)
  <2>1. CtxOK(Parent(c, kids), Blocks, Names) BY <1>5, <1>7
  <2>2. QED BY <2>1, <1>8
<1>10. /\ d.pending = c.pending \o kids /\ d.spawned = c.spawned + Len(kids)
       /\ d.canceled = c.canceled /\ d.status = c.status /\ d.below = c.below
  BY <1>7 DEF Proceed, Fields
<1>11. ASSUME NEW u \in Range(kids)
       PROVE  /\ CtxOK(new(u), Blocks, Names) /\ new(u).pending = << >> /\ ~new(u).canceled
              /\ new(u).status = "queued"
  <2>1. forks[Last(u) - c.spawned] \in Blocks BY <1>3, <1>7
  <2>2. CtxOK(new(u), Blocks, Names) BY <2>1, <1>1, ContextNew
  <2>3. new(u).pending = << >> /\ ~new(u).canceled /\ new(u).status = "queued" BY DEF NewContext
  <2>4. QED BY <2>2, <2>3
<1> HIDE DEF d, new
<1>12. /\ DOMAIN ctx' = DOMAIN ctx \cup Range(kids)
       /\ \A u \in Range(kids) : ctx'[u] = new(u)
       /\ t \notin Range(kids) => ctx'[t] = d
       /\ \A v \in DOMAIN ctx' : v # t /\ v \notin Range(kids) => ctx'[v] = ctx[v]
  BY <1>6
<1>13. All(ctx, Blocks, Names) /\ Stacks(ctx) /\ robbed = {} BY DEF Sane
<1>14. Fresh(ctx', kids, Blocks, Names) BY <1>11, <1>12 DEF Fresh
<1>15. Grown(ctx, ctx', t, d, kids) BY <1>7, <1>10, <1>12 DEF Grown
<1>16. All(ctx', Blocks, Names) BY <1>7, <1>9, <1>13, <1>14, <1>15, AllForked
<1>17. Stacks(ctx')
  <2>1. ASSUME NEW v \in DOMAIN ctx', ctx'[v].status = "running"
        PROVE  v \in DOMAIN ctx /\ ctx[v].status = "running" /\ ctx'[v].below = ctx[v].below
    <3>1. v \notin Range(kids) BY <2>1, <1>11, <1>12
    <3>2. QED BY <2>1, <3>1, <1>10, <1>12
  <2>2. ASSUME NEW v \in DOMAIN ctx, ctx[v].status # "ended"
        PROVE  v \in DOMAIN ctx' /\ ctx'[v].status # "ended"
    <3>1. CASE v \in Range(kids) BY <3>1, <1>11, <1>12
    <3>2. CASE v \notin Range(kids) BY <2>2, <3>2, <1>10, <1>12
    <3>3. QED BY <3>1, <3>2
  <2>3. QED BY <2>1, <2>2, <1>13, StacksKept
<1>18. QED BY <1>6, <1>13, <1>16, <1>17 DEF Kept

(* ParFork and CondStart.                                                     *)
LEMMA StepForks ==
  ASSUME Sane, NEW t \in DOMAIN ctx, ExecParFork(t) \/ ExecCondStart(t)
  PROVE  Kept
<1> DEFINE c == ctx[t]
<1>1. CtxOK(c, Blocks, Names) /\ Fields(c) /\ Fits(c) BY Steps
<1>2. IsSeq(c.stack) /\ c.proactive \in BOOLEAN BY <1>1 DEF Fields
<1>3. IsSeq(Arguments(c)) BY <1>1, <1>2, ArgumentsPart
<1>4. CASE ExecParFork(t)
  <2>1. At(t, "ParFork") /\ Fork(t, c, c.proactive) BY <1>4 DEF ExecParFork
  <2>2. thrower = {} /\ c.code # << >> /\ Head(c.code).op = "ParFork" BY <2>1, Steps
  <2>3. \A kids : IsSeq(kids) /\ Len(kids) = Len(Forks(c)) =>
          CtxOK(Parent(c, kids), Blocks, Names)
    BY <2>2, <1>1, ContextFork
  <2>4. QED BY <2>1, <2>2, <2>3, <1>1, <1>2, <1>3, StepFork
<1>5. CASE ExecCondStart(t)
  <2> DEFINE d == Pushed(c, CondFrame(c))
  <2>1. At(t, "CondStart") /\ Fork(t, d, TRUE) BY <1>5 DEF ExecCondStart
  <2>2. thrower = {} /\ c.code # << >> /\ Head(c.code).op = "CondStart" BY <2>1, Steps
  <2>3. /\ d.code = c.code /\ d.pending = c.pending /\ d.spawned = c.spawned
        /\ d.canceled = c.canceled /\ d.stack = c.stack /\ d.argPos = c.argPos
        /\ d.argNum = c.argNum /\ d.status = c.status /\ d.below = c.below
    BY <1>1 DEF Pushed, Fields
  <2>4. Fields(d) BY <1>1 DEF Pushed, Fields
  <2>5. \A kids : IsSeq(kids) /\ Len(kids) = Len(Forks(c)) =>
          CtxOK(Parent(d, kids), Blocks, Names)
    BY <2>2, <1>1, ContextCondStart
  <2> HIDE DEF d
  <2>6. Forks(d) = Forks(c) /\ Arguments(d) = Arguments(c) BY <2>3 DEF Forks, Arguments
  <2>7. \A kids : IsSeq(kids) /\ Len(kids) = Len(Forks(d)) =>
          CtxOK(Parent(d, kids), Blocks, Names)
    BY <2>5, <2>6
  <2>8. IsSeq(Arguments(d)) /\ TRUE \in BOOLEAN BY <2>6, <1>3
  <2>9. d.code # << >> /\ Head(d.code).op = "CondStart" BY <2>2, <2>3
  <2>10. QED BY <2>1, <2>2, <2>3, <2>4, <2>7, <2>8, <2>9, StepFork
<1>6. QED BY <1>4, <1>5

(* A join.                                                                    *)
LEMMA StepJoin ==
  ASSUME Sane, NEW t \in DOMAIN ctx, JoinNothing(t) \/ Join(t)
  PROVE  Kept
<1> DEFINE c == ctx[t]
<1>1. CtxOK(c, Blocks, Names) /\ Fields(c) /\ Needs(ctx, t) BY Steps
<1>2. CASE JoinNothing(t)
  <2> DEFINE d == Proceed(c)
  <2>1. At(t, "ParJoin") /\ c.pending = << >> /\ Goto(t, d) BY <1>2 DEF JoinNothing
  <2>2. thrower = {} /\ c.code # << >> /\ Head(c.code).op = "ParJoin" BY <2>1, Steps
  <2>3. CtxOK(d, Blocks, Names) BY <2>1, <2>2, <1>1, ContextJoin
  <2>4. /\ d.pending = c.pending /\ d.spawned = c.spawned /\ d.canceled = c.canceled
        /\ d.status = c.status /\ d.below = c.below
    BY <1>1 DEF Proceed, Fields
  <2> HIDE DEF d
  <2>5. QED BY <2>1, <2>2, <2>3, <2>4, GoesOn
<1>3. CASE Join(t)
  <2> DEFINE u == Last(c.pending)
             rest == Proceed([c EXCEPT !.pending = Front(@)])
             full == PushAll(rest, Results(ctx[u]))
  <2>1. /\ At(t, "ParJoin") /\ c.pending # << >>
        /\ \/ Goto(t, rest)
           \/ /\ ctx[u].ready /\ ~ctx[u].canceled
              /\ ctx' = [v \in DOMAIN ctx \ {u} |-> IF v = t THEN full ELSE ctx[v]]
              /\ UNCHANGED <<thrower, robbed>>
    BY <1>3 DEF Join
  <2>2. thrower = {} /\ c.code # << >> /\ Head(c.code).op = "ParJoin" BY <2>1, Steps
  <2>3. CtxOK(rest, Blocks, Names) /\ \A values : IsSeq(values) => CtxOK(PushAll(rest, values), Blocks, Names)
    BY <2>1, <2>2, <1>1, ContextJoin
  <2>4. /\ rest.pending = Front(c.pending) /\ rest.spawned = c.spawned
        /\ rest.canceled = c.canceled /\ rest.status = c.status /\ rest.below = c.below
        /\ full.pending = Front(c.pending) /\ full.spawned = c.spawned
        /\ full.canceled = c.canceled /\ full.status = c.status /\ full.below = c.below
    BY <1>1 DEF Proceed, PushAll, Fields
  <2>5. /\ CtxOK(full, Blocks, Names)
        /\ ctx[u].ready /\ ~ctx[u].canceled => ctx[u].status = "ended"
    <3>1. u \in DOMAIN ctx
      <4>1. IsSeq(c.pending) BY <1>1 DEF Fields
      <4>2. Len(c.pending) \in Nat /\ Len(c.pending) > 0 /\ u = c.pending[Len(c.pending)]
        BY <4>1, <2>1, SeqFacts, SeqFrontLast
      <4>3. Len(c.pending) \in 1 .. Len(c.pending) BY <4>2
      <4>4. QED BY <4>2, <4>3, <1>1 DEF Needs
    <3>2. Fits(ctx[u]) /\ Fields(ctx[u]) BY <3>1, Steps
    <3>3. IsSeq(ctx[u].stack) /\ (ctx[u].ready /\ ~ctx[u].canceled => ctx[u].status = "ended")
      BY <3>2 DEF Fields
    <3>4. IsSeq(Results(ctx[u])) BY <3>2, <3>3, ResultsPart
    <3>5. QED BY <3>3, <3>4, <2>3
  <2>6. All(ctx, Blocks, Names) /\ Stacks(ctx) /\ robbed = {} BY DEF Sane
  <2> HIDE DEF u, rest, full
  <2>7. CASE Goto(t, rest)
    <3>1. ctx' = [ctx EXCEPT ![t] = rest] /\ thrower' = {} /\ robbed' = {} BY <2>2, <2>6, <2>7 DEF Goto
    <3>2. /\ DOMAIN ctx' = DOMAIN ctx \ {} /\ ctx'[t] = rest
          /\ \A v \in DOMAIN ctx' : v # t => ctx'[v] = ctx[v]
      BY <3>1
    <3>3. Joined(ctx, ctx', t, rest, {}) BY <3>2, <2>4 DEF Joined
    <3>4. All(ctx', Blocks, Names) BY <3>3, <2>1, <2>3, <2>6, AllJoined
    <3>5. Stacks(ctx') BY <3>2, <2>4, <2>6, StacksKept
    <3>6. QED BY <3>1, <3>4, <3>5 DEF Kept
  <2>8. CASE /\ ctx[u].ready /\ ~ctx[u].canceled
             /\ ctx' = [v \in DOMAIN ctx \ {u} |-> IF v = t THEN full ELSE ctx[v]]
             /\ UNCHANGED <<thrower, robbed>>
    <3>1. /\ DOMAIN ctx' = DOMAIN ctx \ {u} /\ (t \in DOMAIN ctx' => ctx'[t] = full)
          /\ \A v \in DOMAIN ctx' : v # t => ctx'[v] = ctx[v]
      BY <2>8
    <3>2. {u} \subseteq {Last(ctx[t].pending)} BY DEF u
    <3>3. Joined(ctx, ctx', t, full, {u}) BY <3>1, <3>2, <2>4 DEF Joined
    <3>4. All(ctx', Blocks, Names) BY <3>3, <2>1, <2>5, <2>6, AllJoined
    <3>5. ctx[u].status = "ended" BY <2>5, <2>8
    <3>6. Stacks(ctx')
      <4>1. ASSUME NEW v \in DOMAIN ctx', ctx'[v].status = "running"
            PROVE  v \in DOMAIN ctx /\ ctx[v].status = "running" /\ ctx'[v].below = ctx[v].below
        BY <4>1, <3>1, <2>4
      <4>2. ASSUME NEW v \in DOMAIN ctx, ctx[v].status # "ended"
            PROVE  v \in DOMAIN ctx' /\ ctx'[v].status # "ended"
        BY <4>2, <3>1, <3>5, <2>4
      <4>3. QED BY <4>1, <4>2, <2>6, StacksKept
    <3>7. QED BY <2>2, <2>6, <2>8, <3>4, <3>6 DEF Kept
  <2>9. QED BY <2>1, <2>7, <2>8
<1>4. QED BY <1>2, <1>3

(* A task takes what one beneath it waits for.                                *)
Lost ==
  /\ Main \in DOMAIN ctx' /\ robbed' # {} /\ thrower' \cup robbed' \subseteq DOMAIN ctx'
  /\ \A t \in DOMAIN ctx' : LooseOK(ctx'[t], Blocks, Names)

(* It is pending with a task that exists and has not ended.                   *)
LEMMA BeneathFacts ==
  ASSUME Sane, NEW t \in DOMAIN ctx, ctx[t].status = "running", NEW n, NEW p \in Beneath(t, n)
  PROVE  /\ p.holder \in DOMAIN ctx /\ ctx[p.holder].status # "ended"
         /\ p.at \in 1 .. Len(ctx[p.holder].pending)
<1>1. PICK s \in Slots(t) : p = [holder |-> ctx[t].below[s[1]], at |-> s[2]] BY DEF Beneath
<1>2. PICK i \in DOMAIN ctx[t].below : s \in {i} \X DOMAIN ctx[ctx[t].below[i]].pending
  BY DEF Slots
<1>3. p.holder = ctx[t].below[i] /\ p.at \in DOMAIN ctx[ctx[t].below[i]].pending BY <1>1, <1>2
<1>4. p.holder \in Range(ctx[t].below) BY <1>3 DEF Range
<1>5. p.holder \in DOMAIN ctx /\ ctx[p.holder].status # "ended" BY <1>4 DEF Sane, Stacks
<1>6. IsSeq(ctx[p.holder].pending) BY <1>5, Steps DEF Fields
<1>7. QED BY <1>3, <1>5, <1>6, SeqFacts

(* The one it is taken from is all that this leaves unfit.                    *)
LEMMA RobLoses ==
  ASSUME Sane, thrower = {}, NEW p, NEW x, Main \in DOMAIN x, p.holder \in DOMAIN x,
         p.at \in 1 .. Len(x[p.holder].pending),
         \A v \in DOMAIN x : CtxOK(x[v], Blocks, Names), Rob(p, x)
  PROVE  Lost
<1> DEFINE d == [x[p.holder] EXCEPT !.pending = Erased(@, p.at)]
<1>1. /\ ctx' = [v \in DOMAIN x |-> IF v = p.holder THEN d ELSE x[v]]
      /\ robbed' = {p.holder} /\ thrower' = {}
  BY DEF Rob
<1>2. LooseOK(d, Blocks, Names) BY RobbedLoose
<1> HIDE DEF d
<1>3. ASSUME NEW v \in DOMAIN x PROVE LooseOK(ctx'[v], Blocks, Names)
  <2>1. CASE v = p.holder BY <2>1, <1>1, <1>2
  <2>2. CASE v # p.holder
    <3>1. LooseOK(x[v], Blocks, Names) BY NotRobbed
    <3>2. QED BY <2>2, <3>1, <1>1
  <2>3. QED BY <2>1, <2>2
<1>4. QED BY <1>1, <1>3 DEF Lost

(* A canceled task joins another's.                                           *)
LEMMA StepRob == ASSUME Sane, NEW t \in DOMAIN ctx, JoinAnothers(t) PROVE Lost
<1> DEFINE c == ctx[t]
<1>1. CtxOK(c, Blocks, Names) BY Steps
<1>2. At(t, "ParJoin") /\ c.pending = << >> BY DEF JoinAnothers
<1>3. thrower = {} /\ c.status = "running" /\ c.code # << >> /\ Head(c.code).op = "ParJoin"
  BY <1>2, Steps
<1>4. Main \in DOMAIN ctx /\ \A v \in DOMAIN ctx : CtxOK(ctx[v], Blocks, Names)
  BY DEF Sane, All
<1>5. ctx[Main].status # "ended" BY <1>2 DEF At, Active, Over
<1>6. PICK p \in Beneath(t, 1) :
        /\ ctx[Held(p)].ready
        /\ \/ Rob(p, [ctx EXCEPT ![t] = Proceed(@)])
           \/ /\ ~ctx[Held(p)].canceled
              /\ Rob(p, [v \in DOMAIN ctx \ {Held(p)} |->
                          IF v = t THEN PushAll(Proceed(c), Results(ctx[Held(p)])) ELSE ctx[v]])
  BY DEF JoinAnothers
<1> DEFINE h == p.holder
           u == Held(p)
<1>7. h \in DOMAIN ctx /\ ctx[h].status # "ended" /\ p.at \in 1 .. Len(ctx[h].pending)
  BY <1>3, BeneathFacts
<1>8. h # t
  <2>1. 1 .. Len(c.pending) = {} BY <1>2, SeqNone
  <2>2. QED BY <2>1, <1>7
<1>9. CASE Rob(p, [ctx EXCEPT ![t] = Proceed(@)])
  <2> DEFINE x == [ctx EXCEPT ![t] = Proceed(@)]
  <2>1. CtxOK(Proceed(c), Blocks, Names) BY <1>1, <1>2, <1>3, ContextJoin
  <2>2. DOMAIN x = DOMAIN ctx /\ x[h] = ctx[h] BY <1>7, <1>8
  <2>3. \A v \in DOMAIN x : CtxOK(x[v], Blocks, Names) BY <2>1, <1>4
  <2>4. Rob(p, x) BY <1>9
  <2> HIDE DEF x
  <2>5. QED BY <2>2, <2>3, <2>4, <1>3, <1>4, <1>7, RobLoses
<1>10. CASE /\ ~ctx[u].canceled
            /\ Rob(p, [v \in DOMAIN ctx \ {u} |->
                        IF v = t THEN PushAll(Proceed(c), Results(ctx[u])) ELSE ctx[v]])
  <2> DEFINE d == PushAll(Proceed(c), Results(ctx[u]))
             x == [v \in DOMAIN ctx \ {u} |-> IF v = t THEN d ELSE ctx[v]]
  <2>1. u \in DOMAIN ctx
    <3>1. Needs(ctx, h) BY <1>7, Steps
    <3>2. QED BY <3>1, <1>7 DEF Needs, Held
  <2>2. Fields(ctx[u]) /\ Fits(ctx[u]) BY <2>1, Steps
  <2>3. ctx[u].status = "ended" BY <2>2, <1>6, <1>10 DEF Fields
  <2>4. u # Main /\ u # h /\ u # t BY <2>3, <1>3, <1>5, <1>7
  <2>5. CtxOK(d, Blocks, Names)
    <3>1. IsSeq(ctx[u].stack) BY <2>2 DEF Fields
    <3>2. IsSeq(Results(ctx[u])) BY <3>1, <2>2, ResultsPart
    <3>3. QED BY <3>2, <1>1, <1>2, <1>3, ContextJoin
  <2>6. Rob(p, x) BY <1>10
  <2> HIDE DEF d, u
  <2>7. DOMAIN x = DOMAIN ctx \ {u} /\ x[h] = ctx[h] BY <2>4, <1>7, <1>8
  <2>8. \A v \in DOMAIN x : CtxOK(x[v], Blocks, Names) BY <2>5, <1>4
  <2> HIDE DEF x
  <2>9. QED BY <2>4, <2>6, <2>7, <2>8, <1>3, <1>4, <1>7, RobLoses
<1>11. QED BY <1>6, <1>9, <1>10

(* A choice, of one's own or another's.                                       *)
LEMMA StepChoose ==
  ASSUME Sane, NEW t \in DOMAIN ctx, ExecCondChoose(t)
  PROVE  Kept \/ Lost
<1> DEFINE c == ctx[t]
           n == Len(c.pending)
           isFalse == IsFalse(Verdict(c, Frame(t)))
           pos == CancelPos(Node(t), isFalse)
           i == n - pos + 1
           d == Chosen(c, isFalse)
           own == {c.pending[j] : j \in {i} \cap 1 .. n}
<1>1. CtxOK(c, Blocks, Names) /\ Fields(c) /\ Blocky(Blocks, Names) BY Steps
<1>2. At(t, "CondChoose") BY DEF ExecCondChoose
<1>3. thrower = {} /\ c.status = "running" /\ c.code # << >> /\ Head(c.code).op = "CondChoose"
  BY <1>2, Steps
<1>4. isFalse \in BOOLEAN BY DEF IsFalse
<1>5. CtxOK(d, Blocks, Names) BY <1>1, <1>3, <1>4, ContextCondChoose
<1>6. \/ ctx' = Decided(t, isFalse, own) /\ UNCHANGED <<thrower, robbed>>
      \/ pos > n /\ \E p \in Beneath(t, pos - n) : Rob(p, Decided(t, isFalse, {Held(p)}))
  BY DEF ExecCondChoose
<1>7. \A canceled : Decided(t, isFalse, canceled) =
        [u \in DOMAIN ctx |-> IF u = t THEN d
                              ELSE IF \E v \in canceled : IsPrefix(v, u) THEN Canceled(ctx[u])
                              ELSE ctx[u]]
  BY DEF Decided
<1>8. /\ d.pending = IF pos > 0 /\ i > 0 THEN Erased(c.pending, i) ELSE c.pending
      /\ d.spawned = c.spawned /\ d.canceled = c.canceled
      /\ d.status = c.status /\ d.below = c.below
  BY <1>1 DEF Chosen, Popped, Fields, Node
<1>9. pos \in 0 .. 2 /\ n \in Nat BY <1>1, SeqFacts DEF CancelPos, Fields
<1>10. All(ctx, Blocks, Names) /\ Stacks(ctx) /\ robbed = {} BY DEF Sane
<1>11. ASSUME NEW v \in DOMAIN ctx
       PROVE  /\ CtxOK(Canceled(ctx[v]), Blocks, Names)
              /\ Canceled(ctx[v]).pending = ctx[v].pending
              /\ Canceled(ctx[v]).status = ctx[v].status /\ Canceled(ctx[v]).below = ctx[v].below
  <2>1. CtxOK(ctx[v], Blocks, Names) /\ Fields(ctx[v]) BY Steps
  <2>2. QED BY <2>1, ContextStatus DEF Canceled, Fields
<1> HIDE DEF d, pos, isFalse, n
<1>12. CASE ctx' = Decided(t, isFalse, own) /\ UNCHANGED <<thrower, robbed>>
  <2>1. /\ DOMAIN ctx' = DOMAIN ctx /\ ctx'[t] = d
        /\ \A v \in DOMAIN ctx : v # t =>
             ctx'[v] = IF \E u \in own : IsPrefix(u, v) THEN Canceled(ctx[v]) ELSE ctx[v]
    BY <1>7, <1>12
  <2>2. \A v \in DOMAIN ctx : ctx'[v].status = ctx[v].status /\ ctx'[v].below = ctx[v].below
    BY <2>1, <1>8, <1>11
  <2>3. Stacks(ctx') BY <2>1, <2>2, <1>10, StacksKept
  <2>4. All(ctx', Blocks, Names)
    <3>1. CASE i \in 1 .. n
      <4>1. pos > 0 /\ i > 0 BY <3>1, <1>9
      <4>2. own = {c.pending[i]} BY <3>1
      <4>3. d.pending = Erased(c.pending, i) BY <4>1, <1>8
      <4>4. \A v \in DOMAIN ctx : v # t =>
              ctx'[v] = IF IsPrefix(c.pending[i], v) THEN Canceled(ctx[v]) ELSE ctx[v]
        BY <4>2, <2>1
      <4>5. i \in 1 .. Len(ctx[t].pending) BY <3>1 DEF n
      <4> HIDE DEF i, own
      <4>6. QED BY <4>3, <4>4, <4>5, <2>1, <1>5, <1>8, <1>10, AllCanceled
    <3>2. CASE i \notin 1 .. n
      <4>1. ~(pos > 0 /\ i > 0) BY <3>2, <1>9
      <4>2. own = {} BY <3>2
      <4>3. d.pending = c.pending BY <4>1, <1>8
      <4>4. ctx' = [u \in DOMAIN ctx |-> IF u = t THEN d ELSE ctx[u]] BY <4>2, <1>7, <1>12
      <4>5. ctx' = [ctx EXCEPT ![t] = d] BY <4>4
      <4>6. All([ctx EXCEPT ![t] = d], Blocks, Names) BY <4>3, <1>5, <1>8, <1>10, AllAlone
      <4>7. QED BY <4>5, <4>6
    <3>3. QED BY <3>1, <3>2
  <2>5. QED BY <2>3, <2>4, <1>3, <1>10, <1>12 DEF Kept
<1>13. ASSUME pos > n, NEW p \in Beneath(t, pos - n), Rob(p, Decided(t, isFalse, {Held(p)}))
       PROVE  Lost
  <2> DEFINE h == p.holder
             x == Decided(t, isFalse, {Held(p)})
  <2>1. h \in DOMAIN ctx /\ p.at \in 1 .. Len(ctx[h].pending) BY <1>3, BeneathFacts
  <2>2. /\ DOMAIN x = DOMAIN ctx /\ x[t] = d
        /\ \A v \in DOMAIN ctx : v # t => x[v] \in {Canceled(ctx[v]), ctx[v]}
    BY <1>7
  <2>3. Rob(p, x) BY <1>13
  <2> HIDE DEF x
  <2>4. ~(i > 0) BY <1>9, <1>13
  <2>5. d.pending = c.pending BY <2>4, <1>8
  <2>6. x[h].pending = ctx[h].pending BY <2>1, <2>2, <2>5, <1>11
  <2>7. ASSUME NEW v \in DOMAIN ctx PROVE CtxOK(x[v], Blocks, Names)
    <3>1. CtxOK(ctx[v], Blocks, Names) BY Steps
    <3>2. QED BY <3>1, <2>2, <1>5, <1>11
  <2>8. Main \in DOMAIN ctx BY <1>10 DEF All
  <2>9. QED BY <2>1, <2>2, <2>3, <2>6, <2>7, <2>8, <1>3, RobLoses
<1>14. QED BY <1>6, <1>12, <1>13
-----------------------------------------------------------------------------
(* The invariant is inductive.                                                *)
LEMMA Inductive == ASSUME LibraryPushesTuples, IInv, [Next]_vars PROVE IInv'
<1>1. ASSUME UNCHANGED vars PROVE IInv'
  BY <1>1 DEF IInv, Sane, Stacks, vars, Blocks, Names
<1>2. ASSUME Next PROVE IInv'
  <2>1. UNCHANGED <<program, proactive>> BY <1>2 DEF Next
  <2>2. Kept \/ Lost
    <3>1. PICK t \in DOMAIN ctx :
            \/ Start(t) \/ Finish(t)
            \/ ExecParFork(t) \/ ExecCondStart(t) \/ JoinNothing(t) \/ Join(t) \/ JoinAnothers(t)
            \/ ExecSeqBegin(t) \/ ExecSeqAdvance(t) \/ ExecSeqEnd(t)
            \/ ExecRecFn(t) \/ ExecRet(t) \/ ExecCondChoose(t)
            \/ ExecBasicFn(t) \/ ExecConstant(t) \/ ExecGetArg(t)
      BY <1>2 DEF Next
    <3>2. ~Over
      BY <3>1 DEF Start, Finish, ExecParFork, ExecCondStart, JoinNothing, Join, JoinAnothers,
                  ExecSeqBegin, ExecSeqAdvance, ExecSeqEnd, ExecRecFn, ExecRet, ExecCondChoose,
                  ExecBasicFn, ExecConstant, ExecGetArg, At, Active
    <3>3. Sane BY <3>2 DEF Over, IInv
    <3>4. CASE Start(t) \/ Finish(t) BY <3>3, <3>4, StepTask
    <3>5. CASE ExecParFork(t) \/ ExecCondStart(t) BY <3>3, <3>5, StepForks
    <3>6. CASE JoinNothing(t) \/ Join(t) BY <3>3, <3>6, StepJoin
    <3>7. CASE JoinAnothers(t) BY <3>3, <3>7, StepRob
    <3>8. CASE ExecSeqBegin(t) \/ ExecSeqAdvance(t) \/ ExecSeqEnd(t) BY <3>3, <3>8, StepChain
    <3>9. CASE ExecRecFn(t) \/ ExecRet(t) BY <3>3, <3>9, StepCall
    <3>10. CASE ExecCondChoose(t) BY <3>3, <3>10, StepChoose
    <3>11. CASE ExecBasicFn(t) \/ ExecConstant(t) \/ ExecGetArg(t) BY <3>3, <3>11, StepLeaf
    <3>12. QED BY <3>1, <3>4, <3>5, <3>6, <3>7, <3>8, <3>9, <3>10, <3>11
  <2>3. Blocks' = Blocks /\ Names' = Names BY <2>1 DEF Blocks, Names
  <2>4. program' \in Programs /\ proactive' \in BOOLEAN BY <2>1 DEF IInv
  <2>5. CASE Kept
    <3>1. All(ctx', Blocks', Names') BY <2>3, <2>5 DEF Kept
    <3>2. Sane'
      <4>1. Stacks(ctx') /\ thrower' \subseteq DOMAIN ctx' /\ robbed' = {} BY <2>5 DEF Kept
      <4>2. QED BY <3>1, <4>1, <2>4 DEF Sane
    <3>3. \A t \in DOMAIN ctx' : LooseOK(ctx'[t], Blocks', Names') BY <3>1, NotRobbed DEF All
    <3>4. Main \in DOMAIN ctx' /\ thrower' \cup robbed' \subseteq DOMAIN ctx'
      BY <3>1, <2>5 DEF Kept, All
    <3>5. QED BY <3>2, <3>3, <3>4, <2>4 DEF IInv
  <2>6. CASE Lost
    <3>1. \A t \in DOMAIN ctx' : LooseOK(ctx'[t], Blocks', Names') BY <2>3, <2>6 DEF Lost
    <3>2. QED BY <3>1, <2>4, <2>6 DEF IInv, Lost
  <2>7. QED BY <2>2, <2>5, <2>6
<1>3. QED BY <1>1, <1>2

(* It holds of the first state.                                               *)
LEMMA FirstState == Init => IInv
<1>1. SUFFICES ASSUME Sane PROVE IInv BY Begins
<1>2. Main \in DOMAIN ctx /\ \A t \in DOMAIN ctx : CtxOK(ctx[t], Blocks, Names)
  BY <1>1 DEF Sane, All
<1>3. \A t \in DOMAIN ctx : LooseOK(ctx[t], Blocks, Names) BY <1>2, NotRobbed
<1>4. QED BY <1>1, <1>2, <1>3 DEF IInv, Sane

(* The inductive invariant holds in every reachable state, whatever programs  *)
(* the generator compiles, with speculation or without, and whichever of the  *)
(* tasks moves: the contexts form a tree, and each runs a balanced code; and  *)
(* when a task has taken what another waits for, each context is still fit,   *)
(* but for joining more than it has pending.                                  *)
THEOREM MachineInvariance == ASSUME LibraryPushesTuples PROVE Spec => []IInv
BY FirstState, Inductive, PTL DEF Spec

(* What that is of one context.                                               *)
LEMMA IsFit ==
  ASSUME IInv, NEW t \in DOMAIN ctx
  PROVE  /\ Fields(ctx[t]) /\ Fits(ctx[t]) /\ IsSeq(ctx[t].control)
         /\ Runs(ctx[t].code, ctx[t].control, Len(ctx[t].pending), TRUE, Blocks, Names)
BY DEF IInv, LooseOK, Runs

(* Every field of every context has its type, and a task is ready when it has *)
(* ended or is canceled, and not before (Context.h, Task).                    *)
THEOREM MachineTypes == ASSUME LibraryPushesTuples PROVE Spec => []TypeOK
<1>1. IInv => TypeOK
  <2> SUFFICES ASSUME IInv PROVE TypeOK OBVIOUS
  <2>1. program \in Programs /\ proactive \in BOOLEAN /\ Main \in DOMAIN ctx
        /\ thrower \cup robbed \subseteq DOMAIN ctx
    BY DEF IInv
  <2>2. ASSUME NEW t \in DOMAIN ctx
        PROVE  /\ Fields(ctx[t]) /\ {ctx[t].argPos, ctx[t].argNum, ctx[t].arity} \subseteq Nat
               /\ \A i \in DOMAIN ctx[t].control : ctx[t].control[i].kind \in {"seq", "cond", "ret"}
    <3>1. Fits(ctx[t]) /\ Fields(ctx[t]) BY IsFit
    <3>2. \A i \in DOMAIN ctx[t].control : FrameOK(ctx[t].control[i], Blocks, Names)
      BY IsFit DEF Runs
    <3>3. \A i \in DOMAIN ctx[t].control : ctx[t].control[i].kind \in {"seq", "cond", "ret"}
      BY <3>2 DEF FrameOK
    <3>4. QED BY <3>1, <3>3, FitsFacts
  <2>3. QED BY <2>1, <2>2 DEF TypeOK, Fields
<1>2. QED BY <1>1, MachineInvariance, PTL

(* Arguments and results of every context stay on its stack, apart from one   *)
(* another and above what its open frames restore (Context.cpp, unwind).      *)
THEOREM ArgumentsStayOnStack == ASSUME LibraryPushesTuples PROVE Spec => []WindowsInStack
<1>1. IInv => WindowsInStack
  <2> SUFFICES ASSUME IInv, NEW t \in DOMAIN ctx
               PROVE  /\ ctx[t].argPos + ctx[t].argNum + ctx[t].arity <= Len(ctx[t].stack)
                      /\ \A i \in DOMAIN ctx[t].control : ctx[t].control[i].kind = "seq" =>
                           LET f == ctx[t].control[i] IN
                           /\ f.argPos + f.inArity + f.outArity <= f.size
                           /\ f.size + ctx[t].arity <= Len(ctx[t].stack)
                           /\ \A j \in DOMAIN ctx[t].control :
                                i < j /\ ctx[t].control[j].kind = "seq" =>
                                  f.size + ctx[t].control[j].outArity <= ctx[t].control[j].size
    BY DEF WindowsInStack
  <2> DEFINE c == ctx[t]
             size == Len(c.stack)
  <2>1. Fits(c) /\ IsSeq(c.control) BY IsFit
  <2>2. c.argPos + c.argNum + c.arity <= size BY <2>1, FitsFacts
  <2>3. PICK l \in Levels : Layout(c.control, l) /\ Now(c, l) BY <2>1 DEF Fits
  <2>4. ASSUME NEW i \in DOMAIN c.control, c.control[i].kind = "seq"
        PROVE  LET f == c.control[i] IN
               /\ f.argPos + f.inArity + f.outArity <= f.size /\ f.size + c.arity <= size
               /\ \A j \in DOMAIN c.control :
                    i < j /\ c.control[j].kind = "seq" =>
                      f.size + c.control[j].outArity <= c.control[j].size
    <3> DEFINE f == c.control[i]
    <3>1. /\ f.argPos + f.inArity + f.outArity <= f.size /\ f.size <= l.window /\ f.size \in Nat
          /\ \A j \in DOMAIN c.control :
               i < j /\ c.control[j].kind = "seq" =>
                 f.size + c.control[j].outArity <= c.control[j].size
      BY <2>1, <2>3, <2>4, LayoutWindows
    <3>2. c.arity \in Nat /\ l.window \in Nat /\ l.window + c.arity = size
      BY <2>3 DEF Now, Levels
    <3> HIDE DEF f, c, size
    <3>3. f.size + c.arity <= size BY <3>1, <3>2
    <3>4. QED BY <3>1, <3>3 DEF f
  <2>5. QED BY <2>2, <2>4
<1>2. QED BY <1>1, MachineInvariance, PTL

(* A node that takes a frame off the control stack finds one of its own kind  *)
(* there, through calls, branches, forks and chains (InternalForm.cpp, exec). *)
THEOREM FramesMatchNodes == ASSUME LibraryPushesTuples PROVE Spec => []ControlMatches
<1>1. IInv => ControlMatches
  <2> SUFFICES ASSUME IInv, NEW t \in DOMAIN ctx
               PROVE  /\ At(t, "SeqEnd") => Top(t, "seq")
                      /\ At(t, "CondChoose") => Top(t, "cond") /\ Frame(t).outArity <= ctx[t].arity
                      /\ At(t, "Ret") => Top(t, "ret")
    BY DEF ControlMatches
  <2>1. \A op : At(t, op) => ctx[t].code # << >> /\ Head(ctx[t].code).op = op
    BY DEF At, Node
  <2>2. ASSUME NEW op, At(t, op)
        PROVE  CtxOK(ctx[t], Blocks, Names) /\ Blocky(Blocks, Names)
    <3>1. Sane BY <2>2 DEF At, Active, Over, IInv
    <3>2. QED BY <3>1, Steps
  <2>3. At(t, "SeqEnd") => Top(t, "seq") BY <2>1, <2>2, ContextSeqEnd DEF Top
  <2>4. At(t, "CondChoose") => Top(t, "cond") /\ Frame(t).outArity <= ctx[t].arity
    BY <2>1, <2>2, ContextCondChoose DEF Top, Frame
  <2>5. At(t, "Ret") => Top(t, "ret") BY <2>1, <2>2, ContextRet DEF Top
  <2>6. QED BY <2>3, <2>4, <2>5
<1>2. QED BY <1>1, MachineInvariance, PTL

(* A context whose code is over has no frame open and nothing left to join,   *)
(* and its stack is its arguments and its results (EvaluatorUnit.cpp, run).   *)
THEOREM TasksEndBalanced == ASSUME LibraryPushesTuples PROVE Spec => []EndsBalanced
<1>1. IInv => EndsBalanced
  <2> SUFFICES ASSUME IInv, NEW t \in DOMAIN ctx, ctx[t].code = << >>
               PROVE  /\ ctx[t].control = << >> /\ ctx[t].pending = << >> /\ ctx[t].argPos = 0
                      /\ Len(ctx[t].stack) = ctx[t].argNum + ctx[t].arity
    BY DEF EndsBalanced
  <2> DEFINE c == ctx[t]
             p == Len(c.pending)
             size == Len(c.stack)
  <2>1. Fits(c) /\ Fields(c) /\ IsSeq(c.control) /\ Typed(<< >>, c.control, p, TRUE)
    BY IsFit DEF Runs
  <2>2. IsSeq(c.pending) BY <2>1 DEF Fields
  <2>3. p \in Nat /\ (c.pending # << >> => p > 0) BY <2>2, SeqFacts
  <2>4. c.control = << >> /\ p = 0 BY <2>1, <2>3, TypedDone
  <2>5. c.pending = << >> BY <2>3, <2>4
  <2>6. PICK l \in Levels : Layout(c.control, l) /\ Now(c, l) BY <2>1 DEF Fits
  <2>7. l.pos = 0 /\ l.num = l.window
    <3>1. Len(c.control) = 0 BY <2>4, SeqNone
    <3>2. PICK L : Leveled(c.control, L) /\ L[0] = l BY <2>6, <3>1 DEF Layout
    <3>3. QED BY <3>2 DEF Leveled
  <2>8. c.argPos = 0 /\ size = c.argNum + c.arity BY <2>6, <2>7 DEF Now
  <2>9. QED BY <2>4, <2>5, <2>8
<1>2. QED BY <1>1, MachineInvariance, PTL

(* Every pending task of a needed context exists and is needed, and a needed  *)
(* context that is at a join has one pending of its own: so that join gets    *)
(* the results of the task it is for.  Until a canceled task that has skipped *)
(* its fork takes what one beneath it on the worker waits for, after which    *)
(* joins do not always deliver (EvaluatorUnit.cpp, join; Context.cpp, spawn). *)
THEOREM JoinsDeliver == ASSUME LibraryPushesTuples PROVE Spec => []NeededJoinsDeliver
<1>1. IInv => NeededJoinsDeliver
  <2> SUFFICES ASSUME IInv, robbed = {}, NEW t \in DOMAIN ctx, ~ctx[t].canceled
               PROVE  /\ \A i \in DOMAIN ctx[t].pending : LET u == ctx[t].pending[i] IN
                           u \in DOMAIN ctx /\ ~ctx[u].canceled
                      /\ ctx[t].code # << >> /\ Node(t).op = "ParJoin" => ctx[t].pending # << >>
    BY DEF NeededJoinsDeliver
  <2> DEFINE c == ctx[t]
             p == Len(c.pending)
  <2>1. Sane BY DEF IInv
  <2>2. Needs(ctx, t) /\ Fields(c) /\ CtxOK(c, Blocks, Names) BY <2>1, Steps
  <2>3. IsSeq(c.pending) BY <2>2 DEF Fields
  <2>4. p \in Nat /\ DOMAIN c.pending = 1 .. p BY <2>3, SeqFacts
  <2>5. \A i \in DOMAIN c.pending : c.pending[i] \in DOMAIN ctx /\ ~ctx[c.pending[i]].canceled
    BY <2>2, <2>4 DEF Needs
  <2>6. ASSUME c.code # << >>, Node(t).op = "ParJoin" PROVE c.pending # << >>
    <3>1. IsSeq(c.code) /\ IsSeq(c.control) /\ Typed(c.code, c.control, p, c.canceled)
      BY <2>2 DEF CtxOK, Runs
    <3>2. Head(c.code).op = "ParJoin" BY <2>6 DEF Node
    <3>3. p # 0
      <4> HIDE DEF p, c
      <4>1. c.canceled \/ p # 0 BY <2>4, <2>6, <3>1, <3>2, TypedParJoin
      <4>2. QED BY <4>1 DEF c
    <3>4. QED BY <3>3, SeqNone
  <2>7. QED BY <2>5, <2>6
<1>2. QED BY <1>1, MachineInvariance, PTL
-----------------------------------------------------------------------------
(* The library of the project is such a library.                              *)
Standard == INSTANCE Library WITH Slow <- "slow"

(* Every registered function throws or pushes a tuple, and so does a name     *)
(* that nobody has registered (FunctionLibrary.cpp, StandardLib.cpp).         *)
THEOREM LibraryReturnsTuples ==
  ASSUME NEW fn, NEW args, IsSeq(args)
  PROVE  LET values == Standard!getFunction(fn, args) IN values = Fault \/ IsSeq(values)
<1> DEFINE Tuple(values) == values = Fault \/ IsSeq(values)
<1>1. ASSUME NEW x PROVE IsSeq(<<x>>) BY SeqOne
<1>2. Tuple(Standard!Add(args)) BY <1>1, Zenon DEF Standard!Add
<1>3. Tuple(Standard!Binary(fn, args)) BY <1>1, Zenon DEF Standard!Binary
<1>4. Tuple(Standard!Boolean(fn, args)) BY <1>1 DEF Standard!Boolean
<1>5. Tuple(Standard!Not(args)) BY <1>1 DEF Standard!Not
<1>6. Tuple(Standard!Abs(args)) BY <1>1 DEF Standard!Abs
<1>7. Tuple(Standard!ToInteger(args)) BY <1>1 DEF Standard!ToInteger
<1> DEFINE values == Standard!getFunction(fn, args)
<1>8. \/ values \in {Standard!Add(args), Standard!Binary(fn, args), Standard!Boolean(fn, args),
                     Standard!Not(args), Standard!Abs(args), Standard!ToInteger(args), args}
      \/ values = <<Standard!createInt(Len(args))>> \/ values = <<Standard!createUndefinedValue>>
  BY DEF Standard!getFunction
<1>9. IsSeq(<<Standard!createInt(Len(args))>>) /\ IsSeq(<<Standard!createUndefinedValue>>)
  BY <1>1
<1>10. Tuple(args) OBVIOUS
<1> HIDE DEF values, Tuple
<1>11. Tuple(values)
  <2>1. \A x : IsSeq(x) => Tuple(x) BY DEF Tuple
  <2>2. QED BY <2>1, <1>2, <1>3, <1>4, <1>5, <1>6, <1>7, <1>8, <1>9, <1>10
<1>12. QED BY <1>11 DEF Tuple, values
=============================================================================
