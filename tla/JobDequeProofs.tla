--------------------------- MODULE JobDequeProofs ---------------------------
(* Proofs that a deque of the kind LockFreeWorkStealingQueue.h promises      *)
(* hands out every pushed job exactly once, for any number of thieves and    *)
(* jobs.  IInv is inductive; each action is a lemma.                         *)
EXTENDS JobDeque, TLAPS

(* SubSeq(s, 1, m) is the first m elements of s.                             *)
LEMMA FrontOfSeq ==
  ASSUME NEW S, NEW s \in Seq(S), NEW m \in 0 .. Len(s)
  PROVE  /\ SubSeq(s, 1, m) \in Seq(S)
         /\ Len(SubSeq(s, 1, m)) = m
         /\ \A i \in 1 .. m : SubSeq(s, 1, m)[i] = s[i]
OBVIOUS

(* An empty deque has its jobs in one place.                                 *)
LEMMA InitIInv == Init => IInv
BY JobsAssumption DEF Init, IInv, TypeOK, DeliveredOnce, NoneLost, InOnePlace, Jobs, NoJob

(* push: the new job is younger than every other and in the deque only.      *)
LEMMA PushStep == IInv /\ Push => IInv'
<1> SUFFICES ASSUME IInv, Push PROVE IInv'
  OBVIOUS
<1> USE DEF IInv, Push, Jobs, NoJob
<1>1. /\ pushed \in Nat /\ pushed + 1 \in 1 .. MaxJobs
      /\ pushed' = pushed + 1 /\ hand' = hand /\ delivered' = delivered
      /\ deque' = Append(deque, pushed + 1)
  BY JobsAssumption DEF TypeOK
<1>2. /\ Len(deque) \in Nat
      /\ \A i \in 1 .. Len(deque) : deque[i] \in 1 .. pushed
  BY DEF TypeOK
<1>3. /\ Len(deque') = Len(deque) + 1
      /\ deque'[Len(deque) + 1] = pushed + 1
      /\ \A i \in 1 .. Len(deque) : deque'[i] = deque[i]
  BY <1>1, <1>2 DEF TypeOK
<1>4. TypeOK'
  <2>1. deque \in Seq(1 .. pushed + 1)
    BY <1>1 DEF TypeOK
  <2> QED BY <1>1, <2>1 DEF TypeOK
<1>5. DeliveredOnce'
  BY <1>1 DEF DeliveredOnce
<1>6. NoneLost'
  <2> SUFFICES ASSUME NEW j \in 1 .. pushed + 1
               PROVE  \/ \E i \in 1 .. Len(deque') : deque'[i] = j
                      \/ \E a \in Takers : hand[a] = j
                      \/ delivered[j] # 0
    BY <1>1 DEF NoneLost
  <2>1. CASE j = pushed + 1
    BY <2>1, <1>2, <1>3
  <2>2. CASE j \in 1 .. pushed
    BY <2>2, <1>2, <1>3 DEF NoneLost
  <2> QED BY <1>1, <2>1, <2>2
<1>7. InOnePlace'
  <2>0. \A i \in 1 .. Len(deque') :
          \/ i \in 1 .. Len(deque) /\ deque'[i] = deque[i]
          \/ i = Len(deque) + 1 /\ deque'[i] = pushed + 1
    <3>1. \A i \in 1 .. Len(deque') : i \in 1 .. Len(deque) \/ i = Len(deque) + 1
      BY <1>2, <1>3
    <3> SUFFICES ASSUME NEW i \in 1 .. Len(deque')
                 PROVE  \/ i \in 1 .. Len(deque) /\ deque'[i] = deque[i]
                        \/ i = Len(deque) + 1 /\ deque'[i] = pushed + 1
      OBVIOUS
    <3>2. CASE i \in 1 .. Len(deque)
      BY <1>3, <3>2
    <3>3. CASE i = Len(deque) + 1
      BY <1>3, <3>3
    <3> QED BY <3>1, <3>2, <3>3
  <2>1. ASSUME NEW i \in 1 .. Len(deque'), NEW k \in 1 .. Len(deque'), i < k
        PROVE  deque'[i] < deque'[k]
    <3>1. i \in 1 .. Len(deque) /\ deque'[i] = deque[i]
      BY <2>0, <2>1, <1>2, <1>3
    <3>2. CASE k \in 1 .. Len(deque) /\ deque'[k] = deque[k]
      BY <3>1, <3>2, <2>1 DEF InOnePlace
    <3>3. CASE deque'[k] = pushed + 1
      <4>1. deque[i] \in 1 .. pushed
        BY <3>1, <1>2
      <4> QED BY <3>1, <3>3, <4>1, <1>1
    <3> QED BY <2>0, <3>2, <3>3
  <2>2. \A i \in 1 .. Len(deque') : delivered[deque'[i]] = 0
    BY <1>1, <1>2, <1>3 DEF InOnePlace
  <2>3. \A i \in 1 .. Len(deque'), a \in Takers : deque'[i] # hand[a]
    BY <1>1, <1>2, <1>3 DEF InOnePlace, TypeOK
  <2>4. \A j \in Jobs : j > pushed' => delivered[j] = 0
    BY <1>1 DEF InOnePlace
  <2> QED BY <1>1, <2>1, <2>2, <2>3, <2>4 DEF InOnePlace
<1> QED BY <1>4, <1>5, <1>6, <1>7

(* pop: the owner's hand was empty and receives the last job, which leaves   *)
(* the deque.                                                                *)
LEMMA TakeBackStep == IInv /\ TakeBack => IInv'
<1> SUFFICES ASSUME IInv, TakeBack PROVE IInv'
  OBVIOUS
<1> USE DEF IInv, TakeBack, Jobs, NoJob, Takers
<1> DEFINE n == Len(deque)
<1>1. /\ n \in Nat /\ n > 0 /\ deque[n] \in 1 .. pushed
      /\ \A i \in 1 .. n : deque[i] \in 1 .. pushed
  BY DEF TypeOK
<1>2. /\ deque' \in Seq(1 .. pushed) /\ Len(deque') = n - 1
      /\ \A i \in 1 .. n - 1 : deque'[i] = deque[i]
  <2>1. deque \in Seq(1 .. pushed) /\ n - 1 \in 0 .. Len(deque) /\ deque' = SubSeq(deque, 1, n - 1)
    BY <1>1 DEF TypeOK
  <2> HIDE DEF n, IInv, TakeBack
  <2>2. /\ SubSeq(deque, 1, n - 1) \in Seq(1 .. pushed)
        /\ Len(SubSeq(deque, 1, n - 1)) = n - 1
        /\ \A i \in 1 .. n - 1 : SubSeq(deque, 1, n - 1)[i] = deque[i]
    BY <2>1, FrontOfSeq
  <2> QED BY <2>1, <2>2
<1>3. /\ pushed' = pushed /\ delivered' = delivered /\ pushed \in Nat
      /\ hand'[Owner] = deque[n] /\ hand[Owner] = NoJob
      /\ \A a \in Thieves : hand'[a] = hand[a]
  BY JobsAssumption DEF TypeOK
<1>4. TypeOK'
  BY <1>1, <1>2, <1>3 DEF TypeOK
<1>5. DeliveredOnce'
  BY <1>3 DEF DeliveredOnce
<1>6. NoneLost'
  <2> SUFFICES ASSUME NEW j \in 1 .. pushed
               PROVE  \/ \E i \in 1 .. n - 1 : deque'[i] = j
                      \/ \E a \in Takers : hand'[a] = j
                      \/ delivered[j] # 0
    BY <1>2, <1>3 DEF NoneLost
  <2>1. CASE \E i \in 1 .. n : deque[i] = j
    BY <1>1, <1>2, <1>3, <2>1
  <2>2. CASE \E a \in Takers : hand[a] = j
    BY <1>3, <2>2
  <2> QED BY <2>1, <2>2 DEF NoneLost
<1>7. InOnePlace'
  <2>1. \A i, k \in 1 .. Len(deque') : i < k => deque'[i] < deque'[k]
    BY <1>1, <1>2 DEF InOnePlace
  <2>2. \A a, b \in Takers : a # b /\ hand'[a] # NoJob => hand'[a] # hand'[b]
    BY <1>1, <1>3 DEF InOnePlace
  <2>3. \A i \in 1 .. Len(deque') : delivered[deque'[i]] = 0
    BY <1>1, <1>2 DEF InOnePlace
  <2>4. \A i \in 1 .. Len(deque'), a \in Takers : deque'[i] # hand'[a]
    BY <1>1, <1>2, <1>3 DEF InOnePlace
  <2>5. \A a \in Takers : hand'[a] # NoJob => delivered[hand'[a]] = 0
    BY <1>1, <1>3 DEF InOnePlace
  <2> QED BY <1>3, <2>1, <2>2, <2>3, <2>4, <2>5 DEF InOnePlace
<1> QED BY <1>4, <1>5, <1>6, <1>7

(* steal: the same with the first job and a thief's hand.                    *)
LEMMA TakeFrontStep == ASSUME IInv, NEW t \in Thieves, TakeFront(t) PROVE IInv'
<1> USE DEF IInv, TakeFront, Jobs, NoJob, Takers
<1> DEFINE n == Len(deque)
<1>1. /\ n \in Nat /\ n > 0 /\ deque[1] \in 1 .. pushed /\ Head(deque) = deque[1]
      /\ \A i \in 1 .. n : deque[i] \in 1 .. pushed
  BY DEF TypeOK
<1>2. /\ deque' \in Seq(1 .. pushed) /\ Len(deque') = n - 1
      /\ \A i \in 1 .. n - 1 : deque'[i] = deque[i + 1]
  BY <1>1 DEF TypeOK
<1>3. /\ pushed' = pushed /\ delivered' = delivered /\ pushed \in Nat
      /\ hand'[t] = deque[1] /\ hand[t] = NoJob
      /\ \A a \in Takers \ {t} : hand'[a] = hand[a]
  BY <1>1 DEF TypeOK
<1>4. TypeOK'
  BY <1>1, <1>2, <1>3 DEF TypeOK
<1>5. DeliveredOnce'
  BY <1>3 DEF DeliveredOnce
<1>6. NoneLost'
  <2> SUFFICES ASSUME NEW j \in 1 .. pushed
               PROVE  \/ \E i \in 1 .. n - 1 : deque'[i] = j
                      \/ \E a \in Takers : hand'[a] = j
                      \/ delivered[j] # 0
    BY <1>2, <1>3 DEF NoneLost
  <2>1. CASE \E i \in 1 .. n : deque[i] = j
    <3> PICK i \in 1 .. n : deque[i] = j
      BY <2>1
    <3>1. CASE i = 1
      BY <1>3, <3>1
    <3>2. CASE i # 1
      <4>1. i - 1 \in 1 .. n - 1 /\ deque'[i - 1] = j
        BY <1>1, <1>2, <3>2
      <4> QED BY <4>1
    <3> QED BY <3>1, <3>2
  <2>2. CASE \E a \in Takers : hand[a] = j
    BY <1>3, <2>2
  <2> QED BY <2>1, <2>2 DEF NoneLost
<1>7. InOnePlace'
  <2>1. \A i, k \in 1 .. Len(deque') : i < k => deque'[i] < deque'[k]
    BY <1>1, <1>2 DEF InOnePlace
  <2>2. \A a, b \in Takers : a # b /\ hand'[a] # NoJob => hand'[a] # hand'[b]
    BY <1>1, <1>3 DEF InOnePlace
  <2>3. \A i \in 1 .. Len(deque') : delivered[deque'[i]] = 0
    BY <1>1, <1>2 DEF InOnePlace
  <2>4. \A i \in 1 .. Len(deque'), a \in Takers : deque'[i] # hand'[a]
    BY <1>1, <1>2, <1>3 DEF InOnePlace
  <2>5. \A a \in Takers : hand'[a] # NoJob => delivered[hand'[a]] = 0
    BY <1>1, <1>3 DEF InOnePlace
  <2> QED BY <1>3, <2>1, <2>2, <2>3, <2>4, <2>5 DEF InOnePlace
<1> QED BY <1>4, <1>5, <1>6, <1>7

(* The job received was in one hand only and had not been received.          *)
LEMMA ReceiveStep == ASSUME IInv, NEW a \in Takers, Receive(a) PROVE IInv'
<1> USE DEF IInv, Receive, Jobs, NoJob
<1>1. hand[a] \in 1 .. pushed /\ pushed \in Nat /\ pushed <= MaxJobs
  BY JobsAssumption DEF TypeOK
<1>2. /\ pushed' = pushed /\ deque' = deque
      /\ hand'[a] = NoJob
      /\ \A b \in Takers \ {a} : hand'[b] = hand[b]
  BY DEF TypeOK
<1>3. /\ delivered[hand[a]] = 0 /\ delivered'[hand[a]] = 1
      /\ \A j \in (Jobs \cup {NoJob}) \ {hand[a]} : delivered'[j] = delivered[j]
  BY <1>1, JobsAssumption DEF TypeOK, InOnePlace
<1>4. TypeOK'
  BY <1>1, <1>2, <1>3, JobsAssumption DEF TypeOK
<1>5. DeliveredOnce'
  BY <1>1, <1>3, JobsAssumption DEF DeliveredOnce
<1>6. NoneLost'
  BY <1>1, <1>2, <1>3, JobsAssumption DEF NoneLost
<1>7. InOnePlace'
  <2>1. \A i \in 1 .. Len(deque) : deque[i] \in 1 .. pushed /\ deque[i] # hand[a]
    BY DEF TypeOK, InOnePlace
  <2>2. \A b \in Takers : hand[b] \in 0 .. pushed
    BY DEF TypeOK
  <2>3. \A i \in 1 .. Len(deque) : delivered'[deque[i]] = 0
    BY <1>1, <1>3, <2>1, JobsAssumption DEF InOnePlace
  <2>4. \A b \in Takers : hand'[b] # NoJob => delivered'[hand'[b]] = 0
    BY <1>1, <1>2, <1>3, <2>2, JobsAssumption DEF InOnePlace
  <2>5. \A b, c \in Takers : b # c /\ hand'[b] # NoJob => hand'[b] # hand'[c]
    BY <1>2 DEF InOnePlace
  <2>6. \A i \in 1 .. Len(deque), b \in Takers : deque[i] # hand'[b]
    BY <1>1, <1>2, <2>1 DEF InOnePlace
  <2>7. \A j \in Jobs : j > pushed => delivered'[j] = 0
    BY <1>1, <1>3 DEF InOnePlace
  <2> QED BY <1>2, <2>3, <2>4, <2>5, <2>6, <2>7 DEF InOnePlace
<1> QED BY <1>4, <1>5, <1>6, <1>7

(* Every step of the deque preserves IInv.                                   *)
LEMMA NextIInv == IInv /\ [Next]_vars => IInv'
<1>1. IInv /\ UNCHANGED vars => IInv'
  BY DEF IInv, TypeOK, DeliveredOnce, NoneLost, InOnePlace, vars
<1> QED BY <1>1, PushStep, TakeBackStep, TakeFrontStep, ReceiveStep DEF Next

(* For any thieves and any number of jobs, IInv always holds.                *)
THEOREM Invariance == Spec => []IInv
BY InitIInv, NextIInv, PTL DEF Spec

(* No job is received twice and nothing else is received: a deque of the     *)
(* kind push, pop and steal promise never lets two workers run one task.     *)
THEOREM ExactlyOnce == Spec => []DeliveredOnce
BY Invariance, PTL DEF IInv

(* Every job pushed stays in the deque until a pop or a steal takes it and   *)
(* receives it: no forked task is lost.                                      *)
THEOREM Conservation == Spec => []NoneLost
BY Invariance, PTL DEF IInv
=============================================================================
