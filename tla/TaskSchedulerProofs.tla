------------------------ MODULE TaskSchedulerProofs ------------------------
(* Proofs about TaskScheduler for any workers, any tasks and any programs    *)
(* that join what they fork.  A task is in one place at a time, the one who  *)
(* joins it takes it out of pendingTasks, and no context is deleted before   *)
(* that: also when a canceled task skips its forks and then joins what is    *)
(* not its own, because what is left to join always outnumbers what is left  *)
(* above the task waited for.  For programs whose forks and joins nest, the  *)
(* tasks not joined yet are in layers, one per frame, and every join is of   *)
(* the task its code means (JoinsMeant).                                     *)
EXTENDS TaskScheduler, Integers, FiniteSetTheorems, SequenceTheorems, TLAPS

(* What a worker executes: a body's instructions and what they turn into.    *)
Expansions ==
  {Add(t) : t \in Tasks} \cup {CancelAt(n) : n \in {1, 2}} \cup {Visit(t) : t \in Tasks}
    \cup {Mark(t) : t \in Tasks} \cup {Stop(t) : t \in Tasks}
    \cup {Erase(n, t) : n \in {1, 2}, t \in Tasks} \cup {Await(t, m) : t \in Tasks, m \in Tasks}
Instruction == Instructions \cup Expansions
Frame == [task : Tasks, code : Seq(Instruction)]

Types ==
  /\ body \in Programs
  /\ frames \in [Workers -> Seq(Frame)]
  /\ pending \in [Workers -> Seq(Tasks)]
  /\ jobs \in [Workers -> Seq(Tasks)]
  /\ spec \in [Workers -> Seq(Tasks)]
  /\ grabbed \in [Workers -> Tasks \cup {NoTask}]
  /\ ready \subseteq Tasks /\ working \subseteq Tasks /\ proactive \subseteq Tasks
  /\ newLevel \subseteq Tasks /\ canceled \subseteq Tasks /\ deleted \subseteq Tasks
  /\ childs \in [Tasks -> SUBSET Tasks]
  /\ \A t \in Tasks : IsFiniteSet(childs[t])

-----------------------------------------------------------------------------
(* The tasks that were forked, and where they are.                           *)
Members(q) == UNION {ToSet(q[w]) : w \in Workers}
Once(q) ==
  \A v, w \in Workers : \A i \in 1 .. Len(q[v]), j \in 1 .. Len(q[w]) :
     q[v][i] = q[w][j] => v = w /\ i = j

Known  == {Main} \cup UNION {childs[p] : p \in Tasks}
Stack  == [w \in Workers |-> [i \in 1 .. Len(frames[w]) |-> frames[w][i].task]]
Hand   == {grabbed[w] : w \in Workers} \ {NoTask}
Queued == Members(jobs) \cup Members(spec) \cup Hand
Held   == Members(Stack) \cup Queued

OnePlace ==
  /\ Once(Stack) /\ Once(jobs) /\ Once(spec)
  /\ \A v, w \in Workers : grabbed[v] = grabbed[w] => v = w \/ grabbed[v] = NoTask
  /\ Members(Stack) \cap Queued = {}
  /\ Members(jobs) \cap Members(spec) = {}
  /\ (Members(jobs) \cup Members(spec)) \cap Hand = {}
Forked ==
  /\ Held \subseteq Known /\ ready \subseteq Known /\ Members(pending) \subseteq Known
  /\ \A t \in Tasks : t \in Queued \/ t \notin Known => childs[t] = {}
  /\ \A t \in Tasks : childs[t] \subseteq Forks(t)

(* A finished task that was not canceled is nowhere any more.                *)
Gone ==
  /\ ready \cap Held \subseteq canceled
  /\ deleted \subseteq ready
  /\ deleted \cap Held = {}
  /\ deleted \cap Members(pending) = {}

-----------------------------------------------------------------------------
(* The code that is left in a frame.                                         *)
ForksAs(x, t) == x \in Forking(t) \cup {Add(t)}
ShapeAt(c, i, X, K) ==
  /\ c[i].op \in {"add", "await"} => i = 1
  /\ c[i].op \in {"cancelAt", "erase"} /\ c[i].pos = 2 => i < Len(c) /\ c[i + 1].op = "join"
  /\ c[i].op = "stop" => c[i].task \in X \/ (i > 1 /\ c[i - 1] = Mark(c[i].task))
  /\ c[i].op \in {"visit", "mark", "stop", "await"} => c[i].task \in K
CodeShape(c, X, K) == \A i \in 1 .. Len(c) : ShapeAt(c, i, X, K)
ForksLeft(c, F) ==
  \A i \in 1 .. Len(c), t \in Tasks : ForksAs(c[i], t) =>
    /\ t \in F
    /\ \A j \in 1 .. Len(c) : ForksAs(c[j], t) => i = j
Codes == \A w \in Workers : \A i \in 1 .. Len(frames[w]) :
           LET f == frames[w][i] IN
           /\ CodeShape(f.code, canceled, Known)
           /\ ForksLeft(f.code, Forks(f.task) \ childs[f.task])

(* n is a lower bound of what the code c joins and cancels more than it      *)
(* forks, and so is h[i] for what is left of it from instruction i on.       *)
Removes(x) ==
  IF x.op = "choose" THEN (IF x.then = NoTask THEN 0 ELSE 1) + (IF x.else = NoTask THEN 0 ELSE 1)
  ELSE IF x.op \in {"join", "await", "cancelAt", "erase"} THEN 1 ELSE 0
Spawns(x) == IF x.op \in {"fork", "speculate", "add"} THEN 1 ELSE 0
Owes(c, n) ==
  \E h \in [1 .. Len(c) + 1 -> Nat] :
    /\ h[1] = n /\ h[Len(c) + 1] = 0
    /\ \A i \in 1 .. Len(c) : h[i] + Spawns(c[i]) <= h[i + 1] + Removes(c[i])

(* b[i] is a lower bound of what the frames above frame i will remove from   *)
(* pendingTasks.  It is an upper bound of what lies above a task that frame  *)
(* i waits for, or that it forked.                                           *)
Awaits(f, t) == f.code # << >> /\ Head(f.code).op = "await" /\ Head(f.code).task = t
Bounds(fs, b) ==
  LET n == Len(fs) IN
  /\ b \in [0 .. n -> Nat] /\ b[n] = 0
  /\ \A i, j \in 0 .. n : i <= j => b[j] <= b[i]
  /\ \A i \in 1 .. n : Owes(fs[i].code, b[i - 1] - b[i])
Covered(fs, ps, b) ==
  \A k \in 1 .. Len(ps) :
    /\ \E i \in 1 .. Len(fs) : ps[k] \in Forks(fs[i].task) /\ Len(ps) - k < b[i - 1]
    /\ \A i \in 1 .. Len(fs) : Awaits(fs[i], ps[k]) => Len(ps) - k <= b[i]
Covers(w) == \E b : Bounds(frames[w], b) /\ Covered(frames[w], pending[w], b)
AwaitsOwn ==
  \A v, w \in Workers : \A i \in 1 .. Len(frames[w]), t \in Tasks :
    Awaits(frames[w][i], t) /\ t \in ToSet(pending[v]) => v = w
Pending ==
  /\ Once(pending) /\ AwaitsOwn
  /\ \A w \in Workers : Covers(w)

IInv == Types /\ OnePlace /\ Forked /\ Gone /\ Codes /\ Pending

-----------------------------------------------------------------------------
(* Sequences and families of sequences.                                      *)
LEMMA FrontAndLast ==
  ASSUME NEW S, NEW s \in Seq(S), s # << >>
  PROVE  /\ Len(s) \in Nat \ {0}
         /\ Front(s) \in Seq(S) /\ Len(Front(s)) = Len(s) - 1
         /\ \A i \in 1 .. Len(s) - 1 : Front(s)[i] = s[i]
         /\ Last(s) = s[Len(s)] /\ Last(s) \in S
<1>1. Len(s) \in Nat \ {0} BY EmptySeq
<1>2. \A i \in 1 .. Len(s) - 1 : s[i] \in S BY <1>1, ElementOfSeq
<1>3. Last(s) = s[Len(s)] /\ Last(s) \in S BY <1>1, ElementOfSeq DEF Last
<1> DEFINE n == Len(s) - 1
<1>4. n \in Nat /\ 1 \in Int /\ n \in Int /\ n - 1 + 1 = n BY <1>1
<1>5. \A i \in 1 .. n : 1 + i - 1 = i OBVIOUS
<1> HIDE DEF n
<1>6. /\ SubSeq(s, 1, n) \in Seq(S)
      /\ Len(SubSeq(s, 1, n)) = IF 1 <= n THEN n - 1 + 1 ELSE 0
      /\ \A i \in 1 .. n - 1 + 1 : SubSeq(s, 1, n)[i] = s[1 + i - 1]
  <2>1. \A i \in 1 .. n : s[i] \in S BY <1>2 DEF n
  <2>2. QED BY <1>4, <2>1, SubSeqProperties
<1>7. /\ SubSeq(s, 1, n) \in Seq(S) /\ Len(SubSeq(s, 1, n)) = n
      /\ \A i \in 1 .. n : SubSeq(s, 1, n)[i] = s[i]
  BY <1>4, <1>5, <1>6
<1>8. QED BY <1>1, <1>3, <1>7 DEF Front, n

(* What erasing the element at a position leaves.                            *)
LEMMA Removing ==
  ASSUME NEW S, NEW s \in Seq(S), NEW k \in 1 .. Len(s)
  PROVE  /\ RemoveAt(s, k) \in Seq(S) /\ Len(RemoveAt(s, k)) = Len(s) - 1
         /\ \A i \in 1 .. Len(s) - 1 : RemoveAt(s, k)[i] = IF i < k THEN s[i] ELSE s[i + 1]
<1> DEFINE a == SubSeq(s, 1, k - 1)
           z == SubSeq(s, k + 1, Len(s))
<1>1. Len(s) \in Nat /\ k \in Nat BY LenProperties
<1>2. \A i \in 1 .. Len(s) : s[i] \in S BY ElementOfSeq
<1>3. a \in Seq(S) /\ Len(a) = k - 1 /\ \A i \in 1 .. k - 1 : a[i] = s[i]
  BY <1>1, <1>2, SubSeqProperties
<1>4. z \in Seq(S) /\ Len(z) = Len(s) - k /\ \A i \in 1 .. Len(s) - k : z[i] = s[k + i]
  BY <1>1, <1>2, SubSeqProperties
<1>5. /\ a \o z \in Seq(S) /\ Len(a \o z) = Len(a) + Len(z)
      /\ \A i \in 1 .. Len(a) + Len(z) : (a \o z)[i] = IF i <= Len(a) THEN a[i] ELSE z[i - Len(a)]
  BY <1>3, <1>4, ConcatProperties
<1>6. RemoveAt(s, k) = a \o z BY DEF RemoveAt
<1> HIDE DEF a, z
<1>7. Len(a) + Len(z) = Len(s) - 1 BY <1>1, <1>3, <1>4
<1>8. ASSUME NEW i \in 1 .. Len(s) - 1
      PROVE  (a \o z)[i] = IF i < k THEN s[i] ELSE s[i + 1]
  <2>1. CASE i < k BY <2>1, <1>1, <1>3, <1>5, <1>7
  <2>2. CASE ~(i < k)
    <3>1. i - Len(a) \in 1 .. Len(s) - k /\ k + (i - Len(a)) = i + 1 BY <2>2, <1>1, <1>3
    <3>2. (a \o z)[i] = z[i - Len(a)] BY <2>2, <1>1, <1>3, <1>5, <1>7
    <3>3. QED BY <2>2, <3>1, <3>2, <1>4
  <2>3. QED BY <2>1, <2>2
<1>9. QED BY <1>5, <1>6, <1>7, <1>8

(* The members of a map of queues, by place.                                 *)
LEMMA MemberOf ==
  ASSUME NEW q \in [Workers -> Seq(Tasks)]
  PROVE  \A t : t \in Members(q) <=> \E w \in Workers : \E i \in 1 .. Len(q[w]) : q[w][i] = t
<1>1. \A w \in Workers : DOMAIN q[w] = 1 .. Len(q[w]) BY LenProperties
<1>2. QED BY <1>1 DEF Members, ToSet

(* r is q with t at the end of q[w].                                         *)
With(q, r, w, t) == r = [q EXCEPT ![w] = Append(@, t)]

(* Pushing at the back adds one member, and keeps each at one place if the   *)
(* new one was at none.                                                      *)
LEMMA Appended ==
  ASSUME NEW q \in [Workers -> Seq(Tasks)], NEW w \in Workers, NEW t \in Tasks, NEW r,
         With(q, r, w, t)
  PROVE  /\ r \in [Workers -> Seq(Tasks)]
         /\ Members(r) = Members(q) \cup {t}
         /\ Once(q) /\ t \notin Members(q) => Once(r)
<1>0. r = [q EXCEPT ![w] = Append(@, t)] BY DEF With
<1>1. r \in [Workers -> Seq(Tasks)] BY <1>0, AppendProperties
<1>2. /\ Len(q[w]) \in Nat /\ Len(r[w]) = Len(q[w]) + 1 /\ r[w][Len(q[w]) + 1] = t
      /\ \A i \in 1 .. Len(q[w]) : r[w][i] = q[w][i]
      /\ \A v \in Workers \ {w} : r[v] = q[v]
  BY <1>0, AppendProperties, LenProperties
<1>a. \A x : x \in Members(q) <=> \E v \in Workers : \E i \in 1 .. Len(q[v]) : q[v][i] = x
  BY MemberOf
<1>b. \A x : x \in Members(r) <=> \E v \in Workers : \E i \in 1 .. Len(r[v]) : r[v][i] = x
  BY <1>1, MemberOf
<1>3. Members(r) = Members(q) \cup {t}
  <2>1. ASSUME NEW x \in Members(r) PROVE x \in Members(q) \cup {t}
    <3>1. PICK v \in Workers : \E i \in 1 .. Len(r[v]) : r[v][i] = x BY <2>1, <1>b
    <3>2. PICK i \in 1 .. Len(r[v]) : r[v][i] = x BY <3>1
    <3>3. CASE v # w BY <3>2, <3>3, <1>2, <1>a
    <3>4. CASE v = w /\ i <= Len(q[w]) 
      <4>1. i \in 1 .. Len(q[w]) /\ q[w][i] = x BY <3>2, <3>4, <1>2
      <4>2. QED BY <4>1, <1>a
    <3>5. CASE v = w /\ ~(i <= Len(q[w])) BY <3>2, <3>5, <1>2
    <3>6. QED BY <3>3, <3>4, <3>5
  <2>2. ASSUME NEW x \in Members(q) PROVE x \in Members(r)
    <3>1. PICK v \in Workers : \E i \in 1 .. Len(q[v]) : q[v][i] = x BY <2>2, <1>a
    <3>2. PICK i \in 1 .. Len(q[v]) : q[v][i] = x BY <3>1
    <3>3. i \in 1 .. Len(r[v]) /\ r[v][i] = x BY <3>2, <1>2
    <3>4. QED BY <3>3, <1>b
  <2>3. t \in Members(r)
    <3>1. Len(q[w]) + 1 \in 1 .. Len(r[w]) BY <1>2
    <3>2. QED BY <3>1, <1>2, <1>b
  <2>4. QED BY <2>1, <2>2, <2>3
<1>4. ASSUME Once(q), t \notin Members(q) PROVE Once(r)
  <2> SUFFICES ASSUME NEW u \in Workers, NEW v \in Workers,
                      NEW i \in 1 .. Len(r[u]), NEW j \in 1 .. Len(r[v]), r[u][i] = r[v][j]
               PROVE  u = v /\ i = j
    BY DEF Once
  <2>1. \A x \in Workers : \A k \in 1 .. Len(r[x]) :
           \/ x = w /\ k = Len(q[w]) + 1 /\ r[x][k] = t
           \/ k \in 1 .. Len(q[x]) /\ r[x][k] = q[x][k] /\ q[x][k] # t
    <3> SUFFICES ASSUME NEW x \in Workers, NEW k \in 1 .. Len(r[x])
                 PROVE  \/ x = w /\ k = Len(q[w]) + 1 /\ r[x][k] = t
                        \/ k \in 1 .. Len(q[x]) /\ r[x][k] = q[x][k] /\ q[x][k] # t
      OBVIOUS
    <3>1. \A l \in 1 .. Len(q[x]) : q[x][l] # t BY <1>4, <1>a
    <3>2. CASE x # w BY <3>1, <3>2, <1>2
    <3>3. CASE x = w /\ k <= Len(q[w])
      <4>1. k \in 1 .. Len(q[w]) BY <3>3, <1>2
      <4>2. QED BY <4>1, <3>1, <3>3, <1>2
    <3>4. CASE x = w /\ ~(k <= Len(q[w]))
      <4>1. k = Len(q[w]) + 1 BY <3>4, <1>2
      <4>2. QED BY <4>1, <3>4, <1>2
    <3>5. QED BY <3>2, <3>3, <3>4
  <2>2. \/ u = w /\ i = Len(q[w]) + 1 /\ r[u][i] = t
        \/ i \in 1 .. Len(q[u]) /\ r[u][i] = q[u][i] /\ q[u][i] # t
    BY <2>1
  <2>3. \/ v = w /\ j = Len(q[w]) + 1 /\ r[v][j] = t
        \/ j \in 1 .. Len(q[v]) /\ r[v][j] = q[v][j] /\ q[v][j] # t
    BY <2>1
  <2>4. i \in 1 .. Len(q[u]) /\ j \in 1 .. Len(q[v]) /\ q[u][i] = q[v][j] => u = v /\ i = j
    BY <1>4 DEF Once
  <2>5. QED BY <2>2, <2>3, <2>4
<1>5. QED BY <1>1, <1>3, <1>4

(* r is q without the element k of q[w].                                     *)
Without(q, r, w, k) ==
  /\ r \in [Workers -> Seq(Tasks)]
  /\ k \in 1 .. Len(q[w]) /\ Len(q[w]) \in Nat /\ Len(r[w]) = Len(q[w]) - 1
  /\ \A v \in Workers \ {w} : r[v] = q[v]
  /\ \A i \in 1 .. Len(q[w]) - 1 : r[w][i] = IF i < k THEN q[w][i] ELSE q[w][i + 1]

(* Erasing at a position is removing the element there.                      *)
LEMMA WithoutAt ==
  ASSUME NEW q \in [Workers -> Seq(Tasks)], NEW w \in Workers, NEW k \in 1 .. Len(q[w])
  PROVE  Without(q, [q EXCEPT ![w] = RemoveAt(@, k)], w, k)
BY Removing, LenProperties DEF Without

(* pop_back removes the last element.                                        *)
LEMMA WithoutLast ==
  ASSUME NEW q \in [Workers -> Seq(Tasks)], NEW w \in Workers, q[w] # << >>
  PROVE  /\ Without(q, [q EXCEPT ![w] = Front(@)], w, Len(q[w]))
         /\ Last(q[w]) = q[w][Len(q[w])] /\ Last(q[w]) \in Tasks
<1> DEFINE r == [q EXCEPT ![w] = Front(@)]
<1>1. /\ Len(q[w]) \in Nat \ {0} /\ Last(q[w]) = q[w][Len(q[w])] /\ Last(q[w]) \in Tasks
      /\ Front(q[w]) \in Seq(Tasks) /\ Len(Front(q[w])) = Len(q[w]) - 1
      /\ \A i \in 1 .. Len(q[w]) - 1 : Front(q[w])[i] = q[w][i]
  BY FrontAndLast
<1>2. r \in [Workers -> Seq(Tasks)] /\ r[w] = Front(q[w]) /\ \A v \in Workers \ {w} : r[v] = q[v]
  BY <1>1
<1> HIDE DEF r
<1>3. \A i \in 1 .. Len(q[w]) - 1 : i < Len(q[w]) BY <1>1
<1>4. Without(q, r, w, Len(q[w])) BY <1>1, <1>2, <1>3 DEF Without
<1>5. QED BY <1>1, <1>4 DEF r

(* Taking from the front removes the first element.                          *)
LEMMA WithoutHead ==
  ASSUME NEW q \in [Workers -> Seq(Tasks)], NEW w \in Workers, q[w] # << >>
  PROVE  /\ Without(q, [q EXCEPT ![w] = Tail(@)], w, 1)
         /\ Head(q[w]) = q[w][1] /\ Head(q[w]) \in Tasks
<1>1. Len(q[w]) \in Nat \ {0} BY EmptySeq
<1>2. QED BY <1>1, HeadTailProperties DEF Without

(* Removing an element removes a member, and keeps each at one place.        *)
LEMMA MembersWithout ==
  ASSUME NEW q \in [Workers -> Seq(Tasks)], NEW w \in Workers, NEW k, NEW r, Without(q, r, w, k)
  PROVE  /\ Members(r) \subseteq Members(q)
         /\ q[w][k] \in Members(q)
         /\ Once(q) => Once(r) /\ Members(r) = Members(q) \ {q[w][k]}
<1> DEFINE at(v, i) == IF v = w /\ i >= k THEN i + 1 ELSE i
<1>1. \A v \in Workers : \A i \in 1 .. Len(r[v]) :
        at(v, i) \in 1 .. Len(q[v]) /\ r[v][i] = q[v][at(v, i)] /\ (v = w => at(v, i) # k)
  BY LenProperties DEF Without
<1>2. \A v \in Workers : \A i, j \in 1 .. Len(r[v]) : at(v, i) = at(v, j) => i = j
  BY DEF Without
<1>3. \A v \in Workers : \A j \in 1 .. Len(q[v]) : (v = w /\ j = k) \/
        \E i \in 1 .. Len(r[v]) : r[v][i] = q[v][j]
  <2> SUFFICES ASSUME NEW v \in Workers, NEW j \in 1 .. Len(q[v]), ~(v = w /\ j = k)
               PROVE  \E i \in 1 .. Len(r[v]) : r[v][i] = q[v][j]
    OBVIOUS
  <2>1. CASE v # w BY <2>1 DEF Without
  <2>2. CASE v = w /\ j < k BY <2>2 DEF Without
  <2>3. CASE v = w /\ j > k
    <3>1. j - 1 \in 1 .. Len(r[v]) /\ r[v][j - 1] = q[v][j] BY <2>3 DEF Without
    <3>2. QED BY <3>1
  <2>4. QED BY <2>1, <2>2, <2>3 DEF Without
<1> HIDE DEF at
<1>4. r \in [Workers -> Seq(Tasks)] /\ k \in 1 .. Len(q[w]) BY DEF Without
<1>a. \A x : x \in Members(q) <=> \E v \in Workers : \E i \in 1 .. Len(q[v]) : q[v][i] = x
  BY MemberOf
<1>b. \A x : x \in Members(r) <=> \E v \in Workers : \E i \in 1 .. Len(r[v]) : r[v][i] = x
  BY <1>4, MemberOf
<1>5. ASSUME NEW x \in Members(r) PROVE x \in Members(q)
  <2>1. PICK v \in Workers : \E i \in 1 .. Len(r[v]) : r[v][i] = x BY <1>5, <1>b
  <2>2. PICK i \in 1 .. Len(r[v]) : r[v][i] = x BY <2>1
  <2>3. at(v, i) \in 1 .. Len(q[v]) /\ q[v][at(v, i)] = x BY <2>2, <1>1
  <2>4. QED BY <2>3, <1>a
<1>6. q[w][k] \in Members(q) BY <1>4, <1>a
<1>7. ASSUME Once(q) PROVE Once(r)
  <2> SUFFICES ASSUME NEW u \in Workers, NEW v \in Workers,
                      NEW i \in 1 .. Len(r[u]), NEW j \in 1 .. Len(r[v]), r[u][i] = r[v][j]
               PROVE  u = v /\ i = j
    BY DEF Once
  <2>1. /\ at(u, i) \in 1 .. Len(q[u]) /\ at(v, j) \in 1 .. Len(q[v])
        /\ q[u][at(u, i)] = q[v][at(v, j)]
    BY <1>1
  <2>2. u = v /\ at(u, i) = at(v, j) BY <1>7, <2>1 DEF Once
  <2>3. QED BY <2>2, <1>2
<1>8. ASSUME Once(q) PROVE q[w][k] \notin Members(r)
  <2> SUFFICES ASSUME NEW v \in Workers, NEW i \in 1 .. Len(r[v]), r[v][i] = q[w][k]
               PROVE  FALSE
    BY <1>b
  <2>1. at(v, i) \in 1 .. Len(q[v]) /\ q[v][at(v, i)] = q[w][k] /\ (v = w => at(v, i) # k) BY <1>1
  <2>2. QED BY <1>4, <1>8, <2>1 DEF Once
<1>9. ASSUME NEW x \in Members(q) \ {q[w][k]} PROVE x \in Members(r)
  <2>1. PICK v \in Workers : \E j \in 1 .. Len(q[v]) : q[v][j] = x BY <1>9, <1>a
  <2>2. PICK j \in 1 .. Len(q[v]) : q[v][j] = x BY <2>1
  <2>3. \E i \in 1 .. Len(r[v]) : r[v][i] = x BY <2>2, <1>3, <1>9
  <2>4. QED BY <2>3, <1>b
<1>10. QED BY <1>5, <1>6, <1>7, <1>8, <1>9

-----------------------------------------------------------------------------
(* The instructions, and what one is replaced with.                          *)
LEMMA InstructionFacts ==
  ASSUME NEW x \in Instruction
  PROVE  /\ x.op \in {"fork", "speculate", "add", "visit", "mark", "stop", "await", "erase"} =>
              x.task \in Tasks
         /\ x.op \in {"await", "join"} => x.meant \in Tasks
         /\ x.op \in {"cancelAt", "erase"} => x.pos \in {1, 2}
         /\ x.op = "choose" => x.then \in Tasks \cup {NoTask} /\ x.else \in Tasks \cup {NoTask}
         /\ x.op = "mark" => x = Mark(x.task)
         /\ \A t \in Tasks : ForksAs(x, t) <=> x.op \in {"fork", "speculate", "add"} /\ x.task = t
<1>1. CASE x \in Instructions
  BY <1>1 DEF Instructions, Fork, Speculate, Join, Choose, ForksAs, Forking, Add
<1>2. CASE x \in Expansions
  BY <1>2 DEF Expansions, ForksAs, Forking, Fork, Speculate, Add, CancelAt, Visit, Mark, Stop,
              Erase, Await
<1>3. QED BY <1>1, <1>2 DEF Instruction

(* The code of a frame after its head is replaced, position by position.     *)
LEMMA Replaced ==
  ASSUME NEW c \in Seq(Instruction), c # << >>, NEW new \in Seq(Instruction)
  PROVE  LET d == new \o Tail(c) IN
         /\ d \in Seq(Instruction) /\ Len(d) = Len(new) + Len(c) - 1
         /\ Len(new) \in Nat /\ Len(c) \in Nat \ {0} /\ Head(c) = c[1] /\ c[1] \in Instruction
         /\ \A i \in 1 .. Len(new) : d[i] = new[i]
         /\ \A i \in Len(new) + 1 .. Len(d) : d[i] = c[i - Len(new) + 1]
<1>1. /\ Len(c) \in Nat \ {0} /\ Len(new) \in Nat
      /\ Tail(c) \in Seq(Instruction) /\ Len(Tail(c)) = Len(c) - 1
      /\ \A i \in 1 .. Len(Tail(c)) : Tail(c)[i] = c[i + 1]
      /\ Head(c) = c[1] /\ c[1] \in Instruction
  BY EmptySeq, LenProperties, HeadTailProperties
<1> DEFINE z == Tail(c)
<1> HIDE DEF z
<1>2. /\ new \o z \in Seq(Instruction) /\ Len(new \o z) = Len(new) + Len(z)
      /\ \A i \in 1 .. Len(new) + Len(z) : (new \o z)[i] = IF i <= Len(new) THEN new[i]
                                                            ELSE z[i - Len(new)]
  BY <1>1, ConcatProperties DEF z
<1>3. \A i \in Len(new) + 1 .. Len(new) + Len(z) : z[i - Len(new)] = c[i - Len(new) + 1]
  <2> TAKE i \in Len(new) + 1 .. Len(new) + Len(z)
  <2> DEFINE j == i - Len(new)
  <2>1. j \in 1 .. Len(z) BY <1>1 DEF z
  <2> HIDE DEF j
  <2>2. z[j] = c[j + 1] BY <2>1, <1>1 DEF z
  <2>3. QED BY <2>2 DEF j
<1>4. Len(z) = Len(c) - 1 BY <1>1 DEF z
<1>5. QED BY <1>1, <1>2, <1>3, <1>4 DEF z

(* Replacing the head of a code keeps its shape when the new head has it.    *)
LEMMA ShapeKept ==
  ASSUME NEW c \in Seq(Instruction), c # << >>, NEW new \in Seq(Instruction),
         NEW X, NEW K, NEW Y, NEW L, X \subseteq Y, K \subseteq L, CodeShape(c, X, K),
         c[1].op = "mark" => c[1].task \in Y,
         \A i \in 1 .. Len(new) : ShapeAt(new \o Tail(c), i, Y, L)
  PROVE  CodeShape(new \o Tail(c), Y, L)
<1> DEFINE d == new \o Tail(c)
<1>1. /\ d \in Seq(Instruction) /\ Len(d) = Len(new) + Len(c) - 1
      /\ Len(new) \in Nat /\ Len(c) \in Nat \ {0}
      /\ \A i \in Len(new) + 1 .. Len(d) : d[i] = c[i - Len(new) + 1]
  BY Replaced
<1> SUFFICES ASSUME NEW i \in Len(new) + 1 .. Len(d) PROVE ShapeAt(d, i, Y, L)
  BY <1>1 DEF CodeShape
<1> HIDE DEF d
<1> DEFINE j == i - Len(new) + 1
<1>2. j \in 2 .. Len(c) /\ d[i] = c[j] /\ (i > Len(new) + 1 => d[i - 1] = c[j - 1])
      /\ (i < Len(d) <=> j < Len(c)) /\ (i < Len(d) => d[i + 1] = c[j + 1]) /\ i \in Nat
      /\ (~(i > Len(new) + 1) => j = 2) /\ i - 1 \in Int
  <2>a. Len(d) = Len(new) + Len(c) - 1 /\ Len(new) \in Nat /\ Len(c) \in Nat \ {0} BY <1>1
  <2>b. d[i] = c[j] BY <1>1
  <2>1. j \in 2 .. Len(c) /\ d[i] = c[j] /\ i \in Nat /\ i - 1 \in Int BY <2>a, <2>b
  <2>2. ASSUME i > Len(new) + 1 PROVE d[i - 1] = c[j - 1]
    <3>1. i - 1 \in Len(new) + 1 .. Len(d) /\ (i - 1) - Len(new) + 1 = j - 1 BY <1>1, <2>2
    <3>2. QED BY <3>1, <1>1
  <2>3. ASSUME i < Len(d) PROVE d[i + 1] = c[j + 1]
    <3>1. i + 1 \in Len(new) + 1 .. Len(d) /\ (i + 1) - Len(new) + 1 = j + 1 BY <1>1, <2>3
    <3>2. QED BY <3>1, <1>1
  <2>4. (i < Len(d) <=> j < Len(c)) /\ (~(i > Len(new) + 1) => j = 2) BY <1>1
  <2>5. QED BY <2>1, <2>2, <2>3, <2>4
<1> HIDE DEF j
<1>3. ShapeAt(c, j, X, K) BY <1>2 DEF CodeShape
<1>4. c[j].op \notin {"add", "await"} BY <1>2, <1>3 DEF ShapeAt
<1>5. c[j].op \in {"cancelAt", "erase"} /\ c[j].pos = 2 => i < Len(d) /\ d[i + 1].op = "join"
  BY <1>2, <1>3 DEF ShapeAt
<1>6. c[j].op \in {"visit", "mark", "stop", "await"} => c[j].task \in L BY <1>3 DEF ShapeAt
<1>7. c[j].op = "stop" => c[j].task \in Y \/ (i > 1 /\ d[i - 1] = Mark(c[j].task))
  <2> SUFFICES ASSUME c[j].op = "stop", c[j].task \notin X
               PROVE  c[j].task \in Y \/ (i > 1 /\ d[i - 1] = Mark(c[j].task))
    OBVIOUS
  <2>1. c[j - 1] = Mark(c[j].task) BY <1>3 DEF ShapeAt
  <2>2. CASE i > Len(new) + 1 BY <2>1, <2>2, <1>1, <1>2
  <2>3. CASE ~(i > Len(new) + 1)
    <3>1. j - 1 = 1 BY <2>3, <1>2
    <3>2. c[1] = Mark(c[j].task) BY <2>1, <3>1
    <3>3. QED BY <3>2 DEF Mark
  <2>4. QED BY <2>2, <2>3
<1>8. QED BY <1>2, <1>4, <1>5, <1>6, <1>7 DEF ShapeAt

(* Either nothing new is to be forked, or what was the first to be forked.   *)
LEMMA ForksKept ==
  ASSUME NEW c \in Seq(Instruction), c # << >>, NEW new \in Seq(Instruction), NEW F,
         ForksLeft(c, F),
         \A i \in 1 .. Len(new), t \in Tasks : ForksAs(new[i], t) => Len(new) = 1 /\ ForksAs(c[1], t)
  PROVE  ForksLeft(new \o Tail(c), F)
<1> DEFINE d == new \o Tail(c)
           at(i) == IF i <= Len(new) THEN 1 ELSE i - Len(new) + 1
<1>1. /\ Len(d) = Len(new) + Len(c) - 1 /\ Len(new) \in Nat /\ Len(c) \in Nat \ {0}
      /\ \A i \in 1 .. Len(new) : d[i] = new[i]
      /\ \A i \in Len(new) + 1 .. Len(d) : d[i] = c[i - Len(new) + 1]
  BY Replaced
<1> HIDE DEF d
<1>2. ASSUME NEW i \in 1 .. Len(d), NEW t \in Tasks, ForksAs(d[i], t)
      PROVE  /\ at(i) \in 1 .. Len(c) /\ ForksAs(c[at(i)], t)
             /\ i <= Len(new) => i = 1
             /\ Len(new) # 1 => i > Len(new)
  <2>1. CASE i <= Len(new) BY <1>1, <1>2, <2>1
  <2>2. CASE ~(i <= Len(new))
    <3>1. d[i] = c[i - Len(new) + 1] BY <2>2, <1>1
    <3>2. i - Len(new) + 1 \in 1 .. Len(c) BY <2>2, <1>1
    <3>3. QED BY <3>1, <3>2, <1>2, <2>2
  <2>3. QED BY <2>1, <2>2
<1>3. SUFFICES ASSUME NEW i \in 1 .. Len(d), NEW t \in Tasks, ForksAs(d[i], t)
               PROVE  t \in F /\ \A j \in 1 .. Len(d) : ForksAs(d[j], t) => i = j
  BY DEF ForksLeft, d
<1>4. t \in F
  <2>1. at(i) \in 1 .. Len(c) /\ ForksAs(c[at(i)], t) BY <1>2, <1>3
  <2>2. QED BY <2>1 DEF ForksLeft
<1>5. ASSUME NEW j \in 1 .. Len(d), ForksAs(d[j], t) PROVE i = j
  <2> DEFINE k == at(i)
             l == at(j)
  <2>a. k \in 1 .. Len(c) /\ ForksAs(c[k], t) BY <1>2, <1>3
  <2>b. l \in 1 .. Len(c) /\ ForksAs(c[l], t) BY <1>2, <1>5
  <2> HIDE DEF k, l
  <2>c. k = l BY <2>a, <2>b DEF ForksLeft
  <2>1. at(i) = at(j) BY <2>c DEF k, l
  <2>2. (i <= Len(new) => i = 1) /\ (Len(new) # 1 => i > Len(new)) BY <1>2, <1>3
  <2>3. (j <= Len(new) => j = 1) /\ (Len(new) # 1 => j > Len(new)) BY <1>2, <1>5
  <2>4. QED BY <2>1, <2>2, <2>3, <1>1
<1>6. QED BY <1>4, <1>5

(* The first was forked.                                                     *)
LEMMA ForkDone ==
  ASSUME NEW c \in Seq(Instruction), c # << >>, NEW F, NEW t \in Tasks,
         ForksLeft(c, F), ForksAs(c[1], t)
  PROVE  t \in F /\ ForksLeft(<< >> \o Tail(c), F \ {t})
<1> DEFINE d == << >> \o Tail(c)
<1>1. /\ Len(d) = Len(c) - 1 /\ Len(c) \in Nat \ {0}
      /\ \A i \in 1 .. Len(d) : d[i] = c[i + 1]
  <2>1. << >> \in Seq(Instruction) /\ Len(<< >>) = 0 BY EmptySeq
  <2>2. QED BY <2>1, Replaced
<1> HIDE DEF d
<1>2. ForksAs(c[1], t) OBVIOUS
<1>3. \A i \in 1 .. Len(d) : i + 1 \in 1 .. Len(c) /\ i + 1 # 1 BY <1>1
<1>4. t \in F BY <1>1, <1>2 DEF ForksLeft
<1>5. \A j \in 1 .. Len(c) : ForksAs(c[j], t) => j = 1 BY <1>1, <1>2 DEF ForksLeft
<1>6. ASSUME NEW i \in 1 .. Len(d), NEW u \in Tasks, ForksAs(d[i], u)
      PROVE  u \in F \ {t} /\ \A j \in 1 .. Len(d) : ForksAs(d[j], u) => i = j
  <2>1. ForksAs(c[i + 1], u) BY <1>1, <1>6
  <2>2. u \in F /\ \A j \in 1 .. Len(c) : ForksAs(c[j], u) => i + 1 = j
    BY <1>3, <2>1 DEF ForksLeft
  <2>3. u # t BY <1>3, <1>5, <2>1
  <2>4. ASSUME NEW j \in 1 .. Len(d), ForksAs(d[j], u) PROVE i = j
    <3>1. j + 1 \in 1 .. Len(c) /\ ForksAs(c[j + 1], u) BY <1>1, <1>3, <2>4
    <3>2. i + 1 = j + 1 BY <3>1, <2>2
    <3>3. QED BY <3>2, <1>1
  <2>5. QED BY <2>2, <2>3, <2>4
<1>7. QED BY <1>4, <1>6 DEF ForksLeft, d

-----------------------------------------------------------------------------
(* What a code owes.                                                         *)
LEMMA Weights ==
  \A x : Removes(x) \in Nat /\ Spawns(x) \in Nat
BY DEF Removes, Spawns

(* A finished code owes nothing.                                             *)
LEMMA OwesEmpty ==
  /\ Owes(<< >>, 0)
  /\ \A n : Owes(<< >>, n) => n = 0
<1>1. Len(<< >>) = 0 BY EmptySeq
<1>2. Owes(<< >>, 0)
  <2> DEFINE h == [i \in 1 .. 0 + 1 |-> 0]
  <2>1. h \in [1 .. 0 + 1 -> Nat] /\ h[1] = 0 /\ h[0 + 1] = 0 OBVIOUS
  <2>2. \A i \in 1 .. 0 : h[i] + Spawns(<< >>[i]) <= h[i + 1] + Removes(<< >>[i]) OBVIOUS
  <2> HIDE DEF h
  <2>3. QED BY <1>1, <2>1, <2>2 DEF Owes
<1>3. \A n : Owes(<< >>, n) => n = 0 BY <1>1 DEF Owes
<1>4. QED BY <1>2, <1>3

(* What a code owes is a number.                                             *)
LEMMA OwesNat ==
  ASSUME NEW c \in Seq(Instruction), NEW n, Owes(c, n)
  PROVE  n \in Nat
<1>1. Len(c) \in Nat BY LenProperties
<1>2. 1 \in 1 .. Len(c) + 1 BY <1>1
<1>3. QED BY <1>2 DEF Owes

(* What the rest of a code owes, given what the whole owes.                  *)
LEMMA OwesTail ==
  ASSUME NEW c \in Seq(Instruction), c # << >>, NEW n, Owes(c, n)
  PROVE  \E m \in Nat : Owes(Tail(c), m) /\ n + Spawns(c[1]) <= m + Removes(c[1])
<1>1. /\ Len(c) \in Nat \ {0} /\ Len(Tail(c)) = Len(c) - 1
      /\ \A i \in 1 .. Len(Tail(c)) : Tail(c)[i] = c[i + 1]
  BY EmptySeq, HeadTailProperties
<1>2. PICK h \in [1 .. Len(c) + 1 -> Nat] :
        /\ h[1] = n /\ h[Len(c) + 1] = 0
        /\ \A i \in 1 .. Len(c) : h[i] + Spawns(c[i]) <= h[i + 1] + Removes(c[i])
  BY DEF Owes
<1> DEFINE z == Tail(c)
           g == [i \in 1 .. Len(z) + 1 |-> h[i + 1]]
<1>3. \A i \in 1 .. Len(z) + 1 : i + 1 \in 1 .. Len(c) + 1 BY <1>1
<1>4. g \in [1 .. Len(z) + 1 -> Nat] BY <1>3
<1>5. g[1] = h[2] /\ g[Len(z) + 1] = 0
  <2>1. 1 \in 1 .. Len(z) + 1 /\ Len(z) + 1 \in 1 .. Len(z) + 1 /\ Len(z) + 1 + 1 = Len(c) + 1 BY <1>1
  <2>2. QED BY <2>1, <1>2
<1>6. ASSUME NEW i \in 1 .. Len(z) PROVE g[i] + Spawns(z[i]) <= g[i + 1] + Removes(z[i])
  <2>1. i + 1 \in 1 .. Len(c) /\ i \in 1 .. Len(z) + 1 /\ i + 1 \in 1 .. Len(z) + 1 BY <1>1
  <2>2. h[i + 1] + Spawns(c[i + 1]) <= h[i + 1 + 1] + Removes(c[i + 1]) BY <2>1, <1>2
  <2>3. g[i] = h[i + 1] /\ g[i + 1] = h[i + 1 + 1] BY <2>1
  <2>4. z[i] = c[i + 1] BY <1>1
  <2>5. QED BY <2>2, <2>3, <2>4
<1> HIDE DEF g
<1>7. Owes(z, h[2]) BY <1>4, <1>5, <1>6 DEF Owes
<1>8. 1 \in 1 .. Len(c) /\ 2 \in 1 .. Len(c) + 1 BY <1>1
<1>9. h[1] + Spawns(c[1]) <= h[2] + Removes(c[1]) BY <1>2, <1>8
<1>10. h[2] \in Nat BY <1>8
<1>11. QED BY <1>2, <1>7, <1>9, <1>10

(* A debt function along a prefix extends the debt of the rest.              *)
LEMMA OwesPrefix ==
  ASSUME NEW new \in Seq(Instruction), NEW c \in Seq(Instruction), NEW m, Owes(c, m),
         NEW g \in [1 .. Len(new) + 1 -> Nat], g[Len(new) + 1] = m,
         \A i \in 1 .. Len(new) : g[i] + Spawns(new[i]) <= g[i + 1] + Removes(new[i])
  PROVE  Owes(new \o c, g[1])
<1>1. /\ Len(new) \in Nat /\ Len(c) \in Nat /\ Len(new \o c) = Len(new) + Len(c)
      /\ \A i \in 1 .. Len(new) + Len(c) : (new \o c)[i] = IF i <= Len(new) THEN new[i]
                                                          ELSE c[i - Len(new)]
  BY LenProperties, ConcatProperties
<1>2. PICK h \in [1 .. Len(c) + 1 -> Nat] :
        /\ h[1] = m /\ h[Len(c) + 1] = 0
        /\ \A i \in 1 .. Len(c) : h[i] + Spawns(c[i]) <= h[i + 1] + Removes(c[i])
  BY DEF Owes
<1> DEFINE k == Len(new)
           d == new \o c
           f == [i \in 1 .. k + Len(c) + 1 |-> IF i <= k THEN g[i] ELSE h[i - k]]
<1> HIDE DEF k, d
<1>3. k \in Nat /\ Len(c) \in Nat /\ Len(d) = k + Len(c) BY <1>1 DEF k, d
<1>4. \A i \in 1 .. k + Len(c) + 1 :
        /\ i <= k => i \in 1 .. k + 1
        /\ ~(i <= k) => i - k \in 1 .. Len(c) + 1
  BY <1>3
<1>5. g \in [1 .. k + 1 -> Nat] /\ g[k + 1] = m BY DEF k
<1>6. f \in [1 .. k + Len(c) + 1 -> Nat] BY <1>4, <1>5
<1>f. \A i \in 1 .. k + Len(c) + 1 : (i <= k => f[i] = g[i]) /\ (~(i <= k) => f[i] = h[i - k])
  OBVIOUS
<1> HIDE DEF f
<1>7. f[1] = g[1]
  <2>1. 1 \in 1 .. k + Len(c) + 1 /\ (~(1 <= k) => k = 0 /\ 1 - k = 1 /\ k + 1 = 1) BY <1>3
  <2>2. QED BY <2>1, <1>2, <1>5, <1>f
<1>8. f[k + Len(c) + 1] = 0
  <2>1. /\ k + Len(c) + 1 \in 1 .. k + Len(c) + 1 /\ ~(k + Len(c) + 1 <= k)
        /\ k + Len(c) + 1 - k = Len(c) + 1
    BY <1>3
  <2>2. f[k + Len(c) + 1] = h[k + Len(c) + 1 - k] BY <2>1, <1>3, <1>f
  <2>3. QED BY <2>1, <2>2, <1>2
<1>9. ASSUME NEW i \in 1 .. k + Len(c) PROVE f[i] + Spawns(d[i]) <= f[i + 1] + Removes(d[i])
  <2>0. i \in 1 .. k + Len(c) + 1 /\ i + 1 \in 1 .. k + Len(c) + 1 BY <1>3
  <2>1. CASE i <= k
    <3>1. d[i] = new[i] BY <2>1, <1>1 DEF k, d
    <3>2. i \in 1 .. k BY <1>3, <2>1
    <3>3. g[i] + Spawns(new[i]) <= g[i + 1] + Removes(new[i]) BY <3>2 DEF k
    <3>4. f[i] = g[i] BY <2>0, <2>1, <1>f
    <3>5. f[i + 1] = g[i + 1]
      <4>1. CASE i + 1 <= k BY <4>1, <2>0, <1>f
      <4>2. CASE ~(i + 1 <= k)
        <5>1. i + 1 = k + 1 /\ i + 1 - k = 1 BY <4>2, <2>1, <1>3
        <5>2. f[i + 1] = h[i + 1 - k] BY <4>2, <2>0, <1>3, <1>f
        <5>3. QED BY <5>1, <5>2, <1>2, <1>5
      <4>3. QED BY <4>1, <4>2
    <3>6. QED BY <3>1, <3>3, <3>4, <3>5
  <2>2. CASE ~(i <= k)
    <3>1. i - k \in 1 .. Len(c) /\ i + 1 - k = i - k + 1 /\ ~(i + 1 <= k) BY <2>2, <1>3
    <3>2. d[i] = c[i - k] BY <2>2, <1>1 DEF k, d
    <3>3. h[i - k] + Spawns(c[i - k]) <= h[i - k + 1] + Removes(c[i - k]) BY <3>1, <1>2
    <3>4. f[i] = h[i - k] /\ f[i + 1] = h[i + 1 - k] BY <2>0, <2>2, <3>1, <1>3, <1>f
    <3>6. f[i + 1] = h[i - k + 1] BY <3>1, <3>4
    <3>5. QED BY <3>2, <3>3, <3>4, <3>6
  <2>3. QED BY <2>1, <2>2
<1>10. f \in [1 .. Len(d) + 1 -> Nat] /\ f[Len(d) + 1] = 0 BY <1>3, <1>6, <1>8
<1>11. \A i \in 1 .. Len(d) : f[i] + Spawns(d[i]) <= f[i + 1] + Removes(d[i]) BY <1>3, <1>9
<1>12. Owes(d, g[1]) BY <1>7, <1>10, <1>11 DEF Owes
<1>13. QED BY <1>12 DEF d

(* Instructions that join nothing and fork nothing.                          *)
LEMMA OwesLight ==
  ASSUME NEW new \in Seq(Instruction), NEW c \in Seq(Instruction), NEW m \in Nat, Owes(c, m),
         \A i \in 1 .. Len(new) : Spawns(new[i]) = 0
  PROVE  Owes(new \o c, m)
<1> DEFINE g == [i \in 1 .. Len(new) + 1 |-> m]
<1>1. Len(new) \in Nat BY LenProperties
<1>2. /\ g \in [1 .. Len(new) + 1 -> Nat] /\ g[Len(new) + 1] = m /\ g[1] = m
      /\ \A i \in 1 .. Len(new) : g[i] = m /\ g[i + 1] = m
  BY <1>1
<1> HIDE DEF g
<1>3. \A i \in 1 .. Len(new) : g[i] + Spawns(new[i]) <= g[i + 1] + Removes(new[i])
  BY <1>2, Weights
<1>4. QED BY <1>2, <1>3, OwesPrefix

(* The same of a prefix of one instruction.                                  *)
LEMMA OwesOne ==
  ASSUME NEW x \in Instruction, NEW c \in Seq(Instruction), NEW m \in Nat, Owes(c, m), NEW n \in Nat,
         n + Spawns(x) <= m + Removes(x)
  PROVE  Owes(<<x>> \o c, n)
<1> DEFINE g == [i \in 1 .. 2 |-> IF i = 1 THEN n ELSE m]
<1>1. <<x>> \in Seq(Instruction) /\ Len(<<x>>) = 1 /\ <<x>>[1] = x OBVIOUS
<1>2. g \in [1 .. 2 -> Nat] /\ g[1] = n /\ g[2] = m OBVIOUS
<1> HIDE DEF g
<1>3. \A i \in 1 .. 1 : g[i] + Spawns(<<x>>[i]) <= g[i + 1] + Removes(<<x>>[i]) BY <1>1, <1>2
<1> DEFINE z == <<x>>
<1> HIDE DEF z
<1>4. z \in Seq(Instruction) /\ Len(z) + 1 = 2 /\ Len(z) = 1 BY <1>1 DEF z
<1>5. \A i \in 1 .. Len(z) : g[i] + Spawns(z[i]) <= g[i + 1] + Removes(z[i]) BY <1>3, <1>4 DEF z
<1>6. Owes(z \o c, g[1]) BY <1>2, <1>4, <1>5, OwesPrefix
<1>7. QED BY <1>2, <1>6 DEF z

-----------------------------------------------------------------------------
(* A task that starts has all its forks before it, and owes nothing.         *)
LEMMA OneMore ==
  ASSUME NEW T, IsFiniteSet(T), NEW S, NEW p, S \subseteq T \cup {p}
  PROVE  IsFiniteSet(S) /\ Cardinality(S) \in Nat /\ Cardinality(T) \in Nat
         /\ Cardinality(S) <= Cardinality(T) + 1
<1>1. IsFiniteSet(T \cup {p}) /\ Cardinality(T \cup {p}) <= Cardinality(T) + 1 /\ Cardinality(T) \in Nat
  BY FS_AddElement, FS_CardinalityType
<1>2. IsFiniteSet(S) /\ Cardinality(S) <= Cardinality(T \cup {p}) BY <1>1, FS_Subset
<1>3. Cardinality(S) \in Nat /\ Cardinality(T \cup {p}) \in Nat BY <1>1, <1>2, FS_CardinalityType
<1>4. QED BY <1>1, <1>2, <1>3

(* A body is a sequence of instructions.                                     *)
LEMMA BodyType ==
  ASSUME body \in Programs, NEW p \in Tasks
  PROVE  /\ body[p] \in Seq(Instructions) /\ body[p] \in Seq(Instruction)
         /\ DOMAIN body[p] = 1 .. Len(body[p])
<1>1. body[p] \in Seq(Instructions) BY ProgramAssumption
<1>2. Instructions \subseteq Instruction BY DEF Instruction
<1>3. QED BY <1>1, <1>2, SeqMonotonic, LenProperties

(* A program forks a task at one place at most, and joins it after that.     *)
LEMMA ForkedOnce ==
  ASSUME body \in Programs, NEW p \in Tasks, NEW i \in 1 .. Len(body[p]), NEW t \in Tasks,
         body[p][i] \in Forking(t)
  PROVE  /\ t # Main /\ t \in Forks(p)
         /\ \A r \in Tasks : \A j \in 1 .. Len(body[r]) : body[r][j] \in Forking(t) => r = p /\ j = i
         /\ \E j \in i + 1 .. Len(body[p]) : body[p][j] \in Joining(t)
<1>1. \A r \in Tasks : DOMAIN body[r] = 1 .. Len(body[r]) BY BodyType
<1>2. i \in DOMAIN body[p] BY <1>1
<1>3. /\ t # Main
      /\ \A r \in Tasks : \A j \in DOMAIN body[r] : body[r][j] \in Forking(t) => <<r, j>> = <<p, i>>
      /\ \E j \in i + 1 .. Len(body[p]) : body[p][j] \in Joining(t)
  BY <1>2, ProgramAssumption
<1>4. t \in Forks(p) BY <1>2 DEF Forks
<1>5. QED BY <1>1, <1>3, <1>4

(* A task has one parent.                                                    *)
LEMMA OneParent ==
  ASSUME body \in Programs, NEW p \in Tasks, NEW q \in Tasks, NEW t \in Forks(p)
  PROVE  t \in Tasks /\ t # Main /\ (t \in Forks(q) => q = p) /\ Parent(t) = p
<1>1. t \in Tasks BY DEF Forks
<1>2. \A r \in Tasks : t \in Forks(r) => \E i \in 1 .. Len(body[r]) : body[r][i] \in Forking(t)
  BY BodyType DEF Forks
<1>3. t # Main /\ \A r \in Tasks : t \in Forks(r) => r = p BY <1>1, <1>2, ForkedOnce
<1>4. Parent(t) = p BY <1>3 DEF Parent
<1>5. QED BY <1>1, <1>3, <1>4

(* Which instructions can join a task.                                       *)
LEMMA JoiningFacts ==
  /\ \A t, x : x \in Joining(t) => (x.op = "join" /\ x.meant = t)
                                  \/ (x.op = "choose" /\ (x.then = t \/ x.else = t))
  /\ \A u : Join(u).op = "join" /\ Join(u).meant = u
  /\ \A u, v : Choose(u, v).op = "choose" /\ Choose(u, v).then = u /\ Choose(u, v).else = v
BY DEF Joining, Join, Choose

(* The instructions of a body are forks, joins and choices.                  *)
LEMMA InstructionKinds ==
  ASSUME NEW x \in Instructions
  PROVE  \/ \E t \in Tasks : x = Fork(t) \/ x = Speculate(t)
         \/ \E u \in Tasks : x = Join(u)
         \/ \E u, v \in Tasks \cup {NoTask} : x = Choose(u, v)
BY DEF Instructions

(* A body joins all that it forks, so on its own it owes nothing: before     *)
(* each instruction the debt is the number of tasks forked and not joined    *)
(* yet.                                                                      *)
LEMMA BodyOwes ==
  ASSUME body \in Programs, NEW p \in Tasks
  PROVE  Owes(body[p], 0)
<1> DEFINE c == body[p]
           n == Len(c)
           Open(k) == {i \in 1 .. k - 1 : \E t \in Tasks : c[i] \in Forking(t) /\
                         \E j \in k .. n : c[j] \in Joining(t)}
           h == [k \in 1 .. n + 1 |-> Cardinality(Open(k))]
<1>1. n \in Nat /\ \A i \in 1 .. n : c[i] \in Instructions
  BY BodyType, LenProperties, ElementOfSeq
<1>2. \A k \in 1 .. n + 1 : IsFiniteSet(Open(k)) /\ Cardinality(Open(k)) \in Nat
  <2> TAKE k \in 1 .. n + 1
  <2>1. k - 1 \in Int /\ 1 \in Int BY <1>1
  <2>2. IsFiniteSet(1 .. k - 1) BY <2>1, FS_Interval
  <2>3. QED BY <2>2, FS_Subset, FS_CardinalityType
<1>3. h \in [1 .. n + 1 -> Nat] BY <1>2
<1>4. h[1] = 0 /\ h[n + 1] = 0
  <2>1. Open(1) = {} /\ Open(n + 1) = {} BY <1>1
  <2>2. 1 \in 1 .. n + 1 /\ n + 1 \in 1 .. n + 1 BY <1>1
  <2>3. QED BY <2>1, <2>2, FS_EmptySet
<1>5. ASSUME NEW k \in 1 .. n PROVE h[k] + Spawns(c[k]) <= h[k + 1] + Removes(c[k])
  <2>1. k \in 1 .. n + 1 /\ k + 1 \in 1 .. n + 1 /\ k + 1 - 1 = k BY <1>1
  <2>2. h[k] = Cardinality(Open(k)) /\ h[k + 1] = Cardinality(Open(k + 1)) BY <2>1
  <2>3. /\ IsFiniteSet(Open(k)) /\ Cardinality(Open(k)) \in Nat
        /\ IsFiniteSet(Open(k + 1)) /\ Cardinality(Open(k + 1)) \in Nat
    BY <1>2, <2>1
  (* A task forked before k is joined later than k, or at k.                 *)
  <2>4. ASSUME NEW i \in Open(k), i \notin Open(k + 1)
        PROVE  \E t \in Tasks : c[i] \in Forking(t) /\ c[k] \in Joining(t)
    <3>1. PICK t \in Tasks : c[i] \in Forking(t) /\ \E j \in k .. n : c[j] \in Joining(t) OBVIOUS
    <3>2. PICK j \in k .. n : c[j] \in Joining(t) BY <3>1
    <3>3. i \in 1 .. k + 1 - 1 BY <2>1, <1>1
    <3>4. ~(\E m \in k + 1 .. n : c[m] \in Joining(t)) BY <3>1, <3>3, <2>4
    <3>5. j = k BY <3>2, <3>4, <1>1
    <3>6. QED BY <3>1, <3>2, <3>5
  <2>5. \A t \in Tasks : \E m : \A i \in Open(k) : c[i] \in Forking(t) => i = m
    <3> TAKE t \in Tasks
    <3>1. CASE \E m \in Open(k) : c[m] \in Forking(t)
      <4>1. PICK m \in Open(k) : c[m] \in Forking(t) BY <3>1
      <4>2. \A i \in Open(k) : i \in 1 .. n BY <1>1, <2>1
      <4>3. \A i \in Open(k) : c[i] \in Forking(t) => i = m BY <4>1, <4>2, ForkedOnce
      <4>4. QED BY <4>3
    <3>2. QED BY <3>1
  <2> DEFINE S == Open(k)
             T == Open(k + 1)
  <2>6. CASE \E t \in Tasks : c[k] \in Forking(t)
    <3>1. PICK t \in Tasks : c[k] \in Forking(t) BY <2>6
    <3>2. \A u \in Tasks : c[k] \notin Joining(u)
      BY <3>1 DEF Forking, Joining, Fork, Speculate, Join, Choose
    <3>3. S \cup {k} \subseteq T
      <4>1. k \in T
        <5>1. \E j \in k + 1 .. n : c[j] \in Joining(t) BY <3>1, ForkedOnce
        <5>2. k \in 1 .. k + 1 - 1 BY <2>1, <1>1
        <5>3. QED BY <3>1, <5>1, <5>2
      <4>2. QED BY <4>1, <3>2, <2>4
    <3>4. k \notin S BY <1>1
    <3> HIDE DEF S, T
    <3>5. Cardinality(S \cup {k}) = Cardinality(S) + 1 BY <3>4, <2>3, FS_AddElement DEF S
    <3>6. Cardinality(S \cup {k}) <= Cardinality(T) BY <3>3, <2>3, FS_Subset DEF T
    <3>7. Spawns(c[k]) = 1 /\ Removes(c[k]) = 0
      BY <3>1 DEF Forking, Fork, Speculate, Spawns, Removes
    <3>8. QED BY <2>2, <2>3, <3>5, <3>6, <3>7 DEF S, T
  <2>7. CASE \E u \in Tasks : c[k] = Join(u)
    <3>1. PICK u \in Tasks : c[k] = Join(u) BY <2>7
    <3>2. PICK m : \A i \in Open(k) : c[i] \in Forking(u) => i = m BY <2>5
    <3>3. \A t \in Tasks : c[k] \in Joining(t) => t = u
      BY <3>1, JoiningFacts
    <3>4. S \subseteq T \cup {m} BY <3>2, <3>3, <2>4
    <3>5. Spawns(c[k]) = 0 /\ Removes(c[k]) = 1 BY <3>1 DEF Join, Spawns, Removes
    <3> HIDE DEF S, T
    <3>6. Cardinality(S) <= Cardinality(T) + 1 BY <3>4, <2>3, OneMore DEF T
    <3>7. QED BY <2>2, <2>3, <3>5, <3>6 DEF S, T
  <2>8. CASE \E u, v \in Tasks \cup {NoTask} : c[k] = Choose(u, v)
    <3>1. PICK u \in Tasks \cup {NoTask}, v \in Tasks \cup {NoTask} : c[k] = Choose(u, v) BY <2>8
    <3>2. \A t \in Tasks : c[k] \in Joining(t) => t = u \/ t = v
      BY <3>1, JoiningFacts
    <3>3. PICK m : u # NoTask => \A i \in Open(k) : c[i] \in Forking(u) => i = m BY <2>5
    <3>4. PICK l : v # NoTask => \A i \in Open(k) : c[i] \in Forking(v) => i = l BY <2>5
    <3> DEFINE U == IF u = NoTask THEN T ELSE T \cup {m}
               V == IF v = NoTask THEN U ELSE U \cup {l}
    <3>5. S \subseteq V
      <4> SUFFICES ASSUME NEW i \in S, i \notin T PROVE i \in V OBVIOUS
      <4>1. PICK t \in Tasks : c[i] \in Forking(t) /\ c[k] \in Joining(t) BY <2>4
      <4>2. t # NoTask BY SchedulerAssumption
      <4>3. CASE t = u
        <5>1. i = m BY <4>1, <4>2, <4>3, <3>3
        <5>2. QED BY <5>1, <4>2, <4>3
      <4>4. CASE t = v
        <5>1. i = l BY <4>1, <4>2, <4>4, <3>4
        <5>2. QED BY <5>1, <4>2, <4>4
      <4>5. QED BY <4>1, <4>3, <4>4, <3>2
    <3> HIDE DEF S, T
    <3>6. IsFiniteSet(T) /\ Cardinality(T) \in Nat BY <2>3 DEF T
    <3>7. /\ IsFiniteSet(U) /\ Cardinality(U) \in Nat
          /\ Cardinality(U) <= Cardinality(T) + (IF u = NoTask THEN 0 ELSE 1)
      <4>1. CASE u = NoTask BY <4>1, <3>6
      <4>2. CASE u # NoTask BY <4>2, <3>6, OneMore
      <4>3. QED BY <4>1, <4>2
    <3> HIDE DEF U
    <3>8. Cardinality(V) \in Nat /\ IsFiniteSet(V)
          /\ Cardinality(V) <= Cardinality(U) + (IF v = NoTask THEN 0 ELSE 1)
      <4>1. CASE v = NoTask BY <4>1, <3>7
      <4>2. CASE v # NoTask BY <4>2, <3>7, OneMore
      <4>3. QED BY <4>1, <4>2
    <3> HIDE DEF V
    <3>9. Cardinality(S) <= Cardinality(V) BY <3>5, <3>8, FS_Subset
    <3>10. /\ Spawns(c[k]) = 0
           /\ Removes(c[k]) = (IF u = NoTask THEN 0 ELSE 1) + (IF v = NoTask THEN 0 ELSE 1)
      BY <3>1 DEF Choose, Spawns, Removes
    <3>11. Cardinality(S) <= Cardinality(T) + Removes(c[k])
      <4>0. Cardinality(S) \in Nat BY <2>3 DEF S
      <4>1. CASE u = NoTask BY <4>0, <4>1, <3>6, <3>7, <3>8, <3>9, <3>10
      <4>2. CASE u # NoTask BY <4>0, <4>2, <3>6, <3>7, <3>8, <3>9, <3>10
      <4>3. QED BY <4>1, <4>2
    <3>12. QED BY <2>2, <2>3, <3>10, <3>11 DEF S, T
  <2>9. c[k] \in Instructions BY <1>1
  <2>10. \/ \E t \in Tasks : c[k] = Fork(t) \/ c[k] = Speculate(t)
         \/ \E u \in Tasks : c[k] = Join(u)
         \/ \E u, v \in Tasks \cup {NoTask} : c[k] = Choose(u, v)
    BY <2>9, InstructionKinds
  <2>11. ASSUME NEW t \in Tasks, c[k] = Fork(t) \/ c[k] = Speculate(t) PROVE c[k] \in Forking(t)
    BY <2>11 DEF Forking
  <2>12. QED BY <2>6, <2>7, <2>8, <2>10, <2>11
<1> HIDE DEF h
<1>6. Owes(c, 0) BY <1>3, <1>4, <1>5 DEF Owes
<1>7. QED BY <1>6

(* A body that has not started has the shape of a code, all of its forks     *)
(* before it and awaits nothing.                                             *)
LEMMA BodyShape ==
  ASSUME body \in Programs, NEW p \in Tasks, NEW X, NEW K
  PROVE  /\ CodeShape(body[p], X, K) /\ ForksLeft(body[p], Forks(p))
         /\ \A t : ~Awaits([task |-> p, code |-> body[p]], t)
<1>1. \A i \in 1 .. Len(body[p]) : body[p][i] \in Instructions BY BodyType, ElementOfSeq
<1>2. \A x \in Instructions : x.op \in {"fork", "speculate", "join", "choose"}
  BY DEF Instructions, Fork, Speculate, Join, Choose
<1>3. CodeShape(body[p], X, K) BY <1>1, <1>2 DEF CodeShape, ShapeAt
<1>4. \A x \in Instructions, t \in Tasks : ForksAs(x, t) => x \in Forking(t)
  BY <1>2 DEF ForksAs, Add
<1>5. ForksLeft(body[p], Forks(p))
  BY <1>1, <1>4, ForkedOnce DEF ForksLeft
<1>6. ASSUME NEW t PROVE ~Awaits([task |-> p, code |-> body[p]], t)
  <2> DEFINE c == body[p]
  <2>1. CASE c = << >> BY <2>1 DEF Awaits
  <2>2. CASE c # << >>
    <3>1. c \in Seq(Instructions) BY BodyType
    <3> HIDE DEF c
    <3>2. Head(c) \in Instructions BY <3>1, <2>2, HeadTailProperties
    <3>3. Head(c).op # "await" BY <3>2, <1>2
    <3>4. QED BY <3>3 DEF Awaits, c
  <2>3. QED BY <2>1, <2>2
<1>7. QED BY <1>3, <1>5, <1>6

-----------------------------------------------------------------------------
(* What lies above a task in pendingTasks, when frames or tasks change.      *)
TopMoves(fs, gs) ==
  /\ fs \in Seq(Frame) /\ gs \in Seq(Frame) /\ fs # << >> /\ Len(gs) = Len(fs)
  /\ \A i \in 1 .. Len(fs) - 1 : gs[i] = fs[i]
  /\ gs[Len(fs)].task = fs[Len(fs)].task
Raised(fs, gs, b, m, d) ==
  /\ Bounds(gs, d) /\ d[Len(fs)] = 0
  /\ \A i \in 0 .. Len(fs) - 1 : d[i] = b[i] - b[Len(fs) - 1] + m /\ m <= d[i]

(* When the code of the top frame changes, the bounds of the frames below    *)
(* move by one amount.                                                       *)
LEMMA NewBounds ==
  ASSUME NEW fs, NEW gs, TopMoves(fs, gs), NEW b, Bounds(fs, b),
         NEW m \in Nat, Owes(gs[Len(fs)].code, m)
  PROVE  \E d : Raised(fs, gs, b, m, d)
<1> DEFINE n == Len(fs)
           d == [i \in 0 .. n |-> IF i = n THEN 0 ELSE b[i] - b[n - 1] + m]
<1>1. n \in Nat \ {0} /\ Len(gs) = n BY EmptySeq DEF TopMoves
<1>2. /\ b \in [0 .. n -> Nat] /\ b[n] = 0
      /\ \A i, j \in 0 .. n : i <= j => b[j] <= b[i]
      /\ \A i \in 1 .. n : Owes(fs[i].code, b[i - 1] - b[i])
  BY DEF Bounds
<1> HIDE DEF n
<1>3. n \in 0 .. n /\ n - 1 \in 0 .. n /\ n \in 1 .. n BY <1>1
<1>4. b[n - 1] \in Nat BY <1>2, <1>3
<1>5. ASSUME NEW i \in 0 .. n - 1
      PROVE  d[i] = b[i] - b[n - 1] + m /\ m <= d[i] /\ d[i] \in Nat /\ b[i] \in Nat
  <2>1. i \in 0 .. n /\ i # n /\ i <= n - 1 BY <1>1
  <2>2. b[i] \in Nat /\ b[n - 1] <= b[i] BY <2>1, <1>2, <1>3
  <2>3. d[i] = b[i] - b[n - 1] + m BY <2>1
  <2>4. QED BY <2>2, <2>3, <1>4
<1>6. d[n] = 0 BY <1>3
<1>7. \A i \in 0 .. n : i = n \/ i \in 0 .. n - 1 BY <1>1
<1>8. d \in [0 .. n -> Nat]
  <2>1. \A i \in 0 .. n : d[i] \in Nat BY <1>5, <1>6, <1>7
  <2>2. QED BY <2>1
<1> HIDE DEF d
<1>9. ASSUME NEW i \in 0 .. n, NEW j \in 0 .. n, i <= j PROVE d[j] <= d[i]
  <2>1. CASE j = n BY <2>1, <1>6, <1>8
  <2>2. CASE j # n
    <3>1. i \in 0 .. n - 1 /\ j \in 0 .. n - 1 BY <2>2, <1>1, <1>9
    <3>2. b[j] <= b[i] BY <1>2, <1>9
    <3>3. d[i] = b[i] - b[n - 1] + m /\ d[j] = b[j] - b[n - 1] + m /\ b[i] \in Nat /\ b[j] \in Nat
      BY <3>1, <1>5
    <3>4. QED BY <3>2, <3>3, <1>4
  <2>3. QED BY <2>1, <2>2
<1>10. ASSUME NEW i \in 1 .. n PROVE Owes(gs[i].code, d[i - 1] - d[i])
  <2>1. i - 1 \in 0 .. n - 1 /\ (i = n \/ i \in 1 .. n - 1) /\ (i # n => i \in 0 .. n - 1) BY <1>1
  <2>2. d[i - 1] = b[i - 1] - b[n - 1] + m /\ b[i - 1] \in Nat BY <2>1, <1>5
  <2>3. CASE i = n
    <3>1. d[i - 1] - d[i] = m BY <2>2, <2>3, <1>6, <1>4
    <3>2. QED BY <3>1, <2>3 DEF n
  <2>4. CASE i # n
    <3>1. d[i] = b[i] - b[n - 1] + m /\ b[i] \in Nat BY <2>1, <2>4, <1>5
    <3>2. d[i - 1] - d[i] = b[i - 1] - b[i] BY <3>1, <2>2, <1>4
    <3>3. gs[i] = fs[i] BY <2>1, <2>4 DEF n, TopMoves
    <3>4. QED BY <3>2, <3>3, <1>2
  <2>5. QED BY <2>3, <2>4
<1>11. Bounds(gs, d) BY <1>1, <1>6, <1>8, <1>9, <1>10 DEF Bounds
<1>12. QED BY <1>5, <1>6, <1>11 DEF n, Raised

(* The top frame goes on with less or more to join, and pendingTasks with    *)
(* elements that lie less high, or on top, or that the frame has forked.     *)
LEMMA CoverStep ==
  ASSUME NEW fs, NEW gs, TopMoves(fs, gs), NEW b, Bounds(fs, b), NEW m \in Nat, Owes(gs[Len(fs)].code, m),
         NEW ps \in Seq(Tasks), NEW qs \in Seq(Tasks), Covered(fs, ps, b),
         \A j \in 1 .. Len(qs) :
           \/ \E k \in 1 .. Len(ps) : /\ ps[k] = qs[j]
                                      /\ Len(qs) - j + b[Len(fs) - 1] <= Len(ps) - k + m
           \/ j = Len(qs) /\ m >= 1 /\ \E k \in 1 .. Len(ps) : ps[k] = qs[j]
           \/ j = Len(qs) /\ m >= 1 /\ qs[j] \in Forks(fs[Len(fs)].task),
         \A j \in 1 .. Len(qs) : Awaits(gs[Len(fs)], qs[j]) => j = Len(qs)
  PROVE  \E d : Bounds(gs, d) /\ Covered(gs, qs, d)
<1> DEFINE n == Len(fs)
<1>1. n \in Nat \ {0} /\ Len(gs) = n BY EmptySeq DEF TopMoves
<1>2. PICK d : /\ Bounds(gs, d) /\ d[n] = 0
               /\ \A i \in 0 .. n - 1 : d[i] = b[i] - b[n - 1] + m /\ m <= d[i]
  <2>1. \E d : Raised(fs, gs, b, m, d) BY NewBounds
  <2>2. QED BY <2>1 DEF Raised
<1>3. b \in [0 .. n -> Nat] BY DEF Bounds
<1> HIDE DEF n
<1>4. \A i \in 0 .. n : b[i] \in Nat BY <1>3
<1>5. Len(ps) \in Nat /\ Len(qs) \in Nat BY LenProperties
<1>6. n - 1 \in 0 .. n /\ b[n - 1] \in Nat /\ \A i \in 0 .. n - 1 : i \in 0 .. n BY <1>1, <1>4
<1>7. \A i \in 1 .. n : gs[i].task = fs[i].task
  <2>1. \A i \in 1 .. n : i = n \/ i \in 1 .. n - 1 BY <1>1
  <2>2. QED BY <2>1 DEF n, TopMoves
<1>8. ASSUME NEW j \in 1 .. Len(qs)
      PROVE  /\ \E i \in 1 .. n : qs[j] \in Forks(gs[i].task) /\ Len(qs) - j < d[i - 1]
             /\ \A i \in 1 .. n : Awaits(gs[i], qs[j]) => Len(qs) - j <= d[i]
  <2>1. \A i \in 1 .. n : Awaits(gs[i], qs[j]) /\ i = n => Len(qs) - j <= d[i]
    BY <1>2, <1>5 DEF n
  <2>2. CASE \E k \in 1 .. Len(ps) : /\ ps[k] = qs[j]
                                     /\ Len(qs) - j + b[n - 1] <= Len(ps) - k + m
    <3>1. PICK k \in 1 .. Len(ps) : ps[k] = qs[j] /\ Len(qs) - j + b[n - 1] <= Len(ps) - k + m
      BY <2>2
    <3>2. PICK i \in 1 .. n : ps[k] \in Forks(fs[i].task) /\ Len(ps) - k < b[i - 1]
      BY DEF Covered, n
    <3>3. i - 1 \in 0 .. n - 1 BY <1>1
    <3>4. d[i - 1] = b[i - 1] - b[n - 1] + m /\ b[i - 1] \in Nat BY <3>3, <1>2, <1>6, <1>4
    <3>5. Len(qs) - j < d[i - 1]
      <4>1. \A a, z \in Int, x, y \in Nat : a + y <= z + m /\ z < x => a < x - y + m OBVIOUS
      <4>2. Len(qs) - j \in Int /\ Len(ps) - k \in Int BY <1>5
      <4>3. Len(qs) - j < b[i - 1] - b[n - 1] + m BY <4>1, <4>2, <3>1, <3>2, <3>4, <1>6, Zenon
      <4>4. QED BY <4>3, <3>4
    <3>6. ASSUME NEW l \in 1 .. n, Awaits(gs[l], qs[j]), l # n PROVE Len(qs) - j <= d[l]
      <4>1. l \in 1 .. n - 1 /\ l \in 0 .. n - 1 BY <3>6, <1>1
      <4>2. Awaits(fs[l], ps[k]) BY <4>1, <3>1, <3>6 DEF n, TopMoves
      <4>3. Len(ps) - k <= b[l] BY <4>2 DEF Covered, n
      <4>4. d[l] = b[l] - b[n - 1] + m /\ b[l] \in Nat BY <4>1, <1>2, <1>4, <1>6
      <4>5. b[n - 1] \in Nat BY <1>6
      <4>6. \A a, z \in Int, x, y \in Nat : a + y <= z + m /\ z <= x => a <= x - y + m
        BY SMTT(30)
      <4>7. Len(qs) - j \in Int /\ Len(ps) - k \in Int BY <1>5
      <4>8. Len(qs) - j <= b[l] - b[n - 1] + m BY <4>6, <4>7, <3>1, <4>3, <4>4, <4>5, Zenon
      <4>9. QED BY <4>4, <4>8
    <3>7. qs[j] \in Forks(gs[i].task) BY <3>1, <3>2, <1>7
    <3>8. QED BY <2>1, <3>5, <3>6, <3>7
  <2>3. CASE j = Len(qs) /\ m >= 1
    <3>1. \A l \in 0 .. n - 1 : 0 < d[l]
      <4> TAKE l \in 0 .. n - 1
      <4>1. m <= d[l] /\ d[l] = b[l] - b[n - 1] + m /\ b[l] \in Nat BY <1>2, <1>4, <1>6
      <4>2. QED BY <4>1, <2>3, <1>6
    <3>2. \A l \in 1 .. n : l - 1 \in 0 .. n - 1 /\ (l # n => l \in 0 .. n - 1) BY <1>1
    <3>3. Len(qs) - j = 0 BY <2>3, <1>5
    <3>4. \A l \in 1 .. n : Len(qs) - j < d[l - 1] BY <3>1, <3>2, <3>3
    <3>5. \A l \in 1 .. n : Awaits(gs[l], qs[j]) => Len(qs) - j <= d[l]
      <4> TAKE l \in 1 .. n
      <4>1. l = n => d[l] = 0 BY <1>2
      <4>2. l # n => 0 < d[l] /\ d[l] \in Int
        <5> SUFFICES ASSUME l # n PROVE 0 < d[l] /\ d[l] \in Int OBVIOUS
        <5>1. l \in 0 .. n - 1 BY <3>2
        <5>2. 0 < d[l] BY <5>1, <3>1
        <5>3. d[l] = b[l] - b[n - 1] + m BY <5>1, <1>2
        <5>4. b[l] \in Nat BY <5>1, <1>4, <1>6
        <5>5. QED BY <5>2, <5>3, <5>4, <1>6
      <4>3. QED BY <4>1, <4>2, <3>3
    <3>6. \E l \in 1 .. n : qs[j] \in Forks(gs[l].task)
      <4>1. CASE qs[j] \in Forks(fs[n].task)
        <5>1. n \in 1 .. n BY <1>1
        <5>2. QED BY <4>1, <5>1, <1>7
      <4>2. CASE \E k \in 1 .. Len(ps) : ps[k] = qs[j]
        <5>1. PICK k \in 1 .. Len(ps) : ps[k] = qs[j] BY <4>2
        <5>2. PICK l \in 1 .. n : ps[k] \in Forks(fs[l].task) BY DEF Covered, n
        <5>3. QED BY <5>1, <5>2, <1>7
      <4>3. CASE ~(qs[j] \in Forks(fs[n].task)) /\ ~(\E k \in 1 .. Len(ps) : ps[k] = qs[j])
        BY <4>3 DEF n
      <4>4. QED BY <4>1, <4>2, <4>3
    <3>7. QED BY <3>4, <3>5, <3>6
  <2>4. QED BY <2>2, <2>3 DEF n
<1>9. Covered(gs, qs, d) BY <1>1, <1>8 DEF Covered
<1>10. QED BY <1>2, <1>9

-----------------------------------------------------------------------------
(* The active frame of a worker, and what happens to the frames.             *)
LEMMA FrameFacts ==
  ASSUME Types, NEW w \in Workers, frames[w] # << >>
  PROVE  LET n == Len(frames[w]) IN
         /\ frames[w] \in Seq(Frame) /\ n \in Nat \ {0} /\ n \in 1 .. n
         /\ Last(frames[w]) = frames[w][n] /\ frames[w][n] \in Frame
         /\ Code(w) = frames[w][n].code /\ Current(w) = frames[w][n].task
         /\ Code(w) \in Seq(Instruction) /\ Current(w) \in Tasks
         /\ Code(w) # << >> =>
              /\ Head(Code(w)) = Code(w)[1] /\ Code(w)[1] \in Instruction
              /\ Len(Code(w)) \in Nat \ {0}
<1>1. frames[w] \in Seq(Frame) BY DEF Types
<1>2. Len(frames[w]) \in Nat \ {0} BY <1>1, EmptySeq
<1>3. Last(frames[w]) = frames[w][Len(frames[w])] /\ Last(frames[w]) \in Frame
  BY <1>1, FrontAndLast
<1>4. Code(w) \in Seq(Instruction) /\ Current(w) \in Tasks BY <1>3 DEF Code, Current, Frame
<1>5. Code(w) # << >> =>
        /\ Head(Code(w)) = Code(w)[1] /\ Code(w)[1] \in Instruction /\ Len(Code(w)) \in Nat \ {0}
  BY <1>4, EmptySeq, Replaced
<1>6. QED BY <1>1, <1>2, <1>3, <1>4, <1>5 DEF Code, Current

(* A frame holds a task and a code.                                          *)
LEMMA FrameTypes ==
  ASSUME Types, NEW w \in Workers, NEW i \in 1 .. Len(frames[w])
  PROVE  frames[w][i].task \in Tasks /\ frames[w][i].code \in Seq(Instruction)
<1>1. frames[w][i] \in Frame BY ElementOfSeq DEF Types
<1>2. QED BY <1>1 DEF Frame

(* The stack of tasks under the frames.                                      *)
LEMMA StackFacts ==
  ASSUME Types
  PROVE  /\ Stack \in [Workers -> Seq(Tasks)]
         /\ \A w \in Workers : Len(Stack[w]) = Len(frames[w])
         /\ \A w \in Workers : \A i \in 1 .. Len(frames[w]) : Stack[w][i] = frames[w][i].task
<1>1. ASSUME NEW w \in Workers
      PROVE  /\ Stack[w] \in Seq(Tasks) /\ Len(Stack[w]) = Len(frames[w])
             /\ \A i \in 1 .. Len(frames[w]) : Stack[w][i] = frames[w][i].task
  <2>1. Len(frames[w]) \in Nat BY LenProperties DEF Types
  <2>2. \A i \in 1 .. Len(frames[w]) : frames[w][i].task \in Tasks BY FrameTypes
  <2>3. Stack[w] = [i \in 1 .. Len(frames[w]) |-> frames[w][i].task] BY DEF Stack
  <2>4. QED BY <2>1, <2>2, <2>3
<1>2. QED BY <1>1 DEF Stack

(* A step that replaces the head of the running code leaves every other      *)
(* frame.                                                                    *)
LEMMA BecomeFacts ==
  ASSUME Types, NEW w \in Workers, frames[w] # << >>, Code(w) # << >>,
         NEW new \in Seq(Instruction), Become(w, new)
  PROVE  LET n == Len(frames[w]) IN
         /\ frames' \in [Workers -> Seq(Frame)]
         /\ TopMoves(frames[w], frames'[w])
         /\ \A v \in Workers \ {w} : frames'[v] = frames[v]
         /\ frames'[w][n].code = new \o Tail(Code(w)) /\ frames'[w][n].task = Current(w)
         /\ Stack' = Stack
<1> DEFINE n == Len(frames[w])
           d == new \o Tail(Code(w))
           f == [frames[w][n] EXCEPT !.code = d]
<1>1. /\ frames[w] \in Seq(Frame) /\ n \in Nat \ {0} /\ n \in 1 .. n /\ frames[w][n] \in Frame
      /\ Current(w) = frames[w][n].task /\ Code(w) \in Seq(Instruction)
  BY FrameFacts
<1>2. d \in Seq(Instruction) BY <1>1, Replaced
<1> HIDE DEF d
<1>3. f \in Frame /\ f.code = d /\ f.task = frames[w][n].task BY <1>1, <1>2 DEF Frame
<1>4. frames \in [Workers -> Seq(Frame)] BY DEF Types
<1>5. frames' = [frames EXCEPT ![w] = [frames[w] EXCEPT ![n] = f]]
  BY <1>4 DEF Become, d
<1> HIDE DEF f
<1>6. /\ [frames[w] EXCEPT ![n] = f] \in Seq(Frame)
      /\ Len([frames[w] EXCEPT ![n] = f]) = n
      /\ \A j \in 1 .. n : [frames[w] EXCEPT ![n] = f][j] = IF j = n THEN f ELSE frames[w][j]
  BY <1>1, <1>3, ExceptSeq
<1>7. frames'[w] = [frames[w] EXCEPT ![n] = f] /\ \A v \in Workers \ {w} : frames'[v] = frames[v]
  BY <1>4, <1>5
<1>8. frames' \in [Workers -> Seq(Frame)] BY <1>4, <1>5, <1>6
<1>9. frames'[w][n] = f /\ Len(frames'[w]) = n /\ \A j \in 1 .. n - 1 : frames'[w][j] = frames[w][j]
  BY <1>1, <1>6, <1>7
<1>10. TopMoves(frames[w], frames'[w])
  BY <1>1, <1>3, <1>7, <1>6, <1>9 DEF TopMoves
<1>11. Stack' = Stack
  <2>1. \A v \in Workers : Len(frames'[v]) = Len(frames[v]) BY <1>7, <1>9
  <2>2. ASSUME NEW v \in Workers, NEW i \in 1 .. Len(frames[v])
        PROVE  frames'[v][i].task = frames[v][i].task
    <3>1. CASE v # w BY <3>1, <1>7
    <3>2. CASE v = w
      <4>1. i = n \/ i \in 1 .. n - 1 BY <3>2, <1>1
      <4>2. QED BY <3>2, <4>1, <1>3, <1>9
    <3>3. QED BY <3>1, <3>2
  <2>3. \A v \in Workers : [i \in 1 .. Len(frames'[v]) |-> frames'[v][i].task]
                         = [i \in 1 .. Len(frames[v]) |-> frames[v][i].task]
    BY <2>1, <2>2
  <2>4. QED BY <2>3 DEF Stack
<1>12. QED BY <1>1, <1>3, <1>7, <1>8, <1>9, <1>10, <1>11 DEF d

(* The shape of a code survives when more tasks are canceled or known.       *)
LEMMA ShapeMono ==
  ASSUME NEW c, NEW X, NEW K, NEW Y, NEW L, X \subseteq Y, K \subseteq L, CodeShape(c, X, K)
  PROVE  CodeShape(c, Y, L)
BY DEF CodeShape, ShapeAt

(* What is left of every frame's code after a step of the top of one.        *)
LEMMA CodesBecome ==
  ASSUME Types, Codes, NEW w \in Workers, frames[w] # << >>, Code(w) # << >>,
         NEW new \in Seq(Instruction), Become(w, new), body' = body,
         canceled \subseteq canceled', childs' = childs,
         Code(w)[1].op = "mark" => Code(w)[1].task \in canceled',
         \A i \in 1 .. Len(new) : ShapeAt(new \o Tail(Code(w)), i, canceled', Known),
         \A i \in 1 .. Len(new), t \in Tasks : ForksAs(new[i], t) =>
            Len(new) = 1 /\ ForksAs(Code(w)[1], t)
  PROVE  Codes'
<1> DEFINE n == Len(frames[w])
           d == new \o Tail(Code(w))
<1>1. Known' = Known BY DEF Known
<1>2. \A p : Forks(p)' = Forks(p) BY DEF Forks
<1>3. /\ n \in 1 .. n /\ n \in Nat \ {0} /\ Code(w) \in Seq(Instruction)
      /\ Code(w) = frames[w][n].code /\ Current(w) = frames[w][n].task
  BY FrameFacts
<1>4. /\ TopMoves(frames[w], frames'[w]) /\ \A v \in Workers \ {w} : frames'[v] = frames[v]
      /\ frames'[w][n].code = d /\ frames'[w][n].task = Current(w)
  BY BecomeFacts
<1>5. CodeShape(Code(w), canceled, Known)
      /\ ForksLeft(Code(w), Forks(Current(w)) \ childs[Current(w)])
  BY <1>3 DEF Codes
<1>6. CodeShape(d, canceled', Known) BY <1>3, <1>5, ShapeKept
<1>7. ForksLeft(d, Forks(Current(w)) \ childs[Current(w)]) BY <1>3, <1>5, ForksKept
<1> HIDE DEF d
<1>8. ASSUME NEW v \in Workers, NEW i \in 1 .. Len(frames'[v])
      PROVE  /\ CodeShape(frames'[v][i].code, canceled', Known)
             /\ ForksLeft(frames'[v][i].code, Forks(frames'[v][i].task) \ childs[frames'[v][i].task])
  <2>1. CASE v = w /\ i = n BY <2>1, <1>4, <1>6, <1>7
  <2>2. CASE ~(v = w /\ i = n)
    <3>1. i \in 1 .. Len(frames[v]) /\ frames'[v][i] = frames[v][i]
      <4>1. CASE v # w BY <4>1, <1>4
      <4>2. CASE v = w
        <5>1. i \in 1 .. n - 1 BY <4>2, <2>2, <1>3, <1>4 DEF TopMoves
        <5>2. QED BY <4>2, <5>1, <1>4 DEF TopMoves
      <4>3. QED BY <4>1, <4>2
    <3>2. CodeShape(frames[v][i].code, canceled, Known)
          /\ ForksLeft(frames[v][i].code, Forks(frames[v][i].task) \ childs[frames[v][i].task])
      BY <3>1 DEF Codes
    <3>3. QED BY <3>1, <3>2, ShapeMono
  <2>3. QED BY <2>1, <2>2
<1>9. QED BY <1>1, <1>2, <1>8 DEF Codes

(* If the debt of the new code makes up for what the step does to the        *)
(* pending list, the frames still cover the list.                            *)
LEMMA CoversBecome ==
  ASSUME Types, \A v \in Workers : Covers(v),
         NEW w \in Workers, frames[w] # << >>, Code(w) # << >>,
         NEW new \in Seq(Instruction), Become(w, new), body' = body,
         pending' \in [Workers -> Seq(Tasks)],
         \A v \in Workers \ {w} : pending'[v] = pending[v],
         \A k \in Nat : Owes(Code(w), k) => \E m \in Nat :
           /\ Owes(new \o Tail(Code(w)), m)
           /\ \A j \in 1 .. Len(pending'[w]) :
                \/ \E l \in 1 .. Len(pending[w]) :
                     /\ pending[w][l] = pending'[w][j]
                     /\ Len(pending'[w]) - j + k <= Len(pending[w]) - l + m
                \/ j = Len(pending'[w]) /\ m >= 1
                     /\ \E l \in 1 .. Len(pending[w]) : pending[w][l] = pending'[w][j]
                \/ j = Len(pending'[w]) /\ m >= 1 /\ pending'[w][j] \in Forks(Current(w)),
         \A j \in 1 .. Len(pending'[w]) :
           Awaits(frames'[w][Len(frames[w])], pending'[w][j]) => j = Len(pending'[w])
  PROVE  \A v \in Workers : Covers(v)'
<1> DEFINE n == Len(frames[w])
<1>1. \A p : Forks(p)' = Forks(p) BY DEF Forks
<1>2. /\ n \in 1 .. n /\ n \in Nat \ {0} /\ Code(w) \in Seq(Instruction)
      /\ Code(w) = frames[w][n].code /\ Current(w) = frames[w][n].task
  BY FrameFacts
<1>3. /\ TopMoves(frames[w], frames'[w]) /\ \A v \in Workers \ {w} : frames'[v] = frames[v]
      /\ frames'[w][n].code = new \o Tail(Code(w)) /\ frames'[w][n].task = Current(w)
  BY BecomeFacts
<1>4. PICK b : Bounds(frames[w], b) /\ Covered(frames[w], pending[w], b) BY DEF Covers
<1>5. b[n - 1] \in Nat /\ Owes(Code(w), b[n - 1])
  <2>1. b \in [0 .. n -> Nat] /\ b[n] = 0 /\ Owes(frames[w][n].code, b[n - 1] - b[n])
    BY <1>2, <1>4 DEF Bounds
  <2>2. n - 1 \in 0 .. n BY <1>2
  <2>3. b[n - 1] \in Nat
    <3> HIDE DEF n
    <3>1. QED BY <2>1, <2>2
  <2>4. b[n - 1] - b[n] = b[n - 1]
    <3>1. b[n] = 0 BY <2>1
    <3> HIDE DEF n
    <3>2. QED BY <2>3, <3>1
  <2>5. QED BY <2>1, <2>3, <2>4, <1>2
<1>6. PICK m \in Nat :
        /\ Owes(new \o Tail(Code(w)), m)
        /\ \A j \in 1 .. Len(pending'[w]) :
             \/ \E l \in 1 .. Len(pending[w]) :
                  /\ pending[w][l] = pending'[w][j]
                  /\ Len(pending'[w]) - j + b[n - 1] <= Len(pending[w]) - l + m
             \/ j = Len(pending'[w]) /\ m >= 1
                  /\ \E l \in 1 .. Len(pending[w]) : pending[w][l] = pending'[w][j]
             \/ j = Len(pending'[w]) /\ m >= 1 /\ pending'[w][j] \in Forks(Current(w))
  BY <1>5
<1>7. pending[w] \in Seq(Tasks) /\ pending'[w] \in Seq(Tasks) BY DEF Types
<1>8. Owes(frames'[w][n].code, m) BY <1>3, <1>6
<1> DEFINE fs == frames[w]
           gs == frames'[w]
           ps == pending[w]
           qs == pending'[w]
<1>9. \A j \in 1 .. Len(qs) :
        \/ \E k \in 1 .. Len(ps) : ps[k] = qs[j] /\ Len(qs) - j + b[Len(fs) - 1] <= Len(ps) - k + m
        \/ j = Len(qs) /\ m >= 1 /\ \E k \in 1 .. Len(ps) : ps[k] = qs[j]
        \/ j = Len(qs) /\ m >= 1 /\ qs[j] \in Forks(fs[Len(fs)].task)
  BY <1>2, <1>6
<1>10. ASSUME NEW j \in 1 .. Len(qs), Awaits(gs[Len(fs)], qs[j]) PROVE j = Len(qs)
  BY <1>10
<1>11. TopMoves(fs, gs) /\ Bounds(fs, b) /\ Covered(fs, ps, b) /\ Owes(gs[Len(fs)].code, m)
       /\ ps \in Seq(Tasks) /\ qs \in Seq(Tasks)
  BY <1>3, <1>4, <1>7, <1>8
<1> HIDE DEF fs, gs, ps, qs
<1>12. \E d : Bounds(gs, d) /\ Covered(gs, qs, d) BY <1>9, <1>10, <1>11, CoverStep
<1>13. Covers(w)' BY <1>1, <1>12 DEF Covers, Covered, gs, qs, Forks
<1>14. ASSUME NEW v \in Workers, v # w PROVE Covers(v)'
  <2>1. frames'[v] = frames[v] /\ pending'[v] = pending[v] BY <1>3, <1>14
  <2>2. PICK c : Bounds(frames[v], c) /\ Covered(frames[v], pending[v], c) BY DEF Covers
  <2>3. Bounds(frames'[v], c) /\ Covered(frames'[v], pending'[v], c) BY <2>1, <2>2
  <2>4. QED BY <2>3 DEF Covers, Covered, Forks
<1>15. QED BY <1>13, <1>14

-----------------------------------------------------------------------------
(* A step of a task that forks nothing: what it may change.                  *)
LEMMA KnownTasks ==
  ASSUME Types
  PROVE  Known \subseteq Tasks
BY SchedulerAssumption DEF Types, Known

(* The common part of the steps of a running task: what such a step has to   *)
(* show of its new code and lists to keep the invariant.                     *)
LEMMA BecomeStep ==
  ASSUME IInv, NEW w \in Workers, frames[w] # << >>, Code(w) # << >>,
         NEW new \in Seq(Instruction), Become(w, new), body' = body,
         UNCHANGED <<jobs, spec, grabbed, childs, working>>,
         proactive' \subseteq Tasks, newLevel' \subseteq Tasks,
         canceled \subseteq canceled', canceled' \subseteq Tasks,
         ready \subseteq ready', ready' \subseteq ready \cup (canceled' \cap Known),
         deleted' \subseteq ready', deleted' \cap Held = {}, deleted' \cap Members(pending') = {},
         pending' \in [Workers -> Seq(Tasks)], Once(pending'),
         \A v \in Workers : ToSet(pending'[v]) \subseteq ToSet(pending[v]),
         \A v \in Workers \ {w} : pending'[v] = pending[v],
         Code(w)[1].op = "mark" => Code(w)[1].task \in canceled',
         \A i \in 1 .. Len(new) : ShapeAt(new \o Tail(Code(w)), i, canceled', Known),
         \A i \in 1 .. Len(new), t \in Tasks : ForksAs(new[i], t) =>
            Len(new) = 1 /\ ForksAs(Code(w)[1], t),
         \A k \in Nat : Owes(Code(w), k) => \E m \in Nat :
           /\ Owes(new \o Tail(Code(w)), m)
           /\ \A j \in 1 .. Len(pending'[w]) :
                \/ \E l \in 1 .. Len(pending[w]) :
                     /\ pending[w][l] = pending'[w][j]
                     /\ Len(pending'[w]) - j + k <= Len(pending[w]) - l + m
                \/ j = Len(pending'[w]) /\ m >= 1
                     /\ \E l \in 1 .. Len(pending[w]) : pending[w][l] = pending'[w][j]
                \/ j = Len(pending'[w]) /\ m >= 1 /\ pending'[w][j] \in Forks(Current(w)),
         \A j \in 1 .. Len(pending'[w]) :
           Awaits(frames'[w][Len(frames[w])], pending'[w][j]) => j = Len(pending'[w]),
         \A v \in Workers, t \in Tasks :
           Awaits(frames'[w][Len(frames[w])], t) /\ t \in ToSet(pending'[v]) => v = w
  PROVE  IInv'
<1> DEFINE n == Len(frames[w])
<1>1. Types BY DEF IInv
<1>2. /\ frames' \in [Workers -> Seq(Frame)] /\ TopMoves(frames[w], frames'[w])
      /\ \A v \in Workers \ {w} : frames'[v] = frames[v] /\ Stack' = Stack
  BY <1>1, BecomeFacts
<1>s. Stack' = Stack BY <1>1, BecomeFacts
<1>3. Known' = Known /\ Hand' = Hand /\ Queued' = Queued /\ Held' = Held
  BY <1>s DEF Known, Hand, Queued, Held
<1>4. Types'
  <2>1. ready' \subseteq Tasks /\ deleted' \subseteq Tasks BY <1>1, KnownTasks DEF Types
  <2>2. /\ body' \in Programs /\ jobs' \in [Workers -> Seq(Tasks)] /\ spec' \in [Workers -> Seq(Tasks)]
        /\ grabbed' \in [Workers -> Tasks \cup {NoTask}] /\ working' \subseteq Tasks
        /\ childs' \in [Tasks -> SUBSET Tasks] /\ \A t \in Tasks : IsFiniteSet(childs'[t])
    BY <1>1 DEF Types
  <2>3. QED BY <1>2, <2>1, <2>2 DEF Types
<1>5. OnePlace' BY <1>s, <1>3 DEF IInv, OnePlace
<1>6. Forked'
  <2>1. Members(pending') \subseteq Members(pending) BY DEF Members
  <2>2. Forked BY DEF IInv
  <2>3. ready' \subseteq Known BY <2>2 DEF Forked
  <2>4. \A t : Forks(t)' = Forks(t) BY DEF Forks
  <2>5. \A t \in Tasks : childs'[t] \subseteq Forks(t) BY <2>2 DEF Forked
  <2>6. Held \subseteq Known /\ Members(pending') \subseteq Known
        /\ \A t \in Tasks : t \in Queued \/ t \notin Known => childs'[t] = {}
    BY <2>1, <2>2 DEF Forked
  <2>7. QED BY <1>3, <2>3, <2>4, <2>5, <2>6 DEF Forked
<1>7. Gone'
  <2>1. ready \cap Held \subseteq canceled BY DEF IInv, Gone
  <2>2. ready' \cap Held \subseteq canceled' BY <2>1
  <2>3. QED BY <2>2, <1>3 DEF Gone
<1>8. Codes' BY <1>1, CodesBecome DEF IInv
<1>9. \A v \in Workers : Covers(v)'
  <2>1. \A v \in Workers : Covers(v) BY DEF IInv, Pending
  <2>2. QED BY <1>1, <2>1, CoversBecome
<1>10. AwaitsOwn'
  <2> SUFFICES ASSUME NEW v \in Workers, NEW u \in Workers, NEW i \in 1 .. Len(frames'[u]),
                      NEW t \in Tasks, Awaits(frames'[u][i], t), t \in ToSet(pending'[v])
               PROVE  v = u
    BY DEF AwaitsOwn
  <2>1. t \in ToSet(pending[v]) OBVIOUS
  <2>2. CASE u = w /\ i = n BY <2>2
  <2>3. CASE ~(u = w /\ i = n)
    <3>1. i \in 1 .. Len(frames[u]) /\ frames'[u][i] = frames[u][i]
      <4>1. CASE u # w BY <4>1, <1>2
      <4>2. CASE u = w
        <5>0. n \in Nat \ {0} BY <1>1, FrameFacts
        <5>1. i \in 1 .. n - 1 BY <4>2, <2>3, <1>2, <5>0 DEF TopMoves
        <5>2. QED BY <4>2, <5>0, <5>1, <1>2 DEF TopMoves
      <4>3. QED BY <4>1, <4>2
    <3>2. QED BY <3>1, <2>1 DEF IInv, Pending, AwaitsOwn
  <2>4. QED BY <2>2, <2>3
<1>11. QED BY <1>4, <1>5, <1>6, <1>7, <1>8, <1>9, <1>10 DEF IInv, Pending

(* The same for the steps that leave the pending lists and the deletions     *)
(* alone.                                                                    *)
LEMMA QuietStep ==
  ASSUME IInv, NEW w \in Workers, frames[w] # << >>, Code(w) # << >>,
         NEW new \in Seq(Instruction), Become(w, new), body' = body,
         UNCHANGED <<pending, jobs, spec, grabbed, childs, working, deleted>>,
         proactive' \subseteq Tasks, newLevel' \subseteq Tasks,
         canceled \subseteq canceled', canceled' \subseteq Tasks,
         ready \subseteq ready', ready' \subseteq ready \cup (canceled' \cap Known),
         Code(w)[1].op = "mark" => Code(w)[1].task \in canceled',
         \A i \in 1 .. Len(new) : ShapeAt(new \o Tail(Code(w)), i, canceled', Known),
         \A i \in 1 .. Len(new), t \in Tasks : ForksAs(new[i], t) =>
            Len(new) = 1 /\ ForksAs(Code(w)[1], t),
         \A k \in Nat : Owes(Code(w), k) => \E m \in Nat :
           /\ Owes(new \o Tail(Code(w)), m)
           /\ k <= m \/ pending[w] = << >> \/ (m >= 1 /\ Len(pending[w]) <= 1),
         \A t : Awaits(frames'[w][Len(frames[w])], t) =>
           pending[w] # << >> /\ t = Last(pending[w])
  PROVE  IInv'
<1>1. Types /\ Once(pending) /\ Gone BY DEF IInv, Pending
<1>2. pending \in [Workers -> Seq(Tasks)] BY <1>1 DEF Types
<1>3. pending[w] \in Seq(Tasks) /\ Len(pending[w]) \in Nat /\ DOMAIN pending[w] = 1 .. Len(pending[w])
      /\ (pending[w] = << >> => Len(pending[w]) = 0)
  BY <1>2, LenProperties, EmptySeq
<1>4. pending[w] # << >> =>
        Len(pending[w]) \in 1 .. Len(pending[w]) /\ Last(pending[w]) = pending[w][Len(pending[w])]
  BY <1>3, EmptySeq DEF Last
<1>5. /\ deleted' \subseteq ready' /\ deleted' \cap Held = {} /\ deleted' \cap Members(pending') = {}
  BY <1>1 DEF Gone
<1>6. ASSUME NEW k \in Nat, Owes(Code(w), k)
      PROVE  \E m \in Nat :
               /\ Owes(new \o Tail(Code(w)), m)
               /\ \A j \in 1 .. Len(pending'[w]) :
                    \/ \E l \in 1 .. Len(pending[w]) :
                         /\ pending[w][l] = pending'[w][j]
                         /\ Len(pending'[w]) - j + k <= Len(pending[w]) - l + m
                    \/ j = Len(pending'[w]) /\ m >= 1
                         /\ \E l \in 1 .. Len(pending[w]) : pending[w][l] = pending'[w][j]
                    \/ j = Len(pending'[w]) /\ m >= 1 /\ pending'[w][j] \in Forks(Current(w))
  <2>1. PICK m \in Nat : /\ Owes(new \o Tail(Code(w)), m)
                         /\ k <= m \/ pending[w] = << >> \/ (m >= 1 /\ Len(pending[w]) <= 1)
    BY <1>6
  <2>2. ASSUME NEW j \in 1 .. Len(pending[w])
        PROVE  (Len(pending[w]) - j + k <= Len(pending[w]) - j + m) \/ (j = Len(pending[w]) /\ m >= 1)
    BY <2>1, <1>3
  <2>3. QED BY <2>1, <2>2
<1>7. ASSUME NEW j \in 1 .. Len(pending[w]), Awaits(frames'[w][Len(frames[w])], pending[w][j])
      PROVE  j = Len(pending[w])
  <2>1. pending[w][j] = pending[w][Len(pending[w])] /\ Len(pending[w]) \in 1 .. Len(pending[w])
    BY <1>4, <1>7
  <2>2. QED BY <1>1, <2>1 DEF Once
<1>8. ASSUME NEW v \in Workers, NEW t, Awaits(frames'[w][Len(frames[w])], t), t \in ToSet(pending[v])
      PROVE  v = w
  <2>1. t = pending[w][Len(pending[w])] /\ Len(pending[w]) \in 1 .. Len(pending[w]) BY <1>4, <1>8
  <2>2. DOMAIN pending[v] = 1 .. Len(pending[v]) BY <1>2, LenProperties
  <2>3. PICK i \in 1 .. Len(pending[v]) : pending[v][i] = t BY <1>8, <2>2 DEF ToSet
  <2>4. QED BY <1>1, <2>1, <2>3 DEF Once
<1>9. Once(pending') BY <1>1
<1>10. QED BY <1>2, <1>5, <1>6, <1>7, <1>8, <1>9, BecomeStep

-----------------------------------------------------------------------------
(* Initially only the program's own task exists, in the first worker's queue.*)
LEMMA InitIInv == Init => IInv
<1> SUFFICES ASSUME Init PROVE IInv OBVIOUS
<1>1. /\ body \in Programs /\ frames = [w \in Workers |-> << >>]
      /\ pending = [w \in Workers |-> << >>] /\ spec = [w \in Workers |-> << >>]
      /\ jobs = [w \in Workers |-> IF w = First THEN <<Main>> ELSE << >>]
      /\ grabbed = [w \in Workers |-> NoTask]
      /\ ready = {} /\ working = {} /\ proactive = {} /\ newLevel = {} /\ canceled = {}
      /\ childs = [t \in Tasks |-> {}] /\ deleted = {}
  BY DEF Init
<1>2. First \in Workers /\ Main \in Tasks BY SchedulerAssumption
<1>3. << >> \in Seq(Tasks) /\ << >> \in Seq(Frame) /\ Len(<< >>) = 0 /\ 1 .. 0 = {} BY EmptySeq
<1>4. <<Main>> \in Seq(Tasks) /\ Len(<<Main>>) = 1 /\ <<Main>>[1] = Main BY <1>2
<1>5. jobs \in [Workers -> Seq(Tasks)] BY <1>1, <1>3, <1>4
<1>6. /\ frames \in [Workers -> Seq(Frame)] /\ pending \in [Workers -> Seq(Tasks)]
      /\ spec \in [Workers -> Seq(Tasks)] /\ grabbed \in [Workers -> Tasks \cup {NoTask}]
      /\ childs \in [Tasks -> SUBSET Tasks]
  BY <1>1, <1>3
<1>7. \A t \in Tasks : IsFiniteSet(childs[t]) BY <1>1, FS_EmptySet
<1>8. Types BY <1>1, <1>5, <1>6, <1>7 DEF Types
<1>9. \A w \in Workers : frames[w] = << >> /\ pending[w] = << >> /\ spec[w] = << >>
                         /\ Len(frames[w]) = 0 /\ Len(pending[w]) = 0 /\ Len(spec[w]) = 0
  BY <1>1, <1>3
<1>10. Stack \in [Workers -> Seq(Tasks)] /\ \A w \in Workers : Len(Stack[w]) = 0
  BY <1>8, <1>9, StackFacts
<1>11. Members(Stack) = {} /\ Members(pending) = {} /\ Members(spec) = {}
  <2>1. \A x : x \notin Members(Stack) BY <1>3, <1>10, MemberOf
  <2>2. \A x : x \notin Members(pending) BY <1>3, <1>6, <1>9, MemberOf
  <2>3. \A x : x \notin Members(spec) BY <1>3, <1>6, <1>9, MemberOf
  <2>4. QED BY <2>1, <2>2, <2>3
<1>12. \A w \in Workers : \A i \in 1 .. Len(jobs[w]) : w = First /\ i = 1 /\ jobs[w][i] = Main
  BY <1>1, <1>3, <1>4
<1>13. Members(jobs) \subseteq {Main} BY <1>5, <1>12, MemberOf
<1>14. Hand = {} BY <1>1 DEF Hand
<1>15. Held \subseteq {Main} /\ Queued \subseteq {Main} BY <1>11, <1>13, <1>14 DEF Held, Queued
<1>16. OnePlace
  <2>1. Once(Stack) /\ Once(spec) BY <1>3, <1>9, <1>10 DEF Once
  <2>2. Once(jobs) BY <1>12 DEF Once
  <2>3. \A v, w \in Workers : grabbed[v] = grabbed[w] => v = w \/ grabbed[v] = NoTask BY <1>1
  <2>4. QED BY <2>1, <2>2, <2>3, <1>11, <1>14 DEF OnePlace
<1>17. Forked BY <1>1, <1>11, <1>15 DEF Forked, Known
<1>18. Gone BY <1>1 DEF Gone
<1>19. Codes BY <1>3, <1>9 DEF Codes
<1>20. Pending
  <2>1. Once(pending) BY <1>3, <1>9 DEF Once
  <2>2. AwaitsOwn BY <1>3, <1>9 DEF AwaitsOwn
  <2>3. ASSUME NEW w \in Workers PROVE Covers(w)
    <3> DEFINE b == [i \in 0 .. 0 |-> 0]
    <3>1. b \in [0 .. 0 -> Nat] /\ b[0] = 0 /\ \A i, j \in 0 .. 0 : b[j] <= b[i] OBVIOUS
    <3> HIDE DEF b
    <3>2. Bounds(frames[w], b) BY <1>3, <1>9, <3>1 DEF Bounds
    <3>3. Covered(frames[w], pending[w], b) BY <1>3, <1>9 DEF Covered
    <3>4. QED BY <3>2, <3>3 DEF Covers
  <2>4. QED BY <2>1, <2>2, <2>3 DEF Pending
<1>21. QED BY <1>8, <1>16, <1>17, <1>18, <1>19, <1>20 DEF IInv

-----------------------------------------------------------------------------
(* The instruction a worker is about to execute.                             *)
LEMMA AtFacts ==
  ASSUME IInv, NEW w \in Workers, NEW op, At(w, op)
  PROVE  /\ frames[w] # << >> /\ Code(w) # << >> /\ grabbed[w] = NoTask
         /\ Code(w) \in Seq(Instruction) /\ Len(Code(w)) \in Nat \ {0} /\ Current(w) \in Tasks
         /\ Code(w)[1] \in Instruction /\ Code(w)[1].op = op
         /\ Head(Code(w)) = Code(w)[1] /\ Target(w) = Code(w)[1].task
         /\ CodeShape(Code(w), canceled, Known) /\ ShapeAt(Code(w), 1, canceled, Known)
         /\ ForksLeft(Code(w), Forks(Current(w)) \ childs[Current(w)])
<1>1. frames[w] # << >> /\ Code(w) # << >> /\ grabbed[w] = NoTask /\ Head(Code(w)).op = op
  BY DEF At, Running
<1>2. Types /\ Codes BY DEF IInv
<1>3. /\ Len(frames[w]) \in 1 .. Len(frames[w])
      /\ Code(w) = frames[w][Len(frames[w])].code /\ Current(w) = frames[w][Len(frames[w])].task
      /\ Code(w) \in Seq(Instruction) /\ Current(w) \in Tasks
      /\ Head(Code(w)) = Code(w)[1] /\ Code(w)[1] \in Instruction /\ Len(Code(w)) \in Nat \ {0}
  BY <1>1, <1>2, FrameFacts
<1>4. CodeShape(Code(w), canceled, Known)
      /\ ForksLeft(Code(w), Forks(Current(w)) \ childs[Current(w)])
  BY <1>2, <1>3 DEF Codes
<1>5. ShapeAt(Code(w), 1, canceled, Known) BY <1>3, <1>4 DEF CodeShape
<1>6. QED BY <1>1, <1>3, <1>4, <1>5 DEF Target

(* A code whose head is replaced by something other than an await awaits     *)
(* nothing.                                                                  *)
LEMMA NotAwaiting ==
  ASSUME NEW c \in Seq(Instruction), c # << >>, NEW new \in Seq(Instruction), NEW X, NEW K,
         CodeShape(c, X, K), \A i \in 1 .. Len(new) : new[i].op # "await",
         NEW f, f.code = new \o Tail(c), NEW t
  PROVE  ~Awaits(f, t)
<1> DEFINE d == new \o Tail(c)
<1>1. /\ d \in Seq(Instruction) /\ Len(d) = Len(new) + Len(c) - 1
      /\ Len(new) \in Nat /\ Len(c) \in Nat \ {0}
      /\ \A i \in 1 .. Len(new) : d[i] = new[i]
      /\ \A i \in Len(new) + 1 .. Len(d) : d[i] = c[i - Len(new) + 1]
  BY Replaced
<1> HIDE DEF d
<1>2. SUFFICES ASSUME d # << >> PROVE Head(d).op # "await" BY DEF Awaits, d
<1>3. Head(d) = d[1] /\ Len(d) \in Nat \ {0} BY <1>1, <1>2, HeadTailProperties, EmptySeq
<1>4. CASE Len(new) # 0 BY <1>1, <1>3, <1>4
<1>5. CASE Len(new) = 0
  <2>1. d[1] = c[1 - 0 + 1] /\ 1 - 0 + 1 = 2 /\ 2 \in 1 .. Len(c) BY <1>1, <1>3, <1>5
  <2>2. ShapeAt(c, 2, X, K) BY <2>1 DEF CodeShape
  <2>3. c[2].op # "await" BY <2>2 DEF ShapeAt
  <2>4. QED BY <1>3, <2>1, <2>3
<1>6. QED BY <1>4, <1>5

(* A step that makes nothing wait.                                           *)
LEMMA SilentStep ==
  ASSUME IInv, NEW w \in Workers, NEW op, At(w, op),
         NEW new \in Seq(Instruction), Become(w, new), body' = body,
         UNCHANGED <<pending, jobs, spec, grabbed, childs, working, deleted>>,
         proactive' \subseteq Tasks, newLevel' \subseteq Tasks,
         canceled \subseteq canceled', canceled' \subseteq Tasks,
         ready \subseteq ready', ready' \subseteq ready \cup (canceled' \cap Known),
         op = "mark" => Code(w)[1].task \in canceled',
         \A i \in 1 .. Len(new) :
           ShapeAt(new \o Tail(Code(w)), i, canceled', Known) /\ new[i].op # "await",
         \A i \in 1 .. Len(new), t \in Tasks : ForksAs(new[i], t) =>
            Len(new) = 1 /\ ForksAs(Code(w)[1], t),
         \A k \in Nat : Owes(Code(w), k) => \E m \in Nat :
           /\ Owes(new \o Tail(Code(w)), m)
           /\ k <= m \/ pending[w] = << >> \/ (m >= 1 /\ Len(pending[w]) <= 1)
  PROVE  IInv'
<1>1. /\ frames[w] # << >> /\ Code(w) # << >> /\ Code(w) \in Seq(Instruction)
      /\ Code(w)[1].op = op /\ CodeShape(Code(w), canceled, Known)
  BY AtFacts
<1>2. Types BY DEF IInv
<1>3. frames'[w][Len(frames[w])].code = new \o Tail(Code(w)) BY <1>1, <1>2, BecomeFacts
<1>4. \A t : ~Awaits(frames'[w][Len(frames[w])], t) BY <1>1, <1>3, NotAwaiting
<1>5. QED BY <1>1, <1>4, QuietStep

-----------------------------------------------------------------------------
(* What is owed when the first instruction has become others.                *)
LEMMA OwesGone ==
  ASSUME NEW c \in Seq(Instruction), c # << >>, NEW k, Owes(c, k)
  PROVE  \E m \in Nat : Owes(<< >> \o Tail(c), m) /\ k + Spawns(c[1]) <= m + Removes(c[1])
<1>1. PICK m \in Nat : Owes(Tail(c), m) /\ k + Spawns(c[1]) <= m + Removes(c[1]) BY OwesTail
<1>2. Tail(c) \in Seq(Instruction) BY HeadTailProperties
<1>3. << >> \o Tail(c) = Tail(c) BY <1>2, ConcatEmptySeq
<1>4. QED BY <1>1, <1>3

(* An instruction that adds and removes as many tasks as the one it replaces *)
(* keeps the debt.                                                           *)
LEMMA OwesSame ==
  ASSUME NEW c \in Seq(Instruction), c # << >>, NEW x \in Instruction,
         Spawns(x) = Spawns(c[1]), Removes(x) = Removes(c[1]), NEW k \in Nat, Owes(c, k)
  PROVE  Owes(<<x>> \o Tail(c), k)
<1>1. PICK m \in Nat : Owes(Tail(c), m) /\ k + Spawns(c[1]) <= m + Removes(c[1]) BY OwesTail
<1>2. Tail(c) \in Seq(Instruction) BY HeadTailProperties
<1>3. k + Spawns(x) <= m + Removes(x) BY <1>1
<1>4. QED BY <1>1, <1>2, <1>3, OwesOne

(* Each erasure put before a code owes one more task.                        *)
LEMMA OwesJoins ==
  ASSUME NEW new \in Seq(Instruction), NEW c \in Seq(Instruction), NEW m \in Nat, Owes(c, m),
         \A i \in 1 .. Len(new) : Spawns(new[i]) = 0 /\ Removes(new[i]) = 1
  PROVE  Owes(new \o c, m + Len(new))
<1> DEFINE n == Len(new)
           g == [i \in 1 .. n + 1 |-> m + (n + 1 - i)]
<1>1. n \in Nat BY LenProperties
<1> HIDE DEF n
<1>2. g \in [1 .. n + 1 -> Nat] BY <1>1
<1>3. g[1] = m + n /\ g[n + 1] = m BY <1>1
<1>4. ASSUME NEW i \in 1 .. n PROVE g[i] + Spawns(new[i]) <= g[i + 1] + Removes(new[i])
  <2>1. Spawns(new[i]) = 0 /\ Removes(new[i]) = 1 BY DEF n
  <2>2. g[i] = g[i + 1] + 1 /\ g[i] \in Nat /\ g[i + 1] \in Nat BY <1>1
  <2>3. QED BY <2>1, <2>2
<1> HIDE DEF g
<1>5. QED BY <1>2, <1>3, <1>4, OwesPrefix DEF n

(* A code that begins with a join owes at least one task.                    *)
LEMMA OwesMore ==
  ASSUME NEW c \in Seq(Instruction), c # << >>, c[1].op = "join", NEW m \in Nat, Owes(c, m)
  PROVE  \E k \in Nat : Owes(c, k) /\ k >= m /\ k >= 1
<1>1. PICK l \in Nat : Owes(Tail(c), l) /\ m + Spawns(c[1]) <= l + Removes(c[1]) BY OwesTail
<1>2. Spawns(c[1]) = 0 /\ Removes(c[1]) = 1 BY DEF Spawns, Removes
<1>3. c[1] \in Instruction /\ Tail(c) \in Seq(Instruction) /\ c = <<c[1]>> \o Tail(c)
  BY HeadTailProperties, ConcatProperties, EmptySeq
<1>4. l + 1 + Spawns(c[1]) <= l + Removes(c[1]) /\ l + 1 \in Nat BY <1>2
<1>5. Owes(<<c[1]>> \o Tail(c), l + 1) BY <1>1, <1>3, <1>4, OwesOne
<1>6. Owes(c, l + 1) BY <1>3, <1>5
<1>7. l + 1 >= m /\ l + 1 >= 1 BY <1>1, <1>2
<1>8. QED BY <1>4, <1>6, <1>7

-----------------------------------------------------------------------------
(* The steps that leave the queues and pendingTasks alone.                   *)
LEMMA NothingNew ==
  /\ << >> \in Seq(Instruction) /\ Len(<< >>) = 0 /\ 1 .. Len(<< >>) = {}
  /\ \A x \in Instruction : <<x>> \in Seq(Instruction) /\ Len(<<x>>) = 1 /\ <<x>>[1] = x
  /\ \A x, y \in Instruction :
       <<x, y>> \in Seq(Instruction) /\ Len(<<x, y>>) = 2 /\ <<x, y>>[1] = x /\ <<x, y>>[2] = y
BY EmptySeq

(* A canceled task skips a fork; the instruction is done.                    *)
LEMMA SkipStep ==
  ASSUME IInv, NEW w \in Workers, NEW op, At(w, op), Become(w, << >>), body' = body,
         UNCHANGED <<pending, jobs, spec, grabbed, childs, working, deleted, proactive, ready>>,
         newLevel' \subseteq Tasks, canceled \subseteq canceled', canceled' \subseteq Tasks,
         op = "mark" => Code(w)[1].task \in canceled',
         \A k, m \in Nat : k + Spawns(Code(w)[1]) <= m + Removes(Code(w)[1]) =>
           k <= m \/ pending[w] = << >>
  PROVE  IInv'
<1>1. Code(w) # << >> /\ Code(w) \in Seq(Instruction) BY AtFacts
<1>2. proactive' \subseteq Tasks BY DEF IInv, Types
<1>3. \A k \in Nat : Owes(Code(w), k) => \E m \in Nat :
        /\ Owes(<< >> \o Tail(Code(w)), m)
        /\ k <= m \/ pending[w] = << >> \/ (m >= 1 /\ Len(pending[w]) <= 1)
  BY <1>1, OwesGone
<1>4. QED BY <1>2, <1>3, NothingNew, SilentStep

(* fork and speculative fork: the task is about to enter the pending list.   *)
LEMMA ForkStep ==
  ASSUME IInv, NEW w \in Workers, body' = body, ForkTask(w) \/ SpeculateTask(w)
  PROVE  IInv'
<1>1. PICK op \in {"fork", "speculate"} : At(w, op) BY DEF ForkTask, SpeculateTask
<1>2. /\ UNCHANGED <<pending, jobs, spec, grabbed, ready, working, canceled, childs, deleted>>
      /\ Current(w) \in canceled => Become(w, << >>) /\ UNCHANGED <<proactive, newLevel>>
      /\ Current(w) \notin canceled =>
           /\ Become(w, <<Add(Target(w))>>)
           /\ proactive' \subseteq proactive \cup {Target(w)}
           /\ newLevel' \subseteq newLevel \cup {Target(w)}
  BY DEF ForkTask, SpeculateTask
<1>3. /\ Code(w) # << >> /\ Code(w) \in Seq(Instruction) /\ Code(w)[1] \in Instruction
      /\ Code(w)[1].op = op /\ Target(w) = Code(w)[1].task
  BY <1>1, AtFacts
<1>4. Target(w) \in Tasks BY <1>3, InstructionFacts
<1>5. proactive \subseteq Tasks /\ newLevel \subseteq Tasks /\ canceled \subseteq Tasks
  BY DEF IInv, Types
<1>6. Spawns(Code(w)[1]) = 1 /\ Removes(Code(w)[1]) = 0 BY <1>3 DEF Spawns, Removes
<1>7. CASE Current(w) \in canceled
  <2>1. \A k, m \in Nat : k + Spawns(Code(w)[1]) <= m + Removes(Code(w)[1]) => k <= m BY <1>6
  <2>2. QED BY <1>1, <1>2, <1>5, <1>7, <2>1, SkipStep
<1>8. CASE Current(w) \notin canceled
  <2> DEFINE x == Add(Target(w))
  <2>1. x \in Instruction BY <1>4 DEF Instruction, Expansions
  <2>2. x.op = "add" /\ Spawns(x) = 1 /\ Removes(x) = 0 BY DEF Add, Spawns, Removes
  <2>3. \A t \in Tasks : ForksAs(x, t) => ForksAs(Code(w)[1], t)
    <3>1. x.task = Target(w) BY DEF Add
    <3> HIDE DEF x
    <3>2. QED BY <2>1, <3>1, <1>3, InstructionFacts
  <2> HIDE DEF x
  <2>4. Become(w, <<x>>) BY <1>2, <1>8 DEF x
  <2>5. <<x>> \in Seq(Instruction) /\ Len(<<x>>) = 1 /\ <<x>>[1] = x BY <2>1, NothingNew
  <2> DEFINE new == <<x>>
             d == new \o Tail(Code(w))
  <2> HIDE DEF new
  <2>6. new \in Seq(Instruction) /\ Len(new) = 1 /\ new[1] = x /\ Become(w, new)
    BY <2>4, <2>5 DEF new
  <2>7. d[1] = x
    <3>1. \A i \in 1 .. Len(new) : d[i] = new[i] BY <1>3, <2>6, Replaced
    <3>2. 1 \in 1 .. Len(new) BY <2>6
    <3>3. QED BY <2>6, <3>1, <3>2
  <2>8. \A i \in 1 .. Len(new) : i = 1 BY <2>6
  <2>9. ShapeAt(d, 1, canceled', Known) BY <2>2, <2>7 DEF ShapeAt
  <2>10. \A i \in 1 .. Len(new) : ShapeAt(d, i, canceled', Known) /\ new[i].op # "await"
    BY <2>2, <2>6, <2>8, <2>9
  <2>11. \A k \in Nat : Owes(Code(w), k) => \E m \in Nat : Owes(d, m) /\ k <= m
    <3> TAKE k \in Nat
    <3> HAVE Owes(Code(w), k)
    <3>1. Owes(<<x>> \o Tail(Code(w)), k) BY <1>3, <1>6, <2>1, <2>2, OwesSame
    <3>2. Owes(d, k) /\ k <= k BY <3>1 DEF new
    <3>3. QED BY <3>2
  <2>12. \A i \in 1 .. Len(new), t \in Tasks : ForksAs(new[i], t) =>
            Len(new) = 1 /\ ForksAs(Code(w)[1], t)
    BY <2>3, <2>6, <2>8
  <2>13. proactive' \subseteq Tasks /\ newLevel' \subseteq Tasks /\ op # "mark"
    BY <1>2, <1>4, <1>5, <1>8, <1>1
  <2>14. canceled' = canceled /\ ready' = ready
         /\ UNCHANGED <<pending, jobs, spec, grabbed, childs, working, deleted>>
    BY <1>2
  <2> HIDE DEF d
  <2>15. \A i \in 1 .. Len(new) :
           ShapeAt(new \o Tail(Code(w)), i, canceled', Known) /\ new[i].op # "await"
    BY <2>10 DEF d
  <2>16. \A k \in Nat : Owes(Code(w), k) => \E m \in Nat :
           /\ Owes(new \o Tail(Code(w)), m)
           /\ k <= m \/ pending[w] = << >> \/ (m >= 1 /\ Len(pending[w]) <= 1)
    BY <2>11 DEF d
  <2>17. QED BY <1>1, <1>5, <2>6, <2>12, <2>13, <2>14, <2>15, <2>16, SilentStep
<1>9. QED BY <1>7, <1>8

(* join up to its wait: the task that is last in the pending list is         *)
(* awaited.                                                                  *)
LEMMA BeginJoinStep ==
  ASSUME IInv, NEW w \in Workers, body' = body, BeginJoin(w)
  PROVE  IInv'
<1>1. At(w, "join") BY DEF BeginJoin
<1>2. /\ frames[w] # << >> /\ Code(w) # << >> /\ Code(w) \in Seq(Instruction)
      /\ Code(w)[1] \in Instruction /\ Code(w)[1].op = "join" /\ Head(Code(w)) = Code(w)[1]
      /\ CodeShape(Code(w), canceled, Known)
  BY <1>1, AtFacts
<1>3. Spawns(Code(w)[1]) = 0 /\ Removes(Code(w)[1]) = 1 BY <1>2 DEF Spawns, Removes
<1>4. UNCHANGED <<pending, spec, grabbed, ready, working, canceled, childs, deleted>> BY DEF BeginJoin
<1>5. Types /\ Forked BY DEF IInv
<1>6. proactive \subseteq Tasks /\ newLevel \subseteq Tasks /\ canceled \subseteq Tasks
      /\ pending \in [Workers -> Seq(Tasks)] /\ jobs \in [Workers -> Seq(Tasks)]
  BY <1>5 DEF Types
<1>7. CASE pending[w] = << >>
  <2>1. Become(w, << >>) /\ UNCHANGED <<jobs, proactive, newLevel>> BY <1>7 DEF BeginJoin
  <2>2. QED BY <1>1, <1>4, <1>6, <1>7, <2>1, SkipStep
<1>8. CASE pending[w] # << >>
  <2> DEFINE t == Last(pending[w])
             x == Await(t, Code(w)[1].meant)
             new == <<x>>
             d == new \o Tail(Code(w))
             moved == IF t \in proactive /\ Parent(t) \notin proactive THEN Moved(t) ELSE {}
  <2>1. moved = {} BY DEF Moved
  <2>2. /\ Become(w, new) /\ newLevel' = (newLevel \ {t}) \ moved /\ proactive' = proactive \ moved
        /\ jobs' = [jobs EXCEPT ![w] = @ \o SetToSeq(moved \ (ready \cup working))]
    BY <1>2, <1>8 DEF BeginJoin
  <2> HIDE DEF moved
  <2>3. SetToSeq({}) = << >>
    <3>1. Cardinality({}) = 0 /\ 1 .. 0 = {} BY FS_EmptySet
    <3>2. \A f \in [1 .. 0 -> {}] : f = << >> BY EmptySeq, <3>1
    <3>3. << >> \in [1 .. 0 -> {}] BY <3>1
    <3>4. IsInjective(<< >>) BY DEF IsInjective
    <3>5. QED BY <3>1, <3>2, <3>3, <3>4 DEF SetToSeq
  <2>4. jobs' = jobs
    <3>1. jobs[w] \in Seq(Tasks) BY <1>6
    <3>2. jobs[w] \o << >> = jobs[w] BY <3>1, ConcatEmptySeq
    <3>3. moved \ (ready \cup working) = {} BY <2>1
    <3>4. jobs' = [jobs EXCEPT ![w] = @ \o << >>] BY <2>2, <2>3, <3>3
    <3>5. QED BY <1>6, <3>2, <3>4
  <2>5. t \in Tasks /\ t \in Known
    <3>1. pending[w] \in Seq(Tasks) BY <1>6
    <3>2. t = pending[w][Len(pending[w])] /\ Len(pending[w]) \in Nat \ {0} /\ t \in Tasks
      BY <1>8, <3>1, FrontAndLast
    <3>3. Len(pending[w]) \in 1 .. Len(pending[w]) BY <3>2
    <3>4. t \in Members(pending) BY <1>6, <3>2, <3>3, MemberOf
    <3>5. QED BY <1>5, <3>2, <3>4 DEF Forked
  <2> HIDE DEF t
  <2>6. Code(w)[1].meant \in Tasks BY <1>2, InstructionFacts
  <2>7. x \in Instruction BY <2>5, <2>6 DEF Instruction, Expansions
  <2>8. x.op = "await" /\ x.task = t /\ Spawns(x) = 0 /\ Removes(x) = 1
    BY DEF Await, Spawns, Removes
  <2> HIDE DEF x
  <2>9. new \in Seq(Instruction) /\ Len(new) = 1 /\ new[1] = x BY <2>7, NothingNew
  <2> HIDE DEF new
  <2>10. d \in Seq(Instruction) /\ Len(d) \in Nat \ {0} /\ d[1] = x
    <3>1. /\ d \in Seq(Instruction) /\ Len(d) = Len(new) + Len(Code(w)) - 1
          /\ Len(Code(w)) \in Nat \ {0} /\ \A i \in 1 .. Len(new) : d[i] = new[i]
      BY <1>2, <2>9, Replaced
    <3>2. 1 \in 1 .. Len(new) BY <2>9
    <3>3. QED BY <2>9, <3>1, <3>2
  <2>11. ShapeAt(d, 1, canceled', Known) BY <2>5, <2>8, <2>10 DEF ShapeAt
  <2>12. \A i \in 1 .. Len(new) : i = 1 BY <2>9
  <2>13. \A u \in Tasks : ~ForksAs(x, u) BY <2>7, <2>8, InstructionFacts
  <2>14. \A k \in Nat : Owes(Code(w), k) => Owes(d, k)
    BY <1>2, <1>3, <2>7, <2>8, OwesSame DEF new
  <2>15. frames'[w][Len(frames[w])].code = d BY <1>2, <1>5, <2>2, <2>9, BecomeFacts
  <2>16. \A u : Awaits(frames'[w][Len(frames[w])], u) => u = t
    <3>1. Head(d) = x BY <2>10, HeadTailProperties, EmptySeq
    <3>2. QED BY <2>8, <2>15, <3>1 DEF Awaits
  <2> HIDE DEF d
  <2>17. /\ \A i \in 1 .. Len(new) : ShapeAt(new \o Tail(Code(w)), i, canceled', Known)
         /\ \A i \in 1 .. Len(new), u \in Tasks : ForksAs(new[i], u) =>
              Len(new) = 1 /\ ForksAs(Code(w)[1], u)
    BY <2>9, <2>11, <2>12, <2>13 DEF d
  <2>18. \A k \in Nat : Owes(Code(w), k) => \E m \in Nat :
           /\ Owes(new \o Tail(Code(w)), m)
           /\ k <= m \/ pending[w] = << >> \/ (m >= 1 /\ Len(pending[w]) <= 1)
    <3> TAKE k \in Nat
    <3> HAVE Owes(Code(w), k)
    <3>1. Owes(new \o Tail(Code(w)), k) /\ k <= k BY <2>14 DEF d
    <3>2. QED BY <3>1
  <2>19. \A u : Awaits(frames'[w][Len(frames[w])], u) => pending[w] # << >> /\ u = Last(pending[w])
    BY <1>8, <2>16 DEF t
  <2>20. proactive' \subseteq Tasks /\ newLevel' \subseteq Tasks BY <1>6, <2>2
  <2>21. /\ canceled' = canceled /\ ready' = ready /\ Code(w)[1].op # "mark"
         /\ UNCHANGED <<pending, jobs, spec, grabbed, childs, working, deleted>>
    BY <1>2, <1>4, <2>4
  <2>22. QED BY <1>2, <1>6, <2>2, <2>9, <2>17, <2>18, <2>19, <2>20, <2>21, QuietStep
<1>9. QED BY <1>7, <1>8

(* The choice of a branch: one task is joined, the other canceled.           *)
LEMMA ChooseStep ==
  ASSUME IInv, NEW w \in Workers, body' = body, NEW cond \in BOOLEAN, ChooseBranch(w, cond)
  PROVE  IInv'
<1> DEFINE c == Code(w)[1]
           needed == IF cond THEN c.then ELSE c.else
           unneeded == IF cond THEN c.else ELSE c.then
           x == CancelAt(CancelPosition(c, cond))
           y == Join(needed)
           new == (IF unneeded # NoTask THEN <<x>> ELSE << >>)
                  \o (IF needed # NoTask THEN <<y>> ELSE << >>)
           d == new \o Tail(Code(w))
<1>1. At(w, "choose") BY DEF ChooseBranch
<1>2. /\ Code(w) # << >> /\ Code(w) \in Seq(Instruction)
      /\ c \in Instruction /\ c.op = "choose" /\ Head(Code(w)) = c
  BY <1>1, AtFacts
<1>3. Become(w, new) /\ UNCHANGED <<pending, jobs, spec, grabbed, flags, childs, deleted>>
  BY <1>2 DEF ChooseBranch
<1>4. c.then \in Tasks \cup {NoTask} /\ c.else \in Tasks \cup {NoTask} BY <1>2, InstructionFacts
<1>5. CancelPosition(c, cond) \in {1, 2} BY DEF CancelPosition
<1>6. CancelPosition(c, cond) = 2 => needed # NoTask BY DEF CancelPosition
<1>7. Removes(c) = (IF unneeded # NoTask THEN 1 ELSE 0) + (IF needed # NoTask THEN 1 ELSE 0)
      /\ Spawns(c) = 0
  BY <1>2 DEF Removes, Spawns
<1>a. needed \in Tasks \cup {NoTask} BY <1>4
<1>b. unneeded \in Tasks \cup {NoTask} BY <1>4
<1> HIDE DEF c, needed, unneeded
<1>8. x \in Instruction BY <1>5 DEF Instruction, Expansions
<1>9. x.op = "cancelAt" /\ x.pos = CancelPosition(c, cond) BY DEF CancelAt
<1>10. needed # NoTask => y \in Instruction BY <1>a DEF Instruction, Instructions
<1>11. y.op = "join" BY DEF Join
<1> HIDE DEF x, y
<1>12. /\ new \in Seq(Instruction) /\ Len(new) = Removes(c)
       /\ \A i \in 1 .. Len(new) : \/ new[i] = x /\ i = 1 /\ (needed # NoTask => new[2] = y /\ Len(new) = 2)
                                   \/ new[i] = y /\ needed # NoTask
  <2>1. << >> \in Seq(Instruction) /\ << >> \o << >> = << >> /\ Len(<< >>) = 0
        /\ <<x>> \in Seq(Instruction) /\ <<x>> \o << >> = <<x>>
        /\ Len(<<x>>) = 1 /\ <<x>>[1] = x
    BY <1>8, EmptySeq, ConcatEmptySeq
  <2>2. CASE unneeded = NoTask /\ needed = NoTask BY <1>7, <2>1, <2>2
  <2>3. CASE unneeded # NoTask /\ needed = NoTask BY <1>7, <2>1, <2>3
  <2>4. CASE unneeded = NoTask /\ needed # NoTask
    <3>1. new = << >> \o <<y>> BY <2>4
    <3>2. <<y>> \in Seq(Instruction) /\ << >> \o <<y>> = <<y>> /\ Len(<<y>>) = 1 /\ <<y>>[1] = y
      BY <1>10, <2>4, ConcatEmptySeq
    <3>3. QED BY <1>7, <2>4, <3>1, <3>2
  <2>5. CASE unneeded # NoTask /\ needed # NoTask
    <3>1. new = <<x>> \o <<y>> BY <2>5
    <3>2. <<x>> \o <<y>> \in Seq(Instruction) /\ Len(<<x>> \o <<y>>) = 2
          /\ (<<x>> \o <<y>>)[1] = x /\ (<<x>> \o <<y>>)[2] = y
      BY <1>8, <1>10, <2>5
    <3>3. QED BY <1>7, <2>5, <3>1, <3>2
  <2>6. QED BY <2>2, <2>3, <2>4, <2>5
<1> HIDE DEF new
<1>13. /\ \A i \in 1 .. Len(new) : d[i] = new[i]
       /\ Len(d) = Len(new) + Len(Code(w)) - 1 /\ Len(new) \in Nat /\ Len(Code(w)) \in Nat \ {0}
  BY <1>2, <1>12, Replaced
<1>14. ASSUME NEW i \in 1 .. Len(new)
       PROVE  /\ ShapeAt(d, i, canceled, Known) /\ new[i].op # "await"
              /\ \A t \in Tasks : ~ForksAs(new[i], t)
              /\ Spawns(new[i]) = 0 /\ Removes(new[i]) = 1
  <2>1. d[i] = new[i] BY <1>13
  <2>2. CASE new[i] = y /\ needed # NoTask
    <3>1. ShapeAt(d, i, canceled, Known) BY <1>11, <2>1, <2>2 DEF ShapeAt
    <3>2. \A t \in Tasks : ~ForksAs(y, t) BY <1>10, <1>11, <2>2, InstructionFacts
    <3>3. Spawns(y) = 0 /\ Removes(y) = 1 BY <1>11 DEF Spawns, Removes
    <3>4. QED BY <1>11, <2>2, <3>1, <3>2, <3>3
  <2>3. CASE new[i] = x /\ i = 1 /\ (needed # NoTask => new[2] = y /\ Len(new) = 2)
    <3>1. x.pos = 2 => i < Len(d) /\ d[i + 1].op = "join"
      <4> SUFFICES ASSUME x.pos = 2 PROVE i < Len(d) /\ d[i + 1].op = "join" OBVIOUS
      <4>1. new[2] = y /\ Len(new) = 2 BY <1>6, <1>9, <2>3
      <4>2. 2 \in 1 .. Len(new) /\ i + 1 = 2 BY <2>3, <4>1
      <4>3. d[i + 1] = y BY <4>1, <4>2, <1>13
      <4>4. i < Len(d) BY <1>13, <2>3, <4>1
      <4>5. QED BY <4>3, <4>4, <1>11
    <3>2. ShapeAt(d, i, canceled, Known) BY <1>9, <2>1, <2>3, <3>1 DEF ShapeAt
    <3>3. \A t \in Tasks : ~ForksAs(x, t) BY <1>8, <1>9, InstructionFacts
    <3>4. Spawns(x) = 0 /\ Removes(x) = 1 BY <1>9 DEF Spawns, Removes
    <3>5. QED BY <1>9, <2>3, <3>2, <3>3, <3>4
  <2>4. QED BY <1>12, <2>2, <2>3
<1>15. ASSUME NEW k \in Nat, Owes(Code(w), k)
       PROVE  \E m \in Nat : Owes(d, m) /\ k <= m
  <2>1. PICK m \in Nat : Owes(Tail(Code(w)), m) /\ k + Spawns(c) <= m + Removes(c)
    BY <1>2, <1>15, OwesTail DEF c
  <2>2. Tail(Code(w)) \in Seq(Instruction) BY <1>2, HeadTailProperties
  <2>3. Owes(d, m + Len(new)) BY <1>12, <1>14, <2>1, <2>2, OwesJoins
  <2>4. k <= m + Len(new) /\ m + Len(new) \in Nat BY <1>7, <1>12, <1>13, <2>1
  <2>5. QED BY <2>3, <2>4
<1> HIDE DEF d
<1>16. /\ \A i \in 1 .. Len(new) :
            ShapeAt(new \o Tail(Code(w)), i, canceled', Known) /\ new[i].op # "await"
       /\ \A i \in 1 .. Len(new), t \in Tasks : ForksAs(new[i], t) =>
            Len(new) = 1 /\ ForksAs(Code(w)[1], t)
       /\ \A k \in Nat : Owes(Code(w), k) => \E m \in Nat :
            /\ Owes(new \o Tail(Code(w)), m)
            /\ k <= m \/ pending[w] = << >> \/ (m >= 1 /\ Len(pending[w]) <= 1)
  <2>1. canceled' = canceled BY <1>3 DEF flags
  <2>2. QED BY <1>14, <1>15, <2>1 DEF d
<1>17. /\ UNCHANGED <<pending, jobs, spec, grabbed, childs, working, deleted>>
       /\ canceled' = canceled /\ ready' = ready
       /\ proactive' \subseteq Tasks /\ newLevel' \subseteq Tasks /\ canceled' \subseteq Tasks
  BY <1>3 DEF flags, IInv, Types
<1>18. /\ canceled \subseteq canceled' /\ ready \subseteq ready'
       /\ ready' \subseteq ready \cup (canceled' \cap Known)
       /\ "choose" = "mark" => Code(w)[1].task \in canceled'
  BY <1>17
<1>19. QED BY <1>1, <1>3, <1>12, <1>16, <1>17, <1>18, SilentStep

(* The visit of a task: nothing if it is canceled, else it is to be marked   *)
(* and stopped.                                                              *)
LEMMA CancelVisitStep ==
  ASSUME IInv, NEW w \in Workers, body' = body, CancelVisit(w)
  PROVE  IInv'
<1>1. At(w, "visit") BY DEF CancelVisit
<1>2. /\ Code(w) # << >> /\ Code(w) \in Seq(Instruction) /\ Code(w)[1] \in Instruction
      /\ Code(w)[1].op = "visit" /\ Target(w) = Code(w)[1].task
      /\ ShapeAt(Code(w), 1, canceled, Known)
  BY <1>1, AtFacts
<1>3. Target(w) \in Tasks /\ Target(w) \in Known BY <1>2, InstructionFacts DEF ShapeAt
<1>4. Spawns(Code(w)[1]) = 0 /\ Removes(Code(w)[1]) = 0 BY <1>2 DEF Spawns, Removes
<1>5. /\ UNCHANGED <<pending, jobs, spec, grabbed, flags, childs, deleted>>
      /\ proactive \subseteq Tasks /\ newLevel \subseteq Tasks /\ canceled \subseteq Tasks
  BY DEF CancelVisit, IInv, Types
<1>6. /\ UNCHANGED <<pending, jobs, spec, grabbed, childs, working, deleted, proactive, ready>>
      /\ newLevel' = newLevel /\ canceled' = canceled
  BY <1>5 DEF flags
<1>7. CASE Target(w) \in canceled
  <2>1. Become(w, << >>) BY <1>7 DEF CancelVisit
  <2>2. \A k, m \in Nat : k + Spawns(Code(w)[1]) <= m + Removes(Code(w)[1]) => k <= m BY <1>4
  <2>3. QED BY <1>1, <1>5, <1>6, <2>1, <2>2, SkipStep
<1>8. CASE Target(w) \notin canceled
  <2> DEFINE t == Target(w)
             x == Mark(t)
             y == Stop(t)
             new == <<x, y>>
             d == new \o Tail(Code(w))
  <2>1. Become(w, new) BY <1>8 DEF CancelVisit
  <2> HIDE DEF t
  <2>2. x \in Instruction /\ y \in Instruction BY <1>3 DEF Instruction, Expansions, t
  <2>3. x.op = "mark" /\ x.task = t /\ y.op = "stop" /\ y.task = t BY DEF Mark, Stop
  <2>4. Spawns(x) = 0 /\ Spawns(y) = 0 BY <2>3 DEF Spawns
  <2>x. x = Mark(t) OBVIOUS
  <2> HIDE DEF x, y
  <2>5. new \in Seq(Instruction) /\ Len(new) = 2 /\ new[1] = x /\ new[2] = y BY <2>2, NothingNew
  <2> HIDE DEF new
  <2>6. \A i \in 1 .. Len(new) : i \in {1, 2} BY <2>5
  <2>7. d[1] = x /\ d[2] = y
    <3>1. \A i \in 1 .. Len(new) : d[i] = new[i] BY <1>2, <2>5, Replaced
    <3>2. 1 \in 1 .. Len(new) /\ 2 \in 1 .. Len(new) BY <2>5
    <3>3. QED BY <2>5, <3>1, <3>2
  <2>8. ShapeAt(d, 1, canceled, Known) BY <1>3, <2>3, <2>7 DEF ShapeAt, t
  <2>9. ShapeAt(d, 2, canceled, Known)
    <3>1. 2 > 1 /\ 2 - 1 = 1 OBVIOUS
    <3>2. d[2 - 1] = Mark(t) BY <2>7, <2>x, <3>1
    <3>3. QED BY <1>3, <2>3, <2>7, <3>1, <3>2 DEF ShapeAt, t
  <2>10. \A u \in Tasks : ~ForksAs(x, u) /\ ~ForksAs(y, u) BY <2>2, <2>3, InstructionFacts
  <2>11. \A i \in 1 .. Len(new) : Spawns(new[i]) = 0 BY <2>4, <2>5, <2>6
  <2>12. ASSUME NEW k \in Nat, Owes(Code(w), k) PROVE \E m \in Nat : Owes(d, m) /\ k <= m
    <3>1. PICK m \in Nat : Owes(Tail(Code(w)), m) /\ k + Spawns(Code(w)[1]) <= m + Removes(Code(w)[1])
      BY <1>2, <2>12, OwesTail
    <3>2. Tail(Code(w)) \in Seq(Instruction) BY <1>2, HeadTailProperties
    <3>3. Owes(d, m) BY <2>5, <2>11, <3>1, <3>2, OwesLight
    <3>4. k <= m BY <1>4, <3>1
    <3>5. QED BY <3>3, <3>4
  <2> HIDE DEF d
  <2>13. /\ \A i \in 1 .. Len(new) :
              ShapeAt(new \o Tail(Code(w)), i, canceled', Known) /\ new[i].op # "await"
         /\ \A i \in 1 .. Len(new), u \in Tasks : ForksAs(new[i], u) =>
              Len(new) = 1 /\ ForksAs(Code(w)[1], u)
         /\ \A k \in Nat : Owes(Code(w), k) => \E m \in Nat :
              /\ Owes(new \o Tail(Code(w)), m)
              /\ k <= m \/ pending[w] = << >> \/ (m >= 1 /\ Len(pending[w]) <= 1)
    <3>1. \A i \in 1 .. Len(new) : ShapeAt(d, i, canceled, Known) /\ new[i].op # "await"
      BY <2>3, <2>5, <2>6, <2>8, <2>9
    <3>2. \A i \in 1 .. Len(new), u \in Tasks : ~ForksAs(new[i], u) BY <2>5, <2>6, <2>10
    <3>3. QED BY <1>6, <2>12, <3>1, <3>2 DEF d
  <2>14. /\ canceled \subseteq canceled' /\ canceled' \subseteq Tasks /\ ready \subseteq ready'
         /\ proactive' \subseteq Tasks /\ newLevel' \subseteq Tasks
         /\ ready' \subseteq ready \cup (canceled' \cap Known)
         /\ "visit" = "mark" => Code(w)[1].task \in canceled'
    BY <1>5, <1>6
  <2>15. QED BY <1>1, <1>6, <2>1, <2>5, <2>13, <2>14, SilentStep
<1>9. QED BY <1>7, <1>8

(* The mark of the task that is canceled.                                    *)
LEMMA CancelMarkStep ==
  ASSUME IInv, NEW w \in Workers, body' = body, CancelMark(w)
  PROVE  IInv'
<1>1. At(w, "mark") BY DEF CancelMark
<1>2. Code(w)[1] \in Instruction /\ Code(w)[1].op = "mark" /\ Target(w) = Code(w)[1].task
  BY <1>1, AtFacts
<1>3. Target(w) \in Tasks BY <1>2, InstructionFacts
<1>4. Spawns(Code(w)[1]) = 0 /\ Removes(Code(w)[1]) = 0 BY <1>2 DEF Spawns, Removes
<1>5. \A k, m \in Nat : k + Spawns(Code(w)[1]) <= m + Removes(Code(w)[1]) => k <= m BY <1>4
<1>6. /\ Become(w, << >>) /\ canceled' = canceled \cup {Target(w)}
      /\ UNCHANGED <<pending, jobs, spec, grabbed, ready, working, proactive, newLevel, childs, deleted>>
  BY DEF CancelMark
<1>7. newLevel' \subseteq Tasks /\ canceled' \subseteq Tasks BY <1>3, <1>6 DEF IInv, Types
<1>8. QED BY <1>1, <1>2, <1>5, <1>6, <1>7, SkipStep

(* A finite set enumerates to a sequence of its elements.                    *)
LEMMA SetToSeqType ==
  ASSUME NEW T, IsFiniteSet(T)
  PROVE  /\ Len(SetToSeq(T)) \in Nat /\ DOMAIN SetToSeq(T) = 1 .. Len(SetToSeq(T))
         /\ \A i \in 1 .. Len(SetToSeq(T)) : SetToSeq(T)[i] \in T
<1>1. Cardinality(T) \in Nat /\ ExistsBijection(1 .. Cardinality(T), T) BY FS_CardinalityType
<1>2. PICK f : f \in Bijection(1 .. Cardinality(T), T) BY <1>1 DEF ExistsBijection
<1>3. f \in [1 .. Cardinality(T) -> T] /\ IsInjective(f) BY <1>2 DEF Bijection, Injection
<1> DEFINE s == SetToSeq(T)
<1>4. s \in [1 .. Cardinality(T) -> T] BY <1>3 DEF SetToSeq
<1> HIDE DEF s
<1>5. s \in Seq(T) /\ Len(s) = Cardinality(T) BY <1>1, <1>4
<1>6. QED BY <1>1, <1>4, <1>5 DEF s

(* The stop of a canceled task, running or not: it is ready at once, and its *)
(* children are to be visited.                                               *)
LEMMA CancelStopStep ==
  ASSUME IInv, NEW w \in Workers, body' = body, CancelStop(w)
  PROVE  IInv'
<1> DEFINE t == Target(w)
           cs == SetToSeq(childs[t])
           new == [i \in DOMAIN cs |-> Visit(cs[i])]
           d == new \o Tail(Code(w))
<1>1. At(w, "stop") BY DEF CancelStop
<1>2. /\ Code(w) # << >> /\ Code(w) \in Seq(Instruction) /\ Code(w)[1] \in Instruction
      /\ Code(w)[1].op = "stop" /\ t = Code(w)[1].task /\ ShapeAt(Code(w), 1, canceled, Known)
  BY <1>1, AtFacts
<1>3. t \in Tasks /\ t \in Known /\ t \in canceled
  <2>1. t \in Tasks /\ t \in Known BY <1>2, InstructionFacts DEF ShapeAt
  <2>2. ~(1 > 1) OBVIOUS
  <2>3. QED BY <1>2, <2>1, <2>2 DEF ShapeAt
<1>4. /\ Become(w, new) /\ ready' = ready \cup {t}
      /\ UNCHANGED <<pending, jobs, spec, grabbed, working, proactive, newLevel, canceled, childs, deleted>>
  BY DEF CancelStop
<1>5. Types BY DEF IInv
<1>6. IsFiniteSet(childs[t]) /\ childs[t] \subseteq Tasks /\ childs[t] \subseteq Known
  BY <1>3, <1>5 DEF Types, Known
<1> HIDE DEF t
<1>7. /\ Len(cs) \in Nat /\ DOMAIN cs = 1 .. Len(cs)
      /\ \A i \in 1 .. Len(cs) : cs[i] \in Tasks /\ cs[i] \in Known
  BY <1>6, SetToSeqType
<1> HIDE DEF cs
<1>8. \A u : Visit(u).op = "visit" /\ Visit(u).task = u BY DEF Visit
<1>9. \A i \in 1 .. Len(cs) : Visit(cs[i]) \in Instruction BY <1>7 DEF Instruction, Expansions
<1>10. /\ new \in Seq(Instruction) /\ Len(new) = Len(cs)
       /\ \A i \in 1 .. Len(new) : new[i] = Visit(cs[i])
  BY <1>7, <1>9
<1> HIDE DEF new
<1>11. \A i \in 1 .. Len(new) : new[i].op = "visit" /\ new[i].task \in Known /\ new[i] \in Instruction
  BY <1>7, <1>8, <1>9, <1>10
<1>12. \A i \in 1 .. Len(new) : d[i] = new[i] BY <1>2, <1>10, Replaced
<1>13. ASSUME NEW i \in 1 .. Len(new)
       PROVE  /\ ShapeAt(d, i, canceled', Known) /\ new[i].op # "await" /\ Spawns(new[i]) = 0
              /\ \A u \in Tasks : ~ForksAs(new[i], u)
  <2>1. ShapeAt(d, i, canceled', Known) BY <1>11, <1>12 DEF ShapeAt
  <2>2. \A u \in Tasks : ~ForksAs(new[i], u) BY <1>11, InstructionFacts
  <2>3. QED BY <1>11, <2>1, <2>2 DEF Spawns
<1>14. ASSUME NEW k \in Nat, Owes(Code(w), k) PROVE \E m \in Nat : Owes(d, m) /\ k <= m
  <2>1. PICK m \in Nat : Owes(Tail(Code(w)), m) /\ k + Spawns(Code(w)[1]) <= m + Removes(Code(w)[1])
    BY <1>2, <1>14, OwesTail
  <2>2. Tail(Code(w)) \in Seq(Instruction) BY <1>2, HeadTailProperties
  <2>3. Owes(d, m) BY <1>10, <1>13, <2>1, <2>2, OwesLight
  <2>4. Spawns(Code(w)[1]) = 0 /\ Removes(Code(w)[1]) = 0 BY <1>2 DEF Spawns, Removes
  <2>5. k <= m BY <2>1, <2>4
  <2>6. QED BY <2>3, <2>5
<1> HIDE DEF d
<1>15. /\ \A i \in 1 .. Len(new) :
            ShapeAt(new \o Tail(Code(w)), i, canceled', Known) /\ new[i].op # "await"
       /\ \A i \in 1 .. Len(new), u \in Tasks : ForksAs(new[i], u) =>
            Len(new) = 1 /\ ForksAs(Code(w)[1], u)
       /\ \A k \in Nat : Owes(Code(w), k) => \E m \in Nat :
            /\ Owes(new \o Tail(Code(w)), m)
            /\ k <= m \/ pending[w] = << >> \/ (m >= 1 /\ Len(pending[w]) <= 1)
  BY <1>13, <1>14 DEF d
<1>16. /\ canceled \subseteq canceled' /\ canceled' \subseteq Tasks /\ ready \subseteq ready'
       /\ proactive' \subseteq Tasks /\ newLevel' \subseteq Tasks
       /\ ready' \subseteq ready \cup (canceled' \cap Known)
       /\ "stop" = "mark" => Code(w)[1].task \in canceled'
  BY <1>3, <1>4, <1>5 DEF Types
<1>17. QED BY <1>1, <1>4, <1>10, <1>15, <1>16, SilentStep

(* CancelFromPendingEnd: the task at a position from the end, if there is    *)
(* one, is to be visited and erased.                                         *)
LEMMA CancelFromPendingEndStep ==
  ASSUME IInv, NEW w \in Workers, body' = body, CancelFromPendingEnd(w)
  PROVE  IInv'
<1> DEFINE ps == pending[w]
           n == Code(w)[1].pos
           t == ps[Len(ps) - n + 1]
<1>1. At(w, "cancelAt") BY DEF CancelFromPendingEnd
<1>2. /\ Code(w) # << >> /\ Code(w) \in Seq(Instruction) /\ Code(w)[1] \in Instruction
      /\ Code(w)[1].op = "cancelAt" /\ Head(Code(w)) = Code(w)[1]
      /\ ShapeAt(Code(w), 1, canceled, Known)
      /\ Len(Code(w)) \in Nat \ {0}
  BY <1>1, AtFacts
<1>3. n \in {1, 2} BY <1>2, InstructionFacts
<1>4. /\ UNCHANGED <<pending, jobs, spec, grabbed, flags, childs, deleted>>
      /\ Len(ps) >= n => Become(w, <<Visit(t), Erase(n, t)>>)
      /\ ~(Len(ps) >= n) => Become(w, << >>)
  BY <1>2 DEF CancelFromPendingEnd
<1>5. Types /\ Forked BY DEF IInv
<1>6. pending \in [Workers -> Seq(Tasks)] /\ ps \in Seq(Tasks) /\ Len(ps) \in Nat
      /\ proactive \subseteq Tasks /\ newLevel \subseteq Tasks /\ canceled \subseteq Tasks
  BY <1>5, LenProperties DEF Types
<1>7. /\ canceled \subseteq canceled' /\ canceled' \subseteq Tasks /\ ready \subseteq ready'
      /\ proactive' \subseteq Tasks /\ newLevel' \subseteq Tasks /\ canceled' = canceled
      /\ ready' \subseteq ready \cup (canceled' \cap Known)
      /\ "cancelAt" = "mark" => Code(w)[1].task \in canceled'
      /\ UNCHANGED <<pending, jobs, spec, grabbed, childs, working, deleted>>
  BY <1>4, <1>6 DEF flags
<1>8. Spawns(Code(w)[1]) = 0 /\ Removes(Code(w)[1]) = 1 BY <1>2 DEF Spawns, Removes
<1>9. n = 2 => 1 < Len(Code(w)) /\ Code(w)[2].op = "join"
  <2>1. 1 + 1 = 2 OBVIOUS
  <2>2. QED BY <1>2, <2>1 DEF ShapeAt
<1>t. Tail(Code(w)) \in Seq(Instruction) BY <1>2, HeadTailProperties
<1> HIDE DEF n
<1>10. CASE ~(Len(ps) >= n)
  <2>1. ASSUME NEW k \in Nat, Owes(Code(w), k)
        PROVE  \E m \in Nat : /\ Owes(<< >> \o Tail(Code(w)), m)
                              /\ k <= m \/ pending[w] = << >> \/ (m >= 1 /\ Len(pending[w]) <= 1)
    <3>1. PICK m \in Nat : Owes(<< >> \o Tail(Code(w)), m) BY <1>2, <2>1, OwesGone
    <3>2. CASE n = 1
      <4>1. Len(ps) = 0 BY <1>6, <1>10, <3>2
      <4>2. QED BY <1>6, <3>1, <4>1, EmptySeq
    <3>3. CASE n = 2
      <4> DEFINE z == Tail(Code(w))
      <4>1. << >> \o z = z BY <1>t, ConcatEmptySeq
      <4>2. Len(z) = Len(Code(w)) - 1 /\ \A i \in 1 .. Len(z) : z[i] = Code(w)[i + 1]
        BY <1>2, HeadTailProperties
      <4>3. 1 \in 1 .. Len(z) /\ 1 + 1 = 2 BY <1>2, <1>9, <3>3, <4>2
      <4>a. z[1] = Code(w)[1 + 1] BY <4>2, <4>3
      <4> HIDE DEF z
      <4>4. z # << >> /\ z[1].op = "join" BY <1>9, <3>3, <4>3, <4>a, EmptySeq
      <4>5. PICK l \in Nat : Owes(z, l) /\ l >= m /\ l >= 1
        BY <1>t, <3>1, <4>1, <4>4, OwesMore DEF z
      <4>6. Len(pending[w]) <= 1 BY <1>6, <1>10, <3>3
      <4>7. Owes(<< >> \o Tail(Code(w)), l) BY <4>1, <4>5 DEF z
      <4>8. QED BY <4>5, <4>6, <4>7
    <3>4. QED BY <1>3, <3>2, <3>3
  <2>2. Become(w, << >>) BY <1>4, <1>10
  <2>3. QED BY <1>1, <1>7, <2>1, <2>2, NothingNew, SilentStep
<1>11. CASE Len(ps) >= n
  <2> DEFINE x == Visit(t)
             y == Erase(n, t)
             new == <<x, y>>
             d == new \o Tail(Code(w))
  <2>1. Become(w, new) BY <1>4, <1>11
  <2>2. t \in Tasks /\ t \in Known
    <3>1. Len(ps) - n + 1 \in 1 .. Len(ps) BY <1>3, <1>6, <1>11
    <3>2. t \in Tasks BY <1>6, <3>1, ElementOfSeq
    <3>3. t \in Members(pending) BY <1>6, <3>1, MemberOf
    <3>4. QED BY <1>5, <3>2, <3>3 DEF Forked
  <2> HIDE DEF t
  <2>3. x \in Instruction /\ y \in Instruction BY <1>3, <2>2 DEF Instruction, Expansions
  <2>4. x.op = "visit" /\ x.task = t /\ y.op = "erase" /\ y.pos = n BY DEF Visit, Erase
  <2>5. Spawns(x) = 0 /\ Spawns(y) = 0 /\ Removes(x) = 0 /\ Removes(y) = 1
    BY <2>4 DEF Spawns, Removes
  <2> HIDE DEF x, y
  <2>6. new \in Seq(Instruction) /\ Len(new) = 2 /\ new[1] = x /\ new[2] = y BY <2>3, NothingNew
  <2> HIDE DEF new
  <2>7. \A i \in 1 .. Len(new) : i \in {1, 2} BY <2>6
  <2>8. /\ Len(d) = Len(new) + Len(Code(w)) - 1
        /\ \A i \in 1 .. Len(new) : d[i] = new[i]
        /\ \A i \in Len(new) + 1 .. Len(d) : d[i] = Code(w)[i - Len(new) + 1]
    BY <1>2, <2>6, Replaced
  <2>9. d[1] = x /\ d[2] = y
    <3>1. 1 \in 1 .. Len(new) /\ 2 \in 1 .. Len(new) BY <2>6
    <3>2. QED BY <2>6, <2>8, <3>1
  <2>10. n = 2 => 2 < Len(d) /\ d[2 + 1].op = "join"
    <3> SUFFICES ASSUME n = 2 PROVE 2 < Len(d) /\ d[2 + 1].op = "join" OBVIOUS
    <3>1. 2 < Len(d) BY <1>2, <1>9, <2>6, <2>8
    <3>2. 3 \in Len(new) + 1 .. Len(d) /\ 3 - Len(new) + 1 = 2 /\ 2 + 1 = 3 BY <1>2, <1>9, <2>6, <2>8
    <3>3. d[3] = Code(w)[3 - Len(new) + 1] BY <2>8, <3>2
    <3>4. d[2 + 1] = Code(w)[2] BY <3>2, <3>3
    <3>5. QED BY <1>9, <3>1, <3>4
  <2>11. ShapeAt(d, 1, canceled', Known) BY <2>2, <2>4, <2>9 DEF ShapeAt
  <2>12. ShapeAt(d, 2, canceled', Known) BY <2>4, <2>9, <2>10 DEF ShapeAt
  <2>13. \A u \in Tasks : ~ForksAs(x, u) /\ ~ForksAs(y, u) BY <2>3, <2>4, InstructionFacts
  <2>14. ASSUME NEW k \in Nat, Owes(Code(w), k) PROVE Owes(d, k)
    <3>1. Owes(<<y>> \o Tail(Code(w)), k) BY <1>2, <1>8, <2>3, <2>5, <2>14, OwesSame
    <3>2. <<y>> \in Seq(Instruction) /\ <<x>> \in Seq(Instruction) /\ Len(<<x>>) = 1 /\ <<x>>[1] = x
      BY <2>3, NothingNew
    <3>3. <<y>> \o Tail(Code(w)) \in Seq(Instruction) BY <1>t, <3>2, ConcatProperties
    <3>4. k + Spawns(x) <= k + Removes(x) BY <2>5
    <3>5. Owes(<<x>> \o (<<y>> \o Tail(Code(w))), k) BY <2>3, <3>1, <3>3, <3>4, OwesOne
    <3>6. <<x>> \o (<<y>> \o Tail(Code(w))) = (<<x>> \o <<y>>) \o Tail(Code(w))
      BY <1>t, <3>2, ConcatAssociative
    <3>7. <<x>> \o <<y>> = new
      <4>1. <<x>> \o <<y>> \in Seq(Instruction) /\ Len(<<x>> \o <<y>>) = 2
            /\ (<<x>> \o <<y>>)[1] = x /\ (<<x>> \o <<y>>)[2] = y
        BY <2>3
      <4>2. \A i \in 1 .. 2 : i = 1 \/ i = 2 OBVIOUS
      <4>3. \A i \in 1 .. 2 : (<<x>> \o <<y>>)[i] = new[i] BY <2>6, <4>1, <4>2
      <4>4. QED BY <2>6, <4>1, <4>3, SeqEqual
    <3>8. QED BY <3>5, <3>6, <3>7
  <2> HIDE DEF d
  <2>15. /\ \A i \in 1 .. Len(new) :
              ShapeAt(new \o Tail(Code(w)), i, canceled', Known) /\ new[i].op # "await"
         /\ \A i \in 1 .. Len(new), u \in Tasks : ForksAs(new[i], u) =>
              Len(new) = 1 /\ ForksAs(Code(w)[1], u)
         /\ \A k \in Nat : Owes(Code(w), k) => \E m \in Nat :
              /\ Owes(new \o Tail(Code(w)), m)
              /\ k <= m \/ pending[w] = << >> \/ (m >= 1 /\ Len(pending[w]) <= 1)
    <3>1. \A i \in 1 .. Len(new) : ShapeAt(d, i, canceled', Known) /\ new[i].op # "await"
      BY <2>4, <2>6, <2>7, <2>11, <2>12
    <3>2. \A i \in 1 .. Len(new), u \in Tasks : ~ForksAs(new[i], u) BY <2>6, <2>7, <2>13
    <3>3. \A k \in Nat : Owes(Code(w), k) => Owes(d, k) /\ k <= k BY <2>14
    <3>4. QED BY <3>1, <3>2, <3>3 DEF d
  <2>16. QED BY <1>1, <1>7, <2>1, <2>6, <2>15, SilentStep
<1>12. QED BY <1>10, <1>11

-----------------------------------------------------------------------------
(* The steps that take a task out of pendingTasks: element k.                *)
LEMMA RemovalStep ==
  ASSUME IInv, NEW w \in Workers, NEW op, At(w, op), op # "mark", Become(w, << >>), body' = body,
         UNCHANGED <<jobs, spec, grabbed, flags, childs>>,
         NEW k, Without(pending, pending', w, k),
         deleted' \subseteq ready, deleted' \cap Held = {}, deleted' \cap Members(pending') = {},
         \A n \in Nat : Owes(Code(w), n) => \E m \in Nat :
           /\ Owes(<< >> \o Tail(Code(w)), m) /\ n <= m + 1
           /\ k = Len(pending[w]) \/ n <= m \/ (k = Len(pending[w]) - 1 /\ m >= 1)
  PROVE  IInv'
<1> DEFINE l == Len(pending[w])
<1>1. /\ frames[w] # << >> /\ Code(w) # << >> /\ Code(w) \in Seq(Instruction)
      /\ Code(w)[1].op = op /\ CodeShape(Code(w), canceled, Known)
  BY AtFacts
<1>2. Types /\ Once(pending) BY DEF IInv, Pending
<1>3. pending \in [Workers -> Seq(Tasks)] BY <1>2 DEF Types
<1>4. /\ pending' \in [Workers -> Seq(Tasks)] /\ k \in 1 .. l /\ l \in Nat /\ Len(pending'[w]) = l - 1
      /\ \A v \in Workers \ {w} : pending'[v] = pending[v]
      /\ \A i \in 1 .. l - 1 : pending'[w][i] = IF i < k THEN pending[w][i] ELSE pending[w][i + 1]
  BY DEF Without
<1>5. Once(pending') BY <1>2, <1>3, MembersWithout
<1>6. \A j \in 1 .. Len(pending'[w]) :
        /\ j < k => j \in 1 .. l /\ pending[w][j] = pending'[w][j]
        /\ ~(j < k) => j + 1 \in 1 .. l /\ pending[w][j + 1] = pending'[w][j]
  BY <1>4
<1>7. \A v \in Workers : ToSet(pending'[v]) \subseteq ToSet(pending[v])
  <2> SUFFICES ASSUME NEW v \in Workers PROVE ToSet(pending'[v]) \subseteq ToSet(pending[v]) OBVIOUS
  <2>1. CASE v # w BY <1>4, <2>1
  <2>2. CASE v = w
    <3>1. DOMAIN pending[w] = 1 .. l /\ DOMAIN pending'[w] = 1 .. Len(pending'[w])
      BY <1>3, <1>4, LenProperties
    <3>2. \A j \in DOMAIN pending'[w] : \E i \in DOMAIN pending[w] : pending[w][i] = pending'[w][j]
      BY <1>6, <3>1
    <3>3. QED BY <2>2, <3>2 DEF ToSet
  <2>3. QED BY <2>1, <2>2
<1>8. ASSUME NEW n \in Nat, Owes(Code(w), n)
      PROVE  \E m \in Nat :
               /\ Owes(<< >> \o Tail(Code(w)), m)
               /\ \A j \in 1 .. Len(pending'[w]) :
                    \/ \E i \in 1 .. Len(pending[w]) :
                         /\ pending[w][i] = pending'[w][j]
                         /\ Len(pending'[w]) - j + n <= Len(pending[w]) - i + m
                    \/ j = Len(pending'[w]) /\ m >= 1
                         /\ \E i \in 1 .. Len(pending[w]) : pending[w][i] = pending'[w][j]
                    \/ j = Len(pending'[w]) /\ m >= 1 /\ pending'[w][j] \in Forks(Current(w))
  <2>1. PICK m \in Nat :
          /\ Owes(<< >> \o Tail(Code(w)), m) /\ n <= m + 1
          /\ k = l \/ n <= m \/ (k = l - 1 /\ m >= 1)
    BY <1>8
  <2>2. ASSUME NEW j \in 1 .. Len(pending'[w])
        PROVE  \/ \E i \in 1 .. l : /\ pending[w][i] = pending'[w][j]
                                    /\ Len(pending'[w]) - j + n <= l - i + m
               \/ /\ j = Len(pending'[w]) /\ m >= 1
                  /\ \E i \in 1 .. l : pending[w][i] = pending'[w][j]
    <3> HIDE DEF l
    <3>1. CASE j < k
      <4>1. j \in 1 .. l /\ pending[w][j] = pending'[w][j] BY <1>6, <3>1
      <4>2. Len(pending'[w]) - j + n <= l - j + m BY <1>4, <2>1
      <4>3. QED BY <4>1, <4>2
    <3>2. CASE ~(j < k)
      <4>1. j + 1 \in 1 .. l /\ pending[w][j + 1] = pending'[w][j] BY <1>6, <3>2
      <4>2. \/ Len(pending'[w]) - j + n <= l - (j + 1) + m
            \/ j = Len(pending'[w]) /\ m >= 1
        BY <1>4, <2>1, <3>2
      <4>3. QED BY <4>1, <4>2
    <3>3. QED BY <3>1, <3>2
  <2>3. QED BY <2>1, <2>2
<1>9. \A t : ~Awaits(frames'[w][Len(frames[w])], t)
  <2>1. frames'[w][Len(frames[w])].code = << >> \o Tail(Code(w)) BY <1>1, <1>2, NothingNew, BecomeFacts
  <2> DEFINE new == << >>
  <2>2. new \in Seq(Instruction) /\ \A i \in 1 .. Len(new) : new[i].op # "await" BY NothingNew
  <2> HIDE DEF new
  <2>3. frames'[w][Len(frames[w])].code = new \o Tail(Code(w)) BY <2>1 DEF new
  <2>4. QED BY <1>1, <2>2, <2>3, NotAwaiting
<1>10. /\ UNCHANGED <<jobs, spec, grabbed, childs, working>>
       /\ proactive' \subseteq Tasks /\ newLevel' \subseteq Tasks
       /\ canceled \subseteq canceled' /\ canceled' \subseteq Tasks
       /\ ready \subseteq ready' /\ ready' \subseteq ready \cup (canceled' \cap Known)
       /\ deleted' \subseteq ready'
       /\ Code(w)[1].op = "mark" => Code(w)[1].task \in canceled'
  BY <1>1, <1>2 DEF flags, Types
<1>11. QED BY <1>1, <1>4, <1>5, <1>7, <1>8, <1>9, <1>10, NothingNew, BecomeStep

(* The end of join: the awaited task is ready, is popped from the pending    *)
(* list and, unless canceled, deleted.                                       *)
LEMMA EndJoinStep ==
  ASSUME IInv, NEW w \in Workers, body' = body, EndJoin(w)
  PROVE  IInv'
<1> DEFINE t == Target(w)
           n == Len(frames[w])
           l == Len(pending[w])
<1>1. At(w, "await") /\ t \in ready /\ pending[w] # << >> BY DEF EndJoin
<1>2. /\ frames[w] # << >> /\ Code(w) # << >> /\ Code(w) \in Seq(Instruction)
      /\ Code(w)[1].op = "await" /\ t = Code(w)[1].task /\ Head(Code(w)) = Code(w)[1]
      /\ Code(w)[1] \in Instruction
  BY <1>1, AtFacts
<1>3. Types /\ Once(pending) /\ AwaitsOwn /\ Covers(w) /\ Gone /\ t \in Tasks
  BY <1>2, InstructionFacts DEF IInv, Pending
<1>4. pending \in [Workers -> Seq(Tasks)] BY <1>3 DEF Types
<1>5. /\ pending' = [pending EXCEPT ![w] = Front(@)]
      /\ deleted' = IF t \in canceled THEN deleted ELSE deleted \cup {t}
      /\ Become(w, << >>) /\ UNCHANGED <<jobs, spec, grabbed, flags, childs>>
  BY DEF EndJoin
<1>6. Without(pending, pending', w, l) BY <1>1, <1>4, <1>5, WithoutLast
<1>7. /\ Members(pending') \subseteq Members(pending)
      /\ Members(pending') = Members(pending) \ {pending[w][l]}
  BY <1>3, <1>4, <1>6, MembersWithout
<1>8. Awaits(frames[w][n], t) /\ n \in 1 .. n
  <2>1. n \in 1 .. n /\ Code(w) = frames[w][n].code BY <1>2, <1>3, FrameFacts
  <2>2. QED BY <1>2, <2>1 DEF Awaits
(* The task waited for is the last one, or no longer there.                  *)
<1>9. t \in Members(pending) => t = pending[w][l]
  <2> SUFFICES ASSUME t \in Members(pending) PROVE t = pending[w][l] OBVIOUS
  <2>1. PICK v \in Workers : t \in ToSet(pending[v]) BY DEF Members
  <2>2. v = w BY <1>3, <1>8, <2>1 DEF AwaitsOwn
  <2>3. l \in Nat /\ DOMAIN pending[w] = 1 .. l BY <1>4, LenProperties
  <2>4. PICK k \in 1 .. l : pending[w][k] = t BY <2>1, <2>2, <2>3 DEF ToSet
  <2>5. PICK b : Bounds(frames[w], b) /\ Covered(frames[w], pending[w], b) BY <1>3 DEF Covers
  <2>6. l - k <= b[n] /\ b[n] = 0 BY <1>8, <2>4, <2>5 DEF Bounds, Covered
  <2> HIDE DEF l, n
  <2>7. k = l BY <2>3, <2>6
  <2>8. QED BY <2>4, <2>7
<1> HIDE DEF t
<1>10. /\ deleted' \subseteq ready /\ deleted' \cap Held = {} /\ deleted' \cap Members(pending') = {}
  <2>1. t \in Held => t \in canceled BY <1>1, <1>3 DEF Gone
  <2>2. t \notin Members(pending') BY <1>7, <1>9
  <2>3. deleted \subseteq ready /\ deleted \cap Held = {} /\ deleted \cap Members(pending) = {}
    BY <1>3 DEF Gone
  <2>4. QED BY <1>1, <1>5, <1>7, <2>1, <2>2, <2>3
<1>11. ASSUME NEW i \in Nat, Owes(Code(w), i)
       PROVE  \E m \in Nat : Owes(<< >> \o Tail(Code(w)), m) /\ i <= m + 1
  <2>1. PICK m \in Nat : /\ Owes(<< >> \o Tail(Code(w)), m)
                         /\ i + Spawns(Code(w)[1]) <= m + Removes(Code(w)[1])
    BY <1>2, <1>11, OwesGone
  <2>2. Spawns(Code(w)[1]) = 0 /\ Removes(Code(w)[1]) = 1 BY <1>2 DEF Spawns, Removes
  <2>3. i <= m + 1 BY <2>1, <2>2
  <2>4. QED BY <2>1, <2>3
<1>12. \A i \in Nat : Owes(Code(w), i) => \E m \in Nat :
         /\ Owes(<< >> \o Tail(Code(w)), m) /\ i <= m + 1
         /\ l = Len(pending[w]) \/ i <= m \/ (l = Len(pending[w]) - 1 /\ m >= 1)
  BY <1>11
<1> HIDE DEF l
<1>13. "await" # "mark" OBVIOUS
<1>14. QED BY <1>1, <1>5, <1>6, <1>10, <1>12, <1>13, RemovalStep

(* The end of a cancellation: the task at the position is erased from the    *)
(* pending list.                                                             *)
LEMMA CancelEraseStep ==
  ASSUME IInv, NEW w \in Workers, body' = body, CancelErase(w)
  PROVE  IInv'
<1> DEFINE n == Code(w)[1].pos
           l == Len(pending[w])
           k == ErasePosition(w)
<1>1. At(w, "erase") /\ pending[w] # << >> BY DEF CancelErase
<1>2. /\ Code(w) # << >> /\ Code(w) \in Seq(Instruction) /\ Code(w)[1].op = "erase"
      /\ Head(Code(w)) = Code(w)[1] /\ Code(w)[1] \in Instruction /\ Len(Code(w)) \in Nat \ {0}
      /\ ShapeAt(Code(w), 1, canceled, Known)
  BY <1>1, AtFacts
<1>3. Types /\ Once(pending) /\ Gone BY DEF IInv, Pending
<1>4. pending \in [Workers -> Seq(Tasks)] BY <1>3 DEF Types
<1>5. l \in Nat \ {0} BY <1>1, <1>4, EmptySeq
<1>6. n \in {1, 2} BY <1>2, InstructionFacts
<1>7. k = IF n > l THEN 1 ELSE l - n + 1 BY <1>2 DEF ErasePosition
<1>8. /\ pending' = [pending EXCEPT ![w] = RemoveAt(@, k)]
      /\ Become(w, << >>) /\ UNCHANGED <<jobs, spec, grabbed, flags, childs>> /\ deleted' = deleted
  BY DEF CancelErase
<1>9. n = 2 => 1 < Len(Code(w)) /\ Code(w)[2].op = "join"
  <2>1. 1 + 1 = 2 OBVIOUS
  <2>2. QED BY <1>2, <2>1 DEF ShapeAt
<1> HIDE DEF k, n
<1>10. k \in 1 .. l /\ (k = l \/ (n = 2 /\ k = l - 1)) BY <1>5, <1>6, <1>7
<1>11. Without(pending, pending', w, k) BY <1>4, <1>8, <1>10, WithoutAt
<1>12. Members(pending') \subseteq Members(pending) BY <1>4, <1>11, MembersWithout
<1>13. /\ deleted' \subseteq ready /\ deleted' \cap Held = {} /\ deleted' \cap Members(pending') = {}
  BY <1>3, <1>8, <1>12 DEF Gone
<1>14. ASSUME NEW i \in Nat, Owes(Code(w), i)
       PROVE  \E m \in Nat : /\ Owes(<< >> \o Tail(Code(w)), m) /\ i <= m + 1
                             /\ k = l \/ i <= m \/ (k = l - 1 /\ m >= 1)
  <2>1. PICK m \in Nat : /\ Owes(<< >> \o Tail(Code(w)), m)
                         /\ i + Spawns(Code(w)[1]) <= m + Removes(Code(w)[1])
    BY <1>2, <1>14, OwesGone
  <2>2. Spawns(Code(w)[1]) = 0 /\ Removes(Code(w)[1]) = 1 BY <1>2 DEF Spawns, Removes
  <2>3. i <= m + 1 BY <2>1, <2>2
  <2>4. CASE k = l BY <2>1, <2>3, <2>4
  <2>5. CASE n = 2 /\ k = l - 1
    <3> DEFINE z == Tail(Code(w))
    <3>1. /\ z \in Seq(Instruction) /\ << >> \o z = z /\ Len(z) = Len(Code(w)) - 1
          /\ \A j \in 1 .. Len(z) : z[j] = Code(w)[j + 1]
      BY <1>2, HeadTailProperties, ConcatEmptySeq
    <3>2. 1 \in 1 .. Len(z) /\ 1 + 1 = 2 BY <1>2, <1>9, <2>5, <3>1
    <3>3. z[1] = Code(w)[1 + 1] BY <3>1, <3>2
    <3> HIDE DEF z
    <3>4. z # << >> /\ z[1].op = "join" BY <1>9, <2>5, <3>2, <3>3, EmptySeq
    <3>5. Owes(z, m) BY <2>1, <3>1 DEF z
    <3>6. PICK j \in Nat : Owes(z, j) /\ j >= m /\ j >= 1 BY <3>1, <3>4, <3>5, OwesMore
    <3>7. Owes(<< >> \o Tail(Code(w)), j) BY <3>1, <3>6 DEF z
    <3>8. i <= j + 1 BY <2>3, <3>6
    <3>9. QED BY <2>5, <3>6, <3>7, <3>8
  <2>6. QED BY <1>10, <2>4, <2>5
<1>15. \A i \in Nat : Owes(Code(w), i) => \E m \in Nat :
         /\ Owes(<< >> \o Tail(Code(w)), m) /\ i <= m + 1
         /\ k = Len(pending[w]) \/ i <= m \/ (k = Len(pending[w]) - 1 /\ m >= 1)
  BY <1>14
<1>16. "erase" # "mark" OBVIOUS
<1>17. QED BY <1>1, <1>8, <1>11, <1>13, <1>15, <1>16, RemovalStep

-----------------------------------------------------------------------------
(* A task comes into being: the parent's code has it before it and never     *)
(* again, and will join it.                                                  *)
LEMMA NewTask ==
  ASSUME IInv, NEW w \in Workers, At(w, "add")
  PROVE  /\ Target(w) \in Tasks /\ ForksAs(Code(w)[1], Target(w))
         /\ Target(w) \in Forks(Current(w)) /\ Target(w) \notin Known
         /\ Current(w) \in Tasks /\ Current(w) \in Known /\ Current(w) \notin Queued
         /\ ForksLeft(<< >> \o Tail(Code(w)),
                      Forks(Current(w)) \ (childs[Current(w)] \cup {Target(w)}))
<1> DEFINE t == Target(w)
           p == Current(w)
           n == Len(frames[w])
<1>1. /\ frames[w] # << >> /\ Code(w) # << >> /\ Code(w) \in Seq(Instruction)
      /\ Code(w)[1] \in Instruction /\ Code(w)[1].op = "add" /\ t = Code(w)[1].task /\ p \in Tasks
      /\ ForksLeft(Code(w), Forks(p) \ childs[p])
  BY AtFacts
<1>2. t \in Tasks /\ ForksAs(Code(w)[1], t) BY <1>1, InstructionFacts
<1>3. Types /\ OnePlace /\ Forked BY DEF IInv
<1>4. t \in Forks(p) \ childs[p] /\ ForksLeft(<< >> \o Tail(Code(w)), (Forks(p) \ childs[p]) \ {t})
  BY <1>1, <1>2, ForkDone
<1>5. (Forks(p) \ childs[p]) \ {t} = Forks(p) \ (childs[p] \cup {t}) OBVIOUS
<1>6. body \in Programs BY <1>3 DEF Types
<1>7. t \notin Known
  <2>1. t # Main BY <1>1, <1>4, <1>6, OneParent
  <2>2. ASSUME NEW q \in Tasks, t \in childs[q] PROVE FALSE
    <3>1. t \in Forks(q) BY <1>3, <2>2 DEF Forked
    <3>2. q = p BY <1>1, <1>4, <1>6, <3>1, OneParent
    <3>3. QED BY <1>4, <2>2, <3>2
  <2>3. QED BY <2>1, <2>2 DEF Known
<1>8. p \in Members(Stack)
  <2>1. n \in 1 .. n /\ p = frames[w][n].task BY <1>1, <1>3, FrameFacts
  <2>2. Stack \in [Workers -> Seq(Tasks)] /\ Len(Stack[w]) = n /\ Stack[w][n] = p
    BY <1>3, <2>1, StackFacts
  <2>3. QED BY <2>1, <2>2, MemberOf
<1>9. p \in Known /\ p \notin Queued BY <1>3, <1>8 DEF Forked, Held, OnePlace
<1>10. QED BY <1>1, <1>2, <1>4, <1>5, <1>7, <1>9

(* addForkJob keeps the codes: the parent goes on after the fork.            *)
LEMMA AddForkJobCodes ==
  ASSUME IInv, NEW w \in Workers, body' = body, AddForkJob(w)
  PROVE  Codes'
<1> DEFINE t == Target(w)
           p == Current(w)
           n == Len(frames[w])
           d == << >> \o Tail(Code(w))
<1>1. At(w, "add") BY DEF AddForkJob
<1>2. /\ frames[w] # << >> /\ Code(w) # << >> /\ Code(w) \in Seq(Instruction)
      /\ Code(w)[1].op = "add" /\ CodeShape(Code(w), canceled, Known)
  BY <1>1, AtFacts
<1>3. /\ t \in Tasks /\ p \in Tasks /\ ForksLeft(d, Forks(p) \ (childs[p] \cup {t}))
  BY <1>1, NewTask
<1>4. Types /\ Codes /\ OnePlace BY DEF IInv
<1>5. Become(w, << >>) /\ childs' = [childs EXCEPT ![p] = @ \cup {t}] /\ canceled' = canceled
  BY DEF AddForkJob, flags
<1>6. /\ TopMoves(frames[w], frames'[w]) /\ \A v \in Workers \ {w} : frames'[v] = frames[v]
      /\ frames'[w][n].code = d /\ frames'[w][n].task = p
  BY <1>2, <1>4, <1>5, NothingNew, BecomeFacts
<1>7. childs \in [Tasks -> SUBSET Tasks] BY <1>4 DEF Types
<1> HIDE DEF t, p
<1>8. childs'[p] = childs[p] \cup {t} /\ \A q \in Tasks \ {p} : childs'[q] = childs[q]
  BY <1>3, <1>5, <1>7
<1>9. Known \subseteq Known'
  <2>1. \A q \in Tasks : childs[q] \subseteq childs'[q] BY <1>8
  <2>2. QED BY <2>1 DEF Known
<1>10. CodeShape(d, canceled, Known')
  <2>1. "add" # "mark" OBVIOUS
  <2> DEFINE new == << >>
  <2>2. new \in Seq(Instruction)
        /\ \A i \in 1 .. Len(new) : ShapeAt(new \o Tail(Code(w)), i, canceled, Known')
    BY NothingNew
  <2> HIDE DEF new
  <2>3. CodeShape(new \o Tail(Code(w)), canceled, Known') BY <1>2, <1>9, <2>1, <2>2, ShapeKept
  <2>4. QED BY <2>3 DEF new
<1>11. ForksLeft(d, Forks(p) \ childs'[p]) BY <1>3, <1>8
<1> HIDE DEF d
<1>12. \A q : Forks(q)' = Forks(q) BY DEF Forks
<1>13. n \in Nat \ {0} /\ n \in 1 .. n /\ frames[w][n].task = p BY <1>2, <1>4, FrameFacts DEF p
<1>14. ASSUME NEW v \in Workers, NEW i \in 1 .. Len(frames'[v])
       PROVE  /\ CodeShape(frames'[v][i].code, canceled', Known')
              /\ ForksLeft(frames'[v][i].code, Forks(frames'[v][i].task) \ childs'[frames'[v][i].task])
  <2>1. CASE v = w /\ i = n BY <2>1, <1>5, <1>6, <1>10, <1>11
  <2>2. CASE ~(v = w /\ i = n)
    <3>1. i \in 1 .. Len(frames[v]) /\ frames'[v][i] = frames[v][i]
      <4>1. CASE v # w BY <4>1, <1>6
      <4>2. CASE v = w
        <5>1. i \in 1 .. n - 1 BY <4>2, <2>2, <1>6, <1>13 DEF TopMoves
        <5>2. QED BY <4>2, <5>1, <1>6, <1>13 DEF TopMoves
      <4>3. QED BY <4>1, <4>2
    <3>2. CodeShape(frames[v][i].code, canceled, Known)
          /\ ForksLeft(frames[v][i].code, Forks(frames[v][i].task) \ childs[frames[v][i].task])
      BY <3>1, <1>4 DEF Codes
    <3>3. frames[v][i].task # p
      <4>1. /\ Len(Stack[v]) = Len(frames[v]) /\ Len(Stack[w]) = n
            /\ Stack[v][i] = frames[v][i].task /\ Stack[w][n] = p
        BY <1>4, <1>13, <3>1, StackFacts
      <4>2. Once(Stack) BY <1>4 DEF OnePlace
      <4>3. Stack[v][i] = Stack[w][n] => v = w /\ i = n BY <1>13, <3>1, <4>1, <4>2 DEF Once
      <4>4. QED BY <2>2, <4>1, <4>3
    <3>4. frames[v][i].task \in Tasks BY <1>4, <3>1, FrameTypes
    <3>5. CodeShape(frames[v][i].code, canceled, Known') BY <1>9, <3>2, ShapeMono
    <3>6. QED BY <1>5, <1>8, <3>1, <3>2, <3>3, <3>4, <3>5
  <2>3. QED BY <2>1, <2>2
<1>15. QED BY <1>12, <1>14 DEF Codes

(* addForkJob puts the task at the back of the pending list, and the debt of *)
(* the fork becomes its bound.                                               *)
LEMMA AddForkJobPending ==
  ASSUME IInv, NEW w \in Workers, body' = body, AddForkJob(w)
  PROVE  Pending'
<1> DEFINE t == Target(w)
           p == Current(w)
           n == Len(frames[w])
           l == Len(pending[w])
           new == << >>
           d == new \o Tail(Code(w))
<1>1. At(w, "add") BY DEF AddForkJob
<1>2. /\ frames[w] # << >> /\ Code(w) # << >> /\ Code(w) \in Seq(Instruction)
      /\ Code(w)[1].op = "add" /\ CodeShape(Code(w), canceled, Known)
  BY <1>1, AtFacts
<1>3. t \in Tasks /\ p \in Tasks /\ t \in Forks(p) /\ t \notin Known BY <1>1, NewTask
<1>4. Types /\ Codes /\ Forked /\ Once(pending) /\ AwaitsOwn /\ \A v \in Workers : Covers(v)
  BY DEF IInv, Pending
<1>5. Become(w, new) /\ pending' = [pending EXCEPT ![w] = Append(@, t)] BY DEF AddForkJob
<1>6. new \in Seq(Instruction) /\ \A i \in 1 .. Len(new) : new[i].op # "await" BY NothingNew
<1>7. pending \in [Workers -> Seq(Tasks)] BY <1>4 DEF Types
<1> HIDE DEF t, p
<1>8. t \notin Members(pending) BY <1>3, <1>4 DEF Forked
<1>9. pending' \in [Workers -> Seq(Tasks)] /\ Once(pending')
  <2>1. With(pending, pending', w, t) BY <1>5 DEF With
  <2>2. QED BY <1>3, <1>4, <1>7, <1>8, <2>1, Appended
<1>10. /\ l \in Nat /\ Len(pending'[w]) = l + 1 /\ pending'[w][l + 1] = t
       /\ \A j \in 1 .. l : pending'[w][j] = pending[w][j]
       /\ \A v \in Workers \ {w} : pending'[v] = pending[v]
  BY <1>3, <1>5, <1>7, AppendProperties, LenProperties
<1>11. ASSUME NEW k \in Nat, Owes(Code(w), k)
       PROVE  \E m \in Nat : Owes(d, m) /\ k + 1 <= m
  <2>1. PICK m \in Nat : /\ Owes(<< >> \o Tail(Code(w)), m)
                         /\ k + Spawns(Code(w)[1]) <= m + Removes(Code(w)[1])
    BY <1>2, <1>11, OwesGone
  <2>2. Spawns(Code(w)[1]) = 1 /\ Removes(Code(w)[1]) = 0 BY <1>2 DEF Spawns, Removes
  <2>3. k + 1 <= m BY <2>1, <2>2
  <2>4. QED BY <2>1, <2>3
<1> HIDE DEF new
<1>12. /\ TopMoves(frames[w], frames'[w]) /\ \A v \in Workers \ {w} : frames'[v] = frames[v]
       /\ frames'[w][n].code = d /\ frames'[w][n].task = p
  BY <1>2, <1>4, <1>5, <1>6, BecomeFacts DEF p
<1>13. \A x : ~Awaits(frames'[w][n], x) BY <1>2, <1>6, <1>12, NotAwaiting
<1>14. ASSUME NEW k \in Nat, Owes(Code(w), k)
       PROVE  \E m \in Nat :
                /\ Owes(new \o Tail(Code(w)), m)
                /\ \A j \in 1 .. Len(pending'[w]) :
                     \/ \E i \in 1 .. Len(pending[w]) :
                          /\ pending[w][i] = pending'[w][j]
                          /\ Len(pending'[w]) - j + k <= Len(pending[w]) - i + m
                     \/ j = Len(pending'[w]) /\ m >= 1
                          /\ \E i \in 1 .. Len(pending[w]) : pending[w][i] = pending'[w][j]
                     \/ j = Len(pending'[w]) /\ m >= 1 /\ pending'[w][j] \in Forks(Current(w))
  <2>1. PICK m \in Nat : Owes(d, m) /\ k + 1 <= m BY <1>11, <1>14
  <2>2. ASSUME NEW j \in 1 .. Len(pending'[w])
        PROVE  \/ \E i \in 1 .. l : /\ pending[w][i] = pending'[w][j]
                                    /\ Len(pending'[w]) - j + k <= l - i + m
               \/ j = Len(pending'[w]) /\ m >= 1 /\ pending'[w][j] \in Forks(p)
    <3> HIDE DEF l
    <3>1. CASE j = l + 1 BY <1>3, <1>10, <2>1, <3>1
    <3>2. CASE j # l + 1
      <4>1. j \in 1 .. l BY <1>10, <3>2
      <4>2. pending[w][j] = pending'[w][j] BY <1>10, <4>1
      <4>3. Len(pending'[w]) - j + k <= l - j + m BY <1>10, <2>1
      <4>4. QED BY <4>1, <4>2, <4>3
    <3>3. QED BY <3>1, <3>2
  <2>3. QED BY <2>1, <2>2 DEF p, d
<1>15. \A v \in Workers : Covers(v)'
  <2>1. \A j \in 1 .. Len(pending'[w]) :
          Awaits(frames'[w][Len(frames[w])], pending'[w][j]) => j = Len(pending'[w])
    BY <1>13
  <2>2. QED BY <1>2, <1>4, <1>5, <1>6, <1>9, <1>10, <1>14, <2>1, CoversBecome
<1>16. AwaitsOwn'
  <2> SUFFICES ASSUME NEW v \in Workers, NEW u \in Workers, NEW i \in 1 .. Len(frames'[u]),
                      NEW x \in Tasks, Awaits(frames'[u][i], x), x \in ToSet(pending'[v])
               PROVE  v = u
    BY DEF AwaitsOwn
  <2>1. ~(u = w /\ i = n) BY <1>13
  <2>2. i \in 1 .. Len(frames[u]) /\ frames'[u][i] = frames[u][i]
    <3>1. CASE u # w BY <3>1, <1>12
    <3>2. CASE u = w
      <4>1. n \in Nat \ {0} BY <1>2, <1>4, FrameFacts
      <4>2. i \in 1 .. n - 1 BY <2>1, <3>2, <4>1, <1>12 DEF TopMoves
      <4>3. QED BY <3>2, <4>1, <4>2, <1>12 DEF TopMoves
    <3>3. QED BY <3>1, <3>2
  <2>3. x \in Known
    <3>1. CodeShape(frames[u][i].code, canceled, Known) /\ frames[u][i].code \in Seq(Instruction)
      BY <1>4, <2>2, FrameTypes DEF Codes
    <3> DEFINE c == frames[u][i].code
    <3>2. c # << >> /\ Head(c).op = "await" /\ Head(c).task = x BY <2>2 DEF Awaits
    <3> HIDE DEF c
    <3>3. c \in Seq(Instruction) /\ CodeShape(c, canceled, Known) BY <3>1 DEF c
    <3>4. Head(c) = c[1] /\ 1 \in 1 .. Len(c) BY <3>2, <3>3, HeadTailProperties, EmptySeq
    <3>5. ShapeAt(c, 1, canceled, Known) BY <3>3, <3>4 DEF CodeShape
    <3>6. QED BY <3>2, <3>4, <3>5 DEF ShapeAt
  <2>4. x \in ToSet(pending[v])
    <3>1. DOMAIN pending[v] = 1 .. Len(pending[v]) /\ DOMAIN pending'[v] = 1 .. Len(pending'[v])
      BY <1>7, <1>9, LenProperties
    <3>2. PICK j \in 1 .. Len(pending'[v]) : pending'[v][j] = x BY <3>1 DEF ToSet
    <3>3. CASE v # w BY <1>10, <3>3
    <3>4. CASE v = w
      <4>1. j # l + 1 BY <1>3, <1>10, <2>3, <3>2, <3>4
      <4>2. j \in 1 .. l BY <1>10, <3>4, <4>1
      <4>3. pending[w][j] = x BY <1>10, <3>2, <3>4, <4>2
      <4>4. QED BY <3>1, <3>4, <4>2, <4>3 DEF ToSet
    <3>5. QED BY <3>3, <3>4
  <2>5. QED BY <1>4, <2>2, <2>4 DEF AwaitsOwn
<1>17. QED BY <1>9, <1>15, <1>16 DEF Pending

(* addForkJob keeps the invariant.                                           *)
LEMMA AddForkJobStep ==
  ASSUME IInv, NEW w \in Workers, body' = body, AddForkJob(w)
  PROVE  IInv'
<1> DEFINE t == Target(w)
           p == Current(w)
<1>1. At(w, "add") BY DEF AddForkJob
<1>2. frames[w] # << >> /\ Code(w) # << >> BY <1>1, AtFacts
<1>3. /\ t \in Tasks /\ p \in Tasks /\ t \in Forks(p) /\ t \notin Known
      /\ p \in Known /\ p \notin Queued
  BY <1>1, NewTask
<1>4. Types /\ OnePlace /\ Forked /\ Gone BY DEF IInv
<1>5. /\ childs' = [childs EXCEPT ![p] = @ \cup {t}]
      /\ pending' = [pending EXCEPT ![w] = Append(@, t)]
      /\ \/ spec' = [spec EXCEPT ![w] = Append(@, t)] /\ jobs' = jobs
         \/ jobs' = [jobs EXCEPT ![w] = Append(@, t)] /\ spec' = spec
      /\ Become(w, << >>) /\ UNCHANGED <<grabbed, flags, deleted>>
  BY DEF AddForkJob
<1>6. frames' \in [Workers -> Seq(Frame)] /\ Stack' = Stack
  BY <1>2, <1>4, <1>5, NothingNew, BecomeFacts
<1>7. /\ pending \in [Workers -> Seq(Tasks)] /\ spec \in [Workers -> Seq(Tasks)]
      /\ jobs \in [Workers -> Seq(Tasks)] /\ childs \in [Tasks -> SUBSET Tasks]
  BY <1>4 DEF Types
<1> HIDE DEF t, p
<1>8. t \notin Held /\ t \notin ready /\ t \notin deleted /\ t \notin Members(pending) /\ childs[t] = {}
  BY <1>3, <1>4 DEF Forked, Gone
<1>9. t \notin Members(jobs) /\ t \notin Members(spec) /\ t \notin Hand /\ t \notin Members(Stack)
  BY <1>8 DEF Held, Queued
<1>10. /\ pending' \in [Workers -> Seq(Tasks)] /\ Members(pending') = Members(pending) \cup {t}
  <2>1. With(pending, pending', w, t) BY <1>5 DEF With
  <2>2. QED BY <1>3, <1>7, <2>1, Appended
<1>11. /\ spec' \in [Workers -> Seq(Tasks)] /\ jobs' \in [Workers -> Seq(Tasks)]
       /\ Once(spec') /\ Once(jobs')
       /\ \/ Members(spec') = Members(spec) \cup {t} /\ Members(jobs') = Members(jobs)
          \/ Members(jobs') = Members(jobs) \cup {t} /\ Members(spec') = Members(spec)
  <2>1. Once(spec) /\ Once(jobs) BY <1>4 DEF OnePlace
  <2>2. CASE spec' = [spec EXCEPT ![w] = Append(@, t)] /\ jobs' = jobs
    <3>1. spec' \in [Workers -> Seq(Tasks)] /\ Members(spec') = Members(spec) \cup {t} /\ Once(spec')
      <4>1. With(spec, spec', w, t) BY <2>2 DEF With
      <4>2. QED BY <1>3, <1>7, <1>9, <2>1, <4>1, Appended
    <3>2. QED BY <1>7, <2>1, <2>2, <3>1
  <2>3. CASE jobs' = [jobs EXCEPT ![w] = Append(@, t)] /\ spec' = spec
    <3>1. jobs' \in [Workers -> Seq(Tasks)] /\ Members(jobs') = Members(jobs) \cup {t} /\ Once(jobs')
      <4>1. With(jobs, jobs', w, t) BY <2>3 DEF With
      <4>2. QED BY <1>3, <1>7, <1>9, <2>1, <4>1, Appended
    <3>2. QED BY <1>7, <2>1, <2>3, <3>1
  <2>4. QED BY <1>5, <2>2, <2>3
<1>12. Hand' = Hand BY <1>5 DEF Hand
<1>13. Queued' = Queued \cup {t} /\ Held' = Held \cup {t} BY <1>6, <1>11, <1>12 DEF Queued, Held
<1>14. /\ childs' \in [Tasks -> SUBSET Tasks] /\ childs'[p] = childs[p] \cup {t}
       /\ \A q \in Tasks \ {p} : childs'[q] = childs[q]
  BY <1>3, <1>5, <1>7
<1>15. Known' = Known \cup {t}
  <2>1. \A x : (\E q \in Tasks : x \in childs'[q]) <=> (\E q \in Tasks : x \in childs[q]) \/ x = t
    BY <1>3, <1>14
  <2>2. \A x : x \in Known <=> x = Main \/ \E q \in Tasks : x \in childs[q] BY DEF Known
  <2>3. \A x : x \in Known' <=> x = Main \/ \E q \in Tasks : x \in childs'[q] BY DEF Known
  <2>4. QED BY <2>1, <2>2, <2>3
<1>16. Types'
  <2>1. \A q \in Tasks : IsFiniteSet(childs[q]) BY <1>4 DEF Types
  <2>2. \A q \in Tasks : IsFiniteSet(childs'[q])
    <3>1. IsFiniteSet(childs[p] \cup {t}) BY <1>3, <2>1, FS_AddElement
    <3>2. QED BY <1>14, <2>1, <3>1
  <2>3. /\ body' \in Programs /\ grabbed' \in [Workers -> Tasks \cup {NoTask}]
        /\ ready' \subseteq Tasks /\ working' \subseteq Tasks /\ proactive' \subseteq Tasks
        /\ newLevel' \subseteq Tasks /\ canceled' \subseteq Tasks /\ deleted' \subseteq Tasks
    BY <1>4, <1>5 DEF Types, flags
  <2>4. QED BY <1>6, <1>10, <1>11, <1>14, <2>2, <2>3 DEF Types
<1>17. OnePlace'
  <2>1. /\ Once(Stack') /\ Members(Stack') = Members(Stack)
        /\ \A u, v \in Workers : grabbed'[u] = grabbed'[v] => u = v \/ grabbed'[u] = NoTask
    BY <1>4, <1>5, <1>6 DEF OnePlace
  <2>2. /\ Members(Stack) \cap Queued = {} /\ Members(jobs) \cap Members(spec) = {}
        /\ (Members(jobs) \cup Members(spec)) \cap Hand = {}
    BY <1>4 DEF OnePlace
  <2>3. Members(Stack') \cap Queued' = {} BY <1>9, <1>13, <2>1, <2>2
  <2>4. /\ Members(jobs') \cap Members(spec') = {}
        /\ (Members(jobs') \cup Members(spec')) \cap Hand' = {}
    BY <1>9, <1>11, <1>12, <2>2
  <2>5. QED BY <1>11, <2>1, <2>3, <2>4 DEF OnePlace
<1>18. Forked'
  <2>1. Held' \subseteq Known' /\ ready' \subseteq Known' /\ Members(pending') \subseteq Known'
    BY <1>4, <1>5, <1>10, <1>13, <1>15 DEF Forked, flags
  <2>2. ASSUME NEW q \in Tasks, q \in Queued' \/ q \notin Known' PROVE childs'[q] = {}
    <3>1. q # p BY <1>3, <1>13, <1>15, <2>2
    <3>2. childs[q] = {} BY <1>3, <1>4, <1>8, <1>13, <1>15, <2>2 DEF Forked
    <3>3. QED BY <1>14, <3>1, <3>2
  <2>3. ASSUME NEW q \in Tasks PROVE childs'[q] \subseteq Forks(q)'
    <3>1. Forks(q)' = Forks(q) BY DEF Forks
    <3>2. childs[q] \subseteq Forks(q) BY <1>4 DEF Forked
    <3>3. QED BY <1>3, <1>14, <3>1, <3>2
  <2>4. QED BY <2>1, <2>2, <2>3 DEF Forked
<1>19. Gone'
  <2>1. ready \cap Held \subseteq canceled /\ deleted \subseteq ready /\ deleted \cap Held = {}
        /\ deleted \cap Members(pending) = {}
    BY <1>4 DEF Gone
  <2>2. ready' = ready /\ canceled' = canceled /\ deleted' = deleted BY <1>5 DEF flags
  <2>3. QED BY <1>8, <1>10, <1>13, <2>1, <2>2 DEF Gone
<1>20. Codes' /\ Pending' BY AddForkJobCodes, AddForkJobPending
<1>21. QED BY <1>16, <1>17, <1>18, <1>19, <1>20 DEF IInv

-----------------------------------------------------------------------------
(* A worker runs a task on top of what it has.                               *)
LEMMA PushFacts ==
  ASSUME Types, NEW w \in Workers, NEW t \in Tasks, Push(w, t)
  PROVE  LET n == Len(frames[w]) IN
         /\ frames' \in [Workers -> Seq(Frame)]
         /\ n \in Nat /\ Len(frames'[w]) = n + 1
         /\ frames'[w][n + 1] = [task |-> t, code |-> body[t]]
         /\ \A i \in 1 .. n : frames'[w][i] = frames[w][i]
         /\ \A v \in Workers \ {w} : frames'[v] = frames[v]
         /\ Members(Stack') = Members(Stack) \cup {t}
         /\ Once(Stack) /\ t \notin Members(Stack) => Once(Stack')
<1> DEFINE n == Len(frames[w])
           f == [task |-> t, code |-> body[t]]
<1>1. frames \in [Workers -> Seq(Frame)] /\ body \in Programs BY DEF Types
<1>2. body[t] \in Seq(Instruction) BY <1>1, BodyType
<1>3. f \in Frame /\ f.task = t BY <1>2 DEF Frame
<1>4. frames' = [frames EXCEPT ![w] = Append(@, f)] BY DEF Push
<1> HIDE DEF f
<1>5. /\ n \in Nat /\ frames' \in [Workers -> Seq(Frame)] /\ Len(frames'[w]) = n + 1
      /\ frames'[w][n + 1] = f /\ \A i \in 1 .. n : frames'[w][i] = frames[w][i]
      /\ \A v \in Workers \ {w} : frames'[v] = frames[v]
  BY <1>1, <1>3, <1>4, AppendProperties, LenProperties
<1>6. /\ Stack \in [Workers -> Seq(Tasks)]
      /\ \A v \in Workers : Len(Stack[v]) = Len(frames[v])
      /\ \A v \in Workers : \A i \in 1 .. Len(frames[v]) : Stack[v][i] = frames[v][i].task
  BY StackFacts
<1>7. Append(Stack[w], t) \in Seq(Tasks) /\ Len(Append(Stack[w], t)) = n + 1
      /\ Append(Stack[w], t)[n + 1] = t
      /\ \A i \in 1 .. n : Append(Stack[w], t)[i] = Stack[w][i]
  BY <1>6, AppendProperties
<1>8. Stack' = [v \in Workers |-> [i \in 1 .. Len(frames'[v]) |-> frames'[v][i].task]] BY DEF Stack
<1>9. [i \in 1 .. Len(frames'[w]) |-> frames'[w][i].task] = Append(Stack[w], t)
  <2> DEFINE a == [i \in 1 .. n + 1 |-> frames'[w][i].task]
             z == Append(Stack[w], t)
  <2>1. \A i \in 1 .. n + 1 : i = n + 1 \/ i \in 1 .. n BY <1>5
  <2>2. \A i \in 1 .. n + 1 : a[i] = z[i] BY <2>1, <1>3, <1>5, <1>6, <1>7
  <2>3. \A i \in 1 .. n + 1 : a[i] \in Tasks
    <3>1. \A i \in 1 .. n + 1 : z[i] \in Tasks
      <4>1. z \in Seq(Tasks) /\ Len(z) = n + 1 BY <1>7
      <4> HIDE DEF z
      <4>2. QED BY <4>1, ElementOfSeq
    <3>2. QED BY <2>2, <3>1
  <2>4. a \in Seq(Tasks) /\ Len(a) = n + 1
    <3>1. a \in [1 .. n + 1 -> Tasks] BY <2>3
    <3>2. n + 1 \in Nat BY <1>5
    <3> HIDE DEF a, n
    <3>3. QED BY <3>1, <3>2
  <2> HIDE DEF a, z
  <2>5. z \in Seq(Tasks) /\ Len(z) = n + 1 BY <1>7 DEF z
  <2>6. a = z BY <2>2, <2>4, <2>5, SeqEqual
  <2>7. QED BY <1>5, <2>6 DEF a, z
<1>10. \A v \in Workers \ {w} : [i \in 1 .. Len(frames'[v]) |-> frames'[v][i].task] = Stack[v]
  BY <1>5 DEF Stack
<1>11. With(Stack, Stack', w, t)
  <2>1. Stack' = [v \in Workers |-> IF v = w THEN Append(Stack[w], t) ELSE Stack[v]]
    BY <1>8, <1>9, <1>10
  <2>2. [Stack EXCEPT ![w] = Append(@, t)]
          = [v \in Workers |-> IF v = w THEN Append(Stack[w], t) ELSE Stack[v]]
    BY <1>6
  <2>3. QED BY <2>1, <2>2 DEF With
<1>12. /\ Members(Stack') = Members(Stack) \cup {t}
       /\ Once(Stack) /\ t \notin Members(Stack) => Once(Stack')
  BY <1>6, <1>11, Appended
<1>13. QED BY <1>5, <1>12 DEF f

(* A frame on top that owes and awaits nothing keeps the bounds.             *)
LEMMA PushBounds ==
  ASSUME NEW fs \in Seq(Frame), NEW gs, NEW f, Len(gs) = Len(fs) + 1, gs[Len(fs) + 1] = f,
         \A i \in 1 .. Len(fs) : gs[i] = fs[i], Owes(f.code, 0), \A t : ~Awaits(f, t),
         NEW ps, NEW b, Bounds(fs, b), Covered(fs, ps, b)
  PROVE  \E d : Bounds(gs, d) /\ Covered(gs, ps, d)
<1> DEFINE n == Len(fs)
           d == [i \in 0 .. n + 1 |-> IF i = n + 1 THEN 0 ELSE b[i]]
<1>1. n \in Nat BY LenProperties
<1>2. /\ b \in [0 .. n -> Nat] /\ b[n] = 0 /\ \A i, j \in 0 .. n : i <= j => b[j] <= b[i]
      /\ \A i \in 1 .. n : Owes(fs[i].code, b[i - 1] - b[i])
  BY DEF Bounds
<1> HIDE DEF n
<1>3. \A i \in 0 .. n + 1 : i = n + 1 \/ i \in 0 .. n BY <1>1
<1>4. d[n + 1] = 0 /\ \A i \in 0 .. n : d[i] = b[i] /\ d[i] \in Nat
  <2>1. n + 1 \in 0 .. n + 1 /\ \A i \in 0 .. n : i # n + 1 /\ i \in 0 .. n + 1 BY <1>1
  <2>2. QED BY <1>2, <2>1
<1>5. d \in [0 .. n + 1 -> Nat] BY <1>3, <1>4
<1> HIDE DEF d
<1>6. ASSUME NEW i \in 0 .. n + 1, NEW j \in 0 .. n + 1, i <= j PROVE d[j] <= d[i]
  <2>1. CASE j = n + 1 BY <1>4, <1>5, <2>1
  <2>2. CASE j # n + 1
    <3>1. i \in 0 .. n /\ j \in 0 .. n BY <1>1, <1>6, <2>2
    <3>2. b[j] <= b[i] BY <1>2, <1>6, <3>1
    <3>3. QED BY <1>4, <3>1, <3>2
  <2>3. QED BY <2>1, <2>2
<1>7. ASSUME NEW i \in 1 .. n + 1 PROVE Owes(gs[i].code, d[i - 1] - d[i])
  <2>1. CASE i = n + 1
    <3>1. i - 1 = n /\ n \in 0 .. n BY <1>1, <2>1
    <3>2. d[i - 1] = 0 /\ d[i] = 0 BY <1>2, <1>4, <2>1, <3>1
    <3>3. gs[i] = f BY <2>1 DEF n
    <3>4. 0 - 0 = 0 OBVIOUS
    <3>5. QED BY <3>2, <3>3, <3>4
  <2>2. CASE i # n + 1
    <3>1. i \in 1 .. n /\ i \in 0 .. n /\ i - 1 \in 0 .. n BY <1>1, <2>2
    <3>2. d[i] = b[i] /\ d[i - 1] = b[i - 1] BY <1>4, <3>1
    <3>3. gs[i] = fs[i] BY <3>1 DEF n
    <3>4. QED BY <1>2, <3>1, <3>2, <3>3
  <2>3. QED BY <2>1, <2>2
<1>8. Len(gs) = n + 1 BY DEF n
<1>9. Bounds(gs, d) BY <1>4, <1>5, <1>6, <1>7, <1>8 DEF Bounds
<1>10. ASSUME NEW k \in 1 .. Len(ps)
       PROVE  /\ \E i \in 1 .. n + 1 : ps[k] \in Forks(gs[i].task) /\ Len(ps) - k < d[i - 1]
              /\ \A i \in 1 .. n + 1 : Awaits(gs[i], ps[k]) => Len(ps) - k <= d[i]
  <2>1. PICK i \in 1 .. n : ps[k] \in Forks(fs[i].task) /\ Len(ps) - k < b[i - 1]
    BY DEF Covered, n
  <2>2. i \in 1 .. n + 1 /\ i - 1 \in 0 .. n BY <1>1
  <2>3. d[i - 1] = b[i - 1] /\ gs[i] = fs[i] BY <1>4, <2>2 DEF n
  <2>4. ASSUME NEW j \in 1 .. n + 1, Awaits(gs[j], ps[k]) PROVE Len(ps) - k <= d[j]
    <3>1. j # n + 1 BY <2>4 DEF n
    <3>2. j \in 1 .. n /\ j \in 0 .. n BY <1>1, <3>1
    <3>3. gs[j] = fs[j] BY <3>2 DEF n
    <3>4. Len(ps) - k <= b[j] BY <2>4, <3>2, <3>3 DEF Covered, n
    <3>5. QED BY <1>4, <3>2, <3>4
  <2>5. QED BY <2>1, <2>2, <2>3, <2>4
<1>11. Covered(gs, ps, d) BY <1>8, <1>10 DEF Covered
<1>12. QED BY <1>9, <1>11

(* The common part of the steps of schedule(): a queued task becomes the top *)
(* frame.                                                                    *)
LEMMA PushStep ==
  ASSUME IInv, NEW w \in Workers, NEW t \in Queued, Push(w, t), body' = body,
         UNCHANGED <<pending, ready, proactive, newLevel, canceled, childs, deleted>>,
         working' \subseteq Tasks, jobs' \in [Workers -> Seq(Tasks)], spec' \in [Workers -> Seq(Tasks)],
         grabbed' \in [Workers -> Tasks \cup {NoTask}],
         Once(jobs'), Once(spec'),
         \A u, v \in Workers : grabbed'[u] = grabbed'[v] => u = v \/ grabbed'[u] = NoTask,
         Members(jobs') \subseteq Members(jobs), Members(spec') \subseteq Members(spec),
         Hand' \subseteq Hand, t \notin Queued'
  PROVE  IInv'
<1> DEFINE n == Len(frames[w])
           f == [task |-> t, code |-> body[t]]
<1>1. Types /\ OnePlace /\ Forked /\ Gone /\ Codes /\ Pending BY DEF IInv
<1>2. t \in Known /\ t \in Tasks /\ childs[t] = {} /\ t \notin Members(Stack)
  <2>1. t \in Known BY <1>1 DEF Forked, Held
  <2>2. t \in Tasks BY <1>1, <2>1, KnownTasks
  <2>3. QED BY <1>1, <2>1, <2>2 DEF Forked, OnePlace
<1>3. /\ frames' \in [Workers -> Seq(Frame)] /\ n \in Nat /\ Len(frames'[w]) = n + 1
      /\ frames'[w][n + 1] = f /\ \A i \in 1 .. n : frames'[w][i] = frames[w][i]
      /\ \A v \in Workers \ {w} : frames'[v] = frames[v]
      /\ Members(Stack') = Members(Stack) \cup {t} /\ Once(Stack')
  BY <1>1, <1>2, PushFacts DEF OnePlace
<1>4. f.task = t /\ f.code = body[t] OBVIOUS
<1>5. body \in Programs BY <1>1 DEF Types
<1>6. Known' = Known BY DEF Known
<1>7. Queued' \subseteq Queued /\ Held' \subseteq Held
  <2>1. Queued' \subseteq Queued BY DEF Queued
  <2>2. QED BY <1>3, <2>1 DEF Held
<1>8. Types' BY <1>1, <1>3, <1>5 DEF Types
<1>9. OnePlace'
  <2>1. /\ Members(Stack) \cap Queued = {} /\ Members(jobs) \cap Members(spec) = {}
        /\ (Members(jobs) \cup Members(spec)) \cap Hand = {}
    BY <1>1 DEF OnePlace
  <2>2. Members(Stack') \cap Queued' = {} BY <1>3, <1>7, <2>1
  <2>3. /\ Members(jobs') \cap Members(spec') = {}
        /\ (Members(jobs') \cup Members(spec')) \cap Hand' = {}
    BY <2>1
  <2>4. QED BY <1>3, <2>2, <2>3 DEF OnePlace
<1>10. Forked'
  <2>1. \A q : Forks(q)' = Forks(q) BY DEF Forks
  <2>2. /\ Held' \subseteq Known' /\ ready' \subseteq Known' /\ Members(pending') \subseteq Known'
    BY <1>1, <1>6, <1>7 DEF Forked
  <2>3. \A q \in Tasks : q \in Queued' \/ q \notin Known' => childs'[q] = {}
    BY <1>1, <1>6, <1>7 DEF Forked
  <2>4. \A q \in Tasks : childs'[q] \subseteq Forks(q) BY <1>1 DEF Forked
  <2>5. QED BY <2>1, <2>2, <2>3, <2>4 DEF Forked
<1>11. Gone' BY <1>1, <1>7 DEF Gone
<1>12. ForksLeft(f.code, Forks(t) \ childs[t]) /\ CodeShape(f.code, canceled, Known)
       /\ Owes(f.code, 0) /\ \A x : ~Awaits(f, x)
  <2>1. Forks(t) \ childs[t] = Forks(t) BY <1>2
  <2>2. QED BY <1>2, <1>4, <1>5, <2>1, BodyShape, BodyOwes
<1> HIDE DEF f
<1>13. \A v \in Workers : \A i \in 1 .. Len(frames'[v]) :
         \/ v = w /\ i = n + 1 /\ frames'[v][i] = f
         \/ i \in 1 .. Len(frames[v]) /\ frames'[v][i] = frames[v][i]
  <2> TAKE v \in Workers
  <2> TAKE i \in 1 .. Len(frames'[v])
  <2>1. CASE v # w BY <1>3, <2>1
  <2>2. CASE v = w
    <3>1. i = n + 1 \/ i \in 1 .. n BY <1>3, <2>2
    <3>2. QED BY <1>3, <2>2, <3>1
  <2>3. QED BY <2>1, <2>2
<1>14. Codes'
  <2>1. \A q : Forks(q)' = Forks(q) BY DEF Forks
  <2>2. ASSUME NEW v \in Workers, NEW i \in 1 .. Len(frames'[v])
        PROVE  /\ CodeShape(frames'[v][i].code, canceled', Known')
               /\ ForksLeft(frames'[v][i].code, Forks(frames'[v][i].task) \ childs'[frames'[v][i].task])
    <3>1. CASE frames'[v][i] = f BY <1>4, <1>6, <1>12, <3>1
    <3>2. CASE i \in 1 .. Len(frames[v]) /\ frames'[v][i] = frames[v][i]
      <4>1. /\ CodeShape(frames[v][i].code, canceled, Known)
            /\ ForksLeft(frames[v][i].code, Forks(frames[v][i].task) \ childs[frames[v][i].task])
        BY <1>1, <3>2 DEF Codes
      <4>2. QED BY <1>6, <3>2, <4>1
    <3>3. QED BY <1>13, <3>1, <3>2
  <2>3. QED BY <2>1, <2>2 DEF Codes
<1>15. Pending'
  <2>1. Once(pending) /\ AwaitsOwn /\ \A v \in Workers : Covers(v) BY <1>1 DEF Pending
  <2>2. Once(pending') BY <2>1
  <2>3. AwaitsOwn'
    <3> SUFFICES ASSUME NEW v \in Workers, NEW u \in Workers, NEW i \in 1 .. Len(frames'[u]),
                        NEW x \in Tasks, Awaits(frames'[u][i], x), x \in ToSet(pending'[v])
                 PROVE  v = u
      BY DEF AwaitsOwn
    <3>1. frames'[u][i] # f BY <1>12
    <3>2. i \in 1 .. Len(frames[u]) /\ frames'[u][i] = frames[u][i] BY <1>13, <3>1
    <3>3. Awaits(frames[u][i], x) /\ x \in ToSet(pending[v]) BY <3>2
    <3>4. QED BY <2>1, <3>2, <3>3 DEF AwaitsOwn
  <2>4. ASSUME NEW v \in Workers
        PROVE  \E d : Bounds(frames'[v], d) /\ Covered(frames'[v], pending[v], d)
    <3>1. PICK b : Bounds(frames[v], b) /\ Covered(frames[v], pending[v], b) BY <2>1 DEF Covers
    <3>2. CASE v # w BY <1>3, <3>1, <3>2
    <3>3. CASE v = w
      <4> DEFINE fs == frames[w]
                 gs == frames'[w]
                 ps == pending[w]
      <4>1. /\ fs \in Seq(Frame) /\ Len(gs) = Len(fs) + 1 /\ gs[Len(fs) + 1] = f
            /\ \A i \in 1 .. Len(fs) : gs[i] = fs[i]
        BY <1>1, <1>3 DEF Types
      <4>2. Bounds(fs, b) /\ Covered(fs, ps, b) BY <3>1, <3>3
      <4> HIDE DEF fs, gs, ps
      <4>3. \E d : Bounds(gs, d) /\ Covered(gs, ps, d) BY <1>12, <4>1, <4>2, PushBounds
      <4>4. QED BY <3>3, <4>3 DEF gs, ps
    <3>4. QED BY <3>2, <3>3
  <2>5. ASSUME NEW v \in Workers PROVE Covers(v)'
    <3>1. PICK d : Bounds(frames'[v], d) /\ Covered(frames'[v], pending[v], d) BY <2>4
    <3>2. \A q : Forks(q)' = Forks(q) BY DEF Forks
    <3>3. QED BY <3>1, <3>2 DEF Covers, Covered, Forks
  <2>6. QED BY <2>2, <2>3, <2>5 DEF Pending
<1>16. QED BY <1>8, <1>9, <1>10, <1>11, <1>14, <1>15 DEF IInv

(* schedule() runs a task from its own queue or from the one it steals from. *)
LEMMA RunJobStep ==
  ASSUME IInv, NEW w \in Workers, NEW v \in Workers, NEW k, Without(jobs, jobs', v, k),
         Push(w, jobs[v][k]), body' = body,
         UNCHANGED <<pending, spec, grabbed, flags, childs, deleted>>
  PROVE  IInv'
<1> DEFINE t == jobs[v][k]
<1>1. Types /\ OnePlace BY DEF IInv
<1>2. jobs \in [Workers -> Seq(Tasks)] /\ spec \in [Workers -> Seq(Tasks)] BY <1>1 DEF Types
<1>a. Once(jobs) BY <1>1 DEF OnePlace
<1>b. /\ jobs[v][k] \in Members(jobs)
      /\ Once(jobs) => Once(jobs') /\ Members(jobs') = Members(jobs) \ {jobs[v][k]}
  BY <1>2, MembersWithout, ZenonT(60)
<1>3. /\ t \in Members(jobs) /\ Once(jobs') /\ Members(jobs') = Members(jobs) \ {t}
  BY <1>a, <1>b
<1>4. jobs' \in [Workers -> Seq(Tasks)] BY DEF Without
<1> HIDE DEF t
<1>5. Hand' = Hand BY DEF Hand
<1>6. t \in Queued /\ t \notin Queued'
  <2>1. Members(spec') = Members(spec) OBVIOUS
  <2>2. t \notin Members(spec) /\ t \notin Hand BY <1>1, <1>3 DEF OnePlace
  <2>3. QED BY <1>3, <1>5, <2>1, <2>2 DEF Queued
<1>7. /\ UNCHANGED <<pending, ready, proactive, newLevel, canceled, childs, deleted>>
      /\ working' \subseteq Tasks /\ spec' \in [Workers -> Seq(Tasks)] /\ Once(spec')
      /\ grabbed' \in [Workers -> Tasks \cup {NoTask}]
      /\ \A x, y \in Workers : grabbed'[x] = grabbed'[y] => x = y \/ grabbed'[x] = NoTask
      /\ Members(spec') \subseteq Members(spec)
  BY <1>1 DEF flags, Types, OnePlace
<1>8. Push(w, t) BY DEF t
<1>9. QED BY <1>3, <1>4, <1>5, <1>6, <1>7, <1>8, PushStep

(* schedule() runs the proactive task it has grabbed.                        *)
LEMMA RunProactiveStep ==
  ASSUME IInv, NEW w \in Workers, body' = body, RunProactive(w)
  PROVE  IInv'
<1> DEFINE t == grabbed[w]
<1>1. Types /\ OnePlace BY DEF IInv
<1>2. grabbed \in [Workers -> Tasks \cup {NoTask}] BY <1>1 DEF Types
<1>3. /\ t # NoTask /\ working' = working \cup {t} /\ Push(w, t)
      /\ grabbed' = [grabbed EXCEPT ![w] = NoTask]
      /\ UNCHANGED <<pending, jobs, spec, ready, proactive, newLevel, canceled, childs, deleted>>
  BY DEF RunProactive
<1>4. t \in Tasks /\ t \in Hand BY <1>2, <1>3 DEF Hand
<1>5. /\ grabbed'[w] = NoTask /\ \A v \in Workers \ {w} : grabbed'[v] = grabbed[v]
      /\ grabbed' \in [Workers -> Tasks \cup {NoTask}]
  BY <1>2, <1>3
<1>6. /\ \A u, v \in Workers : grabbed'[u] = grabbed'[v] => u = v \/ grabbed'[u] = NoTask
      /\ \A v \in Workers \ {w} : grabbed[v] # t
  BY <1>1, <1>3, <1>5 DEF OnePlace
<1>7. Hand' \subseteq Hand /\ t \notin Hand' BY <1>3, <1>5, <1>6 DEF Hand
<1> HIDE DEF t
<1>8. t \in Queued /\ t \notin Queued'
  <2>1. t \notin Members(jobs) /\ t \notin Members(spec) BY <1>1, <1>4 DEF OnePlace
  <2>2. Members(jobs') = Members(jobs) /\ Members(spec') = Members(spec) BY <1>3
  <2>3. QED BY <1>4, <1>7, <2>1, <2>2 DEF Queued
<1>9. /\ working' \subseteq Tasks
      /\ jobs' \in [Workers -> Seq(Tasks)] /\ spec' \in [Workers -> Seq(Tasks)]
      /\ Once(jobs') /\ Once(spec')
      /\ Members(jobs') \subseteq Members(jobs) /\ Members(spec') \subseteq Members(spec)
  BY <1>1, <1>3, <1>4 DEF Types, OnePlace
<1>10. QED BY <1>3, <1>5, <1>6, <1>7, <1>8, <1>9, PushStep

(* schedule() runs a task, wherever it found it.                             *)
LEMMA RunStep ==
  ASSUME IInv, NEW w \in Workers, body' = body,
         RunOwnJob(w) \/ (\E v \in Workers : RunStolenJob(w, v)) \/ RunProactive(w)
  PROVE  IInv'
<1>1. jobs \in [Workers -> Seq(Tasks)] BY DEF IInv, Types
<1>2. CASE RunOwnJob(w)
  <2>1. /\ jobs[w] # << >> /\ Push(w, Last(jobs[w])) /\ jobs' = [jobs EXCEPT ![w] = Front(@)]
        /\ UNCHANGED <<pending, spec, grabbed, flags, childs, deleted>>
    BY <1>2 DEF RunOwnJob
  <2>2. Without(jobs, jobs', w, Len(jobs[w])) /\ Last(jobs[w]) = jobs[w][Len(jobs[w])]
    BY <1>1, <2>1, WithoutLast
  <2>3. Push(w, jobs[w][Len(jobs[w])]) BY <2>1, <2>2
  <2>4. QED BY <2>1, <2>2, <2>3, RunJobStep
<1>3. ASSUME NEW v \in Workers, RunStolenJob(w, v) PROVE IInv'
  <2>1. /\ jobs[v] # << >> /\ Push(w, Head(jobs[v])) /\ jobs' = [jobs EXCEPT ![v] = Tail(@)]
        /\ UNCHANGED <<pending, spec, grabbed, flags, childs, deleted>>
    BY <1>3 DEF RunStolenJob
  <2>2. Without(jobs, jobs', v, 1) /\ Head(jobs[v]) = jobs[v][1] BY <1>1, <2>1, WithoutHead
  <2>3. Push(w, jobs[v][1]) BY <2>1, <2>2
  <2>4. QED BY <2>1, <2>2, <2>3, RunJobStep
<1>4. QED BY <1>2, <1>3, RunProactiveStep

-----------------------------------------------------------------------------
(* A worker takes a proactive task in its hand, and drops those that may not *)
(* run.                                                                      *)
LEMMA GrabProactiveStep ==
  ASSUME IInv, NEW w \in Workers, NEW v \in Workers, body' = body, GrabProactive(w, v)
  PROVE  IInv'
<1> DEFINE t == Last(spec[v])
           a == [spec EXCEPT ![v] = Front(@)]
<1>1. /\ grabbed[w] = NoTask /\ spec[v] # << >>
      /\ spec' = [u \in Workers |-> IF u \in {v, w} /\ spec[u] # << >> THEN Front(spec[u])
                                                                    ELSE spec[u]]
      /\ grabbed' = [grabbed EXCEPT ![w] = IF Runnable(t) THEN t ELSE NoTask]
      /\ UNCHANGED <<frames, pending, jobs, flags, childs, deleted>>
  BY DEF GrabProactive, Scheduling
<1>2. Types /\ OnePlace /\ Forked /\ Gone /\ Codes /\ Pending BY DEF IInv
<1>3. spec \in [Workers -> Seq(Tasks)] /\ grabbed \in [Workers -> Tasks \cup {NoTask}] /\ Once(spec)
  BY <1>2 DEF Types, OnePlace
<1>4. Without(spec, a, v, Len(spec[v])) /\ t = spec[v][Len(spec[v])] /\ t \in Tasks
  BY <1>1, <1>3, WithoutLast
<1>5. a \in [Workers -> Seq(Tasks)] BY <1>4 DEF Without
<1>6. t \in Members(spec) /\ Once(a) /\ Members(a) = Members(spec) \ {t}
  <2> HIDE DEF a
  <2>1. Without(spec, a, v, Len(spec[v])) BY <1>4
  <2> HIDE DEF t
  <2>2. spec[v][Len(spec[v])] \in Members(spec) /\ Once(a)
        /\ Members(a) = Members(spec) \ {spec[v][Len(spec[v])]}
    BY <1>3, <2>1, MembersWithout
  <2>3. QED BY <1>4, <2>2
<1>7. spec' \in [Workers -> Seq(Tasks)] /\ Once(spec') /\ Members(spec') \subseteq Members(spec) \ {t}
  <2>1. CASE w = v \/ spec[w] = << >>
    <3>1. spec' = a BY <1>1, <1>3, <2>1
    <3> HIDE DEF a
    <3>2. QED BY <1>5, <1>6, <3>1
  <2>2. CASE w # v /\ spec[w] # << >>
    <3> DEFINE z == [a EXCEPT ![w] = Front(@)]
    <3>1. spec' = z BY <1>1, <1>3, <2>2
    <3>2. a[w] # << >> BY <1>3, <2>2
    <3> HIDE DEF a
    <3>3. Without(a, z, w, Len(a[w])) BY <1>5, <3>2, WithoutLast
    <3> HIDE DEF z
    <3>4. Once(z) /\ Members(z) \subseteq Members(a) BY <1>5, <1>6, <3>3, MembersWithout
    <3>5. z \in [Workers -> Seq(Tasks)] BY <3>3 DEF Without
    <3>6. QED BY <1>6, <3>1, <3>4, <3>5
  <2>3. QED BY <2>1, <2>2
<1> HIDE DEF t
<1>8. t \notin Hand /\ t \notin Members(jobs) BY <1>2, <1>6 DEF OnePlace
<1>9. /\ grabbed' \in [Workers -> Tasks \cup {NoTask}] /\ grabbed'[w] \in {t, NoTask}
      /\ \A u \in Workers \ {w} : grabbed'[u] = grabbed[u]
  BY <1>1, <1>3, <1>4
<1>10. Hand' \subseteq Hand \cup {t} BY <1>9 DEF Hand
<1>11. \A u, x \in Workers : grabbed'[u] = grabbed'[x] => u = x \/ grabbed'[u] = NoTask
  <2>1. \A u \in Workers \ {w} : grabbed[u] # t
    <3>1. t # NoTask BY <1>4, SchedulerAssumption
    <3>2. QED BY <1>8, <3>1 DEF Hand
  <2>2. QED BY <1>2, <1>9, <2>1 DEF OnePlace
<1>12. Stack' = Stack /\ Members(jobs') = Members(jobs) BY <1>1 DEF Stack
<1>13. Queued' \subseteq Queued BY <1>6, <1>7, <1>10, <1>12 DEF Queued
<1>14. Held' \subseteq Held BY <1>12, <1>13 DEF Held
<1>15. Known' = Known /\ \A q : Forks(q)' = Forks(q) BY <1>1 DEF Known, Forks
<1>16. Types' BY <1>1, <1>2, <1>7, <1>9 DEF Types, flags
<1>17. OnePlace'
  <2>1. /\ Members(Stack) \cap Queued = {} /\ Members(jobs) \cap Members(spec) = {}
        /\ (Members(jobs) \cup Members(spec)) \cap Hand = {} /\ Once(Stack) /\ Once(jobs)
    BY <1>2 DEF OnePlace
  <2>2. Members(Stack') \cap Queued' = {} BY <1>12, <1>13, <2>1
  <2>3. /\ Members(jobs') \cap Members(spec') = {}
        /\ (Members(jobs') \cup Members(spec')) \cap Hand' = {}
    BY <1>7, <1>8, <1>10, <1>12, <2>1
  <2>4. Once(Stack') /\ Once(jobs') BY <1>1, <1>12, <2>1
  <2>5. QED BY <1>7, <1>11, <2>2, <2>3, <2>4 DEF OnePlace
<1>18. Forked'
  <2>1. /\ Held' \subseteq Known' /\ ready' \subseteq Known' /\ Members(pending') \subseteq Known'
    BY <1>1, <1>2, <1>14, <1>15 DEF Forked, flags
  <2>2. \A q \in Tasks : q \in Queued' \/ q \notin Known' => childs'[q] = {}
    BY <1>1, <1>2, <1>13, <1>15 DEF Forked
  <2>3. \A q \in Tasks : childs'[q] \subseteq Forks(q) BY <1>1, <1>2 DEF Forked
  <2>4. QED BY <1>15, <2>1, <2>2, <2>3 DEF Forked
<1>19. Gone' BY <1>1, <1>2, <1>14 DEF Gone, flags
<1>20. Codes' BY <1>1, <1>2, <1>15 DEF Codes, flags
<1>21. Pending'
  <2>1. Once(pending') /\ AwaitsOwn' BY <1>1, <1>2 DEF Pending, AwaitsOwn
  <2>2. ASSUME NEW u \in Workers PROVE Covers(u)'
    <3>1. PICK b : Bounds(frames[u], b) /\ Covered(frames[u], pending[u], b)
      BY <1>2 DEF Pending, Covers
    <3>2. QED BY <1>1, <1>15, <3>1 DEF Covers, Covered
  <2>3. QED BY <2>1, <2>2 DEF Pending
<1>22. QED BY <1>16, <1>17, <1>18, <1>19, <1>20, <1>21 DEF IInv

-----------------------------------------------------------------------------
(* A task is finished and leaves the stack.                                  *)
LEMMA PopFacts ==
  ASSUME Types, NEW w \in Workers, frames[w] # << >>, frames' = [frames EXCEPT ![w] = Front(@)]
  PROVE  LET n == Len(frames[w]) IN
         /\ frames' \in [Workers -> Seq(Frame)]
         /\ n \in Nat \ {0} /\ Len(frames'[w]) = n - 1
         /\ \A i \in 1 .. n - 1 : frames'[w][i] = frames[w][i]
         /\ \A v \in Workers \ {w} : frames'[v] = frames[v]
         /\ Without(Stack, Stack', w, n)
<1> DEFINE n == Len(frames[w])
<1>1. frames \in [Workers -> Seq(Frame)] BY DEF Types
<1>2. /\ n \in Nat \ {0} /\ Front(frames[w]) \in Seq(Frame) /\ Len(Front(frames[w])) = n - 1
      /\ \A i \in 1 .. n - 1 : Front(frames[w])[i] = frames[w][i]
  BY <1>1, FrontAndLast
<1>3. frames'[w] = Front(frames[w]) /\ \A v \in Workers \ {w} : frames'[v] = frames[v]
  BY <1>1
<1>4. frames' \in [Workers -> Seq(Frame)] BY <1>1, <1>2
<1>5. Len(frames'[w]) = n - 1 /\ \A i \in 1 .. n - 1 : frames'[w][i] = frames[w][i]
  BY <1>2, <1>3
<1> HIDE DEF n
<1>6. /\ Stack \in [Workers -> Seq(Tasks)]
      /\ \A v \in Workers : Len(Stack[v]) = Len(frames[v])
      /\ \A v \in Workers : \A i \in 1 .. Len(frames[v]) : Stack[v][i] = frames[v][i].task
  BY StackFacts
<1>7. /\ Stack' \in [Workers -> Seq(Tasks)]
      /\ \A v \in Workers : Len(Stack'[v]) = Len(frames'[v])
      /\ \A v \in Workers : \A i \in 1 .. Len(frames'[v]) : Stack'[v][i] = frames'[v][i].task
  <2>1. ASSUME NEW v \in Workers
        PROVE  /\ Stack'[v] \in Seq(Tasks) /\ Len(Stack'[v]) = Len(frames'[v])
               /\ \A i \in 1 .. Len(frames'[v]) : Stack'[v][i] = frames'[v][i].task
    <3>1. frames'[v] \in Seq(Frame) /\ Len(frames'[v]) \in Nat BY <1>4, LenProperties
    <3>2. ASSUME NEW i \in 1 .. Len(frames'[v]) PROVE frames'[v][i].task \in Tasks
      <4>1. frames'[v][i] \in Frame BY <3>1, ElementOfSeq
      <4>2. QED BY <4>1 DEF Frame
    <3>3. Stack'[v] = [i \in 1 .. Len(frames'[v]) |-> frames'[v][i].task] BY DEF Stack
    <3>4. QED BY <3>1, <3>2, <3>3
  <2>2. QED BY <2>1 DEF Stack
<1>8. \A v \in Workers \ {w} : Stack'[v] = Stack[v] BY <1>3 DEF Stack
<1>9. \A i \in 1 .. n - 1 : i < n /\ i \in 1 .. n BY <1>2
<1>10. \A i \in 1 .. n - 1 : Stack'[w][i] = Stack[w][i] BY <1>5, <1>6, <1>7, <1>9 DEF n
<1>11. n \in 1 .. n BY <1>2
<1>12. Len(Stack[w]) = n /\ Len(Stack'[w]) = n - 1 BY <1>5, <1>6, <1>7 DEF n
<1>13. Without(Stack, Stack', w, n) BY <1>2, <1>7, <1>8, <1>9, <1>10, <1>11, <1>12 DEF Without
<1>14. QED BY <1>2, <1>3, <1>4, <1>5, <1>13 DEF n

(* When the top frame has finished it owes nothing, so the frames below keep *)
(* their bounds.                                                             *)
LEMMA PopBounds ==
  ASSUME NEW fs \in Seq(Frame), fs # << >>, NEW gs, Len(gs) = Len(fs) - 1,
         \A i \in 1 .. Len(fs) - 1 : gs[i] = fs[i], fs[Len(fs)].code = << >>,
         NEW ps \in Seq(Tasks), NEW b, Bounds(fs, b), Covered(fs, ps, b)
  PROVE  \E d : Bounds(gs, d) /\ Covered(gs, ps, d)
<1> DEFINE n == Len(fs)
           d == [i \in 0 .. n - 1 |-> b[i]]
<1>1. n \in Nat \ {0} BY EmptySeq
<1>2. /\ b \in [0 .. n -> Nat] /\ b[n] = 0 /\ \A i, j \in 0 .. n : i <= j => b[j] <= b[i]
      /\ \A i \in 1 .. n : Owes(fs[i].code, b[i - 1] - b[i])
  BY DEF Bounds
<1>3. b[n - 1] = 0
  <2>1. n \in 1 .. n /\ n - 1 \in 0 .. n BY <1>1
  <2>2. Owes(<< >>, b[n - 1] - b[n]) BY <1>2, <2>1
  <2>3. b[n - 1] - b[n] = 0 BY <2>2, OwesEmpty
  <2>4. b[n - 1] \in Nat BY <1>2, <2>1
  <2>5. QED BY <1>2, <2>3, <2>4
<1> HIDE DEF n
<1>4. \A i \in 0 .. n - 1 : i \in 0 .. n /\ d[i] = b[i] BY <1>1
<1>5. d \in [0 .. n - 1 -> Nat] BY <1>2, <1>4
<1> HIDE DEF d
<1>6. n - 1 \in 0 .. n - 1 BY <1>1
<1>7. d[n - 1] = 0 BY <1>3, <1>4, <1>6
<1>8. \A i, j \in 0 .. n - 1 : i <= j => d[j] <= d[i] BY <1>2, <1>4
<1>9. ASSUME NEW i \in 1 .. n - 1 PROVE Owes(gs[i].code, d[i - 1] - d[i])
  <2>1. i \in 1 .. n /\ i \in 0 .. n - 1 /\ i - 1 \in 0 .. n - 1 BY <1>1
  <2>2. gs[i] = fs[i] BY DEF n
  <2>3. d[i] = b[i] /\ d[i - 1] = b[i - 1] BY <1>4, <2>1
  <2>4. QED BY <1>2, <2>1, <2>2, <2>3
<1>10. Len(gs) = n - 1 BY DEF n
<1>11. Bounds(gs, d) BY <1>5, <1>7, <1>8, <1>9, <1>10 DEF Bounds
<1>12. ASSUME NEW k \in 1 .. Len(ps)
       PROVE  /\ \E i \in 1 .. n - 1 : ps[k] \in Forks(gs[i].task) /\ Len(ps) - k < d[i - 1]
              /\ \A i \in 1 .. n - 1 : Awaits(gs[i], ps[k]) => Len(ps) - k <= d[i]
  <2>1. PICK i \in 1 .. n : ps[k] \in Forks(fs[i].task) /\ Len(ps) - k < b[i - 1]
    BY DEF Covered, n
  <2>2. Len(ps) \in Nat BY LenProperties
  <2>3. i # n BY <1>3, <2>1, <2>2
  <2>4. i \in 1 .. n - 1 /\ i - 1 \in 0 .. n - 1 BY <1>1, <2>3
  <2>5. gs[i] = fs[i] /\ d[i - 1] = b[i - 1] BY <1>4, <2>4 DEF n
  <2>6. ASSUME NEW j \in 1 .. n - 1, Awaits(gs[j], ps[k]) PROVE Len(ps) - k <= d[j]
    <3>1. j \in 1 .. n /\ j \in 0 .. n - 1 BY <1>1
    <3>2. gs[j] = fs[j] BY DEF n
    <3>3. Len(ps) - k <= b[j] BY <2>6, <3>1, <3>2 DEF Covered, n
    <3>4. QED BY <1>4, <3>1, <3>3
  <2>7. QED BY <2>1, <2>4, <2>5, <2>6
<1>13. Covered(gs, ps, d) BY <1>10, <1>12 DEF Covered
<1>14. QED BY <1>11, <1>13

(* The end of a task: it is ready and its frame goes.                        *)
LEMMA FinishStep ==
  ASSUME IInv, NEW w \in Workers, body' = body, Finish(w)
  PROVE  IInv'
<1> DEFINE n == Len(frames[w])
           p == Current(w)
<1>1. Types /\ OnePlace /\ Forked /\ Gone /\ Codes /\ Pending BY DEF IInv
<1>2. /\ frames[w] # << >> /\ Code(w) = << >>
      /\ ready' = ready \cup {p} /\ frames' = [frames EXCEPT ![w] = Front(@)]
      /\ UNCHANGED <<pending, jobs, spec, grabbed, working, proactive, newLevel, canceled,
                     childs, deleted>>
  BY DEF Finish, Running
<1>3. /\ frames' \in [Workers -> Seq(Frame)] /\ n \in Nat \ {0} /\ Len(frames'[w]) = n - 1
      /\ \A i \in 1 .. n - 1 : frames'[w][i] = frames[w][i]
      /\ \A v \in Workers \ {w} : frames'[v] = frames[v]
      /\ Without(Stack, Stack', w, n)
  BY <1>1, <1>2, PopFacts
<1>4. n \in 1 .. n /\ frames[w][n].code = << >> /\ p = frames[w][n].task /\ p \in Tasks
  BY <1>1, <1>2, FrameFacts
<1>5. p \in Members(Stack) /\ Once(Stack') /\ Members(Stack') = Members(Stack) \ {p}
  <2>1. Stack \in [Workers -> Seq(Tasks)] /\ Stack[w][n] = p BY <1>1, <1>4, StackFacts
  <2>2. Once(Stack) BY <1>1 DEF OnePlace
  <2> HIDE DEF p, n
  <2>3. QED BY <1>3, <2>1, <2>2, MembersWithout
<1> HIDE DEF p
<1>6. p \notin Queued /\ p \in Known BY <1>1, <1>5 DEF OnePlace, Forked, Held
<1>7. Queued' = Queued /\ Known' = Known BY <1>2 DEF Queued, Hand, Known
<1>8. Held' = Held \ {p} BY <1>5, <1>6, <1>7 DEF Held
<1>9. \A q : Forks(q)' = Forks(q) BY DEF Forks
<1>10. Types' BY <1>1, <1>2, <1>3, <1>4 DEF Types
<1>11. OnePlace'
  <2>1. /\ Members(Stack) \cap Queued = {} /\ Once(jobs) /\ Once(spec)
        /\ \A v, u \in Workers : grabbed[v] = grabbed[u] => v = u \/ grabbed[v] = NoTask
        /\ Members(jobs) \cap Members(spec) = {}
        /\ (Members(jobs) \cup Members(spec)) \cap Hand = {}
    BY <1>1 DEF OnePlace
  <2>2. Members(Stack') \cap Queued' = {} BY <1>5, <1>7, <2>1
  <2>3. Hand' = Hand BY <1>2 DEF Hand
  <2>4. QED BY <1>2, <1>5, <2>1, <2>2, <2>3 DEF OnePlace
<1>12. Forked'
  <2>1. Held' \subseteq Known' /\ ready' \subseteq Known' /\ Members(pending') \subseteq Known'
    BY <1>1, <1>2, <1>6, <1>7, <1>8 DEF Forked
  <2>2. \A q \in Tasks : q \in Queued' \/ q \notin Known' => childs'[q] = {}
    BY <1>1, <1>2, <1>7 DEF Forked
  <2>3. \A q \in Tasks : childs'[q] \subseteq Forks(q) BY <1>1, <1>2 DEF Forked
  <2>4. QED BY <1>9, <2>1, <2>2, <2>3 DEF Forked
<1>13. Gone'
  <2>1. /\ ready \cap Held \subseteq canceled /\ deleted \subseteq ready
        /\ deleted \cap Held = {} /\ deleted \cap Members(pending) = {}
    BY <1>1 DEF Gone
  <2>2. ready' \cap Held' \subseteq canceled' BY <1>2, <1>8, <2>1
  <2>3. deleted' \subseteq ready' /\ deleted' \cap Held' = {} /\ deleted' \cap Members(pending') = {}
    BY <1>2, <1>8, <2>1
  <2>4. QED BY <2>2, <2>3 DEF Gone
<1>14. \A v \in Workers : \A i \in 1 .. Len(frames'[v]) :
         i \in 1 .. Len(frames[v]) /\ frames'[v][i] = frames[v][i]
  BY <1>3
<1>15. Codes'
  <2>1. ASSUME NEW v \in Workers, NEW i \in 1 .. Len(frames'[v])
        PROVE  /\ CodeShape(frames'[v][i].code, canceled', Known')
               /\ ForksLeft(frames'[v][i].code, Forks(frames'[v][i].task) \ childs'[frames'[v][i].task])
    <3>1. /\ CodeShape(frames[v][i].code, canceled, Known)
          /\ ForksLeft(frames[v][i].code, Forks(frames[v][i].task) \ childs[frames[v][i].task])
      BY <1>1, <1>14 DEF Codes
    <3>2. QED BY <1>2, <1>7, <1>14, <3>1
  <2>2. QED BY <1>9, <2>1 DEF Codes
<1>16. Pending'
  <2>1. Once(pending) /\ AwaitsOwn /\ \A v \in Workers : Covers(v) BY <1>1 DEF Pending
  <2>2. Once(pending') BY <1>2, <2>1
  <2>3. AwaitsOwn' BY <1>2, <1>14, <2>1 DEF AwaitsOwn
  <2>4. ASSUME NEW v \in Workers
        PROVE  \E d : Bounds(frames'[v], d) /\ Covered(frames'[v], pending[v], d)
    <3>1. PICK b : Bounds(frames[v], b) /\ Covered(frames[v], pending[v], b) BY <2>1 DEF Covers
    <3>2. CASE v # w BY <1>3, <3>1, <3>2
    <3>3. CASE v = w
      <4> DEFINE fs == frames[w]
                 gs == frames'[w]
                 ps == pending[w]
      <4>1. /\ fs \in Seq(Frame) /\ fs # << >> /\ Len(gs) = Len(fs) - 1
            /\ \A i \in 1 .. Len(fs) - 1 : gs[i] = fs[i] /\ ps \in Seq(Tasks)
        BY <1>1, <1>2, <1>3 DEF Types
      <4>2. fs[Len(fs)].code = << >> /\ ps \in Seq(Tasks) BY <1>1, <1>4 DEF Types
      <4>3. Bounds(fs, b) /\ Covered(fs, ps, b) BY <3>1, <3>3
      <4> HIDE DEF fs, gs, ps
      <4>4. \E d : Bounds(gs, d) /\ Covered(gs, ps, d) BY <4>1, <4>2, <4>3, PopBounds
      <4>5. QED BY <3>3, <4>4 DEF gs, ps
    <3>4. QED BY <3>2, <3>3
  <2>5. ASSUME NEW v \in Workers PROVE Covers(v)'
    <3>1. PICK d : Bounds(frames'[v], d) /\ Covered(frames'[v], pending[v], d) BY <2>4
    <3>2. QED BY <1>2, <3>1 DEF Covers, Covered, Forks
  <2>6. QED BY <2>2, <2>3, <2>5 DEF Pending
<1>17. QED BY <1>10, <1>11, <1>12, <1>13, <1>15, <1>16 DEF IInv

-----------------------------------------------------------------------------
(* Every step keeps the invariant.                                           *)
LEMMA NextIInv == IInv /\ [Next]_vars => IInv'
<1> SUFFICES ASSUME IInv, [Next]_vars PROVE IInv' OBVIOUS
<1>1. CASE UNCHANGED vars
  <2>1. /\ body' = body /\ frames' = frames /\ pending' = pending /\ jobs' = jobs /\ spec' = spec
        /\ grabbed' = grabbed /\ ready' = ready /\ working' = working /\ proactive' = proactive
        /\ newLevel' = newLevel /\ canceled' = canceled /\ childs' = childs /\ deleted' = deleted
    BY <1>1 DEF vars, flags
  <2>2. Types' BY <2>1 DEF IInv, Types
  <2>a. Stack' = Stack /\ Hand' = Hand /\ Known' = Known BY <2>1 DEF Stack, Hand, Known
  <2>b. Queued' = Queued BY <2>1, <2>a DEF Queued
  <2>c. Held' = Held BY <2>a, <2>b DEF Held
  <2>3. OnePlace' BY <2>1, <2>a, <2>b DEF IInv, OnePlace
  <2>4. Forked' BY <2>1, <2>a, <2>b, <2>c DEF IInv, Forked, Forks
  <2>5. Gone' BY <2>1, <2>c DEF IInv, Gone
  <2>6. Codes' BY <2>1 DEF IInv, Codes, Known, Forks
  <2>7. Pending'
    <3>1. Once(pending) /\ AwaitsOwn /\ \A w \in Workers : Covers(w) BY DEF IInv, Pending
    <3>2. Once(pending') BY <2>1, <3>1
    <3>3. AwaitsOwn' BY <2>1, <3>1 DEF AwaitsOwn
    <3>4. ASSUME NEW w \in Workers PROVE Covers(w)'
      <4>1. PICK b : Bounds(frames[w], b) /\ Covered(frames[w], pending[w], b) BY <3>1 DEF Covers
      <4>2. QED BY <2>1, <4>1 DEF Covers, Covered, Forks
    <3>5. QED BY <3>2, <3>3, <3>4 DEF Pending
  <2>8. QED BY <2>2, <2>3, <2>4, <2>5, <2>6, <2>7 DEF IInv
<1>2. ASSUME body' = body, NEW w \in Workers, Step(w) PROVE IInv'
  <2>1. CASE RunOwnJob(w) \/ (\E v \in Workers : RunStolenJob(w, v)) \/ RunProactive(w)
    BY <1>2, <2>1, RunStep
  <2>2. CASE Finish(w) BY <1>2, <2>2, FinishStep
  <2>3. CASE \E v \in Workers : GrabProactive(w, v) BY <1>2, <2>3, GrabProactiveStep
  <2>4. CASE ForkTask(w) \/ SpeculateTask(w) BY <1>2, <2>4, ForkStep
  <2>5. CASE AddForkJob(w) BY <1>2, <2>5, AddForkJobStep
  <2>6. CASE BeginJoin(w) BY <1>2, <2>6, BeginJoinStep
  <2>7. CASE EndJoin(w) BY <1>2, <2>7, EndJoinStep
  <2>8. CASE \E cond \in BOOLEAN : ChooseBranch(w, cond) BY <1>2, <2>8, ChooseStep
  <2>9. CASE CancelFromPendingEnd(w) BY <1>2, <2>9, CancelFromPendingEndStep
  <2>10. CASE CancelVisit(w) BY <1>2, <2>10, CancelVisitStep
  <2>11. CASE CancelMark(w) BY <1>2, <2>11, CancelMarkStep
  <2>12. CASE CancelStop(w) BY <1>2, <2>12, CancelStopStep
  <2>13. CASE CancelErase(w) BY <1>2, <2>13, CancelEraseStep
  <2>14. QED BY <1>2, <2>1, <2>2, <2>3, <2>4, <2>5, <2>6, <2>7, <2>8, <2>9, <2>10, <2>11, <2>12,
                <2>13 DEF Step
<1>3. QED BY <1>1, <1>2 DEF Next

(* The inductive invariant holds in every reachable state, for every         *)
(* program, number of workers and schedule.                                  *)
THEOREM Invariance == Spec => []IInv
BY InitIInv, NextIInv, PTL DEF Spec

(* Every variable has its type.                                              *)
THEOREM TypeCorrect == Spec => []TypeOK
<1>1. IInv => TypeOK
  <2> SUFFICES ASSUME Types PROVE TypeOK BY DEF IInv
  <2>1. ASSUME NEW w \in Workers PROVE RunningTasks(w) \subseteq Tasks
    <3>1. DOMAIN frames[w] = 1 .. Len(frames[w]) BY LenProperties DEF Types
    <3>2. QED BY <3>1, FrameTypes DEF RunningTasks
  <2>2. QED BY <2>1 DEF TypeOK, Types
<1>2. QED BY <1>1, Invariance, PTL

(* A task is in one place at a time: in one position of one worker's queue   *)
(* or proactive stack, in one worker's hand, or in one frame.  So nobody     *)
(* runs a task twice, and no queue gives it to two workers.                  *)
THEOREM TaskInOnePlace == Spec => []OnePlace
<1>1. IInv => OnePlace BY DEF IInv
<1>2. QED BY <1>1, Invariance, PTL

(* join waits for the last of pendingTasks and then pops the last, after     *)
(* running any number of tasks that pushed and popped there: it pops the     *)
(* task it waited for, unless somebody has taken that away already.          *)
AwaitedIsLast ==
  \A w \in Workers : At(w, "await") /\ Target(w) \in Members(pending) =>
    pending[w] # << >> /\ Target(w) = Last(pending[w])

(* join pops with pop_back and never looks: it is the last of the pending    *)
(* list that it has awaited (EvaluatorUnit.cpp, join).                       *)
THEOREM JoinPopsWhatItAwaits == Spec => []AwaitedIsLast
<1>1. IInv => AwaitedIsLast
  <2> SUFFICES ASSUME IInv, NEW w \in Workers, At(w, "await"), Target(w) \in Members(pending)
               PROVE  pending[w] # << >> /\ Target(w) = Last(pending[w])
    BY DEF AwaitedIsLast
  <2> DEFINE t == Target(w)
             n == Len(frames[w])
             l == Len(pending[w])
  <2>1. /\ frames[w] # << >> /\ Code(w) # << >> /\ Head(Code(w)).op = "await"
        /\ t = Head(Code(w)).task
    BY DEF At, Running, Target
  <2>2. Types /\ AwaitsOwn /\ Covers(w) BY DEF IInv, Pending
  <2>3. n \in 1 .. n /\ Code(w) = frames[w][n].code BY <2>1, <2>2, FrameFacts
  <2>4. Awaits(frames[w][n], t) BY <2>1, <2>3 DEF Awaits
  <2>5. t \in Tasks /\ pending[w] \in Seq(Tasks)
    <3>1. \A v \in Workers : ToSet(pending[v]) \subseteq Tasks
      BY ElementOfSeq, LenProperties DEF Types, ToSet, IInv
    <3>2. QED BY <2>2, <3>1 DEF Members, Types
  <2>6. PICK v \in Workers : t \in ToSet(pending[v]) BY DEF Members
  <2>7. v = w BY <2>2, <2>3, <2>4, <2>5, <2>6 DEF AwaitsOwn
  <2>8. l \in Nat /\ DOMAIN pending[w] = 1 .. l BY <2>5, LenProperties
  <2>9. PICK k \in 1 .. l : pending[w][k] = t BY <2>6, <2>7, <2>8 DEF ToSet
  <2>10. PICK b : Bounds(frames[w], b) /\ Covered(frames[w], pending[w], b) BY <2>2 DEF Covers
  <2>11. l - k <= b[n] /\ b[n] = 0 BY <2>3, <2>4, <2>9, <2>10 DEF Bounds, Covered
  <2> HIDE DEF n, t
  <2>12. k = l BY <2>8, <2>11
  <2>13. pending[w] # << >> BY <2>9, EmptySeq
  <2>14. QED BY <2>9, <2>12, <2>13 DEF Last, t
<1>2. QED BY <1>1, Invariance, PTL

(* markDataRoots misses no root: what a pendingTasks holds has finished and  *)
(* is scanned, or its parent runs on the same worker and is scanned.         *)
THEOREM NoRootMissed == Spec => []RootsCovered
<1>1. IInv => RootsCovered
  <2> SUFFICES ASSUME IInv, NEW w \in Workers, NEW t \in ToSet(pending[w])
               PROVE  Scans(t) \/ (t \notin ready /\ Scans(Parent(t)))
    BY DEF RootsCovered
  <2>1. CASE t \in ready BY <2>1 DEF Scans
  <2>2. CASE t \notin ready
    <3>1. Types /\ Covers(w) BY DEF IInv, Pending
    <3>2. pending[w] \in Seq(Tasks) /\ DOMAIN pending[w] = 1 .. Len(pending[w])
      BY <3>1, LenProperties DEF Types
    <3>3. PICK k \in 1 .. Len(pending[w]) : pending[w][k] = t BY <3>2 DEF ToSet
    <3>4. PICK i \in 1 .. Len(frames[w]) : t \in Forks(frames[w][i].task)
      BY <3>1, <3>3 DEF Covers, Covered
    <3>5. frames[w][i].task \in Tasks /\ body \in Programs BY <3>1, FrameTypes DEF Types
    <3>6. Parent(t) = frames[w][i].task BY <3>4, <3>5, OneParent
    <3>7. DOMAIN frames[w] = 1 .. Len(frames[w]) BY <3>1, LenProperties DEF Types
    <3>8. Parent(t) \in RunningTasks(w) BY <3>4, <3>6, <3>7 DEF RunningTasks
    <3>9. QED BY <2>2, <3>8 DEF Scans
  <2>3. QED BY <2>1, <2>2
<1>2. QED BY <1>1, Invariance, PTL

(* join calls moveToMainOrder when the parent is not proactive, and that     *)
(* returns at once when the parent is not proactive: no proactive task ever  *)
(* gets into the main order, whatever joins it.                              *)
THEOREM ProactiveStays == Spec => [][proactive \subseteq proactive']_vars
<1>1. ASSUME NEW w \in Workers, Step(w) PROVE proactive \subseteq proactive'
  <2>1. CASE BeginJoin(w)
    <3>1. CASE pending[w] = << >> BY <2>1, <3>1 DEF BeginJoin
    <3>2. CASE pending[w] # << >>
      <4> DEFINE t == Last(pending[w])
                 moved == IF t \in proactive /\ Parent(t) \notin proactive THEN Moved(t) ELSE {}
      <4>1. proactive' = proactive \ moved BY <2>1, <3>2 DEF BeginJoin
      <4>2. moved = {} BY DEF Moved
      <4>3. QED BY <4>1, <4>2
    <3>3. QED BY <3>1, <3>2
  <2>2. CASE ForkTask(w) \/ SpeculateTask(w) BY <2>2 DEF ForkTask, SpeculateTask
  <2>3. CASE RunOwnJob(w) \/ RunProactive(w) \/ Finish(w)
    BY <2>3 DEF RunOwnJob, RunProactive, Finish, flags
  <2>4. CASE \E v \in Workers : RunStolenJob(w, v) \/ GrabProactive(w, v)
    BY <2>4 DEF RunStolenJob, GrabProactive, flags
  <2>5. CASE AddForkJob(w) \/ EndJoin(w) \/ (\E cond \in BOOLEAN : ChooseBranch(w, cond))
    BY <2>5 DEF AddForkJob, EndJoin, ChooseBranch, flags
  <2>6. CASE CancelFromPendingEnd(w) \/ CancelVisit(w) \/ CancelMark(w) \/ CancelStop(w)
               \/ CancelErase(w)
    BY <2>6 DEF CancelFromPendingEnd, CancelVisit, CancelMark, CancelStop, CancelErase, flags
  <2>7. QED BY <1>1, <2>1, <2>2, <2>3, <2>4, <2>5, <2>6 DEF Step
<1>2. [Next]_vars => [proactive \subseteq proactive']_vars BY <1>1 DEF Next
<1>3. QED BY <1>2, PTL DEF Spec

-----------------------------------------------------------------------------
(* What each instruction of a code does to the tasks that its frame has in   *)
(* pendingTasks: s before, r after.                                          *)
Adds(x)  == IF x.op \in {"fork", "speculate", "add"} THEN <<x.task>> ELSE << >>
Takes(x) == IF x.op = "await" THEN <<x.task>> ELSE Closed(x)
Effect(x, s, r) ==
  IF x.op \in {"cancelAt", "erase"}
  THEN /\ x.pos <= Len(s) /\ r = RemoveAt(s, Len(s) - x.pos + 1)
       /\ x.op = "erase" => s[Len(s) - x.pos + 1] = x.task
  ELSE s \o Adds(x) = r \o Takes(x) /\ (x.op = "await" => x.task = x.meant)
Stacks(c, s) ==
  \E h \in [1 .. Len(c) + 1 -> Seq(Tasks)] :
    /\ h[1] = s /\ h[Len(c) + 1] = << >>
    /\ \A i \in 1 .. Len(c) : Effect(c[i], h[i], h[i + 1])

(* A set of naturals that is not empty has a least element.                  *)
LEMMA Least == ASSUME NEW S \in SUBSET Nat, S # {} PROVE \E n \in S : \A m \in S : n <= m
<1>1. PICK k \in S : TRUE OBVIOUS
<1>2. k \in Nat /\ IsFiniteSet(0 .. k) BY <1>1, FS_Interval
<1> DEFINE R == StrictSubsetOrdering(0 .. k)
           T == {0 .. m : m \in {x \in S : x <= k}}
<1>3. FiniteSubsetsOf(0 .. k) = SUBSET (0 .. k) BY <1>2, FS_FiniteSubsetsOfFinite
<1>4. IsWellFoundedOn(R, SUBSET (0 .. k)) BY <1>3, FS_StrictSubsetOrderingWellFounded
<1>5. T \subseteq SUBSET (0 .. k)
  <2>1. ASSUME NEW m \in S, m <= k PROVE 0 .. m \subseteq 0 .. k BY <2>1, <1>2
  <2>2. QED BY <2>1
<1>6. T # {} BY <1>1, <1>2
<1> HIDE DEF R, T
<1>7. PICK x \in T : \A y \in T : <<y, x>> \notin R BY <1>4, <1>5, <1>6, WFMin
<1>8. PICK n \in S : n <= k /\ x = 0 .. n BY <1>7 DEF T
<1>9. ASSUME NEW m \in S, ~(n <= m) PROVE FALSE
  <2>1. m < n /\ m <= k /\ m \in Nat /\ n \in Nat BY <1>8, <1>9, <1>2
  <2>2. 0 .. m \in T BY <2>1 DEF T
  <2>3. n \in 0 .. n /\ n \notin 0 .. m BY <2>1
  <2>4. 0 .. m \subseteq 0 .. n BY <2>1
  <2>5. <<0 .. m, 0 .. n>> \in R BY <2>2, <2>3, <2>4, <1>5, <1>7, <1>8 DEF R, StrictSubsetOrdering
  <2>6. QED BY <2>5, <1>7, <1>8, <2>2
<1>10. QED BY <1>9

(* What is left to join, position by position of a body: the equation.       *)
LEMMA OpenEquation ==
  ASSUME NEW c, Len(c) \in Nat, Nests(c)
  PROVE  \E h : /\ h = [i \in 0 .. Len(c) |-> IF i = 0 THEN << >> ELSE Left(h[i-1], c[i])]
                /\ h[Len(c)] = << >>
                /\ \A i \in 1 .. Len(c) : h[i-1] \o Opened(c[i]) = h[i] \o Closed(c[i])
<1> DEFINE N == Len(c)
           Solves(f, n) == f = [i \in 0 .. n |-> IF i = 0 THEN << >> ELSE Left(f[i-1], c[i])]
           P(f) == f = [i \in 0 .. Len(c) |-> IF i = 0 THEN << >> ELSE Left(f[i-1], c[i])]
           open == CHOOSE f : P(f)
           Bad == {n \in 0 .. N : ~ \E f : Solves(f, n)}
<1>1. /\ open[Len(c)] = << >>
      /\ \A i \in 1 .. Len(c) : open[i-1] \o Opened(c[i]) = open[i] \o Closed(c[i])
  BY DEF Nests
<1>2. N \in Nat OBVIOUS
<1>3. ASSUME Bad # {} PROVE FALSE
  <2> HIDE DEF N
  <2>1. Bad \in SUBSET Nat BY <1>2
  <2>2. PICK n \in Bad : \A m \in Bad : n <= m BY <1>3, <2>1, Least
  <2>3. n \in 0 .. N /\ ~ \E f : Solves(f, n) OBVIOUS
  <2>4. n # 0
    <3>1. ASSUME n = 0 PROVE FALSE
      <4> DEFINE e == [i \in 0 .. 0 |-> << >>]
      <4>1. \A i \in 0 .. 0 : i = 0 OBVIOUS
      <4>2. e = [i \in 0 .. 0 |-> IF i = 0 THEN << >> ELSE Left(e[i-1], c[i])] BY <4>1
      <4>3. QED BY <4>2, <3>1, <2>3
    <3>2. QED BY <3>1
  <2>a. n \in Nat /\ n - 1 \in 0 .. N /\ ~(n <= n - 1) BY <2>3, <2>4, <1>2
  <2>5. n - 1 \notin Bad BY <2>2, <2>a
  <2>6. PICK f : Solves(f, n - 1) BY <2>5, <2>a
  <2> DEFINE g == [i \in 0 .. n |-> IF i < n THEN f[i] ELSE Left(f[n - 1], c[n])]
  <2>7. n \in Nat \ {0} /\ \A j \in 0 .. n - 1 : f[j] = g[j] BY <2>3, <2>4, <1>2
  <2>8. g[n] = Left(f[n - 1], c[n]) BY <2>7
  <2>9. DOMAIN g = 0 .. n /\ g = [i \in 0 .. n |-> g[i]] OBVIOUS
  <2> HIDE DEF g
  <2>10. ASSUME NEW i \in 0 .. n PROVE g[i] = IF i = 0 THEN << >> ELSE Left(g[i-1], c[i])
    <3>1. CASE i = n
      <4>1. n - 1 \in 0 .. n - 1 BY <2>7
      <4>2. f[n - 1] = g[n - 1] BY <4>1, <2>7
      <4>3. QED BY <3>1, <4>2, <2>7, <2>8
    <3>2. CASE i # n
      <4>1. i \in 0 .. n - 1 /\ (i # 0 => i - 1 \in 0 .. n - 1) BY <3>2, <2>7
      <4>2. f[i] = IF i = 0 THEN << >> ELSE Left(f[i-1], c[i]) BY <4>1, <2>6
      <4>3. f[i] = g[i] /\ (i # 0 => f[i-1] = g[i-1]) BY <4>1, <2>7
      <4>4. QED BY <4>2, <4>3
    <3>3. QED BY <3>1, <3>2
  <2>11. Solves(g, n) BY <2>9, <2>10
  <2>12. QED BY <2>3, <2>11
<1>4. N \in 0 .. N /\ N \notin Bad BY <1>2, <1>3
<1>5. PICK h : Solves(h, N) BY <1>4
<1>6. \E f : P(f) BY <1>5
<1> HIDE DEF P
<1>7. P(open) BY <1>6
<1> HIDE DEF open
<1>8. QED BY <1>1, <1>7 DEF P

(* What is left to join are tasks.                                           *)
LEMMA LeftType ==
  ASSUME NEW x \in Instructions, NEW s \in Seq(Tasks)
  PROVE  Left(s, x) \in Seq(Tasks)
<1> DEFINE z == s \o Opened(x)
           n == Len(z) - Len(Closed(x))
<1>1. Opened(x) \in Seq(Tasks)
  <2>1. x \in Instruction BY DEF Instruction
  <2>2. x.op \in {"fork", "speculate"} => x.task \in Tasks BY <2>1, InstructionFacts
  <2>3. QED BY <2>2 DEF Opened
<1>2. Closed(x) \in Seq(Tasks)
  <2>1. x \in Instruction BY DEF Instruction
  <2>2. /\ x.op = "join" => x.meant \in Tasks
        /\ x.op = "choose" => x.then \in Tasks \cup {NoTask} /\ x.else \in Tasks \cup {NoTask}
    BY <2>1, InstructionFacts
  <2>3. \A u \in Tasks \cup {NoTask} : Unless(u) \in Seq(Tasks) BY DEF Unless
  <2>4. QED BY <2>2, <2>3, ConcatProperties DEF Closed
<1>3. z \in Seq(Tasks) BY <1>1, ConcatProperties
<1>4. Left(s, x) = SubSeq(z, 1, n) BY DEF Left
<1> HIDE DEF z
<1>5. Len(z) \in Nat /\ n \in Int /\ n <= Len(z) BY <1>2, <1>3, LenProperties
<1> HIDE DEF n
<1>6. \A i \in 1 .. n : z[i] \in Tasks BY <1>3, <1>5, ElementOfSeq
<1>7. 1 \in Int OBVIOUS
<1>8. SubSeq(z, 1, n) \in Seq(Tasks) BY <1>5, <1>6, <1>7, SubSeqProperties
<1>9. QED BY <1>4, <1>8

(* A body takes out of pendingTasks what it puts there, each join what it is *)
(* meant for (NestingAssumption).                                            *)
LEMMA BodyStacks ==
  ASSUME body \in Programs, NEW t \in Tasks
  PROVE  Stacks(body[t], << >>)
<1> DEFINE c == body[t]
<1>1. c \in Seq(Instructions) /\ Len(c) \in Nat BY BodyType, LenProperties
<1>2. \A i \in 1 .. Len(c) : c[i] \in Instructions BY <1>1, ElementOfSeq
<1>3. Nests(c) BY NestingAssumption
<1> HIDE DEF c
<1>4. PICK g : /\ g = [i \in 0 .. Len(c) |-> IF i = 0 THEN << >> ELSE Left(g[i-1], c[i])]
               /\ g[Len(c)] = << >>
               /\ \A i \in 1 .. Len(c) : g[i-1] \o Opened(c[i]) = g[i] \o Closed(c[i])
  BY <1>1, <1>3, OpenEquation
<1>5. g[0] = << >> /\ \A i \in 1 .. Len(c) : g[i] = Left(g[i-1], c[i])
  <2>1. \A i \in 0 .. Len(c) : g[i] = IF i = 0 THEN << >> ELSE Left(g[i-1], c[i]) BY <1>4
  <2>2. 0 \in 0 .. Len(c) /\ \A i \in 1 .. Len(c) : i \in 0 .. Len(c) /\ i # 0 BY <1>1
  <2>3. QED BY <2>1, <2>2
<1> DEFINE Bad == {n \in 0 .. Len(c) : g[n] \notin Seq(Tasks)}
<1>6. ASSUME Bad # {} PROVE FALSE
  <2>1. Bad \in SUBSET Nat BY <1>1
  <2>2. PICK n \in Bad : \A m \in Bad : n <= m BY <1>6, <2>1, Least
  <2>3. n \in 0 .. Len(c) /\ g[n] \notin Seq(Tasks) OBVIOUS
  <2>4. n # 0 BY <2>3, <1>5, EmptySeq
  <2>5. n - 1 \in 0 .. Len(c) /\ n - 1 \notin Bad /\ n \in 1 .. Len(c)
    BY <2>1, <2>2, <2>3, <2>4, <1>1
  <2>6. g[n - 1] \in Seq(Tasks) BY <2>5
  <2>7. QED BY <2>3, <2>5, <2>6, <1>2, <1>5, LeftType
<1>7. \A i \in 0 .. Len(c) : g[i] \in Seq(Tasks) BY <1>6
<1> DEFINE h == [i \in 1 .. Len(c) + 1 |-> g[i - 1]]
<1>8. \A i \in 1 .. Len(c) + 1 : i - 1 \in 0 .. Len(c) BY <1>1
<1>9. h \in [1 .. Len(c) + 1 -> Seq(Tasks)] BY <1>7, <1>8
<1>10. h[1] = << >> /\ h[Len(c) + 1] = << >>
  <2>1. 1 \in 1 .. Len(c) + 1 /\ Len(c) + 1 \in 1 .. Len(c) + 1 /\ Len(c) + 1 - 1 = Len(c) BY <1>1
  <2>2. QED BY <2>1, <1>4, <1>5
<1>11. ASSUME NEW i \in 1 .. Len(c) PROVE Effect(c[i], h[i], h[i + 1])
  <2>1. i \in 1 .. Len(c) + 1 /\ i + 1 \in 1 .. Len(c) + 1 /\ i + 1 - 1 = i BY <1>1
  <2>2. h[i] = g[i - 1] /\ h[i + 1] = g[i] BY <2>1
  <2> HIDE DEF h
  <2>3. h[i] \o Opened(c[i]) = h[i + 1] \o Closed(c[i]) BY <2>2, <1>4
  <2>4. c[i].op \in {"fork", "speculate", "join", "choose"}
    BY <1>2, InstructionKinds DEF Fork, Speculate, Join, Choose
  <2>5. Adds(c[i]) = Opened(c[i]) /\ Takes(c[i]) = Closed(c[i]) BY <2>4 DEF Adds, Takes, Opened
  <2>6. QED BY <2>3, <2>4, <2>5 DEF Effect
<1> HIDE DEF h
<1>12. Stacks(c, << >>) BY <1>9, <1>10, <1>11 DEF Stacks
<1>13. QED BY <1>12 DEF c

(* A finished code has joined all its tasks.                                 *)
LEMMA StacksNone == \A s : Stacks(<< >>, s) <=> s = << >>
<1>1. Len(<< >>) = 0 /\ << >> \in Seq(Tasks) BY EmptySeq
<1>2. Stacks(<< >>, << >>)
  <2> DEFINE h == [i \in 1 .. 0 + 1 |-> << >>]
  <2>1. h \in [1 .. 0 + 1 -> Seq(Tasks)] /\ h[1] = << >> /\ h[0 + 1] = << >> BY <1>1
  <2> HIDE DEF h
  <2>2. QED BY <1>1, <2>1 DEF Stacks
<1>3. \A s : Stacks(<< >>, s) => s = << >> BY <1>1 DEF Stacks
<1>4. QED BY <1>2, <1>3

(* What the rest of a code has to join.                                      *)
LEMMA StacksTail ==
  ASSUME NEW c \in Seq(Instruction), c # << >>, NEW s, Stacks(c, s)
  PROVE  s \in Seq(Tasks) /\ \E r \in Seq(Tasks) : Stacks(Tail(c), r) /\ Effect(c[1], s, r)
<1>1. /\ Len(c) \in Nat \ {0} /\ Len(Tail(c)) = Len(c) - 1
      /\ \A i \in 1 .. Len(Tail(c)) : Tail(c)[i] = c[i + 1]
  BY EmptySeq, HeadTailProperties
<1>2. PICK h \in [1 .. Len(c) + 1 -> Seq(Tasks)] :
        /\ h[1] = s /\ h[Len(c) + 1] = << >>
        /\ \A i \in 1 .. Len(c) : Effect(c[i], h[i], h[i + 1])
  BY DEF Stacks
<1> DEFINE z == Tail(c)
           g == [i \in 1 .. Len(z) + 1 |-> h[i + 1]]
<1>3. \A i \in 1 .. Len(z) + 1 : i + 1 \in 1 .. Len(c) + 1 BY <1>1
<1>4. g \in [1 .. Len(z) + 1 -> Seq(Tasks)] BY <1>3
<1>5. g[1] = h[2] /\ g[Len(z) + 1] = << >>
  <2>1. 1 \in 1 .. Len(z) + 1 /\ Len(z) + 1 \in 1 .. Len(z) + 1 /\ Len(z) + 1 + 1 = Len(c) + 1 BY <1>1
  <2>2. QED BY <2>1, <1>2
<1>6. ASSUME NEW i \in 1 .. Len(z) PROVE Effect(z[i], g[i], g[i + 1])
  <2>1. i + 1 \in 1 .. Len(c) /\ i \in 1 .. Len(z) + 1 /\ i + 1 \in 1 .. Len(z) + 1 BY <1>1
  <2>2. Effect(c[i + 1], h[i + 1], h[i + 1 + 1]) BY <2>1, <1>2
  <2>3. g[i] = h[i + 1] /\ g[i + 1] = h[i + 1 + 1] BY <2>1
  <2>4. z[i] = c[i + 1] BY <1>1
  <2>5. QED BY <2>2, <2>3, <2>4
<1> HIDE DEF g
<1>7. Stacks(z, h[2]) BY <1>4, <1>5, <1>6 DEF Stacks
<1>8. 1 \in 1 .. Len(c) /\ 1 \in 1 .. Len(c) + 1 /\ 2 \in 1 .. Len(c) + 1 BY <1>1
<1>9. Effect(c[1], h[1], h[2]) BY <1>2, <1>8
<1>10. h[2] \in Seq(Tasks) /\ h[1] \in Seq(Tasks) BY <1>8
<1>11. QED BY <1>2, <1>7, <1>9, <1>10

(* A prefix that leads from g[1] to what the rest has to join.               *)
LEMMA StacksPrefix ==
  ASSUME NEW new \in Seq(Instruction), NEW c \in Seq(Instruction), NEW r, Stacks(c, r),
         NEW g \in [1 .. Len(new) + 1 -> Seq(Tasks)], g[Len(new) + 1] = r,
         \A i \in 1 .. Len(new) : Effect(new[i], g[i], g[i + 1])
  PROVE  Stacks(new \o c, g[1])
<1>1. /\ Len(new) \in Nat /\ Len(c) \in Nat /\ Len(new \o c) = Len(new) + Len(c)
      /\ \A i \in 1 .. Len(new) + Len(c) : (new \o c)[i] = IF i <= Len(new) THEN new[i]
                                                          ELSE c[i - Len(new)]
  BY LenProperties, ConcatProperties
<1>2. PICK h \in [1 .. Len(c) + 1 -> Seq(Tasks)] :
        /\ h[1] = r /\ h[Len(c) + 1] = << >>
        /\ \A i \in 1 .. Len(c) : Effect(c[i], h[i], h[i + 1])
  BY DEF Stacks
<1> DEFINE k == Len(new)
           d == new \o c
           f == [i \in 1 .. k + Len(c) + 1 |-> IF i <= k THEN g[i] ELSE h[i - k]]
<1> HIDE DEF k, d
<1>3. k \in Nat /\ Len(c) \in Nat /\ Len(d) = k + Len(c) BY <1>1 DEF k, d
<1>4. \A i \in 1 .. k + Len(c) + 1 :
        /\ i <= k => i \in 1 .. k + 1
        /\ ~(i <= k) => i - k \in 1 .. Len(c) + 1
  BY <1>3
<1>5. g \in [1 .. k + 1 -> Seq(Tasks)] /\ g[k + 1] = r BY DEF k
<1>6. f \in [1 .. k + Len(c) + 1 -> Seq(Tasks)] BY <1>4, <1>5
<1>f. \A i \in 1 .. k + Len(c) + 1 : (i <= k => f[i] = g[i]) /\ (~(i <= k) => f[i] = h[i - k])
  OBVIOUS
<1> HIDE DEF f
<1>7. f[1] = g[1]
  <2>1. 1 \in 1 .. k + Len(c) + 1 /\ (~(1 <= k) => k = 0 /\ 1 - k = 1 /\ k + 1 = 1) BY <1>3
  <2>2. QED BY <2>1, <1>2, <1>5, <1>f
<1>8. f[k + Len(c) + 1] = << >>
  <2>1. /\ k + Len(c) + 1 \in 1 .. k + Len(c) + 1 /\ ~(k + Len(c) + 1 <= k)
        /\ k + Len(c) + 1 - k = Len(c) + 1
    BY <1>3
  <2>2. f[k + Len(c) + 1] = h[k + Len(c) + 1 - k] BY <2>1, <1>3, <1>f
  <2>3. QED BY <2>1, <2>2, <1>2
<1>9. ASSUME NEW i \in 1 .. k + Len(c) PROVE Effect(d[i], f[i], f[i + 1])
  <2>0. i \in 1 .. k + Len(c) + 1 /\ i + 1 \in 1 .. k + Len(c) + 1 BY <1>3
  <2>1. CASE i <= k
    <3>1. d[i] = new[i] BY <2>1, <1>1 DEF k, d
    <3>2. i \in 1 .. k BY <1>3, <2>1
    <3>3. Effect(new[i], g[i], g[i + 1]) BY <3>2 DEF k
    <3>4. f[i] = g[i] BY <2>0, <2>1, <1>f
    <3>5. f[i + 1] = g[i + 1]
      <4>1. CASE i + 1 <= k BY <4>1, <2>0, <1>f
      <4>2. CASE ~(i + 1 <= k)
        <5>1. i + 1 = k + 1 /\ i + 1 - k = 1 BY <4>2, <2>1, <1>3
        <5>2. f[i + 1] = h[i + 1 - k] BY <4>2, <2>0, <1>3, <1>f
        <5>3. QED BY <5>1, <5>2, <1>2, <1>5
      <4>3. QED BY <4>1, <4>2
    <3>6. QED BY <3>1, <3>3, <3>4, <3>5
  <2>2. CASE ~(i <= k)
    <3>1. i - k \in 1 .. Len(c) /\ i + 1 - k = i - k + 1 /\ ~(i + 1 <= k) BY <2>2, <1>3
    <3>2. d[i] = c[i - k] BY <2>2, <1>1 DEF k, d
    <3>3. Effect(c[i - k], h[i - k], h[i - k + 1]) BY <3>1, <1>2
    <3>4. f[i] = h[i - k] /\ f[i + 1] = h[i + 1 - k] BY <2>0, <2>2, <3>1, <1>3, <1>f
    <3>6. f[i + 1] = h[i - k + 1] BY <3>1, <3>4
    <3>5. QED BY <3>2, <3>3, <3>4, <3>6
  <2>3. QED BY <2>1, <2>2
<1>10. f \in [1 .. Len(d) + 1 -> Seq(Tasks)] /\ f[Len(d) + 1] = << >> BY <1>3, <1>6, <1>8
<1>11. \A i \in 1 .. Len(d) : Effect(d[i], f[i], f[i + 1]) BY <1>3, <1>9
<1>12. Stacks(d, g[1]) BY <1>7, <1>10, <1>11 DEF Stacks
<1>13. QED BY <1>12 DEF d

(* Instructions that visit tasks leave pendingTasks alone.                   *)
LEMMA EffectLight ==
  ASSUME NEW x, x.op \in {"visit", "mark", "stop"}, NEW s \in Seq(Tasks)
  PROVE  \A r \in Seq(Tasks) : Effect(x, s, r) <=> s = r
<1>1. Adds(x) = << >> /\ Takes(x) = << >> BY DEF Adds, Takes, Closed
<1>2. \A r \in Seq(Tasks) : r \o << >> = r BY ConcatEmptySeq
<1>3. QED BY <1>1, <1>2 DEF Effect
LEMMA StacksLight ==
  ASSUME NEW new \in Seq(Instruction), NEW c \in Seq(Instruction), NEW r \in Seq(Tasks), Stacks(c, r),
         \A i \in 1 .. Len(new) : new[i].op \in {"visit", "mark", "stop"}
  PROVE  Stacks(new \o c, r)
<1> DEFINE g == [i \in 1 .. Len(new) + 1 |-> r]
<1>1. Len(new) \in Nat BY LenProperties
<1>2. /\ g \in [1 .. Len(new) + 1 -> Seq(Tasks)] /\ g[Len(new) + 1] = r /\ g[1] = r
      /\ \A i \in 1 .. Len(new) : g[i] = r /\ g[i + 1] = r
  BY <1>1
<1> HIDE DEF g
<1>3. ASSUME NEW i \in 1 .. Len(new) PROVE Effect(new[i], g[i], g[i + 1])
  <2>1. new[i].op \in {"visit", "mark", "stop"} /\ g[i] = r /\ g[i + 1] = r BY <1>2
  <2>2. Effect(new[i], r, r) BY <2>1, EffectLight
  <2>3. QED BY <2>1, <2>2
<1>4. QED BY <1>2, <1>3, StacksPrefix

(* A prefix of one instruction.                                              *)
LEMMA StacksOne ==
  ASSUME NEW x \in Instruction, NEW c \in Seq(Instruction), NEW r \in Seq(Tasks), Stacks(c, r),
         NEW s \in Seq(Tasks), Effect(x, s, r)
  PROVE  Stacks(<<x>> \o c, s)
<1> DEFINE g == [i \in 1 .. 2 |-> IF i = 1 THEN s ELSE r]
           z == <<x>>
<1>1. z \in Seq(Instruction) /\ Len(z) = 1 /\ z[1] = x BY NothingNew
<1>2. g \in [1 .. 2 -> Seq(Tasks)] /\ g[1] = s /\ g[2] = r OBVIOUS
<1> HIDE DEF g, z
<1>3. \A i \in 1 .. 1 : Effect(z[i], g[i], g[i + 1]) BY <1>1, <1>2
<1>4. Len(z) + 1 = 2 BY <1>1
<1>5. \A i \in 1 .. Len(z) : Effect(z[i], g[i], g[i + 1]) BY <1>1, <1>3
<1>6. Stacks(z \o c, g[1]) BY <1>1, <1>2, <1>4, <1>5, StacksPrefix
<1>7. QED BY <1>2, <1>6 DEF z

(* A prefix of two.                                                          *)
LEMMA StacksTwo ==
  ASSUME NEW x \in Instruction, NEW y \in Instruction, NEW c \in Seq(Instruction),
         NEW r \in Seq(Tasks), Stacks(c, r),
         NEW p \in Seq(Tasks), NEW s \in Seq(Tasks), Effect(x, s, p), Effect(y, p, r)
  PROVE  Stacks(<<x, y>> \o c, s)
<1> DEFINE g == [i \in 1 .. 3 |-> IF i = 1 THEN s ELSE IF i = 2 THEN p ELSE r]
           z == <<x, y>>
<1>1. z \in Seq(Instruction) /\ Len(z) = 2 /\ z[1] = x /\ z[2] = y BY NothingNew
<1>2. g \in [1 .. 3 -> Seq(Tasks)] /\ g[1] = s /\ g[2] = p /\ g[3] = r OBVIOUS
<1> HIDE DEF g, z
<1>3. \A i \in 1 .. 2 : i = 1 \/ i = 2 OBVIOUS
<1>4. Len(z) + 1 = 3 BY <1>1
<1>5. \A i \in 1 .. Len(z) : Effect(z[i], g[i], g[i + 1])
  <2>1. Effect(z[1], g[1], g[1 + 1]) /\ Effect(z[2], g[2], g[2 + 1]) BY <1>1, <1>2
  <2>2. QED BY <2>1, <1>1, <1>3
<1>6. Stacks(z \o c, g[1]) BY <1>1, <1>2, <1>4, <1>5, StacksPrefix
<1>7. QED BY <1>2, <1>6 DEF z

-----------------------------------------------------------------------------
(* The tasks in a pendingTasks are, from the bottom to the top, those of the *)
(* frames, and each frame's code takes out its own.                          *)
Own(s, p) == \A k \in 1 .. Len(s) : s[k] \in Forks(p)
Layer(f, a, b) == \E s \in Seq(Tasks) : b = a \o s /\ Stacks(f.code, s) /\ Own(s, f.task)
Layers(fs, ps) ==
  \E B \in [0 .. Len(fs) -> Seq(Tasks)] :
    /\ B[0] = << >> /\ B[Len(fs)] = ps
    /\ \A i \in 1 .. Len(fs) : Layer(fs[i], B[i - 1], B[i])
Nest == \A w \in Workers : Layers(frames[w], pending[w])

(* Nobody has anything pending before the first task.                        *)
LEMMA LayersNone == Layers(<< >>, << >>)
<1>1. Len(<< >>) = 0 /\ << >> \in Seq(Tasks) BY EmptySeq
<1> DEFINE B == [i \in 0 .. 0 |-> << >>]
<1>2. B \in [0 .. 0 -> Seq(Tasks)] /\ B[0] = << >> BY <1>1
<1> HIDE DEF B
<1>3. QED BY <1>1, <1>2 DEF Layers

(* Without the top frame.                                                    *)
LEMMA LayersLess ==
  ASSUME NEW fs \in Seq(Frame), fs # << >>, NEW ps, Layers(fs, ps), NEW gs, Len(gs) = Len(fs) - 1,
         \A i \in 1 .. Len(fs) - 1 : gs[i] = fs[i]
  PROVE  \E a \in Seq(Tasks) : Layers(gs, a) /\ Layer(fs[Len(fs)], a, ps)
<1> DEFINE n == Len(fs)
<1>1. n \in Nat \ {0} BY EmptySeq
<1>2. PICK B \in [0 .. n -> Seq(Tasks)] :
        /\ B[0] = << >> /\ B[n] = ps
        /\ \A i \in 1 .. n : Layer(fs[i], B[i - 1], B[i])
  BY DEF Layers
<1> HIDE DEF n
<1> DEFINE C == [i \in 0 .. n - 1 |-> B[i]]
<1>3. \A i \in 0 .. n - 1 : i \in 0 .. n /\ i - 1 + 1 = i BY <1>1
<1>4. C \in [0 .. n - 1 -> Seq(Tasks)] /\ \A i \in 0 .. n - 1 : C[i] = B[i] BY <1>3
<1>5. 0 \in 0 .. n - 1 /\ n - 1 \in 0 .. n - 1 /\ n \in 1 .. n BY <1>1
<1> HIDE DEF C
<1>6. ASSUME NEW i \in 1 .. n - 1 PROVE Layer(gs[i], C[i - 1], C[i])
  <2>1. i \in 1 .. n /\ i \in 0 .. n - 1 /\ i - 1 \in 0 .. n - 1 BY <1>1
  <2>2. gs[i] = fs[i] BY DEF n
  <2>3. QED BY <2>1, <2>2, <1>2, <1>4
<1>7. Len(gs) = n - 1 BY DEF n
<1>8. C[0] = << >> BY <1>2, <1>4, <1>5
<1>9. Layers(gs, C[n - 1]) BY <1>4, <1>6, <1>7, <1>8 DEF Layers
<1>10. Layer(fs[n], C[n - 1], ps) /\ C[n - 1] \in Seq(Tasks) BY <1>2, <1>4, <1>5
<1>11. QED BY <1>9, <1>10 DEF n

(* With one more frame.                                                      *)
LEMMA LayersMore ==
  ASSUME NEW fs, NEW ps \in Seq(Tasks), Len(fs) \in Nat, Layers(fs, ps), NEW gs, Len(gs) = Len(fs) + 1,
         \A i \in 1 .. Len(fs) : gs[i] = fs[i],
         NEW qs \in Seq(Tasks), Layer(gs[Len(fs) + 1], ps, qs)
  PROVE  Layers(gs, qs)
<1> DEFINE n == Len(fs)
<1>1. n \in Nat OBVIOUS
<1>2. PICK B \in [0 .. n -> Seq(Tasks)] :
        /\ B[0] = << >> /\ B[n] = ps
        /\ \A i \in 1 .. n : Layer(fs[i], B[i - 1], B[i])
  BY DEF Layers
<1>3. Layer(gs[n + 1], ps, qs) /\ Len(gs) = n + 1 /\ \A i \in 1 .. n : gs[i] = fs[i] OBVIOUS
<1> HIDE DEF n
<1> DEFINE C == [i \in 0 .. n + 1 |-> IF i = n + 1 THEN qs ELSE B[i]]
<1>4. \A i \in 0 .. n : i \in 0 .. n + 1 /\ i # n + 1 BY <1>1
<1>5. /\ n + 1 \in 0 .. n + 1 /\ 0 \in 0 .. n /\ n \in 0 .. n
      /\ \A i \in 0 .. n + 1 : i # n + 1 => i \in 0 .. n
  BY <1>1
<1>6. C \in [0 .. n + 1 -> Seq(Tasks)] BY <1>5
<1>7. C[n + 1] = qs /\ \A i \in 0 .. n : C[i] = B[i] BY <1>4, <1>5
<1> HIDE DEF C
<1>8. ASSUME NEW i \in 1 .. n + 1 PROVE Layer(gs[i], C[i - 1], C[i])
  <2>1. CASE i = n + 1
    <3>1. i - 1 = n BY <2>1, <1>1
    <3>2. QED BY <2>1, <3>1, <1>2, <1>3, <1>5, <1>7
  <2>2. CASE i # n + 1
    <3>1. i \in 1 .. n /\ i \in 0 .. n /\ i - 1 \in 0 .. n BY <2>2, <1>1
    <3>2. QED BY <3>1, <1>2, <1>3, <1>7
  <2>3. QED BY <2>1, <2>2
<1>9. C[0] = << >> BY <1>2, <1>5, <1>7
<1>10. QED BY <1>3, <1>6, <1>7, <1>8, <1>9 DEF Layers

(* The top frame goes on.                                                    *)
LEMMA LayersMove ==
  ASSUME NEW fs, NEW gs, TopMoves(fs, gs), NEW ps, Layers(fs, ps), NEW qs \in Seq(Tasks),
         \A a \in Seq(Tasks) : Layer(fs[Len(fs)], a, ps) => Layer(gs[Len(fs)], a, qs)
  PROVE  Layers(gs, qs)
<1> DEFINE n == Len(fs)
           z == Front(fs)
<1>1. /\ n \in Nat \ {0} /\ Len(gs) = n /\ fs \in Seq(Frame) /\ fs # << >>
      /\ \A i \in 1 .. n - 1 : gs[i] = fs[i]
  BY EmptySeq DEF TopMoves
<1>2. z \in Seq(Frame) /\ Len(z) = n - 1 /\ \A i \in 1 .. n - 1 : z[i] = fs[i] BY <1>1, FrontAndLast
<1> HIDE DEF z
<1>3. PICK a \in Seq(Tasks) : Layers(z, a) /\ Layer(fs[n], a, ps) BY <1>1, <1>2, LayersLess
<1>4. Layer(gs[n], a, qs) BY <1>3
<1> HIDE DEF n
<1>5. Len(z) \in Nat /\ Len(z) + 1 = n /\ \A i \in 1 .. Len(z) : gs[i] = z[i] BY <1>1, <1>2
<1>6. Len(gs) = Len(z) + 1 /\ Layer(gs[Len(z) + 1], a, qs) BY <1>1, <1>4, <1>5
<1>7. QED BY <1>3, <1>5, <1>6, LayersMore

(* A step of a running task takes pendingTasks from ps to qs and the code    *)
(* from x followed by c to d, and the task's own are at the end before and   *)
(* after.                                                                    *)
Carries(x, c, d, p, ps, qs) ==
  \A a, s, r \in Seq(Tasks) :
    ps = a \o s /\ Own(s, p) /\ Effect(x, s, r) /\ Stacks(c, r) =>
      \E q \in Seq(Tasks) : qs = a \o q /\ Own(q, p) /\ Stacks(d, q)
LEMMA LayersStay ==
  ASSUME body' = body
  PROVE  \A fs, ps : Layers(fs, ps)' <=> Layers(fs, ps)
<1>1. \A f, a, b : Layer(f, a, b)' <=> Layer(f, a, b)
  <2>1. \A p : Forks(p)' = Forks(p) BY DEF Forks
  <2>2. QED BY <2>1 DEF Layer, Own
<1>2. QED BY <1>1 DEF Layers
LEMMA NestBecome ==
  ASSUME Types, Nest, NEW w \in Workers, frames[w] # << >>, Code(w) # << >>,
         NEW new \in Seq(Instruction), Become(w, new), body' = body,
         pending' \in [Workers -> Seq(Tasks)],
         \A v \in Workers \ {w} : pending'[v] = pending[v],
         Carries(Code(w)[1], Tail(Code(w)), new \o Tail(Code(w)), Current(w), pending[w], pending'[w])
  PROVE  Nest'
<1> DEFINE n == Len(frames[w])
<1>1. /\ TopMoves(frames[w], frames'[w])
      /\ \A v \in Workers \ {w} : frames'[v] = frames[v]
      /\ frames'[w][n].code = new \o Tail(Code(w)) /\ frames'[w][n].task = Current(w)
  BY BecomeFacts
<1>2. /\ Code(w) = frames[w][n].code /\ Current(w) = frames[w][n].task
      /\ Code(w) \in Seq(Instruction)
  BY FrameFacts
<1> HIDE DEF n
<1>4. \A fs, ps : Layers(fs, ps)' <=> Layers(fs, ps) BY LayersStay
<1>5. ASSUME NEW a \in Seq(Tasks), Layer(frames[w][n], a, pending[w])
      PROVE  Layer(frames'[w][n], a, pending'[w])
  <2>1. PICK s \in Seq(Tasks) : pending[w] = a \o s /\ Stacks(Code(w), s) /\ Own(s, Current(w))
    BY <1>2, <1>5 DEF Layer
  <2>2. PICK r \in Seq(Tasks) : Stacks(Tail(Code(w)), r) /\ Effect(Code(w)[1], s, r)
    BY <1>2, <2>1, StacksTail
  <2>3. PICK q \in Seq(Tasks) : /\ pending'[w] = a \o q /\ Own(q, Current(w))
                                /\ Stacks(new \o Tail(Code(w)), q)
    BY <2>1, <2>2 DEF Carries
  <2>4. QED BY <2>3, <1>1 DEF Layer
<1>6. ASSUME NEW v \in Workers PROVE Layers(frames'[v], pending'[v])
  <2>1. Layers(frames[v], pending[v]) BY DEF Nest
  <2>2. CASE v # w BY <2>1, <2>2, <1>1
  <2>3. CASE v = w
    <3>1. pending'[w] \in Seq(Tasks) OBVIOUS
    <3>2. QED BY <2>1, <2>3, <3>1, <1>1, <1>5, LayersMove DEF n
  <2>4. QED BY <2>2, <2>3
<1>7. QED BY <1>4, <1>6 DEF Nest

-----------------------------------------------------------------------------
(* A cancellation comes before the rest of the code.                         *)
Walk == {"visit", "mark", "stop"}
EarlyCode(c) ==
  \A i, j \in 1 .. Len(c) : i < j /\ c[j].op \in Walk \cup {"erase"} => c[i].op \in Walk
Early == \A w \in Workers : \A i \in 1 .. Len(frames[w]) : EarlyCode(frames[w][i].code)

(* A canceled task has skipped no fork.                                      *)
Adding(f, u) == f.code # << >> /\ f.code[1].op = "add" /\ f.code[1].task = u
Clean ==
  \A t \in canceled : \A u \in Forks(t) \ childs[t] :
    \E w \in Workers : \E i \in 1 .. Len(frames[w]) :
      frames[w][i].task = t /\ Adding(frames[w][i], u)

(* A task is canceled while it is pending because its parent is canceled, or *)
(* by its parent, which will erase it.                                       *)
Erases(c, t) == \E j \in 1 .. Len(c) : c[j].op = "erase" /\ c[j].task = t
By(f, t)     == f.task = Parent(t) /\ Erases(f.code, t)
Excuse(t) ==
  Parent(t) \in canceled \/ \E w \in Workers : \E i \in 1 .. Len(frames[w]) : By(frames[w][i], t)
Frames(w) == {frames[w][i] : i \in 1 .. Len(frames[w])}
Excused(f) ==
  \A j \in 1 .. Len(f.code) : f.code[j].op \in {"visit", "mark"} =>
    Parent(f.code[j].task) \in canceled \/ By(f, f.code[j].task)
Canc ==
  /\ canceled \subseteq Known
  /\ \A t \in canceled \cap Members(pending) : Excuse(t)
  /\ \A w \in Workers : \A f \in Frames(w) : Excused(f)

Nested == Early /\ (Clean => Nest /\ Canc)

(* Replacing the head of a code keeps cancellations before the rest.         *)
LEMMA EarlyKept ==
  ASSUME NEW c \in Seq(Instruction), c # << >>, NEW new \in Seq(Instruction), EarlyCode(c),
         \/ c[1].op \in Walk /\ \A i \in 1 .. Len(new) : new[i].op \in Walk
         \/ c[1].op \notin Walk /\ EarlyCode(new)
  PROVE  EarlyCode(new \o Tail(c))
<1> DEFINE d == new \o Tail(c)
<1>1. /\ Len(d) = Len(new) + Len(c) - 1 /\ Len(new) \in Nat /\ Len(c) \in Nat \ {0}
      /\ \A i \in 1 .. Len(new) : d[i] = new[i]
      /\ \A i \in Len(new) + 1 .. Len(d) : d[i] = c[i - Len(new) + 1]
  BY Replaced
<1> HIDE DEF d
<1> SUFFICES ASSUME NEW i \in 1 .. Len(d), NEW j \in 1 .. Len(d), i < j,
                    d[j].op \in Walk \cup {"erase"}
             PROVE  d[i].op \in Walk
  BY DEF EarlyCode, d
<1>2. CASE j <= Len(new)
  <2>1. i \in 1 .. Len(new) /\ j \in 1 .. Len(new) BY <1>1, <1>2
  <2>2. d[i] = new[i] /\ d[j] = new[j] BY <2>1, <1>1
  <2>3. CASE \A k \in 1 .. Len(new) : new[k].op \in Walk BY <2>1, <2>2, <2>3
  <2>4. CASE EarlyCode(new) BY <2>1, <2>2, <2>4 DEF EarlyCode
  <2>5. QED BY <2>3, <2>4
<1>3. CASE ~(j <= Len(new))
  <2> DEFINE l == j - Len(new) + 1
  <2>1. j \in Len(new) + 1 .. Len(d) /\ l \in 1 .. Len(c) /\ 1 < l /\ 1 \in 1 .. Len(c) BY <1>1, <1>3
  <2>2. d[j] = c[l] BY <2>1, <1>1
  <2> HIDE DEF l
  <2>3. c[1].op \in Walk BY <2>1, <2>2 DEF EarlyCode
  <2>4. CASE i <= Len(new)
    <3>1. i \in 1 .. Len(new) BY <2>4, <1>1
    <3>2. QED BY <2>3, <3>1, <1>1
  <2>5. CASE ~(i <= Len(new))
    <3> DEFINE k == i - Len(new) + 1
    <3>1. i \in Len(new) + 1 .. Len(d) /\ k \in 1 .. Len(c) /\ k < l BY <2>5, <1>1, <1>3 DEF l
    <3>2. d[i] = c[k] BY <3>1, <1>1
    <3> HIDE DEF k
    <3>3. QED BY <2>1, <2>2, <3>1, <3>2 DEF EarlyCode
  <2>6. QED BY <2>4, <2>5
<1>4. QED BY <1>2, <1>3

(* And what is to be erased by what follows the head.                        *)
LEMMA ErasesKept ==
  ASSUME NEW c \in Seq(Instruction), c # << >>, NEW new \in Seq(Instruction), NEW t,
         Erases(c, t), ~(c[1].op = "erase" /\ c[1].task = t)
  PROVE  Erases(new \o Tail(c), t)
<1> DEFINE d == new \o Tail(c)
<1>1. /\ Len(d) = Len(new) + Len(c) - 1 /\ Len(new) \in Nat /\ Len(c) \in Nat \ {0}
      /\ \A i \in Len(new) + 1 .. Len(d) : d[i] = c[i - Len(new) + 1]
  BY Replaced
<1> HIDE DEF d
<1>2. PICK j \in 1 .. Len(c) : c[j].op = "erase" /\ c[j].task = t BY DEF Erases
<1>3. j # 1 BY <1>2
<1> DEFINE i == j - 1 + Len(new)
<1>4. i \in Len(new) + 1 .. Len(d) /\ i - Len(new) + 1 = j /\ i \in 1 .. Len(d) BY <1>1, <1>3
<1> HIDE DEF i
<1>5. d[i] = c[j] BY <1>1, <1>4
<1>6. Erases(d, t) BY <1>2, <1>4, <1>5 DEF Erases
<1>7. QED BY <1>6 DEF d

(* A body cancels nothing.                                                   *)
LEMMA BodyQuiet ==
  ASSUME body \in Programs, NEW t \in Tasks
  PROVE  /\ EarlyCode(body[t])
         /\ \A f : f.code = body[t] =>
              Excused(f) /\ Excused(f)' /\ (\A u : ~Adding(f, u)) /\ (\A u : ~Erases(f.code, u))
<1> DEFINE c == body[t]
<1>1. \A i \in 1 .. Len(c) : c[i].op \in {"fork", "speculate", "join", "choose"}
  <2>1. \A i \in 1 .. Len(c) : c[i] \in Instructions BY BodyType, ElementOfSeq
  <2>2. \A x \in Instructions : x.op \in {"fork", "speculate", "join", "choose"}
    BY InstructionKinds DEF Fork, Speculate, Join, Choose
  <2>3. QED BY <2>1, <2>2
<1>2. c # << >> => 1 \in 1 .. Len(c)
  <2>1. c \in Seq(Instruction) BY BodyType
  <2>2. c # << >> => Len(c) \in Nat \ {0} BY <2>1, EmptySeq
  <2>3. QED BY <2>2
<1> HIDE DEF c
<1>3. EarlyCode(c) BY <1>1 DEF EarlyCode, Walk
<1>4. ASSUME NEW f, f.code = c
      PROVE  Excused(f) /\ Excused(f)' /\ (\A u : ~Adding(f, u)) /\ (\A u : ~Erases(f.code, u))
  <2>1. Excused(f) /\ Excused(f)' BY <1>1, <1>4 DEF Excused
  <2>2. \A u : ~Adding(f, u) BY <1>1, <1>2, <1>4 DEF Adding
  <2>3. \A u : ~Erases(f.code, u) BY <1>1, <1>4 DEF Erases
  <2>4. QED BY <2>1, <2>2, <2>3
<1>5. QED BY <1>3, <1>4 DEF c

(* The program stays what it is.                                             *)
LEMMA SameProgram ==
  ASSUME body' = body
  PROVE  /\ \A p : Forks(p)' = Forks(p)
         /\ \A t : Parent(t)' = Parent(t)
         /\ \A f, t : By(f, t)' <=> By(f, t)
<1>1. \A p : Forks(p)' = Forks(p) BY DEF Forks
<1>2. \A t : Parent(t)' = Parent(t) BY <1>1 DEF Parent
<1>3. \A f, t : By(f, t)' <=> By(f, t) BY <1>2 DEF By, Erases
<1>4. QED BY <1>1, <1>2, <1>3

(* A frame either stays or goes on.                                          *)
LEMMA FrameMoves ==
  ASSUME IInv, NEW w \in Workers, NEW op, At(w, op), NEW new \in Seq(Instruction), Become(w, new)
  PROVE  LET n == Len(frames[w]) IN
         /\ n \in 1 .. n /\ frames[w][n].code = Code(w) /\ frames[w][n].task = Current(w)
         /\ frames'[w][n].code = new \o Tail(Code(w)) /\ frames'[w][n].task = Current(w)
         /\ \A v \in Workers :
              /\ Len(frames'[v]) = Len(frames[v])
              /\ \A i \in 1 .. Len(frames[v]) : ~(v = w /\ i = n) => frames'[v][i] = frames[v][i]
<1> DEFINE n == Len(frames[w])
<1>1. Types /\ frames[w] # << >> /\ Code(w) # << >> BY AtFacts DEF IInv
<1>2. /\ TopMoves(frames[w], frames'[w])
      /\ \A v \in Workers \ {w} : frames'[v] = frames[v]
      /\ frames'[w][n].code = new \o Tail(Code(w)) /\ frames'[w][n].task = Current(w)
  BY <1>1, BecomeFacts
<1>3. /\ n \in Nat \ {0} /\ n \in 1 .. n
      /\ frames[w][n].code = Code(w) /\ frames[w][n].task = Current(w)
  BY <1>1, FrameFacts
<1>4. Len(frames'[w]) = n /\ \A i \in 1 .. n - 1 : frames'[w][i] = frames[w][i]
  BY <1>2 DEF TopMoves
<1> HIDE DEF n
<1>5. \A i \in 1 .. n : i # n => i \in 1 .. n - 1 BY <1>3
<1>6. QED BY <1>2, <1>3, <1>4, <1>5 DEF n

(* A fork that has been skipped stays skipped.                               *)
LEMMA CleanBecome ==
  ASSUME IInv, NEW w \in Workers, NEW op, At(w, op), NEW new \in Seq(Instruction), Become(w, new),
         body' = body, canceled \subseteq canceled',
         \A i \in 1 .. Len(new) : new[i].op = "add" => Current(w) \notin canceled,
         \/ childs' = childs
         \/ op = "add" /\ childs' = [childs EXCEPT ![Current(w)] = @ \cup {Target(w)}],
         Clean'
  PROVE  Clean
<1> DEFINE n == Len(frames[w])
           c == Code(w)
           d == new \o Tail(c)
<1>1. /\ n \in 1 .. n /\ frames[w][n].code = c /\ frames[w][n].task = Current(w)
      /\ frames'[w][n].code = d /\ frames'[w][n].task = Current(w)
      /\ \A v \in Workers :
           /\ Len(frames'[v]) = Len(frames[v])
           /\ \A i \in 1 .. Len(frames[v]) : ~(v = w /\ i = n) => frames'[v][i] = frames[v][i]
  BY FrameMoves
<1>2. /\ c # << >> /\ c \in Seq(Instruction) /\ c[1].op = op /\ Target(w) = c[1].task
      /\ CodeShape(c, canceled, Known)
  BY AtFacts
<1>3. canceled \subseteq Tasks /\ childs \in [Tasks -> SUBSET Tasks] BY DEF IInv, Types
<1>4. \A p : Forks(p)' = Forks(p) BY SameProgram
<1>5. /\ d \in Seq(Instruction) /\ Len(d) = Len(new) + Len(c) - 1
      /\ Len(new) \in Nat /\ Len(c) \in Nat \ {0}
      /\ \A i \in 1 .. Len(new) : d[i] = new[i]
      /\ \A i \in Len(new) + 1 .. Len(d) : d[i] = c[i - Len(new) + 1]
  BY <1>2, Replaced
<1> HIDE DEF n, c, d
<1> SUFFICES ASSUME NEW t \in canceled, NEW u \in Forks(t) \ childs[t]
             PROVE  \E v \in Workers : \E i \in 1 .. Len(frames[v]) :
                      frames[v][i].task = t /\ Adding(frames[v][i], u)
  BY DEF Clean
<1>6. CASE op = "add" /\ t = Current(w) /\ u = Target(w)
  <2>1. Adding(frames[w][n], u) BY <1>1, <1>2, <1>6 DEF Adding
  <2>2. n \in 1 .. Len(frames[w]) BY <1>1 DEF n
  <2>3. QED BY <2>1, <2>2, <1>1, <1>6
<1>7. CASE ~(op = "add" /\ t = Current(w) /\ u = Target(w))
  <2>1. u \in Forks(t)' \ childs'[t] BY <1>3, <1>4, <1>7
  <2>2. t \in canceled' OBVIOUS
  <2>3. PICK v \in Workers : \E i \in 1 .. Len(frames'[v]) :
               frames'[v][i].task = t /\ Adding(frames'[v][i], u)
    <3>1. \A f : Adding(f, u)' <=> Adding(f, u) BY DEF Adding
    <3>2. QED BY <2>1, <2>2 DEF Clean, Adding
  <2>4. PICK i \in 1 .. Len(frames[v]) : frames'[v][i].task = t /\ Adding(frames'[v][i], u)
    BY <2>3, <1>1
  <2>5. CASE ~(v = w /\ i = n)
    <3>1. frames'[v][i] = frames[v][i] BY <2>5, <1>1
    <3>2. QED BY <3>1, <2>4
  <2>6. CASE v = w /\ i = n
    <3>1. t = Current(w) /\ d # << >> /\ d[1].op = "add" BY <2>4, <2>6, <1>1 DEF Adding
    <3>2. CASE Len(new) = 0
      <4>1. Len(d) \in Nat \ {0} BY <3>1, <1>5, EmptySeq
      <4>2. 1 \in Len(new) + 1 .. Len(d) /\ 1 - Len(new) + 1 = 2 /\ 2 \in 1 .. Len(c)
        BY <4>1, <3>2, <1>5
      <4>3. d[1] = c[1 - Len(new) + 1] BY <4>2, <1>5
      <4>4. c[2].op = "add" BY <4>2, <4>3, <3>1
      <4>5. ShapeAt(c, 2, canceled, Known) BY <4>2, <1>2 DEF CodeShape
      <4>6. QED BY <4>4, <4>5 DEF ShapeAt
    <3>3. CASE Len(new) # 0
      <4>1. 1 \in 1 .. Len(new) BY <3>3, <1>5
      <4>2. new[1].op = "add" BY <4>1, <3>1, <1>5
      <4>3. QED BY <4>1, <4>2, <3>1
    <3>4. QED BY <3>2, <3>3
  <2>7. QED BY <2>5, <2>6
<1>8. QED BY <1>6, <1>7

(* Why a task was canceled holds on.                                         *)
LEMMA CancBecome ==
  ASSUME IInv, Early, Canc, NEW w \in Workers, NEW op, At(w, op),
         NEW new \in Seq(Instruction), Become(w, new), body' = body,
         canceled \subseteq canceled', Known \subseteq Known',
         \A t \in canceled' \ canceled : op = "mark" /\ t = Target(w),
         \A t \in canceled' \cap Members(pending)' : t \in Members(pending),
         op = "erase" => Target(w) \notin Members(pending)',
         \A i \in 1 .. Len(new) : new[i].op \in {"visit", "mark"} =>
            \/ Parent(new[i].task) \in canceled'
            \/ Current(w) = Parent(new[i].task) /\ Erases(new \o Tail(Code(w)), new[i].task)
  PROVE  Canc'
<1> DEFINE n == Len(frames[w])
           c == Code(w)
           d == new \o Tail(c)
<1>1. /\ n \in 1 .. n /\ frames[w][n].code = c /\ frames[w][n].task = Current(w)
      /\ frames'[w][n].code = d /\ frames'[w][n].task = Current(w)
      /\ \A v \in Workers :
           /\ Len(frames'[v]) = Len(frames[v])
           /\ \A i \in 1 .. Len(frames[v]) : ~(v = w /\ i = n) => frames'[v][i] = frames[v][i]
  BY FrameMoves
<1>2. /\ c # << >> /\ c \in Seq(Instruction) /\ c[1].op = op /\ Target(w) = c[1].task
      /\ ShapeAt(c, 1, canceled, Known)
  BY AtFacts
<1>3. /\ \A t : Parent(t)' = Parent(t)
      /\ \A f, t : By(f, t)' <=> By(f, t)
  BY SameProgram
<1>4. /\ Len(d) = Len(new) + Len(c) - 1
      /\ Len(new) \in Nat /\ Len(c) \in Nat \ {0}
      /\ \A i \in 1 .. Len(new) : d[i] = new[i]
      /\ \A i \in Len(new) + 1 .. Len(d) : d[i] = c[i - Len(new) + 1]
  BY <1>2, Replaced
<1>5. \A t : Erases(c, t) /\ ~(op = "erase" /\ t = Target(w)) => Erases(d, t)
  BY <1>2, ErasesKept
<1>6. \A i \in 1 .. Len(new) : new[i].op \in {"visit", "mark"} =>
        \/ Parent(new[i].task) \in canceled'
        \/ Current(w) = Parent(new[i].task) /\ Erases(d, new[i].task)
  OBVIOUS
<1>7. n \in 1 .. Len(frames[w]) BY <1>1
<1>8. EarlyCode(c) /\ Excused(frames[w][n]) BY <1>1, <1>7 DEF Early, Canc, Frames
<1> HIDE DEF n, c, d
<1>9. ASSUME NEW v \in Workers, NEW i \in 1 .. Len(frames[v]), NEW t, By(frames[v][i], t),
             ~(op = "erase" /\ t = Target(w))
      PROVE  By(frames'[v][i], t)
  <2>1. CASE v = w /\ i = n BY <2>1, <1>1, <1>5, <1>9 DEF By
  <2>2. CASE ~(v = w /\ i = n)
    <3>1. frames'[v][i] = frames[v][i] BY <2>2, <1>1
    <3>2. QED BY <3>1, <1>9
  <2>3. QED BY <2>1, <2>2
<1>10. canceled' \subseteq Known'
  <2>1. op = "mark" => Target(w) \in Known BY <1>2 DEF ShapeAt
  <2>2. canceled \subseteq Known BY DEF Canc
  <2>3. QED BY <2>1, <2>2
<1>11. ASSUME NEW t \in canceled' \cap Members(pending)' PROVE Excuse(t)'
  <2>1. t \in Members(pending) /\ ~(op = "erase" /\ t = Target(w)) OBVIOUS
  <2>2. \/ Parent(t) \in canceled
        \/ \E v \in Workers : \E i \in 1 .. Len(frames[v]) : By(frames[v][i], t)
    <3>1. CASE t \in canceled BY <2>1, <3>1 DEF Canc, Excuse
    <3>2. CASE t \notin canceled
      <4>1. op = "mark" /\ t = Target(w) BY <3>2
      <4>2. 1 \in 1 .. Len(c) /\ c[1].op = "mark" /\ c[1].task = t BY <4>1, <1>2, <1>4
      <4>3. Parent(t) \in canceled \/ By(frames[w][n], t) BY <4>2, <1>1, <1>8 DEF Excused
      <4>4. QED BY <4>3, <1>7
    <3>3. QED BY <3>1, <3>2
  <2>3. CASE Parent(t) \in canceled
    <3>1. Parent(t)' \in canceled' BY <2>3, <1>3
    <3>2. QED BY <3>1 DEF Excuse
  <2>4. CASE \E v \in Workers : \E i \in 1 .. Len(frames[v]) : By(frames[v][i], t)
    <3>1. PICK v \in Workers : \E i \in 1 .. Len(frames[v]) : By(frames[v][i], t) BY <2>4
    <3>2. PICK i \in 1 .. Len(frames[v]) : By(frames[v][i], t) BY <3>1
    <3>3. i \in 1 .. Len(frames'[v]) /\ By(frames'[v][i], t) BY <2>1, <3>2, <1>1, <1>9
    <3>4. QED BY <3>3, <1>3 DEF Excuse, By, Erases
  <2>5. QED BY <2>2, <2>3, <2>4
<1>12. ASSUME NEW v \in Workers, NEW i \in 1 .. Len(frames'[v])
       PROVE  \A j \in 1 .. Len(frames'[v][i].code) : frames'[v][i].code[j].op \in {"visit", "mark"} =>
                \/ Parent(frames'[v][i].code[j].task) \in canceled'
                \/ By(frames'[v][i], frames'[v][i].code[j].task)
  <2>1. i \in 1 .. Len(frames[v]) BY <1>1
  <2>2. CASE ~(v = w /\ i = n)
    <3>1. frames'[v][i] = frames[v][i] BY <2>1, <2>2, <1>1
    <3>2. Excused(frames[v][i]) BY <2>1 DEF Canc, Frames
    <3>3. QED BY <3>1, <3>2 DEF Excused
  <2>3. CASE v = w /\ i = n
    <3> SUFFICES ASSUME NEW j \in 1 .. Len(d), d[j].op \in {"visit", "mark"}
                 PROVE  \/ Parent(d[j].task) \in canceled'
                        \/ Current(w) = Parent(d[j].task) /\ Erases(d, d[j].task)
      BY <2>3, <1>1 DEF By
    <3>1. CASE j <= Len(new)
      <4>1. j \in 1 .. Len(new) BY <3>1, <1>4
      <4>2. QED BY <4>1, <1>4, <1>6
    <3>2. CASE ~(j <= Len(new))
      <4> DEFINE l == j - Len(new) + 1
      <4>1. j \in Len(new) + 1 .. Len(d) /\ l \in 1 .. Len(c) /\ 1 < l /\ 1 \in 1 .. Len(c)
        BY <3>2, <1>4
      <4>2. d[j] = c[l] BY <4>1, <1>4
      <4> HIDE DEF l
      <4>3. c[l].op \in Walk BY <4>2 DEF Walk
      <4>4. op # "erase" BY <4>1, <4>3, <1>2, <1>8 DEF EarlyCode, Walk
      <4>5. Parent(c[l].task) \in canceled \/ By(frames[w][n], c[l].task)
        BY <4>1, <4>2, <1>1, <1>8 DEF Excused
      <4>6. QED BY <4>2, <4>4, <4>5, <1>1, <1>5 DEF By
    <3>3. QED BY <3>1, <3>2
  <2>4. QED BY <2>2, <2>3
<1>13. ASSUME NEW v \in Workers, NEW f \in Frames(v)' PROVE Excused(f)'
  <2>1. PICK i \in 1 .. Len(frames'[v]) : f = frames'[v][i] BY DEF Frames
  <2>2. \A j \in 1 .. Len(f.code) : f.code[j].op \in {"visit", "mark"} =>
          Parent(f.code[j].task) \in canceled' \/ By(f, f.code[j].task)
    BY <2>1, <1>12
  <2>3. QED BY <2>2, <1>3 DEF Excused
<1>14. QED BY <1>10, <1>11, <1>13 DEF Canc

(* A step of a running task keeps it all, given what it does to pendingTasks *)
(* and what it has to be canceled.                                           *)
LEMMA NestedBecome ==
  ASSUME IInv, IInv', Nested, NEW w \in Workers, NEW op, At(w, op),
         NEW new \in Seq(Instruction), Become(w, new), body' = body,
         canceled \subseteq canceled',
         \A t \in canceled' \ canceled : op = "mark" /\ t = Target(w),
         \/ childs' = childs
         \/ op = "add" /\ childs' = [childs EXCEPT ![Current(w)] = @ \cup {Target(w)}],
         \/ op \in Walk /\ \A i \in 1 .. Len(new) : new[i].op \in Walk
         \/ op \notin Walk /\ EarlyCode(new),
         \A i \in 1 .. Len(new) : new[i].op = "add" => Current(w) \notin canceled,
         \A v \in Workers \ {w} : pending'[v] = pending[v],
         Clean /\ Nest /\ Canc =>
           /\ Carries(Code(w)[1], Tail(Code(w)), new \o Tail(Code(w)), Current(w), pending[w],
                      pending'[w])
           /\ \A t \in canceled' \cap Members(pending)' : t \in Members(pending)
           /\ op = "erase" => Target(w) \notin Members(pending)'
           /\ \A i \in 1 .. Len(new) : new[i].op \in {"visit", "mark"} =>
                \/ Parent(new[i].task) \in canceled'
                \/ Current(w) = Parent(new[i].task) /\ Erases(new \o Tail(Code(w)), new[i].task)
  PROVE  Nested'
<1> DEFINE n == Len(frames[w])
<1>1. /\ n \in 1 .. n /\ frames[w][n].code = Code(w) /\ frames[w][n].task = Current(w)
      /\ frames'[w][n].code = new \o Tail(Code(w)) /\ frames'[w][n].task = Current(w)
      /\ \A v \in Workers :
           /\ Len(frames'[v]) = Len(frames[v])
           /\ \A i \in 1 .. Len(frames[v]) : ~(v = w /\ i = n) => frames'[v][i] = frames[v][i]
  BY FrameMoves
<1>2. /\ frames[w] # << >> /\ Code(w) # << >> /\ Code(w) \in Seq(Instruction) /\ Code(w)[1].op = op
      /\ Current(w) \in Tasks
  BY AtFacts
<1>3. n \in 1 .. Len(frames[w]) BY <1>1
<1> HIDE DEF n
<1>4. Early'
  <2>1. EarlyCode(Code(w)) BY <1>1, <1>3 DEF Nested, Early
  <2>2. EarlyCode(new \o Tail(Code(w))) BY <2>1, <1>2, EarlyKept
  <2>3. ASSUME NEW v \in Workers, NEW i \in 1 .. Len(frames'[v]) PROVE EarlyCode(frames'[v][i].code)
    <3>1. i \in 1 .. Len(frames[v]) BY <1>1
    <3>2. CASE v = w /\ i = n BY <3>2, <2>2, <1>1
    <3>3. CASE ~(v = w /\ i = n) BY <3>1, <3>3, <1>1 DEF Nested, Early
    <3>4. QED BY <3>2, <3>3
  <2>4. QED BY <2>3 DEF Early, EarlyCode
<1>5. ASSUME Clean' PROVE Nest' /\ Canc'
  <2>1. Clean BY <1>5, CleanBecome
  <2>2. Nest /\ Canc /\ Early BY <2>1 DEF Nested
  <2>3. pending' \in [Workers -> Seq(Tasks)] BY DEF IInv, Types
  <2>4. Types BY DEF IInv
  <2>5. Nest' BY <2>1, <2>2, <2>3, <2>4, <1>2, NestBecome
  <2>6. Known \subseteq Known' 
    <3>1. childs \in [Tasks -> SUBSET Tasks] BY <2>4 DEF Types
    <3>2. \A t \in Tasks : childs[t] \subseteq childs'[t] BY <3>1, <1>2
    <3>3. QED BY <3>2 DEF Known
  <2>7. Canc' BY <2>1, <2>2, <2>6, CancBecome
  <2>8. QED BY <2>5, <2>7
<1>6. QED BY <1>4, <1>5 DEF Nested

(* A task that starts has nothing pending and cancels nothing.               *)
LEMMA NestedPush ==
  ASSUME IInv, Nested, NEW w \in Workers, NEW t \in Tasks, Push(w, t), body' = body,
         UNCHANGED <<pending, canceled, childs>>
  PROVE  Nested'
<1> DEFINE n == Len(frames[w])
<1>0. PICK g : g = [task |-> t, code |-> body[t]] OBVIOUS
<1>1. /\ n \in Nat /\ Len(frames'[w]) = n + 1
      /\ frames'[w][n + 1] = g
      /\ \A i \in 1 .. n : frames'[w][i] = frames[w][i]
      /\ \A v \in Workers \ {w} : frames'[v] = frames[v]
  BY <1>0, PushFacts DEF IInv
<1>2. body \in Programs /\ pending \in [Workers -> Seq(Tasks)] BY DEF IInv, Types
<1>3. g.code = body[t] /\ g.task = t BY <1>0
<1>4. /\ EarlyCode(g.code) /\ Excused(g) /\ Excused(g)'
      /\ (\A u : ~Adding(g, u)) /\ (\A u : ~Erases(g.code, u))
  BY <1>2, <1>3, BodyQuiet
<1>5. \A v \in Workers : \A i \in 1 .. Len(frames'[v]) :
        \/ v = w /\ i = n + 1 /\ frames'[v][i] = g
        \/ i \in 1 .. Len(frames[v]) /\ frames'[v][i] = frames[v][i]
  BY <1>1
<1>6. \A v \in Workers : \A i \in 1 .. Len(frames[v]) :
        i \in 1 .. Len(frames'[v]) /\ frames'[v][i] = frames[v][i]
  BY <1>1
<1>7. Early' 
  <2>1. \A v \in Workers : \A i \in 1 .. Len(frames'[v]) : EarlyCode(frames'[v][i].code)
    BY <1>4, <1>5 DEF Nested, Early
  <2>2. QED BY <2>1 DEF Early, EarlyCode
<1>8. ASSUME Clean' PROVE Clean
  <2> SUFFICES ASSUME NEW u \in canceled, NEW x \in Forks(u) \ childs[u]
               PROVE  \E v \in Workers : \E i \in 1 .. Len(frames[v]) :
                        frames[v][i].task = u /\ Adding(frames[v][i], x)
    BY DEF Clean
  <2>1. x \in Forks(u)' \ childs'[u] /\ u \in canceled' BY SameProgram
  <2>2. PICK v \in Workers : \E i \in 1 .. Len(frames'[v]) :
               frames'[v][i].task = u /\ Adding(frames'[v][i], x)
    BY <1>8, <2>1 DEF Clean, Adding
  <2>3. PICK i \in 1 .. Len(frames'[v]) : frames'[v][i].task = u /\ Adding(frames'[v][i], x) BY <2>2
  <2>4. i \in 1 .. Len(frames[v]) /\ frames'[v][i] = frames[v][i] BY <2>3, <1>4, <1>5
  <2>5. QED BY <2>3, <2>4
<1>9. ASSUME Nest PROVE Nest'
  <2>1. ASSUME NEW v \in Workers PROVE Layers(frames'[v], pending[v])
    <3>1. Layers(frames[v], pending[v]) /\ pending[v] \in Seq(Tasks) BY <1>2, <1>9 DEF Nest
    <3>2. CASE v # w BY <3>1, <3>2, <1>1
    <3>3. CASE v = w
      <4>1. Layer(g, pending[w], pending[w])
        <5>1. << >> \in Seq(Tasks) /\ Len(<< >>) = 0 /\ pending[w] = pending[w] \o << >>
          BY <3>1, <3>3, EmptySeq, ConcatEmptySeq
        <5>2. Stacks(g.code, << >>) BY <1>2, <1>3, BodyStacks
        <5>3. Own(<< >>, g.task) BY <5>1 DEF Own
        <5>4. QED BY <5>1, <5>2, <5>3 DEF Layer
      <4>2. Layer(frames'[w][n + 1], pending[w], pending[w]) BY <4>1, <1>1
      <4>3. QED BY <4>2, <3>1, <3>3, <1>1, LayersMore
    <3>4. QED BY <3>2, <3>3
  <2>2. QED BY <2>1, LayersStay DEF Nest
<1>10. ASSUME Canc PROVE Canc'
  <2>1. canceled' \subseteq Known' BY <1>10 DEF Canc, Known
  <2>2. ASSUME NEW u \in canceled' \cap Members(pending)' PROVE Excuse(u)'
    <3>1. u \in canceled \cap Members(pending) BY DEF Members
    <3>2. Excuse(u) BY <3>1, <1>10 DEF Canc
    <3>3. \/ Parent(u) \in canceled
          \/ \E v \in Workers : \E i \in 1 .. Len(frames'[v]) : By(frames'[v][i], u)
      BY <3>2, <1>6 DEF Excuse
    <3>4. Parent(u)' = Parent(u) BY SameProgram
    <3>5. QED BY <3>3, <3>4 DEF Excuse, By, Erases
  <2>3. ASSUME NEW v \in Workers, NEW f \in Frames(v)' PROVE Excused(f)'
    <3>1. PICK i \in 1 .. Len(frames'[v]) : f = frames'[v][i] BY DEF Frames
    <3>2. CASE f = g BY <3>2, <1>4
    <3>3. CASE f # g
      <4>1. f \in Frames(v) BY <3>1, <3>3, <1>5 DEF Frames
      <4>2. Excused(f) BY <4>1, <1>10 DEF Canc
      <4>3. QED BY <4>2, SameProgram DEF Excused
    <3>4. QED BY <3>2, <3>3
  <2>4. QED BY <2>1, <2>2, <2>3 DEF Canc
<1>11. QED BY <1>7, <1>8, <1>9, <1>10 DEF Nested

(* A task that ends has joined all it forked, and has nothing left to erase. *)
LEMMA NestedPop ==
  ASSUME IInv, Nested, NEW w \in Workers, frames[w] # << >>, Code(w) = << >>,
         frames' = [frames EXCEPT ![w] = Front(@)], body' = body,
         UNCHANGED <<pending, canceled, childs>>
  PROVE  Nested'
<1> DEFINE n == Len(frames[w])
<1>1. /\ n \in Nat \ {0} /\ Len(frames'[w]) = n - 1
      /\ \A i \in 1 .. n - 1 : frames'[w][i] = frames[w][i]
      /\ \A v \in Workers \ {w} : frames'[v] = frames[v]
  BY PopFacts DEF IInv
<1>2. pending \in [Workers -> Seq(Tasks)] /\ frames[w] \in Seq(Frame) BY DEF IInv, Types
<1>3. frames[w][n].code = << >> BY FrameFacts DEF IInv
<1>4. \A u : ~Erases(frames[w][n].code, u)
  <2>1. Len(<< >>) = 0 BY EmptySeq
  <2>2. QED BY <2>1, <1>3 DEF Erases
<1>5. \A v \in Workers : \A i \in 1 .. Len(frames'[v]) :
        i \in 1 .. Len(frames[v]) /\ frames'[v][i] = frames[v][i]
  BY <1>1
<1>6. \A v \in Workers : \A i \in 1 .. Len(frames[v]) :
        (v = w /\ i = n) \/ (i \in 1 .. Len(frames'[v]) /\ frames'[v][i] = frames[v][i])
  BY <1>1
<1>7. Early'
  <2>1. \A v \in Workers : \A i \in 1 .. Len(frames'[v]) : EarlyCode(frames'[v][i].code)
    BY <1>5 DEF Nested, Early
  <2>2. QED BY <2>1 DEF Early, EarlyCode
<1>8. ASSUME Clean' PROVE Clean
  <2> SUFFICES ASSUME NEW u \in canceled, NEW x \in Forks(u) \ childs[u]
               PROVE  \E v \in Workers : \E i \in 1 .. Len(frames[v]) :
                        frames[v][i].task = u /\ Adding(frames[v][i], x)
    BY DEF Clean
  <2>1. x \in Forks(u)' \ childs'[u] /\ u \in canceled' BY SameProgram
  <2>2. PICK v \in Workers : \E i \in 1 .. Len(frames'[v]) :
               frames'[v][i].task = u /\ Adding(frames'[v][i], x)
    BY <1>8, <2>1 DEF Clean, Adding
  <2>3. QED BY <2>2, <1>5
<1>9. ASSUME Nest PROVE Nest'
  <2>1. ASSUME NEW v \in Workers PROVE Layers(frames'[v], pending[v])
    <3>1. Layers(frames[v], pending[v]) /\ pending[v] \in Seq(Tasks) BY <1>2, <1>9 DEF Nest
    <3>2. CASE v # w BY <3>1, <3>2, <1>1
    <3>3. CASE v = w
      <4>1. PICK a \in Seq(Tasks) : Layers(frames'[w], a) /\ Layer(frames[w][n], a, pending[w])
        BY <3>1, <3>3, <1>1, <1>2, LayersLess
      <4>2. PICK s \in Seq(Tasks) : pending[w] = a \o s /\ Stacks(frames[w][n].code, s)
        BY <4>1 DEF Layer
      <4>3. s = << >> BY <4>2, <1>3, StacksNone
      <4>4. a = pending[w] BY <4>2, <4>3, ConcatEmptySeq
      <4>5. QED BY <4>1, <4>4, <3>3
    <3>4. QED BY <3>2, <3>3
  <2>2. QED BY <2>1, LayersStay DEF Nest
<1>10. ASSUME Canc PROVE Canc'
  <2>1. canceled' \subseteq Known' BY <1>10 DEF Canc, Known
  <2>2. ASSUME NEW u \in canceled' \cap Members(pending)' PROVE Excuse(u)'
    <3>1. u \in canceled \cap Members(pending) BY DEF Members
    <3>2. Excuse(u) BY <3>1, <1>10 DEF Canc
    <3>3. \/ Parent(u) \in canceled
          \/ \E v \in Workers : \E i \in 1 .. Len(frames'[v]) : By(frames'[v][i], u)
      BY <3>2, <1>4, <1>6 DEF Excuse, By
    <3>4. Parent(u)' = Parent(u) BY SameProgram
    <3>5. QED BY <3>3, <3>4 DEF Excuse, By, Erases
  <2>3. ASSUME NEW v \in Workers, NEW f \in Frames(v)' PROVE Excused(f)'
    <3>1. f \in Frames(v) BY <1>5 DEF Frames
    <3>2. Excused(f) BY <3>1, <1>10 DEF Canc
    <3>3. QED BY <3>2, SameProgram DEF Excused
  <2>4. QED BY <2>1, <2>2, <2>3 DEF Canc
<1>11. QED BY <1>7, <1>8, <1>9, <1>10 DEF Nested

(* Other steps.                                                              *)
LEMMA NestedSame ==
  ASSUME Nested, UNCHANGED <<body, frames, pending, canceled, childs>>
  PROVE  Nested'
<1>1. Early' <=> Early BY DEF Early, EarlyCode
<1>2. Clean' <=> Clean BY DEF Clean, Adding, Forks
<1>3. Nest' <=> Nest BY LayersStay DEF Nest
<1>4. Canc' <=> Canc
  <2>1. Known' = Known /\ Members(pending)' = Members(pending) BY DEF Known, Members
  <2>2. ASSUME NEW u PROVE Excuse(u)' <=> Excuse(u)
    <3>1. Parent(u)' = Parent(u) BY SameProgram
    <3>2. QED BY <3>1 DEF Excuse, By, Erases
  <2>3. \A f : Excused(f)' <=> Excused(f) BY SameProgram DEF Excused
  <2>4. \A v \in Workers : Frames(v)' = Frames(v) BY DEF Frames
  <2>5. QED BY <2>1, <2>2, <2>3, <2>4 DEF Canc
<1>5. QED BY <1>1, <1>2, <1>3, <1>4 DEF Nested

(* And at first there is nothing.                                            *)
LEMMA NestedInit == Init => Nested
<1> SUFFICES ASSUME Init PROVE Nested OBVIOUS
<1>1. \A w \in Workers : frames[w] = << >> /\ pending[w] = << >> BY DEF Init
<1>2. Len(<< >>) = 0 BY EmptySeq
<1>3. Early BY <1>1, <1>2 DEF Early
<1>4. Nest BY <1>1, LayersNone DEF Nest
<1>5. Canc BY <1>1, <1>2 DEF Init, Canc, Frames
<1>6. QED BY <1>3, <1>4, <1>5 DEF Nested

-----------------------------------------------------------------------------
(* The end of a sequence of tasks.                                           *)
LEMMA EndsWith ==
  ASSUME NEW a \in Seq(Tasks), NEW t \in Tasks
  PROVE  /\ a \o <<t>> \in Seq(Tasks) /\ Len(a \o <<t>>) = Len(a) + 1 /\ Len(a) \in Nat
         /\ \A i \in 1 .. Len(a) : (a \o <<t>>)[i] = a[i]
         /\ (a \o <<t>>)[Len(a) + 1] = t
         /\ a \o <<t>> # << >> /\ Last(a \o <<t>>) = t /\ Front(a \o <<t>>) = a
<1> DEFINE b == a \o <<t>>
<1>1. b = Append(a, t) BY AppendIsConcat
<1> HIDE DEF b
<1>2. /\ b \in Seq(Tasks) /\ Len(b) = Len(a) + 1 /\ Len(a) \in Nat
      /\ b[Len(a) + 1] = t /\ \A i \in 1 .. Len(a) : b[i] = a[i]
  BY <1>1, AppendProperties, LenProperties
<1>3. b # << >> BY <1>2, EmptySeq
<1>4. /\ Last(b) = b[Len(b)] /\ Front(b) \in Seq(Tasks) /\ Len(Front(b)) = Len(b) - 1
      /\ \A i \in 1 .. Len(b) - 1 : Front(b)[i] = b[i]
  BY <1>2, <1>3, FrontAndLast
<1>5. Len(b) - 1 = Len(a) BY <1>2
<1>6. Front(b) = a BY <1>2, <1>4, <1>5, SeqEqual
<1>7. QED BY <1>2, <1>3, <1>4, <1>6 DEF b

(* Removing from the second of two sequences.                                *)
LEMMA RemovingFromEnd ==
  ASSUME NEW a \in Seq(Tasks), NEW s \in Seq(Tasks), NEW k \in 1 .. Len(s)
  PROVE  /\ RemoveAt(a \o s, Len(a) + k) = a \o RemoveAt(s, k)
         /\ RemoveAt(s, k) \in Seq(Tasks) /\ (a \o s)[Len(a) + k] = s[k]
         /\ \A p : Own(s, p) => Own(RemoveAt(s, k), p) /\ s[k] \in Forks(p)
<1> DEFINE b == a \o s
           l == Len(a) + k
           y == RemoveAt(b, l)
           r == RemoveAt(s, k)
           z == a \o r
<1>1. Len(a) \in Nat /\ Len(s) \in Nat /\ k \in Nat BY LenProperties
<1>2. /\ r \in Seq(Tasks) /\ Len(r) = Len(s) - 1
      /\ \A i \in 1 .. Len(s) - 1 : r[i] = IF i < k THEN s[i] ELSE s[i + 1]
  BY Removing
<1>3. /\ b \in Seq(Tasks) /\ Len(b) = Len(a) + Len(s)
      /\ \A i \in 1 .. Len(a) + Len(s) : b[i] = IF i <= Len(a) THEN a[i] ELSE s[i - Len(a)]
  BY ConcatProperties
<1> HIDE DEF r, b
<1>4. /\ z \in Seq(Tasks) /\ Len(z) = Len(a) + Len(r)
      /\ \A i \in 1 .. Len(a) + Len(r) : z[i] = IF i <= Len(a) THEN a[i] ELSE r[i - Len(a)]
  BY <1>2, ConcatProperties
<1>5. l \in 1 .. Len(b) BY <1>1, <1>3
<1> HIDE DEF l
<1>6. /\ y \in Seq(Tasks) /\ Len(y) = Len(b) - 1
      /\ \A i \in 1 .. Len(b) - 1 : y[i] = IF i < l THEN b[i] ELSE b[i + 1]
  BY <1>3, <1>5, Removing
<1> HIDE DEF y, z
<1>7. ASSUME NEW i \in 1 .. Len(y) PROVE y[i] = z[i]
  <2>1. /\ i \in 1 .. Len(b) - 1 /\ i \in 1 .. Len(a) + Len(s) /\ i + 1 \in 1 .. Len(a) + Len(s)
        /\ i \in 1 .. Len(a) + Len(r) /\ l = Len(a) + k
    BY <1>1, <1>2, <1>3, <1>6 DEF l
  <2>2. y[i] = (IF i < l THEN b[i] ELSE b[i + 1]) BY <2>1, <1>6
  <2>3. CASE i <= Len(a)
    <3>1. i < l /\ y[i] = b[i] BY <2>1, <2>2, <2>3, <1>1
    <3>2. b[i] = a[i] /\ z[i] = a[i] BY <2>1, <2>3, <1>3, <1>4
    <3>3. QED BY <3>1, <3>2
  <2>4. CASE ~(i <= Len(a))
    <3> DEFINE j == i - Len(a)
    <3>1. j \in 1 .. Len(s) - 1 /\ (i < l <=> j < k) /\ i + 1 - Len(a) = j + 1 /\ ~(i + 1 <= Len(a))
      BY <2>1, <2>4, <1>1, <1>3
    <3>2. b[i] = s[j] BY <2>1, <2>4, <1>3
    <3>3. b[i + 1] = s[i + 1 - Len(a)] BY <2>1, <3>1, <1>3
    <3>4. z[i] = r[j] BY <2>1, <2>4, <1>4
    <3> HIDE DEF j
    <3>5. r[j] = IF j < k THEN s[j] ELSE s[j + 1] BY <3>1, <1>2
    <3>6. QED BY <2>2, <3>1, <3>2, <3>3, <3>4, <3>5
  <2>5. QED BY <2>3, <2>4
<1>8. Len(y) = Len(z) BY <1>1, <1>2, <1>3, <1>4, <1>6
<1>9. y = z BY <1>4, <1>6, <1>7, <1>8, SeqEqual
<1>10. b[l] = s[k]
  <2>1. l \in 1 .. Len(a) + Len(s) /\ ~(l <= Len(a)) /\ l - Len(a) = k BY <1>1 DEF l
  <2>2. b[l] = s[l - Len(a)] BY <2>1, <1>3
  <2>3. QED BY <2>1, <2>2
<1>11. ASSUME NEW p, Own(s, p) PROVE Own(r, p) /\ s[k] \in Forks(p)
  <2>1. ASSUME NEW i \in 1 .. Len(r) PROVE r[i] \in Forks(p)
    <3>1. i \in 1 .. Len(s) - 1 /\ i \in 1 .. Len(s) /\ i + 1 \in 1 .. Len(s) BY <1>1, <1>2
    <3>2. r[i] = s[i] \/ r[i] = s[i + 1] BY <3>1, <1>2
    <3>3. QED BY <3>1, <3>2, <1>11 DEF Own
  <2>2. QED BY <2>1, <1>11 DEF Own
<1>12. QED BY <1>2, <1>9, <1>10, <1>11 DEF y, z, r, b, l

(* Removing the last and the one before it.                                  *)
LEMMA RemovingLast ==
  ASSUME NEW a \in Seq(Tasks), NEW t \in Tasks
  PROVE  RemoveAt(a \o <<t>>, Len(a) + 1) = a
<1> DEFINE z == <<t>>
<1>1. z \in Seq(Tasks) /\ Len(z) = 1 OBVIOUS
<1> HIDE DEF z
<1>2. 1 \in 1 .. Len(z) BY <1>1
<1>3. RemoveAt(a \o z, Len(a) + 1) = a \o RemoveAt(z, 1) BY <1>1, <1>2, RemovingFromEnd
<1>4. RemoveAt(z, 1) \in Seq(Tasks) /\ Len(RemoveAt(z, 1)) = 0
  <2>1. RemoveAt(z, 1) \in Seq(Tasks) /\ Len(RemoveAt(z, 1)) = Len(z) - 1 BY <1>1, <1>2, Removing
  <2>2. QED BY <2>1, <1>1
<1>5. RemoveAt(z, 1) = << >> BY <1>4, EmptySeq
<1>6. QED BY <1>3, <1>5, ConcatEmptySeq DEF z
LEMMA RemovingLastButOne ==
  ASSUME NEW a \in Seq(Tasks), NEW t \in Tasks, NEW u \in Tasks
  PROVE  RemoveAt((a \o <<t>>) \o <<u>>, Len(a) + 1) = a \o <<u>>
<1> DEFINE y == <<t>> \o <<u>>
           x == <<u>>
<1>1. x \in Seq(Tasks) /\ Len(x) = 1 /\ x[1] = u OBVIOUS
<1>2. y \in Seq(Tasks) /\ Len(y) = 2 /\ y[2] = u OBVIOUS
<1>3. (a \o <<t>>) \o <<u>> = a \o y BY ConcatAssociative
<1> HIDE DEF y, x
<1>4. 1 \in 1 .. Len(y) BY <1>2
<1>5. RemoveAt(a \o y, Len(a) + 1) = a \o RemoveAt(y, 1) BY <1>2, <1>4, RemovingFromEnd
<1>6. /\ RemoveAt(y, 1) \in Seq(Tasks) /\ Len(RemoveAt(y, 1)) = 1
      /\ RemoveAt(y, 1)[1] = u
  <2>1. /\ RemoveAt(y, 1) \in Seq(Tasks) /\ Len(RemoveAt(y, 1)) = Len(y) - 1
        /\ \A i \in 1 .. Len(y) - 1 : RemoveAt(y, 1)[i] = IF i < 1 THEN y[i] ELSE y[i + 1]
    BY <1>2, <1>4, Removing
  <2>2. 1 \in 1 .. Len(y) - 1 /\ ~(1 < 1) /\ 1 + 1 = 2 /\ Len(y) - 1 = 1 BY <1>2
  <2>3. QED BY <2>1, <2>2, <1>2
<1>7. \A i \in 1 .. 1 : i = 1 OBVIOUS
<1>8. RemoveAt(y, 1) = x BY <1>1, <1>6, <1>7, SeqEqual
<1>9. QED BY <1>3, <1>5, <1>8 DEF x

(* The tasks of the running frame are on top.                                *)
LEMMA TopLayer ==
  ASSUME IInv, Nest, NEW w \in Workers, NEW op, At(w, op)
  PROVE  \E a, s, r \in Seq(Tasks) :
           /\ pending[w] = a \o s /\ Own(s, Current(w))
           /\ Effect(Code(w)[1], s, r) /\ Stacks(Tail(Code(w)), r)
<1>1. frames[w] # << >> /\ Code(w) # << >> /\ Code(w) \in Seq(Instruction) /\ Types
  BY AtFacts DEF IInv
<1>2. /\ Len(frames[w]) \in Nat \ {0} /\ frames[w] \in Seq(Frame)
      /\ frames[w][Len(frames[w])].code = Code(w) /\ frames[w][Len(frames[w])].task = Current(w)
  BY <1>1, FrameFacts
<1>3. Layers(frames[w], pending[w]) BY DEF Nest
<1> DEFINE z == Front(frames[w])
<1>4. Len(z) = Len(frames[w]) - 1 /\ \A i \in 1 .. Len(frames[w]) - 1 : z[i] = frames[w][i]
  BY <1>1, <1>2, FrontAndLast
<1> HIDE DEF z
<1>5. PICK a \in Seq(Tasks) : Layer(frames[w][Len(frames[w])], a, pending[w])
  BY <1>1, <1>2, <1>3, <1>4, LayersLess
<1>6. PICK s \in Seq(Tasks) : pending[w] = a \o s /\ Stacks(Code(w), s) /\ Own(s, Current(w))
  BY <1>2, <1>5 DEF Layer
<1>7. PICK r \in Seq(Tasks) : Stacks(Tail(Code(w)), r) /\ Effect(Code(w)[1], s, r)
  BY <1>1, <1>6, StacksTail
<1>8. QED BY <1>6, <1>7

(* When pendingTasks does not change, what is to be joined is the same.      *)
LEMMA CarriesSame ==
  ASSUME NEW x, NEW c, NEW d, NEW p, NEW ps,
         \A s, r \in Seq(Tasks) : Effect(x, s, r) /\ Stacks(c, r) => Stacks(d, s)
  PROVE  Carries(x, c, d, p, ps, ps)
BY DEF Carries

(* When an instruction is done.                                              *)
LEMMA StacksDone ==
  ASSUME NEW c \in Seq(Instruction), c # << >>, NEW r \in Seq(Tasks), Stacks(Tail(c), r)
  PROVE  Stacks(<< >> \o Tail(c), r)
<1>1. Tail(c) \in Seq(Instruction) BY HeadTailProperties
<1>2. << >> \o Tail(c) = Tail(c) BY <1>1, ConcatEmptySeq
<1>3. QED BY <1>2

(* At most one new instruction is in order.                                  *)
LEMMA EarlyShort ==
  ASSUME NEW new, Len(new) \in {0, 1}
  PROVE  EarlyCode(new)
<1>1. \A i \in 1 .. 0 : FALSE OBVIOUS
<1>2. \A i, j \in 1 .. 1 : ~(i < j) OBVIOUS
<1>3. QED BY <1>1, <1>2 DEF EarlyCode

-----------------------------------------------------------------------------
(* A step that changes neither pendingTasks nor who is canceled.             *)
LEMMA NestedQuiet ==
  ASSUME IInv, IInv', Nested, NEW w \in Workers, NEW op, At(w, op), op # "erase",
         NEW new \in Seq(Instruction), Become(w, new), body' = body,
         UNCHANGED <<pending, canceled, childs>>,
         \/ op \in Walk /\ \A i \in 1 .. Len(new) : new[i].op \in Walk
         \/ op \notin Walk /\ EarlyCode(new),
         \A i \in 1 .. Len(new) : new[i].op = "add" => Current(w) \notin canceled,
         Clean /\ Nest /\ Canc =>
           /\ Carries(Code(w)[1], Tail(Code(w)), new \o Tail(Code(w)), Current(w), pending[w],
                      pending[w])
           /\ \A i \in 1 .. Len(new) : new[i].op \in {"visit", "mark"} =>
                \/ Parent(new[i].task) \in canceled
                \/ Current(w) = Parent(new[i].task) /\ Erases(new \o Tail(Code(w)), new[i].task)
  PROVE  Nested'
<1>1. Members(pending)' = Members(pending) BY DEF Members
<1>2. Clean /\ Nest /\ Canc =>
        /\ Carries(Code(w)[1], Tail(Code(w)), new \o Tail(Code(w)), Current(w), pending[w],
                   pending'[w])
        /\ \A t \in canceled' \cap Members(pending)' : t \in Members(pending)
        /\ op = "erase" => Target(w) \notin Members(pending)'
        /\ \A i \in 1 .. Len(new) : new[i].op \in {"visit", "mark"} =>
             \/ Parent(new[i].task) \in canceled'
             \/ Current(w) = Parent(new[i].task) /\ Erases(new \o Tail(Code(w)), new[i].task)
  BY <1>1
<1>3. /\ canceled \subseteq canceled' /\ childs' = childs
      /\ \A t \in canceled' \ canceled : op = "mark" /\ t = Target(w)
      /\ \A v \in Workers \ {w} : pending'[v] = pending[v]
  OBVIOUS
<1>4. QED BY <1>2, <1>3, NestedBecome

(* Fork and its test: a canceled task that skips a fork is not clean.        *)
LEMMA NestedFork ==
  ASSUME IInv, IInv', Nested, NEW w \in Workers, body' = body, ForkTask(w) \/ SpeculateTask(w)
  PROVE  Nested'
<1> DEFINE c == Code(w)
           t == Target(w)
           p == Current(w)
           x == Add(t)
<1>1. PICK op \in {"fork", "speculate"} : At(w, op) BY DEF ForkTask, SpeculateTask
<1>2. /\ c # << >> /\ c \in Seq(Instruction) /\ c[1] \in Instruction /\ c[1].op = op
      /\ t = c[1].task /\ p \in Tasks /\ Len(c) \in Nat \ {0}
      /\ ForksLeft(c, Forks(p) \ childs[p]) /\ frames[w] # << >>
  BY <1>1, AtFacts
<1>3. IF p \in canceled THEN Become(w, << >>) ELSE Become(w, <<x>>)
  BY DEF ForkTask, SpeculateTask
<1>4. UNCHANGED <<pending, canceled, childs>> BY DEF ForkTask, SpeculateTask
<1>5. t \in Tasks /\ ForksAs(c[1], t) BY <1>2, InstructionFacts
<1>6. op \notin Walk /\ op # "erase" BY DEF Walk
<1>7. CASE p \in canceled
  <2>1. ~Clean
    <3> SUFFICES ASSUME Clean PROVE FALSE OBVIOUS
    <3> DEFINE n == Len(frames[w])
    <3>1. 1 \in 1 .. Len(c) BY <1>2
    <3>2. t \in Forks(p) \ childs[p] BY <1>2, <1>5, <3>1 DEF ForksLeft
    <3>3. PICK v \in Workers : \E i \in 1 .. Len(frames[v]) :
                 frames[v][i].task = p /\ Adding(frames[v][i], t)
      BY <1>7, <3>2 DEF Clean
    <3>4. PICK i \in 1 .. Len(frames[v]) : frames[v][i].task = p /\ Adding(frames[v][i], t)
      BY <3>3
    <3>5. n \in 1 .. Len(frames[w]) /\ frames[w][n].code = c /\ frames[w][n].task = p
      BY <1>2, FrameFacts DEF IInv
    <3>6. /\ Once(Stack)
          /\ \A u \in Workers : Len(Stack[u]) = Len(frames[u])
          /\ \A u \in Workers : \A j \in 1 .. Len(frames[u]) : Stack[u][j] = frames[u][j].task
      BY StackFacts DEF IInv, OnePlace
    <3> HIDE DEF n, c, p, t
    <3>7. Stack[v][i] = Stack[w][n] /\ i \in 1 .. Len(Stack[v]) /\ n \in 1 .. Len(Stack[w])
      BY <3>4, <3>5, <3>6
    <3>8. v = w /\ i = n BY <3>6, <3>7 DEF Once
    <3>9. c[1].op = "add" BY <3>4, <3>5, <3>8 DEF Adding
    <3>10. QED BY <3>9, <1>2
  <2>2. << >> \in Seq(Instruction) /\ EarlyCode(<< >>) /\ \A i \in 1 .. Len(<< >>) : FALSE
    BY NothingNew, EarlyShort
  <2>3. Become(w, << >>) BY <1>3, <1>7
  <2>4. QED BY <1>1, <1>4, <1>6, <2>1, <2>2, <2>3, NestedQuiet
<1>8. CASE p \notin canceled
  <2> DEFINE new == <<x>>
  <2>1. Become(w, new) BY <1>3, <1>8
  <2>2. x \in Instruction /\ x.op = "add" /\ x.task = t
    BY <1>5 DEF Instruction, Expansions, Add
  <2> HIDE DEF x
  <2>3. new \in Seq(Instruction) /\ Len(new) = 1 /\ new[1] = x BY <2>2, NothingNew
  <2>4. Tail(c) \in Seq(Instruction) BY <1>2, HeadTailProperties
  <2>5. \A s, r \in Seq(Tasks) : Effect(c[1], s, r) /\ Stacks(Tail(c), r) => Stacks(new \o Tail(c), s)
    <3> SUFFICES ASSUME NEW s \in Seq(Tasks), NEW r \in Seq(Tasks), Effect(c[1], s, r),
                        Stacks(Tail(c), r)
                 PROVE  Stacks(new \o Tail(c), s)
      OBVIOUS
    <3>1. Adds(x) = Adds(c[1]) /\ Takes(x) = Takes(c[1]) BY <1>2, <2>2 DEF Adds, Takes, Closed
    <3>2. Effect(x, s, r) BY <3>1, <1>2, <2>2 DEF Effect
    <3>3. QED BY <3>2, <2>2, <2>4, StacksOne
  <2> HIDE DEF new, c
  <2>6. Carries(c[1], Tail(c), new \o Tail(c), Current(w), pending[w], pending[w])
    BY <2>5, CarriesSame
  <2>7. \A i \in 1 .. Len(new) : new[i].op = "add" BY <2>2, <2>3
  <2>8. EarlyCode(new) BY <2>3, EarlyShort
  <2>9. QED BY <1>1, <1>4, <1>6, <1>8, <2>1, <2>3, <2>6, <2>7, <2>8, NestedQuiet DEF c
<1>9. QED BY <1>7, <1>8

(* The forked task is the running one's last.                                *)
LEMMA NestedAdd ==
  ASSUME IInv, IInv', Nested, NEW w \in Workers, body' = body, AddForkJob(w)
  PROVE  Nested'
<1> DEFINE c == Code(w)
           t == Target(w)
           p == Current(w)
           d == << >> \o Tail(c)
<1>1. At(w, "add") BY DEF AddForkJob
<1>2. /\ c # << >> /\ c \in Seq(Instruction) /\ c[1] \in Instruction /\ c[1].op = "add"
      /\ t = c[1].task
  BY <1>1, AtFacts
<1>3. /\ childs' = [childs EXCEPT ![p] = @ \cup {t}]
      /\ pending' = [pending EXCEPT ![w] = Append(@, t)]
      /\ Become(w, << >>) /\ canceled' = canceled
  BY DEF AddForkJob, flags
<1>4. t \in Tasks /\ t \in Forks(p) /\ t \notin Known BY <1>1, NewTask
<1>5. pending \in [Workers -> Seq(Tasks)] BY DEF IInv, Types
<1>6. pending[w] \in Seq(Tasks) /\ pending'[w] = pending[w] \o <<t>>
      /\ \A v \in Workers \ {w} : pending'[v] = pending[v]
  BY <1>3, <1>4, <1>5, AppendIsConcat
<1>7. << >> \in Seq(Instruction) /\ EarlyCode(<< >>) /\ \A i \in 1 .. Len(<< >>) : FALSE
  BY NothingNew, EarlyShort
<1>8. Carries(c[1], Tail(c), d, p, pending[w], pending'[w])
  <2> SUFFICES ASSUME NEW a \in Seq(Tasks), NEW s \in Seq(Tasks), NEW r \in Seq(Tasks),
                      pending[w] = a \o s, Own(s, p), Effect(c[1], s, r), Stacks(Tail(c), r)
               PROVE  \E q \in Seq(Tasks) : /\ pending'[w] = a \o q /\ Own(q, p)
                                            /\ Stacks(d, q)
    BY DEF Carries
  <2>1. Stacks(d, r) BY <1>2, StacksDone
  <2>2. Adds(c[1]) = <<t>> /\ Takes(c[1]) = << >> BY <1>2 DEF Adds, Takes, Closed
  <2>3. s \o <<t>> = r \o << >> BY <2>2, <1>2 DEF Effect
  <2>4. r = s \o <<t>> BY <2>3, ConcatEmptySeq
  <2>5. <<t>> \in Seq(Tasks) BY <1>4
  <2>6. pending'[w] = a \o r BY <2>4, <2>5, <1>6, ConcatAssociative
  <2>7. Own(r, p)
    <3>1. /\ Len(r) = Len(s) + 1 /\ Len(s) \in Nat /\ r[Len(s) + 1] = t
          /\ \A i \in 1 .. Len(s) : r[i] = s[i]
      BY <2>4, <1>4, EndsWith
    <3>2. \A i \in 1 .. Len(r) : i \in 1 .. Len(s) \/ i = Len(s) + 1 BY <3>1
    <3>3. QED BY <3>1, <3>2, <1>4 DEF Own
  <2>8. QED BY <2>1, <2>6, <2>7
<1>9. Canc => \A u \in canceled' \cap Members(pending)' : u \in Members(pending)
  <2>1. Members(pending)' = Members(pending) \cup {t}
    <3>1. With(pending, pending', w, t) BY <1>3 DEF With
    <3>2. Members(pending') = Members(pending) \cup {t} BY <3>1, <1>4, <1>5, Appended
    <3>3. QED BY <3>2 DEF Members
  <2>2. QED BY <2>1, <1>3, <1>4 DEF Canc
<1>10. "add" \notin Walk /\ "add" # "erase" BY DEF Walk
<1> HIDE DEF c, d
<1>11. QED BY <1>1, <1>3, <1>6, <1>7, <1>8, <1>9, <1>10, NestedBecome DEF c, d

(* join waits for the last of pendingTasks, which is the one it is meant for.*)
LEMMA NestedBeginJoin ==
  ASSUME IInv, IInv', Nested, NEW w \in Workers, body' = body, BeginJoin(w)
  PROVE  Nested'
<1> DEFINE c == Code(w)
           m == c[1].meant
           t == Last(pending[w])
<1>1. At(w, "join") BY DEF BeginJoin
<1>2. /\ c # << >> /\ c \in Seq(Instruction) /\ c[1] \in Instruction /\ c[1].op = "join"
      /\ Head(c) = c[1] /\ Tail(c) \in Seq(Instruction)
  BY <1>1, AtFacts, HeadTailProperties
<1>3. m \in Tasks BY <1>2, InstructionFacts
<1>4. UNCHANGED <<pending, canceled, childs>> BY DEF BeginJoin
<1>5. pending[w] \in Seq(Tasks) BY DEF IInv, Types
<1>6. "join" \notin Walk /\ "join" # "erase" BY DEF Walk
<1>7. ASSUME NEW a \in Seq(Tasks), NEW s \in Seq(Tasks), NEW r \in Seq(Tasks),
             pending[w] = a \o s, Effect(c[1], s, r)
      PROVE  pending[w] # << >> /\ t = m /\ s = r \o <<m>>
  <2>1. Adds(c[1]) = << >> /\ Takes(c[1]) = <<m>> BY <1>2 DEF Adds, Takes, Closed
  <2>2. s \o << >> = r \o <<m>> BY <2>1, <1>2, <1>7 DEF Effect
  <2>3. s = r \o <<m>> BY <2>2, ConcatEmptySeq
  <2>4. <<m>> \in Seq(Tasks) BY <1>3
  <2>5. pending[w] = (a \o r) \o <<m>> /\ a \o r \in Seq(Tasks)
    BY <2>3, <2>4, <1>7, ConcatAssociative, ConcatProperties
  <2> DEFINE e == a \o r
  <2> HIDE DEF m, e
  <2>6. e \in Seq(Tasks) /\ pending[w] = e \o <<m>> BY <2>5 DEF e
  <2>7. e \o <<m>> # << >> /\ Last(e \o <<m>>) = m BY <2>6, <1>3, EndsWith
  <2>8. QED BY <2>3, <2>6, <2>7
<1>8. CASE pending[w] = << >>
  <2>1. Become(w, << >>) BY <1>8 DEF BeginJoin
  <2>2. << >> \in Seq(Instruction) /\ EarlyCode(<< >>) /\ \A i \in 1 .. Len(<< >>) : FALSE
    BY NothingNew, EarlyShort
  <2>3. Carries(c[1], Tail(c), << >> \o Tail(c), Current(w), pending[w], pending[w])
    BY <1>7, <1>8 DEF Carries
  <2> HIDE DEF c
  <2>4. QED BY <1>1, <1>4, <1>6, <2>1, <2>2, <2>3, NestedQuiet DEF c
<1>9. CASE pending[w] # << >>
  <2> DEFINE x == Await(t, m)
             new == <<x>>
  <2>1. t \in Tasks BY <1>5, <1>9, FrontAndLast
  <2>2. Become(w, new) BY <1>2, <1>9 DEF BeginJoin
  <2> HIDE DEF m, t
  <2>3. x \in Instruction /\ x.op = "await" /\ x.task = t /\ x.meant = m
    BY <2>1, <1>3 DEF Instruction, Expansions, Await
  <2> HIDE DEF x
  <2>4. new \in Seq(Instruction) /\ Len(new) = 1 /\ new[1] = x BY <2>3, NothingNew
  <2>5. Carries(c[1], Tail(c), new \o Tail(c), Current(w), pending[w], pending[w])
    <3> SUFFICES ASSUME NEW a \in Seq(Tasks), NEW s \in Seq(Tasks), NEW r \in Seq(Tasks),
                        pending[w] = a \o s, Own(s, Current(w)), Effect(c[1], s, r),
                        Stacks(Tail(c), r)
                 PROVE  Stacks(new \o Tail(c), s)
      BY DEF Carries
    <3>1. t = m /\ s = r \o <<m>> BY <1>7, ZenonT(30)
    <3>2. Adds(x) = << >> /\ Takes(x) = <<m>> BY <2>3, <3>1 DEF Adds, Takes
    <3>3. s \o << >> = s BY ConcatEmptySeq
    <3>4. Effect(x, s, r) BY <2>3, <3>1, <3>2, <3>3 DEF Effect
    <3>5. QED BY <3>4, <2>3, <1>2, StacksOne
  <2> HIDE DEF new, c
  <2>6. EarlyCode(new) /\ \A i \in 1 .. Len(new) : new[i].op = "await"
    BY <2>3, <2>4, EarlyShort
  <2>7. QED BY <1>1, <1>4, <1>6, <2>2, <2>4, <2>5, <2>6, NestedQuiet DEF c
<1>10. QED BY <1>8, <1>9

(* And pops it.                                                              *)
LEMMA NestedEndJoin ==
  ASSUME IInv, IInv', Nested, NEW w \in Workers, body' = body, EndJoin(w)
  PROVE  Nested'
<1> DEFINE c == Code(w)
           t == Target(w)
           d == << >> \o Tail(c)
<1>1. At(w, "await") /\ pending[w] # << >> BY DEF EndJoin
<1>2. /\ c # << >> /\ c \in Seq(Instruction) /\ c[1] \in Instruction /\ c[1].op = "await"
      /\ t = c[1].task
  BY <1>1, AtFacts
<1>3. t \in Tasks BY <1>2, InstructionFacts
<1>4. /\ pending' = [pending EXCEPT ![w] = Front(@)] /\ Become(w, << >>)
      /\ canceled' = canceled /\ childs' = childs
  BY DEF EndJoin, flags
<1>5. pending \in [Workers -> Seq(Tasks)] BY DEF IInv, Types
<1>6. pending'[w] = Front(pending[w]) /\ \A v \in Workers \ {w} : pending'[v] = pending[v]
  BY <1>4, <1>5
<1>7. Carries(c[1], Tail(c), d, Current(w), pending[w], pending'[w])
  <2> SUFFICES ASSUME NEW a \in Seq(Tasks), NEW s \in Seq(Tasks), NEW r \in Seq(Tasks),
                      pending[w] = a \o s, Own(s, Current(w)), Effect(c[1], s, r),
                      Stacks(Tail(c), r)
               PROVE  pending'[w] = a \o r /\ Own(r, Current(w)) /\ Stacks(d, r)
    BY DEF Carries
  <2>1. Adds(c[1]) = << >> /\ Takes(c[1]) = <<t>> BY <1>2 DEF Adds, Takes
  <2>2. s \o << >> = r \o <<t>> BY <2>1, <1>2 DEF Effect
  <2>3. s = r \o <<t>> BY <2>2, ConcatEmptySeq
  <2>4. <<t>> \in Seq(Tasks) BY <1>3
  <2>5. pending[w] = (a \o r) \o <<t>> /\ a \o r \in Seq(Tasks)
    BY <2>3, <2>4, ConcatAssociative, ConcatProperties
  <2> HIDE DEF t
  <2>6. Front(pending[w]) = a \o r BY <2>5, <1>3, EndsWith
  <2>7. Own(r, Current(w))
    <3>1. Len(s) = Len(r) + 1 /\ Len(r) \in Nat /\ \A i \in 1 .. Len(r) : s[i] = r[i]
      BY <2>3, <1>3, EndsWith
    <3>2. \A i \in 1 .. Len(r) : i \in 1 .. Len(s) BY <3>1
    <3>3. QED BY <3>1, <3>2 DEF Own
  <2>8. QED BY <2>6, <2>7, <1>2, <1>6, StacksDone
<1>8. Members(pending)' \subseteq Members(pending)
  <2>1. Without(pending, pending', w, Len(pending[w])) BY <1>1, <1>4, <1>5, WithoutLast
  <2>2. Members(pending') \subseteq Members(pending) BY <2>1, <1>5, MembersWithout
  <2>3. QED BY <2>2 DEF Members
<1>9. << >> \in Seq(Instruction) /\ EarlyCode(<< >>) /\ \A i \in 1 .. Len(<< >>) : FALSE
  BY NothingNew, EarlyShort
<1>10. "await" \notin Walk /\ "await" # "erase" BY DEF Walk
<1> HIDE DEF c, d
<1>11. QED BY <1>1, <1>4, <1>6, <1>7, <1>8, <1>9, <1>10, NestedBecome DEF c, d

(* CondChoose: the branch to cancel is where its position says, and the one  *)
(* to join is the last without it.                                           *)
LEMMA NestedChoose ==
  ASSUME IInv, IInv', Nested, NEW w \in Workers, body' = body, NEW cond \in BOOLEAN,
         ChooseBranch(w, cond)
  PROVE  Nested'
<1> DEFINE z == Code(w)
           c == z[1]
           needed == IF cond THEN c.then ELSE c.else
           unneeded == IF cond THEN c.else ELSE c.then
           n == CancelPosition(c, cond)
           x == CancelAt(n)
           y == Join(needed)
           new == (IF unneeded # NoTask THEN <<x>> ELSE << >>)
                  \o (IF needed # NoTask THEN <<y>> ELSE << >>)
<1>1. At(w, "choose") BY DEF ChooseBranch
<1>2. /\ z # << >> /\ z \in Seq(Instruction) /\ c \in Instruction /\ c.op = "choose" /\ Head(z) = c
      /\ Tail(z) \in Seq(Instruction)
  BY <1>1, AtFacts, HeadTailProperties
<1>3. Become(w, new) /\ UNCHANGED <<pending, canceled, childs>> BY <1>2 DEF ChooseBranch, flags
<1>4. c.then \in Tasks \cup {NoTask} /\ c.else \in Tasks \cup {NoTask} BY <1>2, InstructionFacts
<1>a. needed \in Tasks \cup {NoTask} /\ unneeded \in Tasks \cup {NoTask} BY <1>4
<1>5. /\ n = 1 \/ (n = 2 /\ needed # NoTask)
      /\ unneeded # NoTask /\ needed # NoTask =>
           \/ n = 1 /\ c.then = needed /\ c.else = unneeded
           \/ n = 2 /\ c.then = unneeded /\ c.else = needed
      /\ unneeded = NoTask \/ needed = NoTask =>
           \/ c.then = needed /\ c.else = unneeded
           \/ c.then = unneeded /\ c.else = needed
  <2>1. CASE cond
    <3>1. needed = c.then /\ unneeded = c.else /\ n = 1 BY <2>1 DEF CancelPosition
    <3> HIDE DEF needed, unneeded, n
    <3>2. QED BY <3>1
  <2>2. CASE ~cond
    <3>1. needed = c.else /\ unneeded = c.then /\ (c.else # NoTask => n = 2) /\ (c.else = NoTask => n = 1)
      BY <2>2 DEF CancelPosition
    <3> HIDE DEF needed, unneeded, n
    <3>2. QED BY <3>1
  <2>3. QED BY <2>1, <2>2
<1>b. NoTask \notin Tasks BY SchedulerAssumption
<1>6. Adds(c) = << >> /\ Takes(c) = Unless(c.then) \o Unless(c.else)
  BY <1>2 DEF Adds, Takes, Closed
<1> HIDE DEF needed, unneeded, n
<1>7. x \in Instruction /\ x.op = "cancelAt" /\ x.pos = n
  BY <1>5 DEF Instruction, Expansions, CancelAt
<1>8. needed # NoTask => y \in Instruction BY <1>a DEF Instruction, Instructions
<1>9. y.op = "join" /\ y.meant = needed BY DEF Join
<1>10. Adds(y) = << >> /\ Takes(y) = <<needed>> BY <1>9 DEF Adds, Takes, Closed
<1> HIDE DEF x, y, c
<1> DEFINE Kept == \A s, r \in Seq(Tasks) : Effect(c, s, r) /\ Stacks(Tail(z), r) =>
                     Stacks(new \o Tail(z), s)
           Fits == new \in Seq(Instruction) /\ \A i \in 1 .. Len(new) : new[i].op \in {"cancelAt", "join"}
<1>11. << >> \in Seq(Tasks) /\ Len(<< >>) = 0 /\ << >> \in Seq(Instruction) BY EmptySeq
<1>12. ASSUME NEW s \in Seq(Tasks), NEW r \in Seq(Tasks), Effect(c, s, r)
       PROVE  s = r \o (Unless(c.then) \o Unless(c.else))
  <2>1. s \o << >> = s BY ConcatEmptySeq
  <2>2. QED BY <2>1, <1>2, <1>6, <1>12 DEF Effect
<1>13. ASSUME unneeded = NoTask /\ needed = NoTask PROVE Fits /\ Kept
  <2>1. new = << >> BY <1>13, <1>11, ConcatEmptySeq
  <2>2. Unless(c.then) \o Unless(c.else) = << >>
    <3>1. Unless(c.then) = << >> /\ Unless(c.else) = << >> BY <1>5, <1>13 DEF Unless
    <3>2. QED BY <3>1, <1>11, ConcatEmptySeq
  <2>3. ASSUME NEW s \in Seq(Tasks), NEW r \in Seq(Tasks), Effect(c, s, r), Stacks(Tail(z), r)
        PROVE  Stacks(new \o Tail(z), s)
    <3>1. s = r BY <2>2, <2>3, <1>12, ConcatEmptySeq
    <3>2. QED BY <3>1, <2>1, <2>3, <1>2, StacksDone
  <2>4. Fits BY <2>1, NothingNew
  <2>5. Kept BY <2>3
  <2>6. QED BY <2>4, <2>5
<1>14. ASSUME unneeded # NoTask /\ needed = NoTask PROVE Fits /\ Kept
  <2>1. new = <<x>> BY <1>7, <1>14, NothingNew, ConcatEmptySeq
  <2>2. n = 1 /\ unneeded \in Tasks BY <1>5, <1>14, <1>a
  <2>3. Unless(c.then) \o Unless(c.else) = <<unneeded>>
    <3>1. << >> \o <<unneeded>> = <<unneeded>> /\ <<unneeded>> \o << >> = <<unneeded>>
      <4>1. <<unneeded>> \in Seq(Tasks) BY <2>2
      <4>2. QED BY <4>1, ConcatEmptySeq
    <3>2. Unless(NoTask) = << >> /\ Unless(unneeded) = <<unneeded>> BY <1>14 DEF Unless
    <3>3. (c.then = NoTask /\ c.else = unneeded) \/ (c.then = unneeded /\ c.else = NoTask)
      BY <1>5, <1>14
    <3>4. QED BY <3>1, <3>2, <3>3
  <2>4. ASSUME NEW s \in Seq(Tasks), NEW r \in Seq(Tasks), Effect(c, s, r), Stacks(Tail(z), r)
        PROVE  Stacks(new \o Tail(z), s)
    <3>1. s = r \o <<unneeded>> BY <2>3, <2>4, <1>12
    <3>2. Len(s) = Len(r) + 1 /\ Len(r) \in Nat BY <2>2, <3>1, EndsWith
    <3>3. RemoveAt(s, Len(r) + 1) = r BY <2>2, <3>1, RemovingLast
    <3>4. x.pos <= Len(s) /\ Len(s) - x.pos + 1 = Len(r) + 1 BY <2>2, <3>2, <1>7
    <3>5. Effect(x, s, r) BY <3>3, <3>4, <1>7 DEF Effect
    <3>6. QED BY <2>1, <2>4, <3>5, <1>2, <1>7, StacksOne
  <2>5. new \in Seq(Instruction) /\ Len(new) = 1 /\ new[1] = x BY <2>1, <1>7, NothingNew
  <2>6. \A i \in 1 .. 1 : i = 1 OBVIOUS
  <2>7. Fits BY <2>5, <2>6, <1>7
  <2>8. Kept BY <2>4
  <2>9. QED BY <2>7, <2>8
<1>15. ASSUME unneeded = NoTask /\ needed # NoTask PROVE Fits /\ Kept
  <2>1. new = <<y>>
    <3>1. new = << >> \o <<y>> BY <1>15
    <3>2. <<y>> \in Seq(Instruction) BY <1>8, <1>15, NothingNew
    <3>3. QED BY <3>1, <3>2, ConcatEmptySeq
  <2>2. needed \in Tasks BY <1>15, <1>a
  <2>3. Unless(c.then) \o Unless(c.else) = <<needed>>
    <3>1. << >> \o <<needed>> = <<needed>> /\ <<needed>> \o << >> = <<needed>>
      <4>1. <<needed>> \in Seq(Tasks) BY <2>2
      <4>2. QED BY <4>1, ConcatEmptySeq
    <3>2. Unless(NoTask) = << >> /\ Unless(needed) = <<needed>> BY <1>15 DEF Unless
    <3>3. (c.then = NoTask /\ c.else = needed) \/ (c.then = needed /\ c.else = NoTask)
      BY <1>5, <1>15
    <3>4. QED BY <3>1, <3>2, <3>3
  <2>4. ASSUME NEW s \in Seq(Tasks), NEW r \in Seq(Tasks), Effect(c, s, r), Stacks(Tail(z), r)
        PROVE  Stacks(new \o Tail(z), s)
    <3>1. s = r \o <<needed>> BY <2>3, <2>4, <1>12
    <3>2. s \o << >> = s BY ConcatEmptySeq
    <3>3. Effect(y, s, r) BY <3>1, <3>2, <1>9, <1>10 DEF Effect
    <3>4. QED BY <2>1, <2>4, <3>3, <1>2, <1>8, <1>15, StacksOne
  <2>5. new \in Seq(Instruction) /\ Len(new) = 1 /\ new[1] = y BY <2>1, <1>8, <1>15, NothingNew
  <2>6. \A i \in 1 .. 1 : i = 1 OBVIOUS
  <2>7. Fits BY <2>5, <2>6, <1>9
  <2>8. Kept BY <2>4
  <2>9. QED BY <2>7, <2>8
<1>16. ASSUME unneeded # NoTask /\ needed # NoTask PROVE Fits /\ Kept
  <2>1. new = <<x, y>>
    <3>1. new = <<x>> \o <<y>> BY <1>16
    <3> DEFINE o == <<x>> \o <<y>>
               z2 == <<x, y>>
    <3>2. x \in Instruction /\ y \in Instruction BY <1>7, <1>8, <1>16
    <3>3. o \in Seq(Instruction) /\ Len(o) = 2 /\ o[1] = x /\ o[2] = y BY <3>2
    <3>4. z2 \in Seq(Instruction) /\ Len(z2) = 2 /\ z2[1] = x /\ z2[2] = y BY <3>2
    <3>5. \A i \in 1 .. 2 : i = 1 \/ i = 2 OBVIOUS
    <3> HIDE DEF o, z2
    <3>6. o = z2 BY <3>3, <3>4, <3>5, SeqEqual
    <3>7. QED BY <3>1, <3>6 DEF o, z2
  <2>2. needed \in Tasks /\ unneeded \in Tasks BY <1>16, <1>a
  <2>3. ASSUME NEW s \in Seq(Tasks), NEW r \in Seq(Tasks), Effect(c, s, r), Stacks(Tail(z), r)
        PROVE  Stacks(new \o Tail(z), s)
    <3> DEFINE p == r \o <<needed>>
    <3>1. p \in Seq(Tasks) /\ Len(p) = Len(r) + 1 /\ Len(r) \in Nat BY <2>2, EndsWith
    <3>2. p \o << >> = p BY <3>1, ConcatEmptySeq
    <3>3. Effect(y, p, r) BY <3>2, <1>9, <1>10 DEF Effect
    <3>4. <<needed>> \in Seq(Tasks) /\ <<unneeded>> \in Seq(Tasks) BY <2>2
    <3>5. CASE n = 1 /\ c.then = needed /\ c.else = unneeded
      <4>1. s = r \o (<<needed>> \o <<unneeded>>) BY <2>3, <3>5, <1>12, <1>16 DEF Unless
      <4>2. s = p \o <<unneeded>> BY <3>4, <4>1, ConcatAssociative
      <4> HIDE DEF p
      <4>3. Len(s) = Len(p) + 1 /\ Len(p) \in Nat BY <2>2, <3>1, <4>2, EndsWith
      <4>4. RemoveAt(s, Len(p) + 1) = p BY <2>2, <3>1, <4>2, RemovingLast
      <4>5. x.pos <= Len(s) /\ Len(s) - x.pos + 1 = Len(p) + 1 BY <3>5, <4>3, <1>7
      <4>6. Effect(x, s, p) BY <4>4, <4>5, <1>7 DEF Effect
      <4>7. QED BY <2>1, <2>3, <3>1, <3>3, <4>6, <1>2, <1>7, <1>8, <1>16, StacksTwo
    <3>6. CASE n = 2 /\ c.then = unneeded /\ c.else = needed
      <4>1. s = r \o (<<unneeded>> \o <<needed>>) BY <2>3, <3>6, <1>12, <1>16 DEF Unless
      <4>2. s = (r \o <<unneeded>>) \o <<needed>> BY <3>4, <4>1, ConcatAssociative
      <4>3. RemoveAt(s, Len(r) + 1) = p BY <2>2, <4>2, RemovingLastButOne
      <4> HIDE DEF p
      <4>4. Len(s) = Len(r) + 2
        <5>1. r \o <<unneeded>> \in Seq(Tasks) /\ Len(r \o <<unneeded>>) = Len(r) + 1
          BY <2>2, EndsWith
        <5>2. Len(s) = Len(r \o <<unneeded>>) + 1 BY <5>1, <2>2, <4>2, EndsWith
        <5>3. QED BY <5>1, <5>2, <3>1
      <4>5. x.pos <= Len(s) /\ Len(s) - x.pos + 1 = Len(r) + 1 BY <3>1, <3>6, <4>4, <1>7
      <4>6. Effect(x, s, p) BY <4>3, <4>5, <1>7 DEF Effect
      <4>7. QED BY <2>1, <2>3, <3>1, <3>3, <4>6, <1>2, <1>7, <1>8, <1>16, StacksTwo
    <3>7. QED BY <3>5, <3>6, <1>5, <1>16
  <2>4. new \in Seq(Instruction) /\ Len(new) = 2 /\ new[1] = x /\ new[2] = y
    BY <2>1, <1>7, <1>8, <1>16, NothingNew
  <2>5. \A i \in 1 .. 2 : i = 1 \/ i = 2 OBVIOUS
  <2>6. new[1].op \in {"cancelAt", "join"} /\ new[2].op \in {"cancelAt", "join"} BY <2>4, <1>7, <1>9
  <2> HIDE DEF new
  <2>7. Fits BY <2>4, <2>5, <2>6
  <2>8. Kept BY <2>3
  <2>9. QED BY <2>7, <2>8
<1>17. Fits /\ Kept
  <2> HIDE DEF Kept, Fits
  <2>1. QED BY <1>13, <1>14, <1>15, <1>16
<1> HIDE DEF new, z
<1>18. Carries(c, Tail(z), new \o Tail(z), Current(w), pending[w], pending[w])
  BY <1>17, CarriesSame
<1> HIDE DEF Kept
<1>19. "choose" \notin Walk /\ "choose" # "erase" /\ EarlyCode(new) BY <1>17 DEF Walk, EarlyCode
<1>20. QED BY <1>1, <1>3, <1>17, <1>18, <1>19, NestedQuiet DEF z, c

(* What is canceled from the end of pendingTasks is the running task's own,  *)
(* and its erasure follows.                                                  *)
LEMMA NestedCancelFromEnd ==
  ASSUME IInv, IInv', Nested, NEW w \in Workers, body' = body, CancelFromPendingEnd(w)
  PROVE  Nested'
<1> DEFINE z == Code(w)
           ps == pending[w]
           n == z[1].pos
           t == ps[Len(ps) - n + 1]
           p == Current(w)
<1>1. At(w, "cancelAt") BY DEF CancelFromPendingEnd
<1>2. /\ z # << >> /\ z \in Seq(Instruction) /\ z[1] \in Instruction /\ z[1].op = "cancelAt"
      /\ Head(z) = z[1] /\ p \in Tasks /\ Tail(z) \in Seq(Instruction)
  BY <1>1, AtFacts, HeadTailProperties
<1>3. n \in {1, 2} BY <1>2, InstructionFacts
<1>4. /\ UNCHANGED <<pending, canceled, childs>>
      /\ Len(ps) >= n => Become(w, <<Visit(t), Erase(n, t)>>)
      /\ ~(Len(ps) >= n) => Become(w, << >>)
  BY <1>2 DEF CancelFromPendingEnd, flags
<1>5. ps \in Seq(Tasks) /\ Len(ps) \in Nat BY LenProperties DEF IInv, Types
<1>6. body \in Programs BY DEF IInv, Types
<1>7. "cancelAt" \notin Walk /\ "cancelAt" # "erase" BY DEF Walk
<1>8. ASSUME NEW a \in Seq(Tasks), NEW s \in Seq(Tasks), NEW r \in Seq(Tasks),
             ps = a \o s, Effect(z[1], s, r)
      PROVE  /\ Len(ps) >= n /\ n <= Len(s) /\ t = s[Len(s) - n + 1]
             /\ r = RemoveAt(s, Len(s) - n + 1)
             /\ Own(s, p) => Parent(t) = p
  <2> DEFINE k == Len(s) - n + 1
  <2>1. n <= Len(s) /\ r = RemoveAt(s, k) BY <1>2, <1>8 DEF Effect
  <2> HIDE DEF n
  <2>2. Len(s) \in Nat /\ Len(a) \in Nat /\ Len(ps) = Len(a) + Len(s)
    BY <1>8, LenProperties, ConcatProperties
  <2>3. k \in 1 .. Len(s) /\ Len(ps) - n + 1 = Len(a) + k /\ Len(ps) >= n BY <1>3, <2>1, <2>2, <1>8
  <2> HIDE DEF k
  <2>4. (a \o s)[Len(a) + k] = s[k] /\ (Own(s, p) => s[k] \in Forks(p)) BY <2>3, RemovingFromEnd
  <2>5. t = s[k] BY <2>3, <2>4, <1>8
  <2> HIDE DEF t, p
  <2>6. Own(s, p) => Parent(t) = p BY <2>4, <2>5, <1>2, <1>6, OneParent DEF p
  <2>7. QED BY <2>1, <2>3, <2>5, <2>6 DEF k
<1>9. CASE ~(Len(ps) >= n)
  <2>1. ~(Nest /\ Clean)
    <3> SUFFICES ASSUME Nest PROVE FALSE OBVIOUS
    <3>1. PICK a \in Seq(Tasks) : \E s, r \in Seq(Tasks) : ps = a \o s /\ Effect(z[1], s, r)
      BY <1>1, TopLayer
    <3>2. PICK s \in Seq(Tasks), r \in Seq(Tasks) : ps = a \o s /\ Effect(z[1], s, r) BY <3>1
    <3>3. QED BY <3>2, <1>8, <1>9
  <2>2. << >> \in Seq(Instruction) /\ EarlyCode(<< >>) /\ \A i \in 1 .. Len(<< >>) : FALSE
    BY NothingNew, EarlyShort
  <2>3. Become(w, << >>) BY <1>4, <1>9
  <2>4. QED BY <1>1, <1>4, <1>7, <2>1, <2>2, <2>3, NestedQuiet
<1>10. CASE Len(ps) >= n
  <2> DEFINE x == Visit(t)
             y == Erase(n, t)
             new == <<x, y>>
             d == new \o Tail(z)
  <2>1. Become(w, new) BY <1>4, <1>10
  <2>2. t \in Tasks
    <3>1. Len(ps) - n + 1 \in 1 .. Len(ps) BY <1>3, <1>5, <1>10
    <3>2. QED BY <1>5, <3>1, ElementOfSeq
  <2> HIDE DEF t, n
  <2>3. x \in Instruction /\ y \in Instruction BY <1>3, <2>2 DEF Instruction, Expansions
  <2>4. x.op = "visit" /\ x.task = t /\ y.op = "erase" /\ y.task = t /\ y.pos = n
    BY DEF Visit, Erase
  <2> HIDE DEF x, y
  <2>5. new \in Seq(Instruction) /\ Len(new) = 2 /\ new[1] = x /\ new[2] = y BY <2>3, NothingNew
  <2>6. \A i \in 1 .. 2 : i = 1 \/ i = 2 OBVIOUS
  <2>7. EarlyCode(new)
    <3>1. \A i, j \in 1 .. 2 : i < j => i = 1 /\ j = 2 OBVIOUS
    <3>2. new[1].op \in Walk BY <2>4, <2>5 DEF Walk
    <3>3. Len(new) = 2 BY <2>5
    <3> HIDE DEF new
    <3>4. QED BY <3>1, <3>2, <3>3 DEF EarlyCode
  <2>8. Erases(d, t)
    <3>1. Len(d) = Len(new) + Len(z) - 1 /\ Len(z) \in Nat \ {0} /\ \A i \in 1 .. Len(new) : d[i] = new[i]
      BY <1>2, <2>5, Replaced
    <3>2. 2 \in 1 .. Len(new) /\ 2 \in 1 .. Len(d) BY <2>5, <3>1
    <3>3. d[2].op = "erase" /\ d[2].task = t BY <2>4, <2>5, <3>1, <3>2
    <3> HIDE DEF d
    <3>4. QED BY <3>2, <3>3 DEF Erases
  <2>9. Carries(z[1], Tail(z), d, p, ps, ps)
    <3> SUFFICES ASSUME NEW a \in Seq(Tasks), NEW s \in Seq(Tasks), NEW r \in Seq(Tasks),
                        ps = a \o s, Own(s, p), Effect(z[1], s, r), Stacks(Tail(z), r)
                 PROVE  Stacks(d, s)
      BY DEF Carries
    <3>1. n <= Len(s) /\ t = s[Len(s) - n + 1] /\ r = RemoveAt(s, Len(s) - n + 1) BY <1>8 DEF n, t
    <3>2. Effect(x, s, s) BY <2>4, EffectLight
    <3>3. Effect(y, s, r) BY <2>4, <3>1 DEF Effect
    <3>4. QED BY <3>2, <3>3, <2>3, <1>2, StacksTwo
  <2>10. ASSUME Nest PROVE Parent(t) = p
    <3>1. PICK a \in Seq(Tasks) : \E s, r \in Seq(Tasks) : ps = a \o s /\ Own(s, p) /\ Effect(z[1], s, r)
      BY <1>1, <2>10, TopLayer
    <3>2. PICK s \in Seq(Tasks), r \in Seq(Tasks) : ps = a \o s /\ Own(s, p) /\ Effect(z[1], s, r)
      BY <3>1
    <3>3. QED BY <3>2, <1>8 DEF n, t
  <2>11. \A i \in 1 .. Len(new) :
           /\ new[i].op # "add"
           /\ new[i].op \in {"visit", "mark"} => new[i].task = t
    BY <2>4, <2>5, <2>6
  <2> HIDE DEF new, d, z, p
  <2>12. Clean /\ Nest /\ Canc =>
           /\ Carries(z[1], Tail(z), d, p, ps, ps)
           /\ \A i \in 1 .. Len(new) : new[i].op \in {"visit", "mark"} =>
                \/ Parent(new[i].task) \in canceled
                \/ p = Parent(new[i].task) /\ Erases(d, new[i].task)
    BY <2>8, <2>9, <2>10, <2>11
  <2>13. QED BY <1>1, <1>4, <1>7, <2>1, <2>5, <2>7, <2>11, <2>12, NestedQuiet DEF z, d, p
<1>11. QED BY <1>9, <1>10

(* The visit, the mark and the stop take nothing.                            *)
LEMMA WalkCarries ==
  ASSUME NEW x, x.op \in Walk, NEW c \in Seq(Instruction), NEW new \in Seq(Instruction),
         \A i \in 1 .. Len(new) : new[i].op \in Walk, NEW p, NEW ps
  PROVE  Carries(x, c, new \o c, p, ps, ps)
<1>1. \A i \in 1 .. Len(new) : new[i].op \in {"visit", "mark", "stop"} BY DEF Walk
<1>2. x.op \in {"visit", "mark", "stop"} BY DEF Walk
<1>3. ASSUME NEW s \in Seq(Tasks), NEW r \in Seq(Tasks), Effect(x, s, r), Stacks(c, r)
      PROVE  Stacks(new \o c, s)
  <2>1. s = r BY <1>2, <1>3, EffectLight
  <2>2. QED BY <2>1, <1>1, <1>3, StacksLight
<1>4. QED BY <1>3, CarriesSame

(* What is to be marked was to be visited for the same reason.               *)
LEMMA NestedCancelVisit ==
  ASSUME IInv, IInv', Nested, NEW w \in Workers, body' = body, CancelVisit(w)
  PROVE  Nested'
<1> DEFINE z == Code(w)
           t == Target(w)
           p == Current(w)
<1>1. At(w, "visit") BY DEF CancelVisit
<1>2. /\ z # << >> /\ z \in Seq(Instruction) /\ z[1] \in Instruction /\ z[1].op = "visit"
      /\ t = z[1].task /\ Tail(z) \in Seq(Instruction) /\ Len(z) \in Nat \ {0} /\ frames[w] # << >>
  BY <1>1, AtFacts, HeadTailProperties
<1>3. t \in Tasks BY <1>2, InstructionFacts
<1>4. UNCHANGED <<pending, canceled, childs>> BY DEF CancelVisit, flags
<1>5. "visit" \in Walk /\ "visit" # "erase" BY DEF Walk
<1>6. CASE t \in canceled
  <2>1. << >> \in Seq(Instruction) /\ \A i \in 1 .. Len(<< >>) : FALSE BY NothingNew
  <2>2. Become(w, << >>) BY <1>6 DEF CancelVisit
  <2>3. Carries(z[1], Tail(z), << >> \o Tail(z), p, pending[w], pending[w])
    BY <1>2, <1>5, <2>1, WalkCarries
  <2> HIDE DEF z, p
  <2>4. QED BY <1>1, <1>4, <1>5, <2>1, <2>2, <2>3, NestedQuiet DEF z, p
<1>7. CASE t \notin canceled
  <2> DEFINE x == Mark(t)
             y == Stop(t)
             new == <<x, y>>
             d == new \o Tail(z)
  <2>1. Become(w, new) BY <1>7 DEF CancelVisit
  <2> HIDE DEF t
  <2>2. x \in Instruction /\ y \in Instruction BY <1>3 DEF Instruction, Expansions
  <2>3. x.op = "mark" /\ x.task = t /\ y.op = "stop" /\ y.task = t BY DEF Mark, Stop
  <2> HIDE DEF x, y
  <2>4. new \in Seq(Instruction) /\ Len(new) = 2 /\ new[1] = x /\ new[2] = y BY <2>2, NothingNew
  <2>5. \A i \in 1 .. 2 : i = 1 \/ i = 2 OBVIOUS
  <2>6. \A i \in 1 .. Len(new) : new[i].op \in Walk /\ new[i].op # "add" /\ new[i].task = t
    BY <2>3, <2>4, <2>5 DEF Walk
  <2> HIDE DEF new
  <2>7. Carries(z[1], Tail(z), d, p, pending[w], pending[w]) BY <1>2, <1>5, <2>4, <2>6, WalkCarries
  <2>8. ASSUME Canc PROVE Parent(t) \in canceled \/ (p = Parent(t) /\ Erases(d, t))
    <3> DEFINE n == Len(frames[w])
    <3>1. n \in 1 .. n /\ frames[w][n].code = z /\ frames[w][n].task = p
      BY <1>2, FrameFacts DEF IInv
    <3>2. Excused(frames[w][n]) BY <3>1, <2>8 DEF Canc, Frames
    <3>3. 1 \in 1 .. Len(z) BY <1>2
    <3> HIDE DEF n, z, p
    <3>4. z[1].task = t /\ z[1].op = "visit" BY <1>2
    <3>5. Parent(t) \in canceled \/ By(frames[w][n], t) BY <3>1, <3>2, <3>3, <3>4 DEF Excused
    <3>6. Erases(z, t) => Erases(d, t) BY <1>2, <2>4, ErasesKept
    <3>7. QED BY <3>1, <3>5, <3>6 DEF By
  <2> HIDE DEF d, z, p
  <2>9. Clean /\ Nest /\ Canc =>
           /\ Carries(z[1], Tail(z), d, p, pending[w], pending[w])
           /\ \A i \in 1 .. Len(new) : new[i].op \in {"visit", "mark"} =>
                \/ Parent(new[i].task) \in canceled
                \/ p = Parent(new[i].task) /\ Erases(d, new[i].task)
    BY <2>6, <2>7, <2>8
  <2>10. QED BY <1>1, <1>4, <1>5, <2>1, <2>4, <2>6, <2>9, NestedQuiet DEF z, d, p
<1>8. QED BY <1>6, <1>7

(* The mark.                                                                 *)
LEMMA NestedCancelMark ==
  ASSUME IInv, IInv', Nested, NEW w \in Workers, body' = body, CancelMark(w)
  PROVE  Nested'
<1> DEFINE z == Code(w)
           t == Target(w)
           d == << >> \o Tail(z)
<1>1. At(w, "mark") BY DEF CancelMark
<1>2. /\ z # << >> /\ z \in Seq(Instruction) /\ z[1].op = "mark" /\ Tail(z) \in Seq(Instruction)
  BY <1>1, AtFacts, HeadTailProperties
<1>3. /\ Become(w, << >>) /\ canceled' = canceled \cup {t} /\ UNCHANGED <<pending, childs>>
  BY DEF CancelMark
<1>4. "mark" \in Walk /\ "mark" # "erase" BY DEF Walk
<1>5. << >> \in Seq(Instruction) /\ \A i \in 1 .. Len(<< >>) : FALSE BY NothingNew
<1>6. Carries(z[1], Tail(z), d, Current(w), pending[w], pending[w])
  BY <1>2, <1>4, <1>5, WalkCarries
<1>7. Members(pending)' = Members(pending) BY <1>3 DEF Members
<1> HIDE DEF z, d, t
<1>8. Carries(z[1], Tail(z), d, Current(w), pending[w], pending'[w]) BY <1>3, <1>6
<1>9. canceled \subseteq canceled' /\ \A u \in canceled' \ canceled : u = t BY <1>3
<1>10. QED BY <1>1, <1>3, <1>4, <1>5, <1>7, <1>8, <1>9, NestedBecome DEF z, d, t

(* The stop: the children of a canceled task are to be visited.              *)
LEMMA NestedCancelStop ==
  ASSUME IInv, IInv', Nested, NEW w \in Workers, body' = body, CancelStop(w)
  PROVE  Nested'
<1> DEFINE z == Code(w)
           t == Target(w)
           cs == SetToSeq(childs[t])
           new == [i \in DOMAIN cs |-> Visit(cs[i])]
           p == Current(w)
           d == new \o Tail(z)
<1>1. At(w, "stop") BY DEF CancelStop
<1>2. /\ z # << >> /\ z \in Seq(Instruction) /\ z[1] \in Instruction /\ Tail(z) \in Seq(Instruction)
      /\ z[1].op = "stop" /\ t = z[1].task /\ ShapeAt(z, 1, canceled, Known)
  BY <1>1, AtFacts, HeadTailProperties
<1>3. t \in Tasks /\ t \in canceled
  <2>1. t \in Tasks BY <1>2, InstructionFacts
  <2>2. ~(1 > 1) OBVIOUS
  <2>3. QED BY <1>2, <2>1, <2>2 DEF ShapeAt
<1>4. Become(w, new) /\ UNCHANGED <<pending, canceled, childs>> BY DEF CancelStop
<1>5. Types /\ Forked BY DEF IInv
<1>6. IsFiniteSet(childs[t]) /\ \A u \in childs[t] : u \in Tasks /\ Parent(u) = t
  <2>1. childs[t] \subseteq Forks(t) /\ IsFiniteSet(childs[t]) BY <1>3, <1>5 DEF Types, Forked
  <2>2. body \in Programs BY <1>5 DEF Types
  <2> HIDE DEF t
  <2>3. \A u \in Forks(t) : u \in Tasks /\ Parent(u) = t BY <1>3, <2>2, OneParent
  <2>4. QED BY <2>1, <2>3
<1> HIDE DEF t
<1>7. /\ Len(cs) \in Nat /\ DOMAIN cs = 1 .. Len(cs)
      /\ \A i \in 1 .. Len(cs) : cs[i] \in Tasks /\ Parent(cs[i]) = t
  BY <1>6, SetToSeqType
<1> HIDE DEF cs
<1>8. \A u : Visit(u).op = "visit" /\ Visit(u).task = u BY DEF Visit
<1>9. \A i \in 1 .. Len(cs) : Visit(cs[i]) \in Instruction BY <1>7 DEF Instruction, Expansions
<1>10. /\ new \in Seq(Instruction) /\ Len(new) = Len(cs)
       /\ \A i \in 1 .. Len(new) : new[i] = Visit(cs[i])
  BY <1>7, <1>9
<1> HIDE DEF new
<1>11. \A i \in 1 .. Len(new) : new[i].op = "visit" /\ Parent(new[i].task) = t BY <1>7, <1>8, <1>10
<1>12. "stop" \in Walk /\ "stop" # "erase" BY DEF Walk
<1>13. \A i \in 1 .. Len(new) : new[i].op \in Walk /\ new[i].op # "add" BY <1>11 DEF Walk
<1>14. Carries(z[1], Tail(z), d, p, pending[w], pending[w]) BY <1>2, <1>10, <1>12, <1>13, WalkCarries
<1> HIDE DEF z, p, d
<1>15. QED BY <1>1, <1>3, <1>4, <1>10, <1>11, <1>12, <1>13, <1>14, NestedQuiet DEF z, p, d

(* The erasure takes the task that was canceled out of pendingTasks.         *)
LEMMA NestedCancelErase ==
  ASSUME IInv, IInv', Nested, NEW w \in Workers, body' = body, CancelErase(w)
  PROVE  Nested'
<1> DEFINE z == Code(w)
           ps == pending[w]
           n == z[1].pos
           t == Target(w)
           p == Current(w)
           d == << >> \o Tail(z)
           k == ErasePosition(w)
<1>1. At(w, "erase") /\ ps # << >> BY DEF CancelErase
<1>2. /\ z # << >> /\ z \in Seq(Instruction) /\ z[1] \in Instruction /\ z[1].op = "erase"
      /\ Head(z) = z[1] /\ Tail(z) \in Seq(Instruction) /\ t = z[1].task
  BY <1>1, AtFacts, HeadTailProperties
<1>3. n \in {1, 2} BY <1>2, InstructionFacts
<1>4. /\ pending' = [pending EXCEPT ![w] = RemoveAt(@, k)] /\ Become(w, << >>)
      /\ canceled' = canceled /\ childs' = childs
  BY DEF CancelErase, flags
<1>5. pending \in [Workers -> Seq(Tasks)] /\ Once(pending) BY DEF IInv, Types, Pending
<1>6. ps \in Seq(Tasks) /\ Len(ps) \in Nat \ {0} BY <1>1, <1>5, EmptySeq
<1>7. k = IF n > Len(ps) THEN 1 ELSE Len(ps) - n + 1 BY <1>2 DEF ErasePosition
<1> HIDE DEF k
<1>8. pending'[w] = RemoveAt(ps, k) /\ \A v \in Workers \ {w} : pending'[v] = pending[v]
  BY <1>4, <1>5
<1>9. k \in 1 .. Len(ps)
  <2> HIDE DEF n, ps
  <2>1. QED BY <1>3, <1>6, <1>7
<1>10. Without(pending, pending', w, k) BY <1>4, <1>5, <1>9, WithoutAt
<1>11. Members(pending)' = Members(pending) \ {ps[k]}
  <2>1. Members(pending') = Members(pending) \ {pending[w][k]} BY <1>5, <1>10, MembersWithout
  <2>2. QED BY <2>1 DEF Members
<1>12. ASSUME NEW a \in Seq(Tasks), NEW s \in Seq(Tasks), NEW r \in Seq(Tasks),
              ps = a \o s, Effect(z[1], s, r)
       PROVE  /\ pending'[w] = a \o r /\ ps[k] = t
              /\ Own(s, p) => Own(r, p)
  <2> DEFINE j == Len(s) - n + 1
  <2>1. n <= Len(s) /\ r = RemoveAt(s, j) /\ s[j] = t BY <1>2, <1>12 DEF Effect
  <2> HIDE DEF n
  <2>2. Len(s) \in Nat /\ Len(a) \in Nat /\ Len(ps) = Len(a) + Len(s)
    BY <1>12, LenProperties, ConcatProperties
  <2> HIDE DEF ps
  <2>3. j \in 1 .. Len(s) /\ k = Len(a) + j BY <1>3, <1>7, <2>1, <2>2
  <2> HIDE DEF j, t, p
  <2>4. /\ RemoveAt(a \o s, Len(a) + j) = a \o RemoveAt(s, j) /\ (a \o s)[Len(a) + j] = s[j]
        /\ Own(s, p) => Own(RemoveAt(s, j), p)
    BY <2>3, RemovingFromEnd
  <2>5. QED BY <2>1, <2>3, <2>4, <1>8, <1>12
<1>13. Carries(z[1], Tail(z), d, p, ps, pending'[w])
  <2> SUFFICES ASSUME NEW a \in Seq(Tasks), NEW s \in Seq(Tasks), NEW r \in Seq(Tasks),
                      ps = a \o s, Own(s, p), Effect(z[1], s, r), Stacks(Tail(z), r)
               PROVE  pending'[w] = a \o r /\ Own(r, p) /\ Stacks(d, r)
    BY DEF Carries
  <2>1. pending'[w] = a \o r /\ Own(r, p) BY <1>12
  <2>2. Stacks(d, r) BY <1>2, StacksDone
  <2>3. QED BY <2>1, <2>2
<1>14. ASSUME Nest PROVE t \notin Members(pending)'
  <2>1. PICK a \in Seq(Tasks) : \E s, r \in Seq(Tasks) : ps = a \o s /\ Effect(z[1], s, r)
    BY <1>1, <1>14, TopLayer
  <2>2. PICK s \in Seq(Tasks), r \in Seq(Tasks) : ps = a \o s /\ Effect(z[1], s, r) BY <2>1
  <2>3. ps[k] = t BY <2>2, <1>12
  <2>4. QED BY <2>3, <1>11
<1>15. << >> \in Seq(Instruction) /\ EarlyCode(<< >>) /\ \A i \in 1 .. Len(<< >>) : FALSE
  BY NothingNew, EarlyShort
<1>16. "erase" \notin Walk BY DEF Walk
<1>17. \A u \in canceled' \cap Members(pending)' : u \in Members(pending) BY <1>11
<1> HIDE DEF z, d, t, p, ps
<1>18. QED BY <1>1, <1>4, <1>8, <1>13, <1>14, <1>15, <1>16, <1>17, NestedBecome DEF z, d, t, p, ps

(* A worker takes a task from a queue, or from its hand, and starts it.      *)
LEMMA NestedRun ==
  ASSUME IInv, Nested, NEW w \in Workers, body' = body,
         RunOwnJob(w) \/ (\E v \in Workers : RunStolenJob(w, v)) \/ RunProactive(w)
  PROVE  Nested'
<1>1. jobs \in [Workers -> Seq(Tasks)] /\ grabbed \in [Workers -> Tasks \cup {NoTask}]
  BY DEF IInv, Types
<1>2. UNCHANGED <<pending, canceled, childs>> BY DEF RunOwnJob, RunStolenJob, RunProactive, flags
<1>3. \E t \in Tasks : Push(w, t)
  <2>1. CASE RunOwnJob(w)
    <3>1. jobs[w] # << >> /\ Push(w, Last(jobs[w])) BY <2>1 DEF RunOwnJob
    <3>2. Last(jobs[w]) \in Tasks BY <1>1, <3>1, WithoutLast
    <3>3. QED BY <3>1, <3>2
  <2>2. CASE \E v \in Workers : RunStolenJob(w, v)
    <3>1. PICK v \in Workers : jobs[v] # << >> /\ Push(w, Head(jobs[v])) BY <2>2 DEF RunStolenJob
    <3>2. Head(jobs[v]) \in Tasks BY <1>1, <3>1, WithoutHead
    <3>3. QED BY <3>1, <3>2
  <2>3. CASE RunProactive(w)
    <3>1. grabbed[w] # NoTask /\ Push(w, grabbed[w]) BY <2>3 DEF RunProactive
    <3>2. QED BY <1>1, <3>1
  <2>4. QED BY <2>1, <2>2, <2>3
<1>4. PICK t \in Tasks : Push(w, t) BY <1>3
<1>5. QED BY <1>2, <1>4, NestedPush

(* Every step keeps the layers.                                              *)
LEMMA NestedNext == IInv /\ IInv' /\ Nested /\ [Next]_vars => Nested'
<1> SUFFICES ASSUME IInv, IInv', Nested, [Next]_vars PROVE Nested' OBVIOUS
<1>1. CASE UNCHANGED vars
  <2>1. UNCHANGED <<body, frames, pending, canceled, childs>> BY <1>1 DEF vars, flags
  <2>2. QED BY <2>1, NestedSame
<1>2. ASSUME body' = body, NEW w \in Workers, Step(w) PROVE Nested'
  <2>1. CASE RunOwnJob(w) \/ (\E v \in Workers : RunStolenJob(w, v)) \/ RunProactive(w)
    BY <1>2, <2>1, NestedRun
  <2>2. CASE Finish(w)
    <3>1. /\ frames[w] # << >> /\ Code(w) = << >> /\ frames' = [frames EXCEPT ![w] = Front(@)]
          /\ UNCHANGED <<pending, canceled, childs>>
      BY <2>2 DEF Finish, Running
    <3>2. QED BY <1>2, <3>1, NestedPop
  <2>3. CASE \E v \in Workers : GrabProactive(w, v)
    <3>1. UNCHANGED <<frames, pending, canceled, childs>> BY <2>3 DEF GrabProactive, flags
    <3>2. QED BY <1>2, <3>1, NestedSame
  <2>4. CASE ForkTask(w) \/ SpeculateTask(w) BY <1>2, <2>4, NestedFork
  <2>5. CASE AddForkJob(w) BY <1>2, <2>5, NestedAdd
  <2>6. CASE BeginJoin(w) BY <1>2, <2>6, NestedBeginJoin
  <2>7. CASE EndJoin(w) BY <1>2, <2>7, NestedEndJoin
  <2>8. CASE \E cond \in BOOLEAN : ChooseBranch(w, cond) BY <1>2, <2>8, NestedChoose
  <2>9. CASE CancelFromPendingEnd(w) BY <1>2, <2>9, NestedCancelFromEnd
  <2>10. CASE CancelVisit(w) BY <1>2, <2>10, NestedCancelVisit
  <2>11. CASE CancelMark(w) BY <1>2, <2>11, NestedCancelMark
  <2>12. CASE CancelStop(w) BY <1>2, <2>12, NestedCancelStop
  <2>13. CASE CancelErase(w) BY <1>2, <2>13, NestedCancelErase
  <2>14. QED BY <1>2, <2>1, <2>2, <2>3, <2>4, <2>5, <2>6, <2>7, <2>8, <2>9, <2>10, <2>11, <2>12,
                <2>13 DEF Step
<1>3. QED BY <1>1, <1>2 DEF Next

(* A join gets the task that the program means, for every program that       *)
(* nests and every schedule, and a canceled one only if it is canceled       *)
(* itself, as long as no canceled task has skipped a fork                    *)
(* (EvaluatorUnit.cpp, join and cancelFromPendingEnd).                       *)
THEOREM JoinsMeant == Spec => []JoinsTheMeantTask
<1>1. IInv /\ Nested => JoinsTheMeantTask
  <2> SUFFICES ASSUME IInv, Nested, NoForkSkipped, NEW w \in Workers, At(w, "await")
               PROVE  /\ Target(w) = Head(Code(w)).meant
                      /\ Target(w) \in canceled => Current(w) \in canceled
    BY DEF JoinsTheMeantTask
  <2> DEFINE c == Code(w)
             t == Target(w)
             p == Current(w)
             n == Len(frames[w])
  <2>1. /\ c # << >> /\ c[1] \in Instruction /\ c[1].op = "await" /\ Head(c) = c[1] /\ t = c[1].task
        /\ p \in Tasks /\ Len(c) \in Nat \ {0} /\ frames[w] # << >>
    BY AtFacts
  <2>2. Clean BY DEF NoForkSkipped, Clean
  <2>3. Early /\ Nest /\ Canc BY <2>2 DEF Nested
  <2>4. t \in Tasks BY <2>1, InstructionFacts
  <2>5. PICK a \in Seq(Tasks) : \E s, r \in Seq(Tasks) :
               pending[w] = a \o s /\ Own(s, p) /\ Effect(c[1], s, r)
    BY <2>3, TopLayer
  <2>6. PICK s \in Seq(Tasks), r \in Seq(Tasks) : pending[w] = a \o s /\ Own(s, p) /\ Effect(c[1], s, r)
    BY <2>5
  <2>7. s = r \o <<t>> /\ t = c[1].meant
    <3>1. Adds(c[1]) = << >> /\ Takes(c[1]) = <<t>> BY <2>1 DEF Adds, Takes
    <3>2. s \o << >> = r \o <<t>> /\ t = c[1].meant BY <2>1, <2>6, <3>1 DEF Effect
    <3>3. QED BY <3>2, ConcatEmptySeq
  <2>8. t \in Forks(p) /\ t \in Members(pending)
    <3>1. Len(s) = Len(r) + 1 /\ Len(r) \in Nat /\ s[Len(s)] = t
      <4> HIDE DEF t
      <4>1. Len(s) = Len(r) + 1 /\ Len(r) \in Nat /\ s[Len(r) + 1] = t BY <2>4, <2>7, EndsWith
      <4>2. QED BY <4>1
    <3>2. Len(s) \in 1 .. Len(s) BY <3>1
    <3>3. t \in Forks(p) BY <2>6, <3>1, <3>2 DEF Own
    <3>4. pending[w][Len(a) + Len(s)] = t BY <2>6, <3>1, <3>2, RemovingFromEnd
    <3>5. Len(a) + Len(s) \in 1 .. Len(pending[w])
      <4>1. Len(pending[w]) = Len(a) + Len(s) /\ Len(a) \in Nat BY <2>6, ConcatProperties, LenProperties
      <4>2. QED BY <3>1, <4>1
    <3>6. pending \in [Workers -> Seq(Tasks)] BY DEF IInv, Types
    <3> HIDE DEF t, p
    <3>7. QED BY <3>3, <3>4, <3>5, <3>6, MemberOf
  <2>9. Parent(t) = p
    <3>1. body \in Programs BY DEF IInv, Types
    <3> HIDE DEF t, p
    <3>2. QED BY <3>1, <2>1, <2>8, OneParent
  <2>10. ASSUME t \in canceled PROVE p \in canceled
    <3>1. Excuse(t) BY <2>3, <2>8, <2>10 DEF Canc
    <3>2. ASSUME NEW v \in Workers, NEW i \in 1 .. Len(frames[v]), By(frames[v][i], t) PROVE FALSE
      <4>1. /\ Once(Stack)
            /\ \A u \in Workers : Len(Stack[u]) = Len(frames[u])
            /\ \A u \in Workers : \A j \in 1 .. Len(frames[u]) : Stack[u][j] = frames[u][j].task
        BY StackFacts DEF IInv, OnePlace
      <4>2. n \in 1 .. n /\ frames[w][n].code = c /\ frames[w][n].task = p
        BY <2>1, FrameFacts DEF IInv
      <4>3. frames[v][i].task = p BY <2>9, <3>2 DEF By
      <4>4. n \in 1 .. Len(frames[w]) BY <4>2
      <4> HIDE DEF n, p, c, t
      <4>5. Stack[v][i] = Stack[w][n] /\ i \in 1 .. Len(Stack[v]) /\ n \in 1 .. Len(Stack[w])
        BY <4>1, <4>2, <4>3, <4>4
      <4>6. v = w /\ i = n BY <4>1, <4>5 DEF Once
      <4>7. PICK j \in 1 .. Len(c) : c[j].op = "erase" BY <3>2, <4>2, <4>6 DEF By, Erases
      <4>8. 1 \in 1 .. Len(c) /\ 1 < j BY <2>1, <4>7
      <4>9. EarlyCode(c) BY <2>3, <4>2, <4>4 DEF Early
      <4>10. c[1].op \in Walk BY <4>7, <4>8, <4>9 DEF EarlyCode
      <4>11. QED BY <4>10, <2>1 DEF Walk
    <3>3. QED BY <3>1, <3>2, <2>9 DEF Excuse
  <2>11. QED BY <2>1, <2>7, <2>10
<1>2. Spec => []Nested BY Invariance, NestedInit, NestedNext, PTL DEF Spec
<1>3. QED BY <1>1, <1>2, Invariance, PTL

-----------------------------------------------------------------------------
(* What a frame has to join is pending on its worker, whatever is on top.    *)
LEMMA LowerLayers ==
  ASSUME NEW fs, Len(fs) \in Nat, NEW B \in [0 .. Len(fs) -> Seq(Tasks)],
         \A i \in 1 .. Len(fs) : Layer(fs[i], B[i - 1], B[i])
  PROVE  \A i \in 0 .. Len(fs) : ToSet(B[i]) \subseteq ToSet(B[Len(fs)])
<1> DEFINE n == Len(fs)
           In(i) == ToSet(B[i]) \subseteq ToSet(B[n])
           S == {k \in Nat : k <= n /\ ~In(n - k)}
<1>1. n \in Nat OBVIOUS
<1>2. ASSUME NEW i \in 1 .. n, In(i) PROVE In(i - 1)
  <2> DEFINE a == B[i - 1]
  <2>1. PICK s \in Seq(Tasks) : B[i] = a \o s BY DEF Layer
  <2>2. a \in Seq(Tasks)
    <3>1. i - 1 \in 0 .. n BY <1>1
    <3>2. QED BY <3>1
  <2> HIDE DEF a, n
  <2>3. Len(a) \in Nat /\ Len(s) \in Nat /\ DOMAIN a = 1 .. Len(a)
    BY <2>2, LenProperties
  <2>4. /\ a \o s \in Seq(Tasks) /\ Len(a \o s) = Len(a) + Len(s)
        /\ \A k \in 1 .. Len(a) : (a \o s)[k] = a[k]
    BY <2>2, <2>3, ConcatProperties
  <2>5. DOMAIN (a \o s) = 1 .. Len(a) + Len(s) BY <2>4, LenProperties
  <2>6. ToSet(a) \subseteq ToSet(a \o s) BY <2>3, <2>4, <2>5 DEF ToSet
  <2>7. QED BY <2>1, <2>6, <1>2 DEF a
<1> HIDE DEF In, n
<1>3. In(n) BY DEF In
<1>4. S = {}
  <2> SUFFICES ASSUME S # {} PROVE FALSE OBVIOUS
  <2>1. S \in SUBSET Nat OBVIOUS
  <2>2. PICK k \in S : \A m \in S : k <= m
    <3> HIDE DEF S
    <3>1. QED BY <2>1, Least
  <2>3. k \in Nat /\ k <= n /\ ~In(n - k) BY <2>2
  <2>4. k # 0
    <3>1. k = 0 => n - k = n BY <1>1
    <3>2. QED BY <3>1, <2>3, <1>3
  <2>5. /\ k - 1 \in Nat /\ k - 1 <= n /\ ~(k <= k - 1)
        /\ n - (k - 1) \in 1 .. n /\ n - (k - 1) - 1 = n - k
    BY <2>3, <2>4, <1>1
  <2>6. In(n - (k - 1))
    <3>1. k - 1 \notin S BY <2>2, <2>5
    <3>2. QED BY <3>1, <2>5
  <2>7. In(n - (k - 1) - 1) BY <2>5, <2>6, <1>2
  <2>8. QED BY <2>3, <2>5, <2>7
<1>5. ASSUME NEW i \in 0 .. n PROVE In(i)
  <2>1. n - i \in Nat /\ n - i <= n /\ n - (n - i) = i BY <1>1
  <2>2. n - i \notin S BY <1>4
  <2> HIDE DEF S
  <2>3. ~(~In(n - (n - i))) BY <2>1, <2>2 DEF S
  <2>4. QED BY <2>1, <2>3
<1>6. QED BY <1>5 DEF In, n

(* So is what a frame waits for, whether it joins or cancels it.             *)
LEMMA WaitsPending ==
  ASSUME IInv, Nest, NEW w \in Workers, NEW t \in Awaited(w)
  PROVE  t \in Tasks /\ t \in ToSet(pending[w])
<1>1. Types /\ frames[w] \in Seq(Frame) BY DEF IInv, Types
<1>2. Len(frames[w]) \in Nat /\ DOMAIN frames[w] = 1 .. Len(frames[w]) BY <1>1, LenProperties
<1>3. PICK i \in 1 .. Len(frames[w]) :
        /\ frames[w][i].code # << >> /\ Head(frames[w][i].code).op \in {"await", "erase"}
        /\ t = Head(frames[w][i].code).task
  BY <1>2 DEF Awaited, ToSet
<1> DEFINE f == frames[w][i]
           c == f.code
           n == Len(frames[w])
<1>4. c \in Seq(Instruction) BY <1>1, FrameTypes
<1>5. Head(c) = c[1] /\ c[1] \in Instruction BY <1>3, <1>4, EmptySeq, Replaced
<1>6. t \in Tasks /\ (c[1].op = "erase" => c[1].pos \in {1, 2}) BY <1>3, <1>5, InstructionFacts
<1>7. Layers(frames[w], pending[w]) BY DEF Nest
<1>8. PICK B \in [0 .. n -> Seq(Tasks)] :
        /\ B[n] = pending[w]
        /\ \A j \in 1 .. n : Layer(frames[w][j], B[j - 1], B[j])
  BY <1>7 DEF Layers
<1>9. ToSet(B[i]) \subseteq ToSet(pending[w])
  <2>1. i \in 0 .. n BY <1>2
  <2>2. QED BY <2>1, <1>2, <1>8, LowerLayers
<1> DEFINE a == B[i - 1]
<1>10. a \in Seq(Tasks)
  <2>1. i - 1 \in 0 .. n BY <1>2
  <2>2. QED BY <2>1, <1>8
<1>11. PICK s \in Seq(Tasks) : B[i] = a \o s /\ Stacks(c, s) BY <1>8 DEF Layer
<1> HIDE DEF a, f, c, n
<1>12. PICK r \in Seq(Tasks) : Effect(c[1], s, r) BY <1>3, <1>4, <1>11, StacksTail DEF c, f
<1>13. Len(s) \in Nat /\ Len(a) \in Nat BY <1>10, LenProperties
<1>14. \E k \in 1 .. Len(s) : s[k] = t
  <2>1. c[1].op \in {"await", "erase"} /\ c[1].task = t BY <1>3, <1>5 DEF c, f
  <2>2. CASE c[1].op = "await"
    <3>1. Adds(c[1]) = << >> /\ Takes(c[1]) = <<t>> BY <2>1, <2>2 DEF Adds, Takes
    <3>2. s \o << >> = r \o <<t>> BY <2>2, <3>1, <1>12 DEF Effect
    <3>3. s = r \o <<t>> BY <3>2, ConcatEmptySeq
    <3>4. Len(s) = Len(r) + 1 /\ Len(r) \in Nat /\ s[Len(r) + 1] = t BY <3>3, <1>6, EndsWith
    <3>5. Len(r) + 1 \in 1 .. Len(s) BY <3>4
    <3>6. QED BY <3>4, <3>5
  <2>3. CASE c[1].op = "erase"
    <3>1. c[1].pos <= Len(s) /\ s[Len(s) - c[1].pos + 1] = t BY <2>1, <2>3, <1>12 DEF Effect
    <3>2. Len(s) - c[1].pos + 1 \in 1 .. Len(s) BY <2>3, <3>1, <1>6, <1>13
    <3>3. QED BY <3>1, <3>2
  <2>4. QED BY <2>1, <2>2, <2>3
<1>15. PICK k \in 1 .. Len(s) : s[k] = t BY <1>14
<1>16. (a \o s)[Len(a) + k] = t BY <1>10, <1>15, RemovingFromEnd
<1>17. Len(a) + k \in DOMAIN (a \o s)
  <2>1. a \o s \in Seq(Tasks) /\ Len(a \o s) = Len(a) + Len(s) BY <1>10, ConcatProperties
  <2>2. DOMAIN (a \o s) = 1 .. Len(a) + Len(s) BY <2>1, LenProperties
  <2>3. QED BY <2>2, <1>13
<1>18. t \in ToSet(B[i]) BY <1>11, <1>16, <1>17 DEF ToSet
<1>19. QED BY <1>6, <1>9, <1>18

(* A context is deleted by a join that takes it out of pendingTasks when it  *)
(* has ended, so nobody runs it, queues it or has it pending any more.  And  *)
(* no wait of any worker is for it, however many tasks are piled on top, as  *)
(* long as no canceled task has skipped a fork: then joins are nested, and   *)
(* what waits has not been joined (EvaluatorUnit.cpp, join).                 *)
THEOREM DeletedIsForgotten == Spec => []NobodyHoldsDeleted
<1>1. IInv /\ Nested => NobodyHoldsDeleted
  <2> SUFFICES ASSUME IInv, Nested, NEW w \in Workers, NEW t \in deleted
               PROVE  /\ t \notin RunningTasks(w) \cup ToSet(pending[w]) \cup ToSet(jobs[w])
                                    \cup ToSet(spec[w]) \cup {grabbed[w]}
                      /\ NoForkSkipped => t \notin Awaited(w)
    BY DEF NobodyHoldsDeleted
  <2>1. Types /\ Gone BY DEF IInv
  <2>2. t \notin Held /\ t \notin Members(pending) BY <2>1 DEF Gone
  <2>3. t \in Tasks /\ t # NoTask BY <2>1, SchedulerAssumption DEF Types
  <2>4. t \notin RunningTasks(w)
    <3>1. DOMAIN frames[w] = 1 .. Len(frames[w]) BY <2>1, LenProperties DEF Types
    <3>2. Stack \in [Workers -> Seq(Tasks)] /\ Len(Stack[w]) = Len(frames[w])
          /\ \A i \in 1 .. Len(frames[w]) : Stack[w][i] = frames[w][i].task
      BY <2>1, StackFacts
    <3>3. \A i \in 1 .. Len(frames[w]) : Stack[w][i] \in Members(Stack) BY <3>2, MemberOf
    <3>4. QED BY <2>2, <3>1, <3>2, <3>3 DEF RunningTasks, Held
  <2>5. t \notin ToSet(jobs[w]) /\ t \notin ToSet(spec[w]) /\ t \notin ToSet(pending[w])
    BY <2>2 DEF Held, Queued, Members
  <2>6. t # grabbed[w] BY <2>2, <2>3 DEF Held, Queued, Hand
  <2>7. ASSUME NoForkSkipped PROVE t \notin Awaited(w)
    <3>1. Clean BY <2>7 DEF NoForkSkipped, Clean
    <3>2. Nest BY <3>1 DEF Nested
    <3>3. QED BY <3>2, <2>5, WaitsPending
  <2>8. QED BY <2>4, <2>5, <2>6, <2>7
<1>2. Spec => []Nested BY Invariance, NestedInit, NestedNext, PTL DEF Spec
<1>3. QED BY <1>1, <1>2, Invariance, PTL
=============================================================================
