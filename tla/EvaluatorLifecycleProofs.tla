----------------------- MODULE EvaluatorLifecycleProofs -----------------------
(* Proofs about EvaluatorLifecycle for any number of workers and any finite  *)
(* set of kids.  A task is in one place: in the queue, on one worker's       *)
(* stack, ready, or gone with an exception.  So when the program is ready    *)
(* all that it needs is ready too, and what still throws is not needed; and  *)
(* whoever still gathers for a collection runs a task that is not ready.     *)
EXTENDS EvaluatorLifecycle, FiniteSetTheorems, TLAPS

(* The workers that wait in runGc: each has a request that is not a job yet. *)
Gathering == {w \in Workers : pc[w] = "gather"}
RequestsCover == jobs + Cardinality(Gathering) <= requests

(* A thread that was not created yet is absent.                              *)
AbsentUntilCreated == \A w \in Workers : w > created => pc[w] = "absent"

(* A worker that runs, gathers or stops does so for the last of its frames.  *)
StackedWhileRunning ==
  \A w \in Workers : pc[w] \in {"run", "gather", "stop"} => frames[w] # << >>

(* Each task is in one place; only the program stays stacked when it is      *)
(* ready, until stop() has returned.                                         *)
OnePlace ==
  /\ \A w \in Workers : \A i \in 1 .. Len(frames[w]) :
       /\ frames[w][i] \notin queue \cup threw
       /\ frames[w][i] \in ready => pc[w] = "stop" /\ i = Len(frames[w])
  /\ \A w, u \in Workers : \A i \in 1 .. Len(frames[w]), j \in 1 .. Len(frames[u]) :
       frames[w][i] = frames[u][j] => w = u /\ i = j
  /\ queue \cap (ready \cup threw) = {}
  /\ ready \cap threw = {}

(* Nobody has heard of the kids before the program forks them.               *)
KidsAreForked ==
  ~forked => /\ Kids \cap (queue \cup ready \cup threw) = {}
             /\ \A w \in Workers : \A i \in 1 .. Len(frames[w]) : frames[w][i] \notin Kids

(* The program ends when all that it needs has ended.                        *)
ProgramEndsLast ==
  /\ Program \in ready => needed \subseteq ready
  /\ \A w \in Workers : pc[w] = "stop" => Program \in ready

(* Nobody is interrupted, let alone gone, before the program is over.        *)
InterruptedAtEnd ==
  interrupted # {} \/ (\E w \in Workers : pc[w] = "exited") => Program \in ready \/ mWasErrors

(* An exception is an error reported, or about to be.                        *)
ErrorsReported ==
  /\ (mWasErrors \/ \E w \in Workers : pc[w] = "abort") => threw # {}
  /\ threw # {} => mWasErrors \/ \E w \in Workers : pc[w] = "abort"

(* join_all has returned only when every worker has left.                    *)
AllJoined ==
  mainPc \notin {"lock", "create", "join"} => \A w \in Workers : pc[w] = "exited"

IInv ==
  /\ TypeOK
  /\ RequestsCover
  /\ AbsentUntilCreated
  /\ StackedWhileRunning
  /\ OnePlace
  /\ KidsAreForked
  /\ ProgramEndsLast
  /\ InterruptedAtEnd
  /\ ErrorsReported
  /\ AllJoined

-----------------------------------------------------------------------------
(* What Front and Last of a stack are.                                       *)
LEMMA StackTop ==
  ASSUME NEW S, NEW s \in Seq(S), s # << >>
  PROVE  /\ Len(s) \in Nat \ {0} /\ Last(s) = s[Len(s)] /\ Last(s) \in S
         /\ Front(s) \in Seq(S) /\ Len(Front(s)) = Len(s) - 1
         /\ \A i \in 1 .. Len(s) - 1 : Front(s)[i] = s[i]
<1>1. Len(s) \in Nat /\ Len(s) # 0 /\ \A i \in 1 .. Len(s) : s[i] \in S
  OBVIOUS
<1>2. Front(s) = SubSeq(s, 1, Len(s) - 1)
  BY DEF Front
<1>3. Len(s) - 1 \in 0 .. Len(s)
  BY <1>1
<1>4. \A m \in 0 .. Len(s) :
        /\ SubSeq(s, 1, m) \in Seq(S) /\ Len(SubSeq(s, 1, m)) = m
        /\ \A i \in 1 .. m : SubSeq(s, 1, m)[i] = s[i]
  OBVIOUS
<1>5. /\ Front(s) \in Seq(S) /\ Len(Front(s)) = Len(s) - 1
      /\ \A i \in 1 .. Len(s) - 1 : Front(s)[i] = s[i]
  BY <1>2, <1>3, <1>4
<1>6. Last(s) = s[Len(s)] /\ Len(s) \in 1 .. Len(s)
  BY <1>1 DEF Last
<1>7. QED
  BY <1>1, <1>5, <1>6

(* The gathering workers before and after one worker moves.                  *)
LEMMA GatheringMoves ==
  ASSUME TypeOK, NEW w \in Workers, NEW l \in Pc, pc' = [pc EXCEPT ![w] = l]
  PROVE  /\ Cardinality(Gathering) \in Nat
         /\ l = "gather" /\ pc[w] # "gather" =>
              Cardinality(Gathering') = Cardinality(Gathering) + 1
         /\ l # "gather" /\ pc[w] = "gather" =>
              Cardinality(Gathering') = Cardinality(Gathering) - 1
         /\ (l = "gather" <=> pc[w] = "gather") =>
              Cardinality(Gathering') = Cardinality(Gathering)
<1>1. IsFiniteSet(Workers)
  BY LifecycleAssumption, FS_Interval DEF Workers
<1>2. IsFiniteSet(Gathering) /\ Cardinality(Gathering) \in Nat
  BY <1>1, FS_Subset, FS_CardinalityType DEF Gathering
<1>3. CASE pc[w] # "gather" /\ l = "gather"
  <2>1. Gathering' = Gathering \cup {w} /\ w \notin Gathering
    BY <1>3 DEF Gathering, TypeOK
  <2>2. Cardinality(Gathering') = Cardinality(Gathering) + 1
    BY <1>2, <2>1, FS_AddElement
  <2>3. QED
    BY <1>2, <1>3, <2>2
<1>4. CASE pc[w] = "gather" /\ l # "gather"
  <2>1. Gathering' = Gathering \ {w} /\ w \in Gathering
    BY <1>4 DEF Gathering, TypeOK
  <2>2. Cardinality(Gathering') = Cardinality(Gathering) - 1
    BY <1>2, <2>1, FS_RemoveElement
  <2>3. QED
    BY <1>2, <1>4, <2>2
<1>5. CASE pc[w] = "gather" <=> l = "gather"
  <2>1. Gathering' = Gathering
    BY <1>5 DEF Gathering, TypeOK
  <2>2. QED
    BY <1>2, <1>5, <2>1
<1>6. QED
  BY <1>3, <1>4, <1>5

-----------------------------------------------------------------------------
(* Before the threads start every part holds.                                *)
LEMMA InitIInv == Init => IInv
<1> SUFFICES ASSUME Init PROVE IInv
  OBVIOUS
<1>1. TypeOK
  <2>1. /\ {queue, ready, threw} \subseteq SUBSET Tasks
        /\ {mStopMutex, forked, mWasErrors, mQuit, queueQuit} \subseteq BOOLEAN
    BY DEF Init, Tasks
  <2>2. frames \in [Workers -> Seq(Tasks)]
    BY DEF Init
  <2>3. QED
    BY <2>1, <2>2, LifecycleAssumption DEF Init, TypeOK, Pc
<1>2. Gathering = {} /\ Cardinality(Gathering) = 0
  BY FS_EmptySet DEF Init, Gathering
<1>3. RequestsCover
  BY <1>2 DEF Init, RequestsCover
<1>4. OnePlace /\ KidsAreForked
  BY LifecycleAssumption DEF Init, OnePlace, KidsAreForked
<1>5. QED
  BY <1>1, <1>3, <1>4 DEF Init, IInv, AbsentUntilCreated, StackedWhileRunning,
     ProgramEndsLast, InterruptedAtEnd, ErrorsReported, AllJoined

(* The main thread and the collector move no worker and no task.             *)
LEMMA OtherThreads ==
  ASSUME IInv, TypeOK',
         UNCHANGED <<needed, created, pc, frames, interrupted, tasks, mWasErrors, requests>>,
         jobs' <= jobs,
         mainPc' = mainPc \/ mainPc \notin {"lock", "create", "join"}
           \/ mainPc' \in {"create", "join"} \/ \A w \in Workers : pc[w] = "exited"
  PROVE  IInv'
<1>1. Gathering' = Gathering /\ Cardinality(Gathering) \in Nat
  <2>1. IsFiniteSet(Workers)
    BY LifecycleAssumption, FS_Interval DEF Workers
  <2>2. QED
    BY <2>1, FS_Subset, FS_CardinalityType DEF Gathering
<1>2. RequestsCover'
  BY <1>1 DEF IInv, RequestsCover, TypeOK
<1>3. AllJoined'
  BY DEF IInv, AllJoined
<1>4. OnePlace' /\ KidsAreForked'
  BY DEF IInv, OnePlace, KidsAreForked, tasks
<1>5. AbsentUntilCreated' /\ StackedWhileRunning'
  BY DEF IInv, AbsentUntilCreated, StackedWhileRunning
<1>6. ProgramEndsLast' /\ InterruptedAtEnd' /\ ErrorsReported'
  BY DEF IInv, ProgramEndsLast, InterruptedAtEnd, ErrorsReported, tasks
<1>7. QED
  BY <1>2, <1>3, <1>4, <1>5, <1>6 DEF IInv

(* A worker that goes elsewhere and takes its frames and tasks along.        *)
LEMMA WorkerMoves ==
  ASSUME IInv, TypeOK', NEW w \in Workers, NEW l \in Pc,
         pc' = [pc EXCEPT ![w] = l], w <= created',
         pc[w] \notin {"stop", "abort", "exited"}, l \notin {"stop", "abort"},
         l \in {"run", "gather"} => frames[w] # << >>,
         l = "exited" => w \in interrupted,
         created' \in {created, created + 1}, interrupted' \subseteq interrupted,
         RequestsCover', mainPc' = mainPc,
         UNCHANGED <<needed, frames, tasks, mWasErrors>>
  PROVE  IInv'
<1>. USE DEF IInv
<1>1. /\ pc'[w] = l
      /\ \A u \in Workers : u # w => pc'[u] = pc[u]
      /\ \A u \in Workers : pc'[u] = "stop" <=> pc[u] = "stop"
      /\ \A u \in Workers : pc'[u] = "abort" <=> pc[u] = "abort"
  BY DEF TypeOK
<1>2. AbsentUntilCreated'
  BY <1>1 DEF AbsentUntilCreated, TypeOK, Workers
<1>3. StackedWhileRunning'
  BY <1>1 DEF StackedWhileRunning
<1>4. OnePlace'
  BY <1>1 DEF OnePlace, tasks
<1>5. KidsAreForked' /\ ProgramEndsLast' /\ ErrorsReported'
  BY <1>1 DEF KidsAreForked, ProgramEndsLast, ErrorsReported, tasks
<1>6. InterruptedAtEnd'
  BY <1>1 DEF InterruptedAtEnd, tasks
<1>7. AllJoined'
  BY <1>1 DEF AllJoined
<1>8. QED
  BY <1>2, <1>3, <1>4, <1>5, <1>6, <1>7

-----------------------------------------------------------------------------
(* Types.  The stacks change by Append, Front and being emptied.             *)
LEMMA NextTypeOK ==
  ASSUME IInv, [Next]_vars
  PROVE  TypeOK'
<1>. USE DEF IInv, TypeOK, Pc
<1>1. CASE UNCHANGED vars
  BY <1>1 DEF vars, run, evaluator, tasks, collector
<1>2. CASE Main
  <2>1. CASE CreateThread
    <3>1. created' = created + 1 /\ created' \in 0 .. NumCores /\ created' \in Workers
      BY <2>1, LifecycleAssumption DEF CreateThread, Workers
    <3>2. QED
      BY <2>1, <3>1 DEF CreateThread, tasks, collector
  <2>2. CASE LockStop \/ UnlockStop \/ JoinAll
    BY <2>2 DEF LockStop, UnlockStop, JoinAll, tasks, collector
  <2>3. QED
    BY <1>2, <2>1, <2>2 DEF Main
<1>3. CASE Leave
  BY <1>3 DEF Leave, SetQuit, Quit, JoinCollector, evaluator, tasks, collector
<1>4. CASE CollectorStep \/ SpuriousWakeup
  BY <1>4, LifecycleAssumption DEF CollectorStep, CollectorLoop, Pop, Collect, SpuriousWakeup,
     run, evaluator, tasks
<1>5. ASSUME NEW w \in Workers, Work(w) \/ Throw(w) \/ RequestGc(w)
      PROVE  TypeOK'
  <2>. USE DEF run, tasks, collector, Goto, Running
  <2>0. /\ frames[w] \in Seq(Tasks)
        /\ frames[w] # << >> => Last(frames[w]) \in Tasks /\ Front(frames[w]) \in Seq(Tasks)
        /\ \A t \in Tasks : Append(frames[w], t) \in Seq(Tasks)
        /\ << >> \in Seq(Tasks)
    BY StackTop
  <2>1. CASE LoopHead(w) \/ PassSafePoint(w) \/ Await(w)
    BY <2>1 DEF LoopHead, PassSafePoint, Await
  <2>2. CASE RequestGc(w)
    BY <2>2, LifecycleAssumption DEF RequestGc
  <2>3. CASE RunGc(w)
    <3>1. Gathering # {} /\ IsFiniteSet(Gathering)
      <4>1. IsFiniteSet(Workers)
        BY LifecycleAssumption, FS_Interval DEF Workers
      <4>2. QED
        BY <4>1, <2>3, FS_Subset DEF Gathering, RunGc
    <3>2. Cardinality(Gathering) \in Nat /\ Cardinality(Gathering) # 0
      BY <3>1, FS_EmptySet, FS_CardinalityType
    <3>3. jobs + 1 \in 0 .. MaxRequests
      BY <3>2, LifecycleAssumption DEF RequestsCover
    <3>4. QED
      BY <2>3, <3>3 DEF RunGc, Push
  <2>4. CASE \E t \in Tasks : Take(w, t) \/ Discard(w, t)
    <3>1. PICK t \in Tasks : Take(w, t) \/ Discard(w, t)
      BY <2>4
    <3>2. CASE Take(w, t)
      BY <2>0, <3>2 DEF Take
    <3>3. CASE Discard(w, t)
      BY <2>0, <3>3 DEF Discard
    <3>4. QED
      BY <3>1, <3>2, <3>3
  <2>5. CASE Sleep(w) \/ Throw(w)
    <3>1. frames' \in [Workers -> Seq(Tasks)]
      BY <2>0, <2>5 DEF Sleep, Throw, Unwind, Return
    <3>2. threw' \in SUBSET Tasks
      BY <2>0, <2>5 DEF Sleep, Throw, Top
    <3>3. pc' \in [Workers -> Pc] /\ interrupted' \subseteq Workers
      BY <2>5 DEF Sleep, Throw, Unwind, Return
    <3>4. QED
      BY <2>5, <3>1, <3>2, <3>3 DEF Sleep, Throw
  <2>6. CASE ForkKids(w)
    BY <2>6 DEF ForkKids, Tasks
  <2>7. CASE EndKid(w)
    <3>1. frames' \in [Workers -> Seq(Tasks)] /\ ready' \in SUBSET Tasks
      BY <2>0, <2>7 DEF EndKid, Return, Top
    <3>2. pc' \in [Workers -> Pc]
      BY <2>7 DEF EndKid, Return
    <3>3. QED
      BY <2>7, <3>1, <3>2 DEF EndKid
  <2>8. CASE EndProgram(w)
    BY <2>8 DEF EndProgram, Tasks
  <2>9. CASE Stop(w)
    BY <2>0, <2>9 DEF Stop, Return, InterruptAll, StackedWhileRunning
  <2>10. CASE Abort(w)
    BY <2>10 DEF Abort, InterruptAll
  <2>11. QED
    BY <1>5, <2>1, <2>2, <2>3, <2>4, <2>5, <2>6, <2>7, <2>8, <2>9, <2>10 DEF Work
<1>6. QED
  BY <1>1, <1>2, <1>3, <1>4, <1>5 DEF Next

-----------------------------------------------------------------------------
(* The steps of a worker that keep the gathering workers as they are.        *)
LEMMA SameGathering ==
  ASSUME IInv, NEW w \in Workers, NEW l \in Pc \ {"gather"}, pc[w] # "gather",
         pc' = [pc EXCEPT ![w] = l], UNCHANGED <<requests, jobs>>
  PROVE  RequestsCover'
<1>1. TypeOK /\ l \in Pc /\ l # "gather"
  BY DEF IInv
<1>2. /\ Cardinality(Gathering) \in Nat
      /\ Cardinality(Gathering') = Cardinality(Gathering)
  BY <1>1, GatheringMoves
<1>3. QED
  BY <1>1, <1>2 DEF IInv, RequestsCover

(* A task found in the queue goes on top of the worker's frames.             *)
LEMMA TakeStep ==
  ASSUME IInv, TypeOK', NEW w \in Workers, NEW t \in Tasks, Take(w, t)
  PROVE  IInv'
<1>. USE DEF IInv, Take, Goto, run, collector
<1>1. /\ frames'[w] = Append(frames[w], t) /\ frames[w] \in Seq(Tasks)
      /\ \A u \in Workers : u # w => frames'[u] = frames[u] /\ pc'[u] = pc[u]
      /\ pc'[w] = "run"
  BY DEF TypeOK
<1>2. /\ Len(frames[w]) \in Nat /\ Len(frames'[w]) = Len(frames[w]) + 1
      /\ frames'[w][Len(frames[w]) + 1] = t
      /\ \A i \in 1 .. Len(frames[w]) : frames'[w][i] = frames[w][i]
  BY <1>1
<1>3. \A u \in Workers : Len(frames[u]) \in Nat
  BY DEF TypeOK
<1>4. RequestsCover'
  BY SameGathering DEF Pc
<1>5. AbsentUntilCreated' /\ AllJoined'
  BY <1>1 DEF AbsentUntilCreated, AllJoined
<1>6. StackedWhileRunning'
  BY <1>1, <1>2 DEF StackedWhileRunning
<1>7. t \in queue /\ t \notin ready \cup threw /\ queue' = queue \ {t}
  BY DEF OnePlace
<1>8. OnePlace'
  <2>1. \A u \in Workers : \A i \in 1 .. Len(frames'[u]) :
          /\ frames'[u][i] \notin queue' \cup threw
          /\ frames'[u][i] \in ready => pc'[u] = "stop" /\ i = Len(frames'[u])
    <3>1. ASSUME NEW u \in Workers, u # w, NEW i \in 1 .. Len(frames'[u])
          PROVE  /\ frames'[u][i] \notin queue' \cup threw
                 /\ frames'[u][i] \in ready => pc'[u] = "stop" /\ i = Len(frames'[u])
      BY <3>1, <1>1 DEF OnePlace
    <3>2. ASSUME NEW i \in 1 .. Len(frames'[w])
          PROVE  frames'[w][i] \notin queue' \cup threw \cup ready
      <4>1. CASE i \in 1 .. Len(frames[w])
        BY <4>1, <1>2 DEF OnePlace
      <4>2. CASE i = Len(frames[w]) + 1
        BY <4>2, <1>2, <1>7
      <4>3. QED
        BY <1>2, <4>1, <4>2
    <3>3. QED
      BY <3>1, <3>2
  <2>2. \A u, v \in Workers : \A i \in 1 .. Len(frames'[u]), j \in 1 .. Len(frames'[v]) :
          frames'[u][i] = frames'[v][j] => u = v /\ i = j
    <3>1. \A u \in Workers : \A i \in 1 .. Len(frames[u]) : frames[u][i] # t
      BY <1>7 DEF OnePlace
    <3>2. \A u \in Workers : \A i \in 1 .. Len(frames'[u]) :
            \/ i \in 1 .. Len(frames[u]) /\ frames'[u][i] = frames[u][i]
            \/ u = w /\ i = Len(frames[w]) + 1 /\ frames'[u][i] = t
      BY <1>1, <1>2
    <3>3. QED
      BY <3>1, <3>2 DEF OnePlace
  <2>3. QED
    BY <2>1, <2>2, <1>7 DEF OnePlace
<1>9. KidsAreForked'
  <2> SUFFICES ASSUME ~forked, NEW u \in Workers, NEW i \in 1 .. Len(frames'[u])
               PROVE  frames'[u][i] \notin Kids
    BY <1>7 DEF KidsAreForked
  <2>1. frames'[u][i] = t \/ (i \in 1 .. Len(frames[u]) /\ frames'[u][i] = frames[u][i])
    BY <1>1, <1>2
  <2>2. t \notin Kids
    BY <1>7 DEF KidsAreForked
  <2>3. QED
    BY <2>1, <2>2 DEF KidsAreForked
<1>10. ProgramEndsLast' /\ InterruptedAtEnd' /\ ErrorsReported'
  BY <1>1 DEF ProgramEndsLast, InterruptedAtEnd, ErrorsReported
<1>11. QED
  BY <1>4, <1>5, <1>6, <1>8, <1>9, <1>10

(* A worker drops the last of its frames, or all of them; the last one may   *)
(* have become ready or have thrown.                                         *)
LEMMA Unstacks ==
  ASSUME IInv, TypeOK', NEW w \in Workers, pc'[w] # "stop",
         \A u \in Workers : u # w => frames'[u] = frames[u] /\ pc'[u] = pc[u],
         Len(frames'[w]) <= Len(frames[w]),
         \A i \in 1 .. Len(frames'[w]) : frames'[w][i] = frames[w][i],
         pc[w] # "stop" \/ Len(frames'[w]) < Len(frames[w]),
         queue' = queue, forked' = forked,
         \/ ready' = ready /\ threw' = threw
         \/ /\ pc[w] # "stop" /\ Len(frames'[w]) < Len(frames[w])
            /\ \/ threw' = threw /\ ready' = ready \cup {frames[w][Len(frames[w])]}
               \/ ready' = ready /\ threw' = threw \cup {frames[w][Len(frames[w])]}
  PROVE  OnePlace' /\ KidsAreForked'
<1>. USE DEF IInv
<1>. DEFINE n == Len(frames[w])
            x == frames[w][n]
<1>1. /\ n \in Nat /\ Len(frames'[w]) \in Nat
      /\ \A u \in Workers : Len(frames[u]) \in Nat
  BY DEF TypeOK
<1>2. \A u \in Workers : \A i \in 1 .. Len(frames'[u]) :
        i \in 1 .. Len(frames[u]) /\ frames'[u][i] = frames[u][i]
  BY <1>1
<1>3. ASSUME ready' # ready \/ threw' # threw
      PROVE  /\ n \in 1 .. n /\ pc[w] # "stop" /\ x \notin queue \cup threw \cup ready
             /\ \A u \in Workers : \A i \in 1 .. Len(frames'[u]) : frames'[u][i] # x
  <2>1. n \in 1 .. n /\ Len(frames'[w]) < n /\ pc[w] # "stop"
    BY <1>1, <1>3
  <2>2. x \notin queue \cup threw \cup ready
    BY <2>1 DEF OnePlace
  <2>3. ASSUME NEW u \in Workers, NEW i \in 1 .. Len(frames'[u])
        PROVE  frames'[u][i] # x
    BY <1>1, <1>2, <2>1 DEF OnePlace
  <2>4. QED
    BY <2>1, <2>2, <2>3
<1>4. /\ ready' = ready \/ ready' = ready \cup {x}
      /\ threw' = threw \/ threw' = threw \cup {x}
      /\ ready' = ready \/ threw' = threw
  OBVIOUS
<1>5. ASSUME NEW u \in Workers, NEW i \in 1 .. Len(frames'[u])
      PROVE  /\ frames'[u][i] \notin queue' \cup threw'
             /\ frames'[u][i] \in ready' => pc'[u] = "stop" /\ i = Len(frames'[u])
  <2>1. /\ frames[u][i] \notin queue \cup threw
        /\ frames[u][i] \in ready => pc[u] = "stop" /\ i = Len(frames[u])
    BY <1>2 DEF OnePlace
  <2>2. frames'[u][i] = frames[u][i]
    BY <1>2
  <2>3. frames'[u][i] \notin queue' \cup threw'
    BY <1>3, <1>4, <2>1, <2>2
  <2>4. ASSUME frames'[u][i] \in ready'
        PROVE  pc'[u] = "stop" /\ i = Len(frames'[u])
    <3>1. frames[u][i] \in ready
      BY <1>3, <1>4, <2>2, <2>4
    <3>2. CASE u # w
      BY <1>1, <2>1, <3>1, <3>2
    <3>3. CASE u = w
      BY <1>1, <2>1, <3>1, <3>3
    <3>4. QED
      BY <3>2, <3>3
  <2>5. QED
    BY <2>3, <2>4
<1>6. \A u, v \in Workers : \A i \in 1 .. Len(frames'[u]), j \in 1 .. Len(frames'[v]) :
        frames'[u][i] = frames'[v][j] => u = v /\ i = j
  BY <1>2 DEF OnePlace
<1>7. queue' \cap (ready' \cup threw') = {} /\ ready' \cap threw' = {}
  BY <1>3, <1>4 DEF OnePlace
<1>8. OnePlace'
  BY <1>5, <1>6, <1>7 DEF OnePlace
<1>9. KidsAreForked'
  <2> SUFFICES ASSUME ~forked
               PROVE  /\ Kids \cap (queue \cup ready' \cup threw') = {}
                      /\ \A u \in Workers : \A i \in 1 .. Len(frames'[u]) : frames'[u][i] \notin Kids
    BY DEF KidsAreForked
  <2>1. ready' # ready \/ threw' # threw => x \notin Kids
    BY <1>3 DEF KidsAreForked
  <2>2. QED
    BY <1>2, <1>4, <2>1 DEF KidsAreForked
<1>10. QED
  BY <1>8, <1>9

(* A task that is not the program becomes ready and leaves the stack.        *)
LEMMA EndKidStep ==
  ASSUME IInv, TypeOK', NEW w \in Workers, EndKid(w)
  PROVE  IInv'
<1>. USE DEF IInv, EndKid, Goto, Running, Return, Top, run, collector
<1>1. /\ Len(frames[w]) \in Nat \ {0} /\ Last(frames[w]) = frames[w][Len(frames[w])]
      /\ Front(frames[w]) \in Seq(Tasks) /\ Len(Front(frames[w])) = Len(frames[w]) - 1
      /\ \A i \in 1 .. Len(frames[w]) - 1 : Front(frames[w])[i] = frames[w][i]
  <2>1. frames[w] \in Seq(Tasks) /\ frames[w] # << >>
    BY DEF TypeOK
  <2>2. QED
    BY <2>1, StackTop
<1>2. PICK l \in {"top", "run"} : /\ pc' = [pc EXCEPT ![w] = l]
                                  /\ l = "run" => Front(frames[w]) # << >>
  OBVIOUS
<1>3. /\ frames'[w] = Front(frames[w]) /\ pc'[w] = l
      /\ \A u \in Workers : u # w => frames'[u] = frames[u] /\ pc'[u] = pc[u]
  BY <1>2 DEF TypeOK
<1>4. OnePlace' /\ KidsAreForked'
  BY <1>1, <1>2, <1>3, Unstacks
<1>5. RequestsCover'
  BY <1>2, SameGathering DEF Pc
<1>6. AbsentUntilCreated' /\ StackedWhileRunning' /\ AllJoined'
  BY <1>2, <1>3 DEF AbsentUntilCreated, StackedWhileRunning, AllJoined
<1>7. ProgramEndsLast'
  BY <1>2, <1>3, LifecycleAssumption DEF ProgramEndsLast
<1>8. InterruptedAtEnd' /\ ErrorsReported'
  BY <1>2, <1>3 DEF InterruptedAtEnd, ErrorsReported
<1>9. QED
  BY <1>4, <1>5, <1>6, <1>7, <1>8

(* An exception takes the whole stack away; only tasks that are not ready    *)
(* throw, so once the program is ready only what it does not need.           *)
LEMMA ThrowStep ==
  ASSUME IInv, TypeOK', NEW w \in Workers, Throw(w)
  PROVE  IInv'
<1>. USE DEF IInv, Throw, Goto, Running, Unwind, Top, run, collector
<1>1. /\ frames[w] \in Seq(Tasks) /\ frames[w] # << >>
      /\ frames'[w] = << >> /\ pc'[w] = "abort" /\ pc' = [pc EXCEPT ![w] = "abort"]
      /\ \A u \in Workers : u # w => frames'[u] = frames[u] /\ pc'[u] = pc[u]
  BY DEF TypeOK
<1>2. Len(frames[w]) \in Nat \ {0} /\ Last(frames[w]) = frames[w][Len(frames[w])]
  BY <1>1, StackTop
<1>3. OnePlace' /\ KidsAreForked'
  BY <1>1, <1>2, Unstacks
<1>4. RequestsCover'
  BY <1>1, SameGathering DEF Pc
<1>5. AbsentUntilCreated' /\ StackedWhileRunning' /\ AllJoined'
  BY <1>1 DEF AbsentUntilCreated, StackedWhileRunning, AllJoined
<1>6. ProgramEndsLast' /\ InterruptedAtEnd'
  BY <1>1 DEF ProgramEndsLast, InterruptedAtEnd
<1>7. ErrorsReported'
  BY <1>1 DEF ErrorsReported
<1>8. QED
  BY <1>3, <1>4, <1>5, <1>6, <1>7

(* No task for this worker: it leaves, or returns to what it was doing.      *)
LEMMA SleepStep ==
  ASSUME IInv, TypeOK', NEW w \in Workers, Sleep(w)
  PROVE  IInv'
<1>. USE DEF IInv, Sleep, Goto, Unwind, Return, run, tasks, collector
<1>1. /\ frames[w] \in Seq(Tasks) /\ frames'[w] \in {frames[w], << >>}
      /\ pc'[w] \in {"exited", "top", "run"}
      /\ pc'[w] = "run" => frames'[w] # << >>
      /\ pc'[w] = "exited" => w \in interrupted
      /\ pc' = [pc EXCEPT ![w] = pc'[w]]
      /\ \A u \in Workers : u # w => frames'[u] = frames[u] /\ pc'[u] = pc[u]
  BY DEF TypeOK
<1>2. Len(frames'[w]) <= Len(frames[w]) /\ Len(frames[w]) \in Nat
  BY <1>1
<1>3. OnePlace' /\ KidsAreForked'
  BY <1>1, <1>2, Unstacks
<1>4. RequestsCover'
  BY <1>1, SameGathering DEF Pc
<1>5. AbsentUntilCreated' /\ StackedWhileRunning' /\ AllJoined'
  BY <1>1 DEF AbsentUntilCreated, StackedWhileRunning, AllJoined
<1>6. ProgramEndsLast' /\ ErrorsReported'
  BY <1>1 DEF ProgramEndsLast, ErrorsReported
<1>7. InterruptedAtEnd'
  BY <1>1 DEF InterruptedAtEnd
<1>8. QED
  BY <1>3, <1>4, <1>5, <1>6, <1>7

(* stop() by the worker that has run the program, which leaves its stack.    *)
LEMMA StopStep ==
  ASSUME IInv, TypeOK', NEW w \in Workers, Stop(w)
  PROVE  IInv'
<1>. USE DEF IInv, Stop, Goto, Return, run, tasks, collector
<1>1. /\ Len(frames[w]) \in Nat \ {0}
      /\ Len(Front(frames[w])) = Len(frames[w]) - 1
      /\ \A i \in 1 .. Len(frames[w]) - 1 : Front(frames[w])[i] = frames[w][i]
  <2>1. frames[w] \in Seq(Tasks) /\ frames[w] # << >>
    BY DEF TypeOK, StackedWhileRunning
  <2>2. QED
    BY <2>1, StackTop
<1>2. /\ frames'[w] = Front(frames[w]) /\ pc'[w] \in {"top", "run"}
      /\ pc'[w] = "run" => frames'[w] # << >>
      /\ pc' = [pc EXCEPT ![w] = pc'[w]]
      /\ \A u \in Workers : u # w => frames'[u] = frames[u] /\ pc'[u] = pc[u]
  BY DEF TypeOK
<1>3. OnePlace' /\ KidsAreForked'
  BY <1>1, <1>2, Unstacks
<1>4. RequestsCover'
  BY <1>2, SameGathering DEF Pc
<1>5. AbsentUntilCreated' /\ StackedWhileRunning' /\ AllJoined'
  BY <1>2 DEF AbsentUntilCreated, StackedWhileRunning, AllJoined
<1>6. ProgramEndsLast' /\ ErrorsReported' /\ InterruptedAtEnd'
  BY <1>2 DEF ProgramEndsLast, ErrorsReported, InterruptedAtEnd
<1>7. QED
  BY <1>3, <1>4, <1>5, <1>6

(* abort() reports the error of the exception that unwound the worker.       *)
LEMMA AbortStep ==
  ASSUME IInv, TypeOK', NEW w \in Workers, Abort(w)
  PROVE  IInv'
<1>. USE DEF IInv, Abort, Goto, run, tasks, collector
<1>1. /\ pc'[w] = "top" /\ pc' = [pc EXCEPT ![w] = "top"]
      /\ \A u \in Workers : u # w => pc'[u] = pc[u]
  BY DEF TypeOK
<1>2. RequestsCover'
  BY <1>1, SameGathering DEF Pc
<1>3. AbsentUntilCreated' /\ StackedWhileRunning' /\ AllJoined'
  BY <1>1 DEF AbsentUntilCreated, StackedWhileRunning, AllJoined
<1>4. OnePlace' /\ KidsAreForked'
  BY <1>1 DEF OnePlace, KidsAreForked
<1>5. ProgramEndsLast' /\ ErrorsReported' /\ InterruptedAtEnd'
  BY <1>1 DEF ProgramEndsLast, ErrorsReported, InterruptedAtEnd
<1>6. QED
  BY <1>2, <1>3, <1>4, <1>5

(* The program forks its kids, which nobody had before.                      *)
LEMMA ForkKidsStep ==
  ASSUME IInv, TypeOK', NEW w \in Workers, ForkKids(w)
  PROVE  IInv'
<1>. USE DEF IInv, ForkKids, run, collector
<1>1. OnePlace'
  BY DEF OnePlace, KidsAreForked
<1>2. KidsAreForked'
  BY DEF KidsAreForked
<1>3. RequestsCover'
  BY DEF RequestsCover, Gathering
<1>4. QED
  BY <1>1, <1>2, <1>3 DEF AbsentUntilCreated, StackedWhileRunning, AllJoined,
     ProgramEndsLast, ErrorsReported, InterruptedAtEnd

(* The program is ready, and so is all that it needs.                        *)
LEMMA EndProgramStep ==
  ASSUME IInv, TypeOK', NEW w \in Workers, EndProgram(w)
  PROVE  IInv'
<1>. USE DEF IInv, EndProgram, Goto, Running, Top, run, collector
<1>1. /\ frames[w] \in Seq(Tasks) /\ frames[w] # << >>
      /\ pc'[w] = "stop" /\ pc' = [pc EXCEPT ![w] = "stop"]
      /\ \A u \in Workers : u # w => pc'[u] = pc[u]
  BY DEF TypeOK
<1>2. /\ Len(frames[w]) \in 1 .. Len(frames[w])
      /\ frames[w][Len(frames[w])] = Program
  <2>1. Len(frames[w]) \in Nat \ {0} /\ Last(frames[w]) = frames[w][Len(frames[w])]
    BY <1>1, StackTop
  <2>2. QED
    BY <2>1
<1>3. RequestsCover'
  BY <1>1, SameGathering DEF Pc
<1>4. AbsentUntilCreated' /\ StackedWhileRunning' /\ AllJoined'
  BY <1>1 DEF AbsentUntilCreated, StackedWhileRunning, AllJoined
<1>5. OnePlace'
  BY <1>1, <1>2 DEF OnePlace
<1>6. KidsAreForked' /\ ProgramEndsLast'
  BY <1>1, LifecycleAssumption DEF KidsAreForked, ProgramEndsLast
<1>7. ErrorsReported' /\ InterruptedAtEnd'
  BY <1>1 DEF ErrorsReported, InterruptedAtEnd
<1>8. QED
  BY <1>3, <1>4, <1>5, <1>6, <1>7

(* A canceled task leaves the queue and goes nowhere.                        *)
LEMMA DiscardStep ==
  ASSUME IInv, TypeOK', NEW w \in Workers, NEW t \in Tasks, Discard(w, t)
  PROVE  IInv'
<1>. USE DEF IInv, Discard, run, collector
<1>1. OnePlace' /\ KidsAreForked'
  BY DEF OnePlace, KidsAreForked
<1>2. RequestsCover'
  BY DEF RequestsCover, Gathering
<1>3. QED
  BY <1>1, <1>2 DEF AbsentUntilCreated, StackedWhileRunning, AllJoined,
     ProgramEndsLast, ErrorsReported, InterruptedAtEnd

-----------------------------------------------------------------------------
(* Every step keeps the inductive invariant.                                 *)
LEMMA NextIInv == IInv /\ [Next]_vars => IInv'
<1> SUFFICES ASSUME IInv, [Next]_vars PROVE IInv'
  OBVIOUS
<1>. USE DEF run, tasks, collector, evaluator
<1>1. TypeOK'
  BY NextTypeOK
<1>2. CASE UNCHANGED vars
  BY <1>1, <1>2, OtherThreads DEF vars, IInv, TypeOK
<1>3. CASE Main
  <2>1. CASE LockStop \/ UnlockStop \/ JoinAll
    BY <1>1, <2>1, OtherThreads DEF LockStop, UnlockStop, JoinAll, IInv, TypeOK
  <2>2. CASE CreateThread
    <3>1. /\ created' \in Workers /\ created' = created + 1 /\ pc[created'] = "absent"
          /\ pc' = [pc EXCEPT ![created'] = "top"]
      BY <2>2, LifecycleAssumption DEF CreateThread, IInv, TypeOK, Workers, AbsentUntilCreated
    <3>2. RequestsCover'
      BY <2>2, <3>1, SameGathering DEF CreateThread, Pc
    <3>3. created' <= created'
      BY <3>1 DEF Workers
    <3>4. QED
      BY <1>1, <2>2, <3>1, <3>2, <3>3, WorkerMoves DEF CreateThread, Pc
  <2>3. QED
    BY <1>3, <2>1, <2>2 DEF Main
<1>4. CASE Leave
  BY <1>1, <1>4, OtherThreads DEF Leave, SetQuit, Quit, JoinCollector, IInv, TypeOK
<1>5. CASE CollectorStep \/ SpuriousWakeup
  <2>1. jobs' <= jobs
    BY <1>5 DEF CollectorStep, CollectorLoop, Pop, Collect, SpuriousWakeup, IInv, TypeOK
  <2>2. QED
    BY <1>1, <1>5, <2>1, OtherThreads
       DEF CollectorStep, CollectorLoop, Pop, Collect, SpuriousWakeup
<1>6. ASSUME NEW w \in Workers, Work(w) \/ Throw(w) \/ RequestGc(w)
      PROVE  IInv'
  <2>. USE DEF Goto, Running
  <2>1. pc[w] # "absent" => w <= created
    BY DEF IInv, AbsentUntilCreated, TypeOK, Workers
  <2>2. CASE LoopHead(w) \/ PassSafePoint(w) \/ Await(w)
    <3>1. PICK l \in {"exited", "safe", "pick"} :
            pc' = [pc EXCEPT ![w] = l] /\ (l = "exited" => w \in interrupted)
      BY <2>2 DEF LoopHead, PassSafePoint, Await
    <3>2. pc[w] \in {"top", "safe", "run"} /\ UNCHANGED <<requests, jobs>>
      BY <2>2 DEF LoopHead, PassSafePoint, Await
    <3>3. RequestsCover'
      BY <3>1, <3>2, SameGathering DEF Pc
    <3>4. QED
      BY <1>1, <2>1, <2>2, <3>1, <3>2, <3>3, WorkerMoves DEF LoopHead, PassSafePoint, Await, Pc
  <2>3. CASE RequestGc(w)
    <3>1. RequestsCover'
      <4>1. /\ TypeOK /\ pc[w] # "gather" /\ "gather" \in Pc
            /\ pc' = [pc EXCEPT ![w] = "gather"]
            /\ requests' = requests + 1 /\ jobs' = jobs
        BY <2>3 DEF RequestGc, IInv, Pc
      <4>2. /\ Cardinality(Gathering) \in Nat
            /\ Cardinality(Gathering') = Cardinality(Gathering) + 1
        BY <4>1, GatheringMoves
      <4>3. QED
        BY <4>1, <4>2 DEF RequestsCover, IInv, TypeOK
    <3>2. QED
      BY <1>1, <2>1, <2>3, <3>1, WorkerMoves DEF RequestGc, Pc
  <2>4. CASE RunGc(w)
    <3>1. RequestsCover'
      <4>1. /\ TypeOK /\ pc[w] = "gather" /\ "run" \in Pc
            /\ pc' = [pc EXCEPT ![w] = "run"]
            /\ requests' = requests /\ jobs' = jobs + 1
        BY <2>4 DEF RunGc, Push, IInv, Pc
      <4>2. /\ Cardinality(Gathering) \in Nat
            /\ Cardinality(Gathering') = Cardinality(Gathering) - 1
        BY <4>1, GatheringMoves
      <4>3. QED
        BY <4>1, <4>2 DEF RequestsCover, IInv, TypeOK
    <3>2. frames[w] # << >>
      BY <2>4 DEF RunGc, IInv, StackedWhileRunning
    <3>3. QED
      BY <1>1, <2>1, <2>4, <3>1, <3>2, WorkerMoves DEF RunGc, Pc
  <2>5. CASE \E t \in Tasks : Take(w, t) \/ Discard(w, t)
    BY <1>1, <2>5, TakeStep, DiscardStep
  <2>6. QED
    BY <1>1, <1>6, <2>2, <2>3, <2>4, <2>5, SleepStep, ThrowStep, StopStep, AbortStep,
       ForkKidsStep, EndKidStep, EndProgramStep DEF Work
<1>7. QED
  BY <1>2, <1>3, <1>4, <1>5, <1>6 DEF Next

(* For any number of workers and any finite set of kids, IInv always holds.  *)
THEOREM Invariance == Spec => []IInv
BY InitIInv, NextIInv, PTL DEF Spec

(* Every variable keeps its type: there are never more jobs for the          *)
(* collector than collections asked for.                                     *)
THEOREM TypeCorrect == Spec => []TypeOK
BY Invariance, PTL DEF IInv

(* When run() has joined the workers it has a result or has reported an      *)
(* error, and an exception of a task that the program needs excludes the     *)
(* result.                                                                   *)
THEOREM RunEndsInResultOrError == Spec => []ResultOrError
<1>1. IInv => ResultOrError
  <2> SUFFICES ASSUME IInv, mainPc \notin {"lock", "create", "join"}
               PROVE  /\ Program \in ready \/ mWasErrors
                      /\ Program \in ready /\ mWasErrors => threw \subseteq Kids \ needed
                      /\ mWasErrors <=> threw # {}
    BY DEF ResultOrError
  <2>1. 1 \in Workers /\ \A w \in Workers : pc[w] = "exited"
    BY LifecycleAssumption DEF IInv, AllJoined, Workers
  <2>2. Program \in ready \/ mWasErrors
    BY <2>1 DEF IInv, InterruptedAtEnd
  <2>3. mWasErrors <=> threw # {}
    BY <2>1 DEF IInv, ErrorsReported, TypeOK
  <2>4. Program \in ready => threw \subseteq Kids \ needed
    BY DEF IInv, OnePlace, ProgramEndsLast, TypeOK, Tasks
  <2>5. QED
    BY <2>2, <2>3, <2>4
<1>2. QED
  BY <1>1, Invariance, PTL

(* A worker waits for ever in runGc only after a failure or for the sake of  *)
(* a branch that the program does not need: in a program that joins all it   *)
(* forks and does not throw, whoever could gather has nothing left to run.   *)
THEOREM NoStuckWithoutFailure == Spec => []StuckOnlyAfterFailure
<1>1. IInv => StuckOnlyAfterFailure
  <2> SUFFICES ASSUME IInv, threw = {}, needed = Kids,
                      NEW w \in Workers, NEW u \in Workers,
                      pc[w] = "gather", pc[u] = "exited"
               PROVE  FALSE
    BY DEF StuckOnlyAfterFailure, Stuck
  <2>1. Program \in ready
    BY DEF IInv, InterruptedAtEnd, ErrorsReported
  <2>2. Tasks \subseteq ready
    BY <2>1 DEF IInv, ProgramEndsLast, Tasks
  <2>3. frames[w] \in Seq(Tasks) /\ frames[w] # << >>
    BY DEF IInv, StackedWhileRunning, TypeOK
  <2>4. 1 \in 1 .. Len(frames[w]) /\ frames[w][1] \in Tasks
    BY <2>3
  <2>5. QED
    BY <2>2, <2>4 DEF IInv, OnePlace
<1>2. QED
  BY <1>1, Invariance, PTL
=============================================================================
