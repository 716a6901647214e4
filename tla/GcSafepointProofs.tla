-------------------------- MODULE GcSafepointProofs --------------------------
(* Proofs about GcSafepoint for any finite set of threads.  The heart is     *)
(* counting: mStopped is the number of threads in the two waits, so when it  *)
(* equals mThreads every thread is in one of them, and since only the holder *)
(* of mGcMutex can be in runGc's wait, all the others are parked.  They stay *)
(* parked because mStop stands until the holder has finished.                *)
EXTENDS GcSafepoint, FiniteSetTheorems, TLAPS

(* The part of the collection during which mStop commands the others.        *)
Commanding == {"gather", "scan", "resume"}

(* Whoever is between try_lock and unlock holds mGcMutex.                    *)
HolderCollects == \A t \in Threads : pc[t] \in Collecting <=> mGcMutex = t

(* The command to stop stands exactly while a collection needs it.           *)
CommandStands == mStop <=> \E t \in Threads : pc[t] \in Commanding

IInv ==
  /\ TypeOK
  /\ StoppedIsExact
  /\ HolderCollects
  /\ CommandStands
  /\ StopTheWorld

-----------------------------------------------------------------------------
(* How the set of waiting threads, and its size, change with one thread's    *)
(* program counter.                                                          *)
LEMMA WaitFinite ==
  ASSUME NEW p
  PROVE  /\ IsFiniteSet(InWait(p))
         /\ Cardinality(InWait(p)) \in Nat
         /\ Cardinality(InWait(p)) = mThreads => InWait(p) = Threads
<1>1. InWait(p) \in SUBSET Threads
  BY DEF InWait
<1>2. QED
  BY <1>1, ThreadsAssumption, FS_Subset, FS_CardinalityType DEF mThreads

(* A step between two places inside, or two places outside, the waits leaves *)
(* the set of waiting threads alone.                                         *)
LEMMA WaitSame ==
  ASSUME NEW p \in [Threads -> Pc], NEW t \in Threads, NEW l \in Pc,
         p[t] \in Waiting <=> l \in Waiting
  PROVE  InWait([p EXCEPT ![t] = l]) = InWait(p)
BY DEF InWait

(* A thread that enters a wait raises the number of waiting threads by one.  *)
LEMMA WaitEnter ==
  ASSUME NEW p \in [Threads -> Pc], NEW t \in Threads, NEW l \in Waiting,
         p[t] \notin Waiting
  PROVE  /\ InWait([p EXCEPT ![t] = l]) = InWait(p) \cup {t}
         /\ Cardinality(InWait([p EXCEPT ![t] = l])) = Cardinality(InWait(p)) + 1
<1>1. InWait([p EXCEPT ![t] = l]) = InWait(p) \cup {t}
  BY DEF InWait
<1>2. t \notin InWait(p)
  BY DEF InWait
<1>3. QED
  BY <1>1, <1>2, WaitFinite, FS_AddElement

(* A thread that leaves a wait lowers it by one.                             *)
LEMMA WaitLeave ==
  ASSUME NEW p \in [Threads -> Pc], NEW t \in Threads, NEW l \in Pc \ Waiting,
         p[t] \in Waiting
  PROVE  /\ InWait([p EXCEPT ![t] = l]) = InWait(p) \ {t}
         /\ Cardinality(InWait([p EXCEPT ![t] = l])) = Cardinality(InWait(p)) - 1
<1>1. InWait([p EXCEPT ![t] = l]) = InWait(p) \ {t}
  BY DEF InWait
<1>2. t \in InWait(p)
  BY DEF InWait
<1>3. QED
  BY <1>1, <1>2, WaitFinite, FS_RemoveElement

(* If all the threads but t are waiting, and t holds mGcMutex, then all the  *)
(* others are parked: runGc's wait is for the holder alone.                  *)
LEMMA OthersParked ==
  ASSUME TypeOK, HolderCollects, NEW t \in Threads, mGcMutex = t,
         Threads \ {t} \subseteq InWait(pc)
  PROVE  \A u \in Threads \ {t} : pc[u] = "parked"
BY DEF InWait, HolderCollects, Waiting, Collecting

-----------------------------------------------------------------------------
(* Nobody waits, collects or commands at first.                              *)
LEMMA InitIInv == Init => IInv
<1> SUFFICES ASSUME Init PROVE IInv
  OBVIOUS
<1>1. InWait(pc) = {}
  BY DEF Init, InWait, Waiting
<1>2. Cardinality(InWait(pc)) = 0
  BY <1>1, FS_EmptySet
<1>3. TypeOK
  BY DEF Init, TypeOK, Pc
<1>4. HolderCollects
  BY ThreadsAssumption DEF Init, HolderCollects, Collecting
<1>5. CommandStands
  BY DEF Init, CommandStands, Commanding
<1>6. StopTheWorld
  BY DEF Init, StopTheWorld
<1>7. QED
  BY <1>2, <1>3, <1>4, <1>5, <1>6 DEF IInv, StoppedIsExact, Init

(* The steps that move no thread into or out of a wait and leave the command *)
(* and the mutex alone.                                                      *)
LEMMA QuietStep ==
  ASSUME IInv, NEW t \in Threads, NEW l \in Pc,
         UNCHANGED <<mStop, mStopped, mGcMutex>>,
         pc' = [pc EXCEPT ![t] = l],
         pc[t] \in Waiting <=> l \in Waiting,
         pc[t] \in Collecting <=> l \in Collecting,
         pc[t] \in Commanding <=> l \in Commanding,
         pc[t] # "parked", l = "scan" => pc[t] = "scan",
         TypeOK'
  PROVE  IInv'
<1>. USE DEF IInv
<1>1. StoppedIsExact'
  BY WaitSame DEF StoppedIsExact, TypeOK
<1>2. HolderCollects'
  BY DEF HolderCollects, TypeOK
<1>3. CommandStands'
  BY DEF CommandStands, TypeOK
<1>4. StopTheWorld'
  <2> SUFFICES ASSUME NEW v \in Threads, pc'[v] \in {"scan", "resume"},
                      NEW u \in Threads \ {v}
               PROVE  pc'[u] = "parked"
    BY DEF StopTheWorld
  <2>1. CASE v # t
    BY <2>1 DEF StopTheWorld, TypeOK
  <2>2. CASE v = t /\ l = "scan"
    BY <2>2 DEF StopTheWorld, TypeOK
  <2>3. CASE v = t /\ l = "resume"
    BY <2>3 DEF StopTheWorld, TypeOK, Commanding, Waiting
  <2>4. QED
    BY <2>1, <2>2, <2>3 DEF TypeOK
<1>5. QED
  BY <1>1, <1>2, <1>3, <1>4

(* The steps that change only who is asleep or whether the workers are       *)
(* interrupted.                                                              *)
LEMMA IdleStep ==
  ASSUME IInv, UNCHANGED <<mStop, mStopped, mGcMutex, pc, ret>>,
         asleep' \subseteq Threads, interrupted' \in BOOLEAN
  PROVE  IInv'
BY DEF IInv, TypeOK, StoppedIsExact, HolderCollects, CommandStands, StopTheWorld

(* Every action leaves every variable in its type.                           *)
LEMMA NextTypeOK ==
  ASSUME IInv, [Next]_vars
  PROVE  TypeOK'
<1>. USE DEF IInv, TypeOK, Pc, Collecting, GoTo
<1>1. CASE UNCHANGED vars
  BY <1>1 DEF vars
<1>2. ASSUME NEW t \in Threads, GcStep(t)
      PROVE  TypeOK'
  <2>1. CASE TryLock(t)
    BY <2>1 DEF TryLock
  <2>2. CASE Poll(t)
    BY <2>2 DEF Poll
  <2>3. CASE Schedule(t)
    BY <2>3 DEF Schedule
  <2>4. CASE EnterSafePoint(t)
    BY <2>4 DEF EnterSafePoint
  <2>5. CASE LeaveSafePoint(t)
    <3>1. pc[t] \in Waiting
      BY <2>5 DEF LeaveSafePoint, Waiting
    <3>2. Cardinality(InWait(pc)) # 0
      BY <3>1, WaitFinite, FS_EmptySet DEF InWait
    <3>3. mStopped - 1 \in Nat
      BY <3>2 DEF StoppedIsExact
    <3>4. QED
      BY <2>5, <3>3 DEF LeaveSafePoint
  <2>6. CASE BeginStop(t)
    BY <2>6 DEF BeginStop
  <2>7. CASE Gather(t)
    <3>1. pc[t] \in Waiting
      BY <2>7 DEF Gather, Waiting
    <3>2. Cardinality(InWait(pc)) # 0
      BY <3>1, WaitFinite, FS_EmptySet DEF InWait
    <3>3. mStopped - 1 \in Nat
      BY <3>2 DEF StoppedIsExact
    <3>4. QED
      BY <2>7, <3>3 DEF Gather
  <2>8. CASE Scan(t)
    BY <2>8 DEF Scan
  <2>9. CASE Resume(t)
    BY <2>9 DEF Resume
  <2>10. CASE Unlock(t)
    BY <2>10 DEF Unlock
  <2>11. QED
    BY <1>2, <2>1, <2>2, <2>3, <2>4, <2>5, <2>6, <2>7, <2>8, <2>9, <2>10 DEF GcStep
<1>3. ASSUME NEW t \in Threads,
             Request(t) \/ SpuriousWakeup(t) \/ Interrupt(t) \/ Exit(t)
      PROVE  TypeOK'
  BY <1>3 DEF Request, SpuriousWakeup, Interrupt, Exit
<1>4. QED
  BY <1>1, <1>2, <1>3 DEF Next, Step

-----------------------------------------------------------------------------
(* The six steps that matter: a thread takes the mutex, stops, gathers, goes *)
(* on, ends the collection.                                                  *)
LEMMA TryLockStep ==
  ASSUME IInv, NEW t \in Threads, TryLock(t), TypeOK'
  PROVE  IInv'
<1>. USE DEF IInv, TryLock, GoTo
<1>1. CASE mGcMutex # NoThread
  BY <1>1, QuietStep DEF Pc, Waiting, Collecting, Commanding
<1>2. CASE mGcMutex = NoThread
  <2>1. pc' = [pc EXCEPT ![t] = "begin"] /\ mGcMutex' = t
    BY <1>2
  <2>2. StoppedIsExact'
    BY <2>1, WaitSame DEF StoppedIsExact, TypeOK, Pc, Waiting, Collecting
  <2>3. HolderCollects'
    BY <1>2, <2>1, ThreadsAssumption DEF HolderCollects, TypeOK, Collecting
  <2>4. CommandStands'
    BY <2>1 DEF CommandStands, Commanding, TypeOK
  <2>5. StopTheWorld'
    BY <2>1 DEF StopTheWorld, TypeOK
  <2>6. QED
    BY <2>2, <2>3, <2>4, <2>5
<1>3. QED
  BY <1>1, <1>2

(* safePoint counts its caller exactly when it makes it wait.                *)
LEMMA EnterStep ==
  ASSUME IInv, NEW t \in Threads, EnterSafePoint(t), TypeOK'
  PROVE  IInv'
<1>. USE DEF IInv, EnterSafePoint, GoTo
<1>1. CASE ~mStop
  BY <1>1, QuietStep DEF Pc, Waiting, Collecting, Commanding, TypeOK
<1>2. CASE mStop
  <2>1. pc' = [pc EXCEPT ![t] = "parked"] /\ mStopped' = mStopped + 1
    BY <1>2
  <2>2. StoppedIsExact'
    BY <2>1, WaitEnter DEF StoppedIsExact, TypeOK, Waiting
  <2>3. HolderCollects'
    BY <2>1 DEF HolderCollects, TypeOK, Collecting
  <2>4. CommandStands'
    BY <2>1 DEF CommandStands, Commanding, TypeOK
  <2>5. StopTheWorld'
    BY <2>1 DEF StopTheWorld, TypeOK
  <2>6. QED
    BY <2>2, <2>3, <2>4, <2>5
<1>3. QED
  BY <1>1, <1>2 DEF TypeOK

(* A parked thread finds mStop cleared only when nobody is commanding.       *)
LEMMA LeaveStep ==
  ASSUME IInv, NEW t \in Threads, LeaveSafePoint(t), TypeOK'
  PROVE  IInv'
<1>. USE DEF IInv, LeaveSafePoint, GoTo
<1>1. CASE mStop
  BY <1>1, IdleStep DEF TypeOK
<1>2. CASE ~mStop
  <2>1. pc' = [pc EXCEPT ![t] = ret[t]] /\ mStopped' = mStopped - 1
    BY <1>2
  <2>2. ret[t] \in Pc \ (Waiting \cup Collecting)
    BY DEF TypeOK, Pc, Waiting, Collecting
  <2>3. StoppedIsExact'
    BY <2>1, <2>2, WaitLeave DEF StoppedIsExact, TypeOK, Waiting
  <2>4. HolderCollects'
    BY <2>1, <2>2 DEF HolderCollects, TypeOK, Collecting
  <2>5. CommandStands'
    BY <1>2, <2>1, <2>2 DEF CommandStands, Commanding, Collecting, TypeOK
  <2>6. StopTheWorld'
    BY <1>2, <2>1, <2>2, <2>5 DEF StopTheWorld, CommandStands, Commanding
  <2>7. QED
    BY <2>3, <2>4, <2>5, <2>6
<1>3. QED
  BY <1>1, <1>2 DEF TypeOK

(* runGc commands the stop; alone among mThreads it may go on at once, since *)
(* mStopped + 1 = mThreads says that all the others are parked.              *)
LEMMA BeginStep ==
  ASSUME IInv, NEW t \in Threads, BeginStop(t), TypeOK'
  PROVE  IInv'
<1>. USE DEF IInv, BeginStop, GoTo
<1>1. mGcMutex = t /\ mGcMutex' = t
  BY DEF HolderCollects, Collecting
<1>2. PICK l \in {"gather", "scan"} : pc' = [pc EXCEPT ![t] = l]
  OBVIOUS
<1>3. HolderCollects'
  BY <1>1, <1>2 DEF HolderCollects, TypeOK, Collecting
<1>4. CommandStands'
  BY <1>2 DEF CommandStands, Commanding, TypeOK
<1>5. CASE mStopped + 1 = mThreads
  <2>1. pc' = [pc EXCEPT ![t] = "scan"] /\ mStopped' = mStopped
    BY <1>5
  <2>2. StoppedIsExact'
    <3>1. pc[t] \notin Waiting /\ "scan" \in Pc \ Waiting
      BY DEF Waiting, Collecting, Pc
    <3>2. InWait(pc') = InWait(pc)
      BY <2>1, <3>1, WaitSame DEF TypeOK
    <3>3. QED
      BY <2>1, <3>2 DEF StoppedIsExact
  <2>3. Threads \ {t} \subseteq InWait(pc)
    <3>1. Cardinality(InWait([pc EXCEPT ![t] = "gather"])) = mThreads
      BY <1>5, WaitEnter DEF StoppedIsExact, TypeOK, Waiting
    <3>2. InWait([pc EXCEPT ![t] = "gather"]) = Threads
      BY <3>1, WaitFinite
    <3>3. InWait([pc EXCEPT ![t] = "gather"]) = InWait(pc) \cup {t}
      BY WaitEnter DEF TypeOK, Waiting
    <3>4. QED
      BY <3>2, <3>3
  <2>4. StopTheWorld'
    BY <1>1, <2>1, <2>3, OthersParked DEF StopTheWorld, TypeOK
  <2>5. QED
    BY <1>3, <1>4, <2>2, <2>4
<1>6. CASE mStopped + 1 # mThreads
  <2>1. pc' = [pc EXCEPT ![t] = "gather"] /\ mStopped' = mStopped + 1
    BY <1>6
  <2>2. StoppedIsExact'
    BY <2>1, WaitEnter DEF StoppedIsExact, TypeOK, Waiting
  <2>3. \A v \in Threads : pc[v] \notin {"scan", "resume"}
    BY <1>1 DEF HolderCollects, Collecting
  <2>4. StopTheWorld'
    BY <2>1, <2>3 DEF StopTheWorld, TypeOK
  <2>5. QED
    BY <1>3, <1>4, <2>2, <2>4
<1>7. QED
  BY <1>5, <1>6

(* mStopped = mThreads says that all the threads wait, so the others are     *)
(* parked when the collecting one goes on to the scan.                       *)
LEMMA GatherStep ==
  ASSUME IInv, NEW t \in Threads, Gather(t), TypeOK'
  PROVE  IInv'
<1>. USE DEF IInv, Gather, GoTo
<1>1. CASE mStopped # mThreads
  BY <1>1, IdleStep DEF TypeOK
<1>2. CASE mStopped = mThreads
  <2>1. pc' = [pc EXCEPT ![t] = "scan"] /\ mStopped' = mStopped - 1
    BY <1>2
  <2>2. mGcMutex = t /\ mGcMutex' = t
    BY DEF HolderCollects, Collecting
  <2>3. StoppedIsExact'
    BY <2>1, WaitLeave DEF StoppedIsExact, TypeOK, Waiting, Pc, Collecting
  <2>4. HolderCollects'
    BY <2>1, <2>2 DEF HolderCollects, TypeOK, Collecting
  <2>5. CommandStands'
    BY <2>1 DEF CommandStands, Commanding, TypeOK
  <2>6. Threads \ {t} \subseteq InWait(pc)
    BY <1>2, WaitFinite DEF StoppedIsExact
  <2>7. StopTheWorld'
    BY <2>1, <2>2, <2>6, OthersParked DEF StopTheWorld, TypeOK
  <2>8. QED
    BY <2>3, <2>4, <2>5, <2>7
<1>3. QED
  BY <1>1, <1>2

(* The command is withdrawn after the scan: nobody scans any more.           *)
LEMMA ResumeStep ==
  ASSUME IInv, NEW t \in Threads, Resume(t), TypeOK'
  PROVE  IInv'
<1>. USE DEF IInv, Resume, GoTo
<1>1. StoppedIsExact'
  BY WaitSame DEF StoppedIsExact, TypeOK, Pc, Waiting, Collecting
<1>2. HolderCollects'
  BY DEF HolderCollects, TypeOK, Collecting
<1>3. \A v \in Threads \ {t} : pc[v] = "parked"
  BY DEF StopTheWorld
<1>4. CommandStands'
  BY <1>3 DEF CommandStands, Commanding, TypeOK
<1>5. StopTheWorld'
  BY <1>3 DEF StopTheWorld, TypeOK
<1>6. QED
  BY <1>1, <1>2, <1>4, <1>5

(* The holder of mGcMutex gives it back and evaluates again.                 *)
LEMMA UnlockStep ==
  ASSUME IInv, NEW t \in Threads, Unlock(t), TypeOK'
  PROVE  IInv'
<1>. USE DEF IInv, Unlock, GoTo
<1>1. mGcMutex = t
  BY DEF HolderCollects, Collecting
<1>2. StoppedIsExact'
  <2>1. pc[t] \notin Waiting /\ "run" \in Pc \ Waiting
    BY DEF Waiting, Collecting, Pc
  <2>2. InWait(pc') = InWait(pc)
    BY <2>1, WaitSame DEF TypeOK
  <2>3. QED
    BY <2>2 DEF StoppedIsExact
<1>3. HolderCollects'
  BY <1>1, ThreadsAssumption DEF HolderCollects, TypeOK, Collecting
<1>4. CommandStands'
  BY DEF CommandStands, Commanding, TypeOK
<1>5. StopTheWorld'
  BY DEF StopTheWorld, TypeOK
<1>6. QED
  BY <1>2, <1>3, <1>4, <1>5

-----------------------------------------------------------------------------
(* The invariant is inductive.                                               *)
LEMMA NextIInv == IInv /\ [Next]_vars => IInv'
<1>. SUFFICES ASSUME IInv, [Next]_vars PROVE IInv'
  OBVIOUS
<1>1. TypeOK'
  BY NextTypeOK
<1>2. CASE UNCHANGED vars
  BY <1>2, IdleStep DEF vars, IInv, TypeOK
<1>3. ASSUME NEW t \in Threads,
             Step(t) \/ Interrupt(t) \/ Exit(t)
      PROVE  IInv'
  <2>. USE DEF Pc, Waiting, Collecting, Commanding, GoTo
  <2>1. CASE Request(t)
    BY <1>1, <2>1, QuietStep DEF Request
  <2>2. CASE TryLock(t)
    BY <1>1, <2>2, TryLockStep
  <2>3. CASE Poll(t)
    BY <1>1, <2>3, QuietStep DEF Poll
  <2>4. CASE Schedule(t)
    BY <1>1, <2>4, QuietStep DEF Schedule
  <2>5. CASE EnterSafePoint(t)
    BY <1>1, <2>5, EnterStep
  <2>6. CASE LeaveSafePoint(t)
    BY <1>1, <2>6, LeaveStep
  <2>7. CASE BeginStop(t)
    BY <1>1, <2>7, BeginStep
  <2>8. CASE Gather(t)
    BY <1>1, <2>8, GatherStep
  <2>9. CASE Scan(t)
    BY <1>1, <2>9, QuietStep DEF Scan
  <2>10. CASE Resume(t)
    BY <1>1, <2>10, ResumeStep
  <2>11. CASE Unlock(t)
    BY <1>1, <2>11, UnlockStep
  <2>12. CASE SpuriousWakeup(t)
    BY <2>12, IdleStep DEF SpuriousWakeup, IInv, TypeOK
  <2>13. CASE Interrupt(t)
    BY <2>13, IdleStep DEF Interrupt, IInv, TypeOK
  <2>14. CASE Exit(t)
    BY <1>1, <2>14, QuietStep DEF Exit
  <2>15. QED
    BY <1>3, <2>1, <2>2, <2>3, <2>4, <2>5, <2>6, <2>7, <2>8, <2>9, <2>10, <2>11,
       <2>12, <2>13, <2>14 DEF Step, GcStep
<1>4. QED
  BY <1>2, <1>3 DEF Next

(* The strengthened invariant always holds, for any number of threads.       *)
THEOREM Invariance == Spec => []IInv
BY InitIInv, NextIInv, PTL DEF Spec

(* Every variable keeps its type, for any number of threads.                 *)
THEOREM TypeCorrect == Spec => []TypeOK
<1>1. IInv => TypeOK
  BY DEF IInv
<1>2. QED
  BY <1>1, Invariance, PTL

(* A thread that scans the roots is alone: runGc and safePoint stop the      *)
(* world for any number of EvaluatorUnits.                                   *)
THEOREM WorldStopped == Spec => []StopTheWorld
<1>1. IInv => StopTheWorld
  BY DEF IInv
<1>2. QED
  BY <1>1, Invariance, PTL

(* mStopped counts the threads inside the two waits.                         *)
THEOREM CountExact == Spec => []StoppedIsExact
<1>1. IInv => StoppedIsExact
  BY DEF IInv
<1>2. QED
  BY <1>1, Invariance, PTL

(* A parked thread leaves safePoint only while no collection needs it there. *)
THEOREM ParkedUntilScanned == Spec => LeavesAfterScan
<1>. DEFINE Leaves == \A t \in Threads : pc[t] = "parked" /\ pc'[t] # "parked" =>
                        \A u \in Threads : pc[u] \notin {"gather", "scan", "resume"}
<1>1. ASSUME IInv, [Next]_vars
      PROVE  [Leaves]_vars
  <2>1. SUFFICES ASSUME NEW t \in Threads, pc[t] = "parked", pc'[t] # "parked"
                 PROVE  ~mStop
    BY <1>1 DEF IInv, CommandStands, Commanding
  <2>2. CASE UNCHANGED vars
    BY <2>1, <2>2 DEF vars
  <2>3. ASSUME NEW s \in Threads, Step(s) \/ Interrupt(s) \/ Exit(s)
        PROVE  s = t /\ LeaveSafePoint(t)
    <3>. USE DEF IInv, TypeOK, GoTo
    <3>1. pc'[t] = pc[t] \/ s = t
      BY <1>1, <2>3 DEF Step, GcStep, Request, TryLock, Poll, Schedule, EnterSafePoint,
           LeaveSafePoint, BeginStop, Gather, Scan, Resume, Unlock, SpuriousWakeup,
           Interrupt, Exit
    <3>2. s = t
      BY <2>1, <3>1
    <3>3. QED
      BY <1>1, <2>1, <2>3, <3>2 DEF Step, GcStep, Request, TryLock, Poll, Schedule,
           EnterSafePoint, BeginStop, Gather, Scan, Resume, Unlock, SpuriousWakeup,
           Interrupt, Exit
  <2>4. QED
    BY <1>1, <2>1, <2>2, <2>3 DEF Next, LeaveSafePoint
<1>2. QED
  BY <1>1, Invariance, PTL DEF Spec, LeavesAfterScan
=============================================================================
