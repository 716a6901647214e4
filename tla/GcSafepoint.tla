----------------------------- MODULE GcSafepoint -----------------------------
(* How the evaluator's threads stop for a scan of the roots: runGc, needGC   *)
(* and safePoint of Source/GC/GarbageCollector.cpp, with the places of       *)
(* Source/Evaluator/EvaluatorUnit.cpp that call them.  A section that holds  *)
(* mRunMutex is one action: it touches nothing but variables that mutex      *)
(* guards, and mStop once.  A wait on mRunCond is left in two steps: the     *)
(* thread stops being asleep, then it takes the mutex and tests the          *)
(* predicate again.                                                          *)
EXTENDS Naturals, FiniteSets

CONSTANTS Threads,    \* the mutators: one per EvaluatorUnit
          NoThread    \* nobody

ASSUME ThreadsAssumption ==
  /\ IsFiniteSet(Threads) /\ Threads # {}
  /\ NoThread \notin Threads

mThreads == Cardinality(Threads)

VARIABLES
  mStop,        \* the command to stop
  mStopped,     \* how many threads say they have stopped
  mGcMutex,     \* the thread that holds mGcMutex, or NoThread
  asleep,       \* the threads asleep on mRunCond
  pc,
  ret,          \* ret[t]: where t goes on after safePoint
  interrupted   \* thread_group::interrupt_all was called

vars == <<mStop, mStopped, mGcMutex, asleep, pc, ret, interrupted>>

(* "run"      evaluates and allocates: reads and writes stacks and heap      *)
(* "tryLock"  in runGc, "poll" after a failed try_lock                       *)
(* "enter"    about to enter safePoint, "parked" waits there                 *)
(* "begin"    holds mGcMutex, "gather" waits for the others to stop          *)
(* "scan"     marks the roots and empties the heaps                          *)
(* "resume"   is about to let the others go, "unlock" has done so            *)
(* "exited"   has left evaluateScheme                                        *)
Waiting    == {"parked", "gather"}
Collecting == {"begin", "gather", "scan", "resume", "unlock"}
Pc == {"run", "tryLock", "poll", "enter", "parked", "exited"} \cup Collecting

Init ==
  /\ mStop = FALSE
  /\ mStopped = 0
  /\ mGcMutex = NoThread
  /\ asleep = {}
  /\ pc = [t \in Threads |-> "run"]
  /\ ret = [t \in Threads |-> "run"]
  /\ interrupted = FALSE

GoTo(t, l) == pc' = [pc EXCEPT ![t] = l]

-----------------------------------------------------------------------------
(* CollectedHeap::checkFreeSpace finds its young generation full.            *)
Request(t) ==
  /\ pc[t] = "run"
  /\ GoTo(t, "tryLock")
  /\ UNCHANGED <<mStop, mStopped, mGcMutex, asleep, ret, interrupted>>

TryLock(t) ==
  /\ pc[t] = "tryLock"
  /\ \/ mGcMutex = NoThread /\ mGcMutex' = t /\ GoTo(t, "begin")
     \/ mGcMutex # NoThread /\ UNCHANGED mGcMutex /\ GoTo(t, "poll")
  /\ UNCHANGED <<mStop, mStopped, asleep, ret, interrupted>>

(* The loop around try_lock looks whether it has to stop for another GC.     *)
Poll(t) ==
  /\ pc[t] = "poll"
  /\ \/ mStop /\ GoTo(t, "enter") /\ ret' = [ret EXCEPT ![t] = "tryLock"]
     \/ ~mStop /\ GoTo(t, "tryLock") /\ UNCHANGED ret
  /\ UNCHANGED <<mStop, mStopped, mGcMutex, asleep, interrupted>>

(* EvaluatorUnit::schedule starts with a safe point.                         *)
Schedule(t) ==
  /\ pc[t] = "run" /\ mStop
  /\ GoTo(t, "enter")
  /\ ret' = [ret EXCEPT ![t] = "run"]
  /\ UNCHANGED <<mStop, mStopped, mGcMutex, asleep, interrupted>>

(* safePoint: count oneself, notify_all, wait until mStop is cleared.        *)
(* Mutant: nobody is notified.                                               *)
EnterSilently(t) ==
  /\ pc[t] = "enter"
  /\ \/ mStop /\ mStopped' = mStopped + 1 /\ asleep' = asleep \cup {t} /\ GoTo(t, "parked")
     \/ ~mStop /\ GoTo(t, ret[t]) /\ UNCHANGED <<mStopped, asleep>>
  /\ UNCHANGED <<mStop, mGcMutex, ret, interrupted>>
EnterSafePoint(t) ==
  /\ pc[t] = "enter"
  /\ \/ /\ mStop
        /\ mStopped' = mStopped + 1
        /\ asleep' = {t}
        /\ GoTo(t, "parked")
     \/ /\ ~mStop
        /\ asleep' = {}
        /\ GoTo(t, ret[t])
        /\ UNCHANGED mStopped
  /\ UNCHANGED <<mStop, mGcMutex, ret, interrupted>>

(* Mutants: the predicate is not tested again; the thread stays counted; it  *)
(* is taken off the count twice.                                             *)
LeaveUntested(t) ==
  /\ pc[t] = "parked" /\ t \notin asleep
  /\ mStopped' = mStopped - 1
  /\ GoTo(t, ret[t])
  /\ UNCHANGED <<mStop, mGcMutex, asleep, ret, interrupted>>
LeaveLowering(t, n) ==
  /\ pc[t] = "parked" /\ t \notin asleep /\ ~mStop
  /\ mStopped' = mStopped - n
  /\ GoTo(t, ret[t])
  /\ UNCHANGED <<mStop, mGcMutex, asleep, ret, interrupted>>
LeaveCounted(t) == LeaveLowering(t, 0)
LeaveTwice(t)   == LeaveLowering(t, 2)
LeaveSafePoint(t) ==
  /\ pc[t] = "parked" /\ t \notin asleep
  /\ \/ /\ ~mStop
        /\ mStopped' = mStopped - 1
        /\ GoTo(t, ret[t])
        /\ UNCHANGED asleep
     \/ /\ mStop
        /\ asleep' = asleep \cup {t}
        /\ UNCHANGED <<mStopped, pc>>
  /\ UNCHANGED <<mStop, mGcMutex, ret, interrupted>>

-----------------------------------------------------------------------------
(* runGc, with mGcMutex held: command the others to stop and wait for them.  *)
BeginStop(t) ==
  /\ pc[t] = "begin"
  /\ mStop' = TRUE
  /\ \/ /\ mStopped + 1 = mThreads
        /\ GoTo(t, "scan")
        /\ UNCHANGED <<mStopped, asleep>>
     \/ /\ mStopped + 1 # mThreads
        /\ mStopped' = mStopped + 1
        /\ asleep' = asleep \cup {t}
        /\ GoTo(t, "gather")
  /\ UNCHANGED <<mGcMutex, ret, interrupted>>

(* Mutant: it does not count itself among those to wait for.                 *)
GatherEarly(t) ==
  /\ pc[t] = "gather" /\ t \notin asleep
  /\ mStopped + 1 >= mThreads
  /\ mStopped' = mStopped - 1
  /\ GoTo(t, "scan")
  /\ UNCHANGED <<mStop, mGcMutex, asleep, ret, interrupted>>
Gather(t) ==
  /\ pc[t] = "gather" /\ t \notin asleep
  /\ \/ /\ mStopped = mThreads
        /\ mStopped' = mStopped - 1
        /\ GoTo(t, "scan")
        /\ UNCHANGED asleep
     \/ /\ mStopped # mThreads
        /\ asleep' = asleep \cup {t}
        /\ UNCHANGED <<mStopped, pc>>
  /\ UNCHANGED <<mStop, mGcMutex, ret, interrupted>>

(* markRoots, reset of every heap, push of the job: see GcCollector.         *)
Scan(t) ==
  /\ pc[t] = "scan"
  /\ GoTo(t, "resume")
  /\ UNCHANGED <<mStop, mStopped, mGcMutex, asleep, ret, interrupted>>

Resume(t) ==
  /\ pc[t] = "resume"
  /\ mStop' = FALSE
  /\ asleep' = {}
  /\ GoTo(t, "unlock")
  /\ UNCHANGED <<mStopped, mGcMutex, ret, interrupted>>

Unlock(t) ==
  /\ pc[t] = "unlock"
  /\ mGcMutex' = NoThread
  /\ GoTo(t, "run")
  /\ UNCHANGED <<mStop, mStopped, asleep, ret, interrupted>>

(* A condition variable may wake a thread nobody notified.                   *)
SpuriousWakeup(t) ==
  /\ t \in asleep
  /\ asleep' = asleep \ {t}
  /\ UNCHANGED <<mStop, mStopped, mGcMutex, pc, ret, interrupted>>

-----------------------------------------------------------------------------
(* stop() or abort() of SchemeEvaluator, called from a worker ...            *)
Interrupt(t) ==
  /\ pc[t] = "run" /\ ~interrupted
  /\ interrupted' = TRUE
  /\ UNCHANGED <<mStop, mStopped, mGcMutex, asleep, pc, ret>>

(* ... makes every worker leave at its next interruption point: the top of   *)
(* evaluateScheme's loop, or the sleep at the end of schedule.               *)
Exit(t) ==
  /\ pc[t] = "run" /\ interrupted
  /\ GoTo(t, "exited")
  /\ UNCHANGED <<mStop, mStopped, mGcMutex, asleep, ret, interrupted>>

-----------------------------------------------------------------------------
GcStep(t) ==
  \/ TryLock(t) \/ Poll(t) \/ Schedule(t) \/ EnterSafePoint(t) \/ LeaveSafePoint(t)
  \/ BeginStop(t) \/ Gather(t) \/ Scan(t) \/ Resume(t) \/ Unlock(t)

Step(t) == GcStep(t) \/ Request(t) \/ SpuriousWakeup(t)

Next == \E t \in Threads : Step(t) \/ Interrupt(t) \/ Exit(t)

Spec == Init /\ [][Next]_vars

(* A thread keeps running; one that evaluates comes back to schedule, since  *)
(* its task ends or waits for another; and an interrupted one whose tasks    *)
(* end again and again reaches an interruption point at last.                *)
FairSpec ==
  /\ Spec
  /\ \A t \in Threads : WF_vars(GcStep(t)) /\ SF_vars(Exit(t))

-----------------------------------------------------------------------------
(* Properties                                                                *)

(* Every variable has its type.                                              *)
TypeOK ==
  /\ mStop \in BOOLEAN
  /\ mStopped \in Nat
  /\ mGcMutex \in Threads \cup {NoThread}
  /\ asleep \subseteq Threads
  /\ pc \in [Threads -> Pc]
  /\ ret \in [Threads -> {"run", "tryLock"}]
  /\ interrupted \in BOOLEAN

(* While a thread scans the roots and empties the heaps, every other thread  *)
(* is inside safePoint's wait: no stack or heap changes under the scan.  It  *)
(* must hold although mStopped is reused from one collection to the next     *)
(* before the threads it counted have woken.                                 *)
StopTheWorld ==
  \A t \in Threads : pc[t] \in {"scan", "resume"} =>
     \A u \in Threads \ {t} : pc[u] = "parked"

(* mStopped, which is raised and lowered in three places, is the number of   *)
(* threads inside the two waits whenever mRunMutex is free.                  *)
InWait(p) == {t \in Threads : p[t] \in Waiting}
StoppedIsExact == mStopped = Cardinality(InWait(pc))

(* A thread that has stopped is not let go before the roots are scanned: it  *)
(* leaves the wait only when no collection has begun.                        *)
LeavesAfterScan ==
  [][\A t \in Threads : pc[t] = "parked" /\ pc'[t] # "parked" =>
       \A u \in Threads : pc[u] \notin {"gather", "scan", "resume"}]_vars

(* A collection that has been commanded takes place, unless the evaluation   *)
(* is interrupted: the wait for the other threads misses no notification and *)
(* ends, whatever other threads ask for.                                     *)
CollectionEnds == \A t \in Threads : pc[t] = "begin" ~> pc[t] = "run" \/ interrupted
=============================================================================
