-------------------------- MODULE EvaluatorLifecycle --------------------------
(* SchemeEvaluator::run from the first thread to the last: the main thread    *)
(* creates the workers and waits for them, stop() and abort() interrupt them, *)
(* exceptions unwind them, and then the collector's thread is brought to its  *)
(* end.  Source/Evaluator/Run.cpp, EvaluatorUnit::evaluateScheme and schedule,*)
(* the end of Source/GC/GarbageCollector.cpp, Source/GC/BlockingQueue.h.      *)
(* The program forks the tasks Kids and joins those of them it needs; the     *)
(* others are speculative branches that turned out not to be needed.  Queues  *)
(* and cancellation are TaskScheduler's, the handshake for a collection       *)
(* is GcSafepoint's: here a collection only waits for the other workers.      *)
EXTENDS Naturals, Sequences, FiniteSets, SequencesExt

CONSTANTS NumCores,     \* EvalConfig::NumCores
          Kids,         \* tasks the program forks
          Program,      \* the program's own task, inside its ControlContext
          MaxRequests   \* bound: collections asked for

ASSUME LifecycleAssumption ==
  /\ NumCores \in Nat \ {0} /\ MaxRequests \in Nat
  /\ IsFiniteSet(Kids) /\ Program \notin Kids

Workers == 1..NumCores
Tasks   == Kids \cup {Program}

VARIABLES
  needed,       \* the kids the program joins
  mainPc, created,
  mStopMutex,   \* is it held?
  pc,           \* pc[w]: where a worker is
  frames,       \* frames[w]: the tasks stacked on its C++ stack, running one last
  interrupted,  \* workers whose thread has an interruption requested
  queue,        \* tasks that wait to be run
  forked,       \* the program has forked its kids
  ready,        \* tasks whose Ready is set
  threw,        \* history: tasks that threw an exception
  mWasErrors,
  requests,     \* collections asked for
  collectorPc, jobs, mQuit, queueQuit

run       == <<needed, mainPc, created>>
collector == <<collectorPc, jobs, mQuit, queueQuit>>
tasks     == <<queue, forked, ready, threw>>
evaluator == <<mStopMutex, pc, frames, interrupted, tasks, mWasErrors, requests>>
vars == <<run, evaluator, collector>>

(* "absent"  not created yet       "top"   the head of evaluateScheme's loop  *)
(* "safe"    the safe point at the start of schedule                          *)
(* "pick"    looks for a task      "run"   runs the last of its frames        *)
(* "gather"  waits in runGc for the others to stop                            *)
(* "stop"    calls stop()          "abort" calls abort()                      *)
(* "exited"  has left evaluateScheme                                          *)
Pc == {"absent", "top", "safe", "pick", "run", "gather", "stop", "abort", "exited"}

Init ==
  /\ needed \in SUBSET Kids
  /\ mainPc = "lock" /\ created = 0 /\ mStopMutex = FALSE
  /\ pc = [w \in Workers |-> "absent"]
  /\ frames = [w \in Workers |-> << >>]
  /\ interrupted = {}
  /\ queue = {Program} /\ forked = FALSE /\ ready = {} /\ threw = {}
  /\ mWasErrors = FALSE /\ requests = 0
  /\ collectorPc = "loop" /\ jobs = 0 /\ mQuit = FALSE /\ queueQuit = FALSE

-----------------------------------------------------------------------------
(* run(): the threads are created under mStopMutex.  The collector's thread   *)
(* runs since its constructor, the ControlContext waits in the first queue.   *)
LockStop ==
  /\ mainPc = "lock" /\ ~mStopMutex
  /\ mainPc' = "create" /\ mStopMutex' = TRUE
  /\ UNCHANGED <<needed, created, pc, frames, interrupted, tasks, mWasErrors, requests, collector>>

CreateThread ==
  /\ mainPc = "create" /\ created < NumCores
  /\ created' = created + 1
  /\ pc' = [pc EXCEPT ![created'] = "top"]
  /\ UNCHANGED <<needed, mainPc, mStopMutex, frames, interrupted, tasks, mWasErrors, requests,
                 collector>>

UnlockStop ==
  /\ mainPc = "create" /\ created = NumCores
  /\ mainPc' = "join" /\ mStopMutex' = FALSE
  /\ UNCHANGED <<needed, created, pc, frames, interrupted, tasks, mWasErrors, requests, collector>>

(* join_all; then the units are deleted, and the collector with the evaluator.*)
JoinAll ==
  /\ mainPc = "join" /\ \A w \in Workers : pc[w] = "exited"
  /\ mainPc' = "quit"
  /\ UNCHANGED <<needed, created, mStopMutex, pc, frames, interrupted, tasks, mWasErrors,
                 requests, collector>>

-----------------------------------------------------------------------------
Goto(w, l)     == pc' = [pc EXCEPT ![w] = l]
Top(w)         == Last(frames[w])
Running(w)     == pc[w] = "run" /\ frames[w] # << >>
(* schedule returns to the join that called it, or to evaluateScheme.         *)
Return(w, rest) ==
  /\ frames' = [frames EXCEPT ![w] = rest]
  /\ Goto(w, IF rest = << >> THEN "top" ELSE "run")
(* An interruption or an exception unwinds all that is stacked on the worker. *)
Unwind(w, l) == frames' = [frames EXCEPT ![w] = << >>] /\ Goto(w, l)

(* The interruption point at the head of the loop.                            *)
LoopHead(w) ==
  /\ pc[w] = "top"
  /\ IF w \in interrupted THEN Goto(w, "exited") ELSE Goto(w, "safe")
  /\ interrupted' = interrupted \ {w}
  /\ UNCHANGED <<run, mStopMutex, frames, tasks, mWasErrors, requests, collector>>

(* A worker stays at the safe point while another one gathers.                *)
PassSafePoint(w) ==
  /\ pc[w] = "safe" /\ \A u \in Workers : pc[u] # "gather"
  /\ Goto(w, "pick")
  /\ UNCHANGED <<run, mStopMutex, frames, interrupted, tasks, mWasErrors, requests, collector>>

Take(w, t) ==
  /\ pc[w] = "pick" /\ t \in queue
  /\ queue' = queue \ {t}
  /\ frames' = [frames EXCEPT ![w] = Append(@, t)]
  /\ Goto(w, "run")
  /\ UNCHANGED <<run, mStopMutex, interrupted, forked, ready, threw, mWasErrors, requests,
                 collector>>

(* A canceled task is popped and not run.                                     *)
Discard(w, t) ==
  /\ pc[w] = "pick" /\ t \in queue \cap (Kids \ needed)
  /\ queue' = queue \ {t}
  /\ UNCHANGED <<run, mStopMutex, pc, frames, interrupted, forked, ready, threw, mWasErrors,
                 requests, collector>>

(* No task: sleep_for, the other interruption point.                          *)
Sleep(w) ==
  /\ pc[w] = "pick" /\ queue = {}
  /\ IF w \in interrupted THEN Unwind(w, "exited") ELSE Return(w, frames[w])
  /\ interrupted' = interrupted \ {w}
  /\ UNCHANGED <<run, mStopMutex, tasks, mWasErrors, requests, collector>>

ForkKids(w) ==
  /\ Running(w) /\ Top(w) = Program /\ ~forked
  /\ forked' = TRUE
  /\ queue' = queue \cup Kids
  /\ UNCHANGED <<run, mStopMutex, pc, frames, interrupted, ready, threw, mWasErrors, requests,
                 collector>>

(* join() of a task that is not ready runs schedule on top.                   *)
Await(w) ==
  /\ Running(w) /\ Top(w) = Program /\ forked /\ ~ needed \subseteq ready
  /\ Goto(w, "safe")
  /\ UNCHANGED <<run, mStopMutex, frames, interrupted, tasks, mWasErrors, requests, collector>>

EndKid(w) ==
  /\ Running(w) /\ Top(w) \in Kids
  /\ ready' = ready \cup {Top(w)}
  /\ Return(w, Front(frames[w]))
  /\ UNCHANGED <<run, mStopMutex, interrupted, queue, forked, threw, mWasErrors, requests,
                 collector>>

(* ControlContext::run: the program has ended, stop() follows.  Mutant: the   *)
(* program does not wait for all it needs.                                    *)
EndProgramEarly(w) ==
  /\ Running(w) /\ Top(w) = Program /\ forked
  /\ ready' = ready \cup {Program}
  /\ Goto(w, "stop")
  /\ UNCHANGED <<run, mStopMutex, frames, interrupted, queue, forked, threw, mWasErrors, requests,
                 collector>>
EndProgram(w) ==
  /\ Running(w) /\ Top(w) = Program /\ forked /\ needed \subseteq ready
  /\ ready' = ready \cup {Program}
  /\ Goto(w, "stop")
  /\ UNCHANGED <<run, mStopMutex, frames, interrupted, queue, forked, threw, mWasErrors, requests,
                 collector>>

(* An exception of any task passes through all that are stacked below it to   *)
(* the handlers of evaluateScheme; none of them becomes ready.                *)
Throw(w) ==
  /\ Running(w)
  /\ threw' = threw \cup {Top(w)}
  /\ Unwind(w, "abort")
  /\ UNCHANGED <<run, mStopMutex, interrupted, queue, forked, ready, mWasErrors, requests,
                 collector>>

-----------------------------------------------------------------------------
(* stop() and abort(): under mStopMutex, interrupt_all interrupts the threads *)
(* created so far.  Mutants: stop() does not take the mutex; abort() does not *)
(* report the error.                                                          *)
InterruptAll == interrupted' = interrupted \cup {w \in Workers : w <= created}
StopUnlocked(w) ==
  /\ pc[w] = "stop"
  /\ InterruptAll
  /\ Return(w, Front(frames[w]))
  /\ UNCHANGED <<run, mStopMutex, tasks, mWasErrors, requests, collector>>
Stop(w) ==
  /\ pc[w] = "stop" /\ ~mStopMutex
  /\ InterruptAll
  /\ Return(w, Front(frames[w]))
  /\ UNCHANGED <<run, mStopMutex, tasks, mWasErrors, requests, collector>>

AbortSilently(w) ==
  /\ pc[w] = "abort" /\ ~mStopMutex
  /\ InterruptAll
  /\ Goto(w, "top")
  /\ UNCHANGED <<run, mStopMutex, frames, tasks, mWasErrors, requests, collector>>
Abort(w) ==
  /\ pc[w] = "abort" /\ ~mStopMutex
  /\ mWasErrors' = TRUE
  /\ InterruptAll
  /\ Goto(w, "top")
  /\ UNCHANGED <<run, mStopMutex, frames, tasks, requests, collector>>

-----------------------------------------------------------------------------
(* A task finds its heap full: runGc waits until every other of the NumCores  *)
(* workers stands at a safe point, queues a job and wakes the collector.      *)
RequestGc(w) ==
  /\ Running(w) /\ requests < MaxRequests
  /\ requests' = requests + 1
  /\ Goto(w, "gather")
  /\ UNCHANGED <<run, mStopMutex, frames, interrupted, tasks, mWasErrors, collector>>

Push == jobs' = jobs + 1 /\ collectorPc' = IF collectorPc = "asleep" THEN "pop" ELSE collectorPc
RunGc(w) ==
  /\ pc[w] = "gather" /\ \A u \in Workers \ {w} : pc[u] \in {"safe", "gather"}
  /\ Push
  /\ Goto(w, "run")
  /\ UNCHANGED <<run, mStopMutex, frames, interrupted, tasks, mWasErrors, requests, mQuit,
                 queueQuit>>

-----------------------------------------------------------------------------
(* collectorThreadLoop, with the wait of BlockingQueue::pop.  Mutant: the     *)
(* wait has no predicate.                                                     *)
CollectorLoop ==
  /\ collectorPc = "loop"
  /\ collectorPc' = IF mQuit THEN "exited" ELSE "pop"
  /\ UNCHANGED <<run, evaluator, jobs, mQuit, queueQuit>>

PopUntested ==
  /\ collectorPc = "pop"
  /\ IF jobs > 0 \/ ~queueQuit THEN collectorPc' = "collect" /\ jobs' = jobs - 1
     ELSE collectorPc' = "exited" /\ UNCHANGED jobs
  /\ UNCHANGED <<run, evaluator, mQuit, queueQuit>>
Pop ==
  /\ collectorPc = "pop"
  /\ IF jobs > 0 THEN collectorPc' = "collect" /\ jobs' = jobs - 1
     ELSE collectorPc' = (IF queueQuit THEN "exited" ELSE "asleep") /\ UNCHANGED jobs
  /\ UNCHANGED <<run, evaluator, mQuit, queueQuit>>

SpuriousWakeup ==
  /\ collectorPc = "asleep"
  /\ collectorPc' = "pop"
  /\ UNCHANGED <<run, evaluator, jobs, mQuit, queueQuit>>

Collect ==
  /\ collectorPc = "collect"
  /\ collectorPc' = "loop"
  /\ UNCHANGED <<run, evaluator, jobs, mQuit, queueQuit>>

(* ~GarbageCollectorImpl, in the main thread.                                *)
SetQuit ==
  /\ mainPc = "quit"
  /\ mainPc' = "wake" /\ mQuit' = TRUE
  /\ UNCHANGED <<needed, created, evaluator, collectorPc, jobs, queueQuit>>
Quit ==
  /\ mainPc = "wake"
  /\ mainPc' = "joinCollector" /\ queueQuit' = TRUE
  /\ collectorPc' = IF collectorPc = "asleep" THEN "pop" ELSE collectorPc
  /\ UNCHANGED <<needed, created, evaluator, jobs, mQuit>>
JoinCollector ==
  /\ mainPc = "joinCollector" /\ collectorPc = "exited"
  /\ mainPc' = "done"
  /\ UNCHANGED <<needed, created, evaluator, collector>>

-----------------------------------------------------------------------------
Main == LockStop \/ CreateThread \/ UnlockStop \/ JoinAll

Leave == SetQuit \/ Quit \/ JoinCollector

CollectorStep == CollectorLoop \/ Pop \/ Collect

Work(w) ==
  \/ LoopHead(w) \/ PassSafePoint(w) \/ Sleep(w) \/ Stop(w) \/ Abort(w) \/ RunGc(w)
  \/ ForkKids(w) \/ Await(w) \/ EndKid(w) \/ EndProgram(w)
  \/ \E t \in Tasks : Take(w, t) \/ Discard(w, t)

Next ==
  \/ Main \/ Leave \/ CollectorStep \/ SpuriousWakeup
  \/ \E w \in Workers : Work(w) \/ Throw(w) \/ RequestGc(w)

Spec == Init /\ [][Next]_vars

(* Every thread runs, and every task ends or throws if it keeps running.      *)
FairSpec ==
  /\ Spec
  /\ WF_vars(Main \/ Leave) /\ WF_vars(CollectorStep)
  /\ \A w \in Workers : WF_vars(Work(w))

-----------------------------------------------------------------------------
(* Properties                                                                *)

(* Every variable has its type.                                              *)
TypeOK ==
  /\ needed \subseteq Kids /\ created \in 0..NumCores
  /\ mainPc \in {"lock", "create", "join", "quit", "wake", "joinCollector", "done"}
  /\ pc \in [Workers -> Pc] /\ frames \in [Workers -> Seq(Tasks)]
  /\ interrupted \subseteq Workers
  /\ {queue, ready, threw} \subseteq SUBSET Tasks
  /\ {mStopMutex, forked, mWasErrors, mQuit, queueQuit} \subseteq BOOLEAN
  /\ requests \in 0..MaxRequests /\ jobs \in 0..MaxRequests
  /\ collectorPc \in {"loop", "pop", "asleep", "collect", "exited"}

(* A worker in runGc waits for one that has left and will never stop.        *)
Stuck == \E w, u \in Workers : pc[w] = "gather" /\ pc[u] = "exited"

(* Run.cpp:112: even if a worker ends or fails the program before the other  *)
(* threads exist, nobody is left running: run() and then the collector's     *)
(* destructor return, and the only thing that can keep them is a collection  *)
(* that waits for a worker that has left.                                    *)
RunReturns == <>(mainPc = "done" \/ Stuck)

(* And that happens only after a failure, or while an unneeded branch is     *)
(* still running: a program that joins all it forks and does not throw       *)
(* always gets to its end, whenever its tasks collect garbage.               *)
StuckOnlyAfterFailure == Stuck => threw # {} \/ needed # Kids

(* When the workers have been joined, the program has a result or an error   *)
(* was reported, and both only if an unneeded branch threw: in a program     *)
(* that joins all it forks the exception of a task, however deep it was      *)
(* stacked, never lets a waiting task go on to a result.                     *)
ResultOrError ==
  mainPc \notin {"lock", "create", "join"} =>
    /\ Program \in ready \/ mWasErrors
    /\ Program \in ready /\ mWasErrors => threw \subseteq Kids \ needed
    /\ mWasErrors <=> threw # {}
=============================================================================
