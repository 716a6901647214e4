---------------------------- MODULE TaskScheduler ----------------------------
(* EvaluatorUnit: workers that fork, steal, join and cancel tasks.           *)
(* Source/Evaluator/EvaluatorUnit.cpp, with the calls its clients make in    *)
(* Source/InternalForm/InternalForm.cpp and Source/Evaluator/Context.cpp.    *)
(* A task is an SExecutionContext; what it computes is left out, its code is *)
(* the sequence of its forks, joins and choices.  The job queue is the       *)
(* atomic deque that WorkStealingQueue implements, the proactive one boost's *)
(* lock-free stack.  A task that waits runs other tasks on top of itself, so *)
(* a worker has a stack of frames, of which only the last is active.         *)
EXTENDS Naturals, Sequences, FiniteSets, SequencesExt

CONSTANTS Workers,
          Tasks,
          First,      \* mEvaluatorUnits[0]
          Main,       \* the program
          Programs,   \* the programs considered, see body
          NoTask,
          Proactive   \* EvalConfig::Proactive

(* The instructions of a body: ParFork, ParJoin, a branch CondStart forks,   *)
(* and CondChoose with its two branches (NoTask: short, not forked).  The    *)
(* task a join is meant for, and which task a branch is, are what the source *)
(* program says; the code does not know and only properties look.            *)
Fork(t)            == [op |-> "fork", task |-> t]
Speculate(t)       == [op |-> "speculate", task |-> t]
Join(t)            == [op |-> "join", meant |-> t]
Choose(then, else) == [op |-> "choose", then |-> then, else |-> else]

(* The instructions these turn into while a worker carries them out.         *)
Add(t)       == [op |-> "add", task |-> t]          \* addForkJob, past its test
CancelAt(n)  == [op |-> "cancelAt", pos |-> n]      \* cancelFromPendingEnd(n)
Visit(t)     == [op |-> "visit", task |-> t]        \* cancel(t) unless canceled
Mark(t)      == [op |-> "mark", task |-> t]         \* cancel(t): first store
Stop(t)      == [op |-> "stop", task |-> t]         \* cancel(t): the rest
Erase(n, t)  == [op |-> "erase", pos |-> n, task |-> t]  \* wait for t, erase it
Await(t, m)  == [op |-> "await", task |-> t, meant |-> m]  \* join: wait for t

ASSUME SchedulerAssumption ==
  /\ IsFiniteSet(Workers) /\ First \in Workers /\ Main \in Tasks /\ NoTask \notin Tasks
  /\ Proactive \in BOOLEAN

(* A context is spawned once, the program's own by nobody, and a body joins  *)
(* or chooses after its forks every task it forks: ParFork goes on to the    *)
(* ParJoin, CondStart to the CondChoose it was generated with.               *)
Instructions ==
  {Fork(t) : t \in Tasks} \cup {Speculate(t) : t \in Tasks} \cup {Join(t) : t \in Tasks}
    \cup {Choose(t, u) : t \in Tasks \cup {NoTask}, u \in Tasks \cup {NoTask}}
Forking(t) == {Fork(t), Speculate(t)}
Joining(t) == {Join(t)} \cup {Choose(t, u) : u \in Tasks \cup {NoTask}}
                        \cup {Choose(u, t) : u \in Tasks \cup {NoTask}}

ASSUME ProgramAssumption ==
  \A p \in Programs :
    /\ p \in [Tasks -> Seq(Instructions)]
    /\ \A q \in Tasks : \A i \in DOMAIN p[q] : \A t \in Tasks : p[q][i] \in Forking(t) =>
         /\ t # Main
         /\ \A r \in Tasks : \A j \in DOMAIN p[r] : p[r][j] \in Forking(t) => <<r, j>> = <<q, i>>
         /\ \E j \in i + 1 .. Len(p[q]) : p[q][j] \in Joining(t)

(* And forks and joins nest, since the generator puts the code of a whole    *)
(* scheme between a ParFork and its ParJoin, a CondStart and its CondChoose: *)
(* what is joined, or chosen from, was forked last of what is left to join.  *)
Unless(t)  == IF t = NoTask THEN << >> ELSE <<t>>
Opened(x)  == IF x.op \in {"fork", "speculate"} THEN <<x.task>> ELSE << >>
Closed(x)  == IF x.op = "join" THEN <<x.meant>>
              ELSE IF x.op = "choose" THEN Unless(x.then) \o Unless(x.else) ELSE << >>
Left(s, x) == SubSeq(s \o Opened(x), 1, Len(s \o Opened(x)) - Len(Closed(x)))
Nests(code) ==
  LET open[i \in 0 .. Len(code)] == IF i = 0 THEN << >> ELSE Left(open[i-1], code[i])
  IN  /\ open[Len(code)] = << >>
      /\ \A i \in 1 .. Len(code) : open[i-1] \o Opened(code[i]) = open[i] \o Closed(code[i])

ASSUME NestingAssumption == \A p \in Programs : \A t \in Tasks : Nests(p[t])

VARIABLES
  body,       \* the program: body[t] is the code of task t
  frames,     \* frames[w]: runningTasks, with what is left of each one's code
  pending,    \* pending[w]: pendingTasks
  jobs,       \* jobs[w]: mJobQueue, thieves' end first
  spec,       \* spec[w]: mProactiveJobQueue, top last
  grabbed,    \* grabbed[w]: popped from a proactive queue and found runnable
  ready, working, proactive, newLevel, canceled,   \* the flags that are set
  childs,     \* childs[t]: Childs
  deleted     \* the contexts join() has deleted

flags == <<ready, working, proactive, newLevel, canceled>>
vars  == <<body, frames, pending, jobs, spec, grabbed, flags, childs, deleted>>

Forks(p)  == {t \in Tasks : \E i \in DOMAIN body[p] : body[p][i] \in Forking(t)}
Parent(t) == CHOOSE p \in Tasks : t \in Forks(p)

Init ==
  /\ body \in Programs
  /\ frames  = [w \in Workers |-> << >>]
  /\ pending = [w \in Workers |-> << >>]
  /\ jobs    = [w \in Workers |-> IF w = First THEN <<Main>> ELSE << >>]
  /\ spec    = [w \in Workers |-> << >>]
  /\ grabbed = [w \in Workers |-> NoTask]
  /\ ready = {} /\ working = {} /\ proactive = {} /\ newLevel = {} /\ canceled = {}
  /\ childs  = [t \in Tasks |-> {}]
  /\ deleted = {}

-----------------------------------------------------------------------------
Running(w) == frames[w] # << >> /\ grabbed[w] = NoTask
Code(w)    == Last(frames[w]).code
Current(w) == Last(frames[w]).task
At(w, op)  == Running(w) /\ Code(w) # << >> /\ Head(Code(w)).op = op
Target(w)  == Head(Code(w)).task

(* Replace the instruction being executed by a sequence of others.           *)
Become(w, code) ==
  frames' = [frames EXCEPT ![w][Len(frames[w])].code = code \o Tail(Code(w))]
Push(w, t) ==
  frames' = [frames EXCEPT ![w] = Append(@, [task |-> t, code |-> body[t]])]

(* schedule(): called by the idle loop and by a wait that is not over.       *)
(* Mutant: a waiting task blocks its worker.                                 *)
Waits(w) == (At(w, "await") \/ At(w, "erase")) /\ Target(w) \notin ready
SchedulingWhenIdle(w) == frames[w] = << >> /\ grabbed[w] = NoTask
Scheduling(w) == grabbed[w] = NoTask /\ (frames[w] = << >> \/ Waits(w))

RunOwnJob(w) ==
  /\ Scheduling(w) /\ jobs[w] # << >>
  /\ Push(w, Last(jobs[w]))
  /\ jobs' = [jobs EXCEPT ![w] = Front(@)]
  /\ UNCHANGED <<pending, spec, grabbed, flags, childs, deleted>>

RunStolenJob(w, v) ==
  /\ Scheduling(w) /\ jobs[w] = << >>
  /\ v # w /\ jobs[v] # << >>
  /\ Push(w, Head(jobs[v]))
  /\ jobs' = [jobs EXCEPT ![v] = Tail(@)]
  /\ UNCHANGED <<pending, spec, grabbed, flags, childs, deleted>>

(* With no job found (a steal may miss one), pop a proactive task: the       *)
(* worker's own if it has one that may run, else somebody else's.  A task    *)
(* that is canceled or has been moved is dropped.                            *)
Runnable(t) == t \in proactive \ canceled
GrabProactive(w, v) ==
  /\ Proactive /\ Scheduling(w) /\ jobs[w] = << >>
  /\ spec[v] # << >>
  /\ ~(v # w /\ spec[w] # << >> /\ Runnable(Last(spec[w])))
  /\ spec' = [u \in Workers |-> IF u \in {v, w} /\ spec[u] # << >> THEN Front(spec[u])
                                                                ELSE spec[u]]
  /\ LET t == Last(spec[v]) IN
       grabbed' = [grabbed EXCEPT ![w] = IF Runnable(t) THEN t ELSE NoTask]
  /\ UNCHANGED <<frames, pending, jobs, flags, childs, deleted>>

RunProactive(w) ==
  /\ grabbed[w] # NoTask
  /\ working' = working \cup {grabbed[w]}
  /\ Push(w, grabbed[w])
  /\ grabbed' = [grabbed EXCEPT ![w] = NoTask]
  /\ UNCHANGED <<pending, jobs, spec, ready, proactive, newLevel, canceled, childs, deleted>>

(* IFExecutionContext::run returns: popTask, Ready.  Mutant: the finished    *)
(* task is looked up after it was popped.                                    *)
FinishAfterPop(w) ==
  LET rest == Front(frames[w]) IN
  /\ Running(w) /\ Code(w) = << >>
  /\ ready' = ready \cup {IF rest = << >> THEN NoTask ELSE Last(rest).task}
  /\ frames' = [frames EXCEPT ![w] = rest]
  /\ UNCHANGED <<pending, jobs, spec, grabbed, working, proactive, newLevel, canceled,
                 childs, deleted>>
Finish(w) ==
  /\ Running(w) /\ Code(w) = << >>
  /\ ready' = ready \cup {Current(w)}
  /\ frames' = [frames EXCEPT ![w] = Front(@)]
  /\ UNCHANGED <<pending, jobs, spec, grabbed, working, proactive, newLevel, canceled,
                 childs, deleted>>

-----------------------------------------------------------------------------
(* spawn and the test of addForkJob.  A canceled task forks nothing.         *)
ForkTask(w) ==
  /\ At(w, "fork")
  /\ IF Current(w) \in canceled THEN Become(w, << >>) /\ UNCHANGED proactive
     ELSE /\ Become(w, <<Add(Target(w))>>)
          /\ proactive' = IF Current(w) \in proactive THEN proactive \cup {Target(w)}
                                                      ELSE proactive
  /\ UNCHANGED <<pending, jobs, spec, grabbed, ready, working, newLevel, canceled, childs, deleted>>

SpeculateTask(w) ==
  /\ At(w, "speculate")
  /\ IF Current(w) \in canceled THEN Become(w, << >>) /\ UNCHANGED <<proactive, newLevel>>
     ELSE /\ Become(w, <<Add(Target(w))>>)
          /\ proactive' = proactive \cup {Target(w)}
          /\ newLevel' = newLevel \cup {Target(w)}
  /\ UNCHANGED <<pending, jobs, spec, grabbed, ready, working, canceled, childs, deleted>>

AddForkJob(w) ==
  LET t == Target(w) IN
  /\ At(w, "add")
  /\ childs' = [childs EXCEPT ![Current(w)] = @ \cup {t}]
  /\ pending' = [pending EXCEPT ![w] = Append(@, t)]
  /\ IF t \in proactive
     THEN spec' = [spec EXCEPT ![w] = Append(@, t)] /\ UNCHANGED jobs
     ELSE jobs' = [jobs EXCEPT ![w] = Append(@, t)] /\ UNCHANGED spec
  /\ Become(w, << >>)
  /\ UNCHANGED <<grabbed, flags, deleted>>

(* moveToMainOrder(t): the tasks that leave the proactive order, t first.    *)
(* The test inside is the opposite of the one join makes before the call.    *)
Subtasks[T \in SUBSET Tasks] ==
  LET next == T \cup UNION {childs[t] \ newLevel : t \in T}
  IN  IF next = T THEN T ELSE Subtasks[next]
Moved(t) == IF Parent(t) \in proactive THEN Subtasks[{t}] ELSE {}

(* EvaluatorUnit::join up to its loop.                                       *)
BeginJoin(w) ==
  /\ At(w, "join")
  /\ IF pending[w] = << >>
     THEN Become(w, << >>) /\ UNCHANGED <<jobs, proactive, newLevel>>
     ELSE LET t == Last(pending[w])
              moved == IF t \in proactive /\ Parent(t) \notin proactive THEN Moved(t) ELSE {}
          IN  /\ Become(w, <<Await(t, Head(Code(w)).meant)>>)
              /\ newLevel' = (newLevel \ {t}) \ moved
              /\ proactive' = proactive \ moved
              /\ jobs' = [jobs EXCEPT ![w] = @ \o SetToSeq(moved \ (ready \cup working))]
  /\ UNCHANGED <<pending, spec, grabbed, ready, working, canceled, childs, deleted>>

(* The joined task is ready: pop it, copy its result and delete it unless it *)
(* was canceled.  A task run during the wait may have taken the last element *)
(* away: pop_back on an empty vector is undefined, and leaves no vector, so  *)
(* the model says nothing more.                                              *)
EndJoin(w) ==
  /\ At(w, "await") /\ Target(w) \in ready /\ pending[w] # << >>
  /\ pending' = [pending EXCEPT ![w] = Front(@)]
  /\ deleted' = IF Target(w) \in canceled THEN deleted ELSE deleted \cup {Target(w)}
  /\ Become(w, << >>)
  /\ UNCHANGED <<jobs, spec, grabbed, flags, childs>>

-----------------------------------------------------------------------------
(* CondChoose: cancel the branch that is not needed, join the one that is,   *)
(* if they were forked.  The one to cancel is found by its position from the *)
(* end of pendingTasks.  Mutant: it is always the last.                      *)
LastPosition(c, cond) == 1
CancelPosition(c, cond) == IF ~cond /\ c.else # NoTask THEN 2 ELSE 1
ChooseBranch(w, cond) ==
  LET c        == Head(Code(w))
      needed   == IF cond THEN c.then ELSE c.else
      unneeded == IF cond THEN c.else ELSE c.then
  IN  /\ At(w, "choose")
      /\ Become(w, (IF unneeded # NoTask THEN <<CancelAt(CancelPosition(c, cond))>> ELSE << >>)
                   \o (IF needed # NoTask THEN <<Join(needed)>> ELSE << >>))
      /\ UNCHANGED <<pending, jobs, spec, grabbed, flags, childs, deleted>>

CancelFromPendingEnd(w) ==
  LET n == Head(Code(w)).pos
      t == pending[w][Len(pending[w]) - n + 1]
  IN  /\ At(w, "cancelAt")
      /\ Become(w, IF Len(pending[w]) >= n THEN <<Visit(t), Erase(n, t)>> ELSE << >>)
      /\ UNCHANGED <<pending, jobs, spec, grabbed, flags, childs, deleted>>

CancelVisit(w) ==
  /\ At(w, "visit")
  /\ Become(w, IF Target(w) \in canceled THEN << >> ELSE <<Mark(Target(w)), Stop(Target(w))>>)
  /\ UNCHANGED <<pending, jobs, spec, grabbed, flags, childs, deleted>>

CancelMark(w) ==
  /\ At(w, "mark")
  /\ canceled' = canceled \cup {Target(w)}
  /\ Become(w, << >>)
  /\ UNCHANGED <<pending, jobs, spec, grabbed, ready, working, proactive, newLevel, childs, deleted>>

(* A running task's cancel() exchanges copies of pointers: it runs on.       *)
CancelStop(w) ==
  /\ At(w, "stop")
  /\ ready' = ready \cup {Target(w)}
  /\ LET cs == SetToSeq(childs[Target(w)]) IN Become(w, [i \in DOMAIN cs |-> Visit(cs[i])])
  /\ UNCHANGED <<pending, jobs, spec, grabbed, working, proactive, newLevel, canceled, childs, deleted>>

(* The wait for the canceled task is over: forget it.  Whatever ran during   *)
(* the wait may have left fewer tasks than pos: then erase(end() - pos) is   *)
(* undefined.  It moves all elements down by one, which loses the first; on  *)
(* an empty vector it leaves no vector, and the model says nothing more.     *)
(* Mutant: delete the task.                                                  *)
ErasePosition(w) ==
  LET n == Head(Code(w)).pos
  IN  IF n > Len(pending[w]) THEN 1 ELSE Len(pending[w]) - n + 1
CancelEraseDeletes(w) ==
  /\ At(w, "erase") /\ Target(w) \in ready /\ pending[w] # << >>
  /\ pending' = [pending EXCEPT ![w] = RemoveAt(@, ErasePosition(w))]
  /\ deleted' = deleted \cup {Target(w)}
  /\ Become(w, << >>)
  /\ UNCHANGED <<jobs, spec, grabbed, flags, childs>>
CancelErase(w) ==
  /\ At(w, "erase") /\ Target(w) \in ready /\ pending[w] # << >>
  /\ pending' = [pending EXCEPT ![w] = RemoveAt(@, ErasePosition(w))]
  /\ Become(w, << >>)
  /\ UNCHANGED <<jobs, spec, grabbed, flags, childs, deleted>>

-----------------------------------------------------------------------------
Step(w) ==
  \/ RunOwnJob(w) \/ RunProactive(w) \/ Finish(w)
  \/ \E v \in Workers : RunStolenJob(w, v) \/ GrabProactive(w, v)
  \/ ForkTask(w) \/ SpeculateTask(w) \/ AddForkJob(w) \/ BeginJoin(w) \/ EndJoin(w)
  \/ \E cond \in BOOLEAN : ChooseBranch(w, cond)
  \/ CancelFromPendingEnd(w) \/ CancelVisit(w) \/ CancelMark(w) \/ CancelStop(w)
  \/ CancelErase(w)

Next == UNCHANGED body /\ \E w \in Workers : Step(w)

Spec == Init /\ [][Next]_vars

(* Every worker's thread keeps running.                                      *)
FairSpec == Spec /\ \A w \in Workers : WF_vars(UNCHANGED body /\ Step(w))

-----------------------------------------------------------------------------
(* Properties                                                                *)

RunningTasks(w) == {frames[w][i].task : i \in DOMAIN frames[w]}

(* Every variable has its type.                                              *)
TypeOK ==
  /\ \A w \in Workers :
       /\ RunningTasks(w) \subseteq Tasks
       /\ pending[w] \in Seq(Tasks) /\ jobs[w] \in Seq(Tasks) /\ spec[w] \in Seq(Tasks)
       /\ grabbed[w] \in Tasks \cup {NoTask}
  /\ ready \cup working \cup proactive \cup newLevel \cup canceled \cup deleted \subseteq Tasks
  /\ childs \in [Tasks -> SUBSET Tasks]

(* join takes the last of pendingTasks, a list the worker shares among all   *)
(* the tasks stacked on it, and CondChoose cancels by position in that list: *)
(* a join nevertheless gets the task the program means, and a result, not a  *)
(* canceled task, unless it is canceled itself.  Not so once a canceled task *)
(* skips a fork: it still executes the join, and takes away a task that      *)
(* somebody else waits for.                                                  *)
NoForkSkipped == \A t \in canceled : Forks(t) \subseteq childs[t]
JoinsTheMeantTask ==
  NoForkSkipped => \A w \in Workers : At(w, "await") =>
     /\ Target(w) = Head(Code(w)).meant
     /\ Target(w) \in canceled => Current(w) \in canceled

(* The joinTask or cancelTask of each wait that the frames of w are in.       *)
Awaited(w) ==
  {Head(f.code).task :
     f \in {f \in ToSet(frames[w]) : f.code # << >> /\ Head(f.code).op \in {"await", "erase"}}}

(* A context that join has deleted is not run, queued or pending any more;   *)
(* and no wait further down any worker's stack, which will read whether it   *)
(* is ready and then take its results, is for it, as long as no canceled     *)
(* task has skipped a fork (see AwaitedExists).                              *)
NobodyHoldsDeleted ==
  \A w \in Workers :
    /\ deleted \cap (RunningTasks(w) \cup ToSet(pending[w]) \cup ToSet(jobs[w])
                      \cup ToSet(spec[w]) \cup {grabbed[w]}) = {}
    /\ NoForkSkipped => deleted \cap Awaited(w) = {}

(* A task that somebody waits for exists.  EvaluatorUnit.cpp:129 takes it    *)
(* that a canceled task, which has forked nothing, finds pendingTasks empty  *)
(* when it joins.  It does not when it runs on top of a task that waits:     *)
(* then it joins and deletes what that one waits for.                        *)
AwaitedExists == \A w \in Workers : deleted \cap Awaited(w) = {}

(* What markDataRoots visits: running tasks, and finished ones that are      *)
(* awaited.  Mutant: running tasks only.                                     *)
ScansRunning(t) == \E w \in Workers : t \in RunningTasks(w)
Scans(t) ==
  \E w \in Workers : t \in RunningTasks(w) \/ (t \in ready /\ t \in ToSet(pending[w]))

(* No root is missed: an awaited task that runs or has finished is scanned,  *)
(* and one that has not started has its arguments, copied from its parent's  *)
(* stack, kept alive because that parent is scanned.  (A worker stops for a  *)
(* scan at the start of schedule, so none has a task in its hand.)           *)
RootsCovered ==
  (\A w \in Workers : grabbed[w] = NoTask) =>
     \A w \in Workers : \A t \in ToSet(pending[w]) :
        Scans(t) \/ (t \notin ready /\ Scans(Parent(t)))

(* The program ends: although a task that waits can be resumed only after    *)
(* whatever its worker has piled on top of it, no two workers wait for each  *)
(* other for ever; or a worker has no pendingTasks any more, see EndJoin.    *)
PendingLost(w) ==
  (At(w, "await") \/ At(w, "erase")) /\ Target(w) \in ready /\ pending[w] = << >>
MainCompletes == <>(Main \in ready \/ \E w \in Workers : PendingLost(w))

(* Run.h: cancel cancels a task and all its children.  The children it       *)
(* visits are contexts that still exist.                                     *)
CancelVisitsExisting ==
  \A w \in Workers : At(w, "visit") => Target(w) \notin deleted
=============================================================================
