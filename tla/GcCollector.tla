----------------------------- MODULE GcCollector -----------------------------
(* The generational collector of Source/GC/GarbageCollector.cpp: what runGc  *)
(* does while the world is stopped (GcSafepoint), the jobs it queues, and    *)
(* the collector thread that marks, sweeps and promotes them while the       *)
(* mutators run on.  The mutators' stacks are one set of root objects; the   *)
(* scan of the roots is one action because the world is stopped.  Every      *)
(* object has size 1.  An ADT's fields never change and are visited          *)
(* together; an array has a single slot, which can be overwritten.  At the    *)
(* end the evaluator deletes its units while the collector may still work,    *)
(* and then the collector (EvaluatorLifecycle has the threads that do so).    *)
EXTENDS Naturals, Sequences, FiniteSets

CONSTANTS Objects,     \* objects that can ever be allocated
          Arrays,      \* those that are arrays
          MaxFields,   \* bound: fields of an ADT
          MaxQueue,    \* bound: collections waiting for the collector thread
          Threshold    \* GcConfig::oldGenGCThreshold

ASSUME CollectorAssumption ==
  /\ Arrays \subseteq Objects /\ IsFiniteSet(Objects)
  /\ MaxFields \in Nat /\ MaxQueue \in Nat \ {0} /\ Threshold \in Nat

VARIABLES
  roots,        \* objects the mutators' stacks refer to
  refs,         \* refs[o]: objects the fields of o refer to
  fresh,        \* objects not allocated yet
  freed,        \* objects deleted
  heap,         \* the mutators' CollectedHeaps: allocated since the last scan
  isOld,        \* objects whose age is OLD
  marked,       \* objects whose marked bit is 1
  queue,        \* mQueue
  mAllocated,   \* the old generation's list
  mOldGenSize,
  mCollectOld,
  pc,           \* where the collector thread is
  job,          \* the job it works on
  stack,        \* mMarkStack: the objects whose fields are to be visited
  aliveSize,
  mainPc,       \* how far the main thread is with the end of the evaluation
  fullDone      \* history: a full collection has swept

mutator   == <<roots, refs, fresh, heap>>
generation == <<mAllocated, mOldGenSize, mCollectOld>>
vars == <<mutator, freed, isOld, marked, queue, generation, pc, job, stack, aliveSize, mainPc,
          fullDone>>

(* GcJob: the roots found and what was allocated before the scan.            *)
NoJob == [roots |-> {}, objs |-> {}, full |-> FALSE]

Reach[S \in SUBSET Objects] ==
  LET next == S \cup UNION {refs[o] : o \in S}
  IN  IF next = S THEN S ELSE Reach[next]
Reachable == Reach[roots]

(* ObjectMarker::checkAge(o, full ? OLD : YOUNG)                             *)
checkAge(o, full) == full \/ o \notin isOld

Init ==
  /\ roots = {} /\ refs = [o \in Objects |-> {}]
  /\ fresh = Objects /\ freed = {} /\ heap = {}
  /\ isOld = {} /\ marked = {}
  /\ queue = << >>
  /\ mAllocated = {} /\ mOldGenSize = 0 /\ mCollectOld = FALSE
  /\ pc = "loop" /\ job = NoJob /\ stack = {} /\ aliveSize = 0
  /\ mainPc = "evaluating" /\ fullDone = FALSE

-----------------------------------------------------------------------------
(* A mutator allocates: the object is born YOUNG and marked.  Mutant: it is  *)
(* born unmarked.                                                            *)
AllocUnmarked(o, fields) ==
  /\ o \in fresh
  /\ refs' = [refs EXCEPT ![o] = fields]
  /\ fresh' = fresh \ {o}
  /\ roots' = roots \cup {o}
  /\ heap' = heap \cup {o}
  /\ UNCHANGED <<freed, isOld, marked, queue, generation, pc, job, stack, aliveSize, mainPc,
                 fullDone>>
Alloc(o, fields) ==
  /\ o \in fresh
  /\ refs' = [refs EXCEPT ![o] = fields]
  /\ fresh' = fresh \ {o}
  /\ roots' = roots \cup {o}
  /\ heap' = heap \cup {o}
  /\ marked' = marked \cup {o}
  /\ UNCHANGED <<freed, isOld, queue, generation, pc, job, stack, aliveSize, mainPc, fullDone>>

AllocADT == \E o \in Objects \ Arrays, fields \in SUBSET roots :
              Cardinality(fields) <= MaxFields /\ Alloc(o, fields)

AllocArray == \E o \in Arrays, x \in roots : Alloc(o, {x})

(* Take a field, an element: what it refers to is now on the stack.          *)
Load(o, x) ==
  /\ o \in roots /\ x \in refs[o]
  /\ roots' = roots \cup {x}
  /\ UNCHANGED <<refs, fresh, heap, freed, isOld, marked, queue, generation, pc, job,
                 stack, aliveSize, mainPc, fullDone>>

(* unwind drops stack slots.                                                 *)
Drop(o) ==
  /\ o \in roots
  /\ roots' = roots \ {o}
  /\ UNCHANGED <<refs, fresh, heap, freed, isOld, marked, queue, generation, pc, job,
                 stack, aliveSize, mainPc, fullDone>>

(* arraySet overwrites an element and tells the collector nothing.           *)
SetElement(a, x) ==
  /\ a \in roots \cap Arrays /\ x \in roots \ {a}
  /\ refs' = [refs EXCEPT ![a] = {x}]
  /\ UNCHANGED <<roots, fresh, heap, freed, isOld, marked, queue, generation, pc, job,
                 stack, aliveSize, mainPc, fullDone>>

(* runGc between the stop and the release of the other threads.  The heaps   *)
(* may be empty: a thread that loses the race for mGcMutex collects again.   *)
(* Mutant: the heaps are not reset.                                          *)
RunGcKeepsHeap ==
  /\ Len(queue) < MaxQueue
  /\ queue' = Append(queue, [roots |-> {o \in roots : checkAge(o, mCollectOld)},
                             objs  |-> heap,
                             full  |-> mCollectOld])
  /\ UNCHANGED <<mutator, freed, isOld, marked, generation, pc, job, stack, aliveSize, mainPc,
                 fullDone>>
RunGc ==
  /\ Len(queue) < MaxQueue
  /\ queue' = Append(queue, [roots |-> {o \in roots : checkAge(o, mCollectOld)},
                             objs  |-> heap,
                             full  |-> mCollectOld])
  /\ heap' = {}
  /\ UNCHANGED <<roots, refs, fresh, freed, isOld, marked, generation, pc, job, stack,
                 aliveSize, mainPc, fullDone>>

-----------------------------------------------------------------------------
(* collectorThreadLoop tests mQuit between two jobs; pop() gives it nothing   *)
(* only when the queue is empty and quit() was called.                        *)
mQuit == mainPc \in {"quit", "woken", "done"}
CollectorLoop ==
  /\ pc = "loop"
  /\ pc' = IF mQuit THEN "exited" ELSE "pop"
  /\ UNCHANGED <<mutator, freed, isOld, marked, queue, generation, job, stack, aliveSize, mainPc,
                 fullDone>>

PopNothing ==
  /\ pc = "pop" /\ queue = << >> /\ mainPc = "woken"
  /\ pc' = "exited"
  /\ UNCHANGED <<mutator, freed, isOld, marked, queue, generation, job, stack, aliveSize, mainPc,
                 fullDone>>

PopJob ==
  /\ pc = "pop" /\ queue # << >>
  /\ job' = Head(queue)
  /\ queue' = Tail(queue)
  /\ pc' = "roots"
  /\ UNCHANGED <<mutator, freed, isOld, marked, generation, stack, aliveSize, mainPc, fullDone>>

MarkRoots ==
  /\ pc = "roots"
  /\ aliveSize' = Cardinality(job.roots \ marked)
  /\ marked' = marked \cup job.roots
  /\ stack' = job.roots
  /\ pc' = "trace"
  /\ UNCHANGED <<mutator, freed, isOld, queue, generation, job, mainPc, fullDone>>

(* HeapMarker: only what was not marked yet is marked and visited in turn.   *)
Trace(o) ==
  LET found == {x \in refs[o] \ marked : checkAge(x, job.full)}
  IN  /\ pc = "trace" /\ o \in stack
      /\ marked' = marked \cup found
      /\ stack' = (stack \ {o}) \cup found
      /\ aliveSize' = aliveSize + Cardinality(found)
      /\ UNCHANGED <<mutator, freed, isOld, queue, generation, pc, job, mainPc, fullDone>>

(* The mark stack is empty.  A full collection takes the old generation in.  *)
(* Mutant: its size is reduced by the number of objects taken.               *)
TracedSubtracts ==
  /\ pc = "trace" /\ stack = {}
  /\ pc' = "sweep"
  /\ IF job.full
     THEN /\ job' = [job EXCEPT !.objs = @ \cup mAllocated]
          /\ mAllocated' = {} /\ mCollectOld' = FALSE
          /\ mOldGenSize' = mOldGenSize - Cardinality(mAllocated)
     ELSE UNCHANGED <<job, generation>>
  /\ UNCHANGED <<mutator, freed, isOld, marked, queue, stack, aliveSize, mainPc, fullDone>>
Traced ==
  /\ pc = "trace" /\ stack = {}
  /\ pc' = "sweep"
  /\ IF job.full
     THEN /\ job' = [job EXCEPT !.objs = @ \cup mAllocated]
          /\ mAllocated' = {} /\ mOldGenSize' = 0 /\ mCollectOld' = FALSE
     ELSE UNCHANGED <<job, generation>>
  /\ UNCHANGED <<mutator, freed, isOld, marked, queue, stack, aliveSize, mainPc, fullDone>>

Sweep ==
  /\ pc = "sweep"
  /\ freed' = freed \cup (job.objs \ marked)
  /\ job' = [job EXCEPT !.objs = @ \cap marked]
  /\ refs' = [o \in Objects |-> IF o \in freed' THEN {} ELSE refs[o]]
  /\ fullDone' = (fullDone \/ job.full)
  /\ pc' = "promote"
  /\ UNCHANGED <<roots, fresh, heap, isOld, marked, queue, generation, stack, aliveSize, mainPc>>

(* The survivors, one by one, become OLD and unmarked ...                    *)
Promote(o) ==
  /\ pc = "promote" /\ o \in job.objs
  /\ o \in marked \/ o \notin isOld
  /\ isOld' = isOld \cup {o}
  /\ marked' = marked \ {o}
  /\ UNCHANGED <<mutator, freed, queue, generation, pc, job, stack, aliveSize, mainPc, fullDone>>

(* ... and join the old generation, whose size decides on a full collection. *)
Retire ==
  /\ pc = "promote" /\ job.objs \subseteq isOld \ marked
  /\ mOldGenSize' = mOldGenSize + aliveSize
  /\ mAllocated' = mAllocated \cup job.objs
  /\ mCollectOld' = (mCollectOld \/ mOldGenSize + aliveSize > Threshold)
  /\ pc' = "loop" /\ job' = NoJob /\ aliveSize' = 0
  /\ UNCHANGED <<mutator, freed, isOld, marked, queue, stack, mainPc, fullDone>>

-----------------------------------------------------------------------------
(* The end.  All workers have been joined: nothing refers to objects any      *)
(* more, and the heap of each deleted unit deletes what was allocated since   *)
(* the last scan.  Then ~GarbageCollectorImpl sets mQuit, calls quit(), joins *)
(* the thread and deletes the old generation; a job left in the queue keeps   *)
(* its objects.                                                               *)
Delete(objs) ==
  /\ freed' = freed \cup objs
  /\ refs' = [o \in Objects |-> IF o \in objs THEN {} ELSE refs[o]]
DeleteUnits ==
  /\ mainPc = "evaluating" /\ mainPc' = "deleted"
  /\ Delete(heap)
  /\ roots' = {} /\ heap' = {}
  /\ UNCHANGED <<fresh, isOld, marked, queue, generation, pc, job, stack, aliveSize, fullDone>>

Quit ==
  /\ \/ mainPc = "deleted" /\ mainPc' = "quit"
     \/ mainPc = "quit" /\ mainPc' = "woken"
  /\ UNCHANGED <<mutator, freed, isOld, marked, queue, generation, pc, job, stack, aliveSize,
                 fullDone>>

JoinCollector ==
  /\ mainPc = "woken" /\ pc = "exited"
  /\ mainPc' = "done"
  /\ Delete(mAllocated)
  /\ mAllocated' = {}
  /\ UNCHANGED <<roots, fresh, heap, isOld, marked, queue, mOldGenSize, mCollectOld, pc, job,
                 stack, aliveSize, fullDone>>

-----------------------------------------------------------------------------
Mutate ==
  \/ AllocADT \/ AllocArray \/ RunGc
  \/ \E o \in roots : Drop(o) \/ \E x \in Objects : Load(o, x) \/ SetElement(o, x)

Collect ==
  \/ CollectorLoop \/ PopNothing \/ PopJob \/ MarkRoots \/ Traced \/ Sweep \/ Retire
  \/ \E o \in Objects : Trace(o) \/ Promote(o)

End == DeleteUnits \/ Quit \/ JoinCollector

Next == (mainPc = "evaluating" /\ Mutate) \/ Collect \/ End

Spec == Init /\ [][Next]_vars

-----------------------------------------------------------------------------
(* Properties                                                                *)

(* Every variable has its type.                                              *)
JobType == [roots : SUBSET Objects, objs : SUBSET Objects, full : BOOLEAN]
TypeOK ==
  /\ roots \subseteq Objects /\ refs \in [Objects -> SUBSET Objects]
  /\ fresh \subseteq Objects /\ freed \subseteq Objects /\ heap \subseteq Objects
  /\ isOld \subseteq Objects /\ marked \subseteq Objects
  /\ queue \in Seq(JobType) /\ job \in JobType
  /\ mAllocated \subseteq Objects /\ mOldGenSize \in Nat /\ mCollectOld \in BOOLEAN
  /\ pc \in {"loop", "pop", "exited", "roots", "trace", "sweep", "promote"}
  /\ stack \subseteq Objects /\ aliveSize \in Nat /\ fullDone \in BOOLEAN
  /\ mainPc \in {"evaluating", "deleted", "quit", "woken", "done"}

(* An intrusive list node belongs to one list: every object is unallocated,  *)
(* deleted, or in exactly one of the heaps, the queued jobs, the job in      *)
(* progress and the old generation.  So nothing is deleted twice or leaked,  *)
(* whichever collections overlap and wherever the end of the evaluation      *)
(* finds them; only a job left in the queue keeps its objects.               *)
Lists == << fresh, freed, heap, mAllocated, job.objs >>
           \o [i \in 1 .. Len(queue) |-> queue[i].objs]
OwnedOnce ==
  \A o \in Objects : Cardinality({i \in 1 .. Len(Lists) : o \in Lists[i]}) = 1

(* Until the first full collection no reachable object is ever deleted,      *)
(* although nothing records references from old arrays to young objects and  *)
(* the mutators rewrite arrays while the collector traces.                   *)
YoungCollectionsKeepReachable == ~fullDone => Reachable \cap freed = {}

(* The units, with their heaps, are deleted while the collector may still    *)
(* trace.  Until the first full collection, what it meets that was deleted   *)
(* under its hands, an object written into an array after the scan, it meets *)
(* only then and only in arrays.  After one nothing is said.                 *)
DeletedMetOnlyInArrays ==
  pc = "trace" /\ ~fullDone =>
    \A o \in stack : refs[o] \cap freed # {} => o \in Arrays /\ mainPc # "evaluating"

(* Line 277, "mark the reachable vertices": when the trace has ended, what   *)
(* the collection may delete and is reachable has been marked.               *)
TraceMarksReachable == pc = "sweep" => job.objs \cap Reachable \subseteq marked
=============================================================================
