# FPTL: a TLA+ model of the parallel interpreter

FPTL is a functional language whose programs are compositions of functions: `A.B`
(sequence), `A*B` (parallel tuple) and `P -> A, B` (condition). The interpreter under
`src/Source` parses a program, builds a graph of functional schemes, translates it to
an internal form of nodes that call each other, and runs that form on several threads
which fork, steal, join and cancel tasks and share a generational garbage collector.

## Inventory

| Part | Source | State | Operations | Interacts with |
|---|---|---|---|---|
| job queue | `Evaluator/LockFreeWorkStealingQueue.h` | head, tail, buffer | `push`, `pop` (owner), `steal` (others) | called by every worker |
| task scheduler | `Evaluator/EvaluatorUnit.cpp`, `Run.cpp`, `Context.cpp` | per worker `runningTasks`, `pendingTasks`, two queues; per task the flags `Ready`, `Working`, `Proactive`, `NewProactiveLevel`, `Canceled`, and `Childs` | `addForkJob`, `join`, `schedule`, `cancelFromPendingEnd`, `cancel`, `moveToMainOrder` | queue, collector, virtual machine |
| evaluator life cycle | `Evaluator/Run.cpp`, `EvaluatorUnit.cpp`, `GC/BlockingQueue.h` | thread group, `mStopMutex`, interruption requests, the collector's thread and its queue | `run`, `stop`, `abort`, `evaluateScheme`, `push`, `pop`, `quit` | workers, collector |
| stopping the world | `GC/GarbageCollector.cpp` | `mStop`, `mStopped`, `mGcMutex`, `mRunMutex`/`mRunCond` | `runGc`, `needGC`, `safePoint` | heap limit, `schedule` |
| collector | `GC/GarbageCollector.cpp`, `CollectedHeap.*`, `BlockingQueue.h`, `mark` of each data type | age and mark of an object, lists of objects, queue of jobs | scan of roots, mark, sweep, promote | mutators allocate and write arrays meanwhile |
| virtual machine | `InternalForm/InternalForm.cpp`, `Context.cpp` | value stack, control stack, argument window | one `exec` per node | scheduler |
| generator | `InternalForm/Generator.cpp`, `FScheme/*` | none | scheme graph to nodes | virtual machine |
| scheme generator | `FScheme/FSchemeGenerator.cpp`, `ConstructorGenerator.cpp` | a stack of nodes, a context of schemes and a stack of contexts; the constructors | syntax tree to scheme graph, one handler per node class | semantic checks, libraries, internal form generator |
| semantic checks | `Parser/Semantic.cpp`, `SemanticCheck.h` | stack of contexts of definitions; marks on equations | target of every name, recursive equations | parser, scheme generator |
| data types, libraries | `DataTypes/*`, `Libraries/*` | immutable values; arrays are mutable and shared | operations, type checks | heap |
| parser, interpreter | `Parser/*`, `Interpreter/*` | syntax tree, identifiers | parse, command line, the order of the phases | semantic checks |

Hard behaviours: thieves racing the owner of a queue, above all while its buffer
grows; tasks stacked on top of a waiting task; cancellation of a task that another
worker runs; stopping all threads with a counter that is reused; collections that
overlap each other and the mutators; the end of the evaluation while a collection is
being gathered, queued or traced; exceptions that unwind several stacked tasks at once;
and, in the sequential front end, names that are looked up in whichever context happens
to be the current one.

What makes each part correct:

* queue: every job is taken exactly once, the youngest by `pop`, the oldest by `steal`;
* scheduler: a join gets the task the program means, a context is deleted when nobody
  holds it any more, the program ends;
* stopping the world: nobody touches a stack or a heap during a scan, every thread is
  let go again, nobody waits for ever;
* collector: reachable objects survive, every object is on one list, garbage goes;
* life cycle: `run` returns with a result or an error, and the collector's thread ends;
* virtual machine: running the nodes of a scheme leaves the tuple the scheme denotes
  on the stack;
* front end: the graph of schemes means what the text of the program means, and a
  program the checks accept gets a graph.

## Modules

| Module | What it is |
|---|---|
| `QueueJobs` | the users of a job queue and the jobs: constants of the next two modules |
| `JobDeque` | what a job queue promises: a deque of which every job is handed out once |
| `JobDequeProofs` | proofs about `JobDeque` |
| `WorkStealingQueue` | the lock-free queue, one action per access to a shared location |
| `WorkStealingQueueProofs` | that it implements `JobDeque`, and never leaves its buffer |
| `GcSafepoint` | `runGc` and `safePoint`, and where workers call them |
| `GcSafepointProofs` | proofs about `GcSafepoint` |
| `GcCollector` | allocation, the scan of the roots, the collector thread, and the end of the evaluation |
| `GcCollectorProofs` | proofs about `GcCollector` |
| `EvaluatorLifecycle` | from the creation of the threads to the end of the collector's: `run`, `stop`, `abort`, exceptions, `BlockingQueue` |
| `EvaluatorLifecycleProofs` | proofs about `EvaluatorLifecycle` |
| `TaskScheduler` | fork, steal, join, speculation and cancellation of tasks |
| `TaskSchedulerProofs` | proofs about `TaskScheduler` |
| `Syntax` | the syntax tree of a program |
| `Semantic` | `NamesChecker` and `RecursionFinder` |
| `SchemeGenerator` | from an accepted tree to the graph of schemes, one step per node visited |
| `SourceSemantics` | what the text of a program means, and that the graph means the same |
| `Library` | integers, booleans, undefined values, ADTs, and the library functions on them |
| `SchemeMeaning` | what a graph of schemes means |
| `Generator` | `isLong` and the translation of scheme graphs to the internal form |
| `GeneratorProofs` | that the code it generates is balanced |
| `InternalForm` | the virtual machine: every node's `exec` on the stacks of a context |
| `InternalFormProofs` | proofs about `InternalForm` |
| `SchemeSemantics` | that the virtual machine computes what the graph means |
| `MCQueue`, `MCSafepoint`, `MCCollector`, `MCLifecycle`, `MCScheduler`, `MCFrontEnd`, `MCInternalForm` | instances for TLC |

How they compose: `TaskScheduler` uses a queue as the atomic deque that
`WorkStealingQueue` is shown to implement; `GcSafepoint` establishes that nothing moves
while roots are scanned, which is why the scan is one action (`RunGc`) of
`GcCollector`; and `RootsCovered` of `TaskScheduler` says that the stacks that scan
visits are all that matter. `InternalForm` takes from `TaskScheduler` that a join gets
the task it is meant for, and leaves to it which worker runs what. `EvaluatorLifecycle`
abstracts both the tasks and the handshake and adds threads that begin and end. A
program's way from text to result is in two halves that meet in `SchemeMeaning`:
`SourceSemantics` compares the text with the graph, `SchemeSemantics` the graph with
what the machine computes, both over the functions of `Library`.

### WorkStealingQueue

`head`, `tail`, `size` and `queue` are `mHeadPos`, `mTailPos`, `mSize` and `mQueue`;
`owner` and `thief[t]` hold the program counters and locals of `push`, `pop` and
`steal`. Jobs are numbered in the order of their pushes. `size` also identifies the
vector's buffer: a thief that fetched the buffer's address before `resize` replaced it
reads freed memory, modelled as any job or none. Accesses are sequentially consistent,
which is what the orderings used give on x86 for the pairs that matter (the fence
in `pop`, the locked compare-and-swaps). `raced` records that a `steal` overlapped a
growth of the buffer; `ImplementsDeque` is the refinement of `JobDeque` step by step
until that happens, with `Live` (the slots between head and tail, while a growth moves
them) as the deque and `InHand` as the hands.

### GcSafepoint

One program counter per worker. A section under `mRunMutex` is one action, because it
touches only what that mutex guards; waiting on `mRunCond` is membership in `asleep`,
and a wait ends in two steps (waking, testing the predicate). `Interrupt` is `abort` or
`stop`, `Exit` is the worker leaving `evaluateScheme` at an interruption point.

### GcCollector

Sets of objects stand for the intrusive lists: `heap` for the lists of the mutators'
heaps, `job.objs`, `mAllocated`. `marked` and `isOld` are the two fields of `MetaInfo`;
an object is born marked, as `Collectable::Collectable` makes it. `Alloc`, `Load`,
`Drop` and `SetElement` are what programs do to the heap; `RunGc` is what `runGc` does
in the stopped world; `PopJob` to `Retire` are `collectorThreadLoop`. Every object has
size 1; `Threshold` = 0 is the value the default configuration computes
(`GarbageCollector.h:35` converts 0.75 to `size_t` before multiplying).

`mainPc` is the main thread's way through the end: the units are deleted with what was
allocated since the last scan (`DeleteUnits`), the destructor sets `mQuit`, wakes the
collector, joins it and deletes the old generation. The collector's thread may be
anywhere meanwhile. It can then visit an object whose field was deleted with a heap;
that is confined to arrays written after the scan (`DeletedMetOnlyInArrays`), and what
it does there (setting a bit in freed memory) is not followed further.

### EvaluatorLifecycle

A worker's `pc` is where its thread is in `evaluateScheme`, `schedule`, `runGc`, `stop`
or `abort`; `frames` are the tasks stacked on its C++ stack. The program forks its kids
and joins the needed ones; the others stand for branches of conditions that turned out
not to be needed, which may be discarded unrun or be running still. Any task may throw
or ask for a collection at any time. `Unwind` is the boost interruption or the exception
that leaves all stacked tasks at once. `InterruptAll` reaches the threads created so
far, which is what `mStopMutex` is for. The handshake is reduced to its waits: a
gathering worker waits until all others are at a safe point. A worker that has left
never is: its wait (`GarbageCollector.cpp:185`) is no interruption point, so `join_all`
waits for it for ever. `Stuck` is that deadlock, which abort() reaches here, and
`StuckOnlyAfterFailure` says when it can happen.

### Syntax, Semantic, SchemeGenerator

Terms are records with their `kids`; a program has its blocks in a function from names,
every name of a `fun` being used once. `Resolve` is `checkName` with the contexts it
searches: the block's own (funs, equations, formal parameters, in that order), then what
the block around it *had inserted so far* when the fun was entered, then the globals.
`DataInOrder` are the checks of a data block. `Accepted` is what `getAST` requires.
`BlockCycles` is `RecursionFinder`, and `recursive` the equations and funs it has
marked.

`work` is what the recursive visitor still has to do, the innermost call first: each
item is a call of `process` or the rest of a handler after it. The other variables are
the generator's members; `nodes` and `functions` are the graph as `Generator` takes it.
Plain equations are substituted for their names; recursive ones and funs are
instantiated once per context, found by name from then on; a call with functional
parameters gets a context of its own, in which the arguments are the schemes of the
formal parameters. A sequence whose right part is a sequence is rotated at that node.
`HandleData` is `ConstructorGenerator` on one data block, which fills `mConstructors`
before the scheme is visited; the types written in the old notation stay in `mTypeTuple`
and become fields of the block's first constructor. `Overflow` is the end of the C++
stack.

### SourceSemantics

`Meaning` reads the text: every name is bound where it is written, a constructor takes
the types its block gives (`Constructed`), and a formal parameter stands for a term in
the environment of its call. The generator binds the names of what it does not
substitute when it meets them, so the two differ where a nested block has such a name in
common with a block around it (`Captures`). They also differ on constructors that take
less than is written (`Misdeclared`): a base type is recorded as the text spells it,
"int", while the type of a value is called "Int" (`IntegerOps`), so with the checks of
`fptlDebugBuild` a field of a base type accepts nothing, as in `Data Complex` of
`Examples/Test.fptl:21` and in `Testing/ADTTests/ADTErrorsTest.cpp:11`, which builds
such a value; and the first constructor of a block with the old notation
expects the leftover types as well. The property `SchemeMeansSource` is about all other
programs. `AcceptedGenerates` and `OverflowsOnlyOnCycles` name the accepted programs
that have no graph: `+` terms (the handler throws `logic_error`), destructors of unknown
constructors (the checks do not look them up), a type's name used as a function, an
equation that mentions a formal parameter and is used in a nested block
(`FormalEscapes`: `at` throws), and funs that reach themselves through each other or
through an equation of their parent (instantiated without end).

### TaskScheduler

`frames[w]` is the C++ stack of a worker seen through `runningTasks`: each frame is a
task and the rest of its code, a sequence of the instructions `Fork`, `Speculate`,
`Join` and `Choose` (the nodes ParFork, ParJoin, CondStart and CondChoose); everything
between two of them is left out. While a worker executes one, the instruction is
replaced by the steps of the scheduler function it calls (`Add`, `Visit`, `Mark`,
`Stop`, `Erase`, `Await`). The outcome of a condition is nondeterministic. A fork, join
and choice name the task they are *meant* for; the code has no such names, it uses
positions in `pendingTasks`, and the properties compare the two. `cancel()` of a running
task exchanges copies of node pointers (`InternalForm.h:25-30` takes them by value) and
so has no effect on it: the task runs on.

`ProgramAssumption` is what the generator makes of every program: a context is spawned
by one node, once (a function that is called again spawns new contexts, other members of
`Tasks`), and after a ParFork comes its ParJoin, after a CondStart its CondChoose
(`Generator.cpp:16-20`, `80-84`). `NestingAssumption` adds that forks and joins nest,
because the generator puts the code of a whole scheme between the two: following a body
with the list of what is left to join (`Nests`), what is joined is the last of the list,
what is chosen from the last two or the last, then before else, and nothing is left at
the end. TLC evaluates both on the programs of the runs. Both are assumptions about
generated code and translate no code of their own. Only `JoinsMeant` and the second part
of `DeletedIsForgotten` rest on the second.

A canceled task skips its forks and goes on to the joins, so it may pop what another
task of its worker waits for. That one's `pop_back` (`EvaluatorUnit.cpp:148`) then finds
the vector empty, which is undefined and leaves no vector: the model lets that worker do
nothing more (`PendingLost`), and `MainCompletes` is about all other behaviours. The
program `Nested` reaches this. If the waiting task has not come so far it is still in
its loop over `Ready` of a context that was deleted (line 141): `Awaited` are the
contexts that the waits of all frames of a worker look at, `scheduler_wait` shows that
one of them may be deleted, and `NobodyHoldsDeleted` that this takes a canceled task
that has skipped a fork. What reads of a deleted context return is not followed: the
model keeps its flags as they were. `erase(end() - pos)` on a shorter list (line 185) is
treated alike; no program of the runs reaches it.

### Generator and InternalForm

A program is a table of scheme nodes, children first, as the scheme generator makes
them; an `FScheme` names an entry. `Generate` gives the main code and the code of each
`FScheme`. A code is a sequence of nodes, each standing for one whose `mNext` is the
rest of the sequence, so a span's tail is what is appended to it; a branch is one code
or none (the null pointers `mThen`, `mElse`). `LinkOf` is what the visitor puts in front
of a span for one scheme node, and `Spans` the function from scheme nodes to spans, each
made of those of the node's children.

`InternalForm` assumes of the program that it was built (`WellBuilt`): a node refers to
nodes that were there before it, since the constructors of `FSchemeNode` take their
children, and a name to an `FScheme` whose definition is set. That the graphs of
`SchemeGenerator` are like this when it is done is part of its `TypeOK`, which
`frontend_graph` checks.

`ctx` holds the contexts, named by the path of forks from the main one: value stack,
`argPos`, `argNum`, `arity`, control stack and pending forks are the fields of
`SExecutionContext`. Each action `Exec...` is the `exec` of one node class up to its
call of the next node. `Arguments`, `Results`, `PushAll`, `Advance` and `Unwind` are the
context's methods. A canceled context goes on but forks nothing. What library functions
compute is the constant `Apply`, `Library` in the runs; `Fault` is their exception, and that of an index out of range (`fptlDebugBuild` is 1 in
`Macros.h`). An exception ends the behaviour: the worker that catches it aborts the
evaluation.

`below` of a task are the tasks it is stacked on, as far as its worker's `pendingTasks`
goes: when it starts it is put on an idle worker (`<< >>`) or on top of any task that
waits in a join (`Places`), which cannot go on before it has ended (`Covered`). So
`pendingTasks` of its worker is what the tasks `below` it and then it itself have
pending. A join takes the last of that. If the task has nothing pending of its own,
which a canceled task may find that has skipped its fork, that is nothing (`JoinNothing`:
an empty context) or what a task beneath it waits for (`JoinAnothers`); the branch that
CondChoose cancels is looked for in the same list (`others`). A task from which something
was taken so is put into `robbed`, and the behaviour ends there (`Over`): what the code
does next is to read a deleted context. `scheduler_wait` shows where that happens with
workers and queues; here what the joins give is claimed "until a canceled task takes
another's".

Two simplifications. Cancellation of a task and all below it is one step (its single
steps are in `TaskScheduler`), so that `cancelFromPendingEnd` never waits. And there is
always an idle worker for a task that is to start on one: the behaviours include those of
any number of workers, but that few workers do not wait for each other for ever is not
`Terminates` but `MainCompletes` of `TaskScheduler`.

## Runs

| Run | Instance | Shows |
|---|---|---|
| `queue_deque` | 2 thieves, buffer of 1 slot, 4 jobs | the queue implements the deque until a steal overlaps a growth; even then no index leaves the buffer (`StealsInBounds`), the unsigned count of kept jobs does not wrap (`GrowthCountsJobs`) although a stale compare-and-swap may succeed after the head was reset; a push returns |
| `queue_take` | same, 3 jobs | *violated*: a thief takes a job while the buffer grows |
| `safepoint_world` | 3 workers | the world stops for a scan, `mStopped` is exact, nobody leaves early, a collection ends unless the workers are interrupted |
| `collector_safety` | 2 ADTs, 1 array | no object is on two lists or lost, even when the evaluation ends during a collection, and until a full collection nothing reachable is deleted, without a write barrier; after the units are gone a trace meets deleted objects only in arrays |
| `collector_reach` | 3 ADTs, 2 jobs queued | *violated*: the trace of a full collection misses reachable objects |
| `lifecycle_ends` | 3 workers, 2 kids of which any are needed, 2 collections | `run` returns unless a collection waits for a worker that has left; that takes a failure or an unneeded task; there is a result or an error, and both only if an unneeded branch threw |
| `scheduler_join` | 3 workers, 3 programs of 5 tasks | the right task is joined; no deleted context is run, queued or pending, nor waited for unless a canceled task has skipped a fork; roots are covered, the program ends |
| `scheduler_visit` | 2 workers, same programs | *violated*: `cancel` follows a pointer to a deleted child |
| `scheduler_wait` | 3 workers, same programs | *violated*: a canceled task stacked on a waiting one joins and deletes what that one waits for |
| `frontend_graph` | five families of programs, 1991 | the graph means what the text means; the stacks of nodes and contexts match what is left to do; generation fails or does not end only for the programs listed above |
| `internalform_vm` | 11 programs, with and without speculation | the machine computes the meaning of the scheme under every interleaving; argument windows and frames stay inside the stack; the untagged control values are read as they were written; contexts end balanced; a needed task joins its own forks, and none that is canceled; every behaviour ends |
| `internalform_unneeded` | one speculative condition | *violated*: a canceled branch throws because its forks were skipped, and aborts a program that has a result |

Each property of a passing run is also checked to fail when one definition is replaced
by its mutant (the definitions commented "Mutant"), which stands for a plausible slip in
the code.

`moveToMainOrder` is modelled (`Moved`), but moves nothing: `join` calls it only when
the parent is not proactive, and it works only when the parent is. An awaited
speculative task so keeps its low priority, contrary to the comment at `Run.h:81`. It is
not a run, since it changes no result.

Bounds. With one slot at first and four jobs the buffer grows twice, once with nothing
taken and once with a shifted window, and both thieves can be inside `steal` at any of
those points; one thief cannot interfere with another except by winning its
compare-and-swap, so two are enough. Three workers let two threads lose the race for
`mGcMutex` while a third is parked. Two ADTs and an array are the least with which an
old array refers to a young object and something else keeps it alive. The three programs
contain nested forks, two speculative branches canceled by position, a condition with
one long branch inside a fork, and a speculative branch that forks; with three workers a
task, its child and the canceler can all be on different threads.

The programs of the virtual machine are the recursive Fibonacci function with forks,
tuples with nested chains, ranges and an empty tuple, an operand that throws, and
conditions with one or two long branches, either outcome, an undefined verdict, a branch
that forks, and an unneeded branch that throws. In three more a condition stands next to
an operand that forks, and its unneeded branch, once canceled, joins
(`JoinsAnothers`) or cancels (`CancelsAnothers`) what the other operand waits for if it
is stacked on it; in `JoinsItself` the branch joins twice. `SizeRange` (1024) stands for 2^64; it
only has to exceed every tuple.

Three workers are the creating order's first, last and one between; two kids let one be
stacked on the joining program while the other throws; with two requests a second
collection is asked for while the first one's job is queued.

The programs of the front end are all choices of terms for four shapes of blocks: a fun
with two functional parameters, before or after an equation of its parent; two sibling
funs; a fun with a parameter inside another one, whose equation may have the name of an
outer one; one equation with every kind of name, with and without an input; and data
blocks in front of a scheme that builds and takes apart a value: two constructors of one
signature, a parameter used twice, types defined later, a base type, the old notation,
and blocks the checks refuse. No shape needs more than 30 pending calls unless it
recurses for ever, so `MaxWork` = 60 stands for the C++ stack. The input counts down
from 2, so `Fuel` = 10 names inside each other are enough; where they are not, both
sides are undefined, and a defined meaning of the graph is compared with four times the
fuel of the text.

Fairness. `PushReturns` assumes that an owner inside `push` or `pop` keeps taking steps,
nothing of the thieves. `CollectionEnds` assumes that every worker's thread runs and
that a worker that evaluates comes back to `schedule`; `try_lock` promises nothing to a
particular thread, so it is not claimed that a worker that asks for a collection ever
gets the mutex. Leaving at an interruption point is strongly fair, since a worker may be
between tasks again and again. `MainCompletes` assumes that every worker's thread runs.
`RunReturns` assumes that every thread, the main one and the collector's included, runs,
and that a task that keeps running ends or throws; it does not assume that `schedule`
finds any particular task. `Terminates` assumes only that the machine does not stop
while some task can go on: every behaviour of these programs is finite.

## Proofs

Every theorem is about any values of the constants that satisfy the module's assumption.
The modules about a state machine follow one pattern: an invariant `IInv` (`InOnePlace`
in `JobDequeProofs`) that is true at first (`InitIInv`) and kept by each action (a lemma
or a named step per action), from which the properties follow.

`JobDequeProofs`: a job is received at most once and nothing else is (`ExactlyOnce`),
and none is lost (`Conservation`). `DeliveredOnce` alone is not inductive; `InOnePlace`
adds that a job is in one slot, in one hand or received, and that the deque is sorted by
age.

`WorkStealingQueueProofs`: no thief reads outside the buffer (`NoStealOutOfBounds`), the
unsigned count of kept jobs does not wrap (`GrowthNeverWraps`), both even when a steal
overlaps a growth; and until one does, each step of the lock-free queue is a step of
`JobDeque` or a stutter under the mapping of `ImplementsDeque`
(`QueueImplementsDeque`). The last takes the results about the deque over to the queue
(`QueueDeliversOnce`). The invariant has two halves. `BoundsInv` needs no order between
`head` and `tail`, which races destroy: every index was compared with a size that only
grows. `Unraced` knows the order, the owner's and the thieves' positions at each program
counter, and which slots are filled: `head` passes `tail` by one at most, when a thief
has taken the last job from under a `pop`, and a compare-and-swap that can still succeed
is for a job that is there. A growth wins its own compare-and-swap while no thief is in
`steal`, so it has the buffer to itself, and moving the slots changes nothing of `Live`.

`GcSafepointProofs`: the world is stopped (`WorldStopped`), the counter exact
(`CountExact`) and nobody released early (`ParkedUntilScanned`). The inductive invariant
adds to these that exactly the holder of `mGcMutex` is between `try_lock` and `unlock`,
and that `mStop` stands exactly while it gathers, scans and has not resumed. Then
counting does the rest: `mStopped = mThreads` means that every thread is in one of the
two waits, and only the holder can be in `runGc`'s, so the others are parked; and they
cannot leave while `mStop` stands. The assumption is `ThreadsAssumption`: the threads
are a finite, nonempty set.

`GcCollectorProofs`: every object is on one list (`EveryObjectOwnedOnce`); before the
first full collection nothing reachable is deleted (`ReachableKept`), and while the
evaluation lasts nothing at all is (`NothingDeletedBeforeFull`); only arrays refer to
deleted objects (`OnlyArraysMeetDeleted`). The argument shows what the young collections
are worth: an object is born marked, a mark is only cleared when the object is promoted,
so every object a young sweep looks at is marked. `ReachEquation` justifies the
recursive function `Reach` on cyclic heaps, by giving a function that satisfies its
equation.

`EvaluatorLifecycleProofs`: a main thread that has returned has a result or an error
(`RunEndsInResultOrError`), and a collection waits for ever for a worker that has left
only after a task has thrown or while an unneeded branch is still running
(`NoStuckWithoutFailure`). A task is in one place here too; the program is ready only
when what it needs is; nobody is interrupted before the program is over; whoever gathers
runs a task that is not ready; and an exception is an error reported or about to be.

`TaskSchedulerProofs`: a task is in one place (`TaskInOnePlace`), `join` pops what it
waited for (`JoinPopsWhatItAwaits`), no deleted context is run, queued or pending
(`DeletedIsForgotten`, first part), no root is missed (`NoRootMissed`), and nothing
leaves the proactive order (`ProactiveStays`). These hold although a canceled task may
join what is not its own.
What they rest on is an inequality. Give the frames of a worker numbers `b[0] >= b[1]
>= ... >= b[n] = 0`, where `b[i - 1] - b[i]` is a lower bound of what the rest of frame
`i`'s code joins more than it forks (`Owes`; not negative, by `ProgramAssumption`: each
fork is before its join). Then a task that frame `i` forked has fewer than `b[i - 1]`
tasks above it in `pendingTasks`, and a task that frame `i` waits for at most `b[i]`
(`Covers`). The frame that waits on top has `b[n] = 0`: nothing is above what it waits
for. And a frame that leaves with nothing left to join leaves no child in the list: so
the parent of what is pending still runs, on the same worker. `Codes` is the part about
codes: what a frame has not forked yet is nowhere else, a `Stop` follows its `Mark`, an
`Erase` of the last but one is followed by the join of the last.

`JoinsMeant` is `JoinsTheMeantTask`, which the inequality does not give: it needs the
exact order of `pendingTasks`. A second invariant, `Nested`, relative to the first, says
it (`Nest`): the list of a worker is made of one layer per frame, from the bottom to the
top, and the rest of a frame's code takes its own layer, last first, down to nothing
(`Stacks`, one `Effect` per instruction: the `Erase` of position 2 takes the last but
one). So a step of the top frame only meets its own layer. `NestedBecome` shows once what
all the steps of a running task have in common. The premise of the property, that no
canceled task lacks a fork, may become false and true again: a task is canceled just
before it adds one. `Clean` excepts that and, once false, stays false; so `Nest` is
stated under `Clean`. That the task is not canceled needs the reason for every
cancellation of a pending task (`Canc`): its parent is canceled, or is about to erase it;
and it is not about to join it then, because a cancellation comes before the rest of the
code (`Early`). The second part of `DeletedIsForgotten` is from `Nest` as well: under
`Clean` the layers of the lower frames are whole (`LowerLayers`), so what the wait of any
frame is for is in its layer of `pendingTasks` (`WaitsPending`), where by the first part
no deleted context is.

`GeneratorProofs`: the code of every graph is balanced (`SpansSound`). From whatever a
code is entered with, it goes on, over either branch of each condition, to its end, and
leaves there the control stack with the same kinds of frames and the same number of
forks to join as it found (`Step` says what each node does to the two, `Leads` follows a
code, `Balanced` and `Sound` sum it up); between a CondStart and its CondChoose the
number is larger by as many as the branches that were forked. A node's span is made of
its children's, so this is an induction over the nodes of a graph, which `Least` makes
an argument about the least node it fails for; `SpansEquation` shows in the same way
that the recursive function `Spans` exists.

`InternalFormProofs`: the state has its types (`MachineTypes`), no window of arguments or
range reaches beyond the value stack (`ArgumentsStayOnStack`), the untagged values on the
control stack are read as what they were pushed as (`FramesMatchNodes`), a context ends
with empty control stack, no pending fork and its result alone above its arguments
(`TasksEndBalanced`), and, until a canceled task takes another's, a join that is needed
takes a fork of its own task, which was not canceled (`JoinsDeliver`). All rest on one
invariant (`MachineInvariance`), of two parts: `LooseOK`, which every context satisfies
always, and `Sane`, which holds until somebody is robbed (`Kept`) and is lost in that step
(`Lost`), after which there is no other. `Sane` is what follows here; `LooseOK` leaves out
how many forks are pending. `Stacks` says that the tasks below a running one exist and have not
ended. Contexts form a tree: what a context has pending are its own forks, they exist, nobody else has them
pending, and one that is needed has a parent that is needed (`All`, `Kin`, `Needs`). The
rest of a context's code goes on, as `Leads` says, to the end of the main code or of a
task's, or to the Ret of the call on top of those still open, after which the caller's
code does (`Goes`, `Typed`, `Stacked`, `Returns`); it joins at least as many tasks as are
pending, so none are left at its end, also in a canceled context whose forks did
nothing. And the saved positions on the control stack rise from bottom to top, none
beyond the value stack (`Layout`, `Fits`). The theorems assume `LibraryPushesTuples`: a library function that
does not fail returns a tuple of values, as every function under `Libraries` pushes its
results; `LibraryReturnsTuples` shows it of the functions of `Library`. The invariant
says that there are functions (the path a code goes, the kinds of frames) which TLC
cannot enumerate; it checks the properties that follow from it.

Only model-checked:

* Everything that depends on fairness (`PushReturns`, `CollectionEnds`, `RunReturns`,
  `MainCompletes`, `Terminates`): the proof system does not reason about liveness here.
* That the machine computes what the graph means (`ComputesMeaning`), and what
  `SchemeGenerator` and `SourceSemantics` say: `Semantic`, `SchemeGenerator`,
  `SchemeMeaning`, `SourceSemantics` and `SchemeSemantics` follow trees and graphs with
  RECURSIVE operators, about which the provers cannot reason.

## Not modelled, and why

* Weak memory orders, and the corruption of a `std::set`, a vector or freed memory by
  concurrent access: below the level of the actions.
* Doubles, strings, array values (only their references are modelled, in `GcCollector`),
  integers near the ends of `int64_t`, object sizes. What `arraySet` does in parallel
  branches depends on their interleaving by design, so the runs of the machine use none.
* Undefined behaviour the trees do not reach: an application variable named like a
  type or the scheme makes `dynamic_cast` return null (`FSchemeGenerator.cpp:155`); a
  type that is called with functional arguments is cast to a function
  (`FSchemeGenerator.cpp:273`); two funs of one name are excluded by `Syntax`.
* Scanner, generated parser, command line, messages, printing, `FSchemeSerializer`,
  files and time: text in and out. `NodeDeleter` only releases memory at exit.
  `NewFSchemeGenerator` is commented out in `Interpreter.cpp`. `Testing` holds tests;
  `Thirdparty` is vendored and is most of the lines of the repository.

## Plan

1. An action property of `EvaluatorLifecycle`: a task runs once.
2. `SchemeGenerator` with recursive functions instead of RECURSIVE operators, so that
   the types of its state and the match of its stacks with its work can be proved.
