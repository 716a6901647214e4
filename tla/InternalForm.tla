------------------------------ MODULE InternalForm ------------------------------
(* The virtual machine: nodes of the internal form work on the stacks of an   *)
(* execution context, one context per task.  Source/InternalForm/             *)
(* InternalForm.cpp, ControlValue.h, Source/Evaluator/Context.cpp.            *)
(* Which worker runs a task, and when, is TaskScheduler's: here there are     *)
(* workers enough, and a task that was forked may start at any time, on an    *)
(* idle one or on top of a task that waits.  pendingTasks, one list for each  *)
(* worker, is the lists of what each task of a stack has pending, one on top  *)
(* of the other.  A context is named by the path of forks to it.              *)
EXTENDS Generator, FiniteSets, SequencesExt

CONSTANTS
  Programs,      \* the programs considered, as Generator describes them
  Apply(_, _),   \* what a function of the library pushes, or Fault: it throws
  Undefined,     \* the value of DataBuilders::createUndefinedValue
  False,         \* the boolean value "false"
  Fault,
  SizeRange      \* one more than the largest size_t

ASSUME InternalFormAssumption ==
  /\ SizeRange \in Nat \ {0}
  /\ \A p \in Programs : WellBuilt(p)

VARIABLES
  program,
  proactive,     \* EvalConfig::Proactive
  ctx,           \* the contexts that exist
  thrower,       \* the task that threw an exception, if any
  robbed         \* the task of whose pending ones another has taken one, if any

vars == <<program, proactive, ctx, thrower, robbed>>

Main     == << >>
Compiled == [p \in Programs |-> [b \in BOOLEAN |-> Generate(p, b)]]
Internal == Compiled[program][proactive]

(* IFExecutionContext, with the rest of the code its exec is to run.          *)
NewContext(code, args, isProactive) ==
  [code |-> code, status |-> "queued", ready |-> FALSE, canceled |-> FALSE,
   proactive |-> isProactive, stack |-> args, argPos |-> 0, argNum |-> Len(args),
   arity |-> 0, control |-> << >>, pending |-> << >>, spawned |-> 0, below |-> << >>]

Init ==
  /\ program \in Programs
  /\ proactive \in BOOLEAN
  /\ ctx = [t \in {Main} |-> NewContext(Internal.main, << >>, FALSE)]
  /\ thrower = {} /\ robbed = {}

(* What a ControlValue holds: for SeqEnd, for CondChoose, for Ret.            *)
SeqFrame(c)    == [kind |-> "seq", argPos |-> c.argPos, size |-> Len(c.stack),
                   inArity |-> c.argNum, outArity |-> c.arity]
CondFrame(c)   == [kind |-> "cond", outArity |-> c.arity]
RetFrame(code) == [kind |-> "ret", code |-> code]

-----------------------------------------------------------------------------
(* SExecutionContext: the tuple of arguments, that of results, and the        *)
(* operations on them.                                                        *)
Arguments(c) == SubSeq(c.stack, c.argPos + 1, c.argPos + c.argNum)
Results(c)   == SubSeq(c.stack, Len(c.stack) - c.arity + 1, Len(c.stack))

PushAll(c, values) == [c EXCEPT !.stack = @ \o values, !.arity = @ + Len(values)]

Advance(c) == [c EXCEPT !.argPos = Len(c.stack) - c.arity, !.argNum = c.arity, !.arity = 0]

Unwind(c, f) == [c EXCEPT !.stack = SubSeq(@, 1, f.size) \o Results(c),
                          !.argPos = f.argPos, !.arity = @ + f.outArity]

-----------------------------------------------------------------------------
(* A task goes on while none that runs is stacked on it.  Once a task has     *)
(* been robbed of one that it waits for, it reads and joins a context that is *)
(* deleted or pops what is not its own: the model says nothing more, and      *)
(* TaskScheduler shows how that happens.                                      *)
Over       == thrower # {} \/ robbed # {} \/ ctx[Main].status = "ended"
Covered(t) == \E u \in DOMAIN ctx : ctx[u].status = "running" /\ t \in Range(ctx[u].below)
Active(t)  == ~Over /\ ctx[t].status = "running" /\ ~Covered(t)
Node(t)    == Head(ctx[t].code)
At(t, op)  == Active(t) /\ ctx[t].code # << >> /\ Node(t).op = op
Popped(c)  == [c EXCEPT !.control = Front(@)]
Pushed(c, frame) == [c EXCEPT !.control = Append(@, frame)]
Top(t, kind) == ctx[t].control # << >> /\ Last(ctx[t].control).kind = kind
Frame(t)   == Last(ctx[t].control)

(* The context has become c and goes on with mNext.                           *)
Proceed(c)      == [c EXCEPT !.code = Tail(@)]
Goto(t, c)    == ctx' = [ctx EXCEPT ![t] = c] /\ UNCHANGED <<thrower, robbed>>

(* What pendingTasks holds beneath t's own: the n-th from the end, if there   *)
(* is one, as the task that holds it and its place among what that one holds. *)
Slots(t) == UNION {{i} \X DOMAIN ctx[ctx[t].below[i]].pending : i \in DOMAIN ctx[t].below}
After(s, r) == s[1] < r[1] \/ (s[1] = r[1] /\ s[2] < r[2])
Beneath(t, n) ==
  {[holder |-> ctx[t].below[s[1]], at |-> s[2]] :
     s \in {s \in Slots(t) : Cardinality({r \in Slots(t) : After(s, r)}) = n - 1}}
Held(p) == ctx[p.holder].pending[p.at]

(* join() waits for the last of pendingTasks, and runs other tasks meanwhile. *)
Awaited(t) == IF ctx[t].pending = << >> THEN {Held(p) : p \in Beneath(t, 1)}
                                        ELSE {Last(ctx[t].pending)}
Waits(t)   == At(t, "ParJoin") /\ \E u \in Awaited(t) : ~ctx[u].ready

(* schedule() and run(): a proactive task is run if it is not canceled, which *)
(* it may be from then on; pushTask and exec; then popTask and Ready.         *)
(* Mutant: Ready is left.                                                     *)
Places == {<< >>} \cup {Append(ctx[u].below, u) : u \in {u \in DOMAIN ctx : Waits(u)}}
Start(t) ==
  /\ ~Over /\ ctx[t].status = "queued" /\ ~(ctx[t].proactive /\ ctx[t].canceled)
  /\ \E below \in Places : Goto(t, [ctx[t] EXCEPT !.status = "running", !.below = below])
FinishSilently(t) ==
  /\ Active(t) /\ ctx[t].code = << >>
  /\ Goto(t, [ctx[t] EXCEPT !.status = "ended"])
Finish(t) ==
  /\ Active(t) /\ ctx[t].code = << >>
  /\ Goto(t, [ctx[t] EXCEPT !.status = "ended", !.ready = TRUE])

(* spawn and addForkJob, for one or two forks: a fork gets the arguments of   *)
(* its parent, a canceled context forks nothing.                              *)
Fork(t, c, isProactive) ==
  LET forks  == IF c.canceled THEN << >> ELSE Node(t).forks
      Kid(k) == Append(t, c.spawned + k)
      kids   == [k \in DOMAIN forks |-> Kid(k)]
      parent == [c EXCEPT !.pending = @ \o kids, !.spawned = @ + Len(forks)]
      new(u) == NewContext(forks[Last(u) - c.spawned], Arguments(c), isProactive)
  IN /\ ctx' = [u \in DOMAIN ctx \cup Range(kids) |->
                  IF u \in Range(kids) THEN new(u)
                  ELSE IF u = t THEN Proceed(parent) ELSE ctx[u]]
     /\ UNCHANGED <<thrower, robbed>>

ExecParFork(t)   == At(t, "ParFork") /\ Fork(t, ctx[t], ctx[t].proactive)
ExecCondStart(t) == At(t, "CondStart") /\ Fork(t, Pushed(ctx[t], CondFrame(ctx[t])), TRUE)

(* join(): the results of the last pending task are copied and it is deleted, *)
(* unless it is canceled.  With none pending an empty context is joined.      *)
JoinNothing(t) ==
  /\ At(t, "ParJoin") /\ ctx[t].pending = << >> /\ Beneath(t, 1) = {}
  /\ Goto(t, Proceed(ctx[t]))
Join(t) ==
  LET c == ctx[t]
      u == Last(c.pending)
      rest == Proceed([c EXCEPT !.pending = Front(@)])
  IN /\ At(t, "ParJoin") /\ c.pending # << >> /\ ctx[u].ready
     /\ \/ /\ ctx[u].canceled
           /\ Goto(t, rest)
        \/ /\ ~ctx[u].canceled
           /\ ctx' = [v \in DOMAIN ctx \ {u} |->
                        IF v = t THEN PushAll(rest, Results(ctx[u])) ELSE ctx[v]]
           /\ UNCHANGED <<thrower, robbed>>

(* A canceled task that has skipped its fork joins what a task beneath it on  *)
(* the worker waits for.                                                      *)
ErasedNot(pending, i) == pending
Erased(pending, i)    == RemoveAt(pending, i)
Rob(p, x) ==
  /\ ctx' = [v \in DOMAIN x |->
               IF v = p.holder THEN [x[v] EXCEPT !.pending = Erased(@, p.at)] ELSE x[v]]
  /\ robbed' = {p.holder} /\ UNCHANGED thrower
JoinAnothers(t) ==
  /\ At(t, "ParJoin") /\ ctx[t].pending = << >>
  /\ \E p \in Beneath(t, 1) :
       LET u == Held(p) IN
       /\ ctx[u].ready
       /\ \/ /\ ctx[u].canceled
             /\ Rob(p, [ctx EXCEPT ![t] = Proceed(@)])
          \/ /\ ~ctx[u].canceled
             /\ Rob(p, [v \in DOMAIN ctx \ {u} |->
                         IF v = t THEN PushAll(Proceed(ctx[t]), Results(ctx[u])) ELSE ctx[v]])

(* Mutant: the frame is opened with the results before it left counted.       *)
OpenedCounted(c) == Pushed(c, SeqFrame(c))
Opened(c)        == Pushed([c EXCEPT !.arity = 0], SeqFrame(c))
ExecSeqBegin(t) == At(t, "SeqBegin") /\ Goto(t, Proceed(Opened(ctx[t])))

ExecSeqAdvance(t) == At(t, "SeqAdvance") /\ Goto(t, Proceed(Advance(ctx[t])))

(* Mutant: argNum stays that of the last link of the chain.                   *)
ClosedNarrow(c, f) == Unwind(Popped(c), f)
Closed(c, f)       == [Unwind(Popped(c), f) EXCEPT !.argNum = f.inArity]
ExecSeqEnd(t) ==
  At(t, "SeqEnd") /\ Top(t, "seq") /\ Goto(t, Proceed(Closed(ctx[t], Frame(t))))

ExecRecFn(t) ==
  /\ At(t, "RecFn")
  /\ Goto(t, [Pushed(ctx[t], RetFrame(Tail(ctx[t].code)))
                EXCEPT !.code = Internal.functions[Node(t).name]])
ExecRet(t) ==
  At(t, "Ret") /\ Top(t, "ret") /\ Goto(t, [Popped(ctx[t]) EXCEPT !.code = Frame(t).code])

(* CondChoose: the verdict is the results of the condition, of which the last *)
(* decides; one undefined value makes it false, no value makes it true.       *)
Verdict(c, f) == SubSeq(c.stack, Len(c.stack) - (c.arity - f.outArity) + 1, Len(c.stack))
IsFalse(verdict) == verdict # << >> /\ (Undefined \in Range(verdict) \/ Last(verdict) = False)

(* cancelFromPendingEnd: the position, from the end, of the branch to cancel, *)
(* 0 if that is no fork.  Mutant: always the last.                            *)
CancelLast(node, isFalse) ==
  IF (IF isFalse THEN node.then ELSE node.else) = NoBranch THEN 1 ELSE 0
CancelPos(node, isFalse) ==
  IF isFalse THEN (IF node.then # NoBranch THEN 0 ELSE IF node.else = NoBranch THEN 2 ELSE 1)
             ELSE (IF node.else = NoBranch THEN 1 ELSE 0)

(* cancel(): the task and all below it, whatever they are at; each becomes    *)
(* ready and runs on if it is running (TaskScheduler has the single steps).   *)
(* Mutant: Ready is left to the task itself.                                  *)
CanceledOnly(c) == [c EXCEPT !.canceled = TRUE]
Canceled(c) == [c EXCEPT !.canceled = TRUE, !.ready = TRUE]

(* A short branch is run in place, a fork joined.  A canceled task that has   *)
(* skipped its forks cancels what a task beneath it on the worker waits for.  *)
Taken(branch) == IF branch = NoBranch THEN <<ParJoin>> ELSE branch[1]
Chosen(c, isFalse) ==
  LET f == Last(c.control)
      pos == CancelPos(Head(c.code), isFalse)
      i == Len(c.pending) - pos + 1
  IN [Popped(c) EXCEPT
        !.stack = SubSeq(@, 1, Len(@) - Len(Verdict(c, f))),
        !.arity = f.outArity,
        !.code = Taken(IF isFalse THEN Head(@).else ELSE Head(@).then) \o Tail(@),
        !.pending = IF pos > 0 /\ i > 0 THEN Erased(@, i) ELSE @]
Decided(t, isFalse, canceled) ==
  [u \in DOMAIN ctx |-> IF u = t THEN Chosen(ctx[t], isFalse)
                        ELSE IF \E v \in canceled : IsPrefix(v, u) THEN Canceled(ctx[u])
                        ELSE ctx[u]]
ExecCondChoose(t) ==
  LET pending == ctx[t].pending
      isFalse == IsFalse(Verdict(ctx[t], Frame(t)))
      pos     == CancelPos(Node(t), isFalse)
      own     == {pending[i] : i \in {Len(pending) - pos + 1} \cap 1 .. Len(pending)}
      others  == IF pos > Len(pending) THEN Beneath(t, pos - Len(pending)) ELSE {}
  IN /\ At(t, "CondChoose") /\ Top(t, "cond")
     /\ \/ others = {} /\ ctx' = Decided(t, isFalse, own) /\ UNCHANGED <<thrower, robbed>>
        \/ \E p \in others : Rob(p, Decided(t, isFalse, {Held(p)}))

(* A leaf pushes values or throws; whatever task throws, the evaluation is    *)
(* aborted (EvaluatorUnit::evaluateScheme).                                   *)
Yield(t, values) ==
  \/ values # Fault /\ Goto(t, Proceed(PushAll(ctx[t], values)))
  \/ values = Fault /\ thrower' = {t} /\ UNCHANGED <<ctx, robbed>>

ExecBasicFn(t)  == At(t, "BasicFn") /\ Yield(t, Apply(Node(t).name, Arguments(ctx[t])))
ExecConstant(t) == At(t, "Constant") /\ Yield(t, <<Node(t).value>>)

(* GetArg: positions count from 1, negative ones from the end; they are       *)
(* converted to size_t.  The first index out of range throws.                 *)
SizeT(i, argNum) == (IF i < 0 THEN argNum + i ELSE i - 1) % SizeRange
Take(c, from, to) ==
  LET first == SizeT(from, c.argNum)
      last  == SizeT(to, c.argNum)
  IN IF first > last THEN << >>
     ELSE IF last >= c.argNum THEN Fault
     ELSE SubSeq(Arguments(c), first + 1, last + 1)
ExecGetArg(t) == At(t, "GetArg") /\ Yield(t, Take(ctx[t], Node(t).from, Node(t).to))

Next ==
  /\ \E t \in DOMAIN ctx :
       \/ Start(t) \/ Finish(t)
       \/ ExecParFork(t) \/ ExecCondStart(t) \/ JoinNothing(t) \/ Join(t) \/ JoinAnothers(t)
       \/ ExecSeqBegin(t) \/ ExecSeqAdvance(t) \/ ExecSeqEnd(t)
       \/ ExecRecFn(t) \/ ExecRet(t) \/ ExecCondChoose(t)
       \/ ExecBasicFn(t) \/ ExecConstant(t) \/ ExecGetArg(t)
  /\ UNCHANGED <<program, proactive>>

Spec     == Init /\ [][Next]_vars
FairSpec == Spec /\ WF_vars(Next)

-----------------------------------------------------------------------------
TypeOK ==
  /\ program \in Programs /\ proactive \in BOOLEAN
  /\ Main \in DOMAIN ctx /\ thrower \cup robbed \subseteq DOMAIN ctx
  /\ \A t \in DOMAIN ctx : LET c == ctx[t] IN
       /\ DOMAIN c = {"code", "status", "ready", "canceled", "proactive", "stack", "argPos",
                      "argNum", "arity", "control", "pending", "spawned", "below"}
       /\ c.status \in {"queued", "running", "ended"}
       /\ {c.ready, c.canceled, c.proactive} \subseteq BOOLEAN
       /\ c.ready <=> c.canceled \/ c.status = "ended"
       /\ {c.argPos, c.argNum, c.arity, c.spawned} \subseteq Nat
       /\ \A i \in DOMAIN c.control : c.control[i].kind \in {"seq", "cond", "ret"}

(* A context's arguments and results are on its stack and do not overlap, nor *)
(* do they reach below the frame they belong to; and what an open frame will  *)
(* restore lies below that frame.  So the pointers firstArg and lastArg that  *)
(* functions work with stay inside, and unwind keeps what it must.            *)
WindowsInStack ==
  \A t \in DOMAIN ctx :
    LET c == ctx[t]
        opened == {i \in DOMAIN c.control : c.control[i].kind = "seq"}
    IN /\ c.argPos + c.argNum + c.arity <= Len(c.stack)
       /\ \A i \in opened : LET f == c.control[i] IN
            /\ f.argPos + f.inArity + f.outArity <= f.size
            /\ f.size + c.arity <= Len(c.stack)
            /\ \A j \in opened : i < j => f.size + c.control[j].outArity <= c.control[j].size

(* A ControlValue is a union without a tag: a node that takes one off the     *)
(* control stack finds there what a node of its own construct has put there,  *)
(* across calls, branches and links of a chain.                               *)
ControlMatches ==
  \A t \in DOMAIN ctx :
    /\ At(t, "SeqEnd") => Top(t, "seq")
    /\ At(t, "CondChoose") => Top(t, "cond") /\ Frame(t).outArity <= ctx[t].arity
    /\ At(t, "Ret") => Top(t, "ret")

(* A context whose code is over has closed every frame, joined or canceled    *)
(* all it forked, and holds its arguments and then its results: what a join   *)
(* copies, and what the collector may find in a finished task.                *)
EndsBalanced ==
  \A t \in DOMAIN ctx : LET c == ctx[t] IN
    c.status # "queued" /\ c.code = << >> =>
      /\ c.control = << >> /\ c.pending = << >>
      /\ c.argPos = 0 /\ Len(c.stack) = c.argNum + c.arity

(* Whatever a needed context still has to join exists and is needed too, and  *)
(* when it gets to a join there is something left to join: it never takes     *)
(* what a task beneath it waits for, nor finds a canceled task, whose results *)
(* it would leave out, nor one already deleted.  Until a canceled task, which *)
(* skips its forks and not its joins, takes another's: then all this is lost. *)
NeededJoinsDeliver ==
  robbed = {} => \A t \in DOMAIN ctx : ~ctx[t].canceled =>
    /\ \A i \in DOMAIN ctx[t].pending :
         LET u == ctx[t].pending[i] IN u \in DOMAIN ctx /\ ~ctx[u].canceled
    /\ ctx[t].code # << >> /\ Node(t).op = "ParJoin" => ctx[t].pending # << >>

(* The evaluation ends, by a result or by an exception: no join is left       *)
(* waiting and no node finds itself without the frame it needs.               *)
Terminates == <>Over
=============================================================================
