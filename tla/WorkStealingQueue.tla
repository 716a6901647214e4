-------------------------- MODULE WorkStealingQueue --------------------------
(* Source/Evaluator/LockFreeWorkStealingQueue.h.  The owner pushes and pops  *)
(* at mTailPos, thieves take from mHeadPos with a compare-and-swap.  When    *)
(* the tail reaches the end of the buffer the owner hides the head behind    *)
(* the tail, compacts the buffer and doubles it.  One action per access to   *)
(* a shared location; mTailPos and mSize are written by the owner only, so   *)
(* the owner's own reads of them are part of the next step.                  *)
EXTENDS QueueJobs, Sequences

CONSTANT InitSize   \* initial mSize (32 in the code)

ASSUME SizeAssumption == InitSize \in Nat \ {0}

VARIABLES
  head,       \* mHeadPos
  tail,       \* mTailPos
  size,       \* mSize; it also identifies the buffer mQueue points to
  queue,      \* mQueue, a function on 0..size-1
  owner,      \* the owner's pc and its locals: pos = tailPos, from = headPos
  thief,      \* thief[t]: the thief's pc, h = headPos, and base = the buffer
              \* it is about to index
  pushed,     \* history: number of push() calls begun
  delivered,  \* history: delivered[j] = how often job j was returned
  raced       \* history: a steal() overlapped a growth of the buffer

vars == <<head, tail, size, queue, owner, thief, pushed, delivered, raced>>

GrowPc  == {"shift", "resize", "write", "publish", "unlock"}
PushPc  == {"fill", "growLoad", "growCas"} \cup GrowPc
PopPc   == {"popHead", "popRead", "popCas", "popLast", "popTail", "popFail"}
OwnerPc == {"idle"} \cup PushPc \cup PopPc
ThiefPc == {"idle", "tail", "cas", "base", "read"}

Growing == owner.pc \in GrowPc
(* numJobs: the jobs the growing owner keeps; size_t, but headPos never      *)
(* exceeds tailPos there (GrowthCountsJobs).                                 *)
Kept == owner.pos - owner.from

OwnerIdle == [pc |-> "idle", pos |-> 0, from |-> 0, i |-> 0]
ThiefIdle == [pc |-> "idle", h |-> 0, base |-> 0]

Init ==
  /\ head = 0 /\ tail = 0
  /\ size = InitSize
  /\ queue = [i \in 0 .. InitSize - 1 |-> NoJob]
  /\ owner = OwnerIdle
  /\ thief = [t \in Thieves |-> ThiefIdle]
  /\ pushed = 0
  /\ delivered = [j \in Jobs \cup {NoJob} |-> 0]
  /\ raced = FALSE

Return   == owner' = OwnerIdle
GoTo(pc) == owner' = [owner EXCEPT !.pc = pc]
Deliver(j) == delivered' = [delivered EXCEPT ![j] = @ + 1]

-----------------------------------------------------------------------------
(* push, room left: fill the slot, then publish it.                          *)
PushFill ==
  /\ owner.pc = "idle" /\ pushed < MaxJobs
  /\ tail < size
  /\ queue' = [queue EXCEPT ![tail] = pushed + 1]
  /\ pushed' = pushed + 1
  /\ GoTo("fill")
  /\ UNCHANGED <<head, tail, size, thief, delivered, raced>>

PushPublish ==
  /\ owner.pc = "fill"
  /\ tail' = tail + 1
  /\ Return
  /\ UNCHANGED <<head, size, queue, thief, pushed, delivered, raced>>

(* push, buffer full: the loop that swaps mHeadPos for tailPos.              *)
PushFull ==
  /\ owner.pc = "idle" /\ pushed < MaxJobs
  /\ tail >= size
  /\ pushed' = pushed + 1
  /\ owner' = [owner EXCEPT !.pc = "growLoad", !.pos = tail]
  /\ UNCHANGED <<head, tail, size, queue, thief, delivered, raced>>

GrowLoad ==
  /\ owner.pc = "growLoad"
  /\ owner' = [owner EXCEPT !.pc = "growCas", !.from = head]
  /\ UNCHANGED <<head, tail, size, queue, thief, pushed, delivered, raced>>

(* Mutant: a failed CAS does not reload the head.                            *)
GrowCasStale ==
  /\ owner.pc = "growCas"
  /\ head = owner.from
  /\ head' = owner.pos
  /\ owner' = [owner EXCEPT !.pc = IF owner.from > 0 THEN "shift" ELSE "resize", !.i = 0]
  /\ raced' = (raced \/ \E t \in Thieves : thief[t].pc # "idle")
  /\ UNCHANGED <<tail, size, queue, thief, pushed, delivered>>
GrowCas ==
  /\ owner.pc = "growCas"
  /\ \/ /\ head = owner.from
        /\ head' = owner.pos
        /\ owner' = [owner EXCEPT !.pc = IF owner.from > 0 THEN "shift" ELSE "resize",
                                  !.i = 0]
        /\ raced' = (raced \/ \E t \in Thieves : thief[t].pc # "idle")
     \/ /\ head # owner.from
        /\ GoTo("growLoad")
        /\ UNCHANGED <<head, raced>>
  /\ UNCHANGED <<tail, size, queue, thief, pushed, delivered>>

GrowShift ==
  /\ owner.pc = "shift" /\ owner.i < Kept
  /\ queue' = [queue EXCEPT ![owner.i] = queue[owner.i + owner.from]]
  /\ owner' = [owner EXCEPT !.i = @ + 1]
  /\ UNCHANGED <<head, tail, size, thief, pushed, delivered, raced>>

GrowShifted ==
  /\ owner.pc = "shift" /\ owner.i >= Kept
  /\ tail' = Kept
  /\ GoTo("resize")
  /\ UNCHANGED <<head, size, queue, thief, pushed, delivered, raced>>

GrowResize ==
  /\ owner.pc = "resize"
  /\ size' = 2 * size
  /\ queue' = [i \in 0 .. 2 * size - 1 |-> IF i < size THEN queue[i] ELSE NoJob]
  /\ GoTo("write")
  /\ UNCHANGED <<head, tail, thief, pushed, delivered, raced>>

GrowWrite ==
  /\ owner.pc = "write"
  /\ queue' = [queue EXCEPT ![Kept] = pushed]
  /\ GoTo("publish")
  /\ UNCHANGED <<head, tail, size, thief, pushed, delivered, raced>>

GrowPublish ==
  /\ owner.pc = "publish"
  /\ tail' = Kept + 1
  /\ GoTo("unlock")
  /\ UNCHANGED <<head, size, queue, thief, pushed, delivered, raced>>

GrowUnlock ==
  /\ owner.pc = "unlock"
  /\ head' = 0
  /\ Return
  /\ UNCHANGED <<tail, size, queue, thief, pushed, delivered, raced>>

-----------------------------------------------------------------------------
(* pop: lower the tail, then look at the head.  With tail = 0 it returns     *)
(* false and changes nothing.                                                *)
(* Mutant: without that test.                                                *)
PopTailUntested ==
  /\ owner.pc = "idle"
  /\ tail' = tail - 1
  /\ owner' = [owner EXCEPT !.pc = "popHead", !.pos = tail - 1]
  /\ UNCHANGED <<head, size, queue, thief, pushed, delivered, raced>>
PopTail ==
  /\ owner.pc = "idle" /\ tail # 0
  /\ tail' = tail - 1
  /\ owner' = [owner EXCEPT !.pc = "popHead", !.pos = tail - 1]
  /\ UNCHANGED <<head, size, queue, thief, pushed, delivered, raced>>

PopHead ==
  /\ owner.pc = "popHead"
  /\ owner' = [owner EXCEPT !.from = head,
                            !.pc = IF owner.pos < head THEN "popFail"
                                   ELSE IF owner.pos > head THEN "popRead"
                                   ELSE "popCas"]
  /\ UNCHANGED <<head, tail, size, queue, thief, pushed, delivered, raced>>

PopRead ==
  /\ owner.pc = "popRead"
  /\ Deliver(queue[owner.pos])
  /\ Return
  /\ UNCHANGED <<head, tail, size, queue, thief, pushed, raced>>

(* The last job: race the thieves for it.  A failed CAS reloads headPos.     *)
(* Mutant: a store instead of the CAS.                                       *)
PopStore ==
  /\ owner.pc = "popCas"
  /\ head' = owner.from + 1
  /\ GoTo("popLast")
  /\ UNCHANGED <<tail, size, queue, thief, pushed, delivered, raced>>
PopCas ==
  /\ owner.pc = "popCas"
  /\ \/ /\ head = owner.from
        /\ head' = head + 1
        /\ GoTo("popLast")
     \/ /\ head # owner.from
        /\ owner' = [owner EXCEPT !.pc = "popFail", !.from = head]
        /\ UNCHANGED head
  /\ UNCHANGED <<tail, size, queue, thief, pushed, delivered, raced>>

PopLast ==
  /\ owner.pc = "popLast"
  /\ Deliver(queue[owner.from])
  /\ GoTo("popTail")
  /\ UNCHANGED <<head, tail, size, queue, thief, pushed, raced>>

PopLastTail ==
  /\ owner.pc = "popTail"
  /\ tail' = owner.from + 1
  /\ Return
  /\ UNCHANGED <<head, size, queue, thief, pushed, delivered, raced>>

PopFail ==
  /\ owner.pc = "popFail"
  /\ tail' = owner.from
  /\ Return
  /\ UNCHANGED <<head, size, queue, thief, pushed, delivered, raced>>

-----------------------------------------------------------------------------
(* steal                                                                     *)
StealHead(t) ==
  /\ thief[t].pc = "idle"
  /\ thief' = [thief EXCEPT ![t].pc = "tail", ![t].h = head]
  /\ raced' = (raced \/ Growing)
  /\ UNCHANGED <<head, tail, size, queue, owner, pushed, delivered>>

(* Mutant: an empty queue looks as if it had one job.                        *)
StealTailLoose(t) ==
  /\ thief[t].pc = "tail"
  /\ thief' = [thief EXCEPT ![t] = IF thief[t].h <= tail THEN [@ EXCEPT !.pc = "cas"]
                                                       ELSE ThiefIdle]
  /\ UNCHANGED <<head, tail, size, queue, owner, pushed, delivered, raced>>
StealTail(t) ==
  /\ thief[t].pc = "tail"
  /\ thief' = [thief EXCEPT ![t] = IF thief[t].h < tail THEN [@ EXCEPT !.pc = "cas"]
                                                      ELSE ThiefIdle]
  /\ UNCHANGED <<head, tail, size, queue, owner, pushed, delivered, raced>>

(* Mutant: an unconditional increment instead of the CAS.                    *)
StealAdd(t) ==
  /\ thief[t].pc = "cas"
  /\ head' = head + 1
  /\ thief' = [thief EXCEPT ![t].pc = "base"]
  /\ UNCHANGED <<tail, size, queue, owner, pushed, delivered, raced>>
StealCas(t) ==
  /\ thief[t].pc = "cas"
  /\ \/ /\ head = thief[t].h
        /\ head' = head + 1
        /\ thief' = [thief EXCEPT ![t].pc = "base"]
     \/ /\ head # thief[t].h
        /\ thief' = [thief EXCEPT ![t] = ThiefIdle]
        /\ UNCHANGED head
  /\ UNCHANGED <<tail, size, queue, owner, pushed, delivered, raced>>

(* mQueue[headPos] first fetches the vector's buffer ...                     *)
StealBase(t) ==
  /\ thief[t].pc = "base"
  /\ thief' = [thief EXCEPT ![t].pc = "read", ![t].base = size]
  /\ UNCHANGED <<head, tail, size, queue, owner, pushed, delivered, raced>>

(* ... and then reads the slot.  If resize() has replaced the buffer in the  *)
(* meantime the thief reads freed memory: any job or no job.                 *)
StealRead(t) ==
  /\ thief[t].pc = "read"
  /\ \/ /\ thief[t].base = size
        /\ Deliver(queue[thief[t].h])
     \/ /\ thief[t].base # size
        /\ \E j \in Jobs \cup {NoJob} : Deliver(j)
  /\ thief' = [thief EXCEPT ![t] = ThiefIdle]
  /\ UNCHANGED <<head, tail, size, queue, owner, pushed, raced>>

-----------------------------------------------------------------------------
Push == PushFill \/ PushPublish \/ PushFull \/ GrowLoad \/ GrowCas \/ GrowShift
          \/ GrowShifted \/ GrowResize \/ GrowWrite \/ GrowPublish \/ GrowUnlock
Pop  == PopTail \/ PopHead \/ PopRead \/ PopCas \/ PopLast \/ PopLastTail \/ PopFail

OwnerNext    == Push \/ Pop
Steal(t)     == StealHead(t) \/ StealTail(t) \/ StealCas(t) \/ StealBase(t) \/ StealRead(t)
Next         == OwnerNext \/ \E t \in Thieves : Steal(t)

Spec == Init /\ [][Next]_vars

(* A thread that is inside an operation keeps taking steps; nobody is        *)
(* obliged to begin one.                                                     *)
OwnerProceeds == owner.pc # "idle" /\ OwnerNext
FairSpec == Spec /\ WF_vars(OwnerProceeds)

-----------------------------------------------------------------------------
(* Properties                                                                *)

(* Every variable has its type: slots hold jobs, every index is natural.     *)
TypeOK ==
  /\ head \in Nat /\ tail \in Nat /\ size \in Nat \ {0}
  /\ queue \in [0 .. size - 1 -> Jobs \cup {NoJob}]
  /\ owner \in [pc : OwnerPc, pos : Nat, from : Nat, i : Nat]
  /\ thief \in [Thieves -> [pc : ThiefPc, h : Nat, base : Nat]]
  /\ pushed \in 0 .. MaxJobs
  /\ delivered \in [Jobs \cup {NoJob} -> Nat]
  /\ raced \in BOOLEAN

(* The jobs that can still be taken, oldest first.  While the owner shifts,  *)
(* the first i of them are in place and the others still from slots higher;  *)
(* a popping owner that has lowered the tail and not yet looked at the head  *)
(* has not taken its job yet.                                                *)
Window(first, last) == [k \in 1 .. last - first + 1 |-> queue[first + k - 1]]
Live ==
  CASE owner.pc = "shift" ->
         [k \in 1 .. Kept |-> queue[k - 1 + (IF k <= owner.i THEN 0 ELSE owner.from)]]
    [] owner.pc \in {"resize", "write", "publish"} -> Window(0, Kept - 1)
    [] owner.pc = "unlock" -> Window(0, Kept)
    [] owner.pc \in {"popHead", "popCas"} -> Window(head, tail)
    [] OTHER -> Window(head, tail - 1)

(* The job an actor has taken and not yet copied out of its slot.            *)
InHand(a) ==
  CASE a = Owner /\ owner.pc = "popRead" -> queue[owner.pos]
    [] a = Owner /\ owner.pc = "popLast" -> queue[owner.from]
    [] a \in Thieves /\ thief[a].pc \in {"base", "read"} -> queue[thief[a].h]
    [] OTHER -> NoJob

Deque == INSTANCE JobDeque WITH
  deque     <- Live,
  hand      <- [a \in Takers |-> InHand(a)],
  pushed    <- IF owner.pc \in PushPc \ {"unlock"} THEN pushed - 1 ELSE pushed

(* As long as no steal() overlaps a growth of the buffer, the queue is a     *)
(* deque: pop takes the youngest job and steal the oldest, what is read from *)
(* a slot is the job that was taken, and so no job is lost or run twice.     *)
ImplementsDeque ==
  Deque!Init /\ [][~raced' => [Deque!Next]_(Deque!vars)]_vars

(* No thief reads past the end of the buffer it fetched, not even when it    *)
(* races with the growth of the buffer (mQueue[headPos] in steal).           *)
StealsInBounds ==
  \A t \in Thieves : thief[t].pc = "read" => thief[t].h < thief[t].base

(* numJobs = tailPos - headPos in push is an unsigned subtraction: the head  *)
(* the owner swapped out never lies behind the tail, whatever stale CAS a    *)
(* thief has won before.                                                     *)
GrowthCountsJobs == Growing => owner.from <= owner.pos

(* push returns: the CAS loop of a growing push fails only because a thief   *)
(* took a job, and there are finitely many to take before the push is done.  *)
PushReturns == owner.pc \in PushPc ~> owner.pc = "idle"

(* What the comments in push ask of a growth.  Lines 54-55: thieves must not *)
(* be let do their work until line 87 lets them steal again.                 *)
NoTakeWhileGrowing ==
  [][\A t \in Thieves : Growing /\ owner'.pc \in GrowPc =>
        ~(thief[t].pc = "cas" /\ thief'[t].pc = "base")]_vars
=============================================================================
