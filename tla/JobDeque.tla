------------------------------ MODULE JobDeque ------------------------------
(* What LockFreeWorkStealingQueue<T> promises its callers: a deque to whose  *)
(* back the owner pushes and from whose back it pops, and from whose front   *)
(* thieves steal.  Taking a job (removing it from the deque) and receiving   *)
(* it (copying it into the caller's variable) are two steps, because they    *)
(* are two steps of the code.                                                *)
EXTENDS QueueJobs, Sequences

VARIABLES
  pushed,      \* number of jobs pushed so far
  deque,       \* the jobs that can still be taken, oldest first
  hand,        \* hand[a]: the job a has taken and not yet received
  delivered    \* delivered[j]: how often job j was received

vars == <<pushed, deque, hand, delivered>>

Init ==
  /\ pushed = 0
  /\ deque = << >>
  /\ hand = [a \in Takers |-> NoJob]
  /\ delivered = [j \in Jobs \cup {NoJob} |-> 0]

Push ==
  /\ pushed < MaxJobs
  /\ hand[Owner] = NoJob
  /\ pushed' = pushed + 1
  /\ deque' = Append(deque, pushed + 1)
  /\ UNCHANGED <<hand, delivered>>

TakeBack ==
  /\ deque # << >>
  /\ hand[Owner] = NoJob
  /\ hand' = [hand EXCEPT ![Owner] = deque[Len(deque)]]
  /\ deque' = SubSeq(deque, 1, Len(deque) - 1)
  /\ UNCHANGED <<pushed, delivered>>

TakeFront(t) ==
  /\ deque # << >>
  /\ hand[t] = NoJob
  /\ hand' = [hand EXCEPT ![t] = Head(deque)]
  /\ deque' = Tail(deque)
  /\ UNCHANGED <<pushed, delivered>>

Receive(a) ==
  /\ hand[a] # NoJob
  /\ delivered' = [delivered EXCEPT ![hand[a]] = @ + 1]
  /\ hand' = [hand EXCEPT ![a] = NoJob]
  /\ UNCHANGED <<pushed, deque>>

Next ==
  \/ Push
  \/ TakeBack
  \/ \E t \in Thieves : TakeFront(t)
  \/ \E a \in Takers : Receive(a)

Spec == Init /\ [][Next]_vars

-----------------------------------------------------------------------------
(* Properties                                                                *)

(* Every variable has its type: nobody holds a job that was not pushed.      *)
TypeOK ==
  /\ pushed \in 0 .. MaxJobs
  /\ deque \in Seq(1 .. pushed)
  /\ hand \in [Takers -> 0 .. pushed]
  /\ delivered \in [Jobs \cup {NoJob} -> Nat]

(* Whatever the owner and the thieves do, no job is received twice and       *)
(* nobody receives a job that was never pushed: no task is run twice.        *)
DeliveredOnce == delivered[NoJob] = 0 /\ \A j \in Jobs : delivered[j] <= 1

(* No job gets lost: one that was pushed can still be taken, is in           *)
(* somebody's hand, or was received.                                         *)
NoneLost ==
  \A j \in 1 .. pushed :
     \/ \E i \in 1 .. Len(deque) : deque[i] = j
     \/ \E a \in Takers : hand[a] = j
     \/ delivered[j] # 0

(* A job is in one place only; DeliveredOnce is not inductive without it.    *)
InOnePlace ==
  /\ \A i, k \in 1 .. Len(deque) : i < k => deque[i] < deque[k]
  /\ \A a, b \in Takers : a # b /\ hand[a] # NoJob => hand[a] # hand[b]
  /\ \A i \in 1 .. Len(deque) : delivered[deque[i]] = 0
  /\ \A i \in 1 .. Len(deque), a \in Takers : deque[i] # hand[a]
  /\ \A a \in Takers : hand[a] # NoJob => delivered[hand[a]] = 0
  /\ \A j \in Jobs : j > pushed => delivered[j] = 0

IInv == TypeOK /\ DeliveredOnce /\ NoneLost /\ InOnePlace
=============================================================================
