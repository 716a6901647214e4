----------------------- MODULE WorkStealingQueueProofs -----------------------
(* Proofs about WorkStealingQueue for any thieves, any number of jobs and    *)
(* any initial size.  First what holds whatever races: every index stays     *)
(* inside the buffer.  Then, while no steal() has overlapped a growth of the *)
(* buffer: who has taken which slot, that these slots are filled, and so     *)
(* that every step is a step of JobDeque or changes nothing of it.           *)
EXTENDS WorkStealingQueue, SequenceTheorems, TLAPS

(* Every index lies inside the buffer.  A thief that has compared its h with *)
(* the tail keeps an h below the size, however late its CAS: mSize only      *)
(* grows.  The pushing owner has a job, and it starts to grow a full buffer. *)
InBounds ==
  /\ head <= size /\ tail <= size
  /\ \A t \in Thieves : thief[t].pc \in {"cas", "base", "read"} => thief[t].h < size
  /\ owner.pc \in PushPc => pushed \in Jobs
  /\ owner.pc = "fill" => tail < size
  /\ owner.pc \in {"growLoad", "growCas", "shift", "resize"} => owner.pos = size
  /\ owner.pc \in {"write", "publish", "unlock"} => owner.pos < size
  /\ owner.pc \in PopPc => owner.pos < size
  /\ owner.pc \in {"popCas", "popLast", "popTail"} => owner.from = owner.pos
  /\ owner.pc = "popFail" => owner.from <= size

(* The type of owner.                                                        *)
OwnerType == [pc : OwnerPc, pos : Nat, from : Nat, i : Nat]

BoundsInv == TypeOK /\ InBounds /\ StealsInBounds /\ GrowthCountsJobs

-----------------------------------------------------------------------------
(* What TypeOK says of the fields.                                           *)
LEMMA FieldTypes ==
  ASSUME TypeOK
  PROVE  /\ head \in Nat /\ tail \in Nat /\ size \in Nat /\ size >= 1
         /\ owner \in OwnerType
         /\ owner.pc \in OwnerPc /\ owner.pos \in Nat /\ owner.from \in Nat /\ owner.i \in Nat
         /\ \A t \in Thieves : thief[t].h \in Nat /\ thief[t].base \in Nat
         /\ \A k \in 0 .. size - 1 : queue[k] \in Jobs \cup {NoJob}
BY DEF TypeOK, OwnerType

(* Whatever is delivered, delivered counts.                                  *)
LEMMA DeliverType ==
  ASSUME TypeOK, NEW j, Deliver(j)
  PROVE  delivered' \in [Jobs \cup {NoJob} -> Nat]
<1>. DEFINE D == Jobs \cup {NoJob}
<1>1. delivered \in [D -> Nat]
  BY DEF TypeOK
<1>. HIDE DEF D
<1>2. delivered' = [d \in D |-> IF d = j THEN delivered[j] + 1 ELSE delivered[d]]
  BY <1>1 DEF Deliver
<1>3. delivered' \in [D -> Nat]
  BY <1>1, <1>2
<1>4. QED
  BY <1>3 DEF D

(* The empty queue is in its bounds.                                         *)
LEMMA InitBounds == Init => BoundsInv
<1> SUFFICES ASSUME Init PROVE BoundsInv
  OBVIOUS
<1>1. TypeOK
  <2>1. owner \in [pc : OwnerPc, pos : Nat, from : Nat, i : Nat]
    BY DEF Init, OwnerIdle, OwnerPc
  <2>2. thief \in [Thieves -> [pc : ThiefPc, h : Nat, base : Nat]]
    BY DEF Init, ThiefIdle, ThiefPc
  <2>3. /\ queue \in [0 .. size - 1 -> Jobs \cup {NoJob}]
        /\ delivered \in [Jobs \cup {NoJob} -> Nat]
    BY DEF Init
  <2>4. /\ head \in Nat /\ tail \in Nat /\ size \in Nat \ {0}
        /\ pushed \in 0 .. MaxJobs
    BY SizeAssumption, JobsAssumption DEF Init
  <2>5. raced \in BOOLEAN
    BY DEF Init
  <2>6. QED
    BY <2>1, <2>2, <2>3, <2>4, <2>5 DEF TypeOK
<1>2. owner.pc = "idle" /\ \A t \in Thieves : thief[t].pc = "idle"
  BY DEF Init, OwnerIdle, ThiefIdle
<1>3. InBounds /\ StealsInBounds /\ GrowthCountsJobs
  BY <1>2, SizeAssumption DEF Init, InBounds, StealsInBounds, GrowthCountsJobs, Growing,
     PushPc, GrowPc, PopPc
<1>4. QED
  BY <1>1, <1>3 DEF BoundsInv

(* The owner's steps: tail and pos stay at most the size, from at most pos.  *)
LEMMA PushBounds == BoundsInv /\ Push => BoundsInv'
<1> SUFFICES ASSUME BoundsInv, Push PROVE BoundsInv'
  OBVIOUS
<1>0. TypeOK /\ InBounds /\ StealsInBounds /\ GrowthCountsJobs
  BY DEF BoundsInv
<1>. USE <1>0, JobsAssumption
<1>. DEFINE Bounded == InBounds /\ StealsInBounds /\ GrowthCountsJobs
<1>1. CASE PushFill
  <2>1. owner' \in OwnerType /\ owner'.pc = "fill"
    BY <1>1, FieldTypes DEF OwnerType, PushFill, GoTo, OwnerPc, PushPc
  <2>0. pushed + 1 \in Jobs
    BY <1>1 DEF PushFill, TypeOK, Jobs
  <2>2. TypeOK'
    BY <1>1, <2>0, <2>1 DEF PushFill, TypeOK, Jobs, OwnerType
  <2>3. Bounded'
    BY <1>1, <2>0, <2>1 DEF PushFill, InBounds, StealsInBounds, GrowthCountsJobs, Growing,
       PushPc, PopPc, GrowPc
  <2>4. QED
    BY <2>2, <2>3 DEF BoundsInv
<1>2. CASE PushPublish
  <2>1. owner' \in OwnerType /\ owner'.pc = "idle" /\ tail' <= size
    BY <1>2, FieldTypes DEF OwnerType, PushPublish, Return, OwnerIdle, OwnerPc, InBounds
  <2>2. TypeOK'
    BY <1>2, <2>1 DEF PushPublish, TypeOK, OwnerType
  <2>3. Bounded'
    BY <1>2, <2>1 DEF PushPublish, InBounds, StealsInBounds, GrowthCountsJobs, Growing,
       PushPc, PopPc, GrowPc
  <2>4. QED
    BY <2>2, <2>3 DEF BoundsInv
<1>3. CASE PushFull
  <2>1. tail = size /\ pushed + 1 \in Jobs
    BY <1>3, FieldTypes DEF PushFull, TypeOK, InBounds, Jobs
  <2>2. owner' \in OwnerType /\ owner'.pc = "growLoad" /\ owner'.pos = tail
    BY <1>3, FieldTypes DEF PushFull, OwnerType, OwnerPc, PushPc
  <2>3. TypeOK'
    BY <1>3, <2>1, <2>2 DEF PushFull, TypeOK, Jobs, OwnerType
  <2>4. Bounded'
    BY <1>3, <2>1, <2>2 DEF PushFull, InBounds, StealsInBounds, GrowthCountsJobs, Growing,
       PushPc, PopPc, GrowPc
  <2>5. QED
    BY <2>3, <2>4 DEF BoundsInv
<1>4. CASE GrowLoad
  <2>1. owner' \in OwnerType /\ owner'.pc = "growCas" /\ owner'.pos = owner.pos
    BY <1>4, FieldTypes DEF OwnerType, GrowLoad, OwnerPc, PushPc
  <2>2. TypeOK'
    BY <1>4, <2>1 DEF GrowLoad, TypeOK, OwnerType
  <2>3. Bounded'
    BY <1>4, <2>1 DEF GrowLoad, InBounds, StealsInBounds, GrowthCountsJobs, Growing,
       PushPc, PopPc, GrowPc
  <2>4. QED
    BY <2>2, <2>3 DEF BoundsInv
<1>5. CASE GrowCas
  <2>1. owner' \in OwnerType /\ head' \in Nat
    <3>1. \/ \E l \in {"shift", "resize"} :
                owner' = [owner EXCEPT !.pc = l, !.i = 0] /\ head' = owner.pos
          \/ owner' = [owner EXCEPT !.pc = "growLoad"] /\ head' = head
      BY <1>5 DEF GrowCas, GoTo
    <3>2. {"shift", "resize", "growLoad"} \subseteq OwnerPc
      BY DEF OwnerPc, PushPc, GrowPc
    <3>3. CASE \E l \in {"shift", "resize"} :
                 owner' = [owner EXCEPT !.pc = l, !.i = 0] /\ head' = owner.pos
      <4>1. PICK l \in OwnerPc : owner' = [owner EXCEPT !.pc = l, !.i = 0] /\ head' = owner.pos
        BY <3>2, <3>3
      <4>2. QED
        BY <4>1, FieldTypes DEF OwnerType
    <3>4. CASE owner' = [owner EXCEPT !.pc = "growLoad"] /\ head' = head
      BY <3>2, <3>4, FieldTypes DEF OwnerType
    <3>5. QED
      BY <3>1, <3>3, <3>4
  <2>0. raced' \in BOOLEAN
    BY <1>5 DEF GrowCas, TypeOK
  <2>2. TypeOK'
    BY <1>5, <2>0, <2>1 DEF GrowCas, TypeOK, OwnerType
  <2>3. CASE head = owner.from /\ head' = owner.pos
    <3>1. /\ owner'.pc \in {"shift", "resize"} /\ owner'.pos = size /\ owner'.from <= size
          /\ head' = size
      BY <1>5, <2>3, FieldTypes DEF GrowCas, GoTo, TypeOK, InBounds
    <3>2. Bounded'
      BY <1>5, <3>1, FieldTypes DEF GrowCas, InBounds, StealsInBounds, GrowthCountsJobs, Growing,
         PushPc, PopPc, GrowPc
    <3>3. QED
      BY <2>2, <3>2 DEF BoundsInv
  <2>4. CASE head' = head /\ owner' = [owner EXCEPT !.pc = "growLoad"]
    <3>1. owner'.pc = "growLoad" /\ owner'.pos = owner.pos
      BY <2>4 DEF TypeOK
    <3>2. Bounded'
      BY <1>5, <2>4, <3>1 DEF GrowCas, InBounds, StealsInBounds, GrowthCountsJobs, Growing,
         PushPc, PopPc, GrowPc
    <3>3. QED
      BY <2>2, <3>2 DEF BoundsInv
  <2>5. QED
    BY <1>5, <2>3, <2>4 DEF GrowCas, GoTo
<1>6. CASE GrowShift
  <2>1. /\ owner' \in OwnerType /\ owner'.pc = "shift"
        /\ owner'.pos = owner.pos /\ owner'.from = owner.from
    BY <1>6, FieldTypes DEF OwnerType, GrowShift, OwnerPc, PushPc, GrowPc
  <2>2. owner.i + owner.from \in 0 .. size - 1
    BY <1>6, FieldTypes DEF GrowShift, Kept, InBounds
  <2>3. TypeOK'
    BY <1>6, <2>1, <2>2 DEF GrowShift, TypeOK, OwnerType
  <2>4. Bounded'
    BY <1>6, <2>1 DEF GrowShift, InBounds, StealsInBounds, GrowthCountsJobs, Growing,
       PushPc, PopPc, GrowPc
  <2>5. QED
    BY <2>3, <2>4 DEF BoundsInv
<1>7. CASE GrowShifted
  <2>1. /\ owner' \in OwnerType /\ owner'.pc = "resize"
        /\ owner'.pos = owner.pos /\ owner'.from = owner.from
    BY <1>7, FieldTypes DEF OwnerType, GrowShifted, GoTo, OwnerPc, PushPc, GrowPc
  <2>2. tail' \in Nat /\ tail' <= size
    BY <1>7, FieldTypes DEF GrowShifted, Kept, InBounds, GrowthCountsJobs, Growing, GrowPc
  <2>3. TypeOK'
    BY <1>7, <2>1, <2>2 DEF GrowShifted, TypeOK, OwnerType
  <2>4. Bounded'
    BY <1>7, <2>1, <2>2 DEF GrowShifted, InBounds, StealsInBounds, GrowthCountsJobs, Growing,
       PushPc, PopPc, GrowPc
  <2>5. QED
    BY <2>3, <2>4 DEF BoundsInv
<1>8. CASE GrowResize
  <2>1. /\ owner' \in OwnerType /\ owner'.pc = "write"
        /\ owner'.pos = owner.pos /\ owner'.from = owner.from
    BY <1>8, FieldTypes DEF OwnerType, GrowResize, GoTo, OwnerPc, PushPc, GrowPc
  <2>2. size' = 2 * size /\ size' \in Nat \ {0} /\ size < size'
    <3>1. size \in Nat /\ size >= 1 /\ size' = 2 * size
      BY <1>8, FieldTypes DEF GrowResize
    <3>2. QED
      BY <3>1
  <2>3. queue' \in [0 .. size' - 1 -> Jobs \cup {NoJob}]
    BY <1>8, <2>2, FieldTypes DEF GrowResize
  <2>4. TypeOK'
    BY <1>8, <2>1, <2>2, <2>3 DEF GrowResize, TypeOK, OwnerType
  <2>5. Bounded'
    BY <1>8, <2>1, <2>2, FieldTypes
       DEF GrowResize, InBounds, StealsInBounds, GrowthCountsJobs, Growing,
           PushPc, PopPc, GrowPc
  <2>6. QED
    BY <2>4, <2>5 DEF BoundsInv
<1>9. CASE GrowWrite
  <2>1. /\ owner' \in OwnerType /\ owner'.pc = "publish"
        /\ owner'.pos = owner.pos /\ owner'.from = owner.from
    BY <1>9, FieldTypes DEF OwnerType, GrowWrite, GoTo, OwnerPc, PushPc, GrowPc
  <2>2. pushed \in Jobs
    BY <1>9 DEF GrowWrite, InBounds, PushPc, GrowPc
  <2>3. TypeOK'
    BY <1>9, <2>1, <2>2 DEF GrowWrite, TypeOK, OwnerType
  <2>4. Bounded'
    BY <1>9, <2>1 DEF GrowWrite, InBounds, StealsInBounds, GrowthCountsJobs, Growing,
       PushPc, PopPc, GrowPc
  <2>5. QED
    BY <2>3, <2>4 DEF BoundsInv
<1>10. CASE GrowPublish
  <2>1. /\ owner' \in OwnerType /\ owner'.pc = "unlock"
        /\ owner'.pos = owner.pos /\ owner'.from = owner.from
    BY <1>10, FieldTypes DEF OwnerType, GrowPublish, GoTo, OwnerPc, PushPc, GrowPc
  <2>2. tail' \in Nat /\ tail' <= size
    BY <1>10, FieldTypes DEF GrowPublish, Kept, InBounds, GrowthCountsJobs, Growing, GrowPc
  <2>3. TypeOK'
    BY <1>10, <2>1, <2>2 DEF GrowPublish, TypeOK, OwnerType
  <2>4. Bounded'
    BY <1>10, <2>1, <2>2 DEF GrowPublish, InBounds, StealsInBounds, GrowthCountsJobs, Growing,
       PushPc, PopPc, GrowPc
  <2>5. QED
    BY <2>3, <2>4 DEF BoundsInv
<1>11. CASE GrowUnlock
  <2>1. owner' \in OwnerType /\ owner'.pc = "idle"
    BY <1>11, FieldTypes DEF OwnerType, GrowUnlock, Return, OwnerIdle, OwnerPc
  <2>2. TypeOK'
    BY <1>11, <2>1 DEF GrowUnlock, TypeOK, OwnerType
  <2>3. Bounded'
    BY <1>11, <2>1, FieldTypes
       DEF GrowUnlock, InBounds, StealsInBounds, GrowthCountsJobs, Growing,
           PushPc, PopPc, GrowPc
  <2>4. QED
    BY <2>2, <2>3 DEF BoundsInv
<1>12. QED
  BY <1>1, <1>2, <1>3, <1>4, <1>5, <1>6, <1>7, <1>8, <1>9, <1>10, <1>11 DEF Push

(* pop() lowers the tail and sets it to one past a slot it has seen.         *)
LEMMA PopBounds == BoundsInv /\ Pop => BoundsInv'
<1> SUFFICES ASSUME BoundsInv, Pop PROVE BoundsInv'
  OBVIOUS
<1>0. TypeOK /\ InBounds /\ StealsInBounds /\ GrowthCountsJobs
  BY DEF BoundsInv
<1>. USE <1>0
<1>. DEFINE Bounded == InBounds /\ StealsInBounds /\ GrowthCountsJobs
<1>1. CASE PopTail
  <2>1. tail - 1 \in Nat /\ tail - 1 < size
    BY <1>1, FieldTypes DEF PopTail, InBounds
  <2>2. owner' \in OwnerType /\ owner'.pc = "popHead" /\ owner'.pos = tail - 1
    BY <1>1, <2>1, FieldTypes DEF PopTail, OwnerType, OwnerPc, PopPc
  <2>3. TypeOK'
    BY <1>1, <2>1, <2>2 DEF PopTail, TypeOK, OwnerType
  <2>4. Bounded'
    BY <1>1, <2>1, <2>2, FieldTypes
       DEF PopTail, InBounds, StealsInBounds, GrowthCountsJobs, Growing, PushPc, PopPc, GrowPc
  <2>5. QED
    BY <2>3, <2>4 DEF BoundsInv
<1>2. CASE PopHead
  <2>1. owner' \in OwnerType
    BY <1>2, FieldTypes DEF PopHead, OwnerType, OwnerPc, PopPc
  <2>2. /\ owner'.pos = owner.pos /\ owner'.from = head
        /\ owner'.pc \in {"popFail", "popRead", "popCas"}
        /\ owner'.pc = "popCas" => owner.pos = head
    BY <1>2, FieldTypes DEF PopHead, OwnerType
  <2>3. TypeOK'
    BY <1>2, <2>1 DEF PopHead, TypeOK, OwnerType
  <2>4. Bounded'
    BY <1>2, <2>2
       DEF PopHead, InBounds, StealsInBounds, GrowthCountsJobs, Growing, PushPc, PopPc, GrowPc
  <2>5. QED
    BY <2>3, <2>4 DEF BoundsInv
<1>3. CASE PopRead
  <2>1. owner' \in OwnerType /\ owner'.pc = "idle"
    BY <1>3 DEF PopRead, Return, OwnerIdle, OwnerType, OwnerPc
  <2>2. delivered' \in [Jobs \cup {NoJob} -> Nat]
    BY <1>3, DeliverType DEF PopRead
  <2>3. TypeOK'
    BY <1>3, <2>1, <2>2 DEF PopRead, TypeOK, OwnerType
  <2>4. Bounded'
    BY <1>3, <2>1
       DEF PopRead, InBounds, StealsInBounds, GrowthCountsJobs, Growing, PushPc, PopPc, GrowPc
  <2>5. QED
    BY <2>3, <2>4 DEF BoundsInv
<1>4. CASE PopCas
  <2>1. owner.from = owner.pos /\ owner.pos < size /\ {"popLast", "popFail"} \subseteq OwnerPc
    BY <1>4 DEF PopCas, InBounds, OwnerPc, PopPc
  <2>2. CASE /\ owner' = [owner EXCEPT !.pc = "popLast"]
             /\ head = owner.from /\ head' = head + 1
    <3>1. /\ owner' \in OwnerType /\ owner'.pc = "popLast"
          /\ owner'.pos = owner.pos /\ owner'.from = owner.from
      BY <2>1, <2>2, FieldTypes DEF OwnerType
    <3>2. head' \in Nat /\ head' <= size
      BY <2>1, <2>2, FieldTypes
    <3>3. TypeOK'
      BY <1>4, <3>1, <3>2 DEF PopCas, TypeOK, OwnerType
    <3>4. Bounded'
      BY <1>4, <2>1, <3>1, <3>2
         DEF PopCas, InBounds, StealsInBounds, GrowthCountsJobs, Growing, PushPc, PopPc, GrowPc
    <3>5. QED
      BY <3>3, <3>4 DEF BoundsInv
  <2>3. CASE owner' = [owner EXCEPT !.pc = "popFail", !.from = head] /\ head' = head
    <3>1. /\ owner' \in OwnerType /\ owner'.pc = "popFail"
          /\ owner'.pos = owner.pos /\ owner'.from = head
      BY <2>1, <2>3, FieldTypes DEF OwnerType
    <3>2. TypeOK'
      BY <1>4, <2>3, <3>1 DEF PopCas, TypeOK, OwnerType
    <3>3. Bounded'
      BY <1>4, <2>1, <2>3, <3>1
         DEF PopCas, InBounds, StealsInBounds, GrowthCountsJobs, Growing, PushPc, PopPc, GrowPc
    <3>4. QED
      BY <3>2, <3>3 DEF BoundsInv
  <2>4. QED
    BY <1>4, <2>2, <2>3 DEF PopCas, GoTo
<1>5. CASE PopLast
  <2>1. /\ owner' \in OwnerType /\ owner'.pc = "popTail"
        /\ owner'.pos = owner.pos /\ owner'.from = owner.from
    BY <1>5, FieldTypes DEF PopLast, GoTo, OwnerType, OwnerPc, PopPc
  <2>2. delivered' \in [Jobs \cup {NoJob} -> Nat]
    BY <1>5, DeliverType DEF PopLast
  <2>3. TypeOK'
    BY <1>5, <2>1, <2>2 DEF PopLast, TypeOK, OwnerType
  <2>4. Bounded'
    BY <1>5, <2>1
       DEF PopLast, InBounds, StealsInBounds, GrowthCountsJobs, Growing, PushPc, PopPc, GrowPc
  <2>5. QED
    BY <2>3, <2>4 DEF BoundsInv
<1>6. CASE PopLastTail \/ PopFail
  <2>1. owner' \in OwnerType /\ owner'.pc = "idle"
    BY <1>6 DEF PopLastTail, PopFail, Return, OwnerIdle, OwnerType, OwnerPc
  <2>2. tail' \in Nat /\ tail' <= size
    BY <1>6, FieldTypes DEF PopLastTail, PopFail, InBounds, PopPc
  <2>3. TypeOK'
    BY <1>6, <2>1, <2>2 DEF PopLastTail, PopFail, TypeOK, OwnerType
  <2>4. Bounded'
    BY <1>6, <2>1, <2>2
       DEF PopLastTail, PopFail, InBounds, StealsInBounds, GrowthCountsJobs, Growing,
           PushPc, PopPc, GrowPc
  <2>5. QED
    BY <2>3, <2>4 DEF BoundsInv
<1>7. QED
  BY <1>1, <1>2, <1>3, <1>4, <1>5, <1>6 DEF Pop

(* A thief's h was below the tail when it was compared, and mSize only grows.*)
LEMMA StealBounds == ASSUME BoundsInv, NEW t \in Thieves, Steal(t) PROVE BoundsInv'
<1>0. TypeOK /\ InBounds /\ StealsInBounds /\ GrowthCountsJobs
  BY DEF BoundsInv
<1>. USE <1>0
<1>. DEFINE ThiefType == [pc : ThiefPc, h : Nat, base : Nat]
            Bounded == InBounds /\ StealsInBounds /\ GrowthCountsJobs
<1>1. thief \in [Thieves -> ThiefType]
  BY DEF TypeOK
<1>2. CASE StealHead(t)
  <2>1. thief' \in [Thieves -> ThiefType]
    BY <1>1, <1>2, FieldTypes DEF StealHead, ThiefPc
  <2>2. raced' \in BOOLEAN
    BY <1>2 DEF StealHead, TypeOK, Growing
  <2>3. TypeOK'
    BY <1>2, <2>1, <2>2 DEF StealHead, TypeOK
  <2>4. thief'[t].pc = "tail" /\ \A u \in Thieves \ {t} : thief'[u] = thief[u]
    BY <1>1, <1>2 DEF StealHead
  <2>5. Bounded'
    BY <1>2, <2>4 DEF StealHead, InBounds, StealsInBounds, GrowthCountsJobs, Growing
  <2>6. QED
    BY <2>3, <2>5 DEF BoundsInv
<1>3. CASE StealTail(t)
  <2>1. thief' \in [Thieves -> ThiefType]
    BY <1>1, <1>3 DEF StealTail, ThiefPc, ThiefIdle
  <2>2. TypeOK'
    BY <1>3, <2>1 DEF StealTail, TypeOK
  <2>3. /\ \/ thief'[t].pc = "cas" /\ thief'[t].h < tail /\ thief'[t].h = thief[t].h
           \/ thief'[t].pc = "idle"
        /\ \A u \in Thieves \ {t} : thief'[u] = thief[u]
    BY <1>1, <1>3 DEF StealTail, ThiefIdle
  <2>4. Bounded'
    BY <1>3, <2>3, FieldTypes DEF StealTail, InBounds, StealsInBounds, GrowthCountsJobs, Growing
  <2>5. QED
    BY <2>2, <2>4 DEF BoundsInv
<1>4. CASE StealCas(t)
  <2>1. thief' \in [Thieves -> ThiefType] /\ head' \in Nat
    BY <1>1, <1>4, FieldTypes DEF StealCas, ThiefPc, ThiefIdle
  <2>2. TypeOK'
    BY <1>4, <2>1 DEF StealCas, TypeOK
  <2>3. /\ \/ thief'[t].pc = "base" /\ thief'[t].h = thief[t].h /\ head' = thief[t].h + 1
           \/ thief'[t].pc = "idle" /\ head' = head
        /\ \A u \in Thieves \ {t} : thief'[u] = thief[u]
    BY <1>1, <1>4 DEF StealCas, ThiefIdle
  <2>4. Bounded'
    BY <1>4, <2>3, FieldTypes DEF StealCas, InBounds, StealsInBounds, GrowthCountsJobs, Growing
  <2>5. QED
    BY <2>2, <2>4 DEF BoundsInv
<1>5. CASE StealBase(t)
  <2>1. thief' \in [Thieves -> ThiefType]
    BY <1>1, <1>5, FieldTypes DEF StealBase, ThiefPc
  <2>2. TypeOK'
    BY <1>5, <2>1 DEF StealBase, TypeOK
  <2>3. /\ thief'[t].pc = "read" /\ thief'[t].h = thief[t].h /\ thief'[t].base = size
        /\ \A u \in Thieves \ {t} : thief'[u] = thief[u]
    BY <1>1, <1>5 DEF StealBase
  <2>4. Bounded'
    BY <1>5, <2>3 DEF StealBase, InBounds, StealsInBounds, GrowthCountsJobs, Growing
  <2>5. QED
    BY <2>2, <2>4 DEF BoundsInv
<1>6. CASE StealRead(t)
  <2>1. thief' \in [Thieves -> ThiefType]
    BY <1>1, <1>6 DEF StealRead, ThiefPc, ThiefIdle
  <2>2. delivered' \in [Jobs \cup {NoJob} -> Nat]
    BY <1>6, DeliverType DEF StealRead
  <2>3. TypeOK'
    BY <1>6, <2>1, <2>2 DEF StealRead, TypeOK
  <2>4. thief'[t].pc = "idle" /\ \A u \in Thieves \ {t} : thief'[u] = thief[u]
    BY <1>1, <1>6 DEF StealRead, ThiefIdle
  <2>5. Bounded'
    BY <1>6, <2>4 DEF StealRead, InBounds, StealsInBounds, GrowthCountsJobs, Growing
  <2>6. QED
    BY <2>3, <2>5 DEF BoundsInv
<1>7. QED
  BY <1>2, <1>3, <1>4, <1>5, <1>6 DEF Steal

(* Every step keeps the queue in its bounds, raced or not.                   *)
LEMMA NextBounds == BoundsInv /\ [Next]_vars => BoundsInv'
<1>1. BoundsInv /\ UNCHANGED vars => BoundsInv'
  BY DEF BoundsInv, TypeOK, InBounds, StealsInBounds, GrowthCountsJobs, Growing, vars
<1>2. QED
  BY <1>1, PushBounds, PopBounds, StealBounds DEF Next, OwnerNext
-----------------------------------------------------------------------------
(* Where the head is, seen from the owner: it passes the tail only when the  *)
(* last job was taken while the owner was popping.                           *)
HeadBeforeTail ==
  /\ owner.pc \in {"idle", "fill", "growLoad", "growCas", "popRead"} => head <= tail
  /\ owner.pc \in {"growLoad", "growCas"} => owner.pos = tail
  /\ owner.pc = "unlock" => tail = Kept + 1
  /\ owner.pc \in PopPc => owner.pos = tail
  /\ owner.pc = "popHead" => head <= tail + 1
  /\ owner.pc = "popCas" => head \in {tail, tail + 1}
  /\ owner.pc \in {"popLast", "popTail", "popFail"} => head = tail + 1
  /\ owner.pc = "popFail" => owner.from = head

(* Where the thieves are: what they have taken lies below the head, and a    *)
(* CAS that can still succeed is for a job that is there.                    *)
ThievesBehindHead ==
  /\ Growing => \A t \in Thieves : thief[t].pc = "idle"
  /\ \A t \in Thieves :
       /\ thief[t].pc = "tail" => thief[t].h <= head
       /\ thief[t].pc = "cas" =>
            \/ thief[t].h < head
            \/ thief[t].h = head /\ head < tail
            \/ thief[t].h = head /\ head = tail /\ owner.pc \in {"popHead", "popCas"}
       /\ thief[t].pc \in {"base", "read"} => thief[t].h < head
       /\ thief[t].pc = "read" => thief[t].base = size

(* The slots of the jobs that are in the deque, and of those that were, hold *)
(* a job; the slot written last holds the job that is being pushed.          *)
SlotsFilled ==
  /\ \A k \in 0 .. size - 1 :
       /\ owner.pc \in {"idle", "fill", "growLoad", "growCas"} /\ k < tail => queue[k] # NoJob
       /\ owner.pc = "shift" /\ k < owner.pos => queue[k] # NoJob
       /\ owner.pc \in {"resize", "write", "publish"} /\ k < Kept => queue[k] # NoJob
       /\ owner.pc = "unlock" /\ k <= Kept => queue[k] # NoJob
       /\ owner.pc \in PopPc /\ k <= tail => queue[k] # NoJob
  /\ owner.pc = "fill" => queue[tail] = pushed
  /\ owner.pc = "publish" => queue[Kept] = pushed

Unraced == HeadBeforeTail /\ ThievesBehindHead /\ SlotsFilled

IInv == BoundsInv /\ (~raced => Unraced)

-----------------------------------------------------------------------------
(* The push that finds room.                                                 *)
LEMMA UnracedPush ==
  ASSUME BoundsInv, BoundsInv', Unraced, ~raced', PushFill \/ PushPublish \/ PushFull
  PROVE  Unraced'
<1>0. TypeOK /\ InBounds /\ HeadBeforeTail /\ ThievesBehindHead /\ SlotsFilled
  BY DEF BoundsInv, Unraced
<1>. USE <1>0
<1>1. CASE PushFill
  <2>1. owner'.pc = "fill" /\ owner.pc = "idle" /\ pushed + 1 # NoJob /\ tail \in 0 .. size - 1
    BY <1>1, FieldTypes DEF PushFill, GoTo, OwnerType, TypeOK, NoJob
  <2>2. HeadBeforeTail'
    BY <1>1, <2>1 DEF PushFill, HeadBeforeTail, PopPc
  <2>3. ThievesBehindHead'
    BY <1>1, <2>1 DEF PushFill, ThievesBehindHead, Growing, GrowPc
  <2>4. queue'[tail] = pushed + 1 /\ \A k \in 0 .. size - 1 : k # tail => queue'[k] = queue[k]
    BY <1>1, <2>1 DEF PushFill, TypeOK
  <2>5. SlotsFilled'
    BY <1>1, <2>1, <2>4 DEF PushFill, SlotsFilled, PopPc
  <2>6. QED
    BY <2>2, <2>3, <2>5 DEF Unraced
<1>2. CASE PushPublish
  <2>1. owner'.pc = "idle" /\ owner.pc = "fill" /\ pushed # NoJob
    BY <1>2, FieldTypes DEF PushPublish, Return, OwnerIdle, InBounds, PushPc, Jobs, NoJob
  <2>2. HeadBeforeTail'
    BY <1>2, <2>1, FieldTypes DEF PushPublish, HeadBeforeTail, PopPc
  <2>3. ThievesBehindHead'
    BY <1>2, <2>1, FieldTypes DEF PushPublish, ThievesBehindHead, Growing, GrowPc
  <2>4. SlotsFilled'
    BY <1>2, <2>1, FieldTypes DEF PushPublish, SlotsFilled, PopPc
  <2>5. QED
    BY <2>2, <2>3, <2>4 DEF Unraced
<1>3. CASE PushFull
  <2>1. owner'.pc = "growLoad" /\ owner'.pos = tail /\ owner.pc = "idle"
    BY <1>3, FieldTypes DEF PushFull, OwnerType
  <2>2. HeadBeforeTail'
    BY <1>3, <2>1, FieldTypes DEF PushFull, HeadBeforeTail, PopPc
  <2>3. ThievesBehindHead'
    BY <1>3, <2>1, FieldTypes DEF PushFull, ThievesBehindHead, Growing, GrowPc
  <2>4. SlotsFilled'
    BY <1>3, <2>1, FieldTypes DEF PushFull, SlotsFilled, PopPc
  <2>5. QED
    BY <2>2, <2>3, <2>4 DEF Unraced
<1>4. QED
  BY <1>1, <1>2, <1>3

(* The push that grows.  A successful CAS with no thief in steal(), and none *)
(* entering it before the unlock: the owner has the buffer to itself.        *)
LEMMA UnracedGrow ==
  ASSUME BoundsInv, BoundsInv', Unraced, ~raced',
         GrowLoad \/ GrowCas \/ GrowShift \/ GrowShifted \/ GrowResize \/ GrowWrite
           \/ GrowPublish \/ GrowUnlock
  PROVE  Unraced'
<1>0. TypeOK /\ InBounds /\ HeadBeforeTail /\ ThievesBehindHead /\ SlotsFilled /\ GrowthCountsJobs
  BY DEF BoundsInv, Unraced
<1>. USE <1>0
<1>1. CASE GrowLoad
  <2>1. owner'.pc = "growCas" /\ owner.pc = "growLoad" /\ owner'.pos = owner.pos
    BY <1>1, FieldTypes DEF GrowLoad, OwnerType
  <2>2. HeadBeforeTail'
    BY <1>1, <2>1 DEF GrowLoad, HeadBeforeTail, PopPc
  <2>3. ThievesBehindHead'
    BY <1>1, <2>1 DEF GrowLoad, ThievesBehindHead, Growing, GrowPc
  <2>4. SlotsFilled'
    BY <1>1, <2>1 DEF GrowLoad, SlotsFilled, PopPc
  <2>5. QED
    BY <2>2, <2>3, <2>4 DEF Unraced
<1>2. CASE GrowCas
  <2>0. owner.pc = "growCas" /\ owner.pos = tail
    BY <1>2 DEF GrowCas, HeadBeforeTail
  <2>1. CASE head = owner.from
    <3>1. /\ owner'.pc = IF owner.from > 0 THEN "shift" ELSE "resize"
          /\ owner'.pos = owner.pos /\ owner'.from = owner.from
      BY <1>2, <2>1, FieldTypes DEF GrowCas, OwnerType
    <3>2. \A t \in Thieves : thief'[t].pc = "idle"
      BY <1>2, <2>1 DEF GrowCas
    <3>3. HeadBeforeTail'
      BY <3>1 DEF HeadBeforeTail, PopPc
    <3>4. ThievesBehindHead'
      BY <3>2 DEF ThievesBehindHead
    <3>5. \A k \in 0 .. size - 1 : k < owner.pos => queue[k] # NoJob
      BY <2>0 DEF SlotsFilled
    <3>6. owner'.pc = "resize" => Kept' = owner.pos
      BY <3>1, FieldTypes DEF Kept
    <3>7. SlotsFilled'
      BY <1>2, <3>1, <3>5, <3>6 DEF GrowCas, SlotsFilled, PopPc
    <3>8. QED
      BY <3>3, <3>4, <3>7 DEF Unraced
  <2>2. CASE head # owner.from
    <3>1. owner'.pc = "growLoad" /\ owner'.pos = owner.pos /\ head' = head
      BY <1>2, <2>2, FieldTypes DEF GrowCas, GoTo, OwnerType
    <3>2. HeadBeforeTail'
      BY <1>2, <2>0, <3>1 DEF GrowCas, HeadBeforeTail, PopPc
    <3>3. ThievesBehindHead'
      BY <1>2, <2>0, <3>1 DEF GrowCas, ThievesBehindHead, Growing, GrowPc
    <3>4. SlotsFilled'
      BY <1>2, <2>0, <3>1 DEF GrowCas, SlotsFilled, PopPc
    <3>5. QED
      BY <3>2, <3>3, <3>4 DEF Unraced
  <2>3. QED
    BY <2>1, <2>2
<1>3. CASE GrowShift \/ GrowShifted \/ GrowResize \/ GrowWrite \/ GrowPublish
  <2>1. /\ owner.pc \in GrowPc /\ owner'.pc \in GrowPc
        /\ owner'.pos = owner.pos /\ owner'.from = owner.from /\ Kept' = Kept
        /\ UNCHANGED <<thief, head, pushed>>
    BY <1>3, FieldTypes DEF GrowShift, GrowShifted, GrowResize, GrowWrite, GrowPublish, GoTo,
       GrowPc, Kept, OwnerType
  <2>2. \A t \in Thieves : thief'[t].pc = "idle"
    BY <2>1 DEF ThievesBehindHead, Growing
  <2>3. ThievesBehindHead'
    BY <2>2 DEF ThievesBehindHead
  <2>4. Kept \in Nat /\ Kept <= owner.pos
    BY <2>1, FieldTypes DEF GrowthCountsJobs, Growing, Kept
  <2>5. (owner.pc = "publish" /\ tail' = Kept + 1) \/ owner'.pc # "unlock"
    BY <1>3, FieldTypes DEF GrowShift, GrowShifted, GrowResize, GrowWrite, GrowPublish, GoTo,
       OwnerType
  <2>6. HeadBeforeTail'
    BY <2>1, <2>5 DEF HeadBeforeTail, GrowPc, PopPc
  <2>7. CASE GrowShift
    <3>1. owner.pc = "shift" /\ owner'.pc = "shift"
      BY <2>7, FieldTypes DEF GrowShift, OwnerType
    <3>2. owner.i + owner.from \in 0 .. size - 1 /\ owner.i + owner.from < owner.pos
      BY <2>7, <3>1, FieldTypes DEF GrowShift, Kept, InBounds
    <3>3. queue[owner.i + owner.from] # NoJob
      BY <3>1, <3>2 DEF SlotsFilled
    <3>4. \A k \in 0 .. size - 1 :
             queue'[k] = IF k = owner.i THEN queue[owner.i + owner.from] ELSE queue[k]
      BY <2>7 DEF GrowShift, TypeOK
    <3>5. SlotsFilled'
      BY <2>7, <2>1, <3>1, <3>3, <3>4 DEF GrowShift, SlotsFilled, PopPc
    <3>6. QED
      BY <2>3, <2>6, <3>5 DEF Unraced
  <2>8. CASE GrowShifted
    <3>1. owner.pc = "shift" /\ owner'.pc = "resize"
      BY <2>8, FieldTypes DEF GrowShifted, GoTo, OwnerType
    <3>2. SlotsFilled'
      BY <2>8, <2>1, <2>4, <3>1, FieldTypes DEF GrowShifted, SlotsFilled, PopPc
    <3>3. QED
      BY <2>3, <2>6, <3>2 DEF Unraced
  <2>9. CASE GrowResize
    <3>1. owner.pc = "resize" /\ owner'.pc = "write" /\ owner.pos = size
      BY <2>9, FieldTypes DEF GrowResize, GoTo, OwnerType, InBounds
    <3>2. \A k \in 0 .. size' - 1 : k < size => queue'[k] = queue[k]
      BY <2>9, FieldTypes DEF GrowResize
    <3>3. size' \in Nat /\ size < size'
      <4>1. size \in Nat /\ size >= 1 /\ size' = 2 * size
        BY <2>9, FieldTypes DEF GrowResize
      <4>2. QED
        BY <4>1
    <3>4. \A k \in 0 .. size - 1 : k < Kept => queue[k] # NoJob
      BY <3>1 DEF SlotsFilled
    <3>5. \A k \in 0 .. size' - 1 : k < Kept => queue'[k] # NoJob
      <4>1. Kept \in Nat /\ Kept <= size /\ size \in Nat /\ size' \in Nat
        BY <2>4, <3>1, <3>3, FieldTypes
      <4>2. SUFFICES ASSUME NEW k \in 0 .. size' - 1, k < Kept PROVE queue'[k] # NoJob
        OBVIOUS
      <4>3. k \in 0 .. size - 1 /\ k < size
        BY <4>1, <4>2
      <4>4. queue'[k] = queue[k]
        BY <3>2, <4>3
      <4>5. QED
        BY <3>4, <4>2, <4>3, <4>4
    <3>6. SlotsFilled'
      BY <2>1, <3>1, <3>5 DEF SlotsFilled, PopPc
    <3>7. QED
      BY <2>3, <2>6, <3>6 DEF Unraced
  <2>10. CASE GrowWrite
    <3>1. /\ owner.pc = "write" /\ owner'.pc = "publish" /\ Kept \in 0 .. size - 1
      BY <2>10, <2>4, FieldTypes DEF GrowWrite, GoTo, OwnerType, InBounds
    <3>2. \A k \in 0 .. size - 1 : queue'[k] = IF k = Kept THEN pushed ELSE queue[k]
      BY <2>10 DEF GrowWrite, TypeOK
    <3>3. SlotsFilled'
      BY <2>10, <2>1, <2>4, <3>1, <3>2, FieldTypes DEF GrowWrite, SlotsFilled, PopPc
    <3>4. QED
      BY <2>3, <2>6, <3>3 DEF Unraced
  <2>11. CASE GrowPublish
    <3>1. owner.pc = "publish" /\ owner'.pc = "unlock"
      BY <2>11, FieldTypes DEF GrowPublish, GoTo, OwnerType
    <3>2. pushed # NoJob
      BY <3>1, FieldTypes DEF InBounds, PushPc, GrowPc, Jobs, NoJob
    <3>3. SlotsFilled'
      BY <2>11, <2>1, <2>4, <3>1, <3>2, FieldTypes DEF GrowPublish, SlotsFilled, PopPc
    <3>4. QED
      BY <2>3, <2>6, <3>3 DEF Unraced
  <2>12. QED
    BY <1>3, <2>7, <2>8, <2>9, <2>10, <2>11
<1>4. CASE GrowUnlock
  <2>1. owner'.pc = "idle" /\ owner.pc = "unlock" /\ tail = Kept + 1 /\ Kept \in Nat
    BY <1>4, FieldTypes DEF GrowUnlock, Return, OwnerIdle, HeadBeforeTail, GrowthCountsJobs,
       Growing, GrowPc, Kept
  <2>2. \A t \in Thieves : thief'[t].pc = "idle"
    BY <1>4, <2>1 DEF GrowUnlock, ThievesBehindHead, Growing, GrowPc
  <2>3. HeadBeforeTail'
    BY <1>4, <2>1, FieldTypes DEF GrowUnlock, HeadBeforeTail, PopPc
  <2>4. ThievesBehindHead'
    BY <2>2 DEF ThievesBehindHead
  <2>5. SlotsFilled'
    BY <1>4, <2>1, FieldTypes DEF GrowUnlock, SlotsFilled, PopPc
  <2>6. QED
    BY <2>3, <2>4, <2>5 DEF Unraced
<1>5. QED
  BY <1>1, <1>2, <1>3, <1>4

(* pop().  The head overtakes the lowered tail by at most one, and only when *)
(* a thief took the last job.                                                *)
LEMMA UnracedPop ==
  ASSUME BoundsInv, BoundsInv', Unraced, ~raced', Pop
  PROVE  Unraced'
<1>0. TypeOK /\ InBounds /\ HeadBeforeTail /\ ThievesBehindHead /\ SlotsFilled
  BY DEF BoundsInv, Unraced
<1>. USE <1>0
<1>1. CASE PopTail
  <2>1. /\ owner.pc = "idle" /\ owner'.pc = "popHead" /\ owner'.pos = tail - 1
        /\ tail' = tail - 1 /\ head <= tail
    BY <1>1, FieldTypes DEF PopTail, OwnerType, HeadBeforeTail
  <2>2. HeadBeforeTail'
    BY <1>1, <2>1, FieldTypes DEF PopTail, HeadBeforeTail, PopPc
  <2>3. ThievesBehindHead'
    BY <1>1, <2>1, FieldTypes DEF PopTail, ThievesBehindHead, Growing, GrowPc
  <2>4. SlotsFilled'
    BY <1>1, <2>1, FieldTypes DEF PopTail, SlotsFilled, PopPc
  <2>5. QED
    BY <2>2, <2>3, <2>4 DEF Unraced
<1>2. CASE PopHead
  <2>1. /\ owner.pc = "popHead" /\ owner'.pos = owner.pos /\ owner'.from = head
        /\ owner'.pc \in {"popFail", "popRead", "popCas"}
        /\ owner'.pc = "popFail" => owner.pos < head
        /\ owner'.pc = "popRead" => owner.pos > head
        /\ owner'.pc = "popCas" => owner.pos = head
        /\ owner.pos = tail /\ head <= tail + 1
    BY <1>2, FieldTypes DEF PopHead, OwnerType, HeadBeforeTail, PopPc
  <2>2. HeadBeforeTail'
    BY <1>2, <2>1, FieldTypes DEF PopHead, HeadBeforeTail, PopPc
  <2>3. ThievesBehindHead'
    BY <1>2, <2>1, FieldTypes DEF PopHead, ThievesBehindHead, Growing, GrowPc
  <2>4. SlotsFilled'
    BY <1>2, <2>1, FieldTypes DEF PopHead, SlotsFilled, PopPc
  <2>5. QED
    BY <2>2, <2>3, <2>4 DEF Unraced
<1>3. CASE PopRead
  <2>1. owner.pc = "popRead" /\ owner'.pc = "idle"
    BY <1>3 DEF PopRead, Return, OwnerIdle
  <2>2. HeadBeforeTail'
    BY <1>3, <2>1 DEF PopRead, HeadBeforeTail, PopPc
  <2>3. ThievesBehindHead'
    BY <1>3, <2>1 DEF PopRead, ThievesBehindHead, Growing, GrowPc
  <2>4. SlotsFilled'
    BY <1>3, <2>1, FieldTypes DEF PopRead, SlotsFilled, PopPc
  <2>5. QED
    BY <2>2, <2>3, <2>4 DEF Unraced
<1>4. CASE PopCas
  <2>1. /\ owner.pc = "popCas" /\ owner'.pos = owner.pos /\ owner.pos = tail
        /\ \/ owner'.pc = "popLast" /\ head = tail /\ head' = head + 1
           \/ owner'.pc = "popFail" /\ owner'.from = head /\ head = tail + 1 /\ head' = head
    BY <1>4, FieldTypes DEF PopCas, GoTo, OwnerType, HeadBeforeTail, InBounds, PopPc
  <2>2. HeadBeforeTail'
    BY <1>4, <2>1, FieldTypes DEF PopCas, HeadBeforeTail, PopPc
  <2>3. ThievesBehindHead'
    BY <1>4, <2>1, FieldTypes DEF PopCas, ThievesBehindHead, Growing, GrowPc
  <2>4. SlotsFilled'
    BY <1>4, <2>1, FieldTypes DEF PopCas, SlotsFilled, PopPc
  <2>5. QED
    BY <2>2, <2>3, <2>4 DEF Unraced
<1>5. CASE PopLast
  <2>1. /\ owner.pc = "popLast" /\ owner'.pc = "popTail"
        /\ owner'.pos = owner.pos /\ owner'.from = owner.from
    BY <1>5, FieldTypes DEF PopLast, GoTo, OwnerType
  <2>2. HeadBeforeTail'
    BY <1>5, <2>1 DEF PopLast, HeadBeforeTail, PopPc
  <2>3. ThievesBehindHead'
    BY <1>5, <2>1 DEF PopLast, ThievesBehindHead, Growing, GrowPc
  <2>4. SlotsFilled'
    BY <1>5, <2>1 DEF PopLast, SlotsFilled, PopPc
  <2>5. QED
    BY <2>2, <2>3, <2>4 DEF Unraced
<1>6. CASE PopLastTail \/ PopFail
  <2>1. /\ owner.pc \in {"popTail", "popFail"} /\ owner'.pc = "idle"
        /\ tail' = head /\ head = tail + 1 /\ UNCHANGED <<head, thief, size, queue>>
    BY <1>6, FieldTypes DEF PopLastTail, PopFail, Return, OwnerIdle, HeadBeforeTail, InBounds,
       PopPc
  <2>2. HeadBeforeTail'
    BY <2>1, FieldTypes DEF HeadBeforeTail, PopPc
  <2>3. ThievesBehindHead'
    BY <2>1, FieldTypes DEF ThievesBehindHead, Growing, GrowPc
  <2>4. \A k \in 0 .. size - 1 : k <= tail => queue[k] # NoJob
    BY <2>1 DEF SlotsFilled, PopPc
  <2>5. SlotsFilled'
    BY <2>1, <2>4, FieldTypes DEF SlotsFilled, PopPc
  <2>6. QED
    BY <2>2, <2>3, <2>5 DEF Unraced
<1>7. QED
  BY <1>1, <1>2, <1>3, <1>4, <1>5, <1>6 DEF Pop

(* steal().  The CAS succeeds only on a job that is in the deque, or on the  *)
(* last one, before the owner's own CAS.                                     *)
LEMMA UnracedSteal ==
  ASSUME BoundsInv, BoundsInv', Unraced, ~raced', NEW t \in Thieves, Steal(t)
  PROVE  Unraced'
<1>0. TypeOK /\ InBounds /\ HeadBeforeTail /\ ThievesBehindHead /\ SlotsFilled
  BY DEF BoundsInv, Unraced
<1>. USE <1>0
<1>1. thief'[t] \in [pc : ThiefPc, h : Nat, base : Nat] /\ \A u \in Thieves \ {t} : thief'[u] = thief[u]
  BY DEF BoundsInv, TypeOK, Steal, StealHead, StealTail, StealCas, StealBase, StealRead
<1>2. ~Growing /\ ~Growing' /\ UNCHANGED <<owner, tail, size, queue, pushed>>
  BY DEF Steal, StealHead, StealTail, StealCas, StealBase, StealRead, Growing, ThievesBehindHead,
     TypeOK
<1>3. SlotsFilled'
  BY <1>2 DEF SlotsFilled, Kept
<1>4. CASE StealHead(t)
  <2>1. thief'[t].pc = "tail" /\ thief'[t].h = head /\ head' = head
    BY <1>4 DEF StealHead, TypeOK
  <2>2. HeadBeforeTail'
    BY <1>2, <2>1 DEF HeadBeforeTail, Kept
  <2>3. ThievesBehindHead'
    BY <1>1, <1>2, <2>1, FieldTypes DEF ThievesBehindHead
  <2>4. QED
    BY <1>3, <2>2, <2>3 DEF Unraced
<1>5. CASE StealTail(t)
  <2>1. /\ head' = head /\ thief[t].pc = "tail"
        /\ \/ thief'[t].pc = "cas" /\ thief'[t].h = thief[t].h /\ thief[t].h < tail
           \/ thief'[t].pc = "idle"
    BY <1>5 DEF StealTail, ThiefIdle, TypeOK
  <2>2. HeadBeforeTail'
    BY <1>2, <2>1 DEF HeadBeforeTail, Kept
  <2>3. ThievesBehindHead'
    BY <1>1, <1>2, <2>1, FieldTypes DEF ThievesBehindHead
  <2>4. QED
    BY <1>3, <2>2, <2>3 DEF Unraced
<1>6. CASE StealCas(t)
  <2>0. thief[t].pc = "cas"
    BY <1>6 DEF StealCas
  <2>1. CASE head = thief[t].h
    <3>1. head' = head + 1 /\ thief'[t].pc = "base" /\ thief'[t].h = head
      BY <1>6, <2>1 DEF StealCas, TypeOK
    <3>2. head < tail \/ (head = tail /\ owner.pc \in {"popHead", "popCas"})
      BY <2>0, <2>1, FieldTypes DEF ThievesBehindHead
    <3>3. HeadBeforeTail'
      BY <1>2, <3>1, <3>2, FieldTypes DEF HeadBeforeTail, Kept, PopPc, Growing, GrowPc
    <3>4. ThievesBehindHead'
      BY <1>1, <1>2, <3>1, <3>2, FieldTypes DEF ThievesBehindHead
    <3>5. QED
      BY <1>3, <3>3, <3>4 DEF Unraced
  <2>2. CASE head # thief[t].h
    <3>1. head' = head /\ thief'[t].pc = "idle"
      BY <1>6, <2>2 DEF StealCas, ThiefIdle, TypeOK
    <3>2. HeadBeforeTail'
      BY <1>2, <3>1 DEF HeadBeforeTail, Kept
    <3>3. ThievesBehindHead'
      BY <1>1, <1>2, <3>1 DEF ThievesBehindHead
    <3>4. QED
      BY <1>3, <3>2, <3>3 DEF Unraced
  <2>3. QED
    BY <2>1, <2>2
<1>7. CASE StealBase(t)
  <2>1. /\ head' = head /\ thief[t].pc = "base" /\ thief'[t].pc = "read"
        /\ thief'[t].h = thief[t].h /\ thief'[t].base = size
    BY <1>7 DEF StealBase, TypeOK
  <2>2. HeadBeforeTail'
    BY <1>2, <2>1 DEF HeadBeforeTail, Kept
  <2>3. ThievesBehindHead'
    BY <1>1, <1>2, <2>1 DEF ThievesBehindHead
  <2>4. QED
    BY <1>3, <2>2, <2>3 DEF Unraced
<1>8. CASE StealRead(t)
  <2>1. head' = head /\ thief'[t].pc = "idle"
    BY <1>8 DEF StealRead, ThiefIdle, TypeOK
  <2>2. HeadBeforeTail'
    BY <1>2, <2>1 DEF HeadBeforeTail, Kept
  <2>3. ThievesBehindHead'
    BY <1>1, <1>2, <2>1 DEF ThievesBehindHead
  <2>4. QED
    BY <1>3, <2>2, <2>3 DEF Unraced
<1>9. QED
  BY <1>4, <1>5, <1>6, <1>7, <1>8 DEF Steal

(* A race is remembered.                                                     *)
LEMMA RacedStays == ASSUME [Next]_vars PROVE raced => raced'
<1>1. ASSUME Push PROVE raced => raced'
  BY <1>1 DEF Push, PushFill, PushPublish, PushFull, GrowLoad, GrowCas, GrowShift, GrowShifted,
     GrowResize, GrowWrite, GrowPublish, GrowUnlock
<1>2. ASSUME Pop PROVE raced => raced'
  BY <1>2 DEF Pop, PopTail, PopHead, PopRead, PopCas, PopLast, PopLastTail, PopFail
<1>3. ASSUME NEW t \in Thieves, Steal(t) PROVE raced => raced'
  BY <1>3 DEF Steal, StealHead, StealTail, StealCas, StealBase, StealRead
<1>4. QED
  BY <1>1, <1>2, <1>3 DEF Next, OwnerNext, vars

(* The empty queue satisfies the invariant of the unraced runs.              *)
LEMMA InitIInv == Init => IInv
<1> SUFFICES ASSUME Init PROVE IInv
  OBVIOUS
<1>1. head = 0 /\ tail = 0 /\ owner.pc = "idle" /\ \A t \in Thieves : thief[t].pc = "idle"
  BY DEF Init, OwnerIdle, ThiefIdle
<1>2. HeadBeforeTail /\ ThievesBehindHead
  BY <1>1 DEF HeadBeforeTail, ThievesBehindHead, PopPc, Growing, GrowPc
<1>3. SlotsFilled
  BY <1>1, SizeAssumption DEF SlotsFilled, PopPc, Init
<1>4. QED
  BY <1>2, <1>3, InitBounds DEF IInv, Unraced

(* The inductive step: the bounds whatever races, the rest until it does.    *)
LEMMA NextIInv == IInv /\ [Next]_vars => IInv'
<1> SUFFICES ASSUME IInv, [Next]_vars PROVE IInv'
  OBVIOUS
<1>1. BoundsInv /\ BoundsInv'
  BY NextBounds DEF IInv
<1>2. ASSUME ~raced' PROVE Unraced'
  <2>1. Unraced
    BY <1>2, RacedStays DEF IInv
  <2>2. CASE UNCHANGED vars
    BY <2>1, <2>2 DEF vars, Unraced, HeadBeforeTail, ThievesBehindHead, SlotsFilled, Kept, Growing
  <2>3. QED
    BY <1>1, <1>2, <2>1, <2>2, UnracedPush, UnracedGrow, UnracedPop, UnracedSteal
       DEF Next, OwnerNext, Push
<1>3. QED
  BY <1>1, <1>2 DEF IInv

(* For any jobs, thieves and initial buffer, IInv always holds.              *)
THEOREM Invariance == Spec => []IInv
BY InitIInv, NextIInv, PTL DEF Spec

(* Every slot, index and counter of LockFreeWorkStealingQueue has its type.  *)
THEOREM TypeCorrect == Spec => []TypeOK
BY Invariance, PTL DEF IInv, BoundsInv

(* mQueue[headPos] in steal(): no thief indexes past the buffer it fetched.  *)
THEOREM NoStealOutOfBounds == Spec => []StealsInBounds
BY Invariance, PTL DEF IInv, BoundsInv

(* tailPos - headPos in push() never wraps.                                  *)
THEOREM GrowthNeverWraps == Spec => []GrowthCountsJobs
BY Invariance, PTL DEF IInv, BoundsInv

-----------------------------------------------------------------------------
(* Sequences that differ by one element at an end.                           *)
LEMMA AppendOne ==
  ASSUME NEW S, NEW n \in Nat, NEW s \in [1 .. n -> S], NEW t \in [1 .. n + 1 -> S],
         \A k \in 1 .. n : t[k] = s[k]
  PROVE  t = Append(s, t[n + 1])
<1>1. s \in Seq(S) /\ Len(s) = n /\ t \in Seq(S) /\ Len(t) = n + 1
  BY SeqDef
<1>2. Append(s, t[n + 1]) \in Seq(S) /\ Len(Append(s, t[n + 1])) = n + 1
  BY <1>1
<1>3. \A k \in 1 .. n + 1 : t[k] = Append(s, t[n + 1])[k]
  BY <1>1
<1>4. QED
  BY <1>1, <1>2, <1>3, SeqEqual

(* A sequence one shorter, with the same elements, lacks only the last one:  *)
(* what the store of mTailPos by pop() does to the window.                   *)
LEMMA WithoutLast ==
  ASSUME NEW S, NEW n \in Nat, NEW s \in [1 .. n + 1 -> S], NEW t \in [1 .. n -> S],
         \A k \in 1 .. n : t[k] = s[k]
  PROVE  s # << >> /\ Len(s) = n + 1 /\ t = SubSeq(s, 1, Len(s) - 1)
<1>1. s \in Seq(S) /\ Len(s) = n + 1 /\ t \in Seq(S) /\ Len(t) = n
  BY SeqDef
<1>2. SubSeq(s, 1, n) \in Seq(S) /\ Len(SubSeq(s, 1, n)) = n
  BY <1>1
<1>3. \A k \in 1 .. n : t[k] = SubSeq(s, 1, n)[k]
  BY <1>1
<1>4. t = SubSeq(s, 1, n)
  BY <1>1, <1>2, <1>3, SeqEqual
<1>5. QED
  BY <1>1, <1>4, EmptySeq

(* The window of one job loses it when pop() wins the race for the last job. *)
LEMMA WithoutOnly ==
  ASSUME NEW S, NEW s \in [1 .. 1 -> S], NEW t \in [1 .. 0 -> S]
  PROVE  s # << >> /\ Len(s) = 1 /\ t = SubSeq(s, 1, Len(s) - 1)
<1>0. \A n \in Nat : \A f \in [1 .. n -> S] : f \in Seq(S) /\ Len(f) = n
  BY SeqDef
<1>1. s \in Seq(S) /\ Len(s) = 1 /\ t \in Seq(S) /\ Len(t) = 0
  <2>1. 0 \in Nat /\ 1 \in Nat
    OBVIOUS
  <2>2. QED
    BY <1>0, <2>1
<1>2. SubSeq(s, 1, 0) \in Seq(S) /\ Len(SubSeq(s, 1, 0)) = 0
  BY <1>1
<1>3. t = SubSeq(s, 1, 0)
  BY <1>1, <1>2, SeqEqual
<1>4. QED
  BY <1>1, <1>3, EmptySeq

(* A sequence one shorter, with every element moved down, lacks only the     *)
(* first one: what the compare_exchange of a thief does to the window.       *)
LEMMA WithoutFirst ==
  ASSUME NEW S, NEW n \in Nat, NEW s \in [1 .. n + 1 -> S], NEW t \in [1 .. n -> S],
         \A k \in 1 .. n : t[k] = s[k + 1]
  PROVE  s # << >> /\ Head(s) = s[1] /\ t = Tail(s)
<1>1. s \in Seq(S) /\ Len(s) = n + 1 /\ t \in Seq(S) /\ Len(t) = n
  BY SeqDef
<1>2. s # << >>
  BY <1>1, EmptySeq
<1>3. Tail(s) \in Seq(S) /\ Len(Tail(s)) = n /\ \A k \in 1 .. n : Tail(s)[k] = s[k + 1]
  BY <1>1, <1>2, HeadTailProperties
<1>4. t = Tail(s)
  BY <1>1, <1>3, SeqEqual
<1>5. Head(s) = s[1]
  BY <1>1
<1>6. QED
  BY <1>2, <1>4, <1>5

(* Live and InHand, pc by pc.                                                *)
LEMMA LiveIs ==
  /\ owner.pc \in {"idle", "fill", "growLoad", "growCas", "popRead", "popLast", "popTail",
                   "popFail"} => Live = Window(head, tail - 1)
  /\ owner.pc \in {"popHead", "popCas"} => Live = Window(head, tail)
  /\ owner.pc = "shift" =>
       Live = [k \in 1 .. Kept |-> queue[k - 1 + (IF k <= owner.i THEN 0 ELSE owner.from)]]
  /\ owner.pc \in {"resize", "write", "publish"} => Live = Window(0, Kept - 1)
  /\ owner.pc = "unlock" => Live = Window(0, Kept)
BY DEF Live

(* The same of the next state.                                               *)
LEMMA NextLiveIs ==
  /\ owner'.pc \in {"idle", "fill", "growLoad", "growCas", "popRead", "popLast", "popTail",
                   "popFail"} => Live' = Window(head, tail - 1)'
  /\ owner'.pc \in {"popHead", "popCas"} => Live' = Window(head, tail)'
  /\ owner'.pc = "shift" =>
       Live' = [k \in 1 .. Kept' |->
                  queue'[k - 1 + (IF k <= owner'.i THEN 0 ELSE owner'.from)]]
  /\ owner'.pc \in {"resize", "write", "publish"} => Live' = Window(0, Kept - 1)'
  /\ owner'.pc = "unlock" => Live' = Window(0, Kept)'
BY DEF Live

(* Which job a thread has taken and not yet received, by its program         *)
(* counter.                                                                  *)
LEMMA InHandIs ==
  /\ InHand(Owner) = IF owner.pc = "popRead" THEN queue[owner.pos]
                     ELSE IF owner.pc = "popLast" THEN queue[owner.from] ELSE NoJob
  /\ \A t \in Thieves :
       InHand(t) = IF thief[t].pc \in {"base", "read"} THEN queue[thief[t].h] ELSE NoJob
BY JobsAssumption DEF InHand

(* The same of the next state.                                               *)
LEMMA NextInHandIs ==
  /\ InHand(Owner)' = IF owner'.pc = "popRead" THEN queue'[owner'.pos]
                      ELSE IF owner'.pc = "popLast" THEN queue'[owner'.from] ELSE NoJob
  /\ \A t \in Thieves :
       InHand(t)' = IF thief'[t].pc \in {"base", "read"} THEN queue'[thief'[t].h] ELSE NoJob
BY JobsAssumption DEF InHand

(* The variables of JobDeque that are not variables of the code.             *)
AbsPushed == IF owner.pc \in PushPc \ {"unlock"} THEN pushed - 1 ELSE pushed
AbsHand   == [a \in Takers |-> InHand(a)]

(* How many jobs the abstract deque has accepted, by the program counter of  *)
(* the owner: a push counts once it is visible.                              *)
LEMMA AbsPushedIs ==
  /\ owner.pc \in {"idle", "unlock"} \cup PopPc => AbsPushed = pushed
  /\ owner.pc \in PushPc \ {"unlock"} => AbsPushed = pushed - 1
BY DEF AbsPushed, PushPc, GrowPc, PopPc

(* The same of the next state.                                               *)
LEMMA NextAbsPushedIs ==
  /\ owner'.pc \in {"idle", "unlock"} \cup PopPc => AbsPushed' = pushed'
  /\ owner'.pc \in PushPc \ {"unlock"} => AbsPushed' = pushed' - 1
BY DEF AbsPushed, PushPc, GrowPc, PopPc

(* The number of pushes is bounded by the run.                               *)
LEMMA PushedType == ASSUME TypeOK PROVE pushed \in Nat /\ pushed <= MaxJobs
BY JobsAssumption DEF TypeOK

(* The actions of JobDeque, in these terms.                                  *)
LEMMA DequeSteps ==
  /\ Deque!vars = <<AbsPushed, Live, AbsHand, delivered>>
  /\ Deque!vars' = <<AbsPushed', Live', AbsHand', delivered'>>
  /\ Deque!Push <=>
       /\ AbsPushed < MaxJobs /\ AbsHand[Owner] = NoJob
       /\ AbsPushed' = AbsPushed + 1 /\ Live' = Append(Live, AbsPushed + 1)
       /\ AbsHand' = AbsHand /\ delivered' = delivered
  /\ Deque!TakeBack <=>
       /\ Live # << >> /\ AbsHand[Owner] = NoJob
       /\ AbsHand' = [AbsHand EXCEPT ![Owner] = Live[Len(Live)]]
       /\ Live' = SubSeq(Live, 1, Len(Live) - 1)
       /\ AbsPushed' = AbsPushed /\ delivered' = delivered
  /\ \A t : Deque!TakeFront(t) <=>
       /\ Live # << >> /\ AbsHand[t] = NoJob
       /\ AbsHand' = [AbsHand EXCEPT ![t] = Head(Live)]
       /\ Live' = Tail(Live)
       /\ AbsPushed' = AbsPushed /\ delivered' = delivered
  /\ \A a : Deque!Receive(a) <=>
       /\ AbsHand[a] # NoJob
       /\ delivered' = [delivered EXCEPT ![AbsHand[a]] = @ + 1]
       /\ AbsHand' = [AbsHand EXCEPT ![a] = NoJob]
       /\ AbsPushed' = AbsPushed /\ Live' = Live
<1>. USE DEF AbsPushed, AbsHand, NoJob, Deque!NoJob
<1>1. /\ Deque!vars = <<AbsPushed, Live, AbsHand, delivered>>
      /\ Deque!vars' = <<AbsPushed', Live', AbsHand', delivered'>>
  BY DEF Deque!vars
<1>2. Deque!Push <=>
       /\ AbsPushed < MaxJobs /\ AbsHand[Owner] = NoJob
       /\ AbsPushed' = AbsPushed + 1 /\ Live' = Append(Live, AbsPushed + 1)
       /\ AbsHand' = AbsHand /\ delivered' = delivered
  BY DEF Deque!Push
<1>3. Deque!TakeBack <=>
       /\ Live # << >> /\ AbsHand[Owner] = NoJob
       /\ AbsHand' = [AbsHand EXCEPT ![Owner] = Live[Len(Live)]]
       /\ Live' = SubSeq(Live, 1, Len(Live) - 1)
       /\ AbsPushed' = AbsPushed /\ delivered' = delivered
  BY DEF Deque!TakeBack
<1>4. \A t : Deque!TakeFront(t) <=>
       /\ Live # << >> /\ AbsHand[t] = NoJob
       /\ AbsHand' = [AbsHand EXCEPT ![t] = Head(Live)]
       /\ Live' = Tail(Live)
       /\ AbsPushed' = AbsPushed /\ delivered' = delivered
  BY DEF Deque!TakeFront
<1>5. \A a : Deque!Receive(a) <=>
       /\ AbsHand[a] # NoJob
       /\ delivered' = [delivered EXCEPT ![AbsHand[a]] = @ + 1]
       /\ AbsHand' = [AbsHand EXCEPT ![a] = NoJob]
       /\ AbsPushed' = AbsPushed /\ Live' = Live
  BY DEF Deque!Receive
<1>6. QED
  BY <1>1, <1>2, <1>3, <1>4, <1>5

(* Whose hand changes, and what a stutter is.                                *)
LEMMA HandsStay ==
  ASSUME InHand(Owner)' = InHand(Owner), \A t \in Thieves : InHand(t)' = InHand(t)
  PROVE  AbsHand' = AbsHand
BY DEF AbsHand, Takers

(* When only the owner takes or receives a job, the map of the hands changes *)
(* there alone.                                                              *)
LEMMA OwnerHandChanges ==
  ASSUME NEW j, InHand(Owner)' = j, \A t \in Thieves : InHand(t)' = InHand(t)
  PROVE  AbsHand' = [AbsHand EXCEPT ![Owner] = j]
BY JobsAssumption DEF AbsHand, Takers

(* When only one thief takes or receives a job, the map of the hands changes *)
(* there alone.                                                              *)
LEMMA ThiefHandChanges ==
  ASSUME NEW t \in Thieves, NEW j, InHand(t)' = j, InHand(Owner)' = InHand(Owner),
         \A u \in Thieves \ {t} : InHand(u)' = InHand(u)
  PROVE  AbsHand' = [AbsHand EXCEPT ![t] = j]
BY JobsAssumption DEF AbsHand, Takers

Stutters == AbsPushed' = AbsPushed /\ Live' = Live /\ AbsHand' = AbsHand /\ delivered' = delivered

(* The shapes the image of a step can have are the steps of JobDeque.        *)
LEMMA DequeNext ==
  \/ Stutters
  \/ Deque!Push
  \/ Deque!TakeBack
  \/ \E t \in Thieves : Deque!TakeFront(t)
  \/ \E a \in Takers : Deque!Receive(a)
  => [Deque!Next]_(Deque!vars)
BY DequeSteps DEF Deque!Next, Deque!Takers, Takers, Stutters

(* push() with room: the store of mTailPos is JobDeque's Push.               *)
LEMMA PushRefines ==
  ASSUME BoundsInv, Unraced, PushFill \/ PushPublish \/ PushFull
  PROVE  Stutters \/ Deque!Push
<1>0. TypeOK /\ InBounds /\ HeadBeforeTail /\ ThievesBehindHead /\ SlotsFilled
  BY DEF BoundsInv, Unraced
<1>. USE <1>0
<1>1. CASE PushFill
  <2>1. /\ owner.pc = "idle" /\ owner'.pc = "fill" /\ head <= tail
        /\ UNCHANGED <<head, tail, size, thief, delivered>> /\ pushed' = pushed + 1
        /\ \A k \in 0 .. size - 1 : k # tail => queue'[k] = queue[k]
    BY <1>1, FieldTypes DEF PushFill, GoTo, OwnerType, HeadBeforeTail, TypeOK
  <2>2. Live' = Live
    <3>1. Live = Window(head, tail - 1) /\ Live' = Window(head, tail - 1)'
      BY <2>1, LiveIs, NextLiveIs
    <3>2. \A k \in 1 .. tail - head : queue'[head + k - 1] = queue[head + k - 1]
      BY <2>1, FieldTypes DEF InBounds
    <3>3. tail - 1 - head + 1 = tail - head
      BY FieldTypes
    <3>4. /\ Live = [k \in 1 .. tail - head |-> queue[head + k - 1]]
          /\ Live' = [k \in 1 .. tail - head |-> queue'[head + k - 1]]
      BY <2>1, <3>1, <3>3 DEF Window
    <3>5. QED
      BY <3>2, <3>4
  <2>3. AbsHand' = AbsHand
    <3>1. InHand(Owner)' = InHand(Owner)
      BY <2>1, InHandIs, NextInHandIs
    <3>2. ASSUME NEW t \in Thieves PROVE InHand(t)' = InHand(t)
      <4>1. thief[t].pc \in {"base", "read"} => thief[t].h \in 0 .. size - 1 /\ thief[t].h # tail
        BY <2>1, FieldTypes DEF ThievesBehindHead, InBounds
      <4>2. QED
        BY <2>1, <4>1, InHandIs, NextInHandIs
    <3>3. QED
      BY <3>1, <3>2, HandsStay
  <2>4. AbsPushed' = AbsPushed
    BY <2>1, AbsPushedIs, NextAbsPushedIs, PushedType DEF PushPc
  <2>5. QED
    BY <2>1, <2>2, <2>3, <2>4 DEF Stutters
<1>2. CASE PushPublish
  <2>1. /\ owner.pc = "fill" /\ owner'.pc = "idle" /\ head <= tail /\ tail' = tail + 1
        /\ UNCHANGED <<head, size, queue, thief, delivered, pushed>> /\ queue[tail] = pushed
        /\ tail < size
    BY <1>2, FieldTypes
       DEF PushPublish, Return, OwnerIdle, HeadBeforeTail, InBounds, SlotsFilled
  <2>2. Live' = Append(Live, pushed)
    <3>1. Live = Window(head, tail - 1) /\ Live' = Window(head, tail - 1)'
      BY <2>1, LiveIs, NextLiveIs
    <3>2. Live = [k \in 1 .. tail - head |-> queue[head + k - 1]]
      BY <3>1, FieldTypes DEF Window
    <3>3. Live' = [k \in 1 .. (tail - head) + 1 |-> queue[head + k - 1]]
      BY <2>1, <3>1, FieldTypes DEF Window
    <3>4. tail - head \in Nat /\ \A k \in 1 .. (tail - head) + 1 :
             queue[head + k - 1] \in Jobs \cup {NoJob}
      BY <2>1, FieldTypes
    <3>5. Live \in [1 .. tail - head -> Jobs \cup {NoJob}]
      BY <3>2, <3>4
    <3>6. Live' \in [1 .. (tail - head) + 1 -> Jobs \cup {NoJob}]
      BY <3>3, <3>4
    <3>7. \A k \in 1 .. tail - head : Live'[k] = Live[k]
      BY <3>2, <3>3, <3>4
    <3>8. Live'[(tail - head) + 1] = pushed
      <4>1. /\ (tail - head) + 1 \in 1 .. (tail - head) + 1
            /\ head + ((tail - head) + 1) - 1 = tail
        BY <3>4, FieldTypes
      <4>2. QED
        BY <2>1, <3>3, <4>1
    <3>9. QED
      BY <3>4, <3>5, <3>6, <3>7, <3>8, AppendOne
  <2>3. InHand(Owner)' = InHand(Owner) /\ \A t \in Thieves : InHand(t)' = InHand(t)
    BY <2>1, InHandIs, NextInHandIs
  <2>4. AbsHand' = AbsHand /\ AbsHand[Owner] = NoJob
    BY <2>1, <2>3, HandsStay, InHandIs DEF AbsHand, Takers
  <2>5. AbsPushed' = AbsPushed + 1 /\ AbsPushed + 1 = pushed /\ AbsPushed < MaxJobs
    BY <2>1, AbsPushedIs, NextAbsPushedIs, PushedType, JobsAssumption DEF PushPc
  <2>6. QED
    BY <2>1, <2>2, <2>4, <2>5, DequeSteps
<1>3. CASE PushFull
  <2>1. /\ owner.pc = "idle" /\ owner'.pc = "growLoad"
        /\ UNCHANGED <<head, tail, size, queue, thief, delivered>> /\ pushed' = pushed + 1
    BY <1>3, FieldTypes DEF PushFull, OwnerType
  <2>2. Live' = Live
    BY <2>1, LiveIs, NextLiveIs DEF Window
  <2>3. AbsHand' = AbsHand
    BY <2>1, InHandIs, NextInHandIs, HandsStay
  <2>4. AbsPushed' = AbsPushed
    BY <2>1, AbsPushedIs, NextAbsPushedIs, PushedType DEF PushPc
  <2>5. QED
    BY <2>1, <2>2, <2>3, <2>4 DEF Stutters
<1>4. QED
  BY <1>1, <1>2, <1>3

(* push() that grows: compacting and doubling the buffer moves no job in the *)
(* deque, and the store of mTailPos is JobDeque's Push.                      *)
LEMMA GrowCasRefines ==
  ASSUME BoundsInv, Unraced, GrowLoad \/ GrowCas
  PROVE  Stutters
<1>0. TypeOK /\ InBounds /\ HeadBeforeTail
  BY DEF BoundsInv, Unraced
<1>. USE <1>0
<1>1. /\ owner.pc \in {"growLoad", "growCas"}
      /\ UNCHANGED <<tail, size, queue, thief, delivered, pushed>>
  BY DEF GrowLoad, GrowCas
<1>2. CASE owner'.pc \in {"growLoad", "growCas"} /\ head' = head
  <2>1. Live' = Live
    BY <1>1, <1>2, LiveIs, NextLiveIs DEF Window
  <2>2. AbsHand' = AbsHand
    BY <1>1, <1>2, InHandIs, NextInHandIs, HandsStay
  <2>3. AbsPushed' = AbsPushed
    BY <1>1, <1>2, AbsPushedIs, NextAbsPushedIs DEF PushPc
  <2>4. QED
    BY <1>1, <2>1, <2>2, <2>3 DEF Stutters
<1>3. CASE /\ owner.pc = "growCas" /\ head = owner.from
           /\ owner' = [owner EXCEPT !.pc = IF owner.from > 0 THEN "shift" ELSE "resize",
                                     !.i = 0]
  <2>1. /\ owner'.pc = (IF owner.from > 0 THEN "shift" ELSE "resize") /\ owner'.i = 0
        /\ owner'.from = head /\ owner'.pos = tail
    BY <1>3, FieldTypes DEF OwnerType, HeadBeforeTail
  <2>2. Live = [k \in 1 .. tail - head |-> queue[head + k - 1]]
    <3>1. Live = Window(head, tail - 1)
      BY <1>3, LiveIs
    <3>2. (tail - 1) - head + 1 = tail - head
      BY FieldTypes
    <3>3. QED
      BY <3>1, <3>2 DEF Window
  <2>3. Live' = Live
    <3>1. CASE owner.from > 0
      <4>1. Live' = [k \in 1 .. tail - head |->
                       queue[k - 1 + (IF k <= owner'.i THEN 0 ELSE head)]]
        BY <1>1, <2>1, <3>1, NextLiveIs DEF Kept
      <4>2. \A k \in 1 .. tail - head :
               k - 1 + (IF k <= owner'.i THEN 0 ELSE head) = head + k - 1
        BY <2>1, FieldTypes
      <4>3. QED
        BY <2>2, <4>1, <4>2
    <3>2. CASE ~(owner.from > 0)
      <4>1. head = 0
        BY <1>3, <3>2, FieldTypes
      <4>2. Live' = [k \in 1 .. tail - head |-> queue[head + k - 1]]
        BY <1>1, <2>1, <3>2, <4>1, NextLiveIs, FieldTypes DEF Kept, Window
      <4>3. QED
        BY <2>2, <4>2
    <3>3. QED
      BY <3>1, <3>2
  <2>4. AbsHand' = AbsHand
    BY <1>1, <2>1, InHandIs, NextInHandIs, HandsStay
  <2>5. AbsPushed' = AbsPushed
    BY <1>1, <2>1, AbsPushedIs, NextAbsPushedIs DEF PushPc, GrowPc
  <2>6. QED
    BY <1>1, <2>3, <2>4, <2>5 DEF Stutters
<1>4. QED
  BY <1>2, <1>3, FieldTypes DEF GrowLoad, GrowCas, GoTo, OwnerType

(* The rest of a growing push moves jobs within the buffer, and the window   *)
(* follows them: no step of JobDeque.                                        *)
LEMMA GrowRefines ==
  ASSUME BoundsInv, Unraced,
         GrowShift \/ GrowShifted \/ GrowResize \/ GrowWrite \/ GrowUnlock
  PROVE  Stutters
<1>0. TypeOK /\ InBounds /\ HeadBeforeTail /\ GrowthCountsJobs
  BY DEF BoundsInv, Unraced
<1>. USE <1>0
<1>1. /\ owner.pc \in GrowPc /\ UNCHANGED <<thief, delivered, pushed>>
      /\ owner'.pc \in GrowPc \cup {"idle"}
  BY FieldTypes DEF GrowShift, GrowShifted, GrowResize, GrowWrite, GrowUnlock, GrowPc, GoTo,
     Return, OwnerIdle, OwnerType
<1>2. AbsHand' = AbsHand
  <2>1. \A t \in Thieves : thief[t].pc = "idle" /\ thief'[t].pc = "idle"
    BY <1>1 DEF Unraced, ThievesBehindHead, Growing
  <2>2. QED
    BY <1>1, <2>1, InHandIs, NextInHandIs, HandsStay DEF GrowPc
<1>3. Kept \in Nat /\ Kept <= owner.pos /\ Kept = owner.pos - owner.from
  BY <1>1, FieldTypes DEF GrowthCountsJobs, Growing, Kept
<1>4. CASE GrowShift
  <2>1. /\ owner.pc = "shift" /\ owner'.pc = "shift" /\ owner'.i = owner.i + 1
        /\ owner'.from = owner.from /\ Kept' = Kept /\ owner.i < Kept
        /\ owner.i \in 0 .. size - 1
    BY <1>3, <1>4, FieldTypes DEF GrowShift, OwnerType, Kept, InBounds
  <2>2. Live = [k \in 1 .. Kept |->
                  queue[k - 1 + (IF k <= owner.i THEN 0 ELSE owner.from)]]
    BY <2>1, LiveIs
  <2>3. Live' = [k \in 1 .. Kept |->
                   queue'[k - 1 + (IF k <= owner.i + 1 THEN 0 ELSE owner.from)]]
    BY <2>1, NextLiveIs
  <2>4. \A j \in 0 .. size - 1 :
           queue'[j] = IF j = owner.i THEN queue[owner.i + owner.from] ELSE queue[j]
    BY <1>4 DEF GrowShift, TypeOK
  <2>5. ASSUME NEW k \in 1 .. Kept
        PROVE  queue'[k - 1 + (IF k <= owner.i + 1 THEN 0 ELSE owner.from)]
                 = queue[k - 1 + (IF k <= owner.i THEN 0 ELSE owner.from)]
    <3>1. k \in Int /\ k - 1 \in 0 .. size - 1 /\ k - 1 + owner.from \in 0 .. size - 1
      BY <1>3, <2>1, FieldTypes DEF InBounds
    <3>2. CASE k <= owner.i
      BY <2>4, <3>1, <3>2, FieldTypes
    <3>3. CASE k = owner.i + 1
      BY <2>4, <3>1, <3>3, FieldTypes
    <3>4. CASE k > owner.i + 1
      BY <2>4, <3>1, <3>4, FieldTypes
    <3>5. QED
      BY <3>1, <3>2, <3>3, <3>4, FieldTypes
  <2>6. Live' = Live
    BY <2>2, <2>3, <2>5
  <2>7. AbsPushed' = AbsPushed
    BY <1>1, <2>1, AbsPushedIs, NextAbsPushedIs DEF PushPc, GrowPc
  <2>8. QED
    BY <1>1, <1>2, <2>6, <2>7 DEF Stutters
<1>5. CASE GrowShifted
  <2>1. /\ owner.pc = "shift" /\ owner'.pc = "resize" /\ owner.i >= Kept /\ Kept' = Kept
        /\ queue' = queue
    BY <1>5, FieldTypes DEF GrowShifted, GoTo, OwnerType, Kept
  <2>2. Live = [k \in 1 .. Kept |->
                  queue[k - 1 + (IF k <= owner.i THEN 0 ELSE owner.from)]]
    BY <2>1, LiveIs
  <2>3. Live' = [k \in 1 .. Kept |-> queue[0 + k - 1]]
    BY <1>3, <2>1, NextLiveIs DEF Window
  <2>4. \A k \in 1 .. Kept : k - 1 + (IF k <= owner.i THEN 0 ELSE owner.from) = 0 + k - 1
    BY <1>3, <2>1, FieldTypes
  <2>5. Live' = Live
    BY <2>2, <2>3, <2>4
  <2>6. AbsPushed' = AbsPushed
    BY <1>1, <2>1, AbsPushedIs, NextAbsPushedIs DEF PushPc, GrowPc
  <2>7. QED
    BY <1>1, <1>2, <2>5, <2>6 DEF Stutters
<1>6. CASE GrowResize \/ GrowWrite
  <2>1. /\ owner.pc \in {"resize", "write"} /\ owner'.pc \in {"write", "publish"}
        /\ Kept' = Kept /\ Kept <= size /\ (GrowWrite => Kept \in 0 .. size - 1)
    <3>1. owner.pc \in {"resize", "write"} /\ owner'.pc \in {"write", "publish"} /\ Kept' = Kept
      BY <1>6, FieldTypes DEF GrowResize, GrowWrite, GoTo, OwnerType, Kept
    <3>2. Kept <= size /\ (GrowWrite => Kept \in 0 .. size - 1)
      BY <1>3, <1>6, <3>1, FieldTypes DEF GrowWrite, Kept, InBounds
    <3>3. QED
      BY <3>1, <3>2
  <2>0. (Kept - 1) - 0 + 1 = Kept
    BY <1>3
  <2>2. Live = [k \in 1 .. Kept |-> queue[0 + k - 1]]
    <3>1. Live = Window(0, Kept - 1)
      BY <2>1, LiveIs
    <3>2. QED
      BY <2>0, <3>1 DEF Window
  <2>3. Live' = [k \in 1 .. Kept |-> queue'[0 + k - 1]]
    <3>1. Live' = Window(0, Kept - 1)'
      BY <2>1, NextLiveIs
    <3>2. QED
      BY <2>0, <2>1, <3>1 DEF Window
  <2>4. \A j \in 0 .. size - 1 : j < Kept => queue'[j] = queue[j]
    <3>1. CASE GrowResize
      <4>1. queue' = [j \in 0 .. 2 * size - 1 |-> IF j < size THEN queue[j] ELSE NoJob]
        BY <3>1 DEF GrowResize
      <4>2. size \in Nat
        BY FieldTypes
      <4>3. \A j \in 0 .. size - 1 : j \in 0 .. 2 * size - 1 /\ j < size
        BY <4>2
      <4>4. QED
        BY <4>1, <4>3
    <3>2. CASE GrowWrite
      BY <1>3, <2>1, <3>2, FieldTypes DEF GrowWrite, TypeOK
    <3>3. QED
      BY <1>6, <3>1, <3>2
  <2>5. \A k \in 1 .. Kept : queue'[0 + k - 1] = queue[0 + k - 1]
    BY <1>3, <2>1, <2>4, FieldTypes
  <2>6. Live' = Live
    BY <2>2, <2>3, <2>5
  <2>7. AbsPushed' = AbsPushed
    BY <1>1, <2>1, AbsPushedIs, NextAbsPushedIs DEF PushPc, GrowPc
  <2>8. QED
    BY <1>1, <1>2, <2>6, <2>7 DEF Stutters
<1>7. CASE GrowUnlock
  <2>1. /\ owner.pc = "unlock" /\ owner'.pc = "idle" /\ tail = Kept + 1 /\ head' = 0
        /\ UNCHANGED <<tail, queue>>
    BY <1>7, FieldTypes DEF GrowUnlock, Return, OwnerIdle, HeadBeforeTail
  <2>2. Live' = Live
    BY <1>3, <2>1, LiveIs, NextLiveIs DEF Window
  <2>3. AbsPushed' = AbsPushed
    BY <1>1, <2>1, AbsPushedIs, NextAbsPushedIs DEF PushPc, GrowPc
  <2>4. QED
    BY <1>1, <1>2, <2>2, <2>3 DEF Stutters
<1>8. QED
  BY <1>4, <1>5, <1>6, <1>7

(* The store of mTailPos after growing makes the job visible.                *)
LEMMA GrowPublishRefines ==
  ASSUME BoundsInv, Unraced, GrowPublish
  PROVE  Deque!Push
<1>0. TypeOK /\ InBounds /\ SlotsFilled /\ GrowthCountsJobs
  BY DEF BoundsInv, Unraced
<1>. USE <1>0
<1>1. /\ owner.pc = "publish" /\ owner'.pc = "unlock" /\ Kept' = Kept
      /\ UNCHANGED <<queue, thief, delivered, pushed>> /\ queue[Kept] = pushed
      /\ Kept \in 0 .. size - 1
  BY FieldTypes DEF GrowPublish, GoTo, OwnerType, Kept, InBounds, SlotsFilled, GrowthCountsJobs,
     Growing, GrowPc
<1>2. Live = [k \in 1 .. Kept |-> queue[0 + k - 1]]
  BY <1>1, LiveIs, FieldTypes DEF Window
<1>3. Live' = [k \in 1 .. Kept + 1 |-> queue[0 + k - 1]]
  BY <1>1, NextLiveIs, FieldTypes DEF Window
<1>4. /\ Kept \in Nat /\ Kept + 1 \in 1 .. Kept + 1 /\ 0 + (Kept + 1) - 1 = Kept
      /\ \A k \in 1 .. Kept + 1 : queue[0 + k - 1] \in Jobs \cup {NoJob}
  BY <1>1, FieldTypes
<1>5. Live \in [1 .. Kept -> Jobs \cup {NoJob}]
  BY <1>2, <1>4
<1>6. Live' \in [1 .. Kept + 1 -> Jobs \cup {NoJob}]
  BY <1>3, <1>4
<1>7. \A k \in 1 .. Kept : Live'[k] = Live[k]
  BY <1>2, <1>3, <1>4
<1>8. Live'[Kept + 1] = pushed
  BY <1>1, <1>3, <1>4
<1>9. Live' = Append(Live, pushed)
  BY <1>4, <1>5, <1>6, <1>7, <1>8, AppendOne
<1>10. InHand(Owner)' = InHand(Owner) /\ \A t \in Thieves : InHand(t)' = InHand(t)
  BY <1>1, InHandIs, NextInHandIs
<1>11. AbsHand' = AbsHand /\ AbsHand[Owner] = NoJob
  BY <1>1, <1>10, HandsStay, InHandIs DEF AbsHand, Takers
<1>12. AbsPushed' = AbsPushed + 1 /\ AbsPushed + 1 = pushed /\ AbsPushed < MaxJobs
  BY <1>1, AbsPushedIs, NextAbsPushedIs, PushedType, JobsAssumption DEF PushPc, GrowPc
<1>13. QED
  BY <1>1, <1>9, <1>11, <1>12, DequeSteps

(* pop(): the owner has its job once it has seen the head before it, or has  *)
(* won the CAS for the last one.                                             *)
LEMMA PopRefines ==
  ASSUME BoundsInv, Unraced, Pop
  PROVE  \/ Stutters
         \/ Deque!TakeBack
         \/ \E a \in Takers : Deque!Receive(a)
<1>0. TypeOK /\ InBounds /\ HeadBeforeTail /\ ThievesBehindHead /\ SlotsFilled
  BY DEF BoundsInv, Unraced
<1>. USE <1>0
<1>1. /\ UNCHANGED <<size, queue, thief, pushed>>
      /\ owner.pc \in {"idle"} \cup PopPc /\ owner'.pc \in {"idle"} \cup PopPc
  <2>1. CASE PopRead \/ PopLastTail \/ PopFail
    BY <2>1 DEF PopRead, PopLastTail, PopFail, Return, OwnerIdle, PopPc
  <2>2. CASE PopTail \/ PopHead
    BY <2>2, FieldTypes DEF PopTail, PopHead, PopPc, OwnerType
  <2>3. CASE PopCas \/ PopLast
    BY <2>3, FieldTypes DEF PopCas, PopLast, GoTo, PopPc, OwnerType
  <2>4. QED
    BY <2>1, <2>2, <2>3 DEF Pop
<1>2. AbsPushed' = AbsPushed
  BY <1>1, AbsPushedIs, NextAbsPushedIs
<1>3. \A t \in Thieves : InHand(t)' = InHand(t)
  BY <1>1, InHandIs, NextInHandIs
<1>4. Owner \in Takers /\ AbsHand[Owner] = InHand(Owner)
  BY DEF Takers, AbsHand
<1>5. CASE PopTail
  <2>1. /\ owner.pc = "idle" /\ owner'.pc = "popHead" /\ tail' = tail - 1
        /\ UNCHANGED <<head, delivered>>
    BY <1>5, FieldTypes DEF PopTail, OwnerType
  <2>2. Live' = Live
    BY <1>1, <2>1, LiveIs, NextLiveIs, FieldTypes DEF Window
  <2>3. AbsHand' = AbsHand
    BY <1>3, <2>1, InHandIs, NextInHandIs, HandsStay
  <2>4. QED
    BY <1>2, <2>1, <2>2, <2>3 DEF Stutters
<1>6. CASE PopHead
  <2>1. /\ owner.pc = "popHead" /\ UNCHANGED <<head, tail, delivered>>
        /\ owner'.pos = owner.pos /\ owner.pos = tail
        /\ \/ owner'.pc = "popFail" /\ tail < head /\ head <= tail + 1
           \/ owner'.pc = "popRead" /\ head < tail
           \/ owner'.pc = "popCas"
    BY <1>6, FieldTypes DEF PopHead, OwnerType, HeadBeforeTail, PopPc
  <2>2. CASE owner'.pc = "popCas"
    <3>1. Live' = Live
      <4>1. Live = Window(head, tail) /\ Live' = Window(head, tail)'
        BY <2>1, <2>2, LiveIs, NextLiveIs
      <4>2. QED
        BY <1>1, <2>1, <4>1 DEF Window
    <3>2. AbsHand' = AbsHand
      BY <1>3, <2>1, <2>2, InHandIs, NextInHandIs, HandsStay
    <3>3. QED
      BY <1>2, <2>1, <3>1, <3>2 DEF Stutters
  <2>3. CASE owner'.pc = "popFail"
    <3>1. head = tail + 1
      BY <2>1, <2>3, FieldTypes
    <3>2. Live = [k \in 1 .. tail - head + 1 |-> queue[head + k - 1]]
      BY <2>1, LiveIs DEF Window
    <3>3. Live' = [k \in 1 .. tail - 1 - head + 1 |-> queue[head + k - 1]]
      BY <1>1, <2>1, <2>3, NextLiveIs DEF Window
    <3>4. 1 .. tail - head + 1 = {} /\ 1 .. tail - 1 - head + 1 = {}
      BY <3>1, FieldTypes
    <3>5. Live' = Live
      BY <3>2, <3>3, <3>4
    <3>6. AbsHand' = AbsHand
      BY <1>3, <2>1, <2>3, InHandIs, NextInHandIs, HandsStay
    <3>7. QED
      BY <1>2, <2>1, <3>5, <3>6 DEF Stutters
  <2>4. CASE owner'.pc = "popRead"
    <3>1. head < tail /\ tail < size
      BY <2>1, <2>4 DEF InBounds, PopPc
    <3>2. Live = [k \in 1 .. (tail - head) + 1 |-> queue[head + k - 1]]
      BY <2>1, LiveIs DEF Window
    <3>3. Live' = [k \in 1 .. tail - head |-> queue[head + k - 1]]
      BY <1>1, <2>1, <2>4, NextLiveIs, FieldTypes DEF Window
    <3>4. /\ tail - head \in Nat /\ (tail - head) + 1 \in 1 .. (tail - head) + 1
          /\ head + ((tail - head) + 1) - 1 = tail
          /\ \A k \in 1 .. (tail - head) + 1 : queue[head + k - 1] \in Jobs \cup {NoJob}
      BY <3>1, FieldTypes
    <3>5. Live \in [1 .. (tail - head) + 1 -> Jobs \cup {NoJob}]
      BY <3>2, <3>4
    <3>6. Live' \in [1 .. tail - head -> Jobs \cup {NoJob}]
      BY <3>3, <3>4
    <3>7. \A k \in 1 .. tail - head : Live'[k] = Live[k]
      BY <3>2, <3>3, <3>4
    <3>8. /\ Live # << >> /\ Len(Live) = (tail - head) + 1
          /\ Live' = SubSeq(Live, 1, Len(Live) - 1)
      BY <3>4, <3>5, <3>6, <3>7, WithoutLast
    <3>9. Live[Len(Live)] = queue[tail]
      BY <3>2, <3>4, <3>8
    <3>10. InHand(Owner)' = queue[tail] /\ InHand(Owner) = NoJob
      BY <1>1, <2>1, <2>4, InHandIs, NextInHandIs
    <3>11. AbsHand' = [AbsHand EXCEPT ![Owner] = Live[Len(Live)]]
      BY <1>3, <3>9, <3>10, OwnerHandChanges
    <3>12. QED
      BY <1>2, <1>4, <2>1, <3>8, <3>10, <3>11, DequeSteps
  <2>5. QED
    BY <2>1, <2>2, <2>3, <2>4
<1>7. CASE PopRead \/ PopLast
  <2>1. PICK j \in {owner.pos, owner.from} :
          /\ owner.pc \in {"popRead", "popLast"} /\ owner'.pc \in {"idle", "popTail"}
          /\ InHand(Owner) = queue[j] /\ j \in 0 .. size - 1 /\ j <= tail
          /\ Deliver(queue[j]) /\ UNCHANGED <<head, tail>>
    <3>1. CASE PopRead
      BY <3>1, FieldTypes, InHandIs DEF PopRead, Return, OwnerIdle, InBounds, HeadBeforeTail, PopPc
    <3>2. CASE PopLast
      <4>1. owner.pc = "popLast" /\ owner.from = tail /\ tail < size
        BY <3>2 DEF PopLast, InBounds, HeadBeforeTail, PopPc
      <4>2. QED
        BY <3>2, <4>1, FieldTypes, InHandIs DEF PopLast, GoTo, OwnerType
    <3>3. QED
      BY <1>7, <3>1, <3>2
  <2>2. InHand(Owner) # NoJob
    BY <2>1 DEF SlotsFilled, PopPc
  <2>3. Live' = Live
    BY <1>1, <2>1, LiveIs, NextLiveIs DEF Window
  <2>4. InHand(Owner)' = NoJob
    BY <2>1, NextInHandIs
  <2>5. AbsHand' = [AbsHand EXCEPT ![Owner] = NoJob]
    BY <1>3, <2>4, OwnerHandChanges
  <2>6. delivered' = [delivered EXCEPT ![AbsHand[Owner]] = @ + 1]
    BY <1>4, <2>1 DEF Deliver
  <2>7. Deque!Receive(Owner)
    BY <1>2, <1>4, <2>2, <2>3, <2>5, <2>6, DequeSteps
  <2>8. QED
    BY <1>4, <2>7
<1>8. CASE PopCas
  <2>1. owner.pc = "popCas" /\ owner.pos = tail /\ owner.from = tail /\ tail < size
    BY <1>8 DEF PopCas, InBounds, HeadBeforeTail, PopPc
  <2>2. Live = [k \in 1 .. tail - head + 1 |-> queue[head + k - 1]]
    BY <2>1, LiveIs DEF Window
  <2>3. CASE head = owner.from
    <3>1. /\ owner'.pc = "popLast" /\ owner'.from = owner.from /\ head' = tail + 1
          /\ UNCHANGED <<tail, delivered>> /\ head = tail
      BY <1>8, <2>1, <2>3, FieldTypes DEF PopCas, GoTo, OwnerType
    <3>2. Live' = [k \in 1 .. tail - 1 - head' + 1 |-> queue[head' + k - 1]]
      BY <1>1, <3>1, NextLiveIs DEF Window
    <3>3. /\ tail - head + 1 = 1 /\ 1 .. tail - 1 - head' + 1 = {} /\ 1 .. 0 = {}
          /\ 1 .. 1 = {1} /\ head + 1 - 1 = tail /\ tail \in 0 .. size - 1
      BY <2>1, <3>1, FieldTypes
    <3>4. Live = [k \in {1} |-> queue[head + k - 1]]
      BY <2>2, <3>3
    <3>5. Live[1] = queue[tail] /\ queue[tail] \in Jobs \cup {NoJob}
      BY <3>3, <3>4, FieldTypes
    <3>6. Live \in [1 .. 1 -> Jobs \cup {NoJob}]
      BY <3>3, <3>4, <3>5
    <3>7. Live' \in [1 .. 0 -> Jobs \cup {NoJob}]
      BY <3>2, <3>3
    <3>8. /\ Live # << >> /\ Len(Live) = 1
          /\ Live' = SubSeq(Live, 1, Len(Live) - 1)
      BY <3>6, <3>7, WithoutOnly
    <3>9. InHand(Owner)' = queue[tail] /\ InHand(Owner) = NoJob
      BY <1>1, <2>1, <3>1, InHandIs, NextInHandIs
    <3>10. AbsHand' = [AbsHand EXCEPT ![Owner] = Live[Len(Live)]]
      BY <1>3, <3>5, <3>8, <3>9, OwnerHandChanges
    <3>11. QED
      BY <1>2, <1>4, <3>1, <3>8, <3>9, <3>10, DequeSteps
  <2>4. CASE head # owner.from
    <3>1. owner'.pc = "popFail" /\ UNCHANGED <<head, tail, delivered>> /\ head = tail + 1
      BY <1>8, <2>1, <2>4, FieldTypes DEF PopCas, OwnerType, HeadBeforeTail
    <3>2. Live' = [k \in 1 .. tail - 1 - head + 1 |-> queue[head + k - 1]]
      BY <1>1, <3>1, NextLiveIs DEF Window
    <3>3. 1 .. tail - head + 1 = {} /\ 1 .. tail - 1 - head + 1 = {}
      BY <3>1, FieldTypes
    <3>4. Live' = Live
      BY <2>2, <3>2, <3>3
    <3>5. AbsHand' = AbsHand
      BY <1>3, <2>1, <3>1, InHandIs, NextInHandIs, HandsStay
    <3>6. QED
      BY <1>2, <3>1, <3>4, <3>5 DEF Stutters
  <2>5. QED
    BY <2>3, <2>4
<1>9. CASE PopLastTail \/ PopFail
  <2>1. /\ owner.pc \in {"popTail", "popFail"} /\ owner'.pc = "idle" /\ tail' = head
        /\ head = tail + 1 /\ UNCHANGED <<head, delivered>>
    BY <1>9, FieldTypes DEF PopLastTail, PopFail, Return, OwnerIdle, InBounds, HeadBeforeTail,
       PopPc
  <2>2. /\ Live = [k \in 1 .. tail - 1 - head + 1 |-> queue[head + k - 1]]
        /\ Live' = [k \in 1 .. head - 1 - head + 1 |-> queue[head + k - 1]]
    BY <1>1, <2>1, LiveIs, NextLiveIs DEF Window
  <2>3. 1 .. tail - 1 - head + 1 = {} /\ 1 .. head - 1 - head + 1 = {}
    BY <2>1, FieldTypes
  <2>4. Live' = Live
    BY <2>2, <2>3
  <2>5. AbsHand' = AbsHand
    BY <1>3, <2>1, InHandIs, NextInHandIs, HandsStay
  <2>6. QED
    BY <1>2, <2>1, <2>4, <2>5 DEF Stutters
<1>10. QED
  BY <1>5, <1>6, <1>7, <1>8, <1>9 DEF Pop

(* steal(): the CAS of mHeadPos takes the oldest job, the read receives it.  *)
LEMMA StealRefines ==
  ASSUME BoundsInv, Unraced, ~raced', NEW t \in Thieves, Steal(t)
  PROVE  \/ Stutters
         \/ \E u \in Thieves : Deque!TakeFront(u)
         \/ \E a \in Takers : Deque!Receive(a)
<1>0. TypeOK /\ InBounds /\ HeadBeforeTail /\ ThievesBehindHead /\ SlotsFilled
  BY DEF BoundsInv, Unraced
<1>. USE <1>0
<1>1. /\ UNCHANGED <<owner, tail, size, queue, pushed>>
      /\ \A u \in Thieves \ {t} : thief'[u] = thief[u]
  BY DEF Steal, StealHead, StealTail, StealCas, StealBase, StealRead, TypeOK
<1>2. AbsPushed' = AbsPushed
  BY <1>1 DEF AbsPushed
<1>3. InHand(Owner)' = InHand(Owner) /\ \A u \in Thieves \ {t} : InHand(u)' = InHand(u)
  BY <1>1, InHandIs, NextInHandIs
<1>4. t \in Takers /\ AbsHand[t] = InHand(t)
  BY DEF Takers, AbsHand
<1>5. ASSUME head' = head PROVE Live' = Live
  BY <1>1, <1>5 DEF Live, Window, Kept
<1>6. CASE \/ StealHead(t) \/ StealTail(t) \/ StealBase(t)
           \/ StealCas(t) /\ head # thief[t].h
  <2>1. /\ UNCHANGED <<head, delivered>>
        /\ \/ thief[t].pc = "base" /\ thief'[t].pc = "read" /\ thief'[t].h = thief[t].h
           \/ /\ thief[t].pc \in {"idle", "tail", "cas"}
              /\ thief'[t].pc \in {"idle", "tail", "cas"}
    BY <1>6 DEF StealHead, StealTail, StealBase, StealCas, ThiefIdle, TypeOK
  <2>2. InHand(t)' = InHand(t)
    BY <1>1, <2>1, InHandIs, NextInHandIs
  <2>3. AbsHand' = AbsHand
    BY <1>3, <2>2, HandsStay
  <2>4. QED
    BY <1>2, <1>5, <2>1, <2>3 DEF Stutters
<1>7. CASE StealCas(t) /\ head = thief[t].h
  <2>1. /\ thief[t].pc = "cas" /\ thief'[t].pc = "base" /\ thief'[t].h = head
        /\ head' = head + 1 /\ delivered' = delivered
    BY <1>7 DEF StealCas, TypeOK
  <2>2. owner.pc \in {"idle", "fill", "growLoad", "growCas"} \cup PopPc
    BY <2>1 DEF ThievesBehindHead, Growing, TypeOK, OwnerPc, PushPc
  <2>3. PICK n \in Nat :
          /\ Live = [k \in 1 .. n + 1 |-> queue[head + k - 1]]
          /\ Live' = [k \in 1 .. n |-> queue[head + 1 + k - 1]]
          /\ head + n < size
    <3>1. CASE owner.pc \in {"popHead", "popCas"}
      <4>1. head <= tail /\ tail < size
        BY <1>7, <2>1, <3>1, FieldTypes DEF ThievesBehindHead, InBounds, HeadBeforeTail, PopPc
      <4>2. Live = Window(head, tail) /\ Live' = Window(head, tail)'
        BY <1>1, <3>1, LiveIs, NextLiveIs
      <4>3. /\ Live = [k \in 1 .. (tail - head) + 1 |-> queue[head + k - 1]]
            /\ Live' = [k \in 1 .. tail - head |-> queue[head + 1 + k - 1]]
        BY <1>1, <2>1, <4>2, FieldTypes DEF Window
      <4>4. tail - head \in Nat /\ head + (tail - head) < size
        BY <4>1, FieldTypes
      <4>5. QED
        BY <4>3, <4>4
    <3>2. CASE owner.pc \notin {"popHead", "popCas"}
      <4>1. head < tail /\ tail <= size
        BY <1>7, <2>1, <3>2, FieldTypes DEF ThievesBehindHead, InBounds
      <4>2. Live = Window(head, tail - 1) /\ Live' = Window(head, tail - 1)'
        BY <1>1, <2>2, <3>2, LiveIs, NextLiveIs DEF PopPc
      <4>3. /\ Live = [k \in 1 .. (tail - 1 - head) + 1 |-> queue[head + k - 1]]
            /\ Live' = [k \in 1 .. tail - 1 - head |-> queue[head + 1 + k - 1]]
        BY <1>1, <2>1, <4>2, FieldTypes DEF Window
      <4>4. tail - 1 - head \in Nat /\ head + (tail - 1 - head) < size
        BY <4>1, FieldTypes
      <4>5. QED
        BY <4>3, <4>4
    <3>3. QED
      BY <3>1, <3>2
  <2>4. /\ \A k \in 1 .. n + 1 : queue[head + k - 1] \in Jobs \cup {NoJob}
        /\ \A k \in 1 .. n : k + 1 \in 1 .. n + 1 /\ head + 1 + k - 1 = head + (k + 1) - 1
        /\ 1 \in 1 .. n + 1 /\ head + 1 - 1 = head
    <3>1. head \in Nat /\ size \in Nat /\ n \in Nat /\ head + n < size
      BY <2>3, FieldTypes
    <3>2. /\ \A k \in 1 .. n + 1 : head + k - 1 \in 0 .. size - 1
          /\ \A k \in 1 .. n : k + 1 \in 1 .. n + 1 /\ head + 1 + k - 1 = head + (k + 1) - 1
          /\ 1 \in 1 .. n + 1 /\ head + 1 - 1 = head
      BY <3>1
    <3>3. QED
      BY <3>2, FieldTypes
  <2>5. Live \in [1 .. n + 1 -> Jobs \cup {NoJob}]
    BY <2>3, <2>4
  <2>6. Live' \in [1 .. n -> Jobs \cup {NoJob}] /\ \A k \in 1 .. n : Live'[k] = Live[k + 1]
    BY <2>3, <2>4
  <2>7. Live # << >> /\ Head(Live) = Live[1] /\ Live' = Tail(Live)
    BY <2>5, <2>6, WithoutFirst
  <2>8. Live[1] = queue[head]
    BY <2>3, <2>4
  <2>9. InHand(t)' = queue[head] /\ InHand(t) = NoJob
    BY <1>1, <2>1, InHandIs, NextInHandIs
  <2>10. AbsHand' = [AbsHand EXCEPT ![t] = Head(Live)]
    BY <1>3, <2>7, <2>8, <2>9, ThiefHandChanges
  <2>11. Deque!TakeFront(t)
    BY <1>2, <1>4, <2>1, <2>7, <2>9, <2>10, DequeSteps
  <2>12. QED
    BY <2>11
<1>8. CASE StealRead(t)
  <2>1. /\ thief[t].pc = "read" /\ thief'[t].pc = "idle" /\ thief[t].base = size
        /\ Deliver(queue[thief[t].h]) /\ head' = head
    BY <1>8 DEF StealRead, ThiefIdle, TypeOK, ThievesBehindHead
  <2>2. InHand(t) = queue[thief[t].h] /\ InHand(t)' = NoJob
    BY <2>1, InHandIs, NextInHandIs
  <2>3. queue[thief[t].h] # NoJob
    <3>1. thief[t].h < head /\ thief[t].h \in 0 .. size - 1
      BY <2>1, FieldTypes DEF ThievesBehindHead, InBounds
    <3>2. owner.pc \in {"idle", "fill", "growLoad", "growCas"} \cup PopPc
      BY <2>1 DEF ThievesBehindHead, Growing, TypeOK, OwnerPc, PushPc
    <3>3. owner.pc \in {"idle", "fill", "growLoad", "growCas", "popRead"} => head <= tail
      BY DEF HeadBeforeTail
    <3>4. owner.pc \in PopPc \ {"popRead"} => head <= tail + 1
      BY FieldTypes DEF HeadBeforeTail, PopPc
    <3>5. CASE owner.pc \in {"idle", "fill", "growLoad", "growCas"}
      BY <3>1, <3>3, <3>5, FieldTypes DEF SlotsFilled
    <3>6. CASE owner.pc \in PopPc
      BY <3>1, <3>3, <3>4, <3>6, FieldTypes DEF SlotsFilled
    <3>7. QED
      BY <3>2, <3>5, <3>6
  <2>4. AbsHand' = [AbsHand EXCEPT ![t] = NoJob]
    BY <1>3, <2>2, ThiefHandChanges
  <2>5. delivered' = [delivered EXCEPT ![AbsHand[t]] = @ + 1]
    BY <1>4, <2>1, <2>2 DEF Deliver
  <2>6. Deque!Receive(t)
    BY <1>2, <1>4, <1>5, <2>1, <2>2, <2>3, <2>4, <2>5, DequeSteps
  <2>7. QED
    BY <1>4, <2>6
<1>9. QED
  BY <1>6, <1>7, <1>8 DEF Steal

-----------------------------------------------------------------------------
(* The empty queue is the empty deque.                                       *)
LEMMA InitDeque == Init => Deque!Init
<1> SUFFICES ASSUME Init PROVE Deque!Init
  OBVIOUS
<1>1. /\ head = 0 /\ tail = 0 /\ pushed = 0 /\ owner.pc = "idle"
      /\ \A t \in Thieves : thief[t].pc = "idle"
  BY DEF Init, OwnerIdle, ThiefIdle
<1>2. Live = << >>
  <2>1. Live = [k \in 1 .. 0 - 1 - 0 + 1 |-> queue[0 + k - 1]]
    BY <1>1, LiveIs DEF Window
  <2>2. 1 .. 0 - 1 - 0 + 1 = {}
    OBVIOUS
  <2>3. QED
    BY <2>1, <2>2
<1>3. \A a \in Takers : InHand(a) = NoJob
  BY <1>1, InHandIs DEF Takers
<1>4. AbsPushed = 0
  BY <1>1, AbsPushedIs
<1>5. delivered = [j \in Jobs \cup {NoJob} |-> 0]
  BY DEF Init
<1>6. QED
  BY <1>2, <1>3, <1>4, <1>5 DEF Deque!Init, Deque!NoJob, Deque!Jobs, Deque!Takers, Takers, NoJob,
     Jobs, AbsPushed

(* An unraced step of the queue is a step of the deque or a stutter.         *)
LEMMA NextDeque == ASSUME IInv, [Next]_vars, ~raced' PROVE [Deque!Next]_(Deque!vars)
<1>1. BoundsInv /\ Unraced
  BY RacedStays DEF IInv
<1>2. CASE UNCHANGED vars
  <2>1. Live' = Live /\ AbsPushed' = AbsPushed /\ AbsHand' = AbsHand /\ delivered' = delivered
    BY <1>2 DEF vars, Live, Window, Kept, AbsPushed, AbsHand, InHand
  <2>2. QED
    BY <2>1, DequeNext DEF Stutters
<1>3. CASE Push
  BY <1>1, <1>3, PushRefines, GrowCasRefines, GrowRefines, GrowPublishRefines, DequeNext DEF Push
<1>4. CASE Pop
  BY <1>1, <1>4, PopRefines, DequeNext
<1>5. ASSUME NEW t \in Thieves, Steal(t) PROVE [Deque!Next]_(Deque!vars)
  BY <1>1, <1>5, StealRefines, DequeNext
<1>6. QED
  BY <1>2, <1>3, <1>4, <1>5 DEF Next, OwnerNext

(* The lock-free queue implements the deque as long as no steal() overlaps a *)
(* growth: for any number of thieves and jobs and any initial buffer.        *)
THEOREM QueueImplementsDeque == Spec => ImplementsDeque
<1>1. IInv /\ [Next]_vars => (~raced' => [Deque!Next]_(Deque!vars))
  BY NextDeque
<1>2. QED
  BY <1>1, InitDeque, Invariance, PTL DEF Spec, ImplementsDeque

-----------------------------------------------------------------------------
(* What JobDequeProofs proves of every deque holds of this one until then.   *)
Proved == INSTANCE JobDequeProofs WITH
  deque     <- Live,
  hand      <- [a \in Takers |-> InHand(a)],
  pushed    <- IF owner.pc \in PushPc \ {"unlock"} THEN pushed - 1 ELSE pushed

DequeInv == ~raced => Proved!IInv

(* Until a steal() overlaps a growth no task is run twice, none that was     *)
(* never pushed is run, and none is lost on its way through the buffer.      *)
THEOREM QueueDeliversOnce == Spec => [](~raced => Deque!DeliveredOnce /\ Deque!NoneLost)
<1>1. Init => DequeInv
  <2>1. Deque!Init => Proved!Init
    BY DEF Deque!Init, Proved!Init, Deque!NoJob, Proved!NoJob, Deque!Jobs, Proved!Jobs,
       Deque!Takers, Proved!Takers
  <2>2. QED
    BY <2>1, InitDeque, JobsAssumption, Proved!InitIInv DEF DequeInv
<1>2. IInv /\ DequeInv /\ [Next]_vars => DequeInv'
  <2>1. [Deque!Next]_(Deque!vars) => [Proved!Next]_(Proved!vars)
    <3>1. Deque!vars = Proved!vars /\ Deque!vars' = Proved!vars'
      BY DEF Deque!vars, Proved!vars
    <3>2. Deque!Next => Proved!Next
      BY DEF Deque!Next, Deque!Push, Deque!TakeBack, Deque!TakeFront, Deque!Receive,
         Deque!NoJob, Deque!Takers,
         Proved!Next, Proved!Push, Proved!TakeBack, Proved!TakeFront, Proved!Receive,
         Proved!NoJob, Proved!Takers
    <3>3. QED
      BY <3>1, <3>2
  <2>2. QED
    BY <2>1, NextDeque, RacedStays, JobsAssumption, Proved!NextIInv DEF DequeInv
<1>3. DequeInv => (~raced => Deque!DeliveredOnce /\ Deque!NoneLost)
  BY DEF DequeInv, Proved!IInv, Proved!DeliveredOnce, Proved!NoneLost, Deque!DeliveredOnce,
     Deque!NoneLost, Deque!NoJob, Proved!NoJob, Deque!Jobs, Proved!Jobs, Deque!Takers,
     Proved!Takers
<1>4. QED
  BY <1>1, <1>2, <1>3, Invariance, PTL DEF Spec
=============================================================================
