-------------------------- MODULE GcCollectorProofs --------------------------
(* Proofs about GcCollector for any objects, any number of waiting           *)
(* collections and any threshold: each object has one owner, and until the   *)
(* first full collection nothing is deleted while the evaluation lasts,      *)
(* because an object is born marked and keeps its mark until it is promoted. *)
EXTENDS GcCollector, FiniteSetTheorems, SequenceTheorems, TLAPS

(* OwnedOnce, owner by owner.                                                *)
Owned ==
  \A o \in Objects :
    \/ o \in fresh \cup freed \cup heap \cup mAllocated \cup job.objs
    \/ \E i \in 1 .. Len(queue) : o \in queue[i].objs
Apart ==
  \A o \in Objects :
    /\ o \in fresh      => o \notin freed \cup heap \cup mAllocated \cup job.objs
    /\ o \in freed      => o \notin heap \cup mAllocated \cup job.objs
    /\ o \in heap       => o \notin mAllocated \cup job.objs
    /\ o \in mAllocated => o \notin job.objs
    /\ \A i \in 1 .. Len(queue) : o \in queue[i].objs =>
         /\ o \notin fresh \cup freed \cup heap \cup mAllocated \cup job.objs
         /\ \A k \in 1 .. Len(queue) : o \in queue[k].objs => i = k

(* Between two jobs the collector has none; an exited one takes none.        *)
JobInProgress ==
  /\ pc \in {"loop", "pop", "exited"} => job = NoJob
  /\ mainPc = "done" => pc = "exited"

(* Nothing refers to an object that was not allocated yet.                   *)
NothingFresh ==
  /\ roots \cap fresh = {}
  /\ \A o \in Objects : refs[o] \cap fresh = {}
(* Once the units are deleted there are no roots and no heaps.               *)
UnitsGone == mainPc # "evaluating" => roots = {} /\ heap = {}

(* An ADT refers to older objects only.                                      *)
OlderFields ==
  mainPc = "evaluating" => \A o \in Objects \ (Arrays \cup heap) : refs[o] \cap heap = {}

(* An object that waits for its first collection is marked, so a young one   *)
(* deletes nothing; what the end deletes only arrays can refer to.           *)
BornMarked ==
  ~fullDone =>
    /\ heap \subseteq marked
    /\ \A i \in 1 .. Len(queue) : queue[i].objs \subseteq marked
    /\ pc \in {"roots", "trace"} \/ (pc = "sweep" /\ ~job.full) => job.objs \subseteq marked
    /\ mainPc = "evaluating" => freed = {}
    /\ mainPc # "done" => \A o \in Objects \ Arrays : refs[o] \cap freed = {}

IInv ==
  /\ TypeOK /\ Owned /\ Apart /\ JobInProgress
  /\ NothingFresh /\ UnitsGone /\ OlderFields /\ BornMarked

-----------------------------------------------------------------------------
(* The queue at its two ends.                                                *)
LEMMA AppendFacts ==
  ASSUME NEW S, NEW q \in Seq(S), NEW x \in S
  PROVE  /\ Append(q, x) \in Seq(S) /\ Len(Append(q, x)) = Len(q) + 1 /\ Len(q) \in Nat
         /\ \A i \in 1 .. Len(q) : Append(q, x)[i] = q[i]
         /\ Append(q, x)[Len(q) + 1] = x
OBVIOUS

(* What popping the front of a queue leaves.                                 *)
LEMMA TailFacts ==
  ASSUME NEW S, NEW q \in Seq(S), q # << >>
  PROVE  /\ Tail(q) \in Seq(S) /\ Len(Tail(q)) = Len(q) - 1 /\ Len(q) \in Nat \ {0}
         /\ \A i \in 1 .. Len(q) - 1 : Tail(q)[i] = q[i + 1]
         /\ Head(q) = q[1] /\ Head(q) \in S
BY HeadTailProperties, EmptySeq

(* A set of objects has a number of elements, which the collector sums.      *)
LEMMA FiniteParts == \A S \in SUBSET Objects : Cardinality(S) \in Nat
BY CollectorAssumption, FS_Subset, FS_CardinalityType

(* Before the first allocation every part holds.                             *)
LEMMA InitIInv == Init => IInv
<1> SUFFICES ASSUME Init PROVE IInv
  OBVIOUS
<1>1. TypeOK
  <2>1. NoJob \in JobType /\ queue \in Seq(JobType)
    BY DEF Init, JobType, NoJob
  <2>2. mCollectOld \in BOOLEAN /\ fullDone \in BOOLEAN
    BY DEF Init
  <2>3. QED
    BY <2>1, <2>2 DEF Init, TypeOK
<1>2. Owned /\ Apart /\ JobInProgress
  BY DEF Init, Owned, Apart, JobInProgress, NoJob
<1>3. NothingFresh /\ UnitsGone /\ OlderFields /\ BornMarked
  BY DEF Init, NothingFresh, UnitsGone, OlderFields, BornMarked, NoJob
<1>4. QED
  BY <1>1, <1>2, <1>3 DEF IInv

-----------------------------------------------------------------------------
(* Types, one step per action.                                               *)
LEMMA MutateTypes == TypeOK /\ Mutate => TypeOK'
<1> SUFFICES ASSUME TypeOK, Mutate PROVE TypeOK'
  OBVIOUS
<1>1. ASSUME NEW o \in Objects, NEW fields \in SUBSET roots, Alloc(o, fields) PROVE TypeOK'
  BY <1>1 DEF TypeOK, Alloc, generation
<1>2. CASE RunGc
  <2>1. [roots |-> {o \in roots : checkAge(o, mCollectOld)}, objs |-> heap,
         full |-> mCollectOld] \in JobType
    BY DEF TypeOK, JobType
  <2>2. queue' \in Seq(JobType)
    BY <1>2, <2>1, AppendFacts DEF RunGc, TypeOK
  <2>3. QED
    BY <1>2, <2>2 DEF RunGc, TypeOK, generation
<1>3. ASSUME NEW o \in roots, Drop(o) PROVE TypeOK'
  BY <1>3 DEF TypeOK, Drop, generation
<1>4. ASSUME NEW o \in roots, NEW x \in Objects, Load(o, x) \/ SetElement(o, x) PROVE TypeOK'
  BY <1>4 DEF TypeOK, Load, SetElement, generation
<1>5. QED
  BY <1>1, <1>2, <1>3, <1>4, CollectorAssumption DEF Mutate, AllocADT, AllocArray

(* The steps of the collector thread keep the types.                         *)
LEMMA CollectTypes == TypeOK /\ Collect => TypeOK'
<1> SUFFICES ASSUME TypeOK, Collect PROVE TypeOK'
  OBVIOUS
<1>. USE DEF mutator, generation
<1>1. CASE CollectorLoop \/ PopNothing
  BY <1>1 DEF CollectorLoop, PopNothing, TypeOK
<1>2. CASE PopJob
  <2>1. job' \in JobType /\ queue' \in Seq(JobType)
    BY <1>2, TailFacts DEF PopJob, TypeOK
  <2>2. QED
    BY <1>2, <2>1 DEF PopJob, TypeOK
<1>3. CASE MarkRoots
  <2>1. job.roots \subseteq Objects
    BY DEF TypeOK, JobType
  <2>2. aliveSize' \in Nat
    BY <1>3, <2>1, FiniteParts DEF MarkRoots
  <2>3. QED
    BY <1>3, <2>1, <2>2 DEF MarkRoots, TypeOK
<1>4. ASSUME NEW o \in Objects, Trace(o) PROVE TypeOK'
  <2>. DEFINE found == {x \in refs[o] \ marked : checkAge(x, job.full)}
  <2>1. found \subseteq Objects
    BY DEF TypeOK
  <2>. HIDE DEF found
  <2>2. marked' = marked \cup found /\ stack' = (stack \ {o}) \cup found
    BY <1>4 DEF Trace, found
  <2>3. aliveSize' \in Nat
    <3>1. aliveSize' = aliveSize + Cardinality(found)
      BY <1>4 DEF Trace, found
    <3>2. QED
      BY <2>1, <3>1, FiniteParts DEF TypeOK
  <2>4. QED
    BY <1>4, <2>1, <2>2, <2>3 DEF Trace, TypeOK
<1>5. CASE Traced
  <2>1. job' \in JobType /\ mAllocated' \subseteq Objects /\ mOldGenSize' \in Nat
    BY <1>5 DEF Traced, TypeOK, JobType
  <2>2. mCollectOld' \in BOOLEAN
    BY <1>5 DEF Traced, TypeOK
  <2>3. QED
    BY <1>5, <2>1, <2>2 DEF Traced, TypeOK
<1>6. CASE Sweep
  <2>1. job' \in JobType /\ freed' \subseteq Objects
    BY <1>6 DEF Sweep, TypeOK, JobType
  <2>2. refs' \in [Objects -> SUBSET Objects]
    BY <1>6 DEF Sweep, TypeOK
  <2>3. fullDone' \in BOOLEAN
    BY <1>6 DEF Sweep, TypeOK, JobType
  <2>4. QED
    BY <1>6, <2>1, <2>2, <2>3 DEF Sweep, TypeOK
<1>7. ASSUME NEW o \in Objects, Promote(o) PROVE TypeOK'
  BY <1>7 DEF Promote, TypeOK
<1>8. CASE Retire
  <2>1. job' \in JobType /\ mAllocated' \subseteq Objects
    BY <1>8 DEF Retire, TypeOK, JobType, NoJob
  <2>2. mOldGenSize' \in Nat /\ aliveSize' \in Nat
    BY <1>8 DEF Retire, TypeOK
  <2>3. mCollectOld' \in BOOLEAN
    BY <1>8 DEF Retire, TypeOK
  <2>4. QED
    BY <1>8, <2>1, <2>2, <2>3 DEF Retire, TypeOK
<1>9. QED
  BY <1>1, <1>2, <1>3, <1>4, <1>5, <1>6, <1>7, <1>8 DEF Collect

(* Deleting the units, quit and the join of the thread keep the types.       *)
LEMMA EndTypes == TypeOK /\ End => TypeOK'
<1> SUFFICES ASSUME TypeOK, End PROVE TypeOK'
  OBVIOUS
<1>. USE DEF mutator, generation
<1>1. ASSUME NEW objs \in SUBSET Objects, Delete(objs)
      PROVE  freed' \subseteq Objects /\ refs' \in [Objects -> SUBSET Objects]
  BY <1>1 DEF Delete, TypeOK
<1>2. CASE DeleteUnits
  BY <1>1, <1>2 DEF DeleteUnits, TypeOK
<1>3. CASE Quit
  BY <1>3 DEF Quit, TypeOK
<1>4. CASE JoinCollector
  BY <1>1, <1>4 DEF JoinCollector, TypeOK
<1>5. QED
  BY <1>2, <1>3, <1>4 DEF End

(* Every step keeps the types.                                               *)
LEMMA NextTypes == TypeOK /\ Next => TypeOK'
BY MutateTypes, CollectTypes, EndTypes DEF Next

-----------------------------------------------------------------------------
(* Owners.  Every step that moves objects moves them from one list to        *)
(* another.                                                                  *)
LEMMA OwnersStay ==
  ASSUME Owned, Apart,
         UNCHANGED <<fresh, freed, heap, mAllocated, queue>>, job'.objs = job.objs
  PROVE  Owned' /\ Apart'
BY DEF Owned, Apart

(* What the evaluator does - allocate, drop roots, fill arrays, hand its     *)
(* young heap to the collector - moves objects between owners and shares     *)
(* none.                                                                     *)
LEMMA MutateOwners == TypeOK /\ Owned /\ Apart /\ Mutate => Owned' /\ Apart'
<1> SUFFICES ASSUME TypeOK, Owned, Apart, Mutate PROVE Owned' /\ Apart'
  OBVIOUS
<1>1. ASSUME NEW o \in Objects, NEW fields \in SUBSET roots, Alloc(o, fields)
      PROVE  Owned' /\ Apart'
  BY <1>1 DEF Alloc, Owned, Apart, generation
<1>2. CASE RunGc
  <2>. DEFINE n == Len(queue) + 1
  <2>1. /\ [roots |-> {o \in roots : checkAge(o, mCollectOld)}, objs |-> heap,
            full |-> mCollectOld] \in JobType
        /\ queue \in Seq(JobType)
    BY DEF TypeOK, JobType
  <2>2. /\ Len(queue') = n /\ Len(queue) \in Nat /\ queue'[n].objs = heap
        /\ \A i \in 1 .. Len(queue) : queue'[i] = queue[i]
    BY <1>2, <2>1, AppendFacts DEF RunGc
  <2>3. heap' = {} /\ UNCHANGED <<fresh, freed, mAllocated, job>>
    BY <1>2 DEF RunGc, generation
  <2>4. \A i \in 1 .. n : i = n \/ i \in 1 .. Len(queue)
    BY <2>2
  <2>. HIDE DEF n
  <2>5. n \in 1 .. n /\ n \notin 1 .. Len(queue) /\ 1 .. Len(queue) \subseteq 1 .. n
    BY <2>2 DEF n
  <2>6. Owned'
    BY <2>2, <2>3, <2>5 DEF Owned
  <2>7. Apart'
    BY <2>2, <2>3, <2>4, <2>5 DEF Apart
  <2>8. QED
    BY <2>6, <2>7
<1>3. ASSUME NEW o \in roots, Drop(o) PROVE Owned' /\ Apart'
  BY <1>3, OwnersStay DEF Drop, generation
<1>4. ASSUME NEW o \in roots, NEW x \in Objects, Load(o, x) \/ SetElement(o, x)
      PROVE  Owned' /\ Apart'
  BY <1>4, OwnersStay DEF Load, SetElement, generation
<1>5. QED
  BY <1>1, <1>2, <1>3, <1>4, CollectorAssumption DEF Mutate, AllocADT, AllocArray

(* A step of the collector thread moves objects between the queue, the job,  *)
(* the collected generation and the deleted, and shares none.                *)
LEMMA CollectOwners ==
  TypeOK /\ JobInProgress /\ Owned /\ Apart /\ Collect => Owned' /\ Apart'
<1> SUFFICES ASSUME TypeOK, JobInProgress, Owned, Apart, Collect PROVE Owned' /\ Apart'
  OBVIOUS
<1>. USE DEF mutator, generation
<1>1. CASE CollectorLoop \/ PopNothing \/ MarkRoots
  BY <1>1, OwnersStay DEF CollectorLoop, PopNothing, MarkRoots
<1>2. CASE PopJob
  <2>1. /\ Len(queue') = Len(queue) - 1 /\ Len(queue) \in Nat \ {0}
        /\ \A i \in 1 .. Len(queue) - 1 : queue'[i] = queue[i + 1]
        /\ job'.objs = queue[1].objs
    BY <1>2, TailFacts DEF PopJob, TypeOK
  <2>2. job.objs = {} /\ UNCHANGED <<fresh, freed, heap, mAllocated>>
    BY <1>2 DEF PopJob, JobInProgress, NoJob
  <2>3. \A i \in 1 .. Len(queue') : /\ i + 1 \in 1 .. Len(queue) /\ i + 1 # 1
                                    /\ queue'[i] = queue[i + 1]
    BY <2>1
  <2>4. \A i \in 1 .. Len(queue) : i = 1 \/ (i - 1 \in 1 .. Len(queue') /\ (i - 1) + 1 = i)
    BY <2>1
  <2>5. 1 \in 1 .. Len(queue) /\ \A i, k \in 1 .. Len(queue') : i + 1 = k + 1 => i = k
    BY <2>1
  <2>6. Owned'
    <3>1. SUFFICES ASSUME NEW o \in Objects
                   PROVE  \/ o \in fresh \cup freed \cup heap \cup mAllocated \cup job'.objs
                          \/ \E i \in 1 .. Len(queue') : o \in queue'[i].objs
      BY <2>2 DEF Owned
    <3>2. CASE o \in fresh \cup freed \cup heap \cup mAllocated
      BY <3>2
    <3>3. CASE \E i \in 1 .. Len(queue) : o \in queue[i].objs
      <4>1. PICK i \in 1 .. Len(queue) : o \in queue[i].objs
        BY <3>3
      <4>2. CASE i = 1
        BY <2>1, <4>1, <4>2
      <4>3. CASE i # 1
        <5>1. i - 1 \in 1 .. Len(queue') /\ (i - 1) + 1 = i
          BY <2>4, <4>3
        <5>2. queue'[i - 1] = queue[i]
          BY <2>3, <5>1
        <5>3. QED
          BY <4>1, <5>1, <5>2
      <4>4. QED
        BY <4>2, <4>3
    <3>4. QED
      BY <2>2, <3>2, <3>3 DEF Owned
  <2>7. Apart'
    <3>1. ASSUME NEW o \in Objects, NEW i \in 1 .. Len(queue'), o \in queue'[i].objs
          PROVE  /\ o \notin fresh \cup freed \cup heap \cup mAllocated \cup job'.objs
                 /\ \A k \in 1 .. Len(queue') : o \in queue'[k].objs => i = k
      <4>1. i + 1 \in 1 .. Len(queue) /\ i + 1 # 1 /\ o \in queue[i + 1].objs
        BY <2>3, <3>1
      <4>2. o \notin fresh \cup freed \cup heap \cup mAllocated
        BY <4>1 DEF Apart
      <4>3. o \notin queue[1].objs
        BY <2>5, <4>1 DEF Apart
      <4>4. ASSUME NEW k \in 1 .. Len(queue'), o \in queue'[k].objs PROVE i = k
        <5>1. k + 1 \in 1 .. Len(queue) /\ o \in queue[k + 1].objs
          BY <2>3, <4>4
        <5>2. i + 1 = k + 1
          BY <4>1, <5>1 DEF Apart
        <5>3. QED
          BY <2>5, <5>2
      <4>5. QED
        BY <2>1, <4>2, <4>3, <4>4
    <3>2. ASSUME NEW o \in Objects, o \in job'.objs
          PROVE  o \notin fresh \cup freed \cup heap \cup mAllocated
      BY <2>1, <2>5, <3>2 DEF Apart
    <3>3. QED
      BY <2>2, <3>1, <3>2 DEF Apart
  <2>8. QED
    BY <2>6, <2>7
<1>3. ASSUME NEW o \in Objects, Trace(o) \/ Promote(o) PROVE Owned' /\ Apart'
  BY <1>3, OwnersStay DEF Trace, Promote
<1>4. CASE Traced
  <2>1. /\ UNCHANGED <<fresh, freed, heap, queue>>
        /\ \/ job'.objs = job.objs \cup mAllocated /\ mAllocated' = {}
           \/ job'.objs = job.objs /\ mAllocated' = mAllocated
    BY <1>4 DEF Traced, TypeOK, JobType
  <2>2. QED
    BY <2>1 DEF Owned, Apart
<1>5. CASE Sweep
  <2>1. /\ UNCHANGED <<fresh, heap, mAllocated, queue>>
        /\ job'.objs = job.objs \cap marked /\ freed' = freed \cup (job.objs \ marked)
    BY <1>5 DEF Sweep, TypeOK, JobType
  <2>2. QED
    BY <2>1 DEF Owned, Apart
<1>6. CASE Retire
  <2>1. /\ UNCHANGED <<fresh, freed, heap, queue>>
        /\ job'.objs = {} /\ mAllocated' = mAllocated \cup job.objs
    BY <1>6 DEF Retire, NoJob
  <2>2. QED
    BY <2>1 DEF Owned, Apart
<1>7. QED
  BY <1>1, <1>2, <1>3, <1>4, <1>5, <1>6 DEF Collect

(* Deleting the units, quit and the join of the thread share none either.    *)
LEMMA EndOwners == TypeOK /\ Owned /\ Apart /\ End => Owned' /\ Apart'
<1> SUFFICES ASSUME TypeOK, Owned, Apart, End PROVE Owned' /\ Apart'
  OBVIOUS
<1>. USE DEF mutator, generation
<1>1. CASE DeleteUnits
  BY <1>1 DEF DeleteUnits, Delete, Owned, Apart
<1>2. CASE Quit
  BY <1>2, OwnersStay DEF Quit
<1>3. CASE JoinCollector
  BY <1>3 DEF JoinCollector, Delete, Owned, Apart
<1>4. QED
  BY <1>1, <1>2, <1>3 DEF End

(* Every step keeps the shape of the job in progress.                        *)
LEMMA NextJob == TypeOK /\ JobInProgress /\ Next => JobInProgress'
<1> SUFFICES ASSUME TypeOK, JobInProgress, Next PROVE JobInProgress'
  OBVIOUS
<1>. USE DEF mutator, generation
<1>1. CASE Mutate
  <2>1. UNCHANGED <<pc, job, mainPc>>
    BY <1>1 DEF Mutate, AllocADT, AllocArray, Alloc, RunGc, Drop, Load, SetElement
  <2>2. QED
    BY <2>1 DEF JobInProgress
<1>2. CASE Collect
  <2>1. /\ mainPc' = mainPc /\ pc # "exited"
        /\ \/ pc = "loop" /\ pc' \in {"exited", "pop"} /\ job' = job
           \/ pc = "pop" /\ pc' = "exited" /\ job' = job
           \/ pc' \in {"roots", "trace", "sweep", "promote"}
           \/ pc' = "loop" /\ job' = NoJob
    <3>1. CASE CollectorLoop \/ PopNothing \/ PopJob \/ MarkRoots \/ Sweep \/ Retire
      BY <3>1 DEF CollectorLoop, PopNothing, PopJob, MarkRoots, Sweep, Retire
    <3>2. CASE Traced \/ \E o \in Objects : Trace(o) \/ Promote(o)
      BY <3>2 DEF Traced, Trace, Promote
    <3>3. QED
      BY <1>2, <3>1, <3>2 DEF Collect
  <2>2. QED
    BY <2>1 DEF JobInProgress
<1>3. CASE End
  BY <1>3 DEF End, DeleteUnits, Quit, JoinCollector, JobInProgress
<1>4. QED
  BY <1>1, <1>2, <1>3 DEF Next

-----------------------------------------------------------------------------
(* What is referred to.                                                      *)
LEMMA NextFresh == TypeOK /\ NothingFresh /\ Next => NothingFresh'
<1> SUFFICES ASSUME TypeOK, NothingFresh, Next PROVE NothingFresh'
  OBVIOUS
<1>. USE DEF mutator, generation
<1>1. ASSUME NEW o \in Objects, NEW fields \in SUBSET roots, Alloc(o, fields)
      PROVE  NothingFresh'
  BY <1>1 DEF Alloc, NothingFresh, TypeOK
<1>2. CASE RunGc
  BY <1>2 DEF RunGc, NothingFresh
<1>3. ASSUME NEW o \in roots, Drop(o) PROVE NothingFresh'
  BY <1>3 DEF Drop, NothingFresh
<1>4. ASSUME NEW o \in roots, NEW x \in Objects, Load(o, x) PROVE NothingFresh'
  BY <1>4 DEF Load, NothingFresh, TypeOK
<1>5. ASSUME NEW o \in roots, NEW x \in Objects, SetElement(o, x) PROVE NothingFresh'
  BY <1>5 DEF SetElement, NothingFresh, TypeOK
<1>6. CASE Sweep
  BY <1>6 DEF Sweep, NothingFresh
<1>7. CASE DeleteUnits \/ JoinCollector
  BY <1>7 DEF DeleteUnits, JoinCollector, Delete, NothingFresh
<1>8. CASE \/ CollectorLoop \/ PopNothing \/ PopJob \/ MarkRoots \/ Traced \/ Retire \/ Quit
           \/ \E o \in Objects : Trace(o) \/ Promote(o)
  <2>1. UNCHANGED <<roots, fresh, refs>>
    BY <1>8 DEF CollectorLoop, PopNothing, PopJob, MarkRoots, Traced, Retire, Quit, Trace, Promote
  <2>2. QED
    BY <2>1 DEF NothingFresh
<1>9. QED
  BY <1>1, <1>2, <1>3, <1>4, <1>5, <1>6, <1>7, <1>8, CollectorAssumption
     DEF Next, Mutate, Collect, End, AllocADT, AllocArray

(* Once the units are deleted, no step brings back a root or a young heap.   *)
LEMMA NextUnits == UnitsGone /\ Next => UnitsGone'
<1> SUFFICES ASSUME UnitsGone, Next PROVE UnitsGone'
  OBVIOUS
<1>. USE DEF mutator, generation
<1>1. CASE mainPc = "evaluating" /\ Mutate
  <2>1. mainPc' = mainPc
    BY <1>1 DEF Mutate, AllocADT, AllocArray, Alloc, RunGc, Drop, Load, SetElement
  <2>2. QED
    BY <1>1, <2>1 DEF UnitsGone
<1>2. CASE Collect
  <2>1. UNCHANGED <<roots, heap, mainPc>>
    BY <1>2 DEF Collect, CollectorLoop, PopNothing, PopJob, MarkRoots, Traced, Sweep, Retire,
       Trace, Promote
  <2>2. QED
    BY <2>1 DEF UnitsGone
<1>3. CASE End
  BY <1>3 DEF End, DeleteUnits, Quit, JoinCollector, UnitsGone
<1>4. QED
  BY <1>1, <1>2, <1>3 DEF Next

(* An ADT outside the young heap never comes to refer to it: its fields were *)
(* filled when it was allocated.                                             *)
LEMMA NextFields ==
  TypeOK /\ NothingFresh /\ OlderFields /\ Next => OlderFields'
<1> SUFFICES ASSUME TypeOK, NothingFresh, OlderFields, Next, mainPc' = "evaluating"
             PROVE  OlderFields'
  BY DEF OlderFields
<1>. USE DEF mutator, generation
<1>1. CASE mainPc = "evaluating" /\ Mutate
  <2>1. ASSUME NEW o \in Objects, NEW fields \in SUBSET roots, Alloc(o, fields)
        PROVE  OlderFields'
    BY <1>1, <2>1 DEF Alloc, NothingFresh, OlderFields, TypeOK
  <2>2. CASE RunGc
    BY <1>1, <2>2 DEF RunGc, OlderFields
  <2>3. ASSUME NEW o \in roots, NEW x \in Objects, Drop(o) \/ Load(o, x) PROVE OlderFields'
    BY <1>1, <2>3 DEF Drop, Load, OlderFields
  <2>4. ASSUME NEW o \in roots, NEW x \in Objects, SetElement(o, x) PROVE OlderFields'
    BY <1>1, <2>4 DEF SetElement, OlderFields, TypeOK
  <2>5. QED
    BY <1>1, <2>1, <2>2, <2>3, <2>4, CollectorAssumption
       DEF Mutate, AllocADT, AllocArray, TypeOK
<1>2. CASE Collect
  <2>1. /\ UNCHANGED <<heap, mainPc>>
        /\ \A o \in Objects : refs'[o] \subseteq refs[o]
    <3>1. CASE Sweep
      BY <3>1 DEF Sweep
    <3>2. CASE ~Sweep
      BY <1>2, <3>2 DEF Collect, CollectorLoop, PopNothing, PopJob, MarkRoots, Traced, Retire,
         Trace, Promote
    <3>3. QED
      BY <3>1, <3>2
  <2>2. QED
    BY <2>1 DEF OlderFields
<1>3. CASE End
  BY <1>3 DEF End, DeleteUnits, Quit, JoinCollector
<1>4. QED
  BY <1>1, <1>2, <1>3 DEF Next

-----------------------------------------------------------------------------
(* Marks.  An object of a heap, of a waiting job or of the job in progress   *)
(* was marked when it was allocated, and Promote is the only step to clear   *)
(* that mark.                                                                *)
LEMMA MutateMarks ==
  TypeOK /\ UnitsGone /\ BornMarked /\ mainPc = "evaluating" /\ Mutate => BornMarked'
<1> SUFFICES ASSUME TypeOK, BornMarked, mainPc = "evaluating", Mutate, ~fullDone'
             PROVE  BornMarked'
  BY DEF BornMarked
<1>. USE DEF mutator, generation
<1>1. UNCHANGED <<fullDone, mainPc, freed, job, pc>> /\ freed = {}
  BY DEF Mutate, AllocADT, AllocArray, Alloc, RunGc, Drop, Load, SetElement, BornMarked
<1>2. ASSUME NEW o \in Objects, NEW fields \in SUBSET roots, Alloc(o, fields)
      PROVE  BornMarked'
  BY <1>1, <1>2 DEF Alloc, BornMarked
<1>3. CASE RunGc
  <2>1. /\ [roots |-> {o \in roots : checkAge(o, mCollectOld)}, objs |-> heap,
            full |-> mCollectOld] \in JobType
        /\ queue \in Seq(JobType)
    BY DEF TypeOK, JobType
  <2>2. /\ Len(queue') = Len(queue) + 1 /\ Len(queue) \in Nat
        /\ queue'[Len(queue) + 1].objs = heap
        /\ \A i \in 1 .. Len(queue) : queue'[i] = queue[i]
    BY <1>3, <2>1, AppendFacts DEF RunGc
  <2>3. \A i \in 1 .. Len(queue') : i = Len(queue) + 1 \/ i \in 1 .. Len(queue)
    BY <2>2
  <2>4. heap' = {} /\ marked' = marked
    BY <1>3 DEF RunGc
  <2>5. \A i \in 1 .. Len(queue') : queue'[i].objs \subseteq marked
    BY <1>1, <2>2, <2>3 DEF BornMarked
  <2>6. QED
    BY <1>1, <2>4, <2>5 DEF BornMarked
<1>4. ASSUME NEW o \in roots, NEW x \in Objects, Drop(o) \/ Load(o, x) \/ SetElement(o, x)
      PROVE  BornMarked'
  <2>1. UNCHANGED <<heap, queue, marked>>
    BY <1>4 DEF Drop, Load, SetElement
  <2>2. QED
    BY <1>1, <2>1 DEF BornMarked
<1>5. QED
  BY <1>2, <1>3, <1>4, CollectorAssumption DEF Mutate, AllocADT, AllocArray, TypeOK

(* A step of the collector keeps what the marks promise before the first     *)
(* full collection.                                                          *)
LEMMA CollectMarks ==
  TypeOK /\ JobInProgress /\ Apart /\ BornMarked /\ Collect => BornMarked'
<1> SUFFICES ASSUME TypeOK, JobInProgress, Apart, BornMarked, Collect, ~fullDone'
             PROVE  BornMarked'
  BY DEF BornMarked
<1>. USE DEF mutator, generation
<1>0. UNCHANGED <<mainPc, heap>> /\ ~fullDone
  <2>1. CASE Sweep
    BY <2>1 DEF Sweep
  <2>2. CASE CollectorLoop \/ PopNothing \/ PopJob \/ MarkRoots \/ Traced \/ Retire
    BY <2>2 DEF CollectorLoop, PopNothing, PopJob, MarkRoots, Traced, Retire
  <2>3. ASSUME NEW o \in Objects, Trace(o) \/ Promote(o)
        PROVE  UNCHANGED <<mainPc, heap>> /\ ~fullDone
    BY <2>3 DEF Trace, Promote
  <2>4. QED
    BY <2>1, <2>2, <2>3 DEF Collect
<1>1. CASE CollectorLoop \/ PopNothing
  <2>1. UNCHANGED <<freed, refs, queue, marked>> /\ pc' \in {"exited", "pop"}
    BY <1>1 DEF CollectorLoop, PopNothing
  <2>2. QED
    BY <1>0, <2>1 DEF BornMarked
<1>2. CASE PopJob
  <2>1. /\ Len(queue') = Len(queue) - 1 /\ Len(queue) \in Nat \ {0}
        /\ \A i \in 1 .. Len(queue) - 1 : queue'[i] = queue[i + 1]
        /\ job' = queue[1] /\ pc' = "roots" /\ UNCHANGED <<freed, refs, marked>>
    BY <1>2, TailFacts DEF PopJob, TypeOK
  <2>2. \A i \in 1 .. Len(queue') : i + 1 \in 1 .. Len(queue) /\ queue'[i] = queue[i + 1]
    BY <2>1
  <2>3. 1 \in 1 .. Len(queue)
    BY <2>1
  <2>4. QED
    BY <1>0, <2>1, <2>2, <2>3 DEF BornMarked
<1>3. CASE MarkRoots \/ \E o \in Objects : Trace(o)
  <2>1. /\ UNCHANGED <<freed, refs, queue, job>> /\ pc' = "trace" /\ pc \in {"roots", "trace"}
        /\ marked \subseteq marked'
    BY <1>3 DEF MarkRoots, Trace
  <2>2. QED
    BY <1>0, <2>1 DEF BornMarked
<1>4. CASE Traced
  <2>1. /\ UNCHANGED <<freed, refs, queue, marked>> /\ pc = "trace" /\ pc' = "sweep"
        /\ job'.full = job.full /\ (~job.full => job' = job)
    BY <1>4 DEF Traced, TypeOK, JobType
  <2>2. QED
    BY <1>0, <2>1 DEF BornMarked
<1>5. CASE Sweep
  <2>1. pc = "sweep" /\ ~job.full /\ pc' = "promote" /\ UNCHANGED <<queue, marked>>
    BY <1>5 DEF Sweep
  <2>2. freed' = freed
    BY <1>0, <1>5, <2>1 DEF Sweep, BornMarked
  <2>3. \A o \in Objects : refs'[o] \subseteq refs[o]
    BY <1>5 DEF Sweep
  <2>4. QED
    BY <1>0, <2>1, <2>2, <2>3 DEF BornMarked
<1>6. ASSUME NEW o \in Objects, Promote(o) PROVE BornMarked'
  <2>1. /\ UNCHANGED <<freed, refs, queue, job>> /\ pc' = "promote" /\ o \in job.objs
        /\ marked' = marked \ {o}
    BY <1>6 DEF Promote
  <2>2. o \notin heap /\ \A i \in 1 .. Len(queue) : o \notin queue[i].objs
    BY <2>1 DEF Apart
  <2>3. QED
    BY <1>0, <2>1, <2>2 DEF BornMarked
<1>7. CASE Retire
  <2>1. UNCHANGED <<freed, refs, queue, marked>> /\ pc' = "loop"
    BY <1>7 DEF Retire
  <2>2. QED
    BY <1>0, <2>1 DEF BornMarked
<1>8. QED
  BY <1>1, <1>2, <1>3, <1>4, <1>5, <1>6, <1>7 DEF Collect

(* The steps of the end keep it.                                             *)
LEMMA EndMarks ==
  TypeOK /\ JobInProgress /\ OlderFields /\ BornMarked /\ End => BornMarked'
<1> SUFFICES ASSUME TypeOK, JobInProgress, OlderFields, BornMarked, End, ~fullDone'
             PROVE  BornMarked'
  BY DEF BornMarked
<1>. USE DEF mutator, generation
<1>1. CASE DeleteUnits
  <2>1. /\ UNCHANGED <<queue, marked, pc, job, fullDone>> /\ heap' = {}
        /\ mainPc = "evaluating" /\ mainPc' = "deleted"
    BY <1>1 DEF DeleteUnits
  <2>2. freed' = heap
    BY <1>1, <2>1 DEF DeleteUnits, Delete, BornMarked
  <2>3. \A o \in Objects \ Arrays : refs'[o] \cap heap = {}
    BY <1>1, <2>1 DEF DeleteUnits, Delete, OlderFields
  <2>4. QED
    BY <2>1, <2>2, <2>3 DEF BornMarked
<1>2. CASE Quit
  <2>1. /\ UNCHANGED <<queue, marked, pc, job, fullDone, heap, freed, refs>>
        /\ mainPc \notin {"evaluating", "done"} /\ mainPc' # "evaluating"
    BY <1>2 DEF Quit
  <2>2. QED
    BY <2>1 DEF BornMarked
<1>3. CASE JoinCollector
  <2>1. UNCHANGED <<queue, marked, pc, job, fullDone, heap>> /\ mainPc' = "done"
    BY <1>3 DEF JoinCollector
  <2>2. QED
    BY <2>1 DEF BornMarked
<1>4. QED
  BY <1>1, <1>2, <1>3 DEF End

(* Every step keeps the inductive invariant.                                 *)
LEMMA NextIInv == IInv /\ [Next]_vars => IInv'
<1> SUFFICES ASSUME IInv, [Next]_vars PROVE IInv'
  OBVIOUS
<1>1. CASE UNCHANGED vars
  BY <1>1 DEF vars, mutator, generation, IInv, TypeOK, Owned, Apart, JobInProgress, NothingFresh,
     UnitsGone, OlderFields, BornMarked
<1>2. CASE Next
  <2>1. TypeOK' /\ JobInProgress' /\ NothingFresh' /\ UnitsGone' /\ OlderFields'
    BY <1>2, NextTypes, NextJob, NextFresh, NextUnits, NextFields DEF IInv
  <2>2. Owned' /\ Apart'
    BY <1>2, MutateOwners, CollectOwners, EndOwners DEF IInv, Next
  <2>3. BornMarked'
    BY <1>2, MutateMarks, CollectMarks, EndMarks DEF IInv, Next
  <2>4. QED
    BY <2>1, <2>2, <2>3 DEF IInv
<1>3. QED
  BY <1>1, <1>2

(* For any objects, any program and any collections, IInv always holds.       *)
THEOREM Invariance == Spec => []IInv
BY InitIInv, NextIInv, PTL DEF Spec

(* The collector's and the mutators' state has its type.                     *)
THEOREM TypeCorrect == Spec => []TypeOK
BY Invariance, PTL DEF IInv

(* Whatever the end of the evaluation deletes, of what the collector still   *)
(* traces only arrays refer to it; while the evaluation lasts, nothing does. *)
THEOREM OnlyArraysMeetDeleted == Spec => []DeletedMetOnlyInArrays
<1>1. IInv => DeletedMetOnlyInArrays
  <2> SUFFICES ASSUME IInv, pc = "trace", ~fullDone, NEW o \in stack, refs[o] \cap freed # {}
               PROVE  o \in Arrays /\ mainPc # "evaluating"
    BY DEF DeletedMetOnlyInArrays
  <2>1. o \in Objects /\ mainPc # "done"
    BY DEF IInv, TypeOK, JobInProgress
  <2>2. QED
    BY <2>1 DEF IInv, BornMarked
<1>2. QED
  BY <1>1, Invariance, PTL

-----------------------------------------------------------------------------
(* OwnedOnce counts the lists an object is in.                               *)
LEMMA OneList ==
  ASSUME TypeOK, Owned, Apart, NEW o \in Objects
  PROVE  Cardinality({i \in 1 .. Len(Lists) : o \in Lists[i]}) = 1
<1>. DEFINE owners == << fresh, freed, heap, mAllocated, job.objs >>
            waiting == [i \in 1 .. Len(queue) |-> queue[i].objs]
            n == Len(queue)
<1>1. n \in Nat /\ \A i \in 1 .. n : queue[i].objs \in SUBSET Objects
  <2>1. queue \in Seq(JobType)
    BY DEF TypeOK
  <2>2. n \in Nat /\ \A i \in 1 .. n : queue[i] \in JobType
    BY <2>1, LenProperties, ElementOfSeq
  <2>3. \A q \in JobType : q.objs \in SUBSET Objects
    BY DEF JobType
  <2>4. QED
    BY <2>2, <2>3
<1>2. owners \in Seq(SUBSET Objects) /\ Len(owners) = 5
  <2>1. {fresh, freed, heap, mAllocated, job.objs} \subseteq SUBSET Objects
    BY DEF TypeOK, JobType
  <2>2. QED
    BY <2>1
<1>3. waiting \in Seq(SUBSET Objects) /\ Len(waiting) = n
  <2>1. waiting \in [1 .. n -> SUBSET Objects]
    BY <1>1
  <2>2. QED
    BY <1>1, <2>1, SeqDef
<1>4. /\ Len(Lists) = 5 + n
      /\ \A i \in 1 .. 5 + n : Lists[i] = IF i <= 5 THEN owners[i] ELSE waiting[i - 5]
  BY <1>2, <1>3, ConcatProperties DEF Lists
<1>. HIDE DEF n
<1>5. /\ \A i \in 1 .. 5 : i \in 1 .. 5 + n /\ Lists[i] = owners[i]
      /\ \A i \in 1 .. n : i + 5 \in 1 .. 5 + n /\ Lists[i + 5] = queue[i].objs
      /\ \A i \in 1 .. 5 + n : i \in 1 .. 5 \/ (i - 5 \in 1 .. n /\ (i - 5) + 5 = i)
  <2>1. \A i \in 1 .. 5 : i \in 1 .. 5 + n /\ i <= 5
    BY <1>1
  <2>2. \A i \in 1 .. n : i + 5 \in 1 .. 5 + n /\ ~(i + 5 <= 5) /\ (i + 5) - 5 = i
    BY <1>1
  <2>3. \A i \in 1 .. n : waiting[i] = queue[i].objs
    BY DEF n
  <2>4. \A i \in 1 .. 5 + n : i \in 1 .. 5 \/ (i - 5 \in 1 .. n /\ (i - 5) + 5 = i)
    BY <1>1
  <2>5. \A i \in 1 .. 5 : Lists[i] = owners[i]
    <3>. HIDE DEF owners, waiting
    <3>1. QED
      BY <1>4, <2>1
  <2>6. \A i \in 1 .. n : Lists[i + 5] = queue[i].objs
    <3>. HIDE DEF owners, waiting
    <3>1. QED
      BY <1>4, <2>2, <2>3
  <2>7. QED
    BY <2>1, <2>2, <2>4, <2>5, <2>6
<1>6. /\ Lists[1] = fresh /\ Lists[2] = freed /\ Lists[3] = heap /\ Lists[4] = mAllocated
      /\ Lists[5] = job.objs
  BY <1>5
<1>7. \E k \in 1 .. 5 + n : o \in Lists[k]
  <2>1. CASE o \in fresh \cup freed \cup heap \cup mAllocated \cup job.objs
    BY <1>5, <1>6, <2>1
  <2>2. CASE \E i \in 1 .. n : o \in queue[i].objs
    BY <1>5, <2>2
  <2>3. QED
    BY <2>1, <2>2 DEF Owned, n
<1>8. ASSUME NEW k \in 1 .. 5 + n, NEW i \in 1 .. 5 + n, o \in Lists[k], o \in Lists[i]
      PROVE  i = k
  <2>1. CASE i \in 1 .. 5 /\ k \in 1 .. 5
    <3>1. i \in {1, 2, 3, 4, 5} /\ k \in {1, 2, 3, 4, 5}
      BY <2>1
    <3>2. QED
      BY <1>6, <1>8, <3>1 DEF Apart
  <2>2. ASSUME NEW u \in 1 .. 5, NEW v \in 1 .. n, o \in Lists[u], o \in Lists[v + 5]
        PROVE  FALSE
    <3>1. u \in {1, 2, 3, 4, 5} /\ o \in queue[v].objs
      BY <1>5, <2>2
    <3>2. QED
      BY <1>6, <2>2, <3>1 DEF Apart, n
  <2>3. CASE i \notin 1 .. 5 /\ k \notin 1 .. 5
    <3>1. /\ i - 5 \in 1 .. n /\ o \in queue[i - 5].objs
          /\ k - 5 \in 1 .. n /\ o \in queue[k - 5].objs
      BY <1>5, <1>8, <2>3
    <3>2. i - 5 = k - 5
      BY <3>1 DEF Apart, n
    <3>3. QED
      BY <3>2
  <2>4. QED
    BY <1>5, <1>8, <2>1, <2>2, <2>3
<1>9. PICK k \in 1 .. 5 + n : {i \in 1 .. Len(Lists) : o \in Lists[i]} = {k}
  BY <1>4, <1>7, <1>8
<1>10. QED
  BY <1>9, FS_Singleton

(* An intrusive node is never in two lists, and no object is lost.           *)
THEOREM EveryObjectOwnedOnce == Spec => []OwnedOnce
<1>1. IInv => OwnedOnce
  BY OneList DEF IInv, OwnedOnce
<1>2. QED
  BY <1>1, Invariance, PTL

-----------------------------------------------------------------------------
(* Reach is well defined: the intersection of the sets that contain S and    *)
(* are closed under refs satisfies its equation.                             *)
LEMMA ReachEquation ==
  ASSUME TypeOK
  PROVE  \A S \in SUBSET Objects :
           LET next == S \cup UNION {refs[o] : o \in S}
           IN  Reach[S] = IF next = S THEN S ELSE Reach[next]
<1>. DEFINE Succ(S) == S \cup UNION {refs[o] : o \in S}
            Eq(f) == f = [S \in SUBSET Objects |-> IF Succ(S) = S THEN S ELSE f[Succ(S)]]
            Above(S) == {T \in SUBSET Objects : S \subseteq T /\ Succ(T) = T}
            W == [S \in SUBSET Objects |-> {x \in Objects : \A T \in Above(S) : x \in T}]
<1>1. \A S \in SUBSET Objects : Succ(S) \in SUBSET Objects
  BY DEF TypeOK
<1>2. ASSUME NEW S \in SUBSET Objects, Succ(S) = S PROVE W[S] = S
  BY <1>2
<1>3. ASSUME NEW S \in SUBSET Objects PROVE W[S] = W[Succ(S)]
  <2>1. \A T \in SUBSET Objects : S \subseteq T /\ Succ(T) = T => Succ(S) \subseteq T
    OBVIOUS
  <2>2. Above(S) = Above(Succ(S))
    BY <2>1
  <2>3. QED
    BY <1>1, <2>2
<1>4. Eq(W)
  BY <1>1, <1>2, <1>3
<1>5. Eq(Reach)
  BY <1>4 DEF Reach
<1>6. QED
  BY <1>5

(* More than that: while the evaluation lasts, the young collections before  *)
(* the first full one delete nothing at all.                                 *)
THEOREM NothingDeletedBeforeFull ==
  Spec => [](~fullDone /\ mainPc = "evaluating" => freed = {})
<1>1. IInv => (~fullDone /\ mainPc = "evaluating" => freed = {})
  BY DEF IInv, BornMarked
<1>2. QED
  BY <1>1, Invariance, PTL

(* Until the first full collection nothing the mutators can reach is ever    *)
(* deleted, the end of the evaluation included.                              *)
THEOREM ReachableKept == Spec => []YoungCollectionsKeepReachable
<1>1. IInv => YoungCollectionsKeepReachable
  <2> SUFFICES ASSUME IInv, ~fullDone PROVE Reachable \cap freed = {}
    BY DEF YoungCollectionsKeepReachable
  <2>1. CASE mainPc = "evaluating"
    BY <2>1 DEF IInv, BornMarked
  <2>2. CASE mainPc # "evaluating"
    <3>1. roots = {}
      BY <2>2 DEF IInv, UnitsGone
    <3>2. {} \cup UNION {refs[o] : o \in {}} = {}
      OBVIOUS
    <3>3. Reach[{}] = {}
      BY <3>2, ReachEquation DEF IInv
    <3>4. QED
      BY <3>1, <3>3 DEF Reachable
  <2>3. QED
    BY <2>1, <2>2
<1>2. QED
  BY <1>1, Invariance, PTL
=============================================================================
