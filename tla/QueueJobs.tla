------------------------------ MODULE QueueJobs ------------------------------
(* Who uses a job queue of the evaluator, and the jobs that go through it:   *)
(* shared by the abstract deque and the lock-free queue that implements it.  *)
EXTENDS Integers

CONSTANTS Owner,     \* the EvaluatorUnit that owns the queue
          Thieves,   \* the EvaluatorUnits that steal from it
          MaxJobs    \* bound: number of jobs ever pushed

ASSUME JobsAssumption == MaxJobs \in Nat /\ Owner \notin Thieves

NoJob   == 0                 \* what a default-constructed slot holds
Jobs    == 1 .. MaxJobs      \* the k-th job pushed is named k
Takers  == Thieves \cup {Owner}
=============================================================================
