---------------------------- MODULE ParallelFor ----------------------------
(***************************************************************************)
(* What com::ThreadPool and com::TParallelFor promise to the compiler: the *)
(* jobs of one make request are run one after the other, each task of a    *)
(* job is run exactly once, the tasks of a job are begun in increasing     *)
(* order of their index in the job, and notify_and_wait returns only when  *)
(* every task of the job is over.  sem::Analyzer depends on the order.     *)
(* A job can be spoilt by the one before it, if a worker was still in the  *)
(* middle of that one: nothing is promised of the tasks of a spoilt job.   *)
(* The first job with tasks is never spoilt.                               *)
(***************************************************************************)
EXTENDS Integers, Sequences

CONSTANT Jobs     \* the sizes of the jobs the main thread submits, in order

VARIABLES
  job,       \* how many jobs were submitted; the last one is the current job
  phase,     \* "idle", "open" or "spoilt" while a job is being run, "gone"
             \* after shutdown
  begun,     \* how many tasks of the current job were handed to a worker
  finished   \* the tasks of the current job that are over; of a spoilt job
             \* these two say nothing

vars == <<job, phase, begun, finished>>

Size == IF job = 0 THEN 0 ELSE Jobs[job]

Init ==
  /\ job = 0
  /\ phase = "idle"
  /\ begun = 0
  /\ finished = {}

(* A job without tasks is over at once. *)
SkipEmpty ==
  /\ phase = "idle"
  /\ job < Len(Jobs)
  /\ Jobs[job + 1] = 0
  /\ job' = job + 1
  /\ begun' = 0
  /\ finished' = {}
  /\ UNCHANGED phase

Submit ==
  /\ phase = "idle"
  /\ job < Len(Jobs)
  /\ Jobs[job + 1] > 0
  /\ job' = job + 1
  /\ phase' = "open"
  /\ begun' = 0
  /\ finished' = {}

SubmitSpoilt ==
  /\ phase = "idle"
  /\ job < Len(Jobs)
  /\ Jobs[job + 1] > 0
  /\ \E j \in 1 .. job : Jobs[j] > 0
  /\ job' = job + 1
  /\ phase' = "spoilt"
  /\ begun' = 0
  /\ finished' = {}

ReturnSpoilt ==
  /\ phase = "spoilt"
  /\ phase' = "idle"
  /\ UNCHANGED <<job, begun, finished>>

(* The task that begins is always the next one. *)
Begin ==
  /\ phase = "open"
  /\ begun < Size
  /\ begun' = begun + 1
  /\ UNCHANGED <<job, phase, finished>>

End(i) ==
  /\ phase = "open"
  /\ i \in 0 .. begun - 1
  /\ i \notin finished
  /\ finished' = finished \cup {i}
  /\ UNCHANGED <<job, phase, begun>>

Return ==
  /\ phase = "open"
  /\ finished = 0 .. Size - 1
  /\ phase' = "idle"
  /\ UNCHANGED <<job, begun, finished>>

Shutdown ==
  /\ phase = "idle"
  /\ phase' = "gone"
  /\ UNCHANGED <<job, begun, finished>>

Next ==
  \/ SkipEmpty
  \/ Submit
  \/ Begin
  \/ \E i \in 0 .. begun - 1 : End(i)
  \/ Return
  \/ SubmitSpoilt
  \/ ReturnSpoilt
  \/ Shutdown

Spec == Init /\ [][Next]_vars

=============================================================================
