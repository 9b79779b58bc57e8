----------------------------- MODULE ThreadPool -----------------------------
(***************************************************************************)
(* com::parallel_for::ThreadPool.  The main thread submits jobs with       *)
(* notify_and_wait and destroys the pool at the end; each worker runs      *)
(* processFunction.  Every access to the atomics _todo and _done, every    *)
(* test of a wait predicate and every notification is a step of its own.   *)
(* The mutex of the workers' condition variable has no variable: its       *)
(* critical sections hold one access to what it guards, so each of them is *)
(* one step.  _mutex_done is not taken by the workers, so it protects the  *)
(* main thread's test and its wait from nothing.  Nothing holds a call     *)
(* back until the workers have left the job before, so _todo and _done are *)
(* also changed by workers that were still in the middle of that one.      *)
(***************************************************************************)
EXTENDS Integers, Sequences, FiniteSets

CONSTANTS
  Workers,   \* the threads of the pool
  Jobs       \* the sizes of the jobs the main thread submits, in order

ASSUME WorkersAssumption == IsFiniteSet(Workers)
ASSUME PoolJobsAssumption == Jobs \in Seq(Nat)

VARIABLES
  todo,      \* _todo
  done,      \* _done
  exit,      \* _exit
  calls,     \* how many times notify_and_wait was called
  job,       \* _job: the call that set it, 0 before the first
  main,      \* the main thread's program counter
  pc,        \* the workers' program counters
  index,     \* task_index of each worker
  mine,      \* the job each worker runs its task of: what it read from _job
  ran,       \* history: the tasks of _job that are over, by the index
             \* TParallelFor::run passes on
  surplus,   \* history: what _todo and the workers still in the middle of
             \* the job before held beyond _done, when _todo was stored
  spoilt     \* history: a worker in the middle of the job before met this
             \* one, by the time _todo was stored

counters == <<todo, done>>
local == <<index, mine>>
history == <<ran, surplus, spoilt>>
vars == <<counters, exit, calls, job, main, pc, local, history>>

MainStates ==
  {"idle", "reset", "post", "notify", "check", "block", "blocked",
   "exit", "join", "gone"}
WorkerStates ==
  {"lock", "waiting", "take", "restore", "taken", "run", "finish", "notify",
   "exited"}

(* The workers that repair an over-decrement, and those that hold a task.  *)
Over == {w \in Workers : pc[w] = "restore"}
Held == {w \in Workers : pc[w] \in {"taken", "run", "finish"}}

(* Job::size() of the current job. *)
Size == IF job = 0 THEN 0 ELSE Jobs[job]

(* Slip: the numbers are not turned around. *)
NotReversed(i) == i

(* TParallelFor::run numbers the tasks from the other end. *)
Reversed(i) == Size - i - 1

Init ==
  /\ todo = 0
  /\ done = 0
  /\ exit = FALSE
  /\ calls = 0
  /\ job = 0
  /\ main = "idle"
  /\ pc = [w \in Workers |-> "lock"]
  /\ index = [w \in Workers |-> 0]
  /\ mine = [w \in Workers |-> 0]
  /\ ran = {}
  /\ surplus = 0
  /\ spoilt = FALSE

-----------------------------------------------------------------------------
(* The main thread. *)

GotoMain(from, to) ==
  /\ main = from
  /\ main' = to

(* notify_and_wait returns at once from a job without tasks. *)
SkipEmpty ==
  /\ main = "idle"
  /\ calls < Len(Jobs)
  /\ Jobs[calls + 1] <= 0
  /\ calls' = calls + 1
  /\ UNCHANGED <<counters, exit, job, main, pc, local, history>>

(* _job, _done and _todo are set one after the other: _job without a lock, *)
Submit ==
  /\ calls < Len(Jobs)
  /\ Jobs[calls + 1] > 0
  /\ GotoMain("idle", "reset")
  /\ calls' = calls + 1
  /\ job' = calls + 1
  /\ ran' = {}
  /\ UNCHANGED <<counters, exit, pc, local, surplus, spoilt>>

(* _done without a lock, *)
Reset ==
  /\ GotoMain("reset", "post")
  /\ done' = Size
  /\ UNCHANGED <<todo, exit, calls, job, pc, local, history>>

(* and _todo whatever it holds, and whatever the workers are about to do.  *)
Post ==
  /\ GotoMain("post", "notify")
  /\ todo' = Size
  /\ surplus' = (Size - done) + Cardinality(Over) + Cardinality(Held)
  /\ spoilt' = (surplus' # 0 \/ ran # {})
  /\ UNCHANGED <<done, exit, calls, job, pc, local, ran>>

(* notify_all on the workers' condition variable. *)
WakeAll == pc' = [w \in Workers |-> IF pc[w] = "waiting" THEN "lock" ELSE pc[w]]

(* Slip: nobody is woken. *)
NotifyNobody ==
  /\ GotoMain("notify", "check")
  /\ UNCHANGED <<counters, exit, calls, job, pc, local, history>>

NotifyWorkers ==
  /\ GotoMain("notify", "check")
  /\ WakeAll
  /\ UNCHANGED <<counters, exit, calls, job, local, history>>

(* Slip: the call returns while the last task is running. *)
SeeAlmostDone ==
  /\ done <= 1
  /\ GotoMain("check", "idle")
  /\ UNCHANGED <<counters, exit, calls, job, pc, local, history>>

(* The predicate of the wait holds: notify_and_wait returns. *)
SeeDone ==
  /\ done = 0
  /\ GotoMain("check", "idle")
  /\ UNCHANGED <<counters, exit, calls, job, pc, local, history>>

(* It does not hold: the main thread is about to block. *)
SeePending ==
  /\ done # 0
  /\ GotoMain("check", "block")
  /\ UNCHANGED <<counters, exit, calls, job, pc, local, history>>

Block ==
  /\ GotoMain("block", "blocked")
  /\ UNCHANGED <<counters, exit, calls, job, pc, local, history>>

SpuriousMain ==
  /\ GotoMain("blocked", "check")
  /\ UNCHANGED <<counters, exit, calls, job, pc, local, history>>

(* The destructor: _exit under the lock, notify_all, then join. *)
SetExit ==
  /\ calls = Len(Jobs)
  /\ GotoMain("idle", "exit")
  /\ exit' = TRUE
  /\ UNCHANGED <<counters, calls, job, pc, local, history>>

(* Slip: the destructor joins the workers without waking them. *)
NotifyExitNobody ==
  /\ GotoMain("exit", "join")
  /\ UNCHANGED <<counters, exit, calls, job, pc, local, history>>

NotifyExit ==
  /\ GotoMain("exit", "join")
  /\ WakeAll
  /\ UNCHANGED <<counters, exit, calls, job, local, history>>

Join ==
  /\ \A w \in Workers : pc[w] = "exited"
  /\ GotoMain("join", "gone")
  /\ UNCHANGED <<counters, exit, calls, job, pc, local, history>>

-----------------------------------------------------------------------------
(* A worker. *)

Goto(w, from, to) ==
  /\ pc[w] = from
  /\ pc' = [pc EXCEPT ![w] = to]

(* wait(lock, predicate) and the test of _exit behind it, under the mutex. *)
Leave(w) ==
  /\ exit
  /\ Goto(w, "lock", "exited")
  /\ UNCHANGED <<counters, exit, calls, job, main, local, history>>

Enter(w) ==
  /\ ~exit
  /\ todo > 0
  /\ Goto(w, "lock", "take")
  /\ UNCHANGED <<counters, exit, calls, job, main, local, history>>

Wait(w) ==
  /\ ~exit
  /\ todo <= 0
  /\ Goto(w, "lock", "waiting")
  /\ UNCHANGED <<counters, exit, calls, job, main, local, history>>

SpuriousWorker(w) ==
  /\ Goto(w, "waiting", "lock")
  /\ UNCHANGED <<counters, exit, calls, job, main, local, history>>

(* Slip: _todo = 0 is taken for a task. *)
TakeOffByOne(w) ==
  /\ todo >= 0
  /\ Goto(w, "take", "taken")
  /\ todo' = todo - 1
  /\ index' = [index EXCEPT ![w] = todo - 1]
  /\ UNCHANGED <<done, exit, calls, job, main, mine, history>>

(* Slip: _todo is loaded and not decremented. *)
TakeLoaded(w) ==
  /\ todo > 0
  /\ Goto(w, "take", "taken")
  /\ todo' = todo
  /\ index' = [index EXCEPT ![w] = todo - 1]
  /\ UNCHANGED <<done, exit, calls, job, main, mine, history>>

(* _todo.fetch_sub(1) - 1 gives a task ... *)
Take(w) ==
  /\ todo > 0
  /\ Goto(w, "take", "taken")
  /\ todo' = todo - 1
  /\ index' = [index EXCEPT ![w] = todo - 1]
  /\ UNCHANGED <<done, exit, calls, job, main, mine, history>>

(* ... or takes one too many, which is given back by a second access. *)
TakeNone(w) ==
  /\ todo <= 0
  /\ Goto(w, "take", "restore")
  /\ todo' = todo - 1
  /\ UNCHANGED <<done, exit, calls, job, main, local, history>>

Restore(w) ==
  /\ Goto(w, "restore", "lock")
  /\ todo' = todo + 1
  /\ UNCHANGED <<done, exit, calls, job, main, local, history>>

(* _job is read once the task is taken.  The task is run from this step to *)
(* the next.                                                               *)
Load(w) ==
  /\ Goto(w, "taken", "run")
  /\ mine' = [mine EXCEPT ![w] = job]
  /\ UNCHANGED <<counters, exit, calls, job, main, index, history>>

Run(w) ==
  /\ Goto(w, "run", "finish")
  /\ ran' = ran \cup (IF mine[w] = job THEN {Reversed(index[w])} ELSE {})
  /\ UNCHANGED <<counters, exit, calls, job, main, local, surplus, spoilt>>

FinishLast(w) ==
  /\ done = 1
  /\ Goto(w, "finish", "notify")
  /\ done' = done - 1
  /\ UNCHANGED <<todo, exit, calls, job, main, local, history>>

(* Slip: only the last task is accounted for. *)
FinishForgotten(w) ==
  /\ done # 1
  /\ Goto(w, "finish", "take")
  /\ UNCHANGED <<counters, exit, calls, job, main, local, history>>

Finish(w) ==
  /\ done # 1
  /\ Goto(w, "finish", "take")
  /\ done' = done - 1
  /\ UNCHANGED <<todo, exit, calls, job, main, local, history>>

(* notify_one is lost unless the main thread is blocked already. *)
NotifyMain(w) ==
  /\ Goto(w, "notify", "take")
  /\ main' = IF main = "blocked" THEN "check" ELSE main
  /\ UNCHANGED <<counters, exit, calls, job, local, history>>

-----------------------------------------------------------------------------
MainStep ==
  \/ SkipEmpty \/ Submit \/ Reset \/ Post \/ NotifyWorkers
  \/ SeeDone \/ SeePending \/ Block \/ SetExit \/ NotifyExit \/ Join

WorkerStep(w) ==
  \/ Leave(w) \/ Enter(w) \/ Wait(w)
  \/ Take(w) \/ TakeNone(w) \/ Restore(w)
  \/ Load(w) \/ Run(w) \/ FinishLast(w) \/ Finish(w) \/ NotifyMain(w)

Spurious == SpuriousMain \/ \E w \in Workers : SpuriousWorker(w)

(* A pool that was destroyed stays destroyed. *)
Gone == main = "gone" /\ UNCHANGED vars

Next ==
  \/ MainStep
  \/ \E w \in Workers : WorkerStep(w)
  \/ Spurious
  \/ Gone

(* The threads are scheduled and tasks end; nothing makes a thread wake up *)
(* spuriously.                                                             *)
Fairness == WF_vars(MainStep) /\ \A w \in Workers : WF_vars(WorkerStep(w))

Spec == Init /\ [][Next]_vars
FairSpec == Spec /\ Fairness

-----------------------------------------------------------------------------
TypeOK ==
  /\ todo \in Int
  /\ done \in Int
  /\ exit \in BOOLEAN
  /\ calls \in 0 .. Len(Jobs)
  /\ job \in 0 .. calls
  /\ main \in MainStates
  /\ pc \in [Workers -> WorkerStates]
  /\ index \in [Workers -> Int]
  /\ mine \in [Workers -> 0 .. Len(Jobs)]
  /\ ran \subseteq Int
  /\ surplus \in Nat
  /\ spoilt \in BOOLEAN

(* "If we are here, task_index is a valid index (>= 0)": it always is, and *)
(* a task a worker holds is a task of the job unless the job is spoilt.    *)
IndexInJob ==
  \A w \in Workers : pc[w] \in {"taken", "run"} =>
    /\ index[w] >= 0
    /\ ~spoilt => index[w] < Size

(* notify_and_wait returns when "all tasks of this job" are completed: as  *)
(* many are missing, and as many are still in the hands of workers, as the *)
(* job found left of the one before; none at all when it found nothing.    *)
Missing == {i \in 0 .. Size - 1 : i \notin ran}
ReturnIsComplete ==
  main = "idle" =>
    /\ Cardinality(Missing) <= surplus
    /\ Cardinality(Held) <= surplus

(* No task is in the hands of two workers, or is run again by one after it *)
(* was over, so no output slot of a job that is not spoilt has two writers.*)
NoTaskTwice ==
  ~spoilt =>
    \A w \in Workers : pc[w] \in {"taken", "run"} =>
      /\ Reversed(index[w]) \notin ran
      /\ \A v \in Workers \ {w} : pc[v] \in {"taken", "run"} => index[v] # index[w]

(* Once a job is posted, _done counts the tasks nobody took and those a    *)
(* worker has not accounted for, but for what the job found left of the    *)
(* one before: nothing a worker does in it adds to the difference.         *)
DoneCounts ==
  main \notin {"reset", "post"} =>
    done + surplus = todo + Cardinality(Over) + Cardinality(Held)

(* The pool implements ParallelFor.  A job is submitted when it is posted. *)
Phase ==
  IF main \in {"idle", "reset", "post"} THEN "idle"
  ELSE IF main \in {"exit", "join", "gone"} THEN "gone"
  ELSE IF spoilt THEN "spoilt"
  ELSE "open"
Posted == IF main \in {"reset", "post"} THEN calls - 1 ELSE calls
PostedSize == IF Posted = 0 THEN 0 ELSE Jobs[Posted]
Untaken == IF todo > 0 THEN todo ELSE 0
Begun ==
  IF spoilt THEN 0 ELSE IF Phase = "open" THEN Size - Untaken ELSE PostedSize
Finished ==
  IF spoilt THEN {} ELSE IF Phase = "open" THEN ran ELSE 0 .. PostedSize - 1
Contract ==
  INSTANCE ParallelFor WITH
    job <- Posted, phase <- Phase, begun <- Begun, finished <- Finished
ImplementsParallelFor == Contract!Spec

(* Every task of a submitted job is eventually over, even when the main    *)
(* thread is not told.                                                     *)
JobFinishes == main \in {"notify", "check", "block", "blocked"} ~> done <= 0

(* The destructor returns: no worker sleeps through _exit. *)
DestructorReturns == main = "exit" ~> main = "gone"

(* "Notify the main thread waiting in notify_and_wait": the call returns   *)
(* once the job is over.                                                   *)
CallReturns == main = "post" ~> main = "idle"

(* "If _done reaches 0, it means all tasks for the current job are         *)
(* completed", whatever the workers were doing when it was posted.         *)
DoneMeansCompleted ==
  main \notin {"reset", "post"} /\ done = 0 => Missing = {}

=============================================================================
