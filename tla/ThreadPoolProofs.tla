-------------------------- MODULE ThreadPoolProofs --------------------------
(***************************************************************************)
(* The safety of the thread pool for every set of workers and every        *)
(* sequence of jobs, whenever they are posted.                             *)
(***************************************************************************)
EXTENDS ThreadPool, FiniteSetTheorems, TLAPS

(* The main thread is outside of notify_and_wait, or between its stores.   *)
Closed == {"idle", "exit", "join", "gone"}
Posting == {"reset", "post"}

Hand == {w \in Workers : pc[w] \in {"taken", "run"}}

(* _todo is short by at most one for each worker about to repair it. *)
TodoCounts == todo + Cardinality(Over) >= 0

DoneBounded == main = "post" => done <= Size
ClosedIsDone == main \in Closed => done <= 0
OpenHasJob == main \notin Closed => job = calls /\ job > 0 /\ Size > 0

(* A task of a posted job that was taken is over or in the hands of a      *)
(* worker that runs it for this job.                                       *)
NothingLost ==
  main \notin Posting =>
    \A i \in 0 .. Size - 1 : i >= todo =>
      \/ Reversed(i) \in ran
      \/ \E w \in Workers :
           /\ index[w] = i
           /\ pc[w] = "taken" \/ (pc[w] = "run" /\ mine[w] = job)

IndexIsNat == \A w \in Hand : index[w] >= 0

(* A job that is not spoilt: no worker repairs while tasks are left, and   *)
(* the tasks in the hands of workers and the tasks that are over are tasks *)
(* of the job that are taken.                                              *)
CleanCounts ==
  ~spoilt =>
    /\ surplus = 0 /\ todo <= Size
    /\ todo > 0 => Over = {}
    /\ todo <= 0 => todo + Cardinality(Over) = 0
CleanPost == ~spoilt /\ main \in Posting => todo <= 0 /\ Held = {} /\ ran = {}
TakenIndex ==
  ~spoilt => \A w \in Hand :
    /\ index[w] >= Untaken
    /\ index[w] < Size
    /\ pc[w] = "run" => mine[w] = job
RanTaken == ~spoilt => \A i \in ran : i >= 0 /\ i < Size - Untaken

IInv ==
  /\ TypeOK
  /\ DoneCounts
  /\ TodoCounts
  /\ DoneBounded
  /\ ClosedIsDone
  /\ OpenHasJob
  /\ NothingLost
  /\ IndexIsNat
  /\ CleanCounts
  /\ CleanPost
  /\ TakenIndex
  /\ RanTaken
  /\ NoTaskTwice

-----------------------------------------------------------------------------
(* The counters stand for the sizes of sets of workers. *)
LEMMA WorkerSet ==
  ASSUME NEW S, S \subseteq Workers
  PROVE  /\ Cardinality(S) \in Nat
         /\ Cardinality(S) = 0 <=> S = {}
<1>1. IsFiniteSet(S)
  BY FS_Subset, WorkersAssumption
<1>2. QED
  BY <1>1, FS_CardinalityType, FS_EmptySet

LEMMA OneMore ==
  ASSUME NEW S, S \subseteq Workers, NEW w \in Workers, w \notin S
  PROVE  Cardinality(S \cup {w}) = Cardinality(S) + 1
<1>1. IsFiniteSet(S)
  BY FS_Subset, WorkersAssumption
<1>2. QED
  BY <1>1, FS_AddElement

LEMMA OneLess ==
  ASSUME NEW S, S \subseteq Workers, NEW w \in S
  PROVE  Cardinality(S \ {w}) = Cardinality(S) - 1
<1>1. IsFiniteSet(S)
  BY FS_Subset, WorkersAssumption
<1>2. QED
  BY <1>1, FS_RemoveElement

LEMMA OverAndHeld ==
  /\ Cardinality(Over) \in Nat /\ (Cardinality(Over) = 0 <=> Over = {})
  /\ Cardinality(Held) \in Nat /\ (Cardinality(Held) = 0 <=> Held = {})
<1>1. Over \subseteq Workers /\ Held \subseteq Workers
  BY DEF Over, Held
<1>2. QED
  BY <1>1, WorkerSet

LEMMA CountsAreNat == Cardinality(Over) \in Nat /\ Cardinality(Held) \in Nat
  BY OverAndHeld

LEMMA SizeIsNat == TypeOK => Size \in Nat /\ calls \in Nat /\ Len(Jobs) \in Nat
<1>1. Len(Jobs) \in Nat
  BY PoolJobsAssumption
<1>2. QED
  BY <1>1, PoolJobsAssumption DEF TypeOK, Size

LEMMA InitIInv == Init => IInv
<1> SUFFICES ASSUME Init PROVE IInv
  OBVIOUS
<1>1. Over = {} /\ Held = {} /\ Hand = {}
  BY DEF Init, Over, Held, Hand
<1>2. Cardinality({}) = 0
  BY FS_EmptySet
<1>3. Size = 0 /\ Untaken = 0
  BY DEF Init, Size, Untaken
<1>4. TypeOK
  <2>1. Len(Jobs) \in Nat
    BY PoolJobsAssumption
  <2>2. calls \in 0 .. Len(Jobs) /\ job \in 0 .. calls
    BY <2>1 DEF Init
  <2>3. /\ pc \in [Workers -> WorkerStates]
        /\ index \in [Workers -> Int]
        /\ mine \in [Workers -> 0 .. Len(Jobs)]
    BY <2>1 DEF Init, WorkerStates
  <2>4. main \in MainStates /\ exit \in BOOLEAN
    BY DEF Init, MainStates
  <2>5. todo \in Int /\ done \in Int /\ ran \subseteq Int /\ surplus \in Nat
    BY DEF Init
  <2>6. spoilt \in BOOLEAN
    BY DEF Init
  <2>7. QED
    BY <2>2, <2>3, <2>4, <2>5, <2>6 DEF TypeOK
<1>5. TodoCounts /\ DoneCounts /\ CleanCounts
  BY <1>1, <1>2, <1>3 DEF Init, TodoCounts, DoneCounts, CleanCounts
<1>6. NothingLost
  BY <1>3 DEF NothingLost
<1>7. TakenIndex /\ RanTaken /\ NoTaskTwice /\ IndexIsNat
  BY <1>1 DEF Init, TakenIndex, RanTaken, NoTaskTwice, IndexIsNat
<1>8. QED
  BY <1>4, <1>5, <1>6, <1>7
  DEF Init, IInv, DoneBounded, ClosedIsDone, OpenHasJob, CleanPost, Closed, Posting

(* A step that moves neither a counter, nor a task, nor a worker into or   *)
(* out of the sets that the counters count keeps the accounts.             *)
LEMMA IdleStep ==
  ASSUME IInv, TypeOK', UNCHANGED <<todo, done, job, index, mine, history>>,
         calls' = calls \/ main' \in Closed,
         Over' = Over,
         Held' = Held,
         \A w \in Workers : /\ pc'[w] = "run" <=> pc[w] = "run"
                            /\ pc'[w] = "taken" <=> pc[w] = "taken",
         main' = main \/ (main \notin Posting /\ main' \notin Posting),
         main' \in Closed => done <= 0,
         main' \notin Closed => main \notin Closed
  PROVE  IInv'
<1>1. Size' = Size /\ Untaken' = Untaken
  BY DEF Size, Untaken
<1>2. /\ Hand' = Hand /\ UNCHANGED <<ran, surplus, spoilt>>
      /\ \A i : Reversed(i)' = Reversed(i)
  BY <1>1 DEF Reversed, Hand, history
<1>3. TodoCounts' /\ DoneCounts' /\ DoneBounded'
  BY <1>1, <1>2 DEF IInv, TodoCounts, DoneCounts, DoneBounded, Posting
<1>4. ClosedIsDone' /\ OpenHasJob'
  BY <1>1 DEF IInv, ClosedIsDone, OpenHasJob
<1>5. TakenIndex' /\ RanTaken' /\ IndexIsNat'
  BY <1>1, <1>2 DEF IInv, TakenIndex, RanTaken, IndexIsNat, Hand
<1>6. NoTaskTwice'
  BY <1>2 DEF IInv, NoTaskTwice
<1>7. NothingLost'
  BY <1>1, <1>2 DEF IInv, NothingLost
<1>8. CleanCounts' /\ CleanPost'
  BY <1>1, <1>2 DEF IInv, CleanCounts, CleanPost
<1>9. QED
  BY <1>3, <1>4, <1>5, <1>6, <1>7, <1>8 DEF IInv

LEMMA StutterIInv == ASSUME IInv, UNCHANGED vars PROVE IInv'
<1>1. TypeOK' /\ UNCHANGED <<todo, done, calls, job, main, pc, index, mine, history>>
  BY DEF IInv, TypeOK, vars, counters, local, history
<1>2. QED
  BY <1>1, IdleStep DEF IInv, Over, Held, ClosedIsDone

-----------------------------------------------------------------------------
(* The steps of the main thread. *)

(* When a job that is not spoilt is over, no worker has a task. *)
LEMMA ClosedIsEmpty ==
  ASSUME IInv, main \in Closed \/ (main \notin Posting /\ done <= 0), ~spoilt
  PROVE  /\ Untaken = 0 /\ todo <= 0
         /\ Held = {} /\ Hand = {}
<1>1. done <= 0 /\ main \notin Posting
  BY DEF IInv, ClosedIsDone, Closed, Posting
<1>2. todo \in Int /\ done \in Int /\ surplus = 0
  BY DEF IInv, TypeOK, CleanCounts
<1>3. done = todo + Cardinality(Over) + Cardinality(Held)
  BY <1>1, <1>2, OverAndHeld DEF IInv, DoneCounts, Posting
<1>4. todo + Cardinality(Over) >= 0
  BY DEF IInv, TodoCounts
<1>5. Cardinality(Held) = 0 /\ todo + Cardinality(Over) = 0
  BY <1>1, <1>2, <1>3, <1>4, OverAndHeld
<1>6. todo <= 0 /\ Held = {}
  BY <1>2, <1>5, OverAndHeld
<1>7. QED
  BY <1>2, <1>6 DEF Untaken, Held, Hand

LEMMA SkipEmptyIInv == ASSUME IInv, SkipEmpty PROVE IInv'
<1>1. main = "idle" /\ main \in Closed /\ main \notin Posting
      /\ UNCHANGED <<todo, done, exit, job, main, pc, index, mine, history>>
  BY DEF SkipEmpty, Closed, Posting, counters, local
<1>2. calls' \in 0 .. Len(Jobs) /\ job \in 0 .. calls'
  BY SizeIsNat DEF IInv, TypeOK, SkipEmpty
<1>3. TypeOK'
  BY <1>1, <1>2 DEF IInv, TypeOK, history
<1>4. QED
  BY <1>1, <1>3, IdleStep DEF Over, Held, IInv, ClosedIsDone

LEMMA SubmitIInv == ASSUME IInv, Submit PROVE IInv'
<1>1. /\ main = "idle" /\ main \in Closed /\ main' = "reset"
      /\ main' \notin Closed /\ main' \in Posting
      /\ UNCHANGED <<todo, done, exit, pc, index, mine, surplus, spoilt>>
      /\ ran' = {} /\ calls' = calls + 1 /\ job' = calls + 1
  BY DEF Submit, GotoMain, Closed, Posting, counters, local
<1>2. /\ calls' \in 1 .. Len(Jobs) /\ job' \in 1 .. calls'
      /\ Size' = Jobs[calls + 1] /\ Size' \in Nat /\ Size' > 0
  BY <1>1, SizeIsNat, PoolJobsAssumption DEF IInv, TypeOK, Submit, Size
<1>3. TypeOK'
  BY <1>1, <1>2 DEF IInv, TypeOK, MainStates
<1>4. Over' = Over /\ Held' = Held /\ Hand' = Hand /\ Untaken' = Untaken
  BY <1>1 DEF Over, Held, Hand, Untaken
<1>5. DoneCounts' /\ TodoCounts' /\ DoneBounded' /\ ClosedIsDone' /\ NothingLost'
  BY <1>1, <1>4 DEF IInv, DoneCounts, TodoCounts, DoneBounded, ClosedIsDone,
                    NothingLost
<1>6. OpenHasJob' /\ IndexIsNat'
  BY <1>1, <1>2, <1>4, SizeIsNat DEF IInv, OpenHasJob, IndexIsNat
<1>7. CleanCounts' /\ CleanPost' /\ TakenIndex' /\ RanTaken' /\ NoTaskTwice'
  <2> SUFFICES ASSUME ~spoilt
               PROVE  CleanCounts' /\ CleanPost' /\ TakenIndex' /\ RanTaken'
                      /\ NoTaskTwice'
    BY <1>1 DEF CleanCounts, CleanPost, TakenIndex, RanTaken, NoTaskTwice
  <2>1. todo <= 0 /\ Held = {} /\ Hand = {} /\ todo \in Int
    BY <1>1, ClosedIsEmpty DEF IInv, TypeOK
  <2>2. CleanCounts' /\ CleanPost'
    BY <1>1, <1>2, <1>4, <2>1 DEF IInv, CleanCounts, CleanPost
  <2>3. TakenIndex' /\ RanTaken'
    BY <1>1, <1>4, <2>1 DEF TakenIndex, RanTaken
  <2>4. NoTaskTwice'
    BY <1>1, <2>1 DEF NoTaskTwice, Hand
  <2>5. QED
    BY <2>2, <2>3, <2>4
<1>8. QED
  BY <1>3, <1>5, <1>6, <1>7 DEF IInv

LEMMA ResetIInv == ASSUME IInv, Reset PROVE IInv'
<1>1. /\ main = "reset" /\ main' = "post" /\ main \notin Closed /\ main' \notin Closed
      /\ main \in Posting /\ main' \in Posting
      /\ UNCHANGED <<todo, exit, calls, job, pc, index, mine, ran, surplus, spoilt>>
      /\ done' = Size
  BY DEF Reset, GotoMain, Closed, Posting, local, history
<1>2. Size' = Size /\ Size \in Nat /\ Untaken' = Untaken
  BY <1>1, SizeIsNat DEF IInv, Size, Untaken
<1>3. /\ Over' = Over /\ Held' = Held /\ Hand' = Hand
      /\ \A i : Reversed(i)' = Reversed(i)
  BY <1>1, <1>2 DEF Over, Held, Hand, Reversed
<1>4. TypeOK'
  BY <1>1, <1>2 DEF IInv, TypeOK, MainStates
<1>5. DoneCounts' /\ TodoCounts' /\ DoneBounded' /\ ClosedIsDone' /\ NothingLost'
  BY <1>1, <1>2, <1>3 DEF IInv, DoneCounts, TodoCounts, DoneBounded, ClosedIsDone,
                    NothingLost
<1>6. OpenHasJob' /\ IndexIsNat' /\ CleanCounts' /\ CleanPost'
  BY <1>1, <1>2, <1>3 DEF IInv, OpenHasJob, IndexIsNat, CleanCounts, CleanPost
<1>7. TakenIndex' /\ RanTaken' /\ NoTaskTwice'
  BY <1>1, <1>2, <1>3 DEF IInv, TakenIndex, RanTaken, NoTaskTwice
<1>8. QED
  BY <1>4, <1>5, <1>6, <1>7 DEF IInv

(* What the job finds left of the one before is its surplus; a job that    *)
(* finds nothing is not spoilt.                                            *)
LEMMA PostIInv == ASSUME IInv, Post PROVE IInv'
<1>1. /\ main = "post" /\ main' = "notify" /\ main \notin Closed /\ main' \notin Closed
      /\ main \in Posting /\ main' \notin Posting
      /\ UNCHANGED <<done, exit, calls, job, pc, index, mine, ran>>
      /\ todo' = Size
      /\ surplus' = (Size - done) + Cardinality(Over) + Cardinality(Held)
  BY DEF Post, GotoMain, Closed, Posting, local
<1>2. /\ Size' = Size /\ Size \in Nat /\ Size > 0 /\ Untaken' = Size
      /\ done \in Int /\ done <= Size
  BY <1>1, SizeIsNat DEF IInv, TypeOK, Size, Untaken, OpenHasJob, DoneBounded
<1>3. Over' = Over /\ Held' = Held /\ Hand' = Hand
  BY <1>1 DEF Over, Held, Hand
<1>4. surplus' \in Nat /\ (surplus' = 0 => Over = {} /\ Held = {})
  <2>1. Size - done \in Nat
    BY <1>2
  <2>2. /\ surplus' \in Nat
        /\ surplus' = 0 => Cardinality(Over) = 0 /\ Cardinality(Held) = 0
    BY <1>1, <2>1, CountsAreNat
  <2>3. QED
    BY <2>2, OverAndHeld
<1>5. TypeOK'
  <2>1. spoilt' \in BOOLEAN
    BY Zenon DEF Post
  <2>2. QED
    BY <1>1, <1>2, <1>4, <2>1 DEF IInv, TypeOK, MainStates
<1>6. DoneCounts' /\ TodoCounts' /\ DoneBounded' /\ ClosedIsDone'
  BY <1>1, <1>2, <1>3, OverAndHeld DEF DoneCounts, TodoCounts, DoneBounded, ClosedIsDone
<1>7. OpenHasJob' /\ IndexIsNat' /\ NothingLost'
  BY <1>1, <1>2, <1>3 DEF IInv, OpenHasJob, IndexIsNat, NothingLost
<1>8. ~spoilt' => Over' = {} /\ Hand' = {} /\ ran' = {} /\ surplus' = 0
  <2>1. ~spoilt' => surplus' = 0 /\ ran = {}
    BY Zenon DEF Post
  <2>2. QED
    BY <1>1, <1>3, <1>4, <2>1 DEF Held, Hand
<1>9. CleanCounts' /\ CleanPost' /\ TakenIndex' /\ RanTaken'
  BY <1>1, <1>2, <1>8, FS_EmptySet DEF CleanCounts, CleanPost, TakenIndex, RanTaken
<1>10. NoTaskTwice'
  BY <1>8 DEF NoTaskTwice, Hand
<1>11. QED
  BY <1>5, <1>6, <1>7, <1>9, <1>10 DEF IInv

(* notify_all moves workers that hold nothing. *)
LEMMA WakeAllHolds ==
  ASSUME IInv, WakeAll
  PROVE  /\ pc' \in [Workers -> WorkerStates]
         /\ Over' = Over
         /\ Held' = Held
         /\ \A w \in Workers : /\ pc'[w] = "run" <=> pc[w] = "run"
                               /\ pc'[w] = "taken" <=> pc[w] = "taken"
  BY DEF IInv, TypeOK, WakeAll, WorkerStates, Over, Held

LEMMA MainMoves ==
  ASSUME IInv,
         NotifyWorkers \/ SeeDone \/ SeePending \/ Block \/ SpuriousMain
           \/ SetExit \/ NotifyExit \/ Join
  PROVE  IInv'
<1>1. main \in MainStates /\ main' \in MainStates
  BY DEF IInv, TypeOK, MainStates, NotifyWorkers, SeeDone, SeePending, Block,
         SpuriousMain, SetExit, NotifyExit, Join, GotoMain
<1>2. /\ UNCHANGED <<todo, done, calls, job, index, mine, history>>
      /\ exit' \in BOOLEAN
  BY DEF IInv, TypeOK, NotifyWorkers, SeeDone, SeePending, Block, SpuriousMain,
         SetExit, NotifyExit, Join, counters, local
<1>3. WakeAll \/ pc' = pc
  BY DEF NotifyWorkers, SeeDone, SeePending, Block, SpuriousMain, SetExit,
         NotifyExit, Join
<1>4. /\ pc' \in [Workers -> WorkerStates]
      /\ Over' = Over
      /\ Held' = Held
      /\ \A w \in Workers : /\ pc'[w] = "run" <=> pc[w] = "run"
                            /\ pc'[w] = "taken" <=> pc[w] = "taken"
  BY <1>3, WakeAllHolds DEF IInv, TypeOK, Over, Held
<1>5. TypeOK'
  BY <1>1, <1>2, <1>4 DEF IInv, TypeOK, history
<1>6. main \notin Posting /\ main' \notin Posting
  BY DEF Posting, NotifyWorkers, SeeDone, SeePending, Block, SpuriousMain, SetExit,
         NotifyExit, Join, GotoMain
<1>7. main' \in Closed => done <= 0
  BY DEF IInv, ClosedIsDone, Closed, NotifyWorkers, SeeDone, SeePending, Block,
         SpuriousMain, SetExit, NotifyExit, Join, GotoMain
<1>8. main' \notin Closed => main \notin Closed
  BY DEF Closed, NotifyWorkers, SeeDone, SeePending, Block, SpuriousMain,
         SetExit, NotifyExit, Join, GotoMain
<1>9. QED
  BY <1>2, <1>4, <1>5, <1>6, <1>7, <1>8, IdleStep

-----------------------------------------------------------------------------
(* The steps of a worker. *)

LEMMA WorkerMoves ==
  ASSUME IInv, NEW w \in Workers,
         Leave(w) \/ Enter(w) \/ Wait(w) \/ SpuriousWorker(w)
  PROVE  IInv'
<1>1. UNCHANGED <<todo, done, exit, calls, job, main, index, mine, history>>
  BY DEF Leave, Enter, Wait, SpuriousWorker, counters, local
<1>2. /\ pc' \in [Workers -> WorkerStates]
      /\ Over' = Over
      /\ Held' = Held
      /\ \A v \in Workers : /\ pc'[v] = "run" <=> pc[v] = "run"
                            /\ pc'[v] = "taken" <=> pc[v] = "taken"
  BY DEF Leave, Enter, Wait, SpuriousWorker, Goto, IInv, TypeOK, WorkerStates,
         Over, Held
<1>3. TypeOK'
  BY <1>1, <1>2 DEF IInv, TypeOK, history
<1>4. main' \in Closed => done <= 0
  BY <1>1 DEF IInv, ClosedIsDone
<1>5. QED
  BY <1>1, <1>2, <1>3, <1>4, IdleStep

(* NotifyMain may move the main thread too, from the wait to its test. *)
LEMMA NotifyMainIInv == ASSUME IInv, NEW w \in Workers, NotifyMain(w) PROVE IInv'
<1>1. UNCHANGED <<todo, done, exit, calls, job, index, mine, history>>
  BY DEF NotifyMain, counters, local
<1>2. /\ pc' \in [Workers -> WorkerStates]
      /\ Over' = Over
      /\ Held' = Held
      /\ \A v \in Workers : /\ pc'[v] = "run" <=> pc[v] = "run"
                            /\ pc'[v] = "taken" <=> pc[v] = "taken"
  BY DEF NotifyMain, Goto, IInv, TypeOK, WorkerStates, Over, Held
<1>3. /\ main' \in MainStates
      /\ main' = main \/ (main \notin Posting /\ main' \notin Posting)
      /\ main' \in Closed => main \in Closed
      /\ main' \notin Closed => main \notin Closed
  BY DEF NotifyMain, IInv, TypeOK, MainStates, Closed, Posting
<1>4. TypeOK'
  BY <1>1, <1>2, <1>3 DEF IInv, TypeOK, history
<1>5. main' \in Closed => done <= 0
  BY <1>3 DEF IInv, ClosedIsDone
<1>6. QED
  BY <1>1, <1>2, <1>3, <1>4, <1>5, IdleStep

(* A task passes from the untaken ones to the ones in a worker's hands. *)
LEMMA TakeIInv == ASSUME IInv, NEW w \in Workers, Take(w) PROVE IInv'
<1>1. /\ todo > 0 /\ todo' = todo - 1 /\ todo \in Int /\ done \in Int
      /\ pc[w] = "take" /\ pc' = [pc EXCEPT ![w] = "taken"]
      /\ index' = [index EXCEPT ![w] = todo - 1]
      /\ index \in [Workers -> Int] /\ pc \in [Workers -> WorkerStates]
      /\ UNCHANGED <<done, exit, calls, job, main, mine, ran, surplus, spoilt>>
  BY DEF Take, Goto, IInv, TypeOK, history
<1>2. Size' = Size /\ Size \in Nat /\ Untaken = todo /\ Untaken' = todo - 1
      /\ \A i : Reversed(i)' = Reversed(i)
  BY <1>1, SizeIsNat DEF IInv, Size, Untaken, Reversed
<1>3. /\ Over' = Over
      /\ Held' = Held \cup {w} /\ w \notin Held /\ Held \subseteq Workers
      /\ Hand' = Hand \cup {w} /\ w \notin Hand /\ Hand \subseteq Workers
  BY <1>1 DEF Over, Held, Hand
<1>4. Cardinality(Held') = Cardinality(Held) + 1
  BY <1>3, OneMore
<1>5. TypeOK'
  BY <1>1 DEF IInv, TypeOK, WorkerStates
<1>6. DoneCounts' /\ TodoCounts' /\ DoneBounded' /\ ClosedIsDone' /\ OpenHasJob'
  <2>1. DoneCounts'
    BY <1>1, <1>3, <1>4, OverAndHeld DEF IInv, TypeOK, DoneCounts
  <2>2. TodoCounts'
    BY <1>1, <1>3, OverAndHeld DEF TodoCounts
  <2>3. QED
    BY <1>1, <1>2, <2>1, <2>2 DEF IInv, DoneBounded, ClosedIsDone, OpenHasJob
<1>7. NothingLost'
  <2> SUFFICES ASSUME main \notin Posting, NEW i \in 0 .. Size - 1, i >= todo - 1
               PROVE  \/ Reversed(i) \in ran
                      \/ \E v \in Workers :
                           /\ index'[v] = i
                           /\ pc'[v] = "taken" \/ (pc'[v] = "run" /\ mine[v] = job)
    BY <1>1, <1>2 DEF NothingLost
  <2>1. CASE i = todo - 1
    BY <1>1, <2>1
  <2>2. CASE i >= todo
    BY <1>1, <2>2 DEF IInv, NothingLost
  <2>3. QED
    BY <1>1, <1>2, <2>1, <2>2
<1>8. IndexIsNat'
  BY <1>1, <1>3 DEF IInv, IndexIsNat
<1>9. CASE spoilt
  BY <1>1, <1>5, <1>6, <1>7, <1>8, <1>9
  DEF IInv, CleanCounts, CleanPost, TakenIndex, RanTaken, NoTaskTwice
<1>10. CASE ~spoilt
  <2>1. main \notin Posting /\ todo <= Size /\ Over = {}
    BY <1>1, <1>10 DEF IInv, CleanPost, CleanCounts
  <2>2. CleanCounts' /\ CleanPost'
    BY <1>1, <1>2, <1>3, <2>1, FS_EmptySet DEF IInv, CleanCounts, CleanPost
  <2>3. \A v \in Hand : /\ index[v] \in Int /\ index[v] >= todo /\ index[v] < Size
                        /\ pc[v] = "run" => mine[v] = job
    BY <1>1, <1>2, <1>3, <1>10 DEF IInv, TakenIndex
  <2>4. TakenIndex'
    BY <1>1, <1>2, <1>3, <2>1, <2>3 DEF TakenIndex
  <2>5. \A i \in ran : i \in Int /\ i >= 0 /\ i < Size - todo
    BY <1>2, <1>10 DEF IInv, TypeOK, RanTaken
  <2>6. RanTaken'
    <3>1. \A i \in ran : i >= 0 /\ i < Size - (todo - 1)
      BY <1>1, <1>2, <2>5
    <3>2. QED
      BY <1>1, <1>2, <3>1 DEF RanTaken
  <2>7. NoTaskTwice'
    <3>1. Size - (todo - 1) - 1 \notin ran
      BY <1>1, <1>2, <2>5
    <3>2. \A v \in Hand : v # w /\ index[v] # todo - 1
      BY <1>1, <1>3, <2>3
    <3>3. \A v \in Hand : /\ Size - index[v] - 1 \notin ran
                          /\ \A u \in Hand \ {v} : index[u] # index[v]
      BY <1>10 DEF IInv, NoTaskTwice, Reversed, Hand
    <3>4. \A v \in Hand' : /\ Size - index'[v] - 1 \notin ran
                           /\ \A u \in Hand' \ {v} : index'[u] # index'[v]
      BY <1>1, <1>3, <3>1, <3>2, <3>3
    <3>5. QED
      BY <1>1, <1>2, <3>4 DEF NoTaskTwice, Reversed, Hand
  <2>8. QED
    BY <1>5, <1>6, <1>7, <1>8, <2>2, <2>4, <2>6, <2>7 DEF IInv
<1>11. QED
  BY <1>9, <1>10

(* In a job that is not spoilt they find nothing and leave nothing. *)
LEMMA OverIsNone ==
  ASSUME IInv, NEW w \in Workers, TakeNone(w) \/ Restore(w), ~spoilt
  PROVE  todo <= 0 /\ todo' <= 0
<1>1. todo \in Int
  BY DEF IInv, TypeOK
<1>2. CASE TakeNone(w)
  BY <1>1, <1>2 DEF TakeNone
<1>3. CASE Restore(w)
  <2>1. w \in Over
    BY <1>3 DEF Restore, Goto, Over
  <2>2. todo <= 0 /\ todo + Cardinality(Over) = 0
    BY <1>1, <2>1 DEF IInv, CleanCounts
  <2>3. Cardinality(Over) \in Nat /\ Cardinality(Over) # 0
    BY <2>1, OverAndHeld
  <2>4. QED
    BY <1>1, <1>3, <2>2, <2>3 DEF Restore
<1>4. QED
  BY <1>2, <1>3

(* Neither of the two accesses that find nothing changes what _todo and    *)
(* the workers about to repair it come to.                                 *)
LEMMA OverMoves ==
  ASSUME IInv, NEW w \in Workers, TakeNone(w) \/ Restore(w)
  PROVE  IInv'
<1>1. /\ UNCHANGED <<done, exit, calls, job, main, index, mine, ran, surplus, spoilt>>
      /\ todo \in Int /\ todo' \in Int /\ Size' = Size /\ Size \in Nat
      /\ \A i : Reversed(i)' = Reversed(i)
  BY SizeIsNat DEF TakeNone, Restore, IInv, TypeOK, Size, local, history, Reversed
<1>2. /\ pc' \in [Workers -> WorkerStates]
      /\ Held' = Held /\ Hand' = Hand
      /\ \A v \in Workers : /\ pc'[v] = "run" <=> pc[v] = "run"
                            /\ pc'[v] = "taken" <=> pc[v] = "taken"
  BY DEF TakeNone, Restore, Goto, IInv, TypeOK, WorkerStates, Held, Hand
<1>3. TypeOK'
  BY <1>1, <1>2 DEF IInv, TypeOK
<1>4. todo' + Cardinality(Over') = todo + Cardinality(Over)
  <2>1. CASE TakeNone(w)
    <3>1. Over' = Over \cup {w} /\ w \notin Over /\ Over \subseteq Workers
      BY <2>1 DEF TakeNone, Goto, Over, IInv, TypeOK
    <3>2. Cardinality(Over') = Cardinality(Over) + 1
      BY <3>1, OneMore
    <3>3. QED
      BY <1>1, <2>1, <3>2, OverAndHeld DEF TakeNone
  <2>2. CASE Restore(w)
    <3>1. Over' = Over \ {w} /\ w \in Over /\ Over \subseteq Workers
      BY <2>2 DEF Restore, Goto, Over, IInv, TypeOK
    <3>2. Cardinality(Over') = Cardinality(Over) - 1
      BY <3>1, OneLess
    <3>3. QED
      BY <1>1, <2>2, <3>2, OverAndHeld DEF Restore
  <2>3. QED
    BY <2>1, <2>2
<1>5. DoneCounts' /\ TodoCounts' /\ DoneBounded' /\ ClosedIsDone' /\ OpenHasJob'
  <2>1. Cardinality(Over') \in Nat
    <3>1. Over' \subseteq Workers
      BY DEF Over
    <3>2. QED
      BY <3>1, WorkerSet
  <2>2. TodoCounts'
    BY <1>4 DEF IInv, TodoCounts
  <2>3. DoneCounts'
    BY <1>1, <1>2, <1>4, <2>1, OverAndHeld DEF IInv, TypeOK, DoneCounts
  <2>4. QED
    BY <1>1, <2>2, <2>3 DEF IInv, DoneBounded, ClosedIsDone, OpenHasJob
<1>6. NothingLost'
  <2>1. \A i \in 0 .. Size - 1 : i >= todo' => i >= todo
    BY <1>1 DEF TakeNone, Restore
  <2>2. QED
    BY <1>1, <1>2, <2>1 DEF IInv, NothingLost
<1>7. IndexIsNat' /\ NoTaskTwice'
  BY <1>1, <1>2 DEF IInv, IndexIsNat, NoTaskTwice
<1>8. CASE spoilt
  BY <1>1, <1>3, <1>5, <1>6, <1>7, <1>8
  DEF IInv, CleanCounts, CleanPost, TakenIndex, RanTaken
<1>9. CASE ~spoilt
  <2>1. todo <= 0 /\ todo' <= 0
    BY <1>9, OverIsNone
  <2>2. Untaken = 0 /\ Untaken' = 0
    BY <1>1, <2>1 DEF Untaken
  <2>3. CleanCounts'
    BY <1>1, <1>4, <1>9, <2>1 DEF IInv, CleanCounts
  <2>4. CleanPost'
    BY <1>1, <1>2, <1>9, <2>1 DEF IInv, CleanPost
  <2>5. TakenIndex'
    <3>1. \A v \in Hand : pc'[v] = "run" <=> pc[v] = "run"
      BY <1>2 DEF Hand
    <3>2. QED
      BY <1>1, <1>2, <1>9, <2>2, <3>1 DEF IInv, TakenIndex
  <2>6. RanTaken'
    BY <1>1, <1>9, <2>2 DEF IInv, RanTaken
  <2>7. QED
    BY <1>3, <1>5, <1>6, <1>7, <2>3, <2>4, <2>5, <2>6 DEF IInv
<1>10. QED
  BY <1>8, <1>9

(* A worker reads _job: in a job that is not spoilt, that job. *)
LEMMA LoadIInv == ASSUME IInv, NEW w \in Workers, Load(w) PROVE IInv'
<1>1. /\ UNCHANGED <<todo, done, exit, calls, job, main, index, ran, surplus, spoilt>>
      /\ pc[w] = "taken" /\ pc' = [pc EXCEPT ![w] = "run"]
      /\ mine' = [mine EXCEPT ![w] = job]
      /\ pc \in [Workers -> WorkerStates] /\ mine \in [Workers -> 0 .. Len(Jobs)]
      /\ job \in 0 .. Len(Jobs)
  BY SizeIsNat DEF Load, Goto, IInv, TypeOK, counters, history
<1>2. Size' = Size /\ Untaken' = Untaken /\ \A i : Reversed(i)' = Reversed(i)
  BY <1>1 DEF Size, Untaken, Reversed
<1>3. /\ Over' = Over /\ Held' = Held /\ Hand' = Hand
      /\ \A v \in Workers : pc'[v] \in {"taken", "run"} <=> pc[v] \in {"taken", "run"}
  BY <1>1 DEF Over, Held, Hand
<1>4. TypeOK'
  BY <1>1 DEF IInv, TypeOK, WorkerStates
<1>5. DoneCounts' /\ TodoCounts' /\ DoneBounded' /\ ClosedIsDone' /\ OpenHasJob'
  BY <1>1, <1>2, <1>3
  DEF IInv, DoneCounts, TodoCounts, DoneBounded, ClosedIsDone, OpenHasJob
<1>6. NothingLost'
  <2> SUFFICES ASSUME main \notin Posting, NEW i \in 0 .. Size - 1, i >= todo
               PROVE  \/ Reversed(i) \in ran
                      \/ \E v \in Workers :
                           /\ index[v] = i
                           /\ pc'[v] = "taken" \/ (pc'[v] = "run" /\ mine'[v] = job)
    BY <1>1, <1>2 DEF NothingLost
  <2>1. \/ Reversed(i) \in ran
        \/ \E v \in Workers :
             /\ index[v] = i
             /\ pc[v] = "taken" \/ (pc[v] = "run" /\ mine[v] = job)
    BY DEF IInv, NothingLost
  <2>2. QED
    BY <1>1, <2>1
<1>7. IndexIsNat' /\ NoTaskTwice' /\ CleanCounts' /\ CleanPost'
  BY <1>1, <1>2, <1>3 DEF IInv, IndexIsNat, NoTaskTwice, CleanCounts, CleanPost
<1>8. TakenIndex' /\ RanTaken'
  BY <1>1, <1>2, <1>3 DEF IInv, TakenIndex, RanTaken, Hand
<1>9. QED
  BY <1>4, <1>5, <1>6, <1>7, <1>8 DEF IInv

(* A running task is over. *)
LEMMA RunIInv == ASSUME IInv, NEW w \in Workers, Run(w) PROVE IInv'
<1>1. /\ UNCHANGED <<todo, done, exit, calls, job, main, index, mine, surplus, spoilt>>
      /\ pc[w] = "run" /\ pc' = [pc EXCEPT ![w] = "finish"] /\ w \in Held
      /\ pc \in [Workers -> WorkerStates] /\ index \in [Workers -> Int]
      /\ ran' = ran \cup (IF mine[w] = job THEN {Size - index[w] - 1} ELSE {})
  BY DEF Run, Goto, IInv, TypeOK, Reversed, counters, local, Held
<1>2. /\ Size' = Size /\ Untaken' = Untaken /\ Size \in Nat /\ Untaken \in Nat
      /\ \A i : Reversed(i)' = Reversed(i)
  BY <1>1, SizeIsNat DEF Size, Untaken, Reversed, IInv, TypeOK
<1>3. /\ pc' \in [Workers -> WorkerStates]
      /\ Over' = Over /\ Held' = Held
      /\ Hand' = Hand \ {w} /\ w \in Hand /\ Hand \subseteq Workers
  BY <1>1 DEF WorkerStates, Over, Held, Hand
<1>4. TypeOK'
  <2>1. index[w] \in Int /\ ran \subseteq Int
    BY <1>1 DEF IInv, TypeOK
  <2>2. Size - index[w] - 1 \in Int
    BY <1>2, <2>1
  <2>3. ran' \subseteq Int
    BY <1>1, <2>1, <2>2
  <2>4. QED
    BY <1>1, <1>3, <2>3 DEF IInv, TypeOK
<1>5. DoneCounts' /\ TodoCounts' /\ DoneBounded' /\ ClosedIsDone' /\ OpenHasJob'
  BY <1>1, <1>2, <1>3
  DEF IInv, DoneCounts, TodoCounts, DoneBounded, ClosedIsDone, OpenHasJob
<1>6. NothingLost'
  <2> SUFFICES ASSUME main \notin Posting, NEW i \in 0 .. Size - 1, i >= todo
               PROVE  \/ Size - i - 1 \in ran'
                      \/ \E v \in Workers :
                           /\ index[v] = i
                           /\ pc'[v] = "taken" \/ (pc'[v] = "run" /\ mine[v] = job)
    BY <1>1, <1>2 DEF NothingLost, Reversed
  <2>1. CASE Size - i - 1 \in ran
    BY <1>1, <2>1
  <2>2. CASE Size - i - 1 \notin ran
    <3>1. PICK v \in Workers :
                 /\ index[v] = i
                 /\ pc[v] = "taken" \/ (pc[v] = "run" /\ mine[v] = job)
      BY <2>2 DEF IInv, NothingLost, Reversed
    <3>2. QED
      BY <1>1, <3>1
  <2>3. QED
    BY <2>1, <2>2
<1>7. IndexIsNat'
  BY <1>1, <1>3 DEF IInv, IndexIsNat
<1>8. CASE spoilt
  BY <1>1, <1>4, <1>5, <1>6, <1>7, <1>8
  DEF IInv, CleanCounts, CleanPost, TakenIndex, RanTaken, NoTaskTwice
<1>9. CASE ~spoilt
  <2>1. CleanCounts' /\ CleanPost'
    BY <1>1, <1>2, <1>3 DEF IInv, CleanCounts, CleanPost
  <2>2. \A v \in Hand : /\ index[v] \in Int /\ index[v] >= Untaken /\ index[v] < Size
                        /\ pc[v] = "run" => mine[v] = job
    BY <1>1, <1>3, <1>9 DEF IInv, TakenIndex
  <2>3. ran' = ran \cup {Size - index[w] - 1}
    BY <1>1, <1>3, <2>2
  <2>4. TakenIndex'
    BY <1>1, <1>2, <1>3, <2>2 DEF TakenIndex
  <2>5. RanTaken'
    <3>1. \A i \in ran : i >= 0 /\ i < Size - Untaken
      BY <1>9 DEF IInv, RanTaken
    <3>2. Size - index[w] - 1 >= 0 /\ Size - index[w] - 1 < Size - Untaken
      BY <1>2, <1>3, <2>2
    <3>3. QED
      BY <1>2, <2>3, <3>1, <3>2 DEF RanTaken
  <2>6. NoTaskTwice'
    <3>1. \A v \in Hand : /\ Size - index[v] - 1 \notin ran
                          /\ \A u \in Hand \ {v} : index[u] # index[v]
      BY <1>9 DEF IInv, NoTaskTwice, Reversed, Hand
    <3>2. \A v \in Hand' : /\ Size - index[v] - 1 \notin ran'
                           /\ \A u \in Hand' \ {v} : index[u] # index[v]
      BY <1>2, <1>3, <2>2, <2>3, <3>1
    <3>3. QED
      BY <1>1, <1>2, <3>2 DEF NoTaskTwice, Reversed, Hand
  <2>7. QED
    BY <1>4, <1>5, <1>6, <1>7, <2>1, <2>4, <2>5, <2>6 DEF IInv
<1>10. QED
  BY <1>8, <1>9

(* A worker accounts for the task it has run. *)
LEMMA FinishIInv ==
  ASSUME IInv, NEW w \in Workers, FinishLast(w) \/ Finish(w)
  PROVE  IInv'
<1>1. /\ UNCHANGED <<todo, exit, calls, job, main, index, mine, ran, surplus, spoilt>>
      /\ done' = done - 1 /\ done \in Int
      /\ Size' = Size /\ Untaken' = Untaken /\ Size \in Nat
      /\ \A i : Reversed(i)' = Reversed(i)
  BY SizeIsNat DEF FinishLast, Finish, Size, Untaken, Reversed, IInv, TypeOK, local, history
<1>2. /\ pc' \in [Workers -> WorkerStates]
      /\ Over' = Over /\ Hand' = Hand
      /\ Held' = Held \ {w} /\ w \in Held /\ Held \subseteq Workers
      /\ \A v \in Workers : /\ pc'[v] = "run" <=> pc[v] = "run"
                            /\ pc'[v] = "taken" <=> pc[v] = "taken"
  BY DEF FinishLast, Finish, Goto, IInv, TypeOK, WorkerStates, Over, Held, Hand
<1>3. Cardinality(Held') = Cardinality(Held) - 1
  BY <1>2, OneLess
<1>4. TypeOK'
  BY <1>1, <1>2 DEF IInv, TypeOK
<1>5. DoneCounts'
  <2>1. todo \in Int /\ surplus \in Nat
    BY DEF IInv, TypeOK
  <2>2. main \notin Posting => done + surplus = todo + Cardinality(Over) + Cardinality(Held)
    BY DEF IInv, DoneCounts, Posting
  <2>3. main \notin Posting =>
          done' + surplus' = todo' + Cardinality(Over') + Cardinality(Held')
    <3>1. Cardinality(Over') = Cardinality(Over)
      BY <1>2
    <3>2. todo' = todo /\ surplus' = surplus
      BY <1>1
    <3>3. done' = done - 1 /\ done \in Int
      BY <1>1
    <3>4. Cardinality(Over) \in Int /\ Cardinality(Held) \in Int
      BY CountsAreNat
    <3>5. QED
      BY <1>3, <2>1, <2>2, <3>1, <3>2, <3>3, <3>4
  <2>4. QED
    BY <1>1, <2>3 DEF DoneCounts, Posting
<1>6. TodoCounts' /\ DoneBounded' /\ ClosedIsDone' /\ OpenHasJob'
  BY <1>1, <1>2 DEF IInv, TodoCounts, DoneBounded, ClosedIsDone, OpenHasJob
<1>7. NothingLost' /\ IndexIsNat' /\ NoTaskTwice'
  BY <1>1, <1>2 DEF IInv, NothingLost, IndexIsNat, NoTaskTwice
<1>8. CleanCounts' /\ CleanPost'
  BY <1>1, <1>2 DEF IInv, CleanCounts, CleanPost
<1>9. TakenIndex' /\ RanTaken'
  <2>1. \A v \in Hand : pc'[v] = "run" <=> pc[v] = "run"
    BY <1>2 DEF Hand
  <2>2. QED
    BY <1>1, <1>2, <2>1 DEF IInv, TakenIndex, RanTaken
<1>10. QED
  BY <1>4, <1>5, <1>6, <1>7, <1>8, <1>9 DEF IInv

-----------------------------------------------------------------------------
LEMMA StepIInv == IInv /\ [Next]_vars => IInv'
<1> SUFFICES ASSUME IInv, [Next]_vars PROVE IInv'
  OBVIOUS
<1>1. CASE MainStep
  BY <1>1, SkipEmptyIInv, SubmitIInv, ResetIInv, PostIInv, MainMoves DEF MainStep
<1>2. CASE \E w \in Workers : WorkerStep(w)
  BY <1>2, WorkerMoves, TakeIInv, OverMoves, LoadIInv, RunIInv, FinishIInv, NotifyMainIInv
  DEF WorkerStep
<1>3. CASE Spurious
  BY <1>3, MainMoves, WorkerMoves DEF Spurious
<1>4. CASE UNCHANGED vars
  BY <1>4, StutterIInv
<1>5. QED
  BY <1>1, <1>2, <1>3, <1>4 DEF Next, Gone

LEMMA InductiveInvariant == Spec => []IInv
<1>1. QED
  BY InitIInv, StepIInv, PTL DEF Spec

(* The counters and program counters keep their types; what a job finds    *)
(* left of the one before is never less than nothing.                      *)
THEOREM TypeCorrect == Spec => []TypeOK
<1>1. IInv => TypeOK
  BY DEF IInv
<1>2. QED
  BY <1>1, InductiveInvariant, PTL

(* A worker's index is never negative, and is one of the job unless the    *)
(* job is spoilt.                                                          *)
THEOREM IndexCorrect == Spec => []IndexInJob
<1>1. IInv => IndexInJob
  BY DEF IInv, IndexIsNat, TakenIndex, IndexInJob, Hand
<1>2. QED
  BY <1>1, InductiveInvariant, PTL

(* No task of a job that is not spoilt is run twice. *)
THEOREM OnceCorrect == Spec => []NoTaskTwice
<1>1. IInv => NoTaskTwice
  BY DEF IInv
<1>2. QED
  BY <1>1, InductiveInvariant, PTL

(* _done and what is left of the job differ by what the job found left of  *)
(* the one before, whatever the workers do.                                *)
THEOREM DoneCorrect == Spec => []DoneCounts
<1>1. IInv => DoneCounts
  BY DEF IInv
<1>2. QED
  BY <1>1, InductiveInvariant, PTL

(* The tasks that are missing are tasks nobody took, or in the hands of a  *)
(* worker.                                                                 *)
LEMMA MissingIsLeft ==
  ASSUME IInv, main \notin Posting
  PROVE  /\ Cardinality(Missing) \in Nat
         /\ Cardinality(Missing) <= Untaken + Cardinality(Held)
<1>0. Size \in Nat /\ Untaken \in Nat /\ todo \in Int /\ index \in [Workers -> Int]
  BY SizeIsNat DEF IInv, TypeOK, Untaken
<1> DEFINE low == (Size - Untaken) .. (Size - 1)
           slot == [w \in Held |-> Size - index[w] - 1]
           high == {slot[w] : w \in Held}
<1>1. Missing \subseteq low \cup high
  <2> SUFFICES ASSUME NEW i \in 0 .. Size - 1, i \notin ran, i \notin low
               PROVE  i \in high
    BY DEF Missing
  <2>1. i < Size - Untaken
    BY <1>0
  <2>2. Size - i - 1 \in 0 .. Size - 1 /\ Size - i - 1 >= todo
    BY <1>0, <2>1 DEF Untaken
  <2>3. Reversed(Size - i - 1) = i
    BY <1>0 DEF Reversed
  <2>4. PICK w \in Workers : index[w] = Size - i - 1 /\ pc[w] \in {"taken", "run"}
    BY <2>2, <2>3 DEF IInv, NothingLost
  <2>5. w \in Held /\ slot[w] = i
    BY <1>0, <2>4 DEF Held
  <2>6. QED
    BY <2>5
<1>2. IsFiniteSet(low) /\ Cardinality(low) = Untaken
  <2>1. Size - Untaken \in Int /\ Size - 1 \in Int
    BY <1>0
  <2>2. /\ IsFiniteSet(low)
        /\ Cardinality(low) = IF Size - Untaken > Size - 1 THEN 0
                              ELSE (Size - 1) - (Size - Untaken) + 1
    BY <2>1, FS_Interval
  <2>3. QED
    BY <1>0, <2>2
<1>3. IsFiniteSet(high) /\ Cardinality(high) <= Cardinality(Held)
  <2>1. Held \subseteq Workers
    BY DEF Held
  <2>2. IsFiniteSet(Held)
    BY <2>1, FS_Subset, WorkersAssumption
  <2>3. slot \in Surjection(Held, high)
    BY DEF Surjection
  <2>4. QED
    BY <2>2, <2>3, FS_Surjection
<1>4. /\ IsFiniteSet(low \cup high)
      /\ Cardinality(low \cup high) <= Untaken + Cardinality(Held)
  <2>1. IsFiniteSet(low \cap high)
    BY <1>2, FS_Subset
  <2>2. Cardinality(low \cap high) \in Nat /\ Cardinality(high) \in Nat
    BY <1>3, <2>1, FS_CardinalityType
  <2>3. /\ IsFiniteSet(low \cup high)
        /\ Cardinality(low \cup high)
             = Cardinality(low) + Cardinality(high) - Cardinality(low \cap high)
    BY <1>2, <1>3, FS_Union
  <2>4. QED
    BY <1>0, <1>2, <1>3, <2>2, <2>3, CountsAreNat
<1>5. IsFiniteSet(Missing) /\ Cardinality(Missing) <= Cardinality(low \cup high)
  BY <1>1, <1>4, FS_Subset
<1>6. Cardinality(Missing) \in Nat /\ Cardinality(low \cup high) \in Nat
  BY <1>4, <1>5, FS_CardinalityType
<1>7. QED
  BY <1>0, <1>4, <1>5, <1>6, CountsAreNat

(* So no more are missing when _done is not above 0 than the job found     *)
(* left of the one before.                                                 *)
LEMMA DoneMeansSurplus ==
  ASSUME IInv, main \notin Posting, done <= 0
  PROVE  Cardinality(Missing) <= surplus /\ Cardinality(Held) <= surplus
<1>1. done + surplus = todo + Cardinality(Over) + Cardinality(Held)
  BY DEF IInv, DoneCounts, Posting
<1>2. todo + Cardinality(Over) >= 0
  BY DEF IInv, TodoCounts
<1>3. todo \in Int /\ done \in Int /\ surplus \in Nat
  BY DEF IInv, TypeOK
<1>4. Cardinality(Over) \in Int /\ Cardinality(Over) >= 0
      /\ Cardinality(Held) \in Int /\ Cardinality(Held) >= 0
  BY CountsAreNat
<1>5. Cardinality(Held) <= surplus /\ todo + Cardinality(Held) <= surplus
  BY <1>1, <1>2, <1>3, <1>4
<1>6. Untaken + Cardinality(Held) <= surplus
  BY <1>3, <1>4, <1>5 DEF Untaken
<1>7. QED
  BY <1>3, <1>4, <1>5, <1>6, MissingIsLeft DEF Untaken

(* notify_and_wait returns with every task over, but for as many as the    *)
(* job found left of the one before.                                       *)
THEOREM ReturnCorrect == Spec => []ReturnIsComplete
<1>1. IInv => ReturnIsComplete
  <2> SUFFICES ASSUME IInv, main = "idle"
               PROVE  Cardinality(Missing) <= surplus /\ Cardinality(Held) <= surplus
    BY DEF ReturnIsComplete
  <2>1. main \notin Posting /\ done <= 0
    BY DEF IInv, ClosedIsDone, Closed, Posting
  <2>2. QED
    BY <2>1, DoneMeansSurplus
<1>2. QED
  BY <1>1, InductiveInvariant, PTL

-----------------------------------------------------------------------------
(* Until a job with tasks was posted no worker does anything, so that job  *)
(* finds nothing left.                                                     *)
Resting == {"lock", "waiting", "exited"}
FirstIsClean ==
  (\A j \in 1 .. Posted : Jobs[j] <= 0) =>
    /\ todo = 0
    /\ ran = {}
    /\ \A w \in Workers : pc[w] \in Resting
    /\ main = "post" => done = Size

LEMMA PostedIsNat ==
  IInv => Posted \in 0 .. Len(Jobs) /\ (main \in Posting => Posted + 1 = calls)
<1> SUFFICES ASSUME IInv
             PROVE  Posted \in 0 .. Len(Jobs) /\ (main \in Posting => Posted + 1 = calls)
  OBVIOUS
<1>1. calls \in Nat /\ calls <= Len(Jobs) /\ Len(Jobs) \in Nat
  BY SizeIsNat DEF IInv, TypeOK
<1>2. main \in Posting => calls > 0
  BY <1>1 DEF IInv, TypeOK, OpenHasJob, Posting, Closed
<1>3. QED
  BY <1>1, <1>2 DEF Posted, Posting

LEMMA FirstStep == IInv /\ FirstIsClean /\ [Next]_vars => FirstIsClean'
<1> SUFFICES ASSUME IInv, FirstIsClean, [Next]_vars,
                    \A j \in 1 .. Posted' : Jobs[j] <= 0
             PROVE  (/\ todo = 0
                     /\ ran = {}
                     /\ \A w \in Workers : pc[w] \in Resting
                     /\ main = "post" => done = Size)'
  BY DEF FirstIsClean
<1>0. Posted \in 0 .. Len(Jobs) /\ Len(Jobs) \in Nat /\ calls \in Nat /\ job \in Nat
      /\ (main \in Posting => Posted + 1 = calls)
  BY PostedIsNat, SizeIsNat DEF IInv, TypeOK
<1>1. ~Post
  <2> SUFFICES ASSUME Post PROVE FALSE
    OBVIOUS
  <2>1. Posted' = calls /\ calls > 0 /\ Jobs[calls] = Size /\ Size > 0
    BY <1>0 DEF Post, GotoMain, IInv, OpenHasJob, Closed, Posted, Size
  <2>2. Size \in Nat
    BY SizeIsNat DEF IInv
  <2>3. QED
    BY <1>0, <2>1, <2>2
<1>2. Posted' \in Nat /\ Posted' >= Posted
  BY <1>0, <1>1 DEF Next, MainStep, WorkerStep, Spurious, Gone, SkipEmpty, Submit,
     Reset, NotifyWorkers, SeeDone, SeePending, Block, SetExit, NotifyExit, Join,
     Leave, Enter, Wait, Take, TakeNone, Restore, Load, Run, FinishLast, Finish,
     NotifyMain, SpuriousMain, SpuriousWorker, GotoMain, vars, Posted, Posting
<1>3. \A j \in 1 .. Posted : Jobs[j] <= 0
  BY <1>0, <1>2
<1>4. /\ todo = 0
      /\ ran = {}
      /\ \A w \in Workers : pc[w] \in Resting
      /\ main = "post" => done = Size
  BY <1>3 DEF FirstIsClean
<1>5. CASE MainStep \/ SpuriousMain \/ UNCHANGED vars
  <2>1. \A w \in Workers : pc'[w] \in Resting
    <3>1. WakeAll \/ pc' = pc
      BY <1>5 DEF MainStep, SkipEmpty, Submit, Reset, Post, NotifyWorkers, SeeDone,
         SeePending, Block, SetExit, NotifyExit, Join, SpuriousMain, vars
    <3>2. QED
      BY <1>4, <3>1 DEF WakeAll, Resting
  <2>2. todo' = 0 /\ ran' = {}
    BY <1>1, <1>4, <1>5 DEF MainStep, SkipEmpty, Submit, Reset, NotifyWorkers, SeeDone,
       SeePending, Block, SetExit, NotifyExit, Join, SpuriousMain, vars, counters, history
  <2>3. main' = "post" => done' = Size'
    BY <1>1, <1>4, <1>5 DEF MainStep, SkipEmpty, Submit, Reset, NotifyWorkers, SeeDone,
       SeePending, Block, SetExit, NotifyExit, Join, SpuriousMain, vars, counters,
       GotoMain, Size
  <2>4. QED
    BY <2>1, <2>2, <2>3
<1>6. CASE \E w \in Workers : WorkerStep(w) \/ SpuriousWorker(w)
  <2>1. PICK w \in Workers : Leave(w) \/ Wait(w) \/ SpuriousWorker(w)
    BY <1>4, <1>6 DEF WorkerStep, Enter, Take, TakeNone, Restore, Load, Run,
       FinishLast, Finish, NotifyMain, Goto, Resting
  <2>2. UNCHANGED <<todo, done, job, main, ran>> /\ Size' = Size
    BY <2>1 DEF Leave, Wait, SpuriousWorker, counters, history, Size
  <2>3. \A v \in Workers : pc'[v] \in Resting
    BY <1>4, <2>1 DEF Leave, Wait, SpuriousWorker, Goto, Resting, IInv, TypeOK
  <2>4. QED
    BY <1>4, <2>2, <2>3
<1>7. QED
  BY <1>5, <1>6 DEF Next, Spurious, Gone

LEMMA FirstInvariant == Spec => []FirstIsClean
<1>1. Init => FirstIsClean
  BY DEF Init, FirstIsClean, Resting
<1>2. QED
  BY <1>1, FirstStep, InductiveInvariant, PTL DEF Spec

-----------------------------------------------------------------------------
(* The refinement: what the steps do to the abstract state. *)

LEMMA ContractVars ==
  ASSUME UNCHANGED <<Posted, Phase, Begun, Finished>>
  PROVE  UNCHANGED Contract!vars
  BY DEF Contract!vars

(* A step that moves neither a task nor a job. *)
LEMMA ContractStutters ==
  ASSUME UNCHANGED <<todo, job, ran, spoilt>>, Posted' = Posted, Phase' = Phase
  PROVE  UNCHANGED Contract!vars
<1>1. Size' = Size /\ PostedSize' = PostedSize /\ Untaken' = Untaken
  BY DEF Size, PostedSize, Untaken
<1>2. QED
  BY <1>1, ContractVars DEF Begun, Finished

(* Of a spoilt job only what the main thread does is seen. *)
LEMMA SpoiltStutters ==
  ASSUME spoilt, spoilt', Posted' = Posted, Phase' = Phase
  PROVE  UNCHANGED Contract!vars
  BY ContractVars DEF Begun, Finished

(* What the job before left is what the one that is posted finds. *)
LEMMA PostRefines ==
  ASSUME IInv, FirstIsClean, Post
  PROVE  Contract!Next
<1>1. /\ main = "post" /\ main' = "notify" /\ todo' = Size
      /\ UNCHANGED <<done, calls, job, pc, ran>>
      /\ surplus' = (Size - done) + Cardinality(Over) + Cardinality(Held)
  BY DEF Post, GotoMain, local
<1>2. spoilt' \in BOOLEAN /\ (spoilt' <=> (surplus' # 0 \/ ran # {}))
  BY Zenon DEF Post
<1>3. /\ Posted + 1 = calls /\ Posted \in Nat /\ calls \in 1 .. Len(Jobs)
      /\ Posted' = Posted + 1 /\ job = calls
      /\ Size = Jobs[Posted + 1] /\ Size > 0 /\ Size \in Nat
  <2>1. Posted \in Nat /\ Posted + 1 = calls /\ calls <= Len(Jobs) /\ Len(Jobs) \in Nat
    BY <1>1, PostedIsNat, SizeIsNat DEF IInv, TypeOK, Posting
  <2>2. job = calls /\ Size > 0 /\ Size \in Nat
    BY <1>1, SizeIsNat DEF IInv, OpenHasJob, Closed
  <2>3. QED
    BY <1>1, <2>1, <2>2 DEF Posted, Size
<1>4. Size' = Size /\ Untaken' = Size
  BY <1>1, <1>3 DEF Size, Untaken
<1>5. Phase = "idle"
  BY <1>1 DEF Phase
<1>6. CASE spoilt'
  <2>1. Phase' = "spoilt" /\ Begun' = 0 /\ Finished' = {}
    BY <1>1, <1>6 DEF Phase, Begun, Finished
  <2>2. \E j \in 1 .. Posted : Jobs[j] > 0
    <3> SUFFICES ASSUME \A j \in 1 .. Posted : ~(Jobs[j] > 0) PROVE FALSE
      OBVIOUS
    <3>1. \A j \in 1 .. Posted : Jobs[j] <= 0
      BY <1>3, PoolJobsAssumption
    <3>2. /\ done = Size /\ ran = {}
          /\ Over = {} /\ Held = {}
      BY <1>1, <3>1 DEF FirstIsClean, Resting, Over, Held
    <3>3. surplus' = 0
      BY <1>1, <1>3, <3>2, FS_EmptySet
    <3>4. QED
      BY <1>2, <1>6, <3>2, <3>3
  <2>3. Contract!SubmitSpoilt
    BY <1>3, <1>5, <2>1, <2>2 DEF Contract!SubmitSpoilt
  <2>4. QED
    BY <2>3 DEF Contract!Next
<1>7. CASE ~spoilt'
  <2>1. Phase' = "open"
    BY <1>1, <1>7 DEF Phase
  <2>2. Begun' = 0 /\ Finished' = {}
    BY <1>1, <1>2, <1>3, <1>4, <1>7, <2>1 DEF Begun, Finished
  <2>3. Contract!Submit
    BY <1>3, <1>5, <2>1, <2>2 DEF Contract!Submit
  <2>4. QED
    BY <2>3 DEF Contract!Next
<1>8. QED
  BY <1>6, <1>7

(* The call returns: from a job that is not spoilt with all tasks over. *)
LEMMA ReturnRefines ==
  ASSUME IInv, SeeDone
  PROVE  Contract!Next
<1>1. /\ main = "check" /\ main' = "idle" /\ done = 0
      /\ main \notin Posting /\ main \notin Closed
      /\ UNCHANGED <<todo, calls, job, ran, spoilt>>
  BY DEF SeeDone, GotoMain, Posting, Closed, counters, history
<1>2. /\ Posted' = Posted /\ Posted = calls /\ job = calls /\ calls # 0
      /\ PostedSize = Size /\ Size' = Size /\ PostedSize' = Size /\ Size \in Nat
      /\ Untaken' = Untaken
  BY <1>1, SizeIsNat DEF IInv, OpenHasJob, Posted, PostedSize, Size, Untaken
<1>3. Phase' = "idle"
  BY <1>1 DEF Phase
<1>4. CASE spoilt
  <2>1. Phase = "spoilt" /\ Begun' = Begun /\ Finished' = Finished
    BY <1>1, <1>4 DEF Phase, Begun, Finished
  <2>2. Contract!ReturnSpoilt
    BY <1>2, <1>3, <2>1 DEF Contract!ReturnSpoilt
  <2>3. QED
    BY <2>2 DEF Contract!Next
<1>5. CASE ~spoilt
  <2>1. Phase = "open"
    BY <1>1, <1>5 DEF Phase
  <2>2. Untaken = 0 /\ todo <= 0 /\ Hand = {} /\ todo \in Int
    BY <1>1, <1>5, ClosedIsEmpty DEF IInv, TypeOK
  <2>3. ran = 0 .. Size - 1
    <3>1. \A i \in 0 .. Size - 1 : i \in ran
      <4> SUFFICES ASSUME NEW i \in 0 .. Size - 1 PROVE i \in ran
        OBVIOUS
      <4>1. Size - i - 1 \in 0 .. Size - 1 /\ Size - i - 1 >= todo
        BY <1>2, <2>2
      <4>2. Reversed(Size - i - 1) = i
        BY <1>2 DEF Reversed
      <4>3. QED
        BY <1>1, <2>2, <4>1, <4>2 DEF IInv, NothingLost, Hand
    <3>2. \A i \in ran : i \in 0 .. Size - 1
      BY <1>2, <1>5, <2>2 DEF IInv, TypeOK, RanTaken
    <3>3. QED
      BY <3>1, <3>2
  <2>4. Begun = Size /\ Begun' = Size /\ Finished = ran /\ Finished' = ran
    BY <1>1, <1>2, <1>3, <1>5, <2>1, <2>2, <2>3 DEF Begun, Finished
  <2>5. Contract!Size = Size
    BY <1>1, <1>2 DEF Contract!Size, PostedSize
  <2>6. Contract!Return
    BY <1>2, <1>3, <2>1, <2>3, <2>4, <2>5 DEF Contract!Return
  <2>7. QED
    BY <2>6 DEF Contract!Next
<1>6. QED
  BY <1>4, <1>5

(* The main thread's other steps. *)
LEMMA MainRefines ==
  ASSUME IInv, FirstIsClean, MainStep
  PROVE  Contract!Next \/ UNCHANGED Contract!vars
<1>1. CASE SkipEmpty
  <2>1. /\ main = "idle" /\ UNCHANGED <<todo, job, main, ran, spoilt>>
        /\ calls' = calls + 1 /\ calls < Len(Jobs) /\ calls \in Nat
        /\ Jobs[calls + 1] = 0
    BY <1>1, SizeIsNat, PoolJobsAssumption
    DEF SkipEmpty, IInv, TypeOK, counters, history
  <2>2. /\ Posted = calls /\ Posted' = calls + 1 /\ PostedSize' = 0
        /\ Phase = "idle" /\ Phase' = "idle"
    BY <2>1 DEF Posted, PostedSize, Phase
  <2>3. Begun' = 0 /\ Finished' = {}
    BY <2>2 DEF Begun, Finished
  <2>4. Contract!SkipEmpty
    BY <2>1, <2>2, <2>3 DEF Contract!SkipEmpty
  <2>5. QED
    BY <2>4 DEF Contract!Next
<1>2. CASE Submit \/ Reset
  <2>1. /\ main \in {"idle", "reset"} /\ main' \in Posting
        /\ UNCHANGED <<todo, spoilt>> /\ calls \in Nat
        /\ Submit => main = "idle" /\ calls' = calls + 1
        /\ Reset => main = "reset" /\ calls' = calls
    BY <1>2, SizeIsNat DEF Submit, Reset, GotoMain, Posting, counters, history,
                            IInv, TypeOK
  <2>2. Phase = "idle" /\ Phase' = "idle" /\ Posted' = Posted
    BY <1>2, <2>1 DEF Phase, Posted, Posting
  <2>3. PostedSize' = PostedSize
    BY <2>2 DEF PostedSize
  <2>4. QED
    BY <2>1, <2>2, <2>3, ContractVars DEF Begun, Finished
<1>3. CASE Post
  BY <1>3, PostRefines
<1>4. CASE SeeDone
  BY <1>4, ReturnRefines
<1>5. CASE SetExit
  <2>1. /\ main = "idle" /\ main' = "exit" /\ UNCHANGED <<calls, spoilt>>
    BY <1>5 DEF SetExit, GotoMain, history
  <2>2. Phase = "idle" /\ Phase' = "gone" /\ Posted' = Posted
    BY <2>1 DEF Phase, Posted
  <2>3. PostedSize' = PostedSize
    BY <2>2 DEF PostedSize
  <2>4. Begun' = Begun /\ Finished' = Finished
    BY <2>1, <2>2, <2>3 DEF Begun, Finished
  <2>5. Contract!Shutdown
    BY <2>2, <2>4 DEF Contract!Shutdown
  <2>6. QED
    BY <2>5 DEF Contract!Next
<1>6. CASE NotifyWorkers \/ SeePending \/ Block \/ NotifyExit \/ Join
  <2>1. UNCHANGED <<todo, calls, job, ran, spoilt>>
    BY <1>6 DEF NotifyWorkers, SeePending, Block, NotifyExit, Join, counters, history
  <2>2. Phase' = Phase /\ Posted' = Posted
    BY <1>6, <2>1 DEF NotifyWorkers, SeePending, Block, NotifyExit, Join, GotoMain,
                      Phase, Posted
  <2>3. QED
    BY <2>1, <2>2, ContractStutters
<1>7. QED
  BY <1>1, <1>2, <1>3, <1>4, <1>5, <1>6 DEF MainStep

(* The workers' steps: a task begins with Take and ends with Run. *)
LEMMA WorkerRefines ==
  ASSUME IInv, NEW w \in Workers, WorkerStep(w) \/ SpuriousWorker(w)
  PROVE  Contract!Next \/ UNCHANGED Contract!vars
<1>0. /\ Size \in Nat /\ todo \in Int /\ Untaken \in Nat
      /\ UNCHANGED <<calls, job, spoilt>> /\ Size' = Size
      /\ main' = main \/ (main = "blocked" /\ main' = "check")
  BY SizeIsNat DEF IInv, TypeOK, Size, Untaken, WorkerStep, Leave, Enter, Wait,
     SpuriousWorker, Take, TakeNone, Restore, Load, Run, FinishLast, Finish,
     NotifyMain, history
<1>1. Posted' = Posted /\ Phase' = Phase /\ PostedSize' = PostedSize
  BY <1>0 DEF Posted, Phase, PostedSize
<1>2. CASE spoilt
  BY <1>0, <1>1, <1>2, SpoiltStutters
<1>3. CASE Take(w) /\ ~spoilt
  <2>1. todo > 0 /\ todo' = todo - 1 /\ ran' = ran
    BY <1>3 DEF Take, history
  <2>2. main \notin Closed /\ main \notin Posting
    <3>1. main \notin Closed
      BY <1>0, <1>3, <2>1, ClosedIsEmpty
    <3>2. QED
      BY <1>0, <1>3, <2>1, <3>1 DEF IInv, CleanPost
  <2>3. Phase = "open" /\ Untaken = todo /\ Untaken' = todo - 1
    BY <1>0, <1>3, <2>1, <2>2 DEF Phase, Closed, Posting, Untaken
  <2>4. PostedSize = Size /\ Contract!Size = Size
    BY <2>2 DEF IInv, OpenHasJob, Posted, PostedSize, Size, Contract!Size, Posting
  <2>5. Begun < Size /\ Begun' = Begun + 1 /\ Finished' = Finished
    BY <1>0, <1>1, <1>3, <2>1, <2>3 DEF Begun, Finished
  <2>6. Contract!Begin
    BY <1>1, <2>3, <2>4, <2>5 DEF Contract!Begin
  <2>7. QED
    BY <2>6 DEF Contract!Next
<1>4. CASE Run(w) /\ ~spoilt
  <2>1. /\ pc[w] = "run" /\ todo' = todo /\ w \in Hand /\ w \in Held
        /\ ran' = ran \cup (IF mine[w] = job THEN {Reversed(index[w])} ELSE {})
    BY <1>4 DEF Run, Goto, Hand, Held, counters
  <2>2. main \notin Closed /\ main \notin Posting
    <3>1. main \notin Closed
      BY <1>4, <2>1, ClosedIsEmpty
    <3>2. QED
      BY <1>4, <2>1, <3>1 DEF IInv, CleanPost
  <2>3. mine[w] = job /\ index[w] \in Int /\ index[w] >= Untaken /\ index[w] < Size
    BY <1>4, <2>1 DEF IInv, TypeOK, TakenIndex
  <2>4. Phase = "open" /\ Untaken' = Untaken
    BY <1>4, <2>1, <2>2 DEF Phase, Closed, Posting, Untaken
  <2>5. /\ Begun = Size - Untaken /\ Begun' = Begun
        /\ Finished = ran /\ Finished' = ran \cup {Reversed(index[w])}
    BY <1>0, <1>1, <1>4, <2>1, <2>3, <2>4 DEF Begun, Finished
  <2>6. Reversed(index[w]) \in 0 .. Begun - 1 /\ Reversed(index[w]) \notin ran
    BY <1>0, <1>4, <2>1, <2>3, <2>5 DEF Reversed, IInv, NoTaskTwice
  <2>7. Contract!End(Reversed(index[w]))
    BY <1>1, <2>4, <2>5, <2>6 DEF Contract!End
  <2>8. QED
    BY <2>6, <2>7 DEF Contract!Next
<1>5. CASE (TakeNone(w) \/ Restore(w)) /\ ~spoilt
  <2>1. UNCHANGED <<ran, spoilt>>
    BY <1>5 DEF TakeNone, Restore, history
  <2>2. todo <= 0 /\ todo' <= 0
    BY <1>5, OverIsNone
  <2>3. Untaken' = 0 /\ Untaken = 0
    <3>1. todo' \in Int
      BY <1>0, <1>5 DEF TakeNone, Restore
    <3>2. QED
      BY <1>0, <2>2, <3>1 DEF Untaken
  <2>4. QED
    BY <1>0, <1>1, <2>1, <2>3, ContractVars DEF Begun, Finished
<1>6. CASE Leave(w) \/ Enter(w) \/ Wait(w) \/ SpuriousWorker(w) \/ Load(w)
             \/ FinishLast(w) \/ Finish(w) \/ NotifyMain(w)
  <2>1. UNCHANGED <<todo, ran>>
    BY <1>6 DEF Leave, Enter, Wait, SpuriousWorker, Load, FinishLast, Finish,
                NotifyMain, counters, history
  <2>2. QED
    BY <1>0, <1>1, <2>1, ContractStutters
<1>7. QED
  BY <1>2, <1>3, <1>4, <1>5, <1>6 DEF WorkerStep

(* The pool keeps the promise of ParallelFor, whenever jobs are posted. *)
THEOREM Refinement == Spec => ImplementsParallelFor
<1>1. Init => Contract!Init
  <2> SUFFICES ASSUME Init PROVE Contract!Init
    OBVIOUS
  <2>1. Posted = 0 /\ PostedSize = 0 /\ Phase = "idle"
    BY DEF Init, Posted, PostedSize, Phase
  <2>2. Begun = 0 /\ Finished = {}
    BY <2>1 DEF Init, Begun, Finished
  <2>3. QED
    BY <2>1, <2>2 DEF Contract!Init
<1>2. IInv /\ FirstIsClean /\ [Next]_vars => [Contract!Next]_(Contract!vars)
  <2> SUFFICES ASSUME IInv, FirstIsClean, [Next]_vars
               PROVE  Contract!Next \/ UNCHANGED Contract!vars
    OBVIOUS
  <2>1. CASE MainStep
    BY <2>1, MainRefines
  <2>2. CASE \E w \in Workers : WorkerStep(w) \/ SpuriousWorker(w)
    BY <2>2, WorkerRefines
  <2>3. CASE SpuriousMain \/ UNCHANGED vars
    <3>1. UNCHANGED <<todo, calls, job, ran, spoilt>>
      BY <2>3 DEF SpuriousMain, vars, counters, history
    <3>2. main' = main \/ (main = "blocked" /\ main' = "check")
      BY <2>3 DEF SpuriousMain, GotoMain, vars
    <3>3. Phase' = Phase /\ Posted' = Posted
      BY <3>1, <3>2 DEF Phase, Posted
    <3>4. QED
      BY <3>1, <3>3, ContractStutters
  <2>4. QED
    BY <2>1, <2>2, <2>3 DEF Next, Spurious, Gone
<1>3. QED
  BY <1>1, <1>2, InductiveInvariant, FirstInvariant, PTL
  DEF Spec, ImplementsParallelFor, Contract!Spec

=============================================================================
