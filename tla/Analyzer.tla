------------------------------ MODULE Analyzer ------------------------------
(***************************************************************************)
(* sem::Analyzer on com::ThreadPool: the job that registers the interface  *)
(* of every bundle (task 0) and analyses each of them (task k is for the   *)
(* k-th bundle).  The tasks share the InterfaceMap, _interfaceAtomCount    *)
(* and the static lock of TNode<LIT_INTEGER>; each worker has a Context of *)
(* its own, which it keeps from one task to the next.  The pool is the one *)
(* ParallelFor promises for a job that is not spoilt by the one before it. *)
(*                                                                         *)
(* A module has an exported and a hidden definition and uses both          *)
(* definitions of every module it imports.  What a use is bound to is told *)
(* by the tree it points into.  A worker visits one thing per step.        *)
(***************************************************************************)
EXTENDS Integers, Sequences, SequencesExt

CONSTANTS
  Workers,     \* the threads there may be
  Modules,
  Bundles,     \* how many bundles there are
  Makes,       \* bound: how many make requests are served
  Instances    \* the pools, bundles, imports and literals to look at

ASSUME BundlesAssumption == Bundles \in Nat \ {0} /\ Makes \in Nat
ASSUME InstancesAssumption ==
  \A i \in Instances :
    /\ i.pool \subseteq Workers
    /\ i.bundles \in [1 .. Bundles -> Seq(Modules)]
    /\ i.imports \in [Modules -> Seq(Modules)]
    /\ i.literals \subseteq Modules

VARIABLES
  instance,            \* the instance; constant
  job, phase, begun, finished,     \* the thread pool, as in ParallelFor
  task,                \* the task of each worker
  turn,                \* the bundle or module its task has come to
  visited,             \* how much of that one it has visited
  interfaceAtomCount,  \* _interfaceAtomCount
  asSimpleMap,         \* the keys of InterfaceMap::_asSimpleMap
  emplacing,           \* the keys being emplaced
  identified,          \* the modules whose interface nodes have their ids
  facts,               \* each worker's Context::_factMap
  bound,               \* what each use of a module is bound to
  literal,             \* TNode<LIT_INTEGER>: ASTED, BOUND, or whose lock it has
  foreign,             \* history: the schedulers a worker used the locks of
  aborted              \* an assert failed

pool == <<job, phase, begun, finished>>
shared == <<interfaceAtomCount, asSimpleMap, emplacing, identified>>
place == <<task, turn, visited>>
vars == <<instance, pool, place, shared, facts, bound, literal, foreign, aborted>>

Pool == INSTANCE ParallelFor WITH Jobs <- [i \in 1 .. Makes |-> Bundles + 1]

Idle == -1      \* no task

Definitions == Modules \X {"exported", "hidden"}

(* The tree a node is in: a bundle, by its number, or the InterfaceMap's.  *)
Interface == 0
Waiting == -1      \* not known yet
Unvisited == -2
Trees == 0 .. Bundles

Uses(m) == {d \in Definitions : d[1] \in ToSet(instance.imports[m])}
BundleOf(m) == CHOOSE b \in 1 .. Bundles : m \in ToSet(instance.bundles[b])

NoFacts == [w \in Workers |-> [d \in Definitions |-> Waiting]]
NoUses == [m \in Modules |-> [d \in Definitions |-> Unvisited]]

Init ==
  /\ instance \in Instances
  /\ Pool!Init
  /\ task = [w \in Workers |-> Idle]
  /\ turn = [w \in Workers |-> 0]
  /\ visited = [w \in Workers |-> 0]
  /\ interfaceAtomCount = 0
  /\ asSimpleMap = {}
  /\ emplacing = {}
  /\ identified = {}
  /\ facts = NoFacts
  /\ bound = NoUses
  /\ literal = "ASTED"
  /\ foreign = {}
  /\ aborted = FALSE

-----------------------------------------------------------------------------
(* What a task visits: its loop takes the bundles to register, or the      *)
(* modules of its bundle, one by one.  A bundle is waited for before.      *)

Visit(op, m, k) == [op |-> op, of |-> m, to |-> k]

registerBundle(b) ==
  [i \in DOMAIN instance.bundles[b] |->
     Visit("emplace", instance.bundles[b][i], instance.bundles[b][i])]
    \o <<Visit("identify", b, b), Visit("count", b, b)>>

Imports(m) ==
  [i \in DOMAIN instance.imports[m] |-> Visit("import", m, instance.imports[m][i])]
Literals(m) ==
  IF m \in instance.literals THEN <<Visit("lock", m, m), Visit("unlock", m, m)>>
  ELSE <<>>

(* Slip: the definitions of a module come before its imports. *)
BindBackwards(m) == <<Visit("define", m, m)>> \o Imports(m) \o Literals(m)

bind(m) == Imports(m) \o <<Visit("define", m, m)>> \o Literals(m)

Turns(index) == IF index = 0 THEN Bundles ELSE Len(instance.bundles[index])

Agenda(index, t) ==
  IF index = 0 THEN registerBundle(t)
  ELSE IF t = 0 THEN <<Visit("wait", index, index)>>
  ELSE bind(instance.bundles[index][t])

-----------------------------------------------------------------------------
(* sem::analyze on the main thread: Analyzer::init and notify_and_wait.    *)
(* The Contexts and the InterfaceMap are new for each make request, and    *)
(* ast::Builder has put the literals back.                                 *)

Analyze ==
  /\ ~aborted
  /\ Pool!Submit
  /\ interfaceAtomCount' = 0
  /\ asSimpleMap' = {}
  /\ identified' = {}
  /\ facts' = NoFacts
  /\ bound' = NoUses
  /\ literal' = "ASTED"
  /\ UNCHANGED <<instance, place, emplacing, foreign, aborted>>

Return ==
  /\ ~aborted
  /\ Pool!Return
  /\ UNCHANGED <<instance, place, shared, facts, bound, literal, foreign,
                 aborted>>

-----------------------------------------------------------------------------
(* A worker. *)

(* Slip: the tasks are begun in the order of fetch_sub. *)
TaskFromTop == Bundles - begun

NextTask == begun

Begin(w) ==
  /\ ~aborted
  /\ w \in instance.pool
  /\ task[w] = Idle
  /\ Pool!Begin
  /\ task' = [task EXCEPT ![w] = NextTask]
  /\ turn' = [turn EXCEPT ![w] = IF NextTask = 0 THEN 1 ELSE 0]
  /\ visited' = [visited EXCEPT ![w] = 0]
  /\ UNCHANGED <<instance, shared, facts, bound, literal, foreign, aborted>>

ToVisit(w) == Agenda(task[w], turn[w])
TurnIsOver(w) == visited[w] = Len(ToVisit(w))

End(w) ==
  /\ ~aborted
  /\ task[w] # Idle
  /\ TurnIsOver(w)
  /\ Pool!End(task[w])
  /\ task' = [task EXCEPT ![w] = Idle]
  /\ turn' = [turn EXCEPT ![w] = 0]
  /\ visited' = [visited EXCEPT ![w] = 0]
  /\ UNCHANGED <<instance, shared, facts, bound, literal, foreign, aborted>>

Now(w) == ToVisit(w)[visited[w] + 1]
At(w, op) ==
  /\ ~aborted
  /\ task[w] # Idle
  /\ ~TurnIsOver(w)
  /\ Now(w).op = op

(* The loop goes on when the last thing of a turn was visited. *)
Done(w) ==
  /\ IF visited[w] + 1 = Len(ToVisit(w)) /\ turn[w] < Turns(task[w])
     THEN /\ turn' = [turn EXCEPT ![w] = @ + 1]
          /\ visited' = [visited EXCEPT ![w] = 0]
     ELSE /\ visited' = [visited EXCEPT ![w] = @ + 1]
          /\ UNCHANGED turn
  /\ UNCHANGED <<instance, pool, task, aborted>>

(* InterfaceMap::registerBundle: _asSimpleMap is not locked, and an emplace *)
(* moves other buckets or makes a new table.                               *)
Emplace(w) ==
  /\ At(w, "emplace")
  /\ Now(w).of \notin emplacing
  /\ emplacing' = emplacing \cup {Now(w).of}
  /\ UNCHANGED <<instance, pool, place, interfaceAtomCount, asSimpleMap,
                 identified, facts, bound, literal, foreign, aborted>>

Emplaced(w) ==
  /\ At(w, "emplace")
  /\ Now(w).of \in emplacing
  /\ emplacing' = emplacing \ {Now(w).of}
  /\ asSimpleMap' = asSimpleMap \cup {Now(w).of}
  /\ Done(w)
  /\ UNCHANGED <<interfaceAtomCount, identified, facts, bound, literal, foreign>>

(* InterfaceMaker: the exported definitions get their ids and are facts of *)
(* the Context of this worker.                                             *)
Identify(w) ==
  /\ At(w, "identify")
  /\ LET made == ToSet(instance.bundles[Now(w).of])
     IN  /\ identified' = identified \cup made
         /\ facts' = [facts EXCEPT ![w] =
              [d \in Definitions |->
                 IF d[1] \in made /\ d[2] = "exported" THEN Interface ELSE @[d]]]
  /\ Done(w)
  /\ UNCHANGED <<interfaceAtomCount, asSimpleMap, emplacing, bound, literal, foreign>>

Count(w) ==
  /\ At(w, "count")
  /\ interfaceAtomCount' = interfaceAtomCount + 1
  /\ Done(w)
  /\ UNCHANGED <<asSimpleMap, emplacing, identified, facts, bound, literal, foreign>>

(* Slip: one bundle fewer is waited for. *)
WaitOneLess(w) ==
  /\ At(w, "wait")
  /\ interfaceAtomCount >= Now(w).of - 2
  /\ Done(w)
  /\ UNCHANGED <<shared, facts, bound, literal, foreign>>

(* The task spins until the bundles before its own are counted. *)
Wait(w) ==
  /\ At(w, "wait")
  /\ interfaceAtomCount >= Now(w).of - 1
  /\ Done(w)
  /\ UNCHANGED <<shared, facts, bound, literal, foreign>>

(* Context::notifyEvent: a fact is rewritten, and the tasks of this run    *)
(* that wait for it bind their uses.                                       *)
notifyEvent(w, known, tree) ==
  /\ facts' = [facts EXCEPT ![w] =
       [d \in Definitions |-> IF d \in known THEN tree ELSE @[d]]]
  /\ bound' = [m \in Modules |-> [d \in Definitions |->
       IF bound[m][d] = Waiting /\ d \in known
          /\ m \in ToSet(instance.bundles[task[w]])
       THEN tree ELSE bound[m][d]]]

(* getView, and the ExportLister on what it gives. *)
Import(w) ==
  /\ At(w, "import")
  /\ Now(w).to \in asSimpleMap
  /\ notifyEvent(w, {<<k, "exported">> : k \in {Now(w).to} \cap identified}, Interface)
  /\ Done(w)
  /\ UNCHANGED <<shared, literal, foreign>>

(* The definitions of a module are facts now; a use of something that is   *)
(* no fact yet waits.                                                      *)
Define(w) ==
  /\ At(w, "define")
  /\ LET m == Now(w).of IN
     /\ facts' = [facts EXCEPT ![w] =
          [d \in Definitions |-> IF d[1] = m THEN task[w] ELSE @[d]]]
     /\ bound' = [k \in Modules |-> [d \in Definitions |->
          IF k = m /\ d \in Uses(m) THEN facts'[w][d]
          ELSE IF bound[k][d] = Waiting /\ d[1] = m /\ BundleOf(k) = task[w]
          THEN task[w]
          ELSE bound[k][d]]]
  /\ Done(w)
  /\ UNCHANGED <<shared, literal, foreign>>

(* The first literal to be visited makes the lock of all of them in the    *)
(* scheduler of its worker; one that is visited while it is locked is      *)
(* attached to that lock.                                                  *)
Lock(w) ==
  /\ At(w, "lock")
  /\ literal' = IF literal = "ASTED" THEN w ELSE literal
  /\ foreign' = foreign \cup ({literal} \cap (Workers \ {w}))
  /\ Done(w)
  /\ UNCHANGED <<shared, facts, bound>>

(* The fact of "int", from the import of it, binds all the literals. *)
Unlock(w) ==
  /\ At(w, "unlock")
  /\ literal' = "BOUND"
  /\ Done(w)
  /\ UNCHANGED <<shared, facts, bound, foreign>>

Step(w) ==
  \/ Begin(w) \/ End(w)
  \/ Emplace(w) \/ Emplaced(w) \/ Identify(w) \/ Count(w)
  \/ Wait(w) \/ Import(w) \/ Define(w) \/ Lock(w) \/ Unlock(w)

(* The assert of robin::map::at: the key is not there, or is not found     *)
(* while the table is being changed.                                       *)
Abort(w) ==
  /\ At(w, "import")
  /\ Now(w).to \notin asSimpleMap \/ emplacing # {}
  /\ aborted' = TRUE
  /\ UNCHANGED <<instance, pool, place, shared, facts, bound, literal,
                 foreign>>

(* All requests were served, or the server is gone. *)
Over ==
  /\ (phase = "idle" /\ job = Makes) \/ aborted
  /\ UNCHANGED vars

Next == Analyze \/ Return \/ (\E w \in Workers : Step(w)) \/ Over

(* The threads are scheduled: WF_vars(Step(w)) for each worker, and the     *)
(* same for the main thread, with what ENABLED means written out.          *)
CanStep(w) ==
  \/ /\ task[w] = Idle /\ w \in instance.pool
     /\ phase = "open" /\ begun <= Bundles
  \/ /\ task[w] # Idle
     /\ ~TurnIsOver(w) =>
          /\ Now(w).op = "wait" => interfaceAtomCount >= Now(w).of - 1
          /\ Now(w).op = "import" => Now(w).to \in asSimpleMap
CanCall == (phase = "idle" /\ job < Makes) \/ (phase = "open" /\ finished = 0 .. Bundles)

Moves(w) ==
  \/ task'[w] # task[w] \/ turn'[w] # turn[w] \/ visited'[w] # visited[w]
  \/ task[w] = 0 /\ emplacing' # emplacing

Fairness ==
  /\ []<>~CanCall \/ []<><<phase' # phase>>_vars
  /\ \A w \in Workers :
       []<>~CanStep(w) \/ []<><<Moves(w)>>_vars

(* The behaviours without undefined behaviour in _asSimpleMap, and all. *)
Spec == Init /\ [][Next]_vars
FairSpec == Spec /\ Fairness
UnlockedSpec == Init /\ [][Next \/ \E w \in Workers : Abort(w)]_vars

-----------------------------------------------------------------------------
(* The view a worker is about to import is in the map and has its ids,     *)
(* whatever bundles the other workers are at, and in each make request.    *)
ViewsReady ==
  \A w \in Workers :
    At(w, "import") => Now(w).to \in asSimpleMap \cap identified

(* Once a bundle was analysed, the uses of what other modules export are   *)
(* bound to the interface or to the bundle itself, never to the tree of    *)
(* another bundle, though the Context remembers those it analysed before.  *)
ExportsBound ==
  \A b \in finished \ {0} : \A m \in ToSet(instance.bundles[b]) :
    \A d \in Uses(m) : d[2] = "exported" => bound[m][d] \in {Interface, b}

(* Every analysis ends, whatever the number of workers: no task spins for  *)
(* one that was not begun.                                                 *)
AnalysisEnds == phase = "open" ~> phase = "idle"

(* "this is NOT thread-safe, as is everything here": a scheduler is used   *)
(* by its own thread only.                                                 *)
SchedulersUnshared == foreign = {}

(* "robin::map::at was called on an empty key" never is. *)
KeysFound == ~aborted

=============================================================================
