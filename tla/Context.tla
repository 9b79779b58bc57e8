------------------------------- MODULE Context -------------------------------
(***************************************************************************)
(* sem::Context and the schmit::TScheduler under it, on one thread.  The   *)
(* coroutines bind and check share the nodes of a bundle.  A name that     *)
(* check reads before it is bound is a lock that check waits for; a name   *)
(* bind cannot resolve yet is a task that waits for the event of its       *)
(* identifier.  Tasks, locks and events are nodes of one topo::TGraph, and *)
(* the first of its _pendings is what runs next.                           *)
(***************************************************************************)
EXTENDS TopoGraph

CONSTANTS
  Names,       \* the nodes of a bundle that are bound: identifiers and the like
  Literals,    \* those that are one node for all their occurrences
  Ids,         \* the identifiers definitions and candidates are hashed to
  MaxRuns,     \* bound: how often the context is run
  MaxVisits    \* bound: how many occurrences one name has

ASSUME LiteralsAssumption == Literals \subseteq Names
(* UniqueId: two words of 64 bits. *)
ASSUME IdsAssumption == IsFiniteSet(Ids)
ASSUME BoundsAssumption == MaxRuns \in Nat /\ MaxVisits \in Nat

None == "none"

ASSUME NoneAssumption == None \notin Names \cup Ids

VARIABLES
  context,     \* the members of Context, and the names its closures write to
  at,          \* the code that runs
  waiting,     \* the name check waits for
  visited,     \* how often bind visited each name
  asked,       \* history: the names visited with their candidates
  read,        \* history: the names check has read
  runs         \* how many runs there were

vars == <<context, at, waiting, visited, asked, read, runs>>

Labels ==
  {"idle", "interface", "flush", "next", "bind", "check", "aborted", "thrown"}

(* TNode._status and _asVIndexOrLock *)
Asted == [status |-> "ASTED", lock |-> Nil, vIndex |-> None]
Locked(lock) == [status |-> "LOCKED", lock |-> lock, vIndex |-> None]
Bound(id) == [status |-> "BOUND", lock |-> Nil, vIndex |-> id]

NewContext ==
  [graph |-> EmptyGraph, eventMap |-> <<>>, factMap |-> {}, unlockSet |-> {},
   node |-> [n \in Names |-> Asted]]

Init ==
  /\ context = NewContext
  /\ at = "idle"
  /\ waiting = None
  /\ visited = [n \in Names |-> 0]
  /\ asked = {}
  /\ read = {}
  /\ runs = 0

-----------------------------------------------------------------------------
(* schmit::TScheduler: the value of a node is a task, or null for a lock    *)
(* and an event.                                                           *)
Null(kind, what) == [kind |-> kind, name |-> what]
Task(g, kind) == CHOOSE n \in Live(g) : g.node[n].value.kind = kind

makeLock(g, n) ==
  LET h == makeNode(g, Null("lock", n)) IN attach(h, top(h), top(h))

makeEvent(g, id) == makeNode(g, Null("event", id))

(* sem::TVisitor::vIndexOrLock: the first use of a name locks it. *)
vIndexOrLock(c, n) ==
  IF c.node[n].status # "ASTED" THEN c
  ELSE LET g == makeLock(c.graph, n)
       IN  [c EXCEPT !.graph = g, !.node[n] = Locked(g.blockeds)]

getOrMakeEvent(c, id) ==
  IF id \in DOMAIN c.eventMap THEN c
  ELSE LET g == makeEvent(c.graph, id)
       IN  [c EXCEPT !.graph = g,
                     !.eventMap = [x \in DOMAIN @ \cup {id} |-> IF x = id THEN top(g) ELSE @[x]]]

(* The task waits for the event, and the event for the lock. *)
Defer(c, n, id) ==
  LET lock == c.node[n].lock
      g == makeNode(c.graph, [kind |-> "task", name |-> n, id |-> id, lock |-> lock])
      task == top(g)
      d == getOrMakeEvent([c EXCEPT !.graph = g], id)
      event == d.eventMap[id]
  IN  [d EXCEPT !.graph = attach(attach(@, task, event), event, lock)]

Unlock(c, n) ==
  IF c.node[n].status = "LOCKED" THEN c.unlockSet \cup {c.node[n].lock}
                                 ELSE c.unlockSet

(* A fact that is known binds the name at once, again if it was bound. *)
makeTask(c, n, id) ==
  LET d == vIndexOrLock(c, n)
  IN  CASE id \in d.factMap ->
             [d EXCEPT !.unlockSet = Unlock(d, n), !.node[n] = Bound(id)]
        [] id \notin d.factMap /\ d.node[n].status = "LOCKED" -> Defer(d, n, id)
        [] OTHER -> d

(* The candidates of a name, one after the other. *)
makeTasks(c, n, ids) ==
  LET after[k \in 0 .. Len(ids)] ==
        IF k = 0 THEN c ELSE makeTask(after[k - 1], n, ids[k])
  IN  after[Len(ids)]

(* Slip: the event is not erased. *)
NotifyKeeps(c, id) ==
  LET isAwaited == id \in DOMAIN c.eventMap
  IN  [c EXCEPT
         !.graph = IF isAwaited THEN forcePending(@, c.eventMap[id]) ELSE @,
         !.factMap = @ \cup {id}]

notifyEvent(c, id) ==
  LET isAwaited == id \in DOMAIN c.eventMap
  IN  [c EXCEPT
         !.graph = IF isAwaited THEN forcePending(@, c.eventMap[id]) ELSE @,
         !.eventMap = Restrict(@, DOMAIN @ \ {id}),
         !.factMap = @ \cup {id}]

-----------------------------------------------------------------------------
(* A bundle is registered, or analyzed: its nodes are new, but for literals. *)
NewNodes == [n \in Names |-> IF n \in Literals THEN context.node[n] ELSE Asted]

Begin ==
  /\ at = "idle" /\ runs < MaxRuns
  /\ runs' = runs + 1
  /\ waiting' = None
  /\ visited' = [n \in Names |-> 0] /\ asked' = {} /\ read' = {}

RegisterBundle ==
  /\ Begin
  /\ at' = "interface"
  /\ context' = [context EXCEPT !.node = NewNodes]

Analyze ==
  /\ Begin
  /\ at' = "flush"
  /\ LET g == makeNode(context.graph, [kind |-> "bind"])
     IN  context' = [context EXCEPT
                       !.node = NewNodes,
                       !.graph = makeNode(g, [kind |-> "check"])]

(* The names and the definitions of a bundle, in the order they are met. *)
Visit(n, ids) ==
  /\ visited[n] < MaxVisits
  /\ context' = makeTasks(context, n, ids)
  /\ visited' = [visited EXCEPT ![n] = @ + 1]
  /\ asked' = asked \cup {<<n, id>> : id \in ToSet(ids)}
  /\ UNCHANGED <<at, waiting, read, runs>>

(* InterfaceMaker comes by once for each import of the module. *)
VisitInterface(n) ==
  /\ at = "interface"
  /\ n \notin Literals
  /\ \E id \in Ids : Visit(n, <<id>>)

(* Slip: a literal that is bound is resolved again. *)
VisitBundleAgain(n) ==
  /\ at = "bind"
  /\ n \in Literals \/ visited[n] = 0
  /\ \E ids \in SetToAllKPermutations(Ids) \ {<<>>} : Visit(n, ids)

(* TResolver tries what surrounds the name from the inside to the outside. *)
VisitBundle(n) ==
  /\ at = "bind"
  /\ IF n \in Literals THEN context.node[n].status # "BOUND" ELSE visited[n] = 0
  /\ \E ids \in SetToAllKPermutations(Ids) \ {<<>>} : Visit(n, ids)

Define(id) ==
  /\ at \in {"interface", "bind"}
  /\ id \notin context.factMap
  /\ context' = notifyEvent(context, id)
  /\ UNCHANGED <<at, waiting, visited, asked, read, runs>>

EndInterface ==
  /\ at = "interface"
  /\ at' = "flush"
  /\ UNCHANGED <<context, waiting, visited, asked, read, runs>>

-----------------------------------------------------------------------------
(* Context::run, around TScheduler::run *)

detachLocks(g, locks) ==
  LET after[k \in 0 .. Len(locks)] ==
        IF k = 0 THEN g ELSE detachAll(after[k - 1], locks[k])
  IN  after[Len(locks)]

(* Slip: what was unlocked stays in the set. *)
FlushKeeps ==
  /\ at = "flush"
  /\ \E locks \in SetToSeqs(context.unlockSet) :
       context' = [context EXCEPT !.graph = detachLocks(@, locks)]
  /\ at' = "next"
  /\ UNCHANGED <<waiting, visited, asked, read, runs>>

(* The order in which a table of nodes is read depends on their addresses. *)
Flush ==
  /\ at = "flush"
  /\ \E locks \in SetToSeqs(context.unlockSet) :
       context' = [context EXCEPT !.graph = detachLocks(@, locks),
                                  !.unlockSet = {}]
  /\ at' = "next"
  /\ UNCHANGED <<waiting, visited, asked, read, runs>>

(* When every cell was recycled, nobody knows their addresses any more: the *)
(* pool is as good as new.                                                 *)
Forget(g) == IF Live(g) = {} THEN EmptyGraph ELSE g

(* Slip: the events are not cleared. *)
EndRunKeeps ==
  /\ at = "next"
  /\ empty(context.graph)
  /\ CASE context.unlockSet # {} -> at' = "flush" /\ UNCHANGED context
       [] context.unlockSet = {} /\ isCyclic(context.graph) ->
            at' = "aborted" /\ UNCHANGED context
       [] OTHER -> at' = "idle" /\ context' = [context EXCEPT !.graph = Forget(@)]
  /\ UNCHANGED <<waiting, visited, asked, read, runs>>

EndRun ==
  /\ at = "next"
  /\ empty(context.graph)
  /\ CASE context.unlockSet # {} -> at' = "flush" /\ UNCHANGED context
       [] context.unlockSet = {} /\ isCyclic(context.graph) ->
            at' = "aborted" /\ UNCHANGED context
       [] OTHER -> /\ at' = "idle"
                   /\ context' = [context EXCEPT !.eventMap = <<>>,
                                                 !.graph = Forget(@)]
  /\ UNCHANGED <<waiting, visited, asked, read, runs>>

(* nextCoroutine *)
First == context.graph.node[top(context.graph)].value

Turn(kinds) ==
  /\ at = "next"
  /\ ~empty(context.graph)
  /\ First.kind \in kinds

PopNull ==
  /\ Turn({"lock", "event"})
  /\ context' = [context EXCEPT !.graph = pop(@, top(@))]
  /\ UNCHANGED <<at, waiting, visited, asked, read, runs>>

(* Slip: the lock is not unlocked. *)
RunTaskLocked ==
  /\ Turn({"task"})
  /\ LET v == First
     IN  context' = [context EXCEPT
           !.node[v.name] = IF v.id \in context.factMap THEN Bound(v.id) ELSE @,
           !.graph = pop(@, top(@))]
  /\ UNCHANGED <<at, waiting, visited, asked, read, runs>>

(* A deferred task runs to its end: the name is bound if the fact is known  *)
(* by now, and unlocked in any case.                                       *)
RunTask ==
  /\ Turn({"task"})
  /\ LET v == First
     IN  context' = [context EXCEPT
           !.node[v.name] = IF v.id \in context.factMap THEN Bound(v.id) ELSE @,
           !.unlockSet = @ \cup {v.lock},
           !.graph = pop(@, top(@))]
  /\ UNCHANGED <<at, waiting, visited, asked, read, runs>>

BeginBind ==
  /\ Turn({"bind"})
  /\ at' = "bind"
  /\ UNCHANGED <<context, waiting, visited, asked, read, runs>>

(* bind has visited all that check reads; it need not be on top any more. *)
EndBind ==
  /\ at = "bind"
  /\ \A n \in Names : visited[n] > 0 \/ context.node[n].status = "BOUND"
  /\ LET g == context.graph
     IN  context' = [context EXCEPT !.graph = pop(g, Task(g, "bind"))]
  /\ at' = "next"
  /\ UNCHANGED <<waiting, visited, asked, read, runs>>

(* check begins, or goes on after its wait: std::get throws what the name   *)
(* does not hold.                                                          *)
ResumeCheck ==
  /\ Turn({"check"})
  /\ IF waiting = None \/ context.node[waiting].status = "BOUND"
     THEN /\ at' = "check" /\ waiting' = None
          /\ read' = read \cup ({waiting} \ {None})
     ELSE at' = "thrown" /\ UNCHANGED <<waiting, read>>
  /\ UNCHANGED <<context, visited, asked, runs>>

(* vIndex: the task that runs is taken to be the top. *)
Read(n) ==
  /\ at = "check"
  /\ n \notin read
  /\ IF context.node[n].status = "BOUND"
     THEN read' = read \cup {n} /\ UNCHANGED <<context, at, waiting>>
     ELSE LET c == vIndexOrLock(context, n)
          IN  /\ context' = [c EXCEPT !.graph = attach(@, top(@), c.node[n].lock)]
              /\ waiting' = n
              /\ at' = "next"
              /\ UNCHANGED read
  /\ UNCHANGED <<visited, asked, runs>>

EndCheck ==
  /\ at = "check"
  /\ LET g == context.graph
     IN  context' = [context EXCEPT !.graph = pop(g, Task(g, "check"))]
  /\ at' = "next"
  /\ UNCHANGED <<waiting, visited, asked, read, runs>>

Resting == at \in {"idle", "aborted", "thrown"}

Over ==
  /\ Resting /\ (at = "idle" => runs = MaxRuns)
  /\ UNCHANGED vars

Step ==
  \/ \E n \in Names : VisitInterface(n) \/ VisitBundle(n) \/ Read(n)
  \/ \E id \in Ids : Define(id)
  \/ EndInterface \/ Flush \/ EndRun \/ PopNull \/ RunTask
  \/ BeginBind \/ EndBind \/ ResumeCheck \/ EndCheck

Next == RegisterBundle \/ Analyze \/ Step \/ Over

Spec == Init /\ [][Next]_vars

(* The thread keeps running while there is something to do: WF_vars(Step),  *)
(* in a form that spares TLC the evaluation of ENABLED Step.               *)
Fairness == []<><<TRUE>>_vars \/ <>[]Resting
FairSpec == Spec /\ Fairness

-----------------------------------------------------------------------------
(* Bind has tried every identifier for a name, and none was defined. *)
Unresolved(n) ==
  /\ context.node[n].status = "LOCKED"
  /\ \A id \in context.factMap : <<n, id>> \notin asked

(* The lists of the scheduler hold what depends on nothing and what does.   *)
(* A name that cannot be resolved can break them: check waits while its     *)
(* cell has a stale _prev.                                                 *)
ListsAgree ==
  WellFormed(context.graph) \/ (waiting # None /\ Unresolved(waiting))

TopIsCheck == at = "check" => First.kind = "check"

UnlockedIsBound ==
  \A lock \in context.unlockSet \cap Live(context.graph) :
    LET v == context.graph.node[lock].value
    IN  v.kind = "lock" /\ context.node[v.name].status = "BOUND"

EventsAreLive ==
  at \in {"interface", "bind"} =>
    \A id \in DOMAIN context.eventMap :
      LET event == context.eventMap[id]
      IN  /\ event \in Live(context.graph)
          /\ context.graph.node[event].value = Null("event", id)
          /\ ~isPending(context.graph, event)

(* Cells of the scheduler's graph are recycled while the Context holds     *)
(* them.  Still the node vIndex makes wait is the check that called it,    *)
(* unlocking a lock again after it was popped does not unlock the node     *)
(* that was made of its cell, a lock that is unlocked has its name bound,  *)
(* and an event that can be notified or waited for was not popped.         *)
HeldCellsAreTheirs == TopIsCheck /\ UnlockedIsBound /\ EventsAreLive

(* The compiler only gives up, one way or the other, on a name none of      *)
(* whose candidates is defined.                                            *)
FailsOnlyUnresolved ==
  at \in {"aborted", "thrown"} => \E n \in Names : Unresolved(n)

(* A run that ends leaves nothing behind: no node, and no name that was     *)
(* visited and is not bound.                                               *)
EndsClean ==
  at = "idle" =>
    /\ Live(context.graph) = {}
    /\ context.unlockSet = {} /\ context.eventMap = <<>>
    /\ \A n \in Names : context.node[n].status # "LOCKED"

(* A run comes to an end, and does not switch between coroutines forever.   *)
RunEnds == ~Resting ~> Resting

(* A name is bound to what _asVIndexOrLock holds. *)
Promise == INSTANCE Resolution WITH
  known <- context.factMap,
  bound <- [n \in Names |-> context.node[n].vIndex]

(* vIndex only returns names that are bound to a known fact, and what check *)
(* has read of a name is never bound to something else by a later task.    *)
ImplementsResolution == Promise!Spec

=============================================================================
