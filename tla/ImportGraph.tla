---------------------------- MODULE ImportGraph ----------------------------
(***************************************************************************)
(* sem::ImportGraph and sem::bundle::make: the modules of the registered   *)
(* files become the nodes of a topo::TGraph and their imports its edges;   *)
(* makeBundles takes nodes without dependees one by one.  When every node  *)
(* that is left has one, TGraph::solveCycle walks along the first dependee *)
(* of each node until it knows a cycle, and puts the nodes of the cycle    *)
(* between two hyper nodes.  The modules taken while some hyper node is    *)
(* open make one bundle.  Every turn of a loop of the code is a step.      *)
(***************************************************************************)
EXTENDS TopoGraph

CONSTANTS
  Modules,   \* the identifiers of the modules, as numbers
  Inputs     \* the modules a database may hold, in the order they are met: a
             \* module declared by several files is there several times

ASSUME ModulesAssumption == Modules \subseteq Nat

ASSUME InputsAssumption ==
  Inputs \subseteq Seq([module : Modules, imports : Seq(Modules)])

VARIABLES
  declared,            \* the input; constant
  registered,          \* how much of it was registered
  graph,               \* _topoGraph
  moduleMap,           \* _moduleMap: module -> node
  moduleOrder,
  moduleBundles,
  hyperNodeStackSize,
  solving,             \* the local variables of solveCycle
  built,               \* the bundles sem::bundle::make makes
  pc,
  stale                \* history: some walk began among flagged nodes

vars == <<declared, registered, graph, moduleMap, moduleOrder, moduleBundles,
          hyperNodeStackSize, solving, built, pc, stale>>

Labels == {"register", "loop", "solve", "walk", "rehang", "ordered", "built", "crashed"}

(* The values of the hyper nodes, unlike any module. *)
HyperOpen == -1
HyperClose == -2
isHyperOpen(g, n) == g.node[n].value = HyperOpen
isHyperClose(g, n) == g.node[n].value = HyperClose

NotSolving == [open |-> Nil, close |-> Nil, at |-> Nil, front |-> Nil]

Init ==
  /\ declared \in Inputs
  /\ registered = 0
  /\ graph = EmptyGraph
  /\ moduleMap = <<>>
  /\ moduleOrder = <<>>
  /\ moduleBundles = <<>>
  /\ hyperNodeStackSize = 0
  /\ solving = NotSolving
  /\ built = <<>>
  /\ pc = "register"
  /\ stale = FALSE

-----------------------------------------------------------------------------
(* registerAsts *)

Emplaced(map, m, n) == [k \in DOMAIN map \cup {m} |-> IF k = m THEN n ELSE map[k]]

(* Slip: the map is not looked into. *)
MakeModule(s, m) ==
  LET g == makeNode(s.graph, m)
  IN  [graph |-> g, map |-> Emplaced(s.map, m, g.pendings)]

getOrMakeModule(s, m) ==
  IF m \in DOMAIN s.map THEN s
  ELSE LET g == makeNode(s.graph, m)
       IN  [graph |-> g, map |-> Emplaced(s.map, m, g.pendings)]

(* Slip: the two ends of the edge are swapped. *)
MakeDependencySwapped(s, lhs, rhs) ==
  LET t == getOrMakeModule(getOrMakeModule(s, lhs), rhs)
  IN  [t EXCEPT !.graph = attach(@, t.map[rhs], t.map[lhs])]

makeDependency(s, lhs, rhs) ==
  LET t == getOrMakeModule(getOrMakeModule(s, lhs), rhs)
  IN  [t EXCEPT !.graph = attach(@, t.map[lhs], t.map[rhs])]

(* The loop over the imports of a module. *)
makeDependencies(s, m, imports) ==
  LET after[k \in 0 .. Len(imports)] ==
        IF k = 0 THEN s ELSE makeDependency(after[k - 1], m, imports[k])
  IN  after[Len(imports)]

RegisterModule ==
  /\ pc = "register"
  /\ registered < Len(declared)
  /\ LET d == declared[registered + 1]
         s == getOrMakeModule([graph |-> graph, map |-> moduleMap], d.module)
         t == makeDependencies(s, d.module, d.imports)
     IN  graph' = t.graph /\ moduleMap' = t.map
  /\ registered' = registered + 1
  /\ UNCHANGED <<declared, moduleOrder, moduleBundles, hyperNodeStackSize,
                 solving, built, pc, stale>>

-----------------------------------------------------------------------------
(* makeBundles *)

NoModules ==
  /\ pc = "register"
  /\ registered = Len(declared)
  /\ DOMAIN moduleMap = {}
  /\ moduleBundles' = <<0>>
  /\ pc' = "ordered"
  /\ UNCHANGED <<declared, registered, graph, moduleMap, moduleOrder,
                 hyperNodeStackSize, solving, built, stale>>

Begin ==
  /\ pc = "register"
  /\ registered = Len(declared)
  /\ DOMAIN moduleMap # {}
  /\ pc' = "loop"
  /\ UNCHANGED <<declared, registered, graph, moduleMap, moduleOrder,
                 moduleBundles, hyperNodeStackSize, solving, built, stale>>

(* A bundle begins where no hyper node is open. *)
Boundary ==
  /\ pc = "loop"
  /\ moduleBundles' = IF hyperNodeStackSize = 0
                      THEN Append(moduleBundles, Len(moduleOrder))
                      ELSE moduleBundles
  /\ pc' = "solve"
  /\ UNCHANGED <<declared, registered, graph, moduleMap, moduleOrder,
                 hyperNodeStackSize, solving, built, stale>>

(* top and pop; the value of the node is read after it was erased. *)
TakeTop ==
  /\ pc = "solve"
  /\ ~isCyclic(graph)
  /\ LET n == top(graph)
         g == pop(graph, n)
         order == IF isHyperOpen(g, n) \/ isHyperClose(g, n) THEN moduleOrder
                  ELSE Append(moduleOrder, g.node[n].value)
         more == ~empty(g) \/ isCyclic(g)
     IN  /\ graph' = g
         /\ moduleOrder' = order
         /\ hyperNodeStackSize' =
              hyperNodeStackSize + (IF isHyperOpen(g, n) THEN 1
                                    ELSE IF isHyperClose(g, n) THEN -1 ELSE 0)
         /\ moduleBundles' = IF more THEN moduleBundles
                             ELSE Append(moduleBundles, Len(order))
         /\ pc' = IF more THEN "loop" ELSE "ordered"
  /\ UNCHANGED <<declared, registered, moduleMap, solving, built, stale>>

-----------------------------------------------------------------------------
(* TGraph::solveCycle *)

OpenCycle ==
  /\ pc = "solve"
  /\ isCyclic(graph)
  /\ LET opened == makeNode(graph, HyperOpen)
         closed == makeNode(opened, HyperClose)
     IN  /\ graph' = closed
         /\ solving' = [open |-> opened.pendings, close |-> closed.pendings,
                        at |-> graph.blockeds, front |-> Nil]
  /\ stale' = (stale \/ \E n \in Live(graph) : graph.node[n].withinCycle)
  /\ pc' = "walk"
  /\ UNCHANGED <<declared, registered, moduleMap, moduleOrder, moduleBundles,
                 hyperNodeStackSize, built>>

Walking == pc = "walk" /\ (solving.front = Nil \/ solving.at # solving.front)
FirstDependee(g, n) == Head(dependees(g, n))

(* Slip: the node is not flagged. *)
VisitUnflagged ==
  /\ Walking
  /\ LET n == solving.at IN
     /\ ~isPending(graph, n)
     /\ ~graph.node[n].withinCycle
     /\ solving' = [solving EXCEPT !.at = dependee(graph, FirstDependee(graph, n))]
  /\ UNCHANGED <<declared, registered, graph, moduleMap, moduleOrder,
                 moduleBundles, hyperNodeStackSize, built, pc, stale>>

(* The node is met for the first time: it is flagged. *)
Visit ==
  /\ Walking
  /\ LET n == solving.at IN
     /\ ~isPending(graph, n)
     /\ ~graph.node[n].withinCycle
     /\ graph' = [graph EXCEPT !.node[n].withinCycle = TRUE]
     /\ solving' = [solving EXCEPT !.at = dependee(graph, FirstDependee(graph, n))]
  /\ UNCHANGED <<declared, registered, moduleMap, moduleOrder, moduleBundles,
                 hyperNodeStackSize, built, pc, stale>>

(* A flagged node is taken for a node of the cycle. *)
Revisit ==
  /\ Walking
  /\ LET n == solving.at IN
     /\ ~isPending(graph, n)
     /\ graph.node[n].withinCycle
     /\ LET e == FirstDependee(graph, n)
            g == attach(attach(graph, solving.close, n), n, solving.open)
        IN  /\ graph' = [detach(g, e) EXCEPT !.node[n].withinCycle = FALSE]
            /\ solving' = [solving EXCEPT
                 !.at = dependee(graph, e),
                 !.front = IF @ = Nil THEN n ELSE @]
  /\ UNCHANGED <<declared, registered, moduleMap, moduleOrder, moduleBundles,
                 hyperNodeStackSize, built, pc, stale>>

(* The first dependee of a node without one is a null pointer. *)
WalkOff ==
  /\ Walking
  /\ isPending(graph, solving.at)
  /\ pc' = "crashed"
  /\ UNCHANGED <<declared, registered, graph, moduleMap, moduleOrder,
                 moduleBundles, hyperNodeStackSize, solving, built, stale>>

EndWalk ==
  /\ pc = "walk"
  /\ ~Walking
  /\ pc' = "rehang"
  /\ UNCHANGED <<declared, registered, graph, moduleMap, moduleOrder,
                 moduleBundles, hyperNodeStackSize, solving, built, stale>>

(* What a node of the cycle depends upon, the opening hyper node does. *)
MoveDependee(g, n, e) ==
  IF dependee(g, e) = n THEN g ELSE detach(attach(g, n, dependee(g, e)), e)

attachDetachDependees(g, n, edges) ==
  LET after[k \in 0 .. Len(edges)] ==
        IF k = 0 THEN g ELSE MoveDependee(after[k - 1], n, edges[k])
  IN  after[Len(edges)]

(* What depends upon a node of the cycle depends upon the closing one. *)
MoveDepender(g, n, e) ==
  IF depender(g, e) = n THEN g ELSE detach(attach(g, depender(g, e), n), e)

attachDetachDependers(g, n, edges) ==
  LET after[k \in 0 .. Len(edges)] ==
        IF k = 0 THEN g ELSE MoveDepender(after[k - 1], n, edges[k])
  IN  after[Len(edges)]

(* Slip: only what the nodes of the cycle depend upon is moved. *)
RehangOneWay(g, e) ==
  LET n == depender(g, e)
  IN  IF isHyperClose(g, n) THEN g
      ELSE attachDetachDependees(g, solving.open, dependees(g, n))

RehangNode(g, e) ==
  LET n == depender(g, e)
      h == IF isHyperClose(g, n) THEN g
           ELSE attachDetachDependees(g, solving.open, dependees(g, n))
  IN  IF isHyperOpen(h, n) THEN h
      ELSE attachDetachDependers(h, solving.close, dependers(h, n))

RehangAll(g, edges) ==
  LET after[k \in 0 .. Len(edges)] ==
        IF k = 0 THEN g ELSE RehangNode(after[k - 1], edges[k])
  IN  after[Len(edges)]

Rehang ==
  /\ pc = "rehang"
  /\ graph' = attach(RehangAll(graph, dependers(graph, solving.open)),
                     solving.close, solving.open)
  /\ solving' = NotSolving
  /\ pc' = "solve"
  /\ UNCHANGED <<declared, registered, moduleMap, moduleOrder, moduleBundles,
                 hyperNodeStackSize, built, stale>>

-----------------------------------------------------------------------------
(* sem::bundle::make for every bundle, counted from 1 here: bundleHead is  *)
(* the element of moduleOrder with the number of the bundle.               *)

(* Slip: one element too many. *)
BundleSizeOff(i) == moduleBundles[i + 1] - moduleBundles[i] + 1

bundleSize(i) == moduleBundles[i + 1] - moduleBundles[i]

MakeBundles ==
  /\ pc = "ordered"
  /\ built' = [i \in 1 .. Len(moduleBundles) - 1 |->
                 SubSeq(moduleOrder, i, i + bundleSize(i) - 1)]
  /\ pc' = "built"
  /\ UNCHANGED <<declared, registered, graph, moduleMap, moduleOrder,
                 moduleBundles, hyperNodeStackSize, solving, stale>>

Over == pc \in {"built", "crashed"} /\ UNCHANGED vars

Solve == OpenCycle \/ Visit \/ Revisit \/ WalkOff \/ EndWalk \/ Rehang

Next ==
  \/ RegisterModule
  \/ NoModules \/ Begin \/ Boundary \/ TakeTop
  \/ Solve
  \/ MakeBundles
  \/ Over

Spec == Init /\ [][Next]_vars

(* The thread keeps running: WF_vars(Next), in a form that spares TLC the  *)
(* evaluation of ENABLED Next.                                             *)
Fairness == []<><<TRUE>>_vars \/ <>[](pc \in {"built", "crashed"})
FairSpec == Spec /\ Fairness

-----------------------------------------------------------------------------
(* What the modules of the input import. *)
Declares(m) == {i \in DOMAIN declared : declared[i].module = m}
Declared == {declared[i].module : i \in DOMAIN declared}
ImportsOf(m) == UNION {ToSet(declared[i].imports) : i \in Declares(m)}

(* Each import names a module some file declares. *)
Resolved(input) ==
  \A i \in DOMAIN input :
    ToSet(input[i].imports) \subseteq {input[j].module : j \in DOMAIN input}

(* The modules m needs: what it imports, and on from there. *)
Needs(m) ==
  LET upTo[k \in Nat] ==
        IF k = 0 THEN ImportsOf(m)
        ELSE LET near == upTo[k - 1] IN near \cup UNION {ImportsOf(n) : n \in near}
  IN  upTo[Cardinality(Declared)]
Component(m) == {m} \cup {k \in Needs(m) : m \in Needs(k)}

BundleAt(i) == {moduleOrder[j] : j \in moduleBundles[i] + 1 .. moduleBundles[i + 1]}

(* Whatever was attached, detached, stolen and popped: each node is in the *)
(* list that isPending says, and an edge is in the lists of its two ends.  *)
ListsAgree == WellFormed(graph)

(* When a module is taken, all it imports was taken before, but for the    *)
(* modules of its own import cycles.                                       *)
ImportsFirst ==
  \A j \in DOMAIN moduleOrder :
    ImportsOf(moduleOrder[j]) \subseteq
      Component(moduleOrder[j]) \cup {moduleOrder[k] : k \in 1 .. j - 1}

(* No module is taken twice, and none is left out.                         *)
EveryModuleOnce ==
  /\ IsInjective(moduleOrder)
  /\ pc = "ordered" => ToSet(moduleOrder) = Declared

ComponentsBundled ==
  {BundleAt(i) : i \in 1 .. Len(moduleBundles) - 1} = {Component(m) : m \in Declared}

(* As long as every walk of solveCycle starts with no node flagged, it ends *)
(* in a cycle, and the bundles are the strongly connected components.      *)
ComponentsUnlessStale ==
  ~stale => /\ pc # "crashed"
            /\ pc = "ordered" => ComponentsBundled

SlicesInRange ==
  pc = "ordered" => \A i \in 1 .. Len(moduleBundles) - 1 :
                      i + bundleSize(i) - 1 \in i .. Len(moduleOrder)

AloneBefore(i) == moduleBundles[i] = i - 1

(* sem::bundle::make reads elements moduleOrder has, and up to and with the *)
(* first bundle of more than one module it makes the bundles makeBundles   *)
(* delimits; what comes after starts too early (bundle.cpp:62).            *)
BundlesAreBuilt ==
  /\ SlicesInRange
  /\ pc = "built" =>
       \A i \in DOMAIN built : AloneBefore(i) => ToSet(built[i]) = BundleAt(i)

(* Every loop of makeBundles and solveCycle ends. *)
ComesToAnEnd == <>(pc \in {"built", "crashed"})

=============================================================================
