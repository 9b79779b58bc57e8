---------------------------- MODULE ContextProofs ---------------------------
(***************************************************************************)
(* Theorems of Context, for every bundle and every number of runs.         *)
(***************************************************************************)
EXTENDS Context, TopoGraphWaits

-----------------------------------------------------------------------------
(* What the variables hold. *)

Values ==
  {Null("lock", n) : n \in Names} \cup {Null("event", id) : id \in Ids}
    \cup [kind : {"task"}, name : Names, id : Ids, lock : Nat]
    \cup {[kind |-> "bind"], [kind |-> "check"]}

NodeSet == {Asted} \cup {Locked(k) : k \in Nat} \cup {Bound(id) : id \in Ids}

EventMaps == UNION {[D -> Nat] : D \in SUBSET Ids}

ContextSet ==
  [graph : GraphSet(Values), eventMap : EventMaps, factMap : SUBSET Ids,
   unlockSet : SUBSET Nat, node : [Names -> NodeSet]]

ValueOf(g, x) == g.node[x].value
Nodes(g, kind) == {x \in Live(g) : ValueOf(g, x).kind = kind}
Is(c, n, status) == c.node[n].status = status

(* What the value of a node says of it. *)
LEMMA ValueFacts ==
  ASSUME NEW v \in Values
  PROVE  /\ v.kind \in {"lock", "event", "task", "bind", "check"}
         /\ v.kind = "lock" => v.name \in Names /\ v = Null("lock", v.name)
         /\ v.kind = "event" => v.name \in Ids /\ v = Null("event", v.name)
         /\ v.kind = "task" => v.name \in Names /\ v.id \in Ids /\ v.lock \in Nat
BY DEF Values, Null

(* The node of a lock or of an event has a kind and a name. *)
LEMMA NullFacts ==
  ASSUME NEW kind, NEW what
  PROVE  Null(kind, what).kind = kind /\ Null(kind, what).name = what
BY DEF Null

(* A name that is bound has an identifier, any other one has none. *)
LEMMA NodeFacts ==
  ASSUME NEW v \in NodeSet
  PROVE  /\ v.status \in {"ASTED", "LOCKED", "BOUND"} /\ v.lock \in Nat
         /\ v.status = "BOUND" => v.vIndex \in Ids
         /\ v.status # "BOUND" => v.vIndex = None
BY DEF NodeSet, Asted, Locked, Bound, Nil

(* The three states of a name. *)
LEMMA NodeStates ==
  /\ Asted.status = "ASTED" /\ \A k : Locked(k).status = "LOCKED" /\ Locked(k).lock = k
  /\ \A id : Bound(id).status = "BOUND" /\ Bound(id).vIndex = id
  /\ \A k \in Nat : Locked(k) \in NodeSet
  /\ \A id \in Ids : Bound(id) \in NodeSet
BY DEF NodeSet, Asted, Locked, Bound

(* A node that was not erased has one of these values. *)
LEMMA LiveValues ==
  ASSUME NEW g, GraphOK(Values, g), NEW x \in Live(g)
  PROVE  ValueOf(g, x) \in Values /\ x \in Nat
<1>1. g.node \in Seq(CellSet(Values)) /\ x \in DOMAIN g.node
  BY DEF GraphOK, EdgesOK, GraphSet, Live
<1>2. g.node[x] \in CellSet(Values) /\ x \in Nat
  BY <1>1
<1>3. QED
  BY <1>2 DEF CellSet, ValueOf

-----------------------------------------------------------------------------
(* The graph and the names. *)

(* A name that is locked has a lock, which only waits for itself.          *)
NamesOK(c) ==
  \A n \in Names : Is(c, n, "LOCKED") =>
    /\ c.node[n].lock \in Live(c.graph)
    /\ ValueOf(c.graph, c.node[n].lock) = Null("lock", n)
    /\ Waits(c.graph, c.node[n].lock) = {c.node[n].lock}

(* A lock is that of a name, which does not get another one; when the name *)
(* is bound the lock is about to be unlocked, or was.                      *)
LocksOK(c) ==
  \A k \in Nodes(c.graph, "lock") :
    /\ ~Is(c, ValueOf(c.graph, k).name, "ASTED")
    /\ Is(c, ValueOf(c.graph, k).name, "LOCKED") => c.node[ValueOf(c.graph, k).name].lock = k
    /\ Waits(c.graph, k) \subseteq {k}
    /\ Is(c, ValueOf(c.graph, k).name, "BOUND") /\ Waits(c.graph, k) # {} => k \in c.unlockSet

(* A task waits for the event of its identifier, if it still waits.  While *)
(* that is not known the event waits for the lock of the name, or the name *)
(* was bound; once it is, nothing holds the event back.                    *)
TaskOK(c, t, v) ==
  /\ ~Is(c, v.name, "ASTED")
  /\ v.lock \in DOMAIN c.graph.node
  /\ v.lock \in Live(c.graph) => ValueOf(c.graph, v.lock) = Null("lock", v.name)
  /\ Is(c, v.name, "LOCKED") => c.node[v.name].lock = v.lock
  /\ \A e \in Waits(c.graph, t) : ValueOf(c.graph, e) = Null("event", v.id)
  /\ \A e, f \in Waits(c.graph, t) : e = f
  /\ v.id \notin c.factMap /\ Is(c, v.name, "LOCKED") =>
       \E e \in Waits(c.graph, t) : v.lock \in Waits(c.graph, e)
  /\ v.id \in c.factMap => \A e \in Waits(c.graph, t) : Waits(c.graph, e) = {}
TasksOK(c) == \A t \in Nodes(c.graph, "task") : TaskOK(c, t, ValueOf(c.graph, t))

(* What the other nodes wait for. *)
RestOK(c) ==
  /\ \A x \in Nodes(c.graph, "event") \cup Nodes(c.graph, "check") :
       Waits(c.graph, x) \subseteq Nodes(c.graph, "lock")
  /\ \A x \in Nodes(c.graph, "bind") : Waits(c.graph, x) = {}
  /\ \A kind \in {"bind", "check"} : \A x, y \in Nodes(c.graph, kind) : x = y

(* What is unlocked is the lock of a bound name, or a cell that was erased. *)
UnlocksOK(c) ==
  /\ IsFiniteSet(c.unlockSet) /\ c.unlockSet \subseteq DOMAIN c.graph.node
  /\ \A k \in c.unlockSet \cap Live(c.graph) :
       /\ ValueOf(c.graph, k).kind = "lock"
       /\ Is(c, ValueOf(c.graph, k).name, "BOUND")

Core(c) ==
  /\ c \in ContextSet /\ GraphOK(Values, c.graph)
  /\ NamesOK(c) /\ LocksOK(c) /\ TasksOK(c) /\ RestOK(c) /\ UnlocksOK(c)

(* No lock that a task will unlock, or that is unlocked, was erased: its    *)
(* cell would become something else.                                       *)
HeldLive(c) ==
  /\ c.unlockSet \subseteq Live(c.graph)
  /\ \A t \in Nodes(c.graph, "task") : ValueOf(c.graph, t).lock \in Live(c.graph)

(* While names are visited the events are those of the tasks.              *)
Fresh(c) ==
  /\ HeldLive(c)
  /\ DOMAIN c.eventMap \subseteq Ids \ c.factMap
  /\ \A id \in DOMAIN c.eventMap :
       /\ c.eventMap[id] \in Live(c.graph)
       /\ ValueOf(c.graph, c.eventMap[id]) = Null("event", id)
       /\ Waits(c.graph, c.eventMap[id]) # {}
  /\ \A t \in Nodes(c.graph, "task") :
       ValueOf(c.graph, t).id \notin c.factMap =>
         /\ ValueOf(c.graph, t).id \in DOMAIN c.eventMap
         /\ Waits(c.graph, t) = {c.eventMap[ValueOf(c.graph, t).id]}

-----------------------------------------------------------------------------
(* Steps after which less is waited for: a node is popped, the unlocked    *)
(* locks are detached, an event is forced.                                 *)
Thin(c, d, R, E) ==
  /\ d \in ContextSet /\ d.node = c.node
  /\ Reshaped(Values, c.graph, d.graph)
  /\ Live(d.graph) \subseteq Live(c.graph)
  /\ \A x \in Live(c.graph) \ Live(d.graph) : Waits(c.graph, x) = {}
  /\ \A x : Waits(d.graph, x) = IF x \in E THEN {} ELSE Waits(c.graph, x) \ R
  /\ \A y \in R \cap Live(c.graph) :
       \/ Waits(c.graph, y) = {}
       \/ ValueOf(c.graph, y).kind = "lock" /\ Is(c, ValueOf(c.graph, y).name, "BOUND")
  /\ \A e \in E : ValueOf(c.graph, e).kind = "event" /\ ValueOf(c.graph, e).name \in d.factMap
  /\ c.factMap \subseteq d.factMap
  /\ \A t \in Nodes(c.graph, "task") :
       ValueOf(c.graph, t).id \in d.factMap \ c.factMap => Waits(c.graph, t) \subseteq E
  /\ d.unlockSet \subseteq c.unlockSet /\ c.unlockSet \ d.unlockSet \subseteq R

(* Then the rest of the core holds. *)
LEMMA ThinKeeps ==
  ASSUME NEW c, Core(c), NEW d, NEW R, NEW E, Thin(c, d, R, E)
  PROVE  Core(d)
<1> DEFINE g == c.graph
           h == d.graph
<1>0. \A x : Waits(h, x) = IF x \in E THEN {} ELSE Waits(g, x) \ R
  BY DEF Thin
<1>1. /\ GraphOK(Values, g) /\ GraphOK(Values, h) /\ d \in ContextSet /\ c \in ContextSet
      /\ Live(h) \subseteq Live(g) /\ d.node = c.node
      /\ DOMAIN g.node \subseteq DOMAIN h.node
      /\ \A x : Waits(h, x) \subseteq Waits(g, x)
      /\ \A x \in Live(h) : ValueOf(h, x) = ValueOf(g, x)
  <2>1. /\ GraphOK(Values, g) /\ GraphOK(Values, h) /\ d \in ContextSet /\ c \in ContextSet
        /\ Live(h) \subseteq Live(g) /\ d.node = c.node /\ Reshaped(Values, g, h)
    BY DEF Core, Thin, Reshaped
  <2>2. DOMAIN g.node \subseteq DOMAIN h.node
    BY <2>1 DEF Reshaped
  <2>3. \A x \in Live(h) : ValueOf(h, x) = ValueOf(g, x)
    BY <2>1 DEF Reshaped, ValueOf
  <2> HIDE DEF g, h
  <2> QED BY <1>0, <2>1, <2>2, <2>3
<1>2. \A n, s : Is(d, n, s) <=> Is(c, n, s)
  BY <1>1 DEF Is
<1>3. \A kind : Nodes(h, kind) = Nodes(g, kind) \cap Live(h)
  BY <1>1 DEF Nodes
<1>4. \A x : Waits(h, x) \subseteq Live(h)
  BY <1>1, WaitsLive
<1>5. ASSUME NEW n \in Names, Is(c, n, "LOCKED")
      PROVE  /\ c.node[n].lock \in Live(h) \ (R \cup E)
             /\ Waits(h, c.node[n].lock) = {c.node[n].lock}
             /\ ValueOf(h, c.node[n].lock) = Null("lock", n)
  <2> DEFINE k == c.node[n].lock
  <2>1. k \in Live(g) /\ ValueOf(g, k) = Null("lock", n) /\ Waits(g, k) = {k}
    BY <1>5 DEF Core, NamesOK
  <2>2. k \in Live(h)
    BY <2>1 DEF Thin
  <2>3. ValueOf(g, k).kind = "lock" /\ ValueOf(g, k).name = n
    BY <2>1, NullFacts
  <2>4. k \notin R /\ k \notin E
    BY <2>1, <2>3, <1>5 DEF Thin, Is
  <2> HIDE DEF k
  <2>5. Waits(h, k) = {k}
    BY <2>1, <2>4, <1>0
  <2> QED BY <2>1, <2>2, <2>4, <2>5, <1>1 DEF k
<1>6. NamesOK(d)
  BY <1>1, <1>2, <1>5 DEF NamesOK
<1>7. LocksOK(d)
  <2> SUFFICES ASSUME NEW k \in Nodes(h, "lock")
               PROVE  /\ ~Is(d, ValueOf(h, k).name, "ASTED")
                      /\ Is(d, ValueOf(h, k).name, "LOCKED") => d.node[ValueOf(h, k).name].lock = k
                      /\ Waits(h, k) \subseteq {k}
                      /\ Is(d, ValueOf(h, k).name, "BOUND") /\ Waits(h, k) # {} => k \in d.unlockSet
    BY DEF LocksOK
  <2>1. k \in Nodes(g, "lock") /\ ValueOf(h, k) = ValueOf(g, k) /\ k \in Live(h)
    BY <1>1, <1>3
  <2>2. ValueOf(g, k).name \in Names
    BY <2>1, <1>1, LiveValues, ValueFacts DEF Nodes
  <2>3. /\ ~Is(c, ValueOf(g, k).name, "ASTED")
        /\ Is(c, ValueOf(g, k).name, "LOCKED") => c.node[ValueOf(g, k).name].lock = k
        /\ Waits(g, k) \subseteq {k}
        /\ Is(c, ValueOf(g, k).name, "BOUND") /\ Waits(g, k) # {} => k \in c.unlockSet
    BY <2>1 DEF Core, LocksOK
  <2>4. Waits(h, k) # {} => k \notin R
    BY <2>3, <1>0
  <2>5. Waits(h, k) # {} => Waits(g, k) # {}
    BY <1>1
  <2>6. k \in c.unlockSet /\ k \notin R => k \in d.unlockSet
    BY DEF Thin
  <2> QED BY <1>1, <1>2, <2>1, <2>2, <2>3, <2>4, <2>5, <2>6
<1>8. TasksOK(d)
  <2> SUFFICES ASSUME NEW t \in Nodes(h, "task")
               PROVE  TaskOK(d, t, ValueOf(h, t))
    BY DEF TasksOK
  <2> DEFINE v == ValueOf(g, t)
  <2>1. t \in Nodes(g, "task") /\ ValueOf(h, t) = v /\ t \in Live(h)
    BY <1>1, <1>3
  <2>2. v.name \in Names /\ v.kind = "task"
    BY <2>1, <1>1, LiveValues, ValueFacts DEF Nodes
  <2>3. TaskOK(c, t, v)
    BY <2>1 DEF Core, TasksOK
  <2>4. t \notin E
    BY <2>2 DEF Thin
  <2> HIDE DEF v
  <2>5. /\ ~Is(d, v.name, "ASTED")
        /\ v.lock \in DOMAIN h.node
        /\ v.lock \in Live(h) => ValueOf(h, v.lock) = Null("lock", v.name)
        /\ Is(d, v.name, "LOCKED") => d.node[v.name].lock = v.lock
    BY <1>1, <1>2, <2>2, <2>3 DEF TaskOK
  <2>6. /\ \A e \in Waits(h, t) : ValueOf(h, e) = Null("event", v.id)
        /\ \A e, f \in Waits(h, t) : e = f
    BY <1>1, <1>4, <2>3 DEF TaskOK
  <2>7. ASSUME v.id \notin d.factMap, Is(d, v.name, "LOCKED")
        PROVE  \E e \in Waits(h, t) : v.lock \in Waits(h, e)
    <3>1. v.id \notin c.factMap /\ Is(c, v.name, "LOCKED")
      BY <2>7, <1>2, <2>2 DEF Thin
    <3>2. PICK e \in Waits(g, t) : v.lock \in Waits(g, e)
      BY <3>1, <2>3 DEF TaskOK
    <3>3. v.lock \notin R
      BY <3>1, <2>2, <2>3, <1>5 DEF TaskOK
    <3>4. ValueOf(g, e) = Null("event", v.id)
      BY <2>3 DEF TaskOK
    <3>5. ValueOf(g, e).kind = "event" /\ ValueOf(g, e).name = v.id
      BY <3>4, NullFacts
    <3>6. e \notin E /\ e \notin R
      <4>1. e \in Live(g)
        BY <1>1, WaitsLive
      <4> QED BY <4>1, <3>2, <3>5, <2>7 DEF Thin
    <3>7. e \in Waits(h, t)
      BY <3>6, <2>4, <1>0
    <3>8. v.lock \in Waits(h, e)
      BY <3>2, <3>3, <3>6, <1>0
    <3> QED BY <3>7, <3>8
  <2>8. ASSUME v.id \in d.factMap, NEW e \in Waits(h, t) PROVE Waits(h, e) = {}
    <3>1. e \in Waits(g, t)
      BY <1>1
    <3>2. CASE v.id \in c.factMap
      <4>1. Waits(g, e) = {}
        BY <3>1, <3>2, <2>3 DEF TaskOK
      <4> QED BY <4>1, <1>1
    <3>3. CASE v.id \notin c.factMap
      <4>1. e \in E
        BY <3>1, <3>3, <2>1, <2>8 DEF Thin, v
      <4> QED BY <4>1 DEF Thin
    <3> QED BY <3>2, <3>3
  <2> QED BY <2>1, <2>5, <2>6, <2>7, <2>8 DEF TaskOK
<1>9. RestOK(d)
  <2>1. \A x \in Nodes(h, "event") \cup Nodes(h, "check") : Waits(h, x) \subseteq Nodes(h, "lock")
    <3>1. \A x \in Nodes(g, "event") \cup Nodes(g, "check") : Waits(g, x) \subseteq Nodes(g, "lock")
      BY DEF Core, RestOK
    <3> QED BY <3>1, <1>1, <1>3, <1>4
  <2>2. \A x \in Nodes(h, "bind") : Waits(h, x) = {}
    BY <1>1, <1>3 DEF Core, RestOK
  <2>3. \A kind \in {"bind", "check"} : \A x, y \in Nodes(h, kind) : x = y
    BY <1>3 DEF Core, RestOK
  <2> QED BY <2>1, <2>2, <2>3 DEF RestOK
<1>10. UnlocksOK(d)
  <2>1. d.unlockSet \in SUBSET c.unlockSet /\ IsFiniteSet(c.unlockSet) /\ c.unlockSet \subseteq DOMAIN g.node
    BY DEF Core, UnlocksOK, Thin
  <2>2. IsFiniteSet(d.unlockSet)
    BY <2>1, FS_Subset
  <2>3. \A k \in d.unlockSet \cap Live(h) : ValueOf(h, k).kind = "lock" /\ Is(d, ValueOf(h, k).name, "BOUND")
    BY <1>1, <2>1 DEF Core, UnlocksOK, Is
  <2> QED BY <1>1, <2>1, <2>2, <2>3 DEF UnlocksOK
<1>11. QED
  BY <1>1, <1>6, <1>7, <1>8, <1>9, <1>10 DEF Core


-----------------------------------------------------------------------------
(* A name is bound, or was bound, and its lock is unlocked. *)
BindsName(c, d, n) ==
  /\ d \in ContextSet /\ d.graph = c.graph /\ d.factMap = c.factMap
  /\ \A m \in Names \ {n} : d.node[m] = c.node[m]
  /\ Is(d, n, "BOUND")
  /\ c.unlockSet \subseteq d.unlockSet
  /\ Is(c, n, "LOCKED") => c.node[n].lock \in d.unlockSet
  /\ \A k \in d.unlockSet \ c.unlockSet :
       /\ k \in DOMAIN c.graph.node
       /\ k \in Live(c.graph) => ValueOf(c.graph, k) = Null("lock", n)
  /\ IsFiniteSet(d.unlockSet)

(* Then the core holds, for no lock of a bound name waits unless it is in  *)
(* the set.                                                                *)
LEMMA BindsNameKeeps ==
  ASSUME NEW c, Core(c), NEW d, NEW n \in Names, ~Is(c, n, "ASTED"), BindsName(c, d, n)
  PROVE  Core(d)
<1> DEFINE g == c.graph
<1>1. /\ GraphOK(Values, g) /\ d \in ContextSet /\ c \in ContextSet /\ d.graph = g
      /\ d.factMap = c.factMap /\ c.unlockSet \subseteq d.unlockSet
  BY DEF Core, BindsName
<1>2. /\ \A m \in Names \ {n} : d.node[m] = c.node[m]
      /\ d.node[n].status = "BOUND"
  BY DEF BindsName, Is
<1>3. /\ \A m \in Names \ {n} : \A s : Is(d, m, s) <=> Is(c, m, s)
      /\ \A s : Is(d, n, s) <=> s = "BOUND"
  BY <1>2 DEF Is
<1>4. NamesOK(d)
  BY <1>1, <1>2, <1>3 DEF Core, NamesOK
<1>5. LocksOK(d)
  <2> SUFFICES ASSUME NEW k \in Nodes(g, "lock")
               PROVE  /\ ~Is(d, ValueOf(g, k).name, "ASTED")
                      /\ Is(d, ValueOf(g, k).name, "LOCKED") => d.node[ValueOf(g, k).name].lock = k
                      /\ Waits(g, k) \subseteq {k}
                      /\ Is(d, ValueOf(g, k).name, "BOUND") /\ Waits(g, k) # {} => k \in d.unlockSet
    BY <1>1 DEF LocksOK
  <2> DEFINE m == ValueOf(g, k).name
  <2>1. m \in Names
    BY <1>1, LiveValues, ValueFacts DEF Nodes
  <2>2. /\ ~Is(c, m, "ASTED")
        /\ Is(c, m, "LOCKED") => c.node[m].lock = k
        /\ Waits(g, k) \subseteq {k}
        /\ Is(c, m, "BOUND") /\ Waits(g, k) # {} => k \in c.unlockSet
    BY DEF Core, LocksOK
  <2> HIDE DEF m
  <2>3. Is(c, m, "LOCKED") \/ Is(c, m, "BOUND")
    <3>1. c.node[m] \in NodeSet
      BY <1>1, <2>1 DEF ContextSet
    <3> QED BY <3>1, <2>2, NodeFacts DEF Is
  <2>4. CASE m = n
    <3>1. Waits(g, k) # {} => k \in d.unlockSet
      BY <2>2, <2>3, <2>4, <1>1 DEF BindsName
    <3> QED BY <3>1, <2>2, <2>4, <1>3 DEF m
  <2>5. CASE m # n
    BY <2>1, <2>2, <2>5, <1>1, <1>2, <1>3 DEF m
  <2> QED BY <2>4, <2>5
<1>6. TasksOK(d)
  <2> SUFFICES ASSUME NEW t \in Nodes(g, "task") PROVE TaskOK(d, t, ValueOf(g, t))
    BY <1>1 DEF TasksOK
  <2> DEFINE v == ValueOf(g, t)
  <2>1. v.name \in Names
    BY <1>1, LiveValues, ValueFacts DEF Nodes
  <2>2. TaskOK(c, t, v)
    BY DEF Core, TasksOK
  <2> HIDE DEF v
  <2>3. /\ ~Is(d, v.name, "ASTED")
        /\ Is(d, v.name, "LOCKED") => Is(c, v.name, "LOCKED") /\ d.node[v.name] = c.node[v.name]
    BY <2>1, <2>2, <1>2, <1>3 DEF TaskOK
  <2> QED BY <2>2, <2>3, <1>1 DEF TaskOK, v
<1>7. RestOK(d)
  BY <1>1 DEF Core, RestOK
<1>8. UnlocksOK(d)
  <2> SUFFICES ASSUME NEW k \in d.unlockSet
               PROVE  /\ k \in DOMAIN g.node
                      /\ k \in Live(g) => /\ ValueOf(g, k).kind = "lock"
                                          /\ Is(d, ValueOf(g, k).name, "BOUND")
    BY <1>1 DEF UnlocksOK, BindsName
  <2>1. CASE k \in c.unlockSet
    <3>1. /\ k \in DOMAIN g.node
          /\ k \in Live(g) => /\ ValueOf(g, k).kind = "lock"
                              /\ Is(c, ValueOf(g, k).name, "BOUND")
      BY <2>1 DEF Core, UnlocksOK
    <3>2. k \in Live(g) => ValueOf(g, k).name \in Names
      BY <3>1, <1>1, LiveValues, ValueFacts
    <3> QED BY <3>1, <3>2, <1>3
  <2>2. CASE k \notin c.unlockSet
    <3>1. k \in DOMAIN g.node /\ (k \in Live(g) => ValueOf(g, k) = Null("lock", n))
      BY <2>2 DEF BindsName
    <3> QED BY <3>1, <1>3, NullFacts
  <2> QED BY <2>1, <2>2
<1>9. QED
  BY <1>1, <1>4, <1>5, <1>6, <1>7, <1>8 DEF Core

(* What the visit of a name leaves alone. *)
VisitStep(c, d, n) ==
  /\ d.factMap = c.factMap
  /\ \A m \in Names \ {n} : d.node[m] = c.node[m]
  /\ ~Is(c, n, "ASTED") => ~Is(d, n, "ASTED")
  /\ Is(c, n, "BOUND") => Is(d, n, "BOUND")
  /\ d.node[n].vIndex = c.node[n].vIndex \/ d.node[n].vIndex \in d.factMap
  /\ Live(c.graph) \subseteq Live(d.graph)
  /\ \A x \in Live(c.graph) : ValueOf(d.graph, x) = ValueOf(c.graph, x)
  /\ Nodes(d.graph, "bind") = Nodes(c.graph, "bind")
  /\ Nodes(d.graph, "check") = Nodes(c.graph, "check")
  /\ \A x \in Nodes(c.graph, "check") \cup Nodes(c.graph, "lock") :
       Waits(d.graph, x) = Waits(c.graph, x)
  /\ \A t \in Nodes(d.graph, "task") \ Nodes(c.graph, "task") :
       ValueOf(d.graph, t).name = n /\ ValueOf(d.graph, t).id \notin d.factMap

(* A name that is not visited again. *)
LEMMA VisitNot ==
  ASSUME NEW c, NEW n
  PROVE  VisitStep(c, c, n)
BY DEF VisitStep

(* One candidate after the other. *)
LEMMA VisitTwice ==
  ASSUME NEW c, NEW d, NEW e, NEW n \in Names, VisitStep(c, d, n), VisitStep(d, e, n)
  PROVE  VisitStep(c, e, n)
<1>1. /\ e.factMap = c.factMap
      /\ \A m \in Names \ {n} : e.node[m] = c.node[m]
      /\ ~Is(c, n, "ASTED") => ~Is(e, n, "ASTED")
      /\ Is(c, n, "BOUND") => Is(e, n, "BOUND")
      /\ e.node[n].vIndex = c.node[n].vIndex \/ e.node[n].vIndex \in e.factMap
      /\ Live(c.graph) \subseteq Live(e.graph)
      /\ Nodes(e.graph, "bind") = Nodes(c.graph, "bind")
      /\ Nodes(e.graph, "check") = Nodes(c.graph, "check")
  BY DEF VisitStep
<1>2. \A x \in Live(c.graph) : ValueOf(e.graph, x) = ValueOf(c.graph, x)
  BY DEF VisitStep
<1>3. Nodes(c.graph, "lock") \subseteq Nodes(d.graph, "lock")
  BY DEF VisitStep, Nodes
<1>4. \A x \in Nodes(c.graph, "check") \cup Nodes(c.graph, "lock") :
       Waits(e.graph, x) = Waits(c.graph, x)
  BY <1>3 DEF VisitStep
<1>5. \A t \in Nodes(e.graph, "task") \ Nodes(c.graph, "task") :
       ValueOf(e.graph, t).name = n /\ ValueOf(e.graph, t).id \notin e.factMap
  <2> SUFFICES ASSUME NEW t \in Nodes(e.graph, "task") \ Nodes(c.graph, "task")
               PROVE  ValueOf(e.graph, t).name = n /\ ValueOf(e.graph, t).id \notin e.factMap
    OBVIOUS
  <2>1. CASE t \in Nodes(d.graph, "task")
    <3>1. ValueOf(d.graph, t).name = n /\ ValueOf(d.graph, t).id \notin d.factMap
      BY <2>1 DEF VisitStep
    <3>2. ValueOf(e.graph, t) = ValueOf(d.graph, t) /\ e.factMap = d.factMap
      BY <2>1 DEF VisitStep, Nodes
    <3> QED BY <3>1, <3>2
  <2>2. CASE t \notin Nodes(d.graph, "task")
    BY <2>2 DEF VisitStep
  <2> QED BY <2>1, <2>2
<1>6. QED
  BY <1>1, <1>2, <1>4, <1>5 DEF VisitStep

-----------------------------------------------------------------------------
(* The first use of a name. *)
NameLocked(c, d, n) ==
  /\ Core(d) /\ (Fresh(c) => Fresh(d)) /\ VisitStep(c, d, n)
  /\ ~Is(d, n, "ASTED")
  /\ d.eventMap = c.eventMap /\ d.unlockSet = c.unlockSet
  /\ \A kind \in {"task", "event"} : Nodes(d.graph, kind) = Nodes(c.graph, kind)
  /\ \A x \in Live(c.graph) : Waits(d.graph, x) = Waits(c.graph, x)
  /\ top(d.graph) = top(c.graph)
  /\ \A k \in Nodes(d.graph, "lock") : k \in Live(c.graph) \/ ValueOf(d.graph, k).name = n
  /\ ~Is(c, n, "ASTED") => d = c
  /\ Is(c, n, "ASTED") => Is(d, n, "LOCKED") /\ Clean(d.graph, "pendings")

(* vIndexOrLock: the lock is made of a new cell.  When a name is locked no *)
(* held cell may have been erased.                                         *)
LEMMA LockNameDoes ==
  ASSUME NEW c, Core(c), NEW n \in Names, Is(c, n, "ASTED") => HeldLive(c)
  PROVE  NameLocked(c, vIndexOrLock(c, n), n)
<1> DEFINE g == c.graph
           h == makeLock(g, n)
           k == h.blockeds
           d == vIndexOrLock(c, n)
<1> SUFFICES NameLocked(c, d, n)
  OBVIOUS
<1>1. GraphOK(Values, g) /\ c \in ContextSet
  BY DEF Core
<1>2. CASE ~Is(c, n, "ASTED")
  <2>1. d = c
    BY <1>2 DEF vIndexOrLock, Is
  <2> HIDE DEF d
  <2>2. VisitStep(c, c, n)
    BY VisitNot
  <2> QED BY <2>1, <2>2, <1>2 DEF NameLocked, Nodes
<1>3. CASE Is(c, n, "ASTED")
  <2>1. Null("lock", n) \in Values
    BY DEF Values
  <2>2. LockWaits(Values, g, h, Null("lock", n))
    <3> DEFINE m == makeNode(g, Null("lock", n))
    <3>1. h = attach(m, top(m), top(m))
      BY DEF makeLock
    <3> HIDE DEF m, h
    <3> QED BY <3>1, <2>1, <1>1, MakeLockWaits DEF m
  <2>3. d = [c EXCEPT !.graph = h, !.node[n] = Locked(k)]
    BY <1>3 DEF vIndexOrLock, Is
  <2> HIDE DEF d, h
  <2>4. /\ GraphOK(Values, h) /\ DOMAIN g.node \subseteq DOMAIN h.node
        /\ k \notin Live(g) /\ Live(h) = Live(g) \cup {k}
        /\ ValueOf(h, k) = Null("lock", n)
        /\ Waits(h, k) = {k} /\ \A x \in Live(g) : Waits(h, x) = Waits(g, x)
        /\ \A x \in Live(g) : ValueOf(h, x) = ValueOf(g, x)
        /\ top(h) = top(g) /\ Clean(h, "pendings")
    BY <2>2 DEF LockWaits, Reshaped, ValueOf
  <2>5. ValueOf(h, k).kind = "lock" /\ ValueOf(h, k).name = n
    BY <2>4, NullFacts
  <2> HIDE DEF k
  <2>6. k \in Nat /\ h \in GraphSet(Values)
    BY <2>4, LiveValues DEF GraphOK, EdgesOK
  <2>7. /\ d \in ContextSet /\ d.graph = h /\ d.eventMap = c.eventMap /\ d.factMap = c.factMap
        /\ d.unlockSet = c.unlockSet /\ d.node[n] = Locked(k)
        /\ \A m \in Names \ {n} : d.node[m] = c.node[m]
    <3>1. Locked(k) \in NodeSet
      BY <2>6, NodeStates
    <3> QED BY <3>1, <2>3, <2>6, <1>1 DEF ContextSet
  <2>8. /\ \A m \in Names \ {n} : \A s : Is(d, m, s) <=> Is(c, m, s)
        /\ \A s : Is(d, n, s) <=> s = "LOCKED"
        /\ d.node[n].lock = k /\ d.node[n].vIndex = None /\ c.node[n].vIndex = None
    <3>1. c.node[n] \in NodeSet /\ c.node[n].status = "ASTED"
      BY <1>1, <1>3 DEF ContextSet, Is
    <3>2. c.node[n].vIndex = None
      BY <3>1, NodeFacts
    <3>3. d.node[n].status = "LOCKED" /\ d.node[n].lock = k /\ d.node[n].vIndex = None
      BY <2>7 DEF Locked
    <3> QED BY <3>2, <3>3, <2>7 DEF Is
  <2>9. /\ \A kind : kind # "lock" => Nodes(h, kind) = Nodes(g, kind)
        /\ Nodes(h, "lock") = Nodes(g, "lock") \cup {k}
    BY <2>4, <2>5 DEF Nodes
  <2>10. /\ \A x \in Nodes(g, "lock") : ValueOf(g, x).name \in Names \ {n}
         /\ \A t \in Nodes(g, "task") : ValueOf(g, t).name \in Names \ {n}
    <3>1. \A x \in Nodes(g, "lock") \cup Nodes(g, "task") : ValueOf(g, x).name \in Names
      BY <1>1, LiveValues, ValueFacts DEF Nodes
    <3>2. \A x \in Nodes(g, "lock") \cup Nodes(g, "task") : ~Is(c, ValueOf(g, x).name, "ASTED")
      BY DEF Core, LocksOK, TasksOK, TaskOK
    <3> QED BY <3>1, <3>2, <1>3
  <2>11. \A x : Waits(g, x) \subseteq Live(g)
    BY <1>1, WaitsLive
  <2>12. NamesOK(d)
    <3> SUFFICES ASSUME NEW m \in Names, Is(d, m, "LOCKED")
                 PROVE  /\ d.node[m].lock \in Live(h)
                        /\ ValueOf(h, d.node[m].lock) = Null("lock", m)
                        /\ Waits(h, d.node[m].lock) = {d.node[m].lock}
      BY <2>7 DEF NamesOK
    <3>1. CASE m = n
      BY <3>1, <2>4, <2>8
    <3>2. CASE m # n
      <4>1. Is(c, m, "LOCKED") /\ d.node[m] = c.node[m]
        BY <3>2, <2>7, <2>8
      <4>2. /\ c.node[m].lock \in Live(g)
            /\ ValueOf(g, c.node[m].lock) = Null("lock", m)
            /\ Waits(g, c.node[m].lock) = {c.node[m].lock}
        BY <4>1 DEF Core, NamesOK
      <4> QED BY <4>1, <4>2, <2>4
    <3> QED BY <3>1, <3>2
  <2>13. LocksOK(d)
    <3> SUFFICES ASSUME NEW x \in Nodes(h, "lock")
                 PROVE  /\ ~Is(d, ValueOf(h, x).name, "ASTED")
                        /\ Is(d, ValueOf(h, x).name, "LOCKED") => d.node[ValueOf(h, x).name].lock = x
                        /\ Waits(h, x) \subseteq {x}
                        /\ Is(d, ValueOf(h, x).name, "BOUND") /\ Waits(h, x) # {} => x \in d.unlockSet
      BY <2>7 DEF LocksOK
    <3>1. CASE x = k
      BY <3>1, <2>4, <2>5, <2>8
    <3>2. CASE x \in Nodes(g, "lock")
      <4>1. x \in Live(g) /\ ValueOf(h, x) = ValueOf(g, x) /\ Waits(h, x) = Waits(g, x)
            /\ ValueOf(g, x).name \in Names \ {n}
        BY <3>2, <2>4, <2>10 DEF Nodes
      <4>2. /\ ~Is(c, ValueOf(g, x).name, "ASTED")
            /\ Is(c, ValueOf(g, x).name, "LOCKED") => c.node[ValueOf(g, x).name].lock = x
            /\ Waits(g, x) \subseteq {x}
            /\ Is(c, ValueOf(g, x).name, "BOUND") /\ Waits(g, x) # {} => x \in c.unlockSet
        BY <3>2 DEF Core, LocksOK
      <4> QED BY <4>1, <4>2, <2>7, <2>8
    <3> QED BY <3>1, <3>2, <2>9
  <2>14. TasksOK(d)
    <3> SUFFICES ASSUME NEW t \in Nodes(g, "task") PROVE TaskOK(d, t, ValueOf(g, t))
      BY <2>4, <2>7, <2>9 DEF TasksOK, Nodes
    <3> DEFINE v == ValueOf(g, t)
    <3>1. TaskOK(c, t, v) /\ v.name \in Names \ {n} /\ t \in Live(g)
      BY <2>10 DEF Core, TasksOK, Nodes
    <3> HIDE DEF v
    <3>2. /\ ~Is(d, v.name, "ASTED")
          /\ v.lock \in DOMAIN h.node
          /\ Is(d, v.name, "LOCKED") => d.node[v.name].lock = v.lock
      BY <3>1, <2>4, <2>7, <2>8 DEF TaskOK
    <3>3. v.lock \in Live(h) => ValueOf(h, v.lock) = Null("lock", v.name)
      BY <3>1, <2>4, <1>3 DEF TaskOK, HeldLive, v
    <3>4. /\ \A e \in Waits(h, t) : ValueOf(h, e) = Null("event", v.id)
          /\ \A e, f \in Waits(h, t) : e = f
          /\ v.id \in c.factMap => \A e \in Waits(h, t) : Waits(h, e) = {}
      BY <3>1, <2>4, <2>11 DEF TaskOK
    <3>5. v.id \notin c.factMap /\ Is(d, v.name, "LOCKED") =>
           \E e \in Waits(h, t) : v.lock \in Waits(h, e)
      BY <3>1, <2>4, <2>8, <2>11 DEF TaskOK
    <3> QED BY <3>2, <3>3, <3>4, <3>5, <2>7 DEF TaskOK, v
  <2>15. RestOK(d)
    <3>1. \A x \in Nodes(h, "event") \cup Nodes(h, "check") : Waits(h, x) \subseteq Nodes(h, "lock")
      BY <2>4, <2>9 DEF Core, RestOK, Nodes
    <3>2. \A x \in Nodes(h, "bind") : Waits(h, x) = {}
      BY <2>4, <2>9 DEF Core, RestOK, Nodes
    <3>3. \A kind \in {"bind", "check"} : \A x, y \in Nodes(h, kind) : x = y
      BY <2>9 DEF Core, RestOK
    <3> QED BY <3>1, <3>2, <3>3, <2>7 DEF RestOK
  <2>16. UnlocksOK(d)
    <3>1. IsFiniteSet(c.unlockSet) /\ c.unlockSet \subseteq DOMAIN h.node /\ c.unlockSet \subseteq Live(g)
      BY <1>3, <2>4 DEF Core, UnlocksOK, HeldLive
    <3>2. \A x \in c.unlockSet : /\ ValueOf(h, x).kind = "lock"
                                 /\ Is(c, ValueOf(h, x).name, "BOUND")
                                 /\ ValueOf(h, x).name \in Names \ {n}
      BY <3>1, <2>4, <2>10 DEF Core, UnlocksOK, Nodes
    <3> QED BY <3>1, <3>2, <2>7, <2>8 DEF UnlocksOK
  <2>17. Core(d)
    BY <2>4, <2>7, <2>12, <2>13, <2>14, <2>15, <2>16 DEF Core
  <2>18. ASSUME Fresh(c) PROVE Fresh(d)
    <3>1. HeldLive(d)
      BY <1>3, <2>4, <2>7, <2>9 DEF HeldLive, Nodes
    <3>2. DOMAIN d.eventMap \subseteq Ids \ d.factMap
      BY <2>7, <2>18 DEF Fresh
    <3>3. \A id \in DOMAIN d.eventMap :
           /\ d.eventMap[id] \in Live(h)
           /\ ValueOf(h, d.eventMap[id]) = Null("event", id)
           /\ Waits(h, d.eventMap[id]) # {}
      BY <2>4, <2>7, <2>18 DEF Fresh
    <3>4. \A t \in Nodes(h, "task") :
           ValueOf(h, t).id \notin d.factMap =>
             /\ ValueOf(h, t).id \in DOMAIN d.eventMap
             /\ Waits(h, t) = {d.eventMap[ValueOf(h, t).id]}
      BY <2>4, <2>7, <2>9, <2>18 DEF Fresh, Nodes
    <3> QED BY <3>1, <3>2, <3>3, <3>4, <2>7 DEF Fresh
  <2>19. VisitStep(c, d, n)
    <3>1. \A x \in Nodes(g, "check") \cup Nodes(g, "lock") : Waits(h, x) = Waits(g, x)
      BY <2>4 DEF Nodes
    <3>2. Nodes(h, "task") \ Nodes(g, "task") = {}
      BY <2>9
    <3> QED BY <3>1, <3>2, <1>3, <2>4, <2>7, <2>8, <2>9 DEF VisitStep, Is
  <2>20. \A x \in Nodes(h, "lock") : x \in Live(g) \/ ValueOf(h, x).name = n
    BY <2>5, <2>9 DEF Nodes
  <2>21. \A kind \in {"task", "event"} : Nodes(h, kind) = Nodes(g, kind)
    BY <2>9
  <2> QED BY <1>3, <2>4, <2>7, <2>8, <2>17, <2>18, <2>19, <2>20, <2>21 DEF NameLocked
<1>4. QED
  BY <1>2, <1>3

-----------------------------------------------------------------------------
(* A task that waits for an event that waits for the lock of its name.     *)

(* The event is e, new or not; W is what it waits for.                     *)
HasEvent(c, d, id, e, W) ==
  /\ d \in ContextSet /\ GraphOK(Values, d.graph) /\ Clean(d.graph, "pendings")
  /\ d.node = c.node /\ d.factMap = c.factMap /\ d.unlockSet = c.unlockSet
  /\ d.eventMap = [x \in DOMAIN c.eventMap \cup {id} |-> IF x = id THEN e ELSE c.eventMap[x]]
  /\ DOMAIN c.graph.node \subseteq DOMAIN d.graph.node
  /\ Live(d.graph) = Live(c.graph) \cup {e}
  /\ \A x \in Live(c.graph) : ValueOf(d.graph, x) = ValueOf(c.graph, x)
  /\ ValueOf(d.graph, e) = Null("event", id)
  /\ Waits(d.graph, e) = W
  /\ \A x \in Live(c.graph) \ {e} : Waits(d.graph, x) = Waits(c.graph, x)
  /\ IF id \in DOMAIN c.eventMap
     THEN e = c.eventMap[id] /\ e \in Live(c.graph) /\ W = Waits(c.graph, e)
     ELSE e \notin Live(c.graph) /\ W = {}

(* getOrMakeEvent: there is an event, made now when there was none. *)
LEMMA GetEventDoes ==
  ASSUME NEW c \in ContextSet, GraphOK(Values, c.graph), Clean(c.graph, "pendings"), NEW id \in Ids,
         id \in DOMAIN c.eventMap => /\ c.eventMap[id] \in Live(c.graph)
                                     /\ ValueOf(c.graph, c.eventMap[id]) = Null("event", id)
  PROVE  \E e, W : HasEvent(c, getOrMakeEvent(c, id), id, e, W)
<1> DEFINE d == getOrMakeEvent(c, id)
<1>0. /\ c.eventMap = [x \in DOMAIN c.eventMap |-> c.eventMap[x]]
      /\ DOMAIN c.eventMap \in SUBSET Ids /\ \A x \in DOMAIN c.eventMap : c.eventMap[x] \in Nat
  BY DEF ContextSet, EventMaps
<1>1. CASE id \in DOMAIN c.eventMap
  <2> DEFINE e == c.eventMap[id]
  <2>1. d = c
    BY <1>1 DEF getOrMakeEvent
  <2>2. c.eventMap = [x \in DOMAIN c.eventMap \cup {id} |-> IF x = id THEN e ELSE c.eventMap[x]]
    <3>1. DOMAIN c.eventMap \cup {id} = DOMAIN c.eventMap
      BY <1>1
    <3> QED BY <3>1, <1>0
  <2>3. e \in Live(c.graph) /\ ValueOf(c.graph, e) = Null("event", id)
    BY <1>1
  <2> HIDE DEF d, e
  <2>4. HasEvent(c, d, id, e, Waits(c.graph, e))
    <3>1. e = c.eventMap[id]
      BY DEF e
    <3> QED BY <3>1, <2>1, <2>2, <2>3, <1>1 DEF HasEvent
  <2> QED BY <2>4 DEF d
<1>2. CASE id \notin DOMAIN c.eventMap
  <2> DEFINE g == makeEvent(c.graph, id)
             e == top(g)
             E == [x \in DOMAIN c.eventMap \cup {id} |-> IF x = id THEN e ELSE c.eventMap[x]]
  <2>1. d = [c EXCEPT !.graph = g, !.eventMap = E]
    BY <1>2 DEF getOrMakeEvent
  <2>2. NodeWaits(Values, c.graph, g, Null("event", id))
    <3>1. Null("event", id) \in Values
      BY DEF Values
    <3> QED BY <3>1, MakeWaits DEF makeEvent
  <2> HIDE DEF d, g
  <2>3. /\ GraphOK(Values, g) /\ Clean(g, "pendings")
        /\ DOMAIN c.graph.node \subseteq DOMAIN g.node
        /\ e \notin Live(c.graph) /\ Live(g) = Live(c.graph) \cup {e}
        /\ ValueOf(g, e) = Null("event", id) /\ Waits(g, e) = {}
        /\ \A x \in Live(c.graph) : ValueOf(g, x) = ValueOf(c.graph, x)
        /\ \A x \in Live(c.graph) : Waits(g, x) = Waits(c.graph, x)
    BY <2>2 DEF NodeWaits, Reshaped, ValueOf
  <2> HIDE DEF e
  <2>4. g \in GraphSet(Values) /\ e \in Nat
    BY <2>3, LiveValues DEF GraphOK, EdgesOK
  <2>5. E \in EventMaps
    <3>1. DOMAIN c.eventMap \cup {id} \in SUBSET Ids
      BY <1>0
    <3>2. E \in [DOMAIN c.eventMap \cup {id} -> Nat]
      BY <1>0, <2>4
    <3> QED BY <3>1, <3>2 DEF EventMaps
  <2> HIDE DEF E
  <2>6. /\ d \in ContextSet /\ d.graph = g /\ d.eventMap = E
        /\ d.node = c.node /\ d.factMap = c.factMap /\ d.unlockSet = c.unlockSet
    BY <2>1, <2>4, <2>5 DEF ContextSet
  <2>7. HasEvent(c, d, id, e, {})
    BY <2>3, <2>6, <1>2 DEF HasEvent, E
  <2> QED BY <2>7 DEF d
<1>3. QED
  BY <1>1, <1>2

(* The task is t. *)
Deferred(c, d, n, id, t, e, W) ==
  /\ d \in ContextSet /\ GraphOK(Values, d.graph) /\ Clean(d.graph, "pendings")
  /\ d.node = c.node /\ d.factMap = c.factMap /\ d.unlockSet = c.unlockSet
  /\ DOMAIN d.eventMap = DOMAIN c.eventMap \cup {id} /\ d.eventMap[id] = e
  /\ \A x \in DOMAIN c.eventMap \ {id} : d.eventMap[x] = c.eventMap[x]
  /\ DOMAIN c.graph.node \subseteq DOMAIN d.graph.node
  /\ Live(d.graph) = Live(c.graph) \cup {t, e} /\ t \notin Live(c.graph) /\ t # e
  /\ \A x \in Live(c.graph) : ValueOf(d.graph, x) = ValueOf(c.graph, x)
  /\ ValueOf(d.graph, e) = Null("event", id)
  /\ ValueOf(d.graph, t) = [kind |-> "task", name |-> n, id |-> id, lock |-> c.node[n].lock]
  /\ Waits(d.graph, t) = {e} /\ Waits(d.graph, e) = W \cup {c.node[n].lock}
  /\ \A x \in Live(c.graph) \ {e} : Waits(d.graph, x) = Waits(c.graph, x)
  /\ IF id \in DOMAIN c.eventMap THEN e \in Live(c.graph) /\ W = Waits(c.graph, e) /\ c.eventMap[id] = e
                                 ELSE e \notin Live(c.graph) /\ W = {}

(* What Defer makes, in the order of the code. *)
LEMMA DeferShape ==
  ASSUME NEW c \in ContextSet, GraphOK(Values, c.graph), NEW n \in Names, NEW id \in Ids,
         c.node[n].lock \in Live(c.graph),
         id \in DOMAIN c.eventMap => /\ c.eventMap[id] \in Live(c.graph)
                                     /\ ValueOf(c.graph, c.eventMap[id]) = Null("event", id)
  PROVE  \E t, e, W : Deferred(c, Defer(c, n, id), n, id, t, e, W)
<1> DEFINE g == c.graph
           lock == c.node[n].lock
           tv == [kind |-> "task", name |-> n, id |-> id, lock |-> lock]
           g1 == makeNode(g, tv)
           t == top(g1)
           c1 == [c EXCEPT !.graph = g1]
           c2 == getOrMakeEvent(c1, id)
           e == c2.eventMap[id]
           g3 == attach(c2.graph, t, e)
           g4 == attach(g3, e, lock)
           d == Defer(c, n, id)
<1>1. d = [c2 EXCEPT !.graph = g4]
  BY DEF Defer
<1> HIDE DEF d
<1>2. NodeWaits(Values, g, g1, tv)
  <2>1. c.node[n] \in NodeSet
    BY DEF ContextSet
  <2>2. lock \in Nat
    BY <2>1, NodeFacts
  <2>3. tv \in Values
    BY <2>2 DEF Values
  <2> HIDE DEF tv
  <2> QED BY <2>3, MakeWaits
<1> HIDE DEF g1
<1>3. /\ GraphOK(Values, g1) /\ Clean(g1, "pendings")
      /\ DOMAIN g.node \subseteq DOMAIN g1.node
      /\ t \notin Live(g) /\ Live(g1) = Live(g) \cup {t}
      /\ ValueOf(g1, t) = tv /\ Waits(g1, t) = {}
      /\ \A x \in Live(g) : ValueOf(g1, x) = ValueOf(g, x)
      /\ \A x \in Live(g) : Waits(g1, x) = Waits(g, x)
  <2> HIDE DEF tv
  <2> QED BY <1>2 DEF NodeWaits, Reshaped, ValueOf
<1> HIDE DEF t, lock, tv
<1>4. c1 \in ContextSet /\ c1.graph = g1 /\ c1.eventMap = c.eventMap /\ c1.node = c.node
      /\ c1.factMap = c.factMap /\ c1.unlockSet = c.unlockSet
  <2>1. g1 \in GraphSet(Values)
    BY <1>3 DEF GraphOK, EdgesOK
  <2> QED BY <2>1 DEF ContextSet
<1> HIDE DEF c1
<1>5. PICK e0, W : HasEvent(c1, c2, id, e0, W)
  <2>1. id \in DOMAIN c1.eventMap => /\ c1.eventMap[id] \in Live(c1.graph)
                                     /\ ValueOf(c1.graph, c1.eventMap[id]) = Null("event", id)
    BY <1>3, <1>4
  <2> QED BY <2>1, <1>3, <1>4, GetEventDoes
<1> HIDE DEF c2
<1>6. e = e0
  BY <1>5 DEF HasEvent
<1>7. HasEvent(c1, c2, id, e, W)
  BY <1>5, <1>6
<1> HIDE DEF e
<1>8. /\ c2 \in ContextSet /\ GraphOK(Values, c2.graph) /\ Clean(c2.graph, "pendings")
      /\ c2.node = c.node /\ c2.factMap = c.factMap /\ c2.unlockSet = c.unlockSet
      /\ c2.eventMap = [x \in DOMAIN c.eventMap \cup {id} |-> IF x = id THEN e ELSE c.eventMap[x]]
      /\ DOMAIN g.node \subseteq DOMAIN c2.graph.node
      /\ Live(c2.graph) = Live(g) \cup {t, e}
      /\ t # e
      /\ ValueOf(c2.graph, e) = Null("event", id) /\ ValueOf(c2.graph, t) = tv
      /\ Waits(c2.graph, e) = W /\ Waits(c2.graph, t) = {}
      /\ IF id \in DOMAIN c.eventMap THEN e \in Live(g) /\ W = Waits(g, e) /\ c.eventMap[id] = e
                                     ELSE e \notin Live(g) /\ W = {}
  <2>1. t \in Live(c1.graph) /\ (id \in DOMAIN c.eventMap => e = c.eventMap[id] /\ e \in Live(g))
    BY <1>3, <1>4, <1>7 DEF HasEvent
  <2>2. t # e
    BY <2>1, <1>3, <1>4, <1>7 DEF HasEvent
  <2> QED BY <2>1, <2>2, <1>3, <1>4, <1>7 DEF HasEvent
<1>9. /\ \A x \in Live(g) : ValueOf(c2.graph, x) = ValueOf(g, x)
      /\ \A x \in Live(g) \ {e} : Waits(c2.graph, x) = Waits(g, x)
  BY <1>3, <1>4, <1>7 DEF HasEvent
<1>10. AttachedWaits(Values, c2.graph, g3, t, e)
  BY <1>8, AttachWaits
<1> HIDE DEF g3
<1>11. AttachedWaits(Values, g3, g4, e, lock)
  <2>1. GraphOK(Values, g3) /\ Clean(g3, "pendings") /\ Live(g3) = Live(c2.graph)
    BY <1>8, <1>10 DEF AttachedWaits, Reshaped
  <2>2. lock \in Live(g3) /\ e \in Live(g3)
    BY <2>1, <1>8 DEF lock
  <2> QED BY <2>1, <2>2, AttachWaits
<1> HIDE DEF g4
<1>12. /\ GraphOK(Values, g4) /\ Clean(g4, "pendings") /\ Live(g4) = Live(c2.graph)
       /\ DOMAIN c2.graph.node \subseteq DOMAIN g4.node
       /\ \A x \in Live(c2.graph) : ValueOf(g4, x) = ValueOf(c2.graph, x)
       /\ \A x : Waits(g4, x) = IF x = e THEN Waits(c2.graph, x) \cup {lock}
                                ELSE IF x = t THEN Waits(c2.graph, x) \cup {e}
                                ELSE Waits(c2.graph, x)
  <2>1. /\ GraphOK(Values, g4) /\ Clean(g4, "pendings") /\ Live(g4) = Live(c2.graph)
        /\ DOMAIN c2.graph.node \subseteq DOMAIN g4.node
    BY <1>8, <1>10, <1>11 DEF AttachedWaits, Reshaped
  <2>2. \A x \in Live(c2.graph) : ValueOf(g4, x) = ValueOf(c2.graph, x)
    BY <1>10, <1>11 DEF AttachedWaits, Reshaped, ValueOf
  <2>3. \A x : Waits(g3, x) = IF x = t THEN Waits(c2.graph, x) \cup {e} ELSE Waits(c2.graph, x)
    BY <1>10 DEF AttachedWaits
  <2>4. \A x : Waits(g4, x) = IF x = e THEN Waits(g3, x) \cup {lock} ELSE Waits(g3, x)
    BY <1>11 DEF AttachedWaits
  <2> QED BY <2>1, <2>2, <2>3, <2>4, <1>8
<1>13. /\ d \in ContextSet /\ d.graph = g4 /\ d.eventMap = c2.eventMap /\ d.node = c.node
       /\ d.factMap = c.factMap /\ d.unlockSet = c.unlockSet
  <2>1. g4 \in GraphSet(Values)
    BY <1>12 DEF GraphOK, EdgesOK
  <2> QED BY <2>1, <1>1, <1>8 DEF ContextSet
<1>14. /\ DOMAIN d.eventMap = DOMAIN c.eventMap \cup {id} /\ d.eventMap[id] = e
       /\ \A x \in DOMAIN c.eventMap \ {id} : d.eventMap[x] = c.eventMap[x]
  BY <1>8, <1>13
<1>15. Waits(g4, t) = {e} /\ Waits(g4, e) = W \cup {lock}
       /\ \A x \in Live(g) \ {e} : Waits(g4, x) = Waits(g, x)
  BY <1>3, <1>8, <1>9, <1>12
<1>16. /\ \A x \in Live(g) : ValueOf(g4, x) = ValueOf(g, x)
       /\ ValueOf(g4, e) = Null("event", id) /\ ValueOf(g4, t) = tv
  BY <1>8, <1>9, <1>12
<1>17. Deferred(c, d, n, id, t, e, W)
  BY <1>3, <1>8, <1>12, <1>13, <1>14, <1>15, <1>16 DEF Deferred, lock, tv
<1>18. QED
  BY <1>17 DEF d

(* The task is there, and waits as it should.                              *)
TaskAdded(c, d, n, id) ==
  /\ Core(d) /\ Fresh(d) /\ VisitStep(c, d, n) /\ d.node = c.node
  /\ \E t \in Nodes(d.graph, "task") : ValueOf(d.graph, t).name = n /\ ValueOf(d.graph, t).id = id

(* Defer keeps the core: the new task waits, by its event, for the lock. *)
LEMMA DeferDoes ==
  ASSUME NEW c, Core(c), Fresh(c), NEW n \in Names, Is(c, n, "LOCKED"), NEW id \in Ids \ c.factMap
  PROVE  TaskAdded(c, Defer(c, n, id), n, id)
<1> DEFINE g == c.graph
           k == c.node[n].lock
           d == Defer(c, n, id)
           h == d.graph
<1> SUFFICES TaskAdded(c, d, n, id)
  OBVIOUS
<1>1. GraphOK(Values, g) /\ c \in ContextSet
  BY DEF Core
<1>2. k \in Live(g) /\ ValueOf(g, k) = Null("lock", n)
  BY DEF Core, NamesOK
<1>3. PICK t, e, W : Deferred(c, d, n, id, t, e, W)
  <2>1. id \in DOMAIN c.eventMap => /\ c.eventMap[id] \in Live(c.graph)
                                    /\ ValueOf(c.graph, c.eventMap[id]) = Null("event", id)
    BY DEF Fresh
  <2> QED BY <2>1, <1>1, <1>2, DeferShape
<1> HIDE DEF d
<1>4. /\ d \in ContextSet /\ GraphOK(Values, h)
      /\ d.node = c.node /\ d.factMap = c.factMap /\ d.unlockSet = c.unlockSet
      /\ DOMAIN d.eventMap = DOMAIN c.eventMap \cup {id} /\ d.eventMap[id] = e
      /\ \A x \in DOMAIN c.eventMap \ {id} : d.eventMap[x] = c.eventMap[x]
      /\ DOMAIN g.node \subseteq DOMAIN h.node
      /\ Live(h) = Live(g) \cup {t, e} /\ t \notin Live(g) /\ t # e
      /\ \A x \in Live(g) : ValueOf(h, x) = ValueOf(g, x)
      /\ ValueOf(h, e) = Null("event", id)
      /\ Waits(h, t) = {e} /\ Waits(h, e) = W \cup {k}
      /\ \A x \in Live(g) \ {e} : Waits(h, x) = Waits(g, x)
      /\ e \in Live(g) => W = Waits(g, e)
      /\ e \notin Live(g) => W = {}
      /\ id \in DOMAIN c.eventMap => c.eventMap[id] = e
  BY <1>3 DEF Deferred
<1>5. /\ ValueOf(h, t).kind = "task" /\ ValueOf(h, t).name = n
      /\ ValueOf(h, t).id = id /\ ValueOf(h, t).lock = k
  BY <1>3 DEF Deferred
<1>6. ValueOf(h, e).kind = "event" /\ ValueOf(h, k).kind = "lock" /\ ValueOf(h, k) = Null("lock", n)
  BY <1>2, <1>4, NullFacts
<1> HIDE DEF h, k
<1>7. /\ Nodes(h, "task") = Nodes(g, "task") \cup {t}
      /\ Nodes(h, "event") = Nodes(g, "event") \cup {e}
      /\ \A kind : kind \notin {"task", "event"} => Nodes(h, kind) = Nodes(g, kind)
  BY <1>4, <1>5, <1>6 DEF Nodes
<1>8. /\ \A kind : kind # "event" => \A x \in Nodes(g, kind) : Waits(h, x) = Waits(g, x)
      /\ \A x \in Live(g) : Waits(g, x) \subseteq Waits(h, x)
  BY <1>4, <1>6 DEF Nodes
<1>9. \A x : Waits(g, x) \subseteq Live(g)
  BY <1>1, WaitsLive
<1>10. \A m, s : Is(d, m, s) <=> Is(c, m, s)
  BY <1>4 DEF Is
<1>11. NamesOK(d)
  <2> SUFFICES ASSUME NEW m \in Names, Is(c, m, "LOCKED")
               PROVE  /\ c.node[m].lock \in Live(h)
                      /\ ValueOf(h, c.node[m].lock) = Null("lock", m)
                      /\ Waits(h, c.node[m].lock) = {c.node[m].lock}
    BY <1>4, <1>10 DEF NamesOK, h
  <2>1. /\ c.node[m].lock \in Live(g)
        /\ ValueOf(g, c.node[m].lock) = Null("lock", m)
        /\ Waits(g, c.node[m].lock) = {c.node[m].lock}
    BY DEF Core, NamesOK
  <2>2. c.node[m].lock \in Nodes(g, "lock")
    BY <2>1, NullFacts DEF Nodes
  <2> QED BY <2>1, <2>2, <1>4, <1>8
<1>12. LocksOK(d)
  <2> SUFFICES ASSUME NEW x \in Nodes(h, "lock")
               PROVE  /\ ~Is(c, ValueOf(h, x).name, "ASTED")
                      /\ Is(c, ValueOf(h, x).name, "LOCKED") => c.node[ValueOf(h, x).name].lock = x
                      /\ Waits(h, x) \subseteq {x}
                      /\ Is(c, ValueOf(h, x).name, "BOUND") /\ Waits(h, x) # {} => x \in c.unlockSet
    BY <1>4, <1>10 DEF LocksOK, h
  <2>1. x \in Nodes(g, "lock") /\ Waits(h, x) = Waits(g, x)
    BY <1>7, <1>8
  <2>2. ValueOf(h, x) = ValueOf(g, x)
    BY <2>1, <1>4 DEF Nodes
  <2> QED BY <2>1, <2>2 DEF Core, LocksOK
<1>13. TasksOK(d)
  <2> SUFFICES ASSUME NEW s \in Nodes(h, "task") PROVE TaskOK(d, s, ValueOf(h, s))
    BY DEF TasksOK, h
  <2>1. CASE s = t
    <3> DEFINE v == ValueOf(h, t)
    <3>1. v.name = n /\ v.id = id /\ v.lock = k
      BY <1>5
    <3> HIDE DEF v
    <3>2. k \in DOMAIN h.node /\ k \in Live(h) /\ d.node[n].lock = k /\ id \notin d.factMap
      BY <1>1, <1>2, <1>4, WaitsLive DEF k
    <3>3. ~Is(d, n, "ASTED")
      BY <1>10 DEF Is
    <3>4. Waits(h, t) = {e} /\ k \in Waits(h, e) /\ ValueOf(h, e) = Null("event", id)
      BY <1>4
    <3> QED BY <2>1, <3>1, <3>2, <3>3, <3>4, <1>6 DEF TaskOK, h, v
  <2>2. CASE s \in Nodes(g, "task")
    <3> DEFINE v == ValueOf(g, s)
    <3>1. TaskOK(c, s, v) /\ s \in Live(g) /\ v.lock \in Live(g)
      BY <2>2 DEF Core, TasksOK, Nodes, Fresh, HeldLive
    <3>2. ValueOf(h, s) = v /\ Waits(h, s) = Waits(g, s)
      BY <2>2, <3>1, <1>4, <1>8
    <3> HIDE DEF v
    <3>3. /\ ~Is(d, v.name, "ASTED")
          /\ v.lock \in DOMAIN h.node
          /\ ValueOf(h, v.lock) = Null("lock", v.name)
          /\ Is(d, v.name, "LOCKED") => d.node[v.name].lock = v.lock
      BY <3>1, <1>4, <1>10 DEF TaskOK
    <3>4. /\ \A x \in Waits(h, s) : x \in Live(g) /\ ValueOf(h, x) = Null("event", v.id)
          /\ \A x, y \in Waits(h, s) : x = y
      BY <3>1, <3>2, <1>4, <1>9 DEF TaskOK
    <3>5. v.id \notin d.factMap /\ Is(d, v.name, "LOCKED") =>
            \E x \in Waits(h, s) : v.lock \in Waits(h, x)
      BY <3>1, <3>2, <3>4, <1>4, <1>8, <1>10 DEF TaskOK
    <3>6. v.id \in d.factMap => \A x \in Waits(h, s) : Waits(h, x) = {}
      <4> SUFFICES ASSUME v.id \in d.factMap, NEW x \in Waits(h, s) PROVE Waits(h, x) = {}
        OBVIOUS
      <4>1. v.id # id
        BY <1>4
      <4>2. x # e
        BY <4>1, <3>4, <1>4, NullFacts
      <4>3. Waits(g, x) = {}
        BY <3>1, <3>2, <1>4 DEF TaskOK
      <4> QED BY <4>2, <4>3, <3>4, <1>4
    <3> QED BY <3>2, <3>3, <3>4, <3>5, <3>6 DEF TaskOK, h
  <2> QED BY <2>1, <2>2, <1>7
<1>14. W \cup {k} \subseteq Nodes(g, "lock")
  <2>1. k \in Nodes(g, "lock")
    BY <1>2, NullFacts DEF Nodes, k
  <2>2. e \in Live(g) => e \in Nodes(g, "event")
    BY <1>4, <1>6 DEF Nodes
  <2>3. e \in Live(g) => Waits(g, e) \subseteq Nodes(g, "lock")
    BY <2>2 DEF Core, RestOK
  <2> QED BY <2>1, <2>3, <1>4
<1>15. RestOK(d)
  <2>1. \A x \in Nodes(h, "event") \cup Nodes(h, "check") : Waits(h, x) \subseteq Nodes(h, "lock")
    <3> SUFFICES ASSUME NEW x \in Nodes(h, "event") \cup Nodes(h, "check")
                 PROVE  Waits(h, x) \subseteq Nodes(h, "lock")
      OBVIOUS
    <3>1. Nodes(h, "lock") = Nodes(g, "lock")
      BY <1>7
    <3>2. CASE x = e
      BY <3>1, <3>2, <1>4, <1>14
    <3>3. CASE x # e
      <4>1. x \in Nodes(g, "event") \cup Nodes(g, "check") /\ x \in Live(g)
        BY <3>3, <1>7 DEF Nodes
      <4>2. Waits(g, x) \subseteq Nodes(g, "lock")
        BY <4>1 DEF Core, RestOK
      <4> QED BY <4>1, <4>2, <3>1, <3>3, <1>4
    <3> QED BY <3>2, <3>3
  <2>2. \A x \in Nodes(h, "bind") : Waits(h, x) = {}
    <3>1. \A x \in Nodes(g, "bind") : Waits(g, x) = {}
      BY DEF Core, RestOK
    <3> QED BY <3>1, <1>7, <1>8
  <2>3. \A kind \in {"bind", "check"} : \A x, y \in Nodes(h, kind) : x = y
    <3>1. \A kind \in {"bind", "check"} : \A x, y \in Nodes(g, kind) : x = y
      BY DEF Core, RestOK
    <3> QED BY <3>1, <1>7
  <2> QED BY <2>1, <2>2, <2>3 DEF RestOK, h
<1>16. UnlocksOK(d)
  <2>1. IsFiniteSet(c.unlockSet) /\ c.unlockSet \subseteq DOMAIN h.node
    BY <1>4 DEF Core, UnlocksOK
  <2>2. c.unlockSet \subseteq Live(g)
    BY DEF Fresh, HeldLive
  <2>3. \A x \in c.unlockSet : /\ ValueOf(h, x).kind = "lock"
                               /\ Is(c, ValueOf(h, x).name, "BOUND")
    BY <2>2, <1>4 DEF Core, UnlocksOK
  <2> QED BY <2>1, <2>3, <1>4, <1>10 DEF UnlocksOK, h
<1>17. Core(d)
  BY <1>4, <1>11, <1>12, <1>13, <1>15, <1>16 DEF Core, h
<1>18. Fresh(d)
  <2>1. HeldLive(d)
    <3>1. c.unlockSet \subseteq Live(g) /\ \A s \in Nodes(g, "task") : ValueOf(g, s).lock \in Live(g)
      BY DEF Fresh, HeldLive
    <3>2. \A s \in Nodes(h, "task") : ValueOf(h, s).lock \in Live(h)
      <4> SUFFICES ASSUME NEW s \in Nodes(h, "task") PROVE ValueOf(h, s).lock \in Live(h)
        OBVIOUS
      <4>1. CASE s = t
        BY <4>1, <1>2, <1>4, <1>5 DEF k
      <4>2. CASE s \in Nodes(g, "task")
        <5>1. s \in Live(g)
          BY <4>2 DEF Nodes
        <5> QED BY <4>2, <5>1, <3>1, <1>4
      <4> QED BY <4>1, <4>2, <1>7
    <3> QED BY <3>1, <3>2, <1>4 DEF HeldLive, h
  <2>2. DOMAIN d.eventMap \subseteq Ids \ d.factMap
    BY <1>4 DEF Fresh
  <2>3. \A x \in DOMAIN d.eventMap :
         /\ d.eventMap[x] \in Live(h)
         /\ ValueOf(h, d.eventMap[x]) = Null("event", x)
         /\ Waits(h, d.eventMap[x]) # {}
    <3> SUFFICES ASSUME NEW x \in DOMAIN d.eventMap
                 PROVE  /\ d.eventMap[x] \in Live(h)
                        /\ ValueOf(h, d.eventMap[x]) = Null("event", x)
                        /\ Waits(h, d.eventMap[x]) # {}
      OBVIOUS
    <3>1. CASE x = id
      BY <3>1, <1>4
    <3>2. CASE x # id
      <4>1. x \in DOMAIN c.eventMap /\ d.eventMap[x] = c.eventMap[x]
        BY <3>2, <1>4
      <4>2. /\ c.eventMap[x] \in Live(g)
            /\ ValueOf(g, c.eventMap[x]) = Null("event", x)
            /\ Waits(g, c.eventMap[x]) # {}
        BY <4>1 DEF Fresh
      <4> QED BY <4>1, <4>2, <1>4, <1>8
    <3> QED BY <3>1, <3>2
  <2>4. \A s \in Nodes(h, "task") :
         ValueOf(h, s).id \notin d.factMap =>
           /\ ValueOf(h, s).id \in DOMAIN d.eventMap
           /\ Waits(h, s) = {d.eventMap[ValueOf(h, s).id]}
    <3> SUFFICES ASSUME NEW s \in Nodes(h, "task"), ValueOf(h, s).id \notin d.factMap
                 PROVE  /\ ValueOf(h, s).id \in DOMAIN d.eventMap
                        /\ Waits(h, s) = {d.eventMap[ValueOf(h, s).id]}
      OBVIOUS
    <3>1. CASE s = t
      BY <3>1, <1>4, <1>5
    <3>2. CASE s \in Nodes(g, "task")
      <4>1. s \in Live(g) /\ Waits(h, s) = Waits(g, s)
        BY <3>2, <1>8 DEF Nodes
      <4>2. ValueOf(h, s) = ValueOf(g, s)
        BY <4>1, <1>4
      <4>3. /\ ValueOf(g, s).id \in DOMAIN c.eventMap
            /\ Waits(g, s) = {c.eventMap[ValueOf(g, s).id]}
        BY <3>2, <4>2, <1>4 DEF Fresh
      <4> QED BY <4>1, <4>2, <4>3, <1>4
    <3> QED BY <3>1, <3>2, <1>7
  <2> QED BY <2>1, <2>2, <2>3, <2>4 DEF Fresh, h
<1>19. VisitStep(c, d, n)
  <2>1. \A x \in Nodes(g, "check") \cup Nodes(g, "lock") : Waits(h, x) = Waits(g, x)
    BY <1>8
  <2>2. Nodes(h, "bind") = Nodes(g, "bind") /\ Nodes(h, "check") = Nodes(g, "check")
    BY <1>7
  <2>3. \A s \in Nodes(h, "task") \ Nodes(g, "task") :
          ValueOf(h, s).name = n /\ ValueOf(h, s).id \notin d.factMap
    BY <1>4, <1>5, <1>7
  <2> QED BY <2>1, <2>2, <2>3, <1>4, <1>10 DEF VisitStep, h
<1>20. \E s \in Nodes(h, "task") : ValueOf(h, s).name = n /\ ValueOf(h, s).id = id
  BY <1>5, <1>7
<1>21. QED
  BY <1>4, <1>17, <1>18, <1>19, <1>20 DEF TaskAdded, h

-----------------------------------------------------------------------------
(* The visit of a name with its candidates. *)

(* A candidate that is known, or was deferred, is not forgotten.           *)
Tried(c, n, id) ==
  \/ Is(c, n, "BOUND")
  \/ \E t \in Nodes(c.graph, "task") :
       ValueOf(c.graph, t).name = n /\ ValueOf(c.graph, t).id = id
Answers(c, n, id) == (id \in c.factMap => Is(c, n, "BOUND")) /\ Tried(c, n, id)

(* A visit leaves what was tried before as it is.                          *)
LEMMA TriedKept ==
  ASSUME NEW c, NEW d, NEW n, VisitStep(c, d, n), NEW m \in Names, NEW id, Tried(c, m, id)
  PROVE  Tried(d, m, id)
<1>1. Is(c, m, "BOUND") => Is(d, m, "BOUND")
  BY DEF VisitStep, Is
<1>2. \A t \in Nodes(c.graph, "task") :
        t \in Nodes(d.graph, "task") /\ ValueOf(d.graph, t) = ValueOf(c.graph, t)
  BY DEF VisitStep, Nodes
<1>3. QED
  BY <1>1, <1>2 DEF Tried

(* And the answers to it. *)
LEMMA AnswersKept ==
  ASSUME NEW c, NEW d, NEW n, VisitStep(c, d, n), NEW m \in Names, NEW id, Answers(c, m, id)
  PROVE  Answers(d, m, id)
<1>1. Is(c, m, "BOUND") => Is(d, m, "BOUND")
  BY DEF VisitStep, Is
<1>2. Tried(d, m, id)
  BY TriedKept DEF Answers
<1>3. d.factMap = c.factMap
  BY DEF VisitStep
<1>4. QED
  BY <1>1, <1>2, <1>3 DEF Answers

(* What the visit of a name does; A are the candidates so far.             *)
Visited(c, d, n, A) ==
  /\ Core(d) /\ Fresh(d) /\ VisitStep(c, d, n)
  /\ A # {} => ~Is(d, n, "ASTED")
  /\ \A id \in A : Answers(d, n, id)

(* One candidate: makeTask. *)
LEMMA MakeTaskDoes ==
  ASSUME NEW c, Core(c), Fresh(c), NEW n \in Names, NEW id \in Ids
  PROVE  Visited(c, makeTask(c, n, id), n, {id})
<1> DEFINE a == vIndexOrLock(c, n)
           d == makeTask(c, n, id)
<1> SUFFICES Visited(c, d, n, {id})
  OBVIOUS
<1>1. NameLocked(c, a, n)
  BY LockNameDoes DEF Fresh
<1>2. d = CASE id \in a.factMap ->
                [a EXCEPT !.unlockSet = Unlock(a, n), !.node[n] = Bound(id)]
            [] id \notin a.factMap /\ a.node[n].status = "LOCKED" -> Defer(a, n, id)
            [] OTHER -> a
  BY DEF makeTask
<1> HIDE DEF a, d
<1>3. Core(a) /\ Fresh(a) /\ VisitStep(c, a, n) /\ ~Is(a, n, "ASTED")
  BY <1>1 DEF NameLocked
<1>4. /\ a \in ContextSet /\ GraphOK(Values, a.graph)
      /\ a.node[n] \in NodeSet
  BY <1>3 DEF Core, ContextSet
<1>5. CASE id \in a.factMap
  <2>1. d = [a EXCEPT !.unlockSet = Unlock(a, n), !.node[n] = Bound(id)]
    BY <1>2, <1>5
  <2>2. a.node[n].lock \in Nat
    BY <1>4, NodeFacts
  <2>3. Unlock(a, n) \in SUBSET Nat
    BY <2>2, <1>4 DEF Unlock, ContextSet
  <2>4. Bound(id) \in NodeSet
    BY NodeStates
  <2>5. /\ d \in ContextSet /\ d.graph = a.graph /\ d.factMap = a.factMap
        /\ d.eventMap = a.eventMap
        /\ d.node = [a.node EXCEPT ![n] = Bound(id)] /\ d.unlockSet = Unlock(a, n)
    BY <2>1, <2>3, <2>4, <1>4 DEF ContextSet
  <2>6. Is(a, n, "LOCKED") => /\ a.node[n].lock \in Live(a.graph)
                              /\ ValueOf(a.graph, a.node[n].lock) = Null("lock", n)
    BY <1>3 DEF Core, NamesOK
  <2>7. Live(a.graph) \subseteq DOMAIN a.graph.node
    BY <1>4, WaitsLive
  <2>8. IsFiniteSet(Unlock(a, n))
    <3>1. IsFiniteSet(a.unlockSet)
      BY <1>3 DEF Core, UnlocksOK
    <3> QED BY <3>1, FS_AddElement DEF Unlock
  <2>9. /\ a.unlockSet \subseteq Unlock(a, n)
        /\ Is(a, n, "LOCKED") => a.node[n].lock \in Unlock(a, n)
        /\ \A k \in Unlock(a, n) \ a.unlockSet : Is(a, n, "LOCKED") /\ k = a.node[n].lock
    BY DEF Unlock, Is
  <2>10. BindsName(a, d, n)
    <3>1. \A m \in Names \ {n} : d.node[m] = a.node[m]
      BY <2>5, <1>4 DEF ContextSet
    <3>2. Is(d, n, "BOUND")
      BY <2>5, <1>4, NodeStates DEF ContextSet, Is
    <3> QED BY <3>1, <3>2, <2>5, <2>6, <2>7, <2>8, <2>9 DEF BindsName
  <2>11. Core(d)
    BY <2>10, <1>3, BindsNameKeeps
  <2>12. Fresh(d)
    <3>1. HeldLive(d)
      BY <2>5, <2>6, <2>9, <1>3 DEF Fresh, HeldLive
    <3> QED BY <3>1, <2>5, <1>3 DEF Fresh
  <2>13. /\ \A m \in Names \ {n} : d.node[m] = a.node[m]
         /\ d.node[n] = Bound(id)
    BY <2>5, <1>4 DEF ContextSet
  <2>14. d.node[n].status = "BOUND" /\ d.node[n].vIndex = id
    BY <2>13, NodeStates
  <2>15. VisitStep(a, d, n)
    BY <2>5, <2>13, <2>14, <1>5 DEF VisitStep, Is
  <2>16. VisitStep(c, d, n)
    BY <2>15, <1>3, VisitTwice
  <2>17. Is(d, n, "BOUND") /\ ~Is(d, n, "ASTED")
    BY <2>14 DEF Is
  <2> QED BY <2>11, <2>12, <2>16, <2>17 DEF Visited, Answers, Tried
<1>6. CASE id \notin a.factMap /\ Is(a, n, "LOCKED")
  <2>1. d = Defer(a, n, id)
    BY <1>2, <1>6 DEF Is
  <2>2. TaskAdded(a, d, n, id)
    BY <2>1, <1>3, <1>6, DeferDoes
  <2>3. VisitStep(a, d, n) /\ Core(d) /\ Fresh(d) /\ d.node = a.node /\ d.factMap = a.factMap
    BY <2>2 DEF TaskAdded, VisitStep
  <2>4. VisitStep(c, d, n)
    BY <2>3, <1>3, VisitTwice
  <2>5. ~Is(d, n, "ASTED") /\ Answers(d, n, id)
    BY <2>2, <2>3, <1>3, <1>6 DEF TaskAdded, Answers, Tried, Is
  <2> QED BY <2>3, <2>4, <2>5 DEF Visited
<1>7. CASE id \notin a.factMap /\ ~Is(a, n, "LOCKED")
  <2>1. d = a
    BY <1>2, <1>7 DEF Is
  <2>2. Is(a, n, "BOUND")
    BY <1>3, <1>4, <1>7, NodeFacts DEF Is
  <2> QED BY <2>1, <2>2, <1>3, <1>7 DEF Visited, Answers, Tried
<1>8. QED
  BY <1>5, <1>6, <1>7

(* The turns of makeTasks, one after the other. *)
LEMMA MakeTasksShape ==
  ASSUME NEW c, NEW n, NEW ids \in Seq(Ids)
  PROVE  \E after : /\ makeTasks(c, n, ids) = after[Len(ids)]
                    /\ after[0] = c
                    /\ \A k \in 1 .. Len(ids) : after[k] = makeTask(after[k - 1], n, ids[k])
<1> DEFINE N == Len(ids)
           IsAfter(h, m) == h = [k \in 0 .. m |-> IF k = 0 THEN c ELSE makeTask(h[k - 1], n, ids[k])]
           P == {m \in Nat : \E h : IsAfter(h, m)}
           after == CHOOSE h : IsAfter(h, N)
<1>1. makeTasks(c, n, ids) = after[N]
  BY DEF makeTasks
<1>2. 0 \in P
  <2>1. IsAfter([k \in 0 .. 0 |-> c], 0)
    OBVIOUS
  <2> QED BY <2>1
<1>3. ASSUME NEW m \in 0 .. N - 1, m \in P PROVE m + 1 \in P
  <2>1. PICK h : IsAfter(h, m)
    BY <1>3
  <2> DEFINE q == [j \in 0 .. m + 1 |-> IF j = m + 1 THEN makeTask(h[m], n, ids[m + 1]) ELSE h[j]]
  <2>2. m \in Nat /\ \A j \in 0 .. m :
          h[j] = IF j = 0 THEN c ELSE makeTask(h[j - 1], n, ids[j])
    BY <2>1
  <2>3. (\A j \in 0 .. m : q[j] = h[j]) /\ q[m + 1] = makeTask(h[m], n, ids[m + 1])
    BY <2>2
  <2>4. q = [j \in 0 .. m + 1 |-> q[j]]
    OBVIOUS
  <2> HIDE DEF q
  <2>5. \A j \in 0 .. m + 1 : q[j] = IF j = 0 THEN c ELSE makeTask(q[j - 1], n, ids[j])
    BY <2>2, <2>3
  <2>6. IsAfter(q, m + 1)
    BY <2>4, <2>5
  <2> QED BY <2>2, <2>6
<1>4. N \in Nat
  OBVIOUS
<1>5. N \in P
  <2> HIDE DEF P
  <2>1. 0 .. N \subseteq P
    BY <1>2, <1>3, <1>4, UpTo
  <2> QED BY <2>1, <1>4
<1>6. IsAfter(after, N)
  BY <1>5
<1> HIDE DEF after
<1>7. after[0] = c /\ \A k \in 1 .. N : after[k] = makeTask(after[k - 1], n, ids[k])
  BY <1>4, <1>6
<1>8. QED
  BY <1>1, <1>7

(* All candidates, in any order.                                           *)
LEMMA MakeTasksDo ==
  ASSUME NEW c, Core(c), Fresh(c), NEW n \in Names, NEW ids \in Seq(Ids)
  PROVE  Visited(c, makeTasks(c, n, ids), n, ToSet(ids))
<1> DEFINE N == Len(ids)
<1>1. PICK after : /\ makeTasks(c, n, ids) = after[N]
                   /\ after[0] = c
                   /\ \A k \in 1 .. N : after[k] = makeTask(after[k - 1], n, ids[k])
  BY MakeTasksShape
<1>2. N \in Nat /\ DOMAIN ids = 1 .. N /\ \A k \in 1 .. N : ids[k] \in Ids
  OBVIOUS
<1> HIDE DEF N
<1> DEFINE Done(k) == {ids[i] : i \in 1 .. k}
           P == {k \in 0 .. N : Visited(c, after[k], n, Done(k))}
<1>3. 0 \in P
  <2>1. Done(0) = {}
    OBVIOUS
  <2> HIDE DEF Done
  <2>2. VisitStep(c, c, n)
    BY VisitNot
  <2>3. Visited(c, c, n, Done(0))
    BY <2>1, <2>2 DEF Visited
  <2> QED BY <2>3, <1>1, <1>2
<1>4. ASSUME NEW k \in 0 .. N - 1, k \in P PROVE k + 1 \in P
  <2> DEFINE b == after[k]
             d == after[k + 1]
             id == ids[k + 1]
  <2>1. Visited(c, b, n, Done(k))
    BY <1>4
  <2>2. k + 1 \in 1 .. N /\ (k + 1) - 1 = k
    BY <1>2
  <2>3. d = makeTask(b, n, id) /\ id \in Ids
    BY <2>2, <1>1, <1>2
  <2>4. Done(k + 1) = Done(k) \cup {id}
    BY <2>2
  <2> HIDE DEF b, d, id, Done
  <2>5. Core(b) /\ Fresh(b) /\ VisitStep(c, b, n) /\ \A x \in Done(k) : Answers(b, n, x)
    BY <2>1 DEF Visited
  <2>6. Visited(b, d, n, {id})
    BY <2>3, <2>5, MakeTaskDoes
  <2>7. Core(d) /\ Fresh(d) /\ VisitStep(b, d, n) /\ ~Is(d, n, "ASTED") /\ Answers(d, n, id)
    BY <2>6 DEF Visited
  <2>8. VisitStep(c, d, n)
    BY <2>5, <2>7, VisitTwice
  <2>9. \A x \in Done(k) : Answers(d, n, x)
    BY <2>5, <2>7, AnswersKept
  <2>10. Visited(c, d, n, Done(k + 1))
    BY <2>4, <2>7, <2>8, <2>9 DEF Visited
  <2> QED BY <2>2, <2>10 DEF d
<1>5. N \in P
  <2> HIDE DEF P
  <2>1. 0 .. N \subseteq P
    BY <1>2, <1>3, <1>4, UpTo
  <2> QED BY <2>1, <1>2
<1>6. Done(N) = ToSet(ids)
  BY <1>2 DEF ToSet
<1>7. QED
  BY <1>1, <1>5, <1>6

(* The sequences of candidates that are visited are not empty.             *)
LEMMA VisitSeqs ==
  ASSUME NEW ids \in SetToAllKPermutations(Ids) \ {<<>>}
  PROVE  ids \in Seq(Ids) /\ ToSet(ids) # {}
<1>1. PICK s \in SUBSET Ids : ids \in SetToSeqs(s)
  BY DEF SetToAllKPermutations
<1>2. Cardinality(s) \in Nat
  BY <1>1, IdsAssumption, FS_Subset, FS_CardinalityType
<1>3. ids \in [1 .. Cardinality(s) -> s]
  BY <1>1 DEF SetToSeqs
<1>4. ids \in Seq(Ids) /\ Len(ids) = Cardinality(s)
  BY <1>2, <1>3
<1>5. Len(ids) # 0
  BY <1>4, EmptySeq
<1>6. 1 \in DOMAIN ids
  BY <1>2, <1>4, <1>5
<1>7. QED
  BY <1>4, <1>6 DEF ToSet

-----------------------------------------------------------------------------
(* The loop that unlocks. *)

(* The order in which a set is read holds every element.                   *)
LEMMA SeqIsOnto ==
  ASSUME NEW S, IsFiniteSet(S), NEW s \in SetToSeqs(S)
  PROVE  s \in Seq(S) /\ ToSet(s) = S /\ (S = {} => Len(s) = 0)
<1> DEFINE N == Cardinality(S)
<1>1. N \in Nat
  BY FS_CardinalityType
<1>2. s \in [1 .. N -> S] /\ \A i, j \in 1 .. N : i # j => s[i] # s[j]
  BY DEF SetToSeqs
<1>3. IsFiniteSet(1 .. N) /\ Cardinality(1 .. N) = N
  BY <1>1, FS_Interval
<1>4. ASSUME NEW y \in S, \A i \in 1 .. N : s[i] # y PROVE FALSE
  <2>1. IsFiniteSet(S \ {y}) /\ Cardinality(S \ {y}) = N - 1
    BY FS_RemoveElement
  <2>2. s \in [1 .. N -> S \ {y}]
    BY <1>2, <1>4
  <2> HIDE DEF N
  <2>3. Cardinality(S \ {y}) < Cardinality(1 .. N)
    BY <2>1, <1>1, <1>3
  <2>4. \E i, j \in 1 .. N : i # j /\ s[i] = s[j]
    BY <2>1, <2>2, <2>3, <1>3, FS_PigeonHole
  <2> QED BY <2>4, <1>2
<1>5. S = {} => N = 0
  BY FS_EmptySet
<1> HIDE DEF N
<1>6. s \in Seq(S) /\ Len(s) = N /\ DOMAIN s = 1 .. N
  BY <1>1, <1>2
<1>7. ToSet(s) = S
  BY <1>2, <1>4, <1>6 DEF ToSet
<1>8. QED
  BY <1>5, <1>6, <1>7

(* The turns of detachLocks, one after the other. *)
LEMMA DetachLocksShape ==
  ASSUME NEW g, NEW locks, Len(locks) \in Nat
  PROVE  \E after : /\ detachLocks(g, locks) = after[Len(locks)]
                    /\ after[0] = g
                    /\ \A k \in 1 .. Len(locks) : after[k] = detachAll(after[k - 1], locks[k])
<1> DEFINE N == Len(locks)
           IsAfter(h, m) == h = [k \in 0 .. m |-> IF k = 0 THEN g ELSE detachAll(h[k - 1], locks[k])]
           P == {m \in Nat : \E h : IsAfter(h, m)}
           after == CHOOSE h : IsAfter(h, N)
<1>1. detachLocks(g, locks) = after[N]
  BY DEF detachLocks
<1>2. 0 \in P
  <2>1. IsAfter([k \in 0 .. 0 |-> g], 0)
    OBVIOUS
  <2> QED BY <2>1
<1>3. ASSUME NEW m \in 0 .. N - 1, m \in P PROVE m + 1 \in P
  <2>1. PICK h : IsAfter(h, m)
    BY <1>3
  <2> DEFINE q == [j \in 0 .. m + 1 |-> IF j = m + 1 THEN detachAll(h[m], locks[m + 1]) ELSE h[j]]
  <2>2. m \in Nat /\ \A j \in 0 .. m :
          h[j] = IF j = 0 THEN g ELSE detachAll(h[j - 1], locks[j])
    BY <2>1
  <2>3. (\A j \in 0 .. m : q[j] = h[j]) /\ q[m + 1] = detachAll(h[m], locks[m + 1])
    BY <2>2
  <2>4. q = [j \in 0 .. m + 1 |-> q[j]]
    OBVIOUS
  <2> HIDE DEF q
  <2>5. \A j \in 0 .. m + 1 : q[j] = IF j = 0 THEN g ELSE detachAll(q[j - 1], locks[j])
    BY <2>2, <2>3
  <2>6. IsAfter(q, m + 1)
    BY <2>4, <2>5
  <2> QED BY <2>2, <2>6
<1>4. N \in Nat
  OBVIOUS
<1>5. N \in P
  <2> HIDE DEF P
  <2>1. 0 .. N \subseteq P
    BY <1>2, <1>3, <1>4, UpTo
  <2> QED BY <2>1, <1>4
<1>6. IsAfter(after, N)
  BY <1>5
<1> HIDE DEF after
<1>7. after[0] = g /\ \A k \in 1 .. N : after[k] = detachAll(after[k - 1], locks[k])
  BY <1>4, <1>6
<1>8. QED
  BY <1>1, <1>7

(* Nobody waits for what was unlocked.                                     *)
LocksGone(g, h, S) ==
  /\ Reshaped(Values, g, h) /\ (Clean(g, "pendings") => Clean(h, "pendings"))
  /\ Live(h) = Live(g)
  /\ \A x : Waits(h, x) = Waits(g, x) \ S

(* Context::run detaches the unlocked locks: nothing waits for them then. *)
LEMMA DetachLocksDo ==
  ASSUME NEW g, GraphOK(Values, g), NEW S \in SUBSET DOMAIN g.node, IsFiniteSet(S),
         NEW locks \in SetToSeqs(S)
  PROVE  LocksGone(g, detachLocks(g, locks), S) /\ (S = {} => detachLocks(g, locks) = g)
<1> DEFINE N == Len(locks)
<1>1. locks \in Seq(S) /\ ToSet(locks) = S /\ (S = {} => N = 0)
  BY SeqIsOnto
<1>2. N \in Nat /\ DOMAIN locks = 1 .. N /\ \A k \in 1 .. N : locks[k] \in S
  BY <1>1
<1>3. PICK after : /\ detachLocks(g, locks) = after[N]
                   /\ after[0] = g
                   /\ \A k \in 1 .. N : after[k] = detachAll(after[k - 1], locks[k])
  <2>1. Len(locks) \in Nat
    BY <1>2
  <2> HIDE DEF N
  <2>2. \E after : /\ detachLocks(g, locks) = after[Len(locks)]
                   /\ after[0] = g
                   /\ \A k \in 1 .. Len(locks) : after[k] = detachAll(after[k - 1], locks[k])
    BY <2>1, DetachLocksShape
  <2> QED BY <2>2 DEF N
<1> HIDE DEF N
<1> DEFINE Done(k) == {locks[i] : i \in 1 .. k}
           P == {k \in 0 .. N : LocksGone(g, after[k], Done(k))}
<1>4. 0 \in P
  <2>1. Done(0) = {}
    OBVIOUS
  <2> HIDE DEF Done
  <2>2. LocksGone(g, g, Done(0))
    BY <2>1 DEF LocksGone, Reshaped
  <2> QED BY <2>2, <1>2, <1>3
<1>5. ASSUME NEW k \in 0 .. N - 1, k \in P PROVE k + 1 \in P
  <2> DEFINE b == after[k]
             h == after[k + 1]
             n == locks[k + 1]
  <2>1. LocksGone(g, b, Done(k))
    BY <1>5
  <2>2. k + 1 \in 1 .. N /\ (k + 1) - 1 = k
    BY <1>2
  <2>3. h = detachAll(b, n) /\ n \in S
    BY <2>2, <1>2, <1>3
  <2>4. Done(k + 1) = Done(k) \cup {n}
    BY <2>2
  <2> HIDE DEF b, h, n, Done
  <2>5. GraphOK(Values, b) /\ n \in DOMAIN b.node
    BY <2>1, <2>3 DEF LocksGone, Reshaped
  <2>6. ReleasedWaits(Values, b, h, n)
    BY <2>3, <2>5, DetachAllWaits
  <2>7. /\ (Clean(g, "pendings") => Clean(h, "pendings")) /\ Live(h) = Live(g)
        /\ \A x : Waits(h, x) = Waits(g, x) \ Done(k + 1)
    BY <2>1, <2>4, <2>6 DEF LocksGone, ReleasedWaits
  <2>8. Reshaped(Values, g, h)
    BY <2>1, <2>6 DEF LocksGone, ReleasedWaits, Reshaped
  <2>9. LocksGone(g, h, Done(k + 1))
    BY <2>7, <2>8 DEF LocksGone
  <2> QED BY <2>2, <2>9 DEF h
<1>6. N \in P
  <2> HIDE DEF P
  <2>1. 0 .. N \subseteq P
    BY <1>2, <1>4, <1>5, UpTo
  <2> QED BY <2>1, <1>2
<1>7. Done(N) = S
  BY <1>1, <1>2 DEF ToSet
<1>8. QED
  BY <1>1, <1>3, <1>6, <1>7

-----------------------------------------------------------------------------
(* The inductive invariant: of the context c, at the code a that runs,     *)
(* while check waits for w, names were visited v times and with the         *)
(* candidates A, and the names r were read.                                *)

Typed(a, w, v, A, r) ==
  /\ a \in Labels /\ w \in Names \cup {None} /\ v \in [Names -> Nat]
  /\ A \subseteq Names \X Ids /\ r \subseteq Names

(* No candidate is forgotten; all are tried until the visits are over, and *)
(* those that are known ever after.                                        *)
Answered(c, A, all) ==
  \A n \in Names, id \in Ids :
    <<n, id>> \in A /\ (all \/ id \in c.factMap) => Tried(c, n, id)

(* What was not visited is not bound, but for a literal of a former run.   *)
VisitedOK(c, v) ==
  /\ \A n \in Names : v[n] > 0 => ~Is(c, n, "ASTED")
  /\ \A n \in Names : v[n] = 0 /\ Is(c, n, "BOUND") => n \in Literals
  /\ \A t \in Nodes(c.graph, "task") : v[ValueOf(c.graph, t).name] > 0

(* The tasks that can bind their name. *)
Known(c) == {t \in Nodes(c.graph, "task") : ValueOf(c.graph, t).id \in c.factMap}

CheckBlocked(c) ==
  \A x \in Nodes(c.graph, "check") :
    \E k \in Waits(c.graph, x) : k \in Nodes(c.graph, "lock") /\ Waits(c.graph, k) = {k}

UnresolvedIn(c, A, n) == Is(c, n, "LOCKED") /\ \A id \in c.factMap : <<n, id>> \notin A

AtOK(c, a, w, A, r) ==
  /\ a = "idle" => c.graph = EmptyGraph /\ c.unlockSet = {} /\ c.eventMap = <<>>
  /\ a \in {"interface", "bind"} => Fresh(c)
  /\ a = "interface" => Nodes(c.graph, "bind") = {} /\ Nodes(c.graph, "check") = {} /\ r = {}
  /\ a = "bind" =>
       /\ Nodes(c.graph, "bind") # {} /\ CheckBlocked(c)
       /\ \A t \in Nodes(c.graph, "task") : ValueOf(c.graph, t).name \notin r
  /\ a = "check" => ~empty(c.graph) /\ top(c.graph) \in Nodes(c.graph, "check") /\ w = None
  /\ a = "flush" => Nodes(c.graph, "check") = {} \/ Known(c) = {}
  /\ a = "aborted" => \E n \in Names : UnresolvedIn(c, A, n)
  /\ a # "thrown"

(* Until bind begins there is nothing but the locks of what check reads.   *)
BindOK(c, a, A) ==
  Nodes(c.graph, "bind") # {} /\ a # "bind" =>
    /\ Nodes(c.graph, "task") = {} /\ Nodes(c.graph, "event") = {}
    /\ c.eventMap = <<>> /\ c.unlockSet = {} /\ A = {}
    /\ \A k \in Nodes(c.graph, "lock") : Is(c, ValueOf(c.graph, k).name, "LOCKED")
    /\ \A x \in Nodes(c.graph, "check") : Waits(c.graph, x) = {} => top(c.graph) = x

(* What check waits for is bound, or locked.                               *)
CheckWaits(c, w) ==
  /\ ~Is(c, w, "ASTED")
  /\ \/ Is(c, w, "BOUND")
     \/ \E x \in Nodes(c.graph, "check") : c.node[w].lock \in Waits(c.graph, x)

(* While a task can bind its name check does not run.                      *)
CheckOK(c, w) ==
  /\ Known(c) # {} => CheckBlocked(c)
  /\ Nodes(c.graph, "check") # {} =>
       /\ Nodes(c.graph, "bind") = {} => \A n \in Names : ~Is(c, n, "ASTED")
       /\ w # None => CheckWaits(c, w)

(* What was read stays as it is.                                           *)
ReadOK(c, r) ==
  /\ \A n \in r : Is(c, n, "BOUND")
  /\ \A t \in Known(c) : ValueOf(c.graph, t).name \notin r

Good(c, a, w, v, A, r) ==
  /\ Typed(a, w, v, A, r) /\ Core(c)
  /\ Answered(c, A, a \in {"interface", "bind"}) /\ VisitedOK(c, v)
  /\ AtOK(c, a, w, A, r) /\ BindOK(c, a, A) /\ CheckOK(c, w) /\ ReadOK(c, r)

-----------------------------------------------------------------------------
(* What holds again when less is waited for.                               *)

(* What is left, and the names. *)
ThinFacts(c, d, R, E) ==
  /\ \A kind : Nodes(d.graph, kind) = Nodes(c.graph, kind) \cap Live(d.graph)
  /\ \A x \in Live(d.graph) : ValueOf(d.graph, x) = ValueOf(c.graph, x)
  /\ \A n, s : Is(d, n, s) <=> Is(c, n, s)
  /\ d.node = c.node /\ \A e \in E : ValueOf(c.graph, e).kind = "event"
  /\ \A x : Waits(d.graph, x) = IF x \in E THEN {} ELSE Waits(c.graph, x) \ R

(* What Thin says of them. *)
LEMMA ThinNodes ==
  ASSUME NEW c, NEW d, NEW R, NEW E, Thin(c, d, R, E)
  PROVE  ThinFacts(c, d, R, E)
<1>1. /\ Live(d.graph) \subseteq Live(c.graph) /\ d.node = c.node
      /\ Reshaped(Values, c.graph, d.graph)
  BY DEF Thin
<1>2. \A x \in Live(d.graph) : ValueOf(d.graph, x) = ValueOf(c.graph, x)
  BY <1>1 DEF Reshaped, ValueOf
<1>3. \A kind : Nodes(d.graph, kind) = Nodes(c.graph, kind) \cap Live(d.graph)
  BY <1>1, <1>2 DEF Nodes
<1>4. \A n, s : Is(d, n, s) <=> Is(c, n, s)
  BY <1>1 DEF Is
<1>5. \A e \in E : ValueOf(c.graph, e).kind = "event"
  BY DEF Thin
<1>6. \A x : Waits(d.graph, x) = IF x \in E THEN {} ELSE Waits(c.graph, x) \ R
  BY DEF Thin
<1>7. QED
  BY <1>1, <1>2, <1>3, <1>4, <1>5, <1>6 DEF ThinFacts

(* A check that waits for a lock that waits for itself. *)
LEMMA ThinBlocked ==
  ASSUME NEW c, NEW d, NEW R, NEW E, Thin(c, d, R, E), CheckBlocked(c),
         \A y \in R \cap Live(c.graph) : Waits(c.graph, y) = {}
  PROVE  CheckBlocked(d)
<1> SUFFICES ASSUME NEW x \in Nodes(d.graph, "check")
             PROVE  \E k \in Waits(d.graph, x) :
                      k \in Nodes(d.graph, "lock") /\ Waits(d.graph, k) = {k}
  BY DEF CheckBlocked
<1>0. ThinFacts(c, d, R, E)
  BY ThinNodes
<1>1. x \in Nodes(c.graph, "check")
  BY <1>0 DEF ThinFacts
<1>2. PICK k \in Waits(c.graph, x) : k \in Nodes(c.graph, "lock") /\ Waits(c.graph, k) = {k}
  BY <1>1 DEF CheckBlocked
<1>3. k \in Live(d.graph)
  BY <1>2 DEF Thin, Nodes
<1>4. k \in Nodes(d.graph, "lock")
  BY <1>0, <1>2, <1>3 DEF ThinFacts
<1>5. k \notin R
  BY <1>2 DEF Nodes
<1>6. k \notin E /\ x \notin E
  BY <1>0, <1>1, <1>2 DEF Nodes, ThinFacts
<1>7. \A y : Waits(d.graph, y) = IF y \in E THEN {} ELSE Waits(c.graph, y) \ R
  BY <1>0 DEF ThinFacts
<1>8. Waits(d.graph, k) = {k} /\ k \in Waits(d.graph, x)
  BY <1>2, <1>5, <1>6, <1>7
<1>9. QED
  BY <1>4, <1>8

(* What check waits for. *)
LEMMA ThinWaits ==
  ASSUME NEW c, Core(c), NEW d, NEW R, NEW E, Thin(c, d, R, E), NEW w \in Names,
         CheckWaits(c, w), Nodes(c.graph, "check") \subseteq Live(d.graph)
  PROVE  CheckWaits(d, w)
<1>0. ThinFacts(c, d, R, E)
  BY ThinNodes
<1>1. (\A s : Is(d, w, s) <=> Is(c, w, s)) /\ d.node = c.node
  BY <1>0 DEF ThinFacts
<1>2. CASE Is(c, w, "BOUND")
  BY <1>1, <1>2 DEF CheckWaits
<1>3. CASE ~Is(c, w, "BOUND")
  <2> DEFINE k == c.node[w].lock
  <2>1. PICK x \in Nodes(c.graph, "check") : k \in Waits(c.graph, x)
    BY <1>3 DEF CheckWaits
  <2>2. Is(c, w, "LOCKED")
    <3>1. c.node[w] \in NodeSet
      BY DEF Core, ContextSet
    <3> QED BY <3>1, <1>3, NodeFacts DEF CheckWaits, Is
  <2>3. k \in Live(c.graph) /\ ValueOf(c.graph, k) = Null("lock", w) /\ Waits(c.graph, k) = {k}
    BY <2>2 DEF Core, NamesOK
  <2>4. ValueOf(c.graph, k).name = w
    BY <2>3, NullFacts
  <2> HIDE DEF k
  <2>6. k \notin R
    BY <2>3, <2>4, <1>3 DEF Thin
  <2>7. x \notin E /\ x \in Nodes(d.graph, "check")
    BY <1>0, <2>1 DEF Nodes, ThinFacts
  <2>8. \A y : Waits(d.graph, y) = IF y \in E THEN {} ELSE Waits(c.graph, y) \ R
    BY <1>0 DEF ThinFacts
  <2>9. k \in Waits(d.graph, x)
    BY <2>1, <2>6, <2>7, <2>8
  <2>10. d.node[w].lock = k
    BY <1>1 DEF k
  <2> QED BY <2>7, <2>9, <2>10, <1>1, <1>3 DEF CheckWaits
<1>4. QED
  BY <1>2, <1>3

(* What was tried, when no task is gone. *)
SameTasks(c, d, v) ==
  /\ VisitedOK(d, v)
  /\ \A n, id : Tried(c, n, id) => Tried(d, n, id)
  /\ Nodes(d.graph, "task") = Nodes(c.graph, "task")
  /\ \A t \in Nodes(c.graph, "task") : ValueOf(d.graph, t) = ValueOf(c.graph, t)

(* No task is gone. *)
LEMMA ThinTried ==
  ASSUME NEW c, NEW d, NEW R, NEW E, Thin(c, d, R, E),
         Nodes(c.graph, "task") \subseteq Live(d.graph), NEW v, VisitedOK(c, v)
  PROVE  SameTasks(c, d, v)
<1>0. ThinFacts(c, d, R, E)
  BY ThinNodes
<1>1. /\ Nodes(d.graph, "task") = Nodes(c.graph, "task")
      /\ \A t \in Nodes(c.graph, "task") : ValueOf(d.graph, t) = ValueOf(c.graph, t)
  BY <1>0 DEF ThinFacts
<1>2. \A n, s : Is(d, n, s) <=> Is(c, n, s)
  BY <1>0 DEF ThinFacts
<1>3. VisitedOK(d, v)
  BY <1>1, <1>2 DEF VisitedOK
<1>4. \A n, id : Tried(c, n, id) => Tried(d, n, id)
  BY <1>1, <1>2 DEF Tried
<1>5. QED
  BY <1>1, <1>3, <1>4 DEF SameTasks

-----------------------------------------------------------------------------
(* A run begins. *)

(* Nothing is in the graph but bind and check. *)
Beginning(d, a) ==
  /\ d \in ContextSet /\ GraphOK(Values, d.graph)
  /\ d.unlockSet = {} /\ d.eventMap = <<>>
  /\ \A n \in Names : ~Is(d, n, "LOCKED") /\ (Is(d, n, "BOUND") => n \in Literals)
  /\ \A x \in Live(d.graph) : ValueOf(d.graph, x).kind \in {"bind", "check"}
  /\ \A x : Waits(d.graph, x) = {}
  /\ \A kind \in {"bind", "check"} : \A x, y \in Nodes(d.graph, kind) : x = y
  /\ \A x \in Nodes(d.graph, "check") : top(d.graph) = x /\ Nodes(d.graph, "bind") # {}
  /\ a \in {"idle", "interface", "flush"}
  /\ a = "idle" => d.graph = EmptyGraph
  /\ a # "flush" => Live(d.graph) = {}

(* Then the invariant holds. *)
LEMMA BeginningGood ==
  ASSUME NEW d, NEW a, Beginning(d, a)
  PROVE  Good(d, a, None, [n \in Names |-> 0], {}, {})
<1> DEFINE v == [n \in Names |-> 0]
           g == d.graph
<1> SUFFICES Good(d, a, None, v, {}, {})
  OBVIOUS
<1>1. \A kind : kind \notin {"bind", "check"} => Nodes(g, kind) = {}
  BY DEF Beginning, Nodes
<1>2. Nodes(g, "task") = {} /\ Nodes(g, "event") = {} /\ Nodes(g, "lock") = {} /\ Known(d) = {}
  BY <1>1 DEF Known
<1>3. \A x : Waits(g, x) = {}
  BY DEF Beginning
<1>4. Core(d)
  <2>1. NamesOK(d)
    BY DEF Beginning, NamesOK
  <2>2. LocksOK(d) /\ TasksOK(d)
    BY <1>2 DEF LocksOK, TasksOK
  <2>3. RestOK(d)
    <3>1. \A x \in Nodes(g, "event") \cup Nodes(g, "check") : Waits(g, x) \subseteq Nodes(g, "lock")
      BY <1>3
    <3>2. \A kind \in {"bind", "check"} : \A x, y \in Nodes(g, kind) : x = y
      BY DEF Beginning
    <3> QED BY <3>1, <3>2, <1>3 DEF RestOK
  <2>4. UnlocksOK(d)
    BY FS_EmptySet DEF Beginning, UnlocksOK
  <2> QED BY <2>1, <2>2, <2>3, <2>4 DEF Core, Beginning
<1>5. Typed(a, None, v, {}, {})
  BY DEF Typed, Beginning, Labels
<1>6. Answered(d, {}, a \in {"interface", "bind"})
  BY DEF Answered
<1>7. VisitedOK(d, v)
  BY <1>2 DEF VisitedOK, Beginning
<1>8. a = "interface" => Fresh(d)
  <2>1. DOMAIN d.eventMap = {}
    BY DEF Beginning
  <2>2. HeldLive(d)
    BY <1>2 DEF HeldLive, Beginning
  <2> QED BY <2>1, <2>2, <1>2 DEF Fresh
<1>9. AtOK(d, a, None, {}, {})
  <2>1. a # "flush" => Nodes(g, "bind") = {} /\ Nodes(g, "check") = {}
    BY DEF Beginning, Nodes
  <2>2. /\ a = "idle" => d.graph = EmptyGraph
        /\ d.unlockSet = {} /\ d.eventMap = <<>> /\ a \in {"idle", "interface", "flush"}
    BY DEF Beginning
  <2> QED BY <2>1, <2>2, <1>2, <1>8 DEF AtOK
<1>10. BindOK(d, a, {})
  <2>1. \A x \in Nodes(g, "check") : top(g) = x
    BY DEF Beginning
  <2> QED BY <2>1, <1>2 DEF BindOK, Beginning
<1>11. CheckOK(d, None)
  <2>1. Nodes(g, "check") # {} => Nodes(g, "bind") # {}
    BY DEF Beginning
  <2> QED BY <2>1, <1>2 DEF CheckOK
<1>12. ReadOK(d, {})
  BY <1>2 DEF ReadOK
<1>13. QED
  BY <1>4, <1>5, <1>6, <1>7, <1>9, <1>10, <1>11, <1>12 DEF Good

(* The nodes of the next bundle. *)
NewNodesOK(N) ==
  /\ N \in [Names -> NodeSet]
  /\ \A n \in Names : N[n].status # "LOCKED" /\ (N[n].status = "BOUND" => n \in Literals)

(* No lock is left in those of the last one.                               *)
LEMMA NewNodesDo ==
  ASSUME NEW c, NEW w, NEW v, NEW A, NEW r, Good(c, "idle", w, v, A, r)
  PROVE  NewNodesOK([n \in Names |-> IF n \in Literals THEN c.node[n] ELSE Asted])
<1>1. c.node \in [Names -> NodeSet]
  BY DEF Good, Core, ContextSet
<1>2. Live(c.graph) = {}
  BY EmptyOK DEF Good, AtOK
<1>3. \A n \in Names : c.node[n].status # "LOCKED"
  BY <1>2 DEF Good, Core, NamesOK, Is
<1>4. Asted \in NodeSet /\ Asted.status = "ASTED"
  BY DEF NodeSet, Asted
<1>5. QED
  BY <1>1, <1>3, <1>4 DEF NewNodesOK

(* Init. *)
LEMMA InitGood ==
  Good(NewContext, "idle", None, [n \in Names |-> 0], {}, {})
<1> DEFINE d == NewContext
<1>1. /\ d.graph = EmptyGraph /\ d.eventMap = <<>> /\ d.factMap = {} /\ d.unlockSet = {}
      /\ d.node = [n \in Names |-> Asted]
  BY DEF NewContext
<1>2. GraphOK(Values, EmptyGraph) /\ Live(EmptyGraph) = {}
  BY EmptyOK
<1>3. EmptyGraph \in GraphSet(Values)
  BY <1>2 DEF GraphOK, EdgesOK
<1>4. <<>> \in EventMaps
  <2>1. <<>> \in [{} -> Nat]
    OBVIOUS
  <2> QED BY <2>1 DEF EventMaps
<1>5. Asted \in NodeSet /\ Asted.status = "ASTED"
  BY DEF NodeSet, Asted
<1>6. d \in ContextSet
  BY <1>3, <1>4, <1>5 DEF ContextSet, NewContext
<1> HIDE DEF d
<1>7. \A n \in Names : ~Is(d, n, "LOCKED") /\ ~Is(d, n, "BOUND")
  BY <1>1, <1>5 DEF Is
<1>8. \A x : Waits(EmptyGraph, x) = {}
  BY <1>2, WaitsLive
<1>9. Beginning(d, "idle")
  BY <1>1, <1>2, <1>6, <1>7, <1>8 DEF Beginning, Nodes
<1>10. QED
  BY <1>9, BeginningGood DEF d

(* RegisterBundle. *)
LEMMA RegisterBundleGood ==
  ASSUME NEW c, NEW w, NEW v, NEW A, NEW r, Good(c, "idle", w, v, A, r),
         NEW N, NewNodesOK(N)
  PROVE  Good([c EXCEPT !.node = N], "interface", None, [n \in Names |-> 0], {}, {})
<1> DEFINE d == [c EXCEPT !.node = N]
<1> SUFFICES Good(d, "interface", None, [n \in Names |-> 0], {}, {})
  OBVIOUS
<1>1. /\ d \in ContextSet /\ d.graph = c.graph /\ d.unlockSet = c.unlockSet
      /\ d.eventMap = c.eventMap /\ d.node = N
  BY DEF Good, Core, ContextSet, NewNodesOK
<1> HIDE DEF d
<1>2. d.graph = EmptyGraph /\ d.unlockSet = {} /\ d.eventMap = <<>>
  BY <1>1 DEF Good, AtOK
<1>3. GraphOK(Values, EmptyGraph) /\ Live(EmptyGraph) = {}
  BY EmptyOK
<1>4. \A x : Waits(EmptyGraph, x) = {}
  BY <1>3, WaitsLive
<1>5. \A n \in Names : ~Is(d, n, "LOCKED") /\ (Is(d, n, "BOUND") => n \in Literals)
  BY <1>1 DEF NewNodesOK, Is
<1>6. Beginning(d, "interface")
  BY <1>1, <1>2, <1>3, <1>4, <1>5 DEF Beginning, Nodes
<1>7. QED
  BY <1>6, BeginningGood

(* Analyze. *)
LEMMA AnalyzeGood ==
  ASSUME NEW c, NEW w, NEW v, NEW A, NEW r, Good(c, "idle", w, v, A, r),
         NEW N, NewNodesOK(N), NEW g, NEW h,
         g = makeNode(c.graph, [kind |-> "bind"]), h = makeNode(g, [kind |-> "check"])
  PROVE  Good([c EXCEPT !.node = N, !.graph = h], "flush", None, [n \in Names |-> 0], {}, {})
<1> DEFINE d == [c EXCEPT !.node = N, !.graph = h]
           b == top(g)
           k == top(h)
<1> SUFFICES Good(d, "flush", None, [n \in Names |-> 0], {}, {})
  OBVIOUS
<1>1. GraphOK(Values, c.graph) /\ c.graph = EmptyGraph /\ c.unlockSet = {} /\ c.eventMap = <<>>
  BY DEF Good, Core, AtOK
<1>2. Live(c.graph) = {}
  BY <1>1, EmptyOK
<1>3. [kind |-> "bind"] \in Values /\ [kind |-> "check"] \in Values
  BY DEF Values
<1>4. NodeWaits(Values, c.graph, g, [kind |-> "bind"])
  BY <1>1, <1>3, MakeWaits
<1>5. GraphOK(Values, g)
  BY <1>4 DEF NodeWaits, Reshaped
<1>6. NodeWaits(Values, g, h, [kind |-> "check"])
  BY <1>3, <1>5, MakeWaits
<1>7. /\ Live(g) = {b} /\ Live(h) = {b, k} /\ k # b /\ GraphOK(Values, h)
      /\ Waits(h, b) = {} /\ Waits(h, k) = {}
  BY <1>2, <1>4, <1>6 DEF NodeWaits, Reshaped
<1>8. ValueOf(h, b).kind = "bind" /\ ValueOf(h, k).kind = "check"
  BY <1>4, <1>6, <1>7 DEF NodeWaits, Reshaped, ValueOf
<1>9. /\ d \in ContextSet /\ d.graph = h /\ d.unlockSet = {}
      /\ d.eventMap = <<>> /\ d.node = N
  <2>1. h \in GraphSet(Values)
    BY <1>7 DEF GraphOK, EdgesOK
  <2> QED BY <2>1, <1>1 DEF Good, Core, ContextSet, NewNodesOK
<1> HIDE DEF d, b
<1>10. \A n \in Names : ~Is(d, n, "LOCKED") /\ (Is(d, n, "BOUND") => n \in Literals)
  BY <1>9 DEF NewNodesOK, Is
<1>11. \A x : Waits(h, x) = {}
  <2> SUFFICES ASSUME NEW x, Waits(h, x) # {} PROVE FALSE
    OBVIOUS
  <2>1. x \in Live(h)
    <3>1. PICK e \in OutOf(h, x) : TRUE
      BY DEF Waits
    <3>2. EdgesOK(Values, h) /\ e \in DOMAIN h.edge /\ depender(h, e) = x
      BY <3>1, <1>7 DEF OutOf, GraphOK
    <3> QED BY <3>2 DEF EdgesOK
  <2> QED BY <2>1, <1>7
<1>12. Nodes(h, "bind") = {b} /\ Nodes(h, "check") = {k}
  BY <1>7, <1>8 DEF Nodes
<1>13. \A x \in Live(h) : ValueOf(h, x).kind \in {"bind", "check"}
  BY <1>7, <1>8
<1>14. \A kind \in {"bind", "check"} : \A x, y \in Nodes(h, kind) : x = y
  BY <1>12
<1>15. \A x \in Nodes(h, "check") : top(h) = x /\ Nodes(h, "bind") # {}
  BY <1>12
<1>16. Beginning(d, "flush")
  BY <1>7, <1>9, <1>10, <1>11, <1>13, <1>14, <1>15 DEF Beginning
<1>17. QED
  BY <1>16, BeginningGood

(* EndInterface. *)
LEMMA EndInterfaceGood ==
  ASSUME NEW c, NEW w, NEW v, NEW A, NEW r, Good(c, "interface", w, v, A, r)
  PROVE  Good(c, "flush", w, v, A, r)
<1>1. Nodes(c.graph, "bind") = {} /\ Nodes(c.graph, "check") = {}
  BY DEF Good, AtOK
<1>2. Typed("flush", w, v, A, r)
  BY DEF Good, Typed, Labels
<1>3. Answered(c, A, "flush" \in {"interface", "bind"})
  BY DEF Good, Answered
<1>4. AtOK(c, "flush", w, A, r)
  BY <1>1 DEF AtOK
<1>5. BindOK(c, "flush", A)
  BY <1>1 DEF BindOK
<1>6. QED
  BY <1>2, <1>3, <1>4, <1>5 DEF Good

-----------------------------------------------------------------------------
(* Names are visited, and definitions. *)

(* What bind visits was not read. *)
LEMMA VisitUnread ==
  ASSUME NEW c, NEW w, NEW v, NEW A, NEW r, Good(c, "bind", w, v, A, r), NEW n \in Names,
         IF n \in Literals THEN c.node[n].status # "BOUND" ELSE v[n] = 0
  PROVE  n \notin r
<1>1. n \in r => Is(c, n, "BOUND")
  BY DEF Good, ReadOK
<1>2. v[n] = 0 /\ Is(c, n, "BOUND") => n \in Literals
  BY DEF Good, VisitedOK
<1>3. QED
  BY <1>1, <1>2 DEF Is

(* What a visit asks for. *)
Candidates(n, ids) == {<<n, id>> : id \in ToSet(ids)}

(* VisitInterface and VisitBundle. *)
LEMMA VisitGood ==
  ASSUME NEW c, NEW a \in {"interface", "bind"}, NEW w, NEW v, NEW A, NEW r, Good(c, a, w, v, A, r),
         NEW n \in Names, n \notin r, NEW ids \in Seq(Ids), ToSet(ids) # {},
         NEW d, d = makeTasks(c, n, ids), NEW vv, vv = [v EXCEPT ![n] = v[n] + 1],
         NEW AA, AA = A \cup Candidates(n, ids)
  PROVE  Good(d, a, w, vv, AA, r)
<1> DEFINE u == [v EXCEPT ![n] = @ + 1]
           B == A \cup {<<n, id>> : id \in ToSet(ids)}
           g == c.graph
           h == d.graph
<1> SUFFICES Good(d, a, w, u, B, r)
  BY DEF Candidates
<1>1. Core(c) /\ Fresh(c) /\ Typed(a, w, v, A, r)
  BY DEF Good, AtOK
<1>2. Visited(c, d, n, ToSet(ids))
  BY <1>1, MakeTasksDo
<1>3. Core(d) /\ Fresh(d) /\ VisitStep(c, d, n) /\ ~Is(d, n, "ASTED")
      /\ \A id \in ToSet(ids) : Tried(d, n, id)
  BY <1>2 DEF Visited, Answers
<1>4. /\ d.factMap = c.factMap /\ Live(g) \subseteq Live(h)
      /\ \A m \in Names \ {n} : d.node[m] = c.node[m]
      /\ \A m \in Names \ {n} : \A s : Is(d, m, s) <=> Is(c, m, s)
      /\ Is(c, n, "BOUND") => Is(d, n, "BOUND")
      /\ \A x \in Live(g) : ValueOf(h, x) = ValueOf(g, x)
      /\ Nodes(h, "bind") = Nodes(g, "bind") /\ Nodes(h, "check") = Nodes(g, "check")
      /\ \A x \in Nodes(g, "check") \cup Nodes(g, "lock") : Waits(h, x) = Waits(g, x)
      /\ \A t \in Nodes(h, "task") \ Nodes(g, "task") :
           ValueOf(h, t).name = n /\ ValueOf(h, t).id \notin d.factMap
  BY <1>3 DEF VisitStep, Is
<1>5. u \in [Names -> Nat] /\ u[n] > 0 /\ \A m \in Names \ {n} : u[m] = v[m]
  BY <1>1 DEF Typed
<1>6. ToSet(ids) \subseteq Ids
  BY DEF ToSet
<1>7. Typed(a, w, u, B, r)
  BY <1>1, <1>5, <1>6 DEF Typed
<1> HIDE DEF u
<1>8. \A k : Nodes(g, k) \subseteq Nodes(h, k)
  BY <1>4 DEF Nodes
<1>9. Answered(d, B, a \in {"interface", "bind"})
  <2> SUFFICES ASSUME NEW m \in Names, NEW id \in Ids, <<m, id>> \in B PROVE Tried(d, m, id)
    BY DEF Answered
  <2>1. CASE <<m, id>> \in A
    <3>1. Tried(c, m, id)
      BY <2>1 DEF Good, Answered
    <3> QED BY <3>1, <1>3, TriedKept
  <2>2. CASE <<m, id>> \notin A
    BY <2>2, <1>3
  <2> QED BY <2>1, <2>2
<1> HIDE DEF B
<1>10. VisitedOK(d, u)
  <2>1. \A m \in Names : u[m] > 0 => ~Is(d, m, "ASTED")
    <3>1. \A m \in Names : v[m] > 0 => ~Is(c, m, "ASTED")
      BY DEF Good, VisitedOK
    <3> QED BY <3>1, <1>3, <1>4, <1>5
  <2>2. \A m \in Names : u[m] = 0 /\ Is(d, m, "BOUND") => m \in Literals
    <3>1. \A m \in Names : v[m] = 0 /\ Is(c, m, "BOUND") => m \in Literals
      BY DEF Good, VisitedOK
    <3> QED BY <3>1, <1>4, <1>5
  <2>3. \A t \in Nodes(h, "task") : u[ValueOf(h, t).name] > 0
    <3> SUFFICES ASSUME NEW t \in Nodes(h, "task") PROVE u[ValueOf(h, t).name] > 0
      OBVIOUS
    <3>1. CASE t \in Nodes(g, "task")
      <4>1. t \in Live(g) /\ ValueOf(g, t).name \in Names
        BY <3>1, <1>1, LiveValues, ValueFacts DEF Nodes, Core
      <4>2. v[ValueOf(g, t).name] > 0
        BY <3>1 DEF Good, VisitedOK
      <4> QED BY <4>1, <4>2, <1>4, <1>5
    <3>2. CASE t \notin Nodes(g, "task")
      BY <3>2, <1>4, <1>5
    <3> QED BY <3>1, <3>2
  <2> QED BY <2>1, <2>2, <2>3 DEF VisitedOK
<1>11. CheckBlocked(c) => CheckBlocked(d)
  <2> SUFFICES ASSUME CheckBlocked(c), NEW x \in Nodes(h, "check")
               PROVE  \E k \in Waits(h, x) : k \in Nodes(h, "lock") /\ Waits(h, k) = {k}
    BY DEF CheckBlocked
  <2>1. x \in Nodes(g, "check")
    BY <1>4
  <2>2. PICK k \in Waits(g, x) : k \in Nodes(g, "lock") /\ Waits(g, k) = {k}
    BY <2>1 DEF CheckBlocked
  <2> QED BY <2>1, <2>2, <1>4, <1>8
<1>12. AtOK(d, a, w, B, r)
  <2>1. a = "interface" => Nodes(h, "bind") = {} /\ Nodes(h, "check") = {} /\ r = {}
    BY <1>4 DEF Good, AtOK
  <2>2. a = "bind" => Nodes(h, "bind") # {} /\ CheckBlocked(d)
    BY <1>4, <1>11 DEF Good, AtOK
  <2>3. a = "bind" => \A t \in Nodes(h, "task") : ValueOf(h, t).name \notin r
    <3> SUFFICES ASSUME a = "bind", NEW t \in Nodes(h, "task") PROVE ValueOf(h, t).name \notin r
      OBVIOUS
    <3>1. CASE t \in Nodes(g, "task")
      <4>1. t \in Live(g)
        BY <3>1 DEF Nodes
      <4>2. ValueOf(g, t).name \notin r
        BY <3>1 DEF Good, AtOK
      <4> QED BY <4>1, <4>2, <1>4
    <3>2. CASE t \notin Nodes(g, "task")
      BY <3>2, <1>4
    <3> QED BY <3>1, <3>2
  <2> QED BY <2>1, <2>2, <2>3, <1>3 DEF AtOK
<1>13. BindOK(d, a, B)
  <2>1. a # "bind" => Nodes(h, "bind") = {}
    BY <1>4 DEF Good, AtOK
  <2> QED BY <2>1 DEF BindOK
<1>14. \A t \in Known(d) : t \in Known(c) /\ ValueOf(h, t) = ValueOf(g, t)
  <2> SUFFICES ASSUME NEW t \in Known(d) PROVE t \in Known(c) /\ ValueOf(h, t) = ValueOf(g, t)
    OBVIOUS
  <2>1. t \in Nodes(h, "task") /\ ValueOf(h, t).id \in d.factMap
    BY DEF Known
  <2>2. t \in Nodes(g, "task")
    BY <2>1, <1>4
  <2>3. ValueOf(h, t) = ValueOf(g, t)
    BY <2>2, <1>4 DEF Nodes
  <2> QED BY <2>1, <2>2, <2>3, <1>4 DEF Known
<1>15. CheckOK(d, w)
  <2>1. Known(d) # {} => CheckBlocked(d)
    BY <1>11, <1>14 DEF Good, CheckOK
  <2>2. Nodes(h, "check") # {} => Nodes(h, "bind") # {}
    BY <1>4 DEF Good, AtOK
  <2>3. ASSUME Nodes(h, "check") # {}, w # None PROVE CheckWaits(d, w)
    <3>1. w \in Names /\ CheckWaits(c, w)
      BY <2>3, <1>1, <1>4 DEF Good, CheckOK, Typed
    <3>2. CASE w # n
      BY <3>1, <3>2, <1>4 DEF CheckWaits
    <3>3. CASE w = n
      <4>1. CASE Is(d, n, "BOUND")
        BY <4>1, <3>3, <1>3 DEF CheckWaits
      <4>2. CASE ~Is(d, n, "BOUND")
        <5> DEFINE k == c.node[n].lock
        <5>1. Is(c, n, "LOCKED") /\ Is(d, n, "LOCKED")
          <6>1. c.node[n] \in NodeSet /\ d.node[n] \in NodeSet
            BY <1>1, <1>3 DEF Core, ContextSet
          <6>2. ~Is(c, n, "BOUND") /\ ~Is(c, n, "ASTED")
            BY <4>2, <3>1, <3>3, <1>4 DEF CheckWaits
          <6> QED BY <6>1, <6>2, <4>2, <1>3, NodeFacts DEF Is
        <5>2. k \in Live(g) /\ ValueOf(g, k) = Null("lock", n)
          BY <5>1, <1>1 DEF Core, NamesOK
        <5>3. k \in Nodes(h, "lock") /\ ValueOf(h, k).name = n
          BY <5>2, <1>4, NullFacts DEF Nodes
        <5>4. d.node[n].lock = k
          BY <5>1, <5>3, <1>3 DEF Core, LocksOK
        <5>5. \E x \in Nodes(g, "check") : k \in Waits(g, x)
          BY <3>1, <3>3, <4>2, <1>4 DEF CheckWaits
        <5> HIDE DEF k
        <5> QED BY <5>4, <5>5, <3>3, <1>3, <1>4 DEF CheckWaits
      <4> QED BY <4>1, <4>2
    <3> QED BY <3>2, <3>3
  <2> QED BY <2>1, <2>2, <2>3 DEF CheckOK
<1>16. ReadOK(d, r)
  <2>1. \A m \in r : Is(d, m, "BOUND")
    BY <1>1, <1>4 DEF Good, ReadOK, Typed
  <2>2. \A t \in Known(d) : ValueOf(h, t).name \notin r
    BY <1>14 DEF Good, ReadOK
  <2> QED BY <2>1, <2>2 DEF ReadOK
<1>17. QED
  BY <1>3, <1>7, <1>9, <1>10, <1>12, <1>13, <1>15, <1>16 DEF Good

(* Define. *)
LEMMA DefineGood ==
  ASSUME NEW c, NEW a \in {"interface", "bind"}, NEW w, NEW v, NEW A, NEW r, Good(c, a, w, v, A, r),
         NEW id \in Ids \ c.factMap, NEW d, d = notifyEvent(c, id)
  PROVE  Good(d, a, w, v, A, r)
<1> DEFINE g == c.graph
           h == d.graph
           e == c.eventMap[id]
           E == IF id \in DOMAIN c.eventMap THEN {e} ELSE {}
<1>1. Core(c) /\ Fresh(c) /\ Typed(a, w, v, A, r) /\ VisitedOK(c, v) /\ GraphOK(Values, g)
      /\ c \in ContextSet
  BY DEF Good, AtOK, Core
<1>2. /\ d = [c EXCEPT
               !.graph = IF id \in DOMAIN c.eventMap THEN forcePending(g, e) ELSE g,
               !.eventMap = Restrict(c.eventMap, DOMAIN c.eventMap \ {id}),
               !.factMap = c.factMap \cup {id}]
  BY DEF notifyEvent
<1>3. id \in DOMAIN c.eventMap =>
        /\ e \in Live(g) /\ ValueOf(g, e) = Null("event", id) /\ Waits(g, e) # {}
  BY <1>1 DEF Fresh
<1>4. /\ Reshaped(Values, g, h) /\ Live(h) = Live(g)
      /\ \A x : Waits(h, x) = IF x \in E THEN {} ELSE Waits(g, x)
  <2>1. CASE id \in DOMAIN c.eventMap
    <3>1. e \in Blocked(g)
      BY <2>1, <1>1, <1>3, WaitsLive DEF Blocked
    <3>2. h = forcePending(g, e)
      BY <2>1, <1>1, <1>2 DEF ContextSet
    <3> HIDE DEF h, e
    <3>3. ForcedWaits(Values, g, h, e)
      BY <3>1, <3>2, <1>1, ForcePendingWaits
    <3> QED BY <3>3, <2>1 DEF ForcedWaits
  <2>2. CASE id \notin DOMAIN c.eventMap
    <3>1. h = g
      BY <2>2, <1>1, <1>2 DEF ContextSet
    <3> HIDE DEF h, g, e
    <3> QED BY <3>1, <2>2, <1>1 DEF Reshaped
  <2> QED BY <2>1, <2>2
<1>5. /\ d \in ContextSet /\ d.node = c.node /\ d.unlockSet = c.unlockSet
      /\ d.factMap = c.factMap \cup {id}
      /\ DOMAIN d.eventMap = DOMAIN c.eventMap \ {id}
      /\ \A x \in DOMAIN c.eventMap \ {id} : d.eventMap[x] = c.eventMap[x]
  <2> DEFINE M == Restrict(c.eventMap, DOMAIN c.eventMap \ {id})
  <2>1. /\ DOMAIN M = DOMAIN c.eventMap \ {id}
        /\ \A x \in DOMAIN c.eventMap \ {id} : M[x] = c.eventMap[x]
        /\ M = [x \in DOMAIN c.eventMap \ {id} |-> c.eventMap[x]]
    BY DEF Restrict
  <2>2. DOMAIN c.eventMap \in SUBSET Ids /\ \A x \in DOMAIN c.eventMap : c.eventMap[x] \in Nat
    BY <1>1 DEF ContextSet, EventMaps
  <2> HIDE DEF M
  <2>3. M \in [DOMAIN c.eventMap \ {id} -> Nat] /\ DOMAIN c.eventMap \ {id} \in SUBSET Ids
    BY <2>1, <2>2
  <2>4. M \in EventMaps
    BY <2>3 DEF EventMaps
  <2>5. h \in GraphSet(Values)
    BY <1>4 DEF Reshaped, GraphOK, EdgesOK
  <2>6. /\ d.node = c.node /\ d.unlockSet = c.unlockSet /\ d.factMap = c.factMap \cup {id}
        /\ d.eventMap = M
    BY <1>1, <1>2 DEF ContextSet, M
  <2>7. d = [graph |-> h, eventMap |-> M, factMap |-> c.factMap \cup {id},
             unlockSet |-> c.unlockSet, node |-> c.node]
    BY <1>1, <1>2 DEF ContextSet, M
  <2>8. d \in ContextSet
    <3> HIDE DEF h
    <3> QED BY <2>4, <2>5, <2>7, <1>1 DEF ContextSet
  <2> QED BY <2>1, <2>6, <2>8
<1>6. /\ \A x \in E : x \in Live(g) /\ ValueOf(g, x) = Null("event", id)
      /\ \A x \in E : ValueOf(g, x).kind = "event" /\ ValueOf(g, x).name = id
  BY <1>3, NullFacts
<1>7. \A t \in Nodes(g, "task") : ValueOf(g, t).id = id => Waits(g, t) \subseteq E
  BY <1>1 DEF Fresh
<1> HIDE DEF e, E, h
<1>8. Thin(c, d, {}, E)
  BY <1>1, <1>4, <1>5, <1>6, <1>7 DEF Thin, h
<1>9. Core(d)
  BY <1>1, <1>8, ThinKeeps
<1>10. SameTasks(c, d, v)
  <2>1. Nodes(g, "task") \subseteq Live(d.graph)
    BY <1>4 DEF Nodes, h
  <2> QED BY <2>1, <1>1, <1>8, ThinTried
<1>11. ThinFacts(c, d, {}, E)
  BY <1>8, ThinNodes
<1>12. /\ \A kind : Nodes(h, kind) = Nodes(g, kind)
       /\ \A n, s : Is(d, n, s) <=> Is(c, n, s)
       /\ \A x \in Live(g) : ValueOf(h, x) = ValueOf(g, x)
  BY <1>4, <1>11 DEF ThinFacts, h, Nodes
<1>13. Answered(d, A, a \in {"interface", "bind"})
  BY <1>10 DEF Good, Answered, SameTasks
<1>14. CheckBlocked(c) => CheckBlocked(d)
  BY <1>8, ThinBlocked
<1>15. Fresh(d)
  <2>1. HeldLive(d)
    BY <1>1, <1>4, <1>5, <1>12 DEF Fresh, HeldLive, h, Nodes
  <2>2. DOMAIN d.eventMap \subseteq Ids \ d.factMap
    BY <1>1, <1>5 DEF Fresh
  <2>3. \A x \in DOMAIN d.eventMap :
         /\ d.eventMap[x] \in Live(h)
         /\ ValueOf(h, d.eventMap[x]) = Null("event", x)
         /\ Waits(h, d.eventMap[x]) # {}
    <3> SUFFICES ASSUME NEW x \in DOMAIN d.eventMap
                 PROVE  /\ d.eventMap[x] \in Live(h)
                        /\ ValueOf(h, d.eventMap[x]) = Null("event", x)
                        /\ Waits(h, d.eventMap[x]) # {}
      OBVIOUS
    <3>1. x # id /\ x \in DOMAIN c.eventMap /\ d.eventMap[x] = c.eventMap[x]
      BY <1>5
    <3>2. /\ c.eventMap[x] \in Live(g)
          /\ ValueOf(g, c.eventMap[x]) = Null("event", x)
          /\ Waits(g, c.eventMap[x]) # {}
      BY <3>1, <1>1 DEF Fresh
    <3>3. c.eventMap[x] \notin E
      BY <3>1, <3>2, <1>6, NullFacts
    <3> QED BY <3>1, <3>2, <3>3, <1>4, <1>12
  <2>4. \A t \in Nodes(h, "task") :
         ValueOf(h, t).id \notin d.factMap =>
           /\ ValueOf(h, t).id \in DOMAIN d.eventMap
           /\ Waits(h, t) = {d.eventMap[ValueOf(h, t).id]}
    <3> SUFFICES ASSUME NEW t \in Nodes(g, "task"), ValueOf(g, t).id \notin d.factMap
                 PROVE  /\ ValueOf(g, t).id \in DOMAIN d.eventMap
                        /\ Waits(h, t) = {d.eventMap[ValueOf(g, t).id]}
      BY <1>12 DEF Nodes
    <3>1. /\ ValueOf(g, t).id \in DOMAIN c.eventMap
          /\ Waits(g, t) = {c.eventMap[ValueOf(g, t).id]}
      BY <1>1, <1>5 DEF Fresh
    <3>2. t \notin E
      BY <1>6 DEF Nodes
    <3>3. ValueOf(g, t).id # id
      BY <1>5
    <3> QED BY <3>1, <3>2, <3>3, <1>4, <1>5
  <2> QED BY <2>1, <2>2, <2>3, <2>4 DEF Fresh, h
<1>16. AtOK(d, a, w, A, r)
  <2>1. a = "interface" => Nodes(h, "bind") = {} /\ Nodes(h, "check") = {} /\ r = {}
    BY <1>12 DEF Good, AtOK
  <2>2. a = "bind" => Nodes(h, "bind") # {} /\ CheckBlocked(d)
    BY <1>12, <1>14 DEF Good, AtOK
  <2>3. a = "bind" => \A t \in Nodes(h, "task") : ValueOf(h, t).name \notin r
    <3>1. a = "bind" => \A t \in Nodes(g, "task") : ValueOf(g, t).name \notin r
      BY DEF Good, AtOK
    <3> QED BY <3>1, <1>12 DEF Nodes
  <2> QED BY <2>1, <2>2, <2>3, <1>15 DEF AtOK, h
<1>17. BindOK(d, a, A)
  <2>1. a # "bind" => Nodes(h, "bind") = {}
    BY <1>12 DEF Good, AtOK
  <2> QED BY <2>1 DEF BindOK, h
<1>18. CheckOK(d, w)
  <2>1. Known(d) # {} => CheckBlocked(d)
    <3>1. CASE a = "bind"
      BY <3>1, <1>16 DEF AtOK
    <3>2. CASE a = "interface"
      BY <3>2, <1>16 DEF AtOK, CheckBlocked
    <3> QED BY <3>1, <3>2
  <2>2. Nodes(h, "check") # {} => Nodes(h, "bind") # {}
    BY <1>16 DEF AtOK, h
  <2>3. ASSUME Nodes(h, "check") # {}, w # None PROVE CheckWaits(d, w)
    <3>1. w \in Names /\ CheckWaits(c, w)
      BY <2>3, <1>1, <1>12 DEF Good, CheckOK, Typed
    <3>2. Nodes(g, "check") \subseteq Live(d.graph)
      BY <1>4 DEF Nodes, h
    <3> QED BY <3>1, <3>2, <1>1, <1>8, ThinWaits
  <2> QED BY <2>1, <2>2, <2>3 DEF CheckOK, h
<1>19. ReadOK(d, r)
  <2>1. \A m \in r : Is(d, m, "BOUND")
    BY <1>12 DEF Good, ReadOK
  <2>2. \A t \in Known(d) : ValueOf(h, t).name \notin r
    BY <1>16 DEF AtOK, Known, h
  <2> QED BY <2>1, <2>2 DEF ReadOK, h
<1>20. QED
  BY <1>1, <1>9, <1>10, <1>13, <1>16, <1>17, <1>18, <1>19 DEF Good, SameTasks

-----------------------------------------------------------------------------
(* Context::run. *)

(* A turn that leaves the tasks alone.                                     *)
LEMMA ThinGood ==
  ASSUME NEW c, NEW a, NEW w, NEW v, NEW A, NEW r, Good(c, a, w, v, A, r),
         NEW d, NEW R, Thin(c, d, R, {}), d.factMap = c.factMap,
         Nodes(c.graph, "task") \subseteq Live(d.graph),
         Known(c) # {} => CheckBlocked(d),
         Nodes(d.graph, "check") # {} =>
           /\ Nodes(c.graph, "check") \subseteq Live(d.graph)
           /\ Nodes(d.graph, "bind") = {} => \A n \in Names : ~Is(c, n, "ASTED"),
         BindOK(d, "next", A)
  PROVE  Good(d, "next", w, v, A, r)
<1>1. Core(c) /\ Typed(a, w, v, A, r) /\ VisitedOK(c, v)
  BY DEF Good
<1>2. Core(d)
  BY <1>1, ThinKeeps
<1>3. SameTasks(c, d, v)
  BY <1>1, ThinTried
<1>4. ThinFacts(c, d, R, {})
  BY ThinNodes
<1>5. \A n, s : Is(d, n, s) <=> Is(c, n, s)
  BY <1>4 DEF ThinFacts
<1>6. Typed("next", w, v, A, r)
  BY <1>1 DEF Typed, Labels
<1>7. Answered(d, A, "next" \in {"interface", "bind"})
  BY <1>3 DEF Good, Answered, SameTasks
<1>8. AtOK(d, "next", w, A, r)
  BY DEF AtOK
<1>9. /\ Known(d) = Known(c)
      /\ \A t \in Known(c) : ValueOf(d.graph, t) = ValueOf(c.graph, t)
  BY <1>3 DEF Known, SameTasks
<1>10. CheckOK(d, w)
  <2>1. ASSUME Nodes(d.graph, "check") # {}, w # None PROVE CheckWaits(d, w)
    <3>1. Nodes(c.graph, "check") # {}
      BY <2>1, <1>4 DEF ThinFacts
    <3>2. w \in Names /\ CheckWaits(c, w)
      BY <2>1, <3>1, <1>1 DEF Good, CheckOK, Typed
    <3> QED BY <2>1, <3>2, <1>1, ThinWaits
  <2> QED BY <2>1, <1>5, <1>9 DEF CheckOK
<1>11. ReadOK(d, r)
  BY <1>5, <1>9 DEF Good, ReadOK
<1>12. QED
  BY <1>2, <1>3, <1>6, <1>7, <1>8, <1>10, <1>11 DEF Good, SameTasks

(* Flush. *)
LEMMA FlushGood ==
  ASSUME NEW c, NEW w, NEW v, NEW A, NEW r, Good(c, "flush", w, v, A, r),
         NEW locks \in SetToSeqs(c.unlockSet), NEW d,
         d = [c EXCEPT !.graph = detachLocks(c.graph, locks), !.unlockSet = {}]
  PROVE  Good(d, "next", w, v, A, r)
<1> DEFINE g == c.graph
           h == detachLocks(g, locks)
           S == c.unlockSet
<1>1. Core(c) /\ GraphOK(Values, g) /\ c \in ContextSet
  BY DEF Good, Core
<1>2. IsFiniteSet(S) /\ S \in SUBSET DOMAIN g.node
  BY <1>1 DEF Core, UnlocksOK
<1>3. LocksGone(g, h, S) /\ (S = {} => h = g)
  <2> HIDE DEF g, S
  <2> QED BY <1>1, <1>2, DetachLocksDo DEF S
<1> HIDE DEF h
<1>4. Reshaped(Values, g, h) /\ Live(h) = Live(g) /\ \A x : Waits(h, x) = Waits(g, x) \ S
  BY <1>3 DEF LocksGone
<1>5. /\ d \in ContextSet /\ d.graph = h /\ d.unlockSet = {} /\ d.node = c.node
      /\ d.factMap = c.factMap /\ d.eventMap = c.eventMap
  <2>1. h \in GraphSet(Values)
    BY <1>4 DEF Reshaped, GraphOK, EdgesOK
  <2> QED BY <2>1, <1>1 DEF ContextSet, h
<1>6. \A y \in S \cap Live(g) :
        ValueOf(g, y).kind = "lock" /\ Is(c, ValueOf(g, y).name, "BOUND")
  BY <1>1 DEF Core, UnlocksOK
<1>7. Thin(c, d, S, {})
  BY <1>4, <1>5, <1>6 DEF Thin
<1>8. ThinFacts(c, d, S, {})
  BY <1>7, ThinNodes
<1>9. \A kind : Nodes(h, kind) = Nodes(g, kind)
  BY <1>4, <1>5, <1>8 DEF ThinFacts, Nodes
<1>10. Known(c) # {} => CheckBlocked(d)
  <2>1. Known(c) # {} => Nodes(d.graph, "check") = {}
    BY <1>5, <1>9 DEF Good, AtOK
  <2> QED BY <2>1 DEF CheckBlocked
<1>11. BindOK(d, "next", A)
  <2> SUFFICES ASSUME Nodes(h, "bind") # {} PROVE BindOK(d, "next", A)
    BY <1>5 DEF BindOK
  <2>1. /\ Nodes(g, "task") = {} /\ Nodes(g, "event") = {}
        /\ c.eventMap = <<>> /\ S = {} /\ A = {}
        /\ \A k \in Nodes(g, "lock") : Is(c, ValueOf(g, k).name, "LOCKED")
        /\ \A x \in Nodes(g, "check") : Waits(g, x) = {} => top(g) = x
    BY <1>9 DEF Good, BindOK
  <2>2. d.graph = g
    BY <2>1, <1>3, <1>5
  <2> QED BY <2>1, <2>2, <1>5 DEF BindOK, Is
<1>12. \A n \in Names : Nodes(g, "check") # {} /\ Nodes(g, "bind") = {} => ~Is(c, n, "ASTED")
  BY DEF Good, CheckOK
<1>13. Nodes(c.graph, "task") \subseteq Live(d.graph) /\ Nodes(c.graph, "check") \subseteq Live(d.graph)
  BY <1>4, <1>5 DEF Nodes
<1>14. QED
  BY <1>5, <1>7, <1>9, <1>10, <1>11, <1>12, <1>13, ThinGood

(* When nothing is pending no task can bind its name.                      *)
LEMMA EmptyKnown ==
  ASSUME NEW c, Core(c), empty(c.graph)
  PROVE  Known(c) = {} /\ \A x \in Live(c.graph) : Waits(c.graph, x) # {}
<1>1. GraphOK(Values, c.graph)
  BY DEF Core
<1>2. Pending(c.graph) = {}
  BY <1>1, Heads
<1>3. \A x \in Live(c.graph) : Waits(c.graph, x) # {} /\ Waits(c.graph, x) \subseteq Live(c.graph)
  BY <1>1, <1>2, WaitsLive DEF Pending
<1>4. ASSUME NEW t \in Known(c) PROVE FALSE
  <2>1. /\ t \in Nodes(c.graph, "task") /\ t \in Live(c.graph)
        /\ ValueOf(c.graph, t).id \in c.factMap
    BY DEF Known, Nodes
  <2>2. PICK e \in Waits(c.graph, t) : e \in Live(c.graph)
    BY <2>1, <1>3
  <2>3. TaskOK(c, t, ValueOf(c.graph, t))
    BY <2>1 DEF Core, TasksOK
  <2>4. Waits(c.graph, e) = {}
    BY <2>1, <2>2, <2>3 DEF TaskOK
  <2> QED BY <2>2, <2>4, <1>3
<1>5. QED
  BY <1>3, <1>4

(* EndRun, with locks to be unlocked. *)
LEMMA EndRunFlushGood ==
  ASSUME NEW c, NEW w, NEW v, NEW A, NEW r, Good(c, "next", w, v, A, r), empty(c.graph)
  PROVE  Good(c, "flush", w, v, A, r)
<1>1. Known(c) = {}
  BY EmptyKnown DEF Good
<1>2. Typed("flush", w, v, A, r)
  BY DEF Good, Typed, Labels
<1>3. Answered(c, A, "flush" \in {"interface", "bind"})
  BY DEF Good, Answered
<1>4. AtOK(c, "flush", w, A, r)
  BY <1>1 DEF AtOK
<1>5. BindOK(c, "flush", A)
  BY DEF Good, BindOK
<1>6. QED
  BY <1>2, <1>3, <1>4, <1>5 DEF Good

(* EndRun, when what is left waits in a circle: for the lock of a name none *)
(* of whose candidates is known.                                           *)
LEMMA EndRunAbortsGood ==
  ASSUME NEW c, NEW w, NEW v, NEW A, NEW r, Good(c, "next", w, v, A, r), empty(c.graph),
         c.unlockSet = {}, isCyclic(c.graph)
  PROVE  Good(c, "aborted", w, v, A, r)
<1> DEFINE g == c.graph
<1>1. Core(c) /\ GraphOK(Values, g) /\ c \in ContextSet /\ Typed("next", w, v, A, r)
  BY DEF Good, Core
<1>2. Known(c) = {} /\ \A x \in Live(g) : Waits(g, x) # {}
  BY <1>1, EmptyKnown
<1>3. PICK x \in Live(g) : TRUE
  BY <1>1, Heads DEF isCyclic
<1>4. \A y \in Live(g) :
        ValueOf(g, y).kind \in {"lock", "event", "task", "bind", "check"}
  BY <1>1, LiveValues, ValueFacts
<1>5. \A y \in Nodes(g, "event") \cup Nodes(g, "check") : Waits(g, y) \subseteq Nodes(g, "lock")
  BY <1>1 DEF Core, RestOK
<1>6. Nodes(g, "lock") # {}
  <2>1. CASE ValueOf(g, x).kind = "lock"
    BY <2>1 DEF Nodes
  <2>2. CASE ValueOf(g, x).kind \in {"event", "check"}
    BY <2>2, <1>2, <1>5 DEF Nodes
  <2>3. CASE ValueOf(g, x).kind = "bind"
    BY <2>3, <1>1, <1>2 DEF Core, RestOK, Nodes
  <2>4. CASE ValueOf(g, x).kind = "task"
    <3>1. x \in Nodes(g, "task")
      BY <2>4 DEF Nodes
    <3>2. TaskOK(c, x, ValueOf(g, x))
      BY <3>1, <1>1 DEF Core, TasksOK
    <3>3. PICK e \in Waits(g, x) : TRUE
      BY <1>2
    <3>4. e \in Live(g) /\ ValueOf(g, e) = Null("event", ValueOf(g, x).id)
      BY <3>2, <1>1, WaitsLive DEF TaskOK
    <3>5. e \in Nodes(g, "event")
      BY <3>4, NullFacts DEF Nodes
    <3> QED BY <3>4, <3>5, <1>2, <1>5
  <2> QED BY <2>1, <2>2, <2>3, <2>4, <1>4
<1>7. PICK k \in Nodes(g, "lock") : TRUE
  BY <1>6
<1> DEFINE n == ValueOf(g, k).name
<1>8. n \in Names /\ k \in Live(g)
  BY <1>1, LiveValues, ValueFacts DEF Nodes
<1>9. Is(c, n, "LOCKED")
  <2>1. ~Is(c, n, "ASTED") /\ (Is(c, n, "BOUND") /\ Waits(g, k) # {} => k \in c.unlockSet)
    BY <1>1, <1>7 DEF Core, LocksOK
  <2>2. c.node[n] \in NodeSet
    BY <1>1, <1>8 DEF ContextSet
  <2> HIDE DEF n
  <2> QED BY <2>1, <2>2, <1>2, <1>8, NodeFacts DEF Is
<1> HIDE DEF n
<1>10. \A id \in c.factMap : <<n, id>> \notin A
  <2> SUFFICES ASSUME NEW id \in c.factMap, <<n, id>> \in A PROVE FALSE
    OBVIOUS
  <2>1. id \in Ids
    BY <1>1 DEF ContextSet
  <2>2. Tried(c, n, id)
    BY <2>1, <1>8 DEF Good, Answered
  <2>3. ~Is(c, n, "BOUND")
    BY <1>9 DEF Is
  <2>4. \E t \in Nodes(g, "task") : ValueOf(g, t).name = n /\ ValueOf(g, t).id = id
    BY <2>2, <2>3 DEF Tried
  <2> QED BY <2>4, <1>2 DEF Known
<1>11. UnresolvedIn(c, A, n)
  BY <1>9, <1>10 DEF UnresolvedIn
<1>12. AtOK(c, "aborted", w, A, r)
  BY <1>8, <1>11 DEF AtOK
<1>13. Typed("aborted", w, v, A, r)
  BY <1>1 DEF Typed, Labels
<1>14. Answered(c, A, "aborted" \in {"interface", "bind"})
  BY DEF Good, Answered
<1>15. BindOK(c, "aborted", A)
  BY DEF Good, BindOK
<1>16. QED
  BY <1>12, <1>13, <1>14, <1>15 DEF Good

(* EndRun, when nothing is left. *)
LEMMA EndRunIdleGood ==
  ASSUME NEW c, NEW w, NEW v, NEW A, NEW r, Good(c, "next", w, v, A, r), empty(c.graph),
         c.unlockSet = {}, ~isCyclic(c.graph), NEW d,
         d = [c EXCEPT !.eventMap = <<>>, !.graph = Forget(c.graph)]
  PROVE  Good(d, "idle", w, v, A, r)
<1>1. Core(c) /\ GraphOK(Values, c.graph) /\ c \in ContextSet /\ Typed("next", w, v, A, r)
  BY DEF Good, Core
<1>2. Live(c.graph) = {}
  BY <1>1, Heads DEF isCyclic
<1>3. Forget(c.graph) = EmptyGraph
  BY <1>2 DEF Forget
<1>4. GraphOK(Values, EmptyGraph) /\ Live(EmptyGraph) = {}
  BY EmptyOK
<1>5. <<>> \in EventMaps
  <2>1. <<>> \in [{} -> Nat]
    OBVIOUS
  <2> QED BY <2>1 DEF EventMaps
<1>6. /\ d \in ContextSet /\ d.graph = EmptyGraph /\ d.eventMap = <<>> /\ d.unlockSet = {}
      /\ d.node = c.node /\ d.factMap = c.factMap
  <2>1. EmptyGraph \in GraphSet(Values)
    BY <1>4 DEF GraphOK, EdgesOK
  <2> QED BY <2>1, <1>1, <1>3, <1>5 DEF ContextSet
<1>7. /\ \A kind : Nodes(d.graph, kind) = {} /\ Nodes(c.graph, kind) = {}
      /\ \A n, s : Is(d, n, s) <=> Is(c, n, s)
      /\ Known(d) = {}
  BY <1>2, <1>4, <1>6 DEF Nodes, Is, Known
<1>8. \A n \in Names : ~Is(c, n, "LOCKED")
  BY <1>1, <1>2 DEF Core, NamesOK
<1>9. Core(d)
  <2>1. NamesOK(d)
    BY <1>7, <1>8 DEF NamesOK
  <2>2. LocksOK(d) /\ TasksOK(d)
    BY <1>7 DEF LocksOK, TasksOK
  <2>3. RestOK(d)
    BY <1>7 DEF RestOK
  <2>4. UnlocksOK(d)
    BY <1>6, FS_EmptySet DEF UnlocksOK
  <2> QED BY <2>1, <2>2, <2>3, <2>4, <1>4, <1>6 DEF Core
<1>10. Typed("idle", w, v, A, r)
  BY <1>1 DEF Typed, Labels
<1>11. Answered(d, A, "idle" \in {"interface", "bind"})
  BY <1>6, <1>7 DEF Good, Answered, Tried
<1>12. VisitedOK(d, v)
  BY <1>7 DEF Good, VisitedOK
<1>13. AtOK(d, "idle", w, A, r)
  BY <1>6 DEF AtOK
<1>14. BindOK(d, "idle", A) /\ CheckOK(d, w)
  BY <1>7 DEF BindOK, CheckOK
<1>15. ReadOK(d, r)
  BY <1>7 DEF Good, ReadOK
<1>16. QED
  BY <1>9, <1>10, <1>11, <1>12, <1>13, <1>14, <1>15 DEF Good

-----------------------------------------------------------------------------
(* Coroutines end. *)

(* A node that waits for nothing is popped. *)
NodePopped(c, d, x) ==
  /\ Thin(c, d, {x}, {}) /\ Live(d.graph) = Live(c.graph) \ {x}
  /\ d.factMap = c.factMap /\ d.unlockSet = c.unlockSet /\ d.eventMap = c.eventMap
  /\ \A kind : Nodes(d.graph, kind) = Nodes(c.graph, kind) \ {x}
  /\ \A n, s : Is(d, n, s) <=> Is(c, n, s)
  /\ \A y \in Live(d.graph) : ValueOf(d.graph, y) = ValueOf(c.graph, y)

(* The others go on to wait. *)
LEMMA PopThin ==
  ASSUME NEW c, Core(c), NEW x \in Live(c.graph), Waits(c.graph, x) = {},
         NEW d, d = [c EXCEPT !.graph = pop(c.graph, x)]
  PROVE  NodePopped(c, d, x)
<1> DEFINE g == c.graph
           h == pop(g, x)
<1>1. GraphOK(Values, g) /\ c \in ContextSet
  BY DEF Core
<1>2. x \in Pending(g)
  BY <1>1, WaitsLive DEF Pending
<1>3. PoppedWaits(Values, g, h, x)
  BY <1>1, <1>2, PopWaits
<1> HIDE DEF h
<1>4. Reshaped(Values, g, h) /\ Live(h) = Live(g) \ {x} /\ \A y : Waits(h, y) = Waits(g, y) \ {x}
  BY <1>3 DEF PoppedWaits
<1>5. /\ d \in ContextSet /\ d.graph = h /\ d.unlockSet = c.unlockSet /\ d.node = c.node
      /\ d.factMap = c.factMap /\ d.eventMap = c.eventMap
  <2>1. h \in GraphSet(Values)
    BY <1>4 DEF Reshaped, GraphOK, EdgesOK
  <2> QED BY <2>1, <1>1 DEF ContextSet, h
<1>6. Thin(c, d, {x}, {})
  BY <1>4, <1>5 DEF Thin
<1>7. ThinFacts(c, d, {x}, {})
  BY <1>6, ThinNodes
<1>8. /\ \A kind : Nodes(d.graph, kind) = Nodes(c.graph, kind) \ {x}
      /\ \A n, s : Is(d, n, s) <=> Is(c, n, s)
      /\ \A y \in Live(d.graph) : ValueOf(d.graph, y) = ValueOf(c.graph, y)
  BY <1>4, <1>5, <1>7 DEF ThinFacts, Nodes
<1>9. QED
  BY <1>4, <1>5, <1>6, <1>8 DEF NodePopped

(* The top waits for nothing. *)
LEMMA TopWaits ==
  ASSUME NEW c, Core(c), ~empty(c.graph)
  PROVE  /\ top(c.graph) \in Live(c.graph) /\ Waits(c.graph, top(c.graph)) = {}
         /\ ValueOf(c.graph, top(c.graph)) \in Values
<1>1. GraphOK(Values, c.graph)
  BY DEF Core
<1>2. top(c.graph) \in Pending(c.graph)
  BY <1>1, Heads
<1>3. top(c.graph) \in Live(c.graph) /\ isPending(c.graph, top(c.graph))
  BY <1>2 DEF Pending
<1>4. Waits(c.graph, top(c.graph)) = {}
  BY <1>1, <1>3, WaitsLive
<1>5. QED
  BY <1>1, <1>3, <1>4, LiveValues

(* PopNull. *)
LEMMA PopNullGood ==
  ASSUME NEW c, NEW w, NEW v, NEW A, NEW r, Good(c, "next", w, v, A, r), ~empty(c.graph),
         ValueOf(c.graph, top(c.graph)).kind \in {"lock", "event"},
         NEW d, d = [c EXCEPT !.graph = pop(c.graph, top(c.graph))]
  PROVE  Good(d, "next", w, v, A, r)
<1> DEFINE g == c.graph
           x == top(g)
<1>1. Core(c)
  BY DEF Good
<1>2. x \in Live(g) /\ Waits(g, x) = {}
  BY <1>1, TopWaits
<1> HIDE DEF x
<1>3. NodePopped(c, d, x)
  BY <1>1, <1>2, PopThin DEF x
<1>4. x \in Nodes(g, "lock") \cup Nodes(g, "event") /\ \A kind : kind \notin {"lock", "event"} => x \notin Nodes(g, kind)
  BY <1>2 DEF Nodes, x
<1>5. Nodes(g, "bind") = {}
  <2> SUFFICES ASSUME Nodes(g, "bind") # {} PROVE FALSE
    OBVIOUS
  <2>1. Nodes(g, "event") = {} /\ \A k \in Nodes(g, "lock") : Is(c, ValueOf(g, k).name, "LOCKED")
    BY DEF Good, BindOK
  <2>2. x \in Nodes(g, "lock") /\ Is(c, ValueOf(g, x).name, "LOCKED")
    BY <2>1, <1>4
  <2>3. ValueOf(g, x).name \in Names
    BY <2>2, <1>1, LiveValues, ValueFacts DEF Nodes, Core
  <2>4. c.node[ValueOf(g, x).name].lock = x
    BY <2>2, <1>1 DEF Core, LocksOK
  <2>5. Waits(g, x) = {x}
    BY <2>2, <2>3, <2>4, <1>1 DEF Core, NamesOK
  <2> QED BY <2>5, <1>2
<1>6. /\ Thin(c, d, {x}, {}) /\ d.factMap = c.factMap
      /\ Nodes(d.graph, "bind") = {}
      /\ Nodes(g, "task") \subseteq Live(d.graph) /\ Nodes(g, "check") \subseteq Live(d.graph)
      /\ Nodes(d.graph, "check") = Nodes(g, "check")
  BY <1>3, <1>4, <1>5 DEF NodePopped, Nodes
<1>7. CheckBlocked(c) => CheckBlocked(d)
  BY <1>2, <1>6, ThinBlocked
<1>8. BindOK(d, "next", A)
  BY <1>6 DEF BindOK
<1>9. Known(c) # {} => CheckBlocked(d)
  BY <1>7 DEF Good, CheckOK
<1>10. Nodes(g, "check") # {} => \A n \in Names : ~Is(c, n, "ASTED")
  BY <1>5 DEF Good, CheckOK
<1>11. QED
  BY <1>6, <1>8, <1>9, <1>10, ThinGood

(* BeginBind: before it only check can wait, for a name that is locked.    *)
LEMMA BeginBindGood ==
  ASSUME NEW c, NEW w, NEW v, NEW A, NEW r, Good(c, "next", w, v, A, r), ~empty(c.graph),
         ValueOf(c.graph, top(c.graph)).kind = "bind"
  PROVE  Good(c, "bind", w, v, A, r)
<1> DEFINE g == c.graph
           b == top(g)
<1>1. Core(c) /\ GraphOK(Values, g)
  BY DEF Good, Core
<1>2. b \in Live(g) /\ b \in Nodes(g, "bind") /\ b \notin Nodes(g, "check")
  BY <1>1, TopWaits DEF Nodes
<1>3. /\ Nodes(g, "task") = {} /\ Nodes(g, "event") = {}
      /\ c.eventMap = <<>> /\ c.unlockSet = {} /\ A = {}
      /\ \A k \in Nodes(g, "lock") : Is(c, ValueOf(g, k).name, "LOCKED")
      /\ \A x \in Nodes(g, "check") : Waits(g, x) = {} => b = x
  BY <1>2 DEF Good, BindOK
<1> HIDE DEF b
<1>4. Fresh(c)
  <2>1. DOMAIN c.eventMap = {}
    BY <1>3
  <2>2. HeldLive(c)
    BY <1>3 DEF HeldLive
  <2> QED BY <2>1, <2>2, <1>3 DEF Fresh
<1>5. CheckBlocked(c)
  <2> SUFFICES ASSUME NEW x \in Nodes(g, "check")
               PROVE  \E k \in Waits(g, x) : k \in Nodes(g, "lock") /\ Waits(g, k) = {k}
    BY DEF CheckBlocked
  <2>1. Waits(g, x) # {} /\ Waits(g, x) \subseteq Nodes(g, "lock")
    BY <1>1, <1>2, <1>3 DEF Core, RestOK
  <2>2. PICK k \in Waits(g, x) : k \in Nodes(g, "lock")
    BY <2>1
  <2>3. Is(c, ValueOf(g, k).name, "LOCKED") /\ ValueOf(g, k).name \in Names
    BY <2>2, <1>1, <1>3, LiveValues, ValueFacts DEF Nodes
  <2>4. c.node[ValueOf(g, k).name].lock = k
    BY <2>2, <2>3, <1>1 DEF Core, LocksOK
  <2>5. Waits(g, k) = {k}
    BY <2>3, <2>4, <1>1 DEF Core, NamesOK
  <2> QED BY <2>2, <2>5
<1>6. AtOK(c, "bind", w, A, r)
  BY <1>2, <1>3, <1>4, <1>5 DEF AtOK
<1>7. Typed("bind", w, v, A, r)
  BY DEF Good, Typed, Labels
<1>8. Answered(c, A, "bind" \in {"interface", "bind"})
  BY <1>3 DEF Answered
<1>9. BindOK(c, "bind", A)
  BY DEF BindOK
<1>10. QED
  BY <1>6, <1>7, <1>8, <1>9 DEF Good

(* EndBind. *)
LEMMA EndBindGood ==
  ASSUME NEW c, NEW w, NEW v, NEW A, NEW r, Good(c, "bind", w, v, A, r),
         \A n \in Names : v[n] > 0 \/ c.node[n].status = "BOUND",
         NEW d, d = [c EXCEPT !.graph = pop(c.graph, Task(c.graph, "bind"))]
  PROVE  Good(d, "next", w, v, A, r)
<1> DEFINE g == c.graph
           b == Task(g, "bind")
<1>1. Core(c)
  BY DEF Good
<1>2. b \in Nodes(g, "bind")
  <2>1. Nodes(g, "bind") # {}
    BY DEF Good, AtOK
  <2> QED BY <2>1 DEF Nodes, Task, ValueOf
<1> HIDE DEF b
<1>3. b \in Live(g) /\ Waits(g, b) = {} /\ Nodes(g, "bind") = {b}
  BY <1>1, <1>2 DEF Core, RestOK, Nodes
<1>4. NodePopped(c, d, b)
  BY <1>1, <1>3, PopThin DEF b
<1>5. \A kind : kind # "bind" => b \notin Nodes(g, kind)
  BY <1>2 DEF Nodes
<1>6. /\ Thin(c, d, {b}, {}) /\ d.factMap = c.factMap
      /\ Nodes(d.graph, "bind") = {}
      /\ Nodes(g, "task") \subseteq Live(d.graph) /\ Nodes(g, "check") \subseteq Live(d.graph)
  BY <1>3, <1>4, <1>5 DEF NodePopped, Nodes
<1>7. CheckBlocked(d)
  BY <1>3, <1>6, ThinBlocked DEF Good, AtOK
<1>8. BindOK(d, "next", A)
  BY <1>6 DEF BindOK
<1>9. \A n \in Names : ~Is(c, n, "ASTED")
  <2>1. \A n \in Names : v[n] > 0 => ~Is(c, n, "ASTED")
    BY DEF Good, VisitedOK
  <2> QED BY <2>1 DEF Is
<1>10. QED
  BY <1>6, <1>7, <1>8, <1>9, ThinGood

(* While check runs no task can bind its name.                             *)
LEMMA CheckRuns ==
  ASSUME NEW c, NEW a, NEW w, NEW v, NEW A, NEW r, Good(c, a, w, v, A, r), ~empty(c.graph),
         ValueOf(c.graph, top(c.graph)).kind = "check"
  PROVE  /\ top(c.graph) \in Nodes(c.graph, "check") /\ Waits(c.graph, top(c.graph)) = {}
         /\ \A x \in Nodes(c.graph, "check") : x = top(c.graph)
         /\ Known(c) = {}
<1> DEFINE x == top(c.graph)
<1>1. Core(c)
  BY DEF Good
<1>2. x \in Live(c.graph) /\ Waits(c.graph, x) = {}
  BY <1>1, TopWaits
<1>3. x \in Nodes(c.graph, "check")
  BY <1>2 DEF Nodes
<1>4. \A y \in Nodes(c.graph, "check") : y = x
  BY <1>1, <1>3 DEF Core, RestOK
<1>5. ~CheckBlocked(c)
  BY <1>2, <1>3 DEF CheckBlocked
<1>6. Known(c) = {}
  BY <1>5 DEF Good, CheckOK
<1>7. QED
  BY <1>2, <1>3, <1>4, <1>6

(* EndCheck. *)
LEMMA EndCheckGood ==
  ASSUME NEW c, NEW w, NEW v, NEW A, NEW r, Good(c, "check", w, v, A, r),
         NEW d, d = [c EXCEPT !.graph = pop(c.graph, Task(c.graph, "check"))]
  PROVE  Good(d, "next", w, v, A, r)
<1> DEFINE g == c.graph
           x == Task(g, "check")
<1>1. Core(c)
  BY DEF Good
<1>2. ~empty(g) /\ top(g) \in Nodes(g, "check")
  BY DEF Good, AtOK
<1>3. x \in Nodes(g, "check")
  BY <1>2 DEF Nodes, Task, ValueOf
<1>4. /\ Waits(g, top(g)) = {} /\ \A y \in Nodes(g, "check") : y = top(g)
      /\ Known(c) = {}
  <2>1. ValueOf(g, top(g)).kind = "check"
    BY <1>2 DEF Nodes
  <2> QED BY <2>1, <1>2, CheckRuns
<1>5. Waits(g, x) = {} /\ x \in Live(g) /\ Nodes(g, "check") = {x}
  BY <1>3, <1>4 DEF Nodes
<1>6. NodePopped(c, d, x)
  <2> HIDE DEF x
  <2> QED BY <1>1, <1>5, PopThin DEF x
<1> HIDE DEF x
<1>7. \A kind : kind # "check" => x \notin Nodes(g, kind)
  BY <1>3 DEF Nodes
<1>8. /\ Thin(c, d, {x}, {}) /\ d.factMap = c.factMap
      /\ Nodes(d.graph, "check") = {}
      /\ \A kind : kind # "check" => Nodes(d.graph, kind) = Nodes(g, kind)
      /\ Nodes(g, "task") \subseteq Live(d.graph)
  BY <1>5, <1>6, <1>7 DEF NodePopped, Nodes
<1>9. BindOK(d, "next", A)
  <2> SUFFICES ASSUME Nodes(g, "bind") # {} PROVE BindOK(d, "next", A)
    BY <1>8 DEF BindOK
  <2>1. /\ Nodes(g, "task") = {} /\ Nodes(g, "event") = {}
        /\ c.eventMap = <<>> /\ c.unlockSet = {} /\ A = {}
        /\ \A k \in Nodes(g, "lock") : Is(c, ValueOf(g, k).name, "LOCKED")
    BY DEF Good, BindOK
  <2>2. \A k \in Nodes(d.graph, "lock") : Is(d, ValueOf(d.graph, k).name, "LOCKED")
    <3> SUFFICES ASSUME NEW k \in Nodes(d.graph, "lock") PROVE Is(d, ValueOf(d.graph, k).name, "LOCKED")
      OBVIOUS
    <3>1. k \in Nodes(g, "lock") /\ k \in Live(d.graph)
      BY <1>8 DEF Nodes
    <3> QED BY <3>1, <2>1, <1>6 DEF NodePopped
  <2> QED BY <2>1, <2>2, <1>6, <1>8 DEF BindOK, NodePopped
<1>10. QED
  BY <1>4, <1>8, <1>9, ThinGood

(* RunTask: its name is bound now, or was.                                 *)
LEMMA RunTaskGood ==
  ASSUME NEW c, NEW w, NEW v, NEW A, NEW r, Good(c, "next", w, v, A, r), ~empty(c.graph),
         NEW t, t = ValueOf(c.graph, top(c.graph)), t.kind = "task",
         NEW d, d = [c EXCEPT
                      !.node[t.name] = IF t.id \in c.factMap THEN Bound(t.id) ELSE c.node[t.name],
                      !.unlockSet = c.unlockSet \cup {t.lock},
                      !.graph = pop(c.graph, top(c.graph))]
  PROVE  Good(d, "next", w, v, A, r)
<1> DEFINE g == c.graph
           x == top(g)
           n == t.name
           N == [c.node EXCEPT ![n] = IF t.id \in c.factMap THEN Bound(t.id) ELSE c.node[n]]
           b == [c EXCEPT !.node = N, !.unlockSet = c.unlockSet \cup {t.lock}]
<1>1. Core(c) /\ c \in ContextSet /\ Typed("next", w, v, A, r) /\ GraphOK(Values, g)
  BY DEF Good, Core
<1>2. x \in Live(g) /\ Waits(g, x) = {} /\ t \in Values
  BY <1>1, TopWaits
<1> HIDE DEF x
<1>3. x \in Nodes(g, "task") /\ n \in Names /\ t.id \in Ids /\ t.lock \in Nat
  BY <1>2, ValueFacts DEF Nodes, x
<1>4. TaskOK(c, x, t)
  BY <1>1, <1>3 DEF Core, TasksOK, x
<1>5. N \in [Names -> NodeSet] /\ N[n].status = "BOUND" /\ \A m \in Names \ {n} : N[m] = c.node[m]
  <2>1. c.node \in [Names -> NodeSet]
    BY <1>1 DEF ContextSet
  <2>2. t.id \notin c.factMap => c.node[n].status = "BOUND"
    <3>1. t.id \notin c.factMap => ~Is(c, n, "ASTED") /\ ~Is(c, n, "LOCKED")
      BY <1>2, <1>4 DEF TaskOK
    <3> QED BY <3>1, <2>1, <1>3, NodeFacts DEF Is
  <2>3. Bound(t.id).status = "BOUND" /\ Bound(t.id) \in NodeSet
    BY <1>3, NodeStates
  <2> QED BY <2>1, <2>2, <2>3, <1>3
<1> HIDE DEF N
<1>6. /\ b \in ContextSet /\ b.graph = g /\ b.factMap = c.factMap /\ b.eventMap = c.eventMap
      /\ b.node = N /\ b.unlockSet = c.unlockSet \cup {t.lock}
  BY <1>1, <1>3, <1>5 DEF ContextSet
<1>7. d = [b EXCEPT !.graph = pop(b.graph, x)]
  BY <1>1, <1>3 DEF ContextSet, N, x
<1> HIDE DEF b, n
<1>8. BindsName(c, b, n)
  <2>1. Is(b, n, "BOUND")
    BY <1>5, <1>6 DEF Is
  <2>2. IsFiniteSet(c.unlockSet \cup {t.lock})
    BY <1>1, FS_AddElement DEF Core, UnlocksOK
  <2>3. Is(c, n, "LOCKED") => c.node[n].lock = t.lock
    BY <1>4 DEF TaskOK, n
  <2>4. t.lock \in DOMAIN g.node /\ (t.lock \in Live(g) => ValueOf(g, t.lock) = Null("lock", n))
    BY <1>4 DEF TaskOK, n
  <2> QED BY <2>1, <2>2, <2>3, <2>4, <1>5, <1>6 DEF BindsName
<1>9. Core(b)
  <2>1. ~Is(c, n, "ASTED")
    BY <1>4 DEF TaskOK, n
  <2> QED BY <2>1, <1>1, <1>3, <1>8, BindsNameKeeps DEF n
<1>10. NodePopped(b, d, x)
  BY <1>2, <1>6, <1>7, <1>9, PopThin
<1>11. Core(d)
  BY <1>9, <1>10, ThinKeeps DEF NodePopped
<1>12. /\ \A m \in Names \ {n} : \A s : Is(d, m, s) <=> Is(c, m, s)
       /\ \A s : Is(d, n, s) <=> s = "BOUND"
       /\ d.factMap = c.factMap
  <2>1. \A m, s : Is(d, m, s) <=> Is(b, m, s)
    BY <1>10 DEF NodePopped
  <2>2. /\ \A m \in Names \ {n} : \A s : Is(b, m, s) <=> Is(c, m, s)
        /\ \A s : Is(b, n, s) <=> s = "BOUND"
    BY <1>5, <1>6 DEF Is
  <2> QED BY <2>1, <2>2, <1>6, <1>10 DEF NodePopped
<1>13. /\ Live(d.graph) = Live(g) \ {x}
       /\ \A kind : Nodes(d.graph, kind) = Nodes(g, kind) \ {x}
       /\ \A y \in Live(d.graph) : ValueOf(d.graph, y) = ValueOf(g, y)
  BY <1>6, <1>10 DEF NodePopped
<1>14. Typed("next", w, v, A, r)
  BY <1>1
<1>15. Answered(d, A, "next" \in {"interface", "bind"})
  <2> SUFFICES ASSUME NEW m \in Names, NEW id \in Ids, <<m, id>> \in A, id \in d.factMap
               PROVE  Tried(d, m, id)
    BY DEF Answered
  <2>1. Tried(c, m, id)
    BY <1>12 DEF Good, Answered
  <2>2. CASE Is(c, m, "BOUND")
    BY <2>2, <1>12 DEF Tried
  <2>3. CASE ~Is(c, m, "BOUND")
    <3>1. PICK s \in Nodes(g, "task") : ValueOf(g, s).name = m /\ ValueOf(g, s).id = id
      BY <2>1, <2>3 DEF Tried
    <3>2. CASE s = x
      BY <3>1, <3>2, <1>12 DEF Tried, n, x
    <3>3. CASE s # x
      <4>1. s \in Nodes(d.graph, "task") /\ s \in Live(d.graph)
        BY <3>3, <1>13 DEF Nodes
      <4> QED BY <3>1, <4>1, <1>13 DEF Tried
    <3> QED BY <3>2, <3>3
  <2> QED BY <2>2, <2>3
<1>16. \A s \in Nodes(d.graph, "task") :
         s \in Nodes(g, "task") /\ ValueOf(d.graph, s) = ValueOf(g, s)
  BY <1>13 DEF Nodes
<1>17. VisitedOK(d, v)
  <2>1. v[n] > 0 /\ v \in [Names -> Nat]
    BY <1>1, <1>3 DEF Good, VisitedOK, Typed, n, x
  <2>2. /\ \A m \in Names : v[m] > 0 => ~Is(c, m, "ASTED")
        /\ \A m \in Names : v[m] = 0 /\ Is(c, m, "BOUND") => m \in Literals
        /\ \A s \in Nodes(g, "task") : v[ValueOf(g, s).name] > 0
    BY DEF Good, VisitedOK
  <2>3. \A m \in Names : v[m] > 0 => ~Is(d, m, "ASTED")
    BY <2>2, <1>12
  <2>4. \A m \in Names : v[m] = 0 /\ Is(d, m, "BOUND") => m \in Literals
    BY <2>1, <2>2, <1>12
  <2>5. \A s \in Nodes(d.graph, "task") : v[ValueOf(d.graph, s).name] > 0
    BY <2>2, <1>16
  <2> QED BY <2>3, <2>4, <2>5 DEF VisitedOK
<1>18. Nodes(g, "bind") = {}
  BY <1>3 DEF Good, BindOK
<1>19. Known(d) \subseteq Known(c)
  BY <1>12, <1>16 DEF Known
<1>20. CheckOK(d, w)
  <2>1. Known(d) # {} => CheckBlocked(d)
    <3>1. Known(d) # {} => CheckBlocked(c)
      BY <1>19 DEF Good, CheckOK
    <3>2. CheckBlocked(c) => CheckBlocked(b)
      BY <1>6 DEF CheckBlocked
    <3>3. CheckBlocked(b) => CheckBlocked(d)
      <4>1. Thin(b, d, {x}, {}) /\ Waits(b.graph, x) = {}
        BY <1>2, <1>6, <1>10 DEF NodePopped
      <4> QED BY <4>1, ThinBlocked
    <3> QED BY <3>1, <3>2, <3>3
  <2>2. Nodes(d.graph, "check") = Nodes(g, "check")
    BY <1>3, <1>13 DEF Nodes
  <2>3. Nodes(g, "check") # {} => \A m \in Names : ~Is(d, m, "ASTED")
    BY <1>12, <1>18 DEF Good, CheckOK
  <2>4. ASSUME Nodes(g, "check") # {}, w # None PROVE CheckWaits(d, w)
    <3>1. w \in Names /\ CheckWaits(c, w)
      BY <2>4, <1>1 DEF Good, CheckOK, Typed
    <3>2. CASE w = n
      BY <3>2, <1>12 DEF CheckWaits
    <3>3. CASE w # n
      <4>1. /\ b.node[w] = c.node[w] /\ \A s : Is(b, w, s) <=> Is(c, w, s)
        BY <3>1, <3>3, <1>5, <1>6 DEF Is
      <4>2. CheckWaits(b, w)
        BY <3>1, <4>1, <1>6 DEF CheckWaits
      <4>3. Nodes(b.graph, "check") \subseteq Live(d.graph)
        BY <2>2, <1>6 DEF Nodes
      <4>4. Thin(b, d, {x}, {})
        BY <1>10 DEF NodePopped
      <4> QED BY <3>1, <4>2, <4>3, <4>4, <1>9, ThinWaits
    <3> QED BY <3>2, <3>3
  <2> QED BY <2>1, <2>2, <2>3, <2>4 DEF CheckOK
<1>21. ReadOK(d, r)
  <2>1. \A m \in r : Is(d, m, "BOUND")
    BY <1>1, <1>12 DEF Good, ReadOK, Typed
  <2>2. \A s \in Known(d) : ValueOf(d.graph, s).name \notin r
    <3>1. \A s \in Known(c) : ValueOf(g, s).name \notin r
      BY DEF Good, ReadOK
    <3> QED BY <3>1, <1>16, <1>19 DEF Known
  <2> QED BY <2>1, <2>2 DEF ReadOK
<1>22. AtOK(d, "next", w, A, r)
  BY DEF AtOK
<1>23. BindOK(d, "next", A)
  BY <1>13, <1>18 DEF BindOK
<1>24. QED
  BY <1>11, <1>14, <1>15, <1>17, <1>20, <1>21, <1>22, <1>23 DEF Good

(* ResumeCheck: what check waited for is bound.                            *)
LEMMA ResumeCheckGood ==
  ASSUME NEW c, NEW w, NEW v, NEW A, NEW r, Good(c, "next", w, v, A, r), ~empty(c.graph),
         ValueOf(c.graph, top(c.graph)).kind = "check"
  PROVE  /\ w = None \/ (w \in Names /\ Is(c, w, "BOUND"))
         /\ Good(c, "check", None, v, A, r \cup ({w} \ {None}))
<1> DEFINE g == c.graph
           x == top(g)
           R == r \cup ({w} \ {None})
<1>1. /\ x \in Nodes(g, "check") /\ Waits(g, x) = {} /\ \A y \in Nodes(g, "check") : y = x
      /\ Known(c) = {}
  BY CheckRuns
<1> HIDE DEF x
<1>2. Typed("next", w, v, A, r)
  BY DEF Good
<1>3. ASSUME w # None PROVE w \in Names /\ Is(c, w, "BOUND")
  <2>1. w \in Names
    BY <1>2, <1>3 DEF Typed
  <2>2. CheckWaits(c, w)
    BY <1>1, <1>3 DEF Good, CheckOK
  <2>3. ~\E y \in Nodes(g, "check") : c.node[w].lock \in Waits(g, y)
    BY <1>1
  <2> QED BY <2>1, <2>2, <2>3 DEF CheckWaits
<1>4. Typed("check", None, v, A, R)
  BY <1>2, <1>3 DEF Typed, Labels
<1>5. ReadOK(c, R)
  BY <1>1, <1>3 DEF Good, ReadOK
<1> HIDE DEF R
<1>6. Answered(c, A, "check" \in {"interface", "bind"})
  BY DEF Good, Answered
<1>7. AtOK(c, "check", None, A, R)
  BY <1>1 DEF AtOK, x
<1>8. BindOK(c, "check", A)
  BY DEF Good, BindOK
<1>9. CheckOK(c, None)
  BY DEF Good, CheckOK
<1>10. Good(c, "check", None, v, A, R)
  BY <1>4, <1>5, <1>6, <1>7, <1>8, <1>9 DEF Good
<1>11. QED
  BY <1>3, <1>10 DEF R

(* Read, of what is bound. *)
LEMMA ReadBoundGood ==
  ASSUME NEW c, NEW w, NEW v, NEW A, NEW r, Good(c, "check", w, v, A, r),
         NEW n \in Names, c.node[n].status = "BOUND"
  PROVE  Good(c, "check", w, v, A, r \cup {n})
<1>1. ~empty(c.graph) /\ ValueOf(c.graph, top(c.graph)).kind = "check"
  BY DEF Good, AtOK, Nodes
<1>2. Known(c) = {}
  BY <1>1, CheckRuns
<1>3. ReadOK(c, r \cup {n})
  BY <1>2 DEF Good, ReadOK, Is
<1>4. Typed("check", w, v, A, r \cup {n})
  BY DEF Good, Typed
<1>5. AtOK(c, "check", w, A, r \cup {n})
  BY DEF Good, AtOK
<1>6. QED
  BY <1>3, <1>4, <1>5 DEF Good

(* Check begins to wait: x for l. *)
Waited(e, d, x, l) ==
  /\ Core(d) /\ d.node = e.node /\ d.factMap = e.factMap
  /\ d.eventMap = e.eventMap /\ d.unlockSet = e.unlockSet
  /\ \A kind : Nodes(d.graph, kind) = Nodes(e.graph, kind)
  /\ \A y \in Live(e.graph) : ValueOf(d.graph, y) = ValueOf(e.graph, y)
  /\ Waits(d.graph, x) = {l} /\ Known(d) = Known(e)

(* Only check waits for more, and for a lock. *)
LEMMA WaitDoes ==
  ASSUME NEW e, Core(e), NEW x \in Nodes(e.graph, "check"), Waits(e.graph, x) = {},
         NEW l \in Nodes(e.graph, "lock"), Clean(e.graph, "pendings"),
         NEW d, d = [e EXCEPT !.graph = attach(e.graph, x, l)]
  PROVE  Waited(e, d, x, l)
<1> DEFINE g == e.graph
           h == attach(g, x, l)
<1>1. GraphOK(Values, g) /\ e \in ContextSet /\ x \in Live(g) /\ l \in Live(g)
  BY DEF Core, Nodes
<1>2. AttachedWaits(Values, g, h, x, l)
  BY <1>1, AttachWaits
<1>3. /\ GraphOK(Values, h) /\ DOMAIN g.node \subseteq DOMAIN h.node /\ Live(h) = Live(g)
      /\ \A y \in Live(g) : ValueOf(h, y) = ValueOf(g, y)
      /\ \A y : Waits(h, y) = IF y = x THEN Waits(g, y) \cup {l} ELSE Waits(g, y)
  <2>1. /\ Reshaped(Values, g, h) /\ Live(h) = Live(g)
        /\ \A y : Waits(h, y) = IF y = x THEN Waits(g, y) \cup {l} ELSE Waits(g, y)
    BY <1>2 DEF AttachedWaits
  <2> HIDE DEF h
  <2> QED BY <2>1 DEF Reshaped, ValueOf
<1> HIDE DEF h
<1>4. /\ d \in ContextSet /\ d.graph = h /\ d.node = e.node /\ d.factMap = e.factMap
      /\ d.eventMap = e.eventMap /\ d.unlockSet = e.unlockSet
  <2>1. h \in GraphSet(Values)
    BY <1>3 DEF GraphOK, EdgesOK
  <2> QED BY <2>1, <1>1 DEF ContextSet, h
<1>5. \A kind : Nodes(h, kind) = Nodes(g, kind)
  BY <1>3 DEF Nodes
<1>6. \A n, s : Is(d, n, s) <=> Is(e, n, s)
  BY <1>4 DEF Is
<1>7. \A y \in Live(g) : ValueOf(g, y).kind # "check" => Waits(h, y) = Waits(g, y)
  BY <1>3 DEF Nodes
<1>8. NamesOK(d)
  <2> SUFFICES ASSUME NEW n \in Names, Is(e, n, "LOCKED")
               PROVE  /\ e.node[n].lock \in Live(h)
                      /\ ValueOf(h, e.node[n].lock) = Null("lock", n)
                      /\ Waits(h, e.node[n].lock) = {e.node[n].lock}
    BY <1>4, <1>6 DEF NamesOK
  <2>1. /\ e.node[n].lock \in Live(g) /\ ValueOf(g, e.node[n].lock) = Null("lock", n)
        /\ Waits(g, e.node[n].lock) = {e.node[n].lock}
    BY DEF Core, NamesOK
  <2>2. ValueOf(g, e.node[n].lock).kind # "check"
    BY <2>1, NullFacts
  <2> QED BY <2>1, <2>2, <1>3, <1>7
<1>9. LocksOK(d)
  <2>1. \A k \in Nodes(g, "lock") :
          k \in Live(g) /\ ValueOf(h, k) = ValueOf(g, k) /\ Waits(h, k) = Waits(g, k)
    BY <1>3, <1>7 DEF Nodes
  <2> QED BY <2>1, <1>4, <1>5, <1>6 DEF Core, LocksOK
<1>10. TasksOK(d)
  <2> SUFFICES ASSUME NEW t \in Nodes(g, "task") PROVE TaskOK(d, t, ValueOf(h, t))
    BY <1>4, <1>5 DEF TasksOK
  <2> DEFINE v == ValueOf(g, t)
  <2>1. ValueOf(h, t) = v /\ Waits(h, t) = Waits(g, t)
    BY <1>3, <1>7 DEF Nodes
  <2>2. TaskOK(e, t, v)
    BY DEF Core, TasksOK
  <2> HIDE DEF v
  <2>3. \A f \in Waits(g, t) : f \in Live(g) /\ ValueOf(g, f) = Null("event", v.id)
    BY <2>2, <1>1, WaitsLive DEF TaskOK
  <2>4. \A f \in Waits(g, t) : ValueOf(h, f) = ValueOf(g, f) /\ Waits(h, f) = Waits(g, f)
    BY <2>3, <1>3, <1>7, NullFacts
  <2> QED BY <2>1, <2>2, <2>4, <1>3, <1>4, <1>6 DEF TaskOK
<1>11. RestOK(d)
  <2>1. \A y \in Nodes(g, "event") \cup Nodes(g, "check") : Waits(h, y) \subseteq Nodes(g, "lock")
    <3>1. \A y \in Nodes(g, "event") \cup Nodes(g, "check") : Waits(g, y) \subseteq Nodes(g, "lock")
      BY DEF Core, RestOK
    <3> QED BY <3>1, <1>3
  <2>2. \A y \in Nodes(g, "bind") : Waits(h, y) = {}
    BY <1>7 DEF Core, RestOK, Nodes
  <2>3. \A kind \in {"bind", "check"} : \A y, z \in Nodes(g, kind) : y = z
    BY DEF Core, RestOK
  <2> QED BY <2>1, <2>2, <2>3, <1>4, <1>5 DEF RestOK
<1>12. UnlocksOK(d)
  BY <1>3, <1>4, <1>6 DEF Core, UnlocksOK
<1>13. Known(d) = Known(e)
  <2>1. \A t \in Nodes(g, "task") : ValueOf(h, t) = ValueOf(g, t)
    BY <1>3 DEF Nodes
  <2> QED BY <2>1, <1>4, <1>5 DEF Known
<1>14. QED
  BY <1>3, <1>4, <1>5, <1>8, <1>9, <1>10, <1>11, <1>12, <1>13 DEF Core, Waited

(* Read, of what is not bound: check waits for its lock. *)
LEMMA ReadWaitsGood ==
  ASSUME NEW c, NEW w, NEW v, NEW A, NEW r, Good(c, "check", w, v, A, r),
         NEW n \in Names, ~Is(c, n, "BOUND"), NEW e, NameLocked(c, e, n), Is(e, n, "LOCKED"),
         Clean(e.graph, "pendings"),
         NEW d, d = [e EXCEPT !.graph = attach(e.graph, top(e.graph), e.node[n].lock)]
  PROVE  Good(d, "next", n, v, A, r)
<1> DEFINE x == top(e.graph)
           l == e.node[n].lock
<1>1. Core(c) /\ Core(e) /\ Typed("check", w, v, A, r)
  BY DEF Good, NameLocked
<1>2. ~empty(c.graph) /\ ValueOf(c.graph, top(c.graph)).kind = "check"
  BY DEF Good, AtOK, Nodes
<1>3. /\ x \in Nodes(c.graph, "check") /\ Waits(c.graph, x) = {}
      /\ \A y \in Nodes(c.graph, "check") : y = x
      /\ Known(c) = {}
  BY <1>2, CheckRuns DEF NameLocked
<1> HIDE DEF x
<1>4. /\ e.factMap = c.factMap /\ e.eventMap = c.eventMap /\ e.unlockSet = c.unlockSet
      /\ \A kind \in {"bind", "check", "task", "event"} : Nodes(e.graph, kind) = Nodes(c.graph, kind)
      /\ \A y \in Live(c.graph) : ValueOf(e.graph, y) = ValueOf(c.graph, y)
      /\ Waits(e.graph, x) = {}
  <2>1. VisitStep(c, e, n)
    BY DEF NameLocked
  <2>2. x \in Live(c.graph)
    BY <1>3 DEF Nodes
  <2> QED BY <2>1, <2>2, <1>3 DEF NameLocked, VisitStep
<1>5. /\ \A m \in Names : Is(c, m, "BOUND") <=> Is(e, m, "BOUND")
      /\ \A m \in Names : ~Is(c, m, "ASTED") => ~Is(e, m, "ASTED")
      /\ \A m \in Names : Is(c, m, "LOCKED") => Is(e, m, "LOCKED")
  <2>1. VisitStep(c, e, n)
    BY DEF NameLocked
  <2>2. \A m \in Names \ {n} : e.node[m] = c.node[m]
    BY <2>1 DEF VisitStep
  <2> QED BY <2>2 DEF Is
<1>6. l \in Nodes(e.graph, "lock")
  <2>1. l \in Live(e.graph) /\ ValueOf(e.graph, l) = Null("lock", n)
    BY <1>1 DEF Core, NamesOK
  <2> QED BY <2>1, NullFacts DEF Nodes
<1>7. Waited(e, d, x, l)
  <2>1. x \in Nodes(e.graph, "check") /\ d = [e EXCEPT !.graph = attach(e.graph, x, l)]
    BY <1>3, <1>4 DEF x
  <2> HIDE DEF l
  <2> QED BY <2>1, <1>1, <1>4, <1>6, WaitDoes
<1>8. /\ Core(d) /\ d.factMap = c.factMap /\ d.eventMap = c.eventMap /\ d.unlockSet = c.unlockSet
      /\ d.node = e.node /\ l \in Waits(d.graph, x)
      /\ \A kind : Nodes(d.graph, kind) = Nodes(e.graph, kind)
  BY <1>4, <1>7 DEF Waited
<1>9. \A m, s : Is(d, m, s) <=> Is(e, m, s)
  BY <1>8 DEF Is
<1>10. \A y \in Nodes(d.graph, "task") :
         y \in Nodes(c.graph, "task") /\ ValueOf(d.graph, y) = ValueOf(c.graph, y)
  <2>1. \A y \in Live(e.graph) : ValueOf(d.graph, y) = ValueOf(e.graph, y)
    BY <1>7 DEF Waited
  <2>2. Nodes(d.graph, "task") = Nodes(e.graph, "task") /\ Nodes(e.graph, "task") = Nodes(c.graph, "task")
    BY <1>4, <1>8
  <2> QED BY <2>1, <2>2, <1>4 DEF Nodes
<1>11. Nodes(d.graph, "task") = Nodes(c.graph, "task") /\ Nodes(d.graph, "check") = {x}
       /\ Nodes(d.graph, "event") = Nodes(c.graph, "event")
       /\ Nodes(d.graph, "bind") = Nodes(c.graph, "bind")
  BY <1>3, <1>4, <1>8
<1>12. Known(d) = {}
  BY <1>3, <1>8, <1>10 DEF Known
<1>13. Typed("next", n, v, A, r)
  BY <1>1 DEF Typed, Labels
<1>14. Answered(d, A, "next" \in {"interface", "bind"})
  <2> SUFFICES ASSUME NEW m \in Names, NEW id \in Ids, <<m, id>> \in A, id \in d.factMap
               PROVE  Tried(d, m, id)
    BY DEF Answered
  <2>1. Tried(c, m, id)
    BY <1>8 DEF Good, Answered
  <2> QED BY <2>1, <1>5, <1>9, <1>10, <1>11 DEF Tried
<1>15. VisitedOK(d, v)
  <2>1. /\ \A m \in Names : v[m] > 0 => ~Is(c, m, "ASTED")
        /\ \A m \in Names : v[m] = 0 /\ Is(c, m, "BOUND") => m \in Literals
        /\ \A t \in Nodes(c.graph, "task") : v[ValueOf(c.graph, t).name] > 0
    BY DEF Good, VisitedOK
  <2>2. \A t \in Nodes(d.graph, "task") : v[ValueOf(d.graph, t).name] > 0
    BY <2>1, <1>10
  <2>3. \A m \in Names : v[m] > 0 => ~Is(d, m, "ASTED")
    BY <2>1, <1>5, <1>9
  <2>4. \A m \in Names : v[m] = 0 /\ Is(d, m, "BOUND") => m \in Literals
    BY <2>1, <1>5, <1>9
  <2> QED BY <2>2, <2>3, <2>4 DEF VisitedOK
<1>16. AtOK(d, "next", n, A, r)
  BY DEF AtOK
<1>17. BindOK(d, "next", A)
  <2> SUFFICES ASSUME Nodes(c.graph, "bind") # {} PROVE BindOK(d, "next", A)
    BY <1>11 DEF BindOK
  <2>1. /\ Nodes(c.graph, "task") = {} /\ Nodes(c.graph, "event") = {}
        /\ c.eventMap = <<>> /\ c.unlockSet = {} /\ A = {}
        /\ \A k \in Nodes(c.graph, "lock") : Is(c, ValueOf(c.graph, k).name, "LOCKED")
    BY DEF Good, BindOK
  <2>2. \A k \in Nodes(d.graph, "lock") : Is(d, ValueOf(d.graph, k).name, "LOCKED")
    <3> SUFFICES ASSUME NEW k \in Nodes(d.graph, "lock") PROVE Is(d, ValueOf(d.graph, k).name, "LOCKED")
      OBVIOUS
    <3>1. k \in Nodes(e.graph, "lock") /\ ValueOf(d.graph, k) = ValueOf(e.graph, k)
      BY <1>7, <1>8 DEF Nodes, Waited
    <3>2. CASE k \in Live(c.graph)
      <4>1. k \in Nodes(c.graph, "lock") /\ ValueOf(e.graph, k) = ValueOf(c.graph, k)
        BY <3>1, <3>2, <1>4 DEF Nodes
      <4>2. ValueOf(c.graph, k).name \in Names
        BY <4>1, <1>1, LiveValues, ValueFacts DEF Nodes, Core
      <4> QED BY <2>1, <3>1, <4>1, <4>2, <1>5, <1>9
    <3>3. CASE k \notin Live(c.graph)
      <4>1. ValueOf(e.graph, k).name = n
        BY <3>1, <3>3 DEF NameLocked
      <4> QED BY <3>1, <4>1, <1>9
    <3> QED BY <3>2, <3>3
  <2>3. \A y \in Nodes(d.graph, "check") : Waits(d.graph, y) # {}
    BY <1>8, <1>11
  <2> QED BY <2>1, <2>2, <2>3, <1>8, <1>11 DEF BindOK
<1>18. CheckOK(d, n)
  <2>1. Nodes(d.graph, "bind") = {} => \A m \in Names : ~Is(d, m, "ASTED")
    <3>1. Nodes(c.graph, "check") # {}
      BY <1>3
    <3>2. Nodes(c.graph, "bind") = {} => \A m \in Names : ~Is(c, m, "ASTED")
      BY <3>1 DEF Good, CheckOK
    <3> QED BY <3>2, <1>5, <1>9, <1>11
  <2>2. CheckWaits(d, n)
    <3>1. ~Is(d, n, "ASTED")
      BY <1>9 DEF Is
    <3>2. d.node[n].lock \in Waits(d.graph, x) /\ x \in Nodes(d.graph, "check")
      BY <1>8, <1>11
    <3> QED BY <3>1, <3>2 DEF CheckWaits
  <2> QED BY <2>1, <2>2, <1>12 DEF CheckOK
<1>19. ReadOK(d, r)
  BY <1>1, <1>5, <1>9, <1>12 DEF Good, ReadOK, Typed
<1>20. QED
  BY <1>8, <1>13, <1>14, <1>15, <1>16, <1>17, <1>18, <1>19 DEF Good

(* Check waits for a name that is not resolved, and the lists are broken.  *)
Broken(c, a, w, A) ==
  /\ a \in {"next", "thrown"} /\ w \in Names /\ UnresolvedIn(c, A, w)
  /\ a = "next" => ~empty(c.graph) /\ ValueOf(c.graph, top(c.graph)).kind = "check"
  /\ \A k \in c.unlockSet \cap Live(c.graph) :
       ValueOf(c.graph, k).kind = "lock" /\ Is(c, ValueOf(c.graph, k).name, "BOUND")

(* The head of _pendings has a stale _prev: the name was locked before.    *)
LEMMA ReadBreaks ==
  ASSUME NEW c, NEW w, NEW v, NEW A, NEW r, Good(c, "check", w, v, A, r),
         NEW n \in Names, Is(c, n, "LOCKED"), ~Clean(c.graph, "pendings"),
         NEW d, d = [c EXCEPT !.graph = attach(c.graph, top(c.graph), c.node[n].lock)]
  PROVE  Broken(d, "next", n, A)
<1> DEFINE g == c.graph
           h == attach(g, top(g), c.node[n].lock)
<1>1. Core(c) /\ c \in ContextSet /\ GraphOK(Values, g)
  BY DEF Good, Core
<1>2. ~empty(g) /\ ValueOf(g, top(g)).kind = "check"
  BY DEF Good, AtOK, Nodes
<1>3. top(g) \in Live(g) /\ Known(c) = {}
  BY <1>2, CheckRuns DEF Nodes
<1>4. SameContents(g, h)
  BY <1>1, <1>2, AttachDirty
<1>5. /\ top(h) = top(g) /\ Live(h) = Live(g)
      /\ \A y \in Live(g) : ValueOf(h, y) = ValueOf(g, y)
  <2> HIDE DEF h
  <2> QED BY <1>4 DEF SameContents, ValueOf, Live
<1>6. d.graph = h /\ d.node = c.node /\ d.factMap = c.factMap /\ d.unlockSet = c.unlockSet
  BY <1>1 DEF ContextSet
<1> HIDE DEF h, g
<1>7. \A m, s : Is(d, m, s) <=> Is(c, m, s)
  BY <1>6 DEF Is
<1>8. UnresolvedIn(d, A, n)
  <2>1. ASSUME NEW id \in c.factMap, <<n, id>> \in A PROVE FALSE
    <3>1. id \in Ids
      BY <2>1, <1>1 DEF ContextSet
    <3>2. Tried(c, n, id)
      BY <2>1, <3>1 DEF Good, Answered
    <3>3. ~Is(c, n, "BOUND")
      BY DEF Is
    <3> QED BY <2>1, <3>2, <3>3, <1>3 DEF Tried, Known
  <2> QED BY <2>1, <1>6, <1>7 DEF UnresolvedIn
<1>9. ~empty(h) /\ ValueOf(h, top(h)).kind = "check"
  BY <1>2, <1>3, <1>5 DEF empty, top, g
<1>10. \A k \in d.unlockSet \cap Live(h) :
         ValueOf(h, k).kind = "lock" /\ Is(d, ValueOf(h, k).name, "BOUND")
  BY <1>1, <1>5, <1>6, <1>7 DEF Core, UnlocksOK, g
<1>11. QED
  BY <1>6, <1>8, <1>9, <1>10 DEF Broken

(* There is a name that was not met when check runs before bind.           *)
LEMMA CheckHolds ==
  ASSUME NEW c, NEW w, NEW v, NEW A, NEW r, Good(c, "check", w, v, A, r),
         NEW n \in Names, Is(c, n, "ASTED")
  PROVE  HeldLive(c)
<1>1. Nodes(c.graph, "check") # {}
  BY DEF Good, AtOK
<1>2. Nodes(c.graph, "bind") # {}
  BY <1>1 DEF Good, CheckOK
<1>3. c.unlockSet = {} /\ Nodes(c.graph, "task") = {}
  BY <1>2 DEF Good, BindOK
<1>4. QED
  BY <1>3 DEF HeldLive

(* Read, of what is not bound. *)
LEMMA ReadGood ==
  ASSUME NEW c, NEW w, NEW v, NEW A, NEW r, Good(c, "check", w, v, A, r),
         NEW n \in Names, ~Is(c, n, "BOUND"), NEW e, e = vIndexOrLock(c, n),
         NEW d, d = [e EXCEPT !.graph = attach(e.graph, top(e.graph), e.node[n].lock)]
  PROVE  Good(d, "next", n, v, A, r) \/ Broken(d, "next", n, A)
<1>1. Core(c) /\ c \in ContextSet
  BY DEF Good, Core
<1>2. Is(c, n, "ASTED") => HeldLive(c)
  BY CheckHolds
<1>3. NameLocked(c, e, n)
  BY <1>1, <1>2, LockNameDoes
<1>4. Is(e, n, "LOCKED")
  <2>1. CASE Is(c, n, "ASTED")
    BY <2>1, <1>3 DEF NameLocked
  <2>2. CASE ~Is(c, n, "ASTED")
    <3>1. e = c
      BY <2>2, <1>3 DEF NameLocked
    <3>2. c.node[n] \in NodeSet
      BY <1>1 DEF ContextSet
    <3> QED BY <2>2, <3>1, <3>2, NodeFacts DEF Is
  <2> QED BY <2>1, <2>2
<1>5. CASE Clean(e.graph, "pendings")
  BY <1>3, <1>4, <1>5, ReadWaitsGood
<1>6. CASE ~Clean(e.graph, "pendings")
  <2>1. e = c
    BY <1>3, <1>6 DEF NameLocked
  <2> QED BY <2>1, <1>4, <1>6, ReadBreaks
<1>7. QED
  BY <1>5, <1>6

-----------------------------------------------------------------------------
(* The steps. *)

GoodNow == Good(context, at, waiting, visited, asked, read)
BrokenNow == Broken(context, at, waiting, asked)

IInv == GoodNow \/ BrokenNow

(* RegisterBundle and Analyze. *)
LEMMA BeginsGood ==
  ASSUME GoodNow, RegisterBundle \/ Analyze
  PROVE  GoodNow'
<1>1. Good(context, "idle", waiting, visited, asked, read)
  BY DEF GoodNow, RegisterBundle, Analyze, Begin
<1>2. NewNodesOK(NewNodes)
  BY <1>1, NewNodesDo DEF NewNodes
<1> HIDE DEF NewNodes
<1>3. waiting' = None /\ visited' = [n \in Names |-> 0] /\ asked' = {} /\ read' = {}
  BY DEF RegisterBundle, Analyze, Begin
<1>4. CASE RegisterBundle
  <2>1. context' = [context EXCEPT !.node = NewNodes] /\ at' = "interface"
    BY <1>4 DEF RegisterBundle
  <2>2. Good([context EXCEPT !.node = NewNodes], "interface", None, [n \in Names |-> 0], {}, {})
    BY <1>1, <1>2, RegisterBundleGood
  <2> QED BY <2>1, <2>2, <1>3 DEF GoodNow
<1>5. CASE Analyze
  <2> DEFINE g == makeNode(context.graph, [kind |-> "bind"])
             h == makeNode(g, [kind |-> "check"])
  <2>1. context' = [context EXCEPT !.node = NewNodes, !.graph = h] /\ at' = "flush"
    BY <1>5 DEF Analyze
  <2>2. Good([context EXCEPT !.node = NewNodes, !.graph = h], "flush", None, [n \in Names |-> 0], {}, {})
    BY <1>1, <1>2, AnalyzeGood
  <2> QED BY <2>1, <2>2, <1>3 DEF GoodNow
<1>6. QED
  BY <1>4, <1>5

(* What is visited, and with what candidates. *)
Visits(n, ids) ==
  /\ Visit(n, ids) /\ n \notin read /\ ids \in Seq(Ids) /\ ToSet(ids) # {}
  /\ at \in {"interface", "bind"}

(* VisitInterface and VisitBundle visit a name that was not read.          *)
LEMMA VisitsUnread ==
  ASSUME GoodNow, NEW n \in Names, VisitInterface(n) \/ VisitBundle(n)
  PROVE  \E ids : Visits(n, ids)
<1>1. CASE VisitInterface(n)
  <2>1. PICK id \in Ids : Visit(n, <<id>>)
    BY <1>1 DEF VisitInterface
  <2>2. at = "interface" /\ read = {}
    BY <1>1 DEF VisitInterface, GoodNow, Good, AtOK
  <2>3. <<id>> \in Seq(Ids) /\ id \in ToSet(<<id>>)
    BY <2>1 DEF ToSet
  <2> QED BY <2>1, <2>2, <2>3 DEF Visits
<1>2. CASE VisitBundle(n)
  <2>1. PICK ids \in SetToAllKPermutations(Ids) \ {<<>>} : Visit(n, ids)
    BY <1>2 DEF VisitBundle
  <2>2. ids \in Seq(Ids) /\ ToSet(ids) # {}
    BY <2>1, VisitSeqs
  <2>3. Good(context, "bind", waiting, visited, asked, read) /\ at = "bind"
    BY <1>2 DEF GoodNow, VisitBundle
  <2>4. IF n \in Literals THEN context.node[n].status # "BOUND" ELSE visited[n] = 0
    BY <1>2 DEF VisitBundle
  <2>5. n \notin read
    BY <2>3, <2>4, VisitUnread
  <2> QED BY <2>1, <2>2, <2>3, <2>5 DEF Visits
<1>3. QED
  BY <1>1, <1>2

(* A visit. *)
LEMMA VisitsGood ==
  ASSUME GoodNow, NEW n \in Names, NEW ids, Visits(n, ids)
  PROVE  GoodNow'
<1>1. /\ context' = makeTasks(context, n, ids)
      /\ visited' = [visited EXCEPT ![n] = @ + 1]
      /\ asked' = asked \cup {<<n, id>> : id \in ToSet(ids)}
      /\ at' = at /\ waiting' = waiting /\ read' = read
  BY DEF Visits, Visit
<1>2. at \in {"interface", "bind"} /\ n \notin read /\ ids \in Seq(Ids) /\ ToSet(ids) # {}
  BY DEF Visits
<1>3. Good(context, at, waiting, visited, asked, read)
  BY DEF GoodNow
<1>4. Good(context', at, waiting, visited', asked', read)
  <2>1. visited' = [visited EXCEPT ![n] = visited[n] + 1] /\ asked' = asked \cup Candidates(n, ids)
    BY <1>1 DEF Candidates
  <2> DEFINE vv == [visited EXCEPT ![n] = visited[n] + 1]
             AA == asked \cup Candidates(n, ids)
             d == makeTasks(context, n, ids)
  <2>2. visited' = vv /\ asked' = AA /\ context' = d
    BY <2>1, <1>1
  <2>3. vv = [visited EXCEPT ![n] = visited[n] + 1] /\ AA = asked \cup Candidates(n, ids)
        /\ d = makeTasks(context, n, ids)
    OBVIOUS
  <2> HIDE DEF vv, AA, d
  <2>4. Good(d, at, waiting, vv, AA, read)
    BY <2>3, <1>2, <1>3, VisitGood
  <2> QED BY <2>2, <2>4
<1>5. QED
  BY <1>1, <1>4 DEF GoodNow

(* Define. *)
LEMMA DefinesGood ==
  ASSUME GoodNow, NEW id \in Ids, Define(id)
  PROVE  GoodNow'
<1>1. /\ at \in {"interface", "bind"} /\ id \in Ids \ context.factMap
      /\ context' = notifyEvent(context, id)
      /\ UNCHANGED <<at, waiting, visited, asked, read>>
  BY DEF Define
<1>2. Good(context', at, waiting, visited, asked, read)
  BY <1>1, DefineGood DEF GoodNow
<1>3. QED
  BY <1>1, <1>2 DEF GoodNow

(* EndInterface, and the steps of Context::run. *)
LEMMA RunsGood ==
  ASSUME GoodNow, EndInterface \/ Flush \/ EndRun
  PROVE  GoodNow'
<1>1. waiting' = waiting /\ visited' = visited /\ asked' = asked /\ read' = read
  BY DEF EndInterface, Flush, EndRun
<1>2. CASE EndInterface
  <2>1. Good(context, "flush", waiting, visited, asked, read)
    BY <1>2, EndInterfaceGood DEF EndInterface, GoodNow
  <2> QED BY <2>1, <1>1, <1>2 DEF EndInterface, GoodNow
<1>3. CASE Flush
  <2>1. PICK locks \in SetToSeqs(context.unlockSet) :
          context' = [context EXCEPT !.graph = detachLocks(@, locks), !.unlockSet = {}]
    BY <1>3 DEF Flush
  <2>2. context' = [context EXCEPT !.graph = detachLocks(context.graph, locks), !.unlockSet = {}]
    BY <2>1
  <2>3. Good(context, "flush", waiting, visited, asked, read)
    BY <1>3 DEF Flush, GoodNow
  <2>4. Good(context', "next", waiting, visited, asked, read)
    BY <2>2, <2>3, FlushGood
  <2> QED BY <2>4, <1>1, <1>3 DEF Flush, GoodNow
<1>4. CASE EndRun
  <2>1. Good(context, "next", waiting, visited, asked, read) /\ empty(context.graph)
    BY <1>4 DEF EndRun, GoodNow
  <2>2. CASE context.unlockSet # {}
    <3>1. at' = "flush" /\ context' = context
      BY <2>2, <1>4 DEF EndRun
    <3>2. Good(context, "flush", waiting, visited, asked, read)
      BY <2>1, EndRunFlushGood
    <3> QED BY <3>1, <3>2, <1>1 DEF GoodNow
  <2>3. CASE context.unlockSet = {} /\ isCyclic(context.graph)
    <3>1. at' = "aborted" /\ context' = context
      BY <2>3, <1>4 DEF EndRun
    <3>2. Good(context, "aborted", waiting, visited, asked, read)
      BY <2>1, <2>3, EndRunAbortsGood
    <3> QED BY <3>1, <3>2, <1>1 DEF GoodNow
  <2>4. CASE context.unlockSet = {} /\ ~isCyclic(context.graph)
    <3>1. at' = "idle" /\ context' = [context EXCEPT !.eventMap = <<>>, !.graph = Forget(@)]
      BY <2>4, <1>4 DEF EndRun
    <3>2. context' = [context EXCEPT !.eventMap = <<>>, !.graph = Forget(context.graph)]
      BY <3>1
    <3>3. Good(context', "idle", waiting, visited, asked, read)
      BY <2>1, <2>4, <3>2, EndRunIdleGood
    <3> QED BY <3>1, <3>3, <1>1 DEF GoodNow
  <2> QED BY <2>2, <2>3, <2>4
<1>5. QED
  BY <1>2, <1>3, <1>4

(* What nextCoroutine finds. *)
LEMMA TurnFacts ==
  ASSUME GoodNow, NEW kinds, Turn(kinds)
  PROVE  /\ Good(context, "next", waiting, visited, asked, read) /\ at = "next"
         /\ ~empty(context.graph)
         /\ First = ValueOf(context.graph, top(context.graph)) /\ First.kind \in kinds
BY DEF GoodNow, Turn, First, ValueOf

(* PopNull, RunTask and BeginBind. *)
LEMMA TurnsGood ==
  ASSUME GoodNow, PopNull \/ RunTask \/ BeginBind
  PROVE  GoodNow'
<1>1. waiting' = waiting /\ visited' = visited /\ asked' = asked /\ read' = read
  BY DEF PopNull, RunTask, BeginBind
<1>2. CASE PopNull
  <2>1. Turn({"lock", "event"}) /\ at' = at
        /\ context' = [context EXCEPT !.graph = pop(@, top(@))]
    BY <1>2 DEF PopNull
  <2>2. context' = [context EXCEPT !.graph = pop(context.graph, top(context.graph))]
    BY <2>1
  <2>3. Good(context', "next", waiting, visited, asked, read) /\ at = "next"
    BY <2>1, <2>2, TurnFacts, PopNullGood
  <2> QED BY <2>1, <2>3, <1>1 DEF GoodNow
<1>3. CASE RunTask
  <2> DEFINE t == First
  <2>1. Turn({"task"}) /\ at' = at
    BY <1>3 DEF RunTask
  <2>2. /\ Good(context, "next", waiting, visited, asked, read) /\ at = "next"
        /\ ~empty(context.graph)
        /\ t = ValueOf(context.graph, top(context.graph)) /\ t.kind = "task"
    BY <2>1, TurnFacts
  <2>3. context' = [context EXCEPT
           !.node[t.name] = IF t.id \in context.factMap THEN Bound(t.id) ELSE @,
           !.unlockSet = @ \cup {t.lock},
           !.graph = pop(@, top(@))]
    BY <1>3 DEF RunTask
  <2> HIDE DEF t
  <2>4. context' = [context EXCEPT
           !.node[t.name] = IF t.id \in context.factMap THEN Bound(t.id) ELSE context.node[t.name],
           !.unlockSet = context.unlockSet \cup {t.lock},
           !.graph = pop(context.graph, top(context.graph))]
    BY <2>3
  <2>5. Good(context', "next", waiting, visited, asked, read)
    BY <2>2, <2>4, RunTaskGood
  <2> QED BY <2>1, <2>2, <2>5, <1>1 DEF GoodNow
<1>4. CASE BeginBind
  <2>1. Turn({"bind"}) /\ at' = "bind" /\ context' = context
    BY <1>4 DEF BeginBind
  <2>2. Good(context, "bind", waiting, visited, asked, read)
    BY <2>1, TurnFacts, BeginBindGood
  <2> QED BY <2>1, <2>2, <1>1 DEF GoodNow
<1>5. QED
  BY <1>2, <1>3, <1>4

(* EndBind and EndCheck. *)
LEMMA EndsGood ==
  ASSUME GoodNow, EndBind \/ EndCheck
  PROVE  GoodNow'
<1>1. waiting' = waiting /\ visited' = visited /\ asked' = asked /\ read' = read /\ at' = "next"
  BY DEF EndBind, EndCheck
<1>2. CASE EndBind
  <2>1. /\ \A n \in Names : visited[n] > 0 \/ context.node[n].status = "BOUND"
        /\ context' = [context EXCEPT !.graph = pop(context.graph, Task(context.graph, "bind"))]
    BY <1>2 DEF EndBind
  <2>2. Good(context, "bind", waiting, visited, asked, read)
    BY <1>2 DEF EndBind, GoodNow
  <2>3. Good(context', "next", waiting, visited, asked, read)
    BY <2>1, <2>2, EndBindGood
  <2> QED BY <2>3, <1>1 DEF GoodNow
<1>3. CASE EndCheck
  <2>1. context' = [context EXCEPT !.graph = pop(context.graph, Task(context.graph, "check"))]
    BY <1>3 DEF EndCheck
  <2>2. Good(context, "check", waiting, visited, asked, read)
    BY <1>3 DEF EndCheck, GoodNow
  <2>3. Good(context', "next", waiting, visited, asked, read)
    BY <2>1, <2>2, EndCheckGood
  <2> QED BY <2>3, <1>1 DEF GoodNow
<1>4. QED
  BY <1>2, <1>3

(* ResumeCheck does not throw in a good state. *)
LEMMA ResumesGood ==
  ASSUME GoodNow, ResumeCheck
  PROVE  /\ GoodNow' /\ context' = context
         /\ read' = read \cup ({waiting} \ {None})
         /\ waiting = None \/ (waiting \in Names /\ Is(context, waiting, "BOUND"))
<1>1. Turn({"check"}) /\ context' = context /\ visited' = visited /\ asked' = asked
  BY DEF ResumeCheck
<1>2. /\ Good(context, "next", waiting, visited, asked, read) /\ ~empty(context.graph)
      /\ ValueOf(context.graph, top(context.graph)).kind = "check"
  BY <1>1, TurnFacts
<1>3. /\ waiting = None \/ (waiting \in Names /\ Is(context, waiting, "BOUND"))
      /\ Good(context, "check", None, visited, asked, read \cup ({waiting} \ {None}))
  BY <1>2, ResumeCheckGood
<1>4. at' = "check" /\ waiting' = None /\ read' = read \cup ({waiting} \ {None})
  BY <1>3 DEF ResumeCheck, Is
<1>5. QED
  BY <1>1, <1>3, <1>4 DEF GoodNow

(* Read. *)
LEMMA ReadsGood ==
  ASSUME GoodNow, NEW n \in Names, Read(n)
  PROVE  IInv'
<1>1. Good(context, "check", waiting, visited, asked, read) /\ visited' = visited /\ asked' = asked
  BY DEF Read, GoodNow
<1>2. CASE context.node[n].status = "BOUND"
  <2>1. read' = read \cup {n} /\ context' = context /\ at' = at /\ waiting' = waiting /\ at = "check"
    BY <1>2 DEF Read
  <2>2. Good(context, "check", waiting, visited, asked, read \cup {n})
    BY <1>1, <1>2, ReadBoundGood
  <2> QED BY <2>1, <2>2, <1>1 DEF GoodNow, IInv
<1>3. CASE context.node[n].status # "BOUND"
  <2> DEFINE e == vIndexOrLock(context, n)
  <2>1. /\ context' = [e EXCEPT !.graph = attach(@, top(@), e.node[n].lock)]
        /\ waiting' = n /\ at' = "next" /\ read' = read
    BY <1>3 DEF Read
  <2> HIDE DEF e
  <2>2. context' = [e EXCEPT !.graph = attach(e.graph, top(e.graph), e.node[n].lock)]
    BY <2>1
  <2>3. ~Is(context, n, "BOUND")
    BY <1>3 DEF Is
  <2>4. Good(context', "next", n, visited, asked, read) \/ Broken(context', "next", n, asked)
    BY <2>2, <2>3, <1>1, ReadGood DEF e
  <2> QED BY <2>1, <2>4, <1>1 DEF GoodNow, BrokenNow, IInv
<1>4. QED
  BY <1>2, <1>3

(* In a broken state only check can run, and it throws. *)
LEMMA BrokenStays ==
  ASSUME BrokenNow, [Next]_vars
  PROVE  BrokenNow' /\ UNCHANGED <<context, read>>
<1>1. at \in {"next", "thrown"} /\ waiting \in Names /\ context.node[waiting].status = "LOCKED"
  BY DEF BrokenNow, Broken, UnresolvedIn, Is
<1>2. at = "next" => ~empty(context.graph) /\ First.kind = "check"
  BY DEF BrokenNow, Broken, First, ValueOf
<1>3. waiting # None
  BY <1>1, NoneAssumption
<1>4. CASE ResumeCheck
  <2>1. at' = "thrown" /\ UNCHANGED <<context, waiting, asked, read>>
    BY <1>1, <1>3, <1>4 DEF ResumeCheck
  <2> QED BY <2>1 DEF BrokenNow, Broken
<1>5. CASE UNCHANGED vars
  BY <1>5 DEF vars, BrokenNow
<1>6. CASE Over
  BY <1>6 DEF Over, vars, BrokenNow
<1>7. ~RegisterBundle /\ ~Analyze
  BY <1>1 DEF RegisterBundle, Analyze, Begin
<1>8. \A n : ~VisitInterface(n) /\ ~VisitBundle(n) /\ ~Read(n) /\ ~Define(n)
  BY <1>1 DEF VisitInterface, VisitBundle, Read, Define
<1>9. ~EndInterface /\ ~Flush /\ ~EndBind /\ ~EndCheck
  BY <1>1 DEF EndInterface, Flush, EndBind, EndCheck
<1>10. ~EndRun /\ ~PopNull /\ ~RunTask /\ ~BeginBind
  BY <1>2 DEF EndRun, PopNull, RunTask, BeginBind, Turn
<1>11. QED
  BY <1>4, <1>5, <1>6, <1>7, <1>8, <1>9, <1>10 DEF Next, Step

(* A state stays good, or check is about to throw. *)
LEMMA StepInv ==
  ASSUME IInv, [Next]_vars
  PROVE  IInv'
<1>1. CASE BrokenNow
  BY <1>1, BrokenStays DEF IInv
<1>2. CASE GoodNow
  <2>1. CASE RegisterBundle \/ Analyze
    BY <2>1, <1>2, BeginsGood DEF IInv
  <2>2. ASSUME NEW n \in Names, VisitInterface(n) \/ VisitBundle(n) PROVE IInv'
    <3>1. PICK ids : Visits(n, ids)
      BY <2>2, <1>2, VisitsUnread
    <3> QED BY <3>1, <1>2, VisitsGood DEF IInv
  <2>3. ASSUME NEW n \in Names, Read(n) PROVE IInv'
    BY <2>3, <1>2, ReadsGood
  <2>4. ASSUME NEW id \in Ids, Define(id) PROVE IInv'
    BY <2>4, <1>2, DefinesGood DEF IInv
  <2>5. CASE EndInterface \/ Flush \/ EndRun
    BY <2>5, <1>2, RunsGood DEF IInv
  <2>6. CASE PopNull \/ RunTask \/ BeginBind
    BY <2>6, <1>2, TurnsGood DEF IInv
  <2>7. CASE EndBind \/ EndCheck
    BY <2>7, <1>2, EndsGood DEF IInv
  <2>8. CASE ResumeCheck
    BY <2>8, <1>2, ResumesGood DEF IInv
  <2>9. CASE UNCHANGED vars \/ Over
    BY <2>9, <1>2 DEF vars, Over, GoodNow, IInv
  <2> QED BY <2>1, <2>2, <2>3, <2>4, <2>5, <2>6, <2>7, <2>8, <2>9 DEF Next, Step
<1>3. QED
  BY <1>1, <1>2 DEF IInv

-----------------------------------------------------------------------------
(* Every reachable state of the context is good, or check waits for a name *)
(* that is not resolved and throws at its next turn.                       *)
THEOREM Invariance == Spec => []IInv
<1>1. Init => IInv
  BY InitGood DEF Init, IInv, GoodNow
<1>2. IInv /\ [Next]_vars => IInv'
  BY StepInv
<1>3. QED
  BY <1>1, <1>2, PTL DEF Spec

(* The lists of the scheduler's graph hold what they are named for, unless  *)
(* check is about to throw.                                                *)
THEOREM ListsAlwaysAgree == Spec => []ListsAgree
<1>1. IInv => ListsAgree
  <2>1. CASE GoodNow
    <3>1. GraphOK(Values, context.graph)
      BY <2>1 DEF GoodNow, Good, Core
    <3> QED BY <3>1, OKIsWellFormed DEF ListsAgree
  <2>2. CASE BrokenNow
    BY <2>2, NoneAssumption DEF BrokenNow, Broken, UnresolvedIn, Is, Unresolved, ListsAgree
  <2> QED BY <2>1, <2>2 DEF IInv
<1>2. QED
  BY <1>1, Invariance, PTL

(* The cells the context holds are those it was given, though the pool     *)
(* makes new nodes of erased ones.                                         *)
THEOREM HeldCellsAlwaysTheirs == Spec => []HeldCellsAreTheirs
<1>1. IInv => TopIsCheck
  <2>1. GoodNow => TopIsCheck
    BY DEF GoodNow, Good, AtOK, Nodes, TopIsCheck, First, ValueOf
  <2>2. BrokenNow => TopIsCheck
    BY DEF BrokenNow, Broken, TopIsCheck
  <2> QED BY <2>1, <2>2 DEF IInv
<1>2. IInv => UnlockedIsBound
  <2>1. GoodNow => UnlockedIsBound
    BY DEF GoodNow, Good, Core, UnlocksOK, UnlockedIsBound, ValueOf, Is
  <2>2. BrokenNow => UnlockedIsBound
    BY DEF BrokenNow, Broken, UnlockedIsBound, ValueOf, Is
  <2> QED BY <2>1, <2>2 DEF IInv
<1>3. IInv => EventsAreLive
  <2>1. BrokenNow => EventsAreLive
    BY DEF BrokenNow, Broken, EventsAreLive
  <2>2. ASSUME GoodNow PROVE EventsAreLive
    <3> SUFFICES ASSUME at \in {"interface", "bind"}, NEW id \in DOMAIN context.eventMap,
                        NEW e, e = context.eventMap[id]
                 PROVE  /\ e \in Live(context.graph)
                        /\ context.graph.node[e].value = Null("event", id)
                        /\ ~isPending(context.graph, e)
      BY DEF EventsAreLive
    <3>1. Fresh(context) /\ GraphOK(Values, context.graph)
      BY <2>2 DEF GoodNow, Good, AtOK, Core
    <3>2. /\ e \in Live(context.graph) /\ Waits(context.graph, e) # {}
          /\ ValueOf(context.graph, e) = Null("event", id)
      BY <3>1 DEF Fresh
    <3>3. ~isPending(context.graph, e)
      BY <3>1, <3>2, WaitsLive
    <3> QED BY <3>2, <3>3 DEF ValueOf
  <2> QED BY <2>1, <2>2 DEF IInv
<1>4. IInv => HeldCellsAreTheirs
  BY <1>1, <1>2, <1>3 DEF HeldCellsAreTheirs
<1>5. QED
  BY <1>4, Invariance, PTL

(* When the compiler gives up there is a name none of whose candidates is  *)
(* defined.                                                                *)
THEOREM FailsRightly == Spec => []FailsOnlyUnresolved
<1>1. \A n : Unresolved(n) <=> UnresolvedIn(context, asked, n)
  BY DEF Unresolved, UnresolvedIn, Is
<1>2. IInv => FailsOnlyUnresolved
  <2>1. GoodNow => FailsOnlyUnresolved
    BY <1>1 DEF GoodNow, Good, AtOK, FailsOnlyUnresolved
  <2>2. BrokenNow => FailsOnlyUnresolved
    BY <1>1 DEF BrokenNow, Broken, FailsOnlyUnresolved
  <2> QED BY <2>1, <2>2 DEF IInv
<1>3. QED
  BY <1>2, Invariance, PTL

(* A run that ends leaves no node, no event and no locked name behind.      *)
THEOREM RunsEndClean == Spec => []EndsClean
<1>1. IInv => EndsClean
  <2>1. ASSUME GoodNow, at = "idle" PROVE EndsClean
    <3>1. /\ context.graph = EmptyGraph /\ context.unlockSet = {} /\ context.eventMap = <<>>
          /\ NamesOK(context)
      BY <2>1 DEF GoodNow, Good, AtOK, Core
    <3>2. Live(context.graph) = {}
      BY <3>1, EmptyOK
    <3>3. \A n \in Names : context.node[n].status # "LOCKED"
      BY <3>1, <3>2 DEF NamesOK, Is
    <3> QED BY <3>1, <3>2, <3>3 DEF EndsClean
  <2>2. BrokenNow => EndsClean
    BY DEF BrokenNow, Broken, EndsClean
  <2> QED BY <2>1, <2>2 DEF IInv, EndsClean
<1>2. QED
  BY <1>1, Invariance, PTL

-----------------------------------------------------------------------------
(* The context implements Resolution. *)

BoundNow == [n \in Names |-> context.node[n].vIndex]

(* Only the name n may be bound. *)
SameBut(n) ==
  /\ context.node \in [Names -> NodeSet] /\ context'.node \in [Names -> NodeSet]
  /\ \A m \in Names \ {n} : context'.node[m] = context.node[m]
  /\ context'.factMap = context.factMap

(* A name is bound to a known fact, or is as it was. *)
LEMMA BindsOrStays ==
  ASSUME NEW n \in Names, n \notin read, SameBut(n), read' = read,
         \/ context'.node[n].vIndex = context.node[n].vIndex
         \/ context'.node[n].vIndex \in context.factMap
  PROVE  [Promise!Next]_(Promise!vars)
<1>1. CASE context'.node[n].vIndex = context.node[n].vIndex
  <2>1. BoundNow' = BoundNow
    BY <1>1 DEF BoundNow, SameBut
  <2> QED BY <2>1 DEF Promise!vars, BoundNow, SameBut
<1>2. CASE context'.node[n].vIndex \in context.factMap
  <2> DEFINE id == context'.node[n].vIndex
  <2>1. BoundNow' = [BoundNow EXCEPT ![n] = id]
    BY DEF BoundNow, SameBut
  <2>2. Promise!Bind(n)
    BY <1>2, <2>1 DEF Promise!Bind, BoundNow, SameBut
  <2> QED BY <2>2 DEF Promise!Next
<1>3. QED
  BY <1>1, <1>2

(* Nothing that Resolution knows of changes. *)
LEMMA NothingBound ==
  ASSUME context'.node = context.node, context'.factMap = context.factMap, read' = read
  PROVE  [Promise!Next]_(Promise!vars)
BY DEF Promise!vars

(* A name that is bound is read. *)
LEMMA ReadsBound ==
  ASSUME GoodNow, NEW n \in Names, Is(context, n, "BOUND"), context' = context,
         read' = read \cup {n}
  PROVE  [Promise!Next]_(Promise!vars)
<1>1. context.node[n] \in NodeSet
  BY DEF GoodNow, Good, Core, ContextSet
<1>2. context.node[n].vIndex \in Ids
  BY <1>1, NodeFacts DEF Is
<1>3. Promise!Read(n)
  BY <1>2, NoneAssumption DEF Promise!Read
<1>4. QED
  BY <1>3 DEF Promise!Next

(* A new bundle: the literals are the same nodes. *)
LEMMA BeginsRestart ==
  ASSUME GoodNow, RegisterBundle \/ Analyze
  PROVE  [Promise!Next]_(Promise!vars)
<1>1. context \in ContextSet /\ context.node \in [Names -> NodeSet]
  BY DEF GoodNow, Good, Core, ContextSet
<1>2. context'.node = NewNodes /\ context'.factMap = context.factMap
  BY <1>1 DEF RegisterBundle, Analyze, ContextSet
<1>3. read' = {}
  BY DEF RegisterBundle, Analyze, Begin
<1>4. BoundNow' = [n \in Names |-> IF n \in Literals THEN BoundNow[n] ELSE None]
  BY <1>2 DEF BoundNow, NewNodes, Asted
<1>5. Promise!Restart
  <2>1. Literals \in SUBSET Names
    BY LiteralsAssumption
  <2> QED BY <2>1, <1>2, <1>3, <1>4 DEF Promise!Restart, BoundNow
<1>6. QED
  BY <1>5 DEF Promise!Next

(* VisitInterface and VisitBundle. *)
LEMMA VisitsBind ==
  ASSUME GoodNow, NEW n \in Names, NEW ids, Visits(n, ids)
  PROVE  [Promise!Next]_(Promise!vars)
<1>1. /\ context' = makeTasks(context, n, ids) /\ read' = read /\ n \notin read
      /\ ids \in Seq(Ids) /\ at \in {"interface", "bind"}
  BY DEF Visits, Visit
<1>2. Core(context) /\ Fresh(context)
  BY <1>1 DEF GoodNow, Good, AtOK
<1>3. Visited(context, context', n, ToSet(ids))
  BY <1>1, <1>2, MakeTasksDo
<1>4. Core(context') /\ VisitStep(context, context', n)
  BY <1>3 DEF Visited
<1>5. SameBut(n)
  BY <1>2, <1>4 DEF Core, ContextSet, VisitStep, SameBut
<1>6. \/ context'.node[n].vIndex = context.node[n].vIndex
      \/ context'.node[n].vIndex \in context.factMap
  BY <1>4 DEF VisitStep
<1>7. QED
  BY <1>1, <1>5, <1>6, BindsOrStays

(* Define. *)
LEMMA DefineNotifies ==
  ASSUME GoodNow, NEW id \in Ids, Define(id)
  PROVE  [Promise!Next]_(Promise!vars)
<1>1. context \in ContextSet
  BY DEF GoodNow, Good, Core
<1>2. context'.node = context.node /\ context'.factMap = context.factMap \cup {id} /\ read' = read
  BY <1>1 DEF Define, notifyEvent, ContextSet
<1>3. Promise!Notify(id)
  BY <1>2 DEF Promise!Notify
<1>4. QED
  BY <1>3 DEF Promise!Next

(* RunTask: what it binds was not read. *)
LEMMA RunTaskBinds ==
  ASSUME GoodNow, RunTask
  PROVE  [Promise!Next]_(Promise!vars)
<1> DEFINE t == First
           x == top(context.graph)
<1>1. Turn({"task"}) /\ read' = read
  BY DEF RunTask
<1>2. /\ Good(context, "next", waiting, visited, asked, read) /\ at = "next"
      /\ ~empty(context.graph) /\ t = ValueOf(context.graph, x) /\ t.kind = "task"
  BY <1>1, TurnFacts
<1>3. context' = [context EXCEPT
         !.node[t.name] = IF t.id \in context.factMap THEN Bound(t.id) ELSE @,
         !.unlockSet = @ \cup {t.lock},
         !.graph = pop(@, top(@))]
  BY DEF RunTask
<1> HIDE DEF t
<1>4. Core(context) /\ context \in ContextSet /\ context.node \in [Names -> NodeSet]
  BY DEF GoodNow, Good, Core, ContextSet
<1>5. x \in Live(context.graph) /\ t \in Values
  BY <1>2, <1>4, TopWaits
<1>6. t.name \in Names /\ t.id \in Ids /\ x \in Nodes(context.graph, "task")
  BY <1>2, <1>5, ValueFacts DEF Nodes
<1>7. Bound(t.id) \in NodeSet /\ Bound(t.id).vIndex = t.id
  BY <1>6, NodeStates
<1>8. /\ context'.factMap = context.factMap
      /\ context'.node = [context.node EXCEPT ![t.name] =
                            IF t.id \in context.factMap THEN Bound(t.id) ELSE context.node[t.name]]
  BY <1>3, <1>4 DEF ContextSet
<1>9. CASE t.id \in context.factMap
  <2>1. t.name \notin read
    <3>1. x \in Known(context)
      BY <1>2, <1>6, <1>9 DEF Known
    <3> QED BY <3>1, <1>2 DEF Good, ReadOK
  <2>2. SameBut(t.name) /\ context'.node[t.name].vIndex \in context.factMap
    BY <1>4, <1>6, <1>7, <1>8, <1>9 DEF SameBut
  <2> QED BY <2>1, <2>2, <1>1, <1>6, BindsOrStays
<1>10. CASE t.id \notin context.factMap
  <2>1. context'.node = context.node
    BY <1>4, <1>6, <1>8, <1>10
  <2> QED BY <2>1, <1>1, <1>8, NothingBound
<1>11. QED
  BY <1>9, <1>10

(* The steps that only run the scheduler. *)
LEMMA OthersBindNothing ==
  ASSUME GoodNow, \/ EndInterface \/ Flush \/ EndRun \/ PopNull \/ BeginBind \/ EndBind \/ EndCheck
  PROVE  [Promise!Next]_(Promise!vars)
<1>1. context \in ContextSet
  BY DEF GoodNow, Good, Core
<1>2. read' = read
  BY DEF EndInterface, Flush, EndRun, PopNull, BeginBind, EndBind, EndCheck
<1>3. context'.node = context.node /\ context'.factMap = context.factMap
  <2>1. CASE EndInterface \/ BeginBind
    BY <2>1 DEF EndInterface, BeginBind
  <2>2. CASE Flush
    BY <2>2, <1>1 DEF Flush, ContextSet
  <2>3. CASE EndRun
    BY <2>3, <1>1 DEF EndRun, ContextSet
  <2>4. CASE PopNull
    BY <2>4, <1>1 DEF PopNull, ContextSet
  <2>5. CASE EndBind \/ EndCheck
    BY <2>5, <1>1 DEF EndBind, EndCheck, ContextSet
  <2> QED BY <2>1, <2>2, <2>3, <2>4, <2>5
<1>4. QED
  BY <1>2, <1>3, NothingBound

(* Read: a name that is locked is not bound. *)
LEMMA ReadReads ==
  ASSUME GoodNow, NEW n \in Names, Read(n)
  PROVE  [Promise!Next]_(Promise!vars)
<1>1. CASE context.node[n].status = "BOUND"
  <2>1. read' = read \cup {n} /\ context' = context /\ Is(context, n, "BOUND")
    BY <1>1 DEF Read, Is
  <2> QED BY <2>1, ReadsBound
<1>2. CASE context.node[n].status # "BOUND"
  <2> DEFINE e == vIndexOrLock(context, n)
  <2>1. /\ context' = [e EXCEPT !.graph = attach(@, top(@), e.node[n].lock)]
        /\ read' = read /\ n \notin read /\ at = "check"
    BY <1>2 DEF Read
  <2>2. Core(context) /\ context \in ContextSet
    BY DEF GoodNow, Good, Core
  <2>3. Is(context, n, "ASTED") => HeldLive(context)
    BY <2>1, CheckHolds DEF GoodNow
  <2>4. NameLocked(context, e, n)
    BY <2>2, <2>3, LockNameDoes
  <2> HIDE DEF e
  <2>5. e \in ContextSet /\ VisitStep(context, e, n)
    BY <2>4 DEF NameLocked, Core
  <2>6. context'.node = e.node /\ context'.factMap = e.factMap
    BY <2>1, <2>5 DEF ContextSet
  <2>7. SameBut(n)
    BY <2>2, <2>5, <2>6 DEF SameBut, ContextSet, VisitStep
  <2>8. \/ context'.node[n].vIndex = context.node[n].vIndex
        \/ context'.node[n].vIndex \in context.factMap
    BY <2>5, <2>6 DEF VisitStep
  <2> QED BY <2>1, <2>7, <2>8, BindsOrStays
<1>3. QED
  BY <1>1, <1>2

(* Each step is one of Resolution, or changes nothing of it. *)
LEMMA StepResolves ==
  ASSUME IInv, [Next]_vars
  PROVE  [Promise!Next]_(Promise!vars)
<1>1. CASE BrokenNow
  <2>1. context' = context /\ read' = read
    BY <1>1, BrokenStays
  <2> QED BY <2>1, NothingBound
<1>2. CASE GoodNow
  <2>1. CASE RegisterBundle \/ Analyze
    BY <2>1, <1>2, BeginsRestart
  <2>2. ASSUME NEW n \in Names, VisitInterface(n) \/ VisitBundle(n)
        PROVE  [Promise!Next]_(Promise!vars)
    <3>1. PICK ids : Visits(n, ids)
      BY <2>2, <1>2, VisitsUnread
    <3> QED BY <3>1, <1>2, VisitsBind
  <2>3. ASSUME NEW n \in Names, Read(n) PROVE [Promise!Next]_(Promise!vars)
    BY <2>3, <1>2, ReadReads
  <2>4. ASSUME NEW id \in Ids, Define(id) PROVE [Promise!Next]_(Promise!vars)
    BY <2>4, <1>2, DefineNotifies
  <2>5. CASE \/ EndInterface \/ Flush \/ EndRun \/ PopNull \/ BeginBind \/ EndBind \/ EndCheck
    BY <2>5, <1>2, OthersBindNothing
  <2>6. CASE RunTask
    BY <2>6, <1>2, RunTaskBinds
  <2>7. CASE ResumeCheck
    <3>1. /\ context' = context /\ read' = read \cup ({waiting} \ {None})
          /\ waiting = None \/ (waiting \in Names /\ Is(context, waiting, "BOUND"))
      BY <2>7, <1>2, ResumesGood
    <3>2. CASE waiting = None
      <4>1. read' = read
        BY <3>1, <3>2
      <4> QED BY <3>1, <4>1, NothingBound
    <3>3. CASE waiting # None
      <4>1. waiting \in Names /\ read' = read \cup {waiting}
        BY <3>1, <3>3
      <4> QED BY <3>1, <3>3, <4>1, <1>2, ReadsBound
    <3> QED BY <3>2, <3>3
  <2>8. CASE UNCHANGED vars \/ Over
    <3>1. context' = context /\ read' = read
      BY <2>8 DEF vars, Over
    <3> QED BY <3>1, NothingBound
  <2> QED BY <2>1, <2>2, <2>3, <2>4, <2>5, <2>6, <2>7, <2>8 DEF Next, Step
<1>3. QED
  BY <1>1, <1>2 DEF IInv

(* vIndex only returns names that are bound to a fact that is known, and   *)
(* what check has read of a name is never bound again.                     *)
THEOREM Implements == Spec => ImplementsResolution
<1>1. Init => Promise!Init
  BY DEF Init, NewContext, Asted, Promise!Init
<1>2. IInv /\ [Next]_vars => [Promise!Next]_(Promise!vars)
  BY StepResolves
<1>3. QED
  BY <1>1, <1>2, Invariance, PTL DEF Spec, ImplementsResolution, Promise!Spec

=============================================================================
