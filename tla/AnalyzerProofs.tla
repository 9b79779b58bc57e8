--------------------------- MODULE AnalyzerProofs ---------------------------
(***************************************************************************)
(* What the tasks of sem::Analyzer may count on, for any number of threads, *)
(* bundles, modules, imports and make requests: the views a worker imports *)
(* are there, and what they export is bound to the right tree.             *)
(***************************************************************************)
EXTENDS Analyzer, SequenceTheorems, TLAPS

InBundle(b) == ToSet(instance.bundles[b])

(* One thread runs the tasks one after the other; with more of them a       *)
(* bundle must import from the bundles before it only.                     *)
OneThread == \A v, w \in instance.pool : v = w
Ordered ==
  \A k \in 1 .. Bundles : \A m \in InBundle(k) : \A j \in ToSet(instance.imports[m]) :
    \E b \in IF OneThread THEN 1 .. Bundles ELSE 1 .. k - 1 : j \in InBundle(b)

(* A module is in one bundle. *)
Partitioned ==
  \A a, b \in 1 .. Bundles : a # b => InBundle(a) \cap InBundle(b) = {}

TypeOK ==
  /\ instance \in Instances
  /\ phase \in {"idle", "open"}
  /\ job \in 0 .. Makes
  /\ phase = "open" => job > 0
  /\ begun \in 0 .. Bundles + 1
  /\ finished \subseteq 0 .. begun - 1
  /\ task \in [Workers -> {Idle} \cup 0 .. Bundles]
  /\ turn \in [Workers -> Nat]
  /\ visited \in [Workers -> Nat]
  /\ interfaceAtomCount \in 0 .. Bundles
  /\ facts \in [Workers -> [Definitions -> {Waiting} \cup Trees]]
  /\ bound \in [Modules -> [Definitions -> {Unvisited, Waiting} \cup Trees]]

(* A task that is run was begun and is not over; the others that were begun *)
(* are over; no two workers run the same one.                              *)
TasksAgree ==
  /\ \A w \in Workers : task[w] # Idle =>
       /\ w \in instance.pool
       /\ phase = "open"
       /\ task[w] \in (0 .. begun - 1) \ finished
  /\ \A v, w \in Workers : task[v] = task[w] /\ task[v] # Idle => v = w
  /\ phase = "open" =>
       \A i \in (0 .. begun - 1) \ finished : \E w \in Workers : task[w] = i

(* The place of a worker is in what its task visits, and at the end of a    *)
(* turn in the last one only.                                              *)
PlaceOK(w) ==
  /\ turn[w] \in (IF task[w] = 0 THEN 1 ELSE 0) .. Turns(task[w])
  /\ visited[w] \in 0 .. Len(ToVisit(w))
  /\ TurnIsOver(w) => turn[w] = Turns(task[w])

PlacesOK == \A w \in Workers : task[w] # Idle => PlaceOK(w)

Registered(b) == InBundle(b) \subseteq asSimpleMap \cap identified

(* The bundles that are counted are registered; the worker that registers   *)
(* is at the next one, and has emplaced and identified what it went by.    *)
Counts ==
  /\ begun = 0 => interfaceAtomCount = 0
  /\ 0 \in finished => interfaceAtomCount = Bundles
  /\ \A b \in 1 .. interfaceAtomCount : Registered(b)
  /\ \A w \in Workers : task[w] = 0 =>
       /\ interfaceAtomCount = IF TurnIsOver(w) THEN turn[w] ELSE turn[w] - 1
       /\ \A i \in DOMAIN instance.bundles[turn[w]] :
            i <= visited[w] => instance.bundles[turn[w]][i] \in asSimpleMap
       /\ visited[w] > Len(instance.bundles[turn[w]]) => InBundle(turn[w]) \subseteq identified

(* Who is past its wait waited for the bundles before its own. *)
Waited ==
  \A w \in Workers :
    task[w] > 0 /\ (turn[w] > 0 \/ visited[w] > 0) => interfaceAtomCount >= task[w] - 1

IInv == TypeOK /\ TasksAgree /\ PlacesOK /\ Counts /\ Waited

(* The uses of what other modules export are bound as ExportsBound says. *)
Settled(m, b) ==
  \A d \in Uses(m) : d[2] = "exported" => bound[m][d] \in {Interface, b}

Current(w) == instance.bundles[task[w]][turn[w]]
Imported(w) == instance.imports[Current(w)]

(* What its module has imported so far are facts of the interface or of its *)
(* own bundle, and the modules that are defined are settled.               *)
ImportsKnown(w) ==
  turn[w] > 0 => \A i \in DOMAIN Imported(w) : i <= visited[w] =>
    facts[w][<<Imported(w)[i], "exported">>] \in {Interface, task[w]}
TurnsSettled(w) ==
  \A i \in 1 .. turn[w] : i < turn[w] \/ visited[w] > Len(Imported(w)) =>
    Settled(instance.bundles[task[w]][i], task[w])
FinishedSettled == \A b \in finished \ {0} : \A m \in InBundle(b) : Settled(m, b)

Settles ==
  /\ \A w \in Workers : task[w] > 0 => ImportsKnown(w) /\ TurnsSettled(w)
  /\ FinishedSettled

-----------------------------------------------------------------------------
(* What an agenda holds. *)

LEMMA InstanceFacts ==
  ASSUME instance \in Instances
  PROVE  /\ Bundles \in Nat /\ Bundles > 0 /\ Makes \in Nat
         /\ \A b \in 1 .. Bundles : instance.bundles[b] \in Seq(Modules)
         /\ \A m \in Modules : instance.imports[m] \in Seq(Modules)
BY BundlesAssumption, InstancesAssumption

LEMMA LengthOfConcat ==
  ASSUME NEW V, NEW s \in Seq(V), NEW t \in Seq(V)
  PROVE  Len(s \o t) = Len(s) + Len(t)
OBVIOUS

LEMMA ConcatIsSequence ==
  ASSUME NEW V, NEW s \in Seq(V), NEW t \in Seq(V) PROVE s \o t \in Seq(V)
OBVIOUS

LEMMA FrontOfConcat ==
  ASSUME NEW V, NEW s \in Seq(V), NEW t \in Seq(V), NEW i \in 1 .. Len(s)
  PROVE  (s \o t)[i] = s[i]
OBVIOUS

LEMMA BackOfConcat ==
  ASSUME NEW V, NEW s \in Seq(V), NEW t \in Seq(V), NEW i \in 1 .. Len(t)
  PROVE  (s \o t)[Len(s) + i] = t[i]
OBVIOUS

LEMMA TwoParts ==
  ASSUME NEW V, NEW s \in Seq(V), NEW x \in V, NEW y \in V
  PROVE  /\ Len(s \o <<x, y>>) = Len(s) + 2
         /\ \A i \in 1 .. Len(s) : (s \o <<x, y>>)[i] = s[i]
         /\ (s \o <<x, y>>)[Len(s) + 1] = x
         /\ (s \o <<x, y>>)[Len(s) + 2] = y
<1> DEFINE t == <<x, y>>
<1>1. t \in Seq(V) /\ Len(t) = 2 /\ t[1] = x /\ t[2] = y
  OBVIOUS
<1> HIDE DEF t
<1>2. Len(s \o t) = Len(s) + 2
  BY <1>1, LengthOfConcat
<1>3. \A i \in 1 .. Len(s) : (s \o t)[i] = s[i]
  BY <1>1, FrontOfConcat
<1>4. 1 \in 1 .. Len(t) /\ 2 \in 1 .. Len(t)
  BY <1>1
<1>5. ASSUME NEW i \in 1 .. Len(t) PROVE (s \o t)[Len(s) + i] = t[i]
  <2>1. t \in Seq(V)
    BY <1>1
  <2>2. QED
    BY <2>1, BackOfConcat
<1>6. (s \o t)[Len(s) + 1] = t[1] /\ (s \o t)[Len(s) + 2] = t[2]
  BY <1>4, <1>5
<1>7. QED
  BY <1>1, <1>2, <1>3, <1>5, <1>6 DEF t

LEMMA OneMore ==
  ASSUME NEW V, NEW s \in Seq(V), NEW x \in V
  PROVE  /\ s \o <<x>> \in Seq(V)
         /\ Len(s \o <<x>>) = Len(s) + 1
         /\ \A i \in 1 .. Len(s) : (s \o <<x>>)[i] = s[i]
         /\ (s \o <<x>>)[Len(s) + 1] = x
<1> DEFINE t == <<x>>
<1>1. t \in Seq(V) /\ Len(t) = 1 /\ t[1] = x
  OBVIOUS
<1> HIDE DEF t
<1>2. s \o t \in Seq(V)
  BY <1>1, ConcatIsSequence
<1>3. Len(s \o t) = Len(s) + 1
  BY <1>1, LengthOfConcat
<1>4. \A i \in 1 .. Len(s) : (s \o t)[i] = s[i]
  BY <1>1, FrontOfConcat
<1>5. 1 \in 1 .. Len(t)
  BY <1>1
<1>6. (s \o t)[Len(s) + 1] = t[1]
  BY <1>1, <1>5, BackOfConcat
<1>7. QED
  BY <1>1, <1>2, <1>3, <1>4, <1>6 DEF t

Size(b) == Len(instance.bundles[b])
Degree(m) == Len(instance.imports[m])

(* The modules of a bundle are emplaced one by one, then all identified. *)
LEMMA RegisterShape ==
  ASSUME instance \in Instances, NEW b \in 1 .. Bundles
  PROVE  /\ Size(b) \in Nat
         /\ Len(registerBundle(b)) = Size(b) + 2
         /\ \A i \in 1 .. Size(b) : registerBundle(b)[i] =
              Visit("emplace", instance.bundles[b][i], instance.bundles[b][i])
         /\ registerBundle(b)[Size(b) + 1] = Visit("identify", b, b)
         /\ registerBundle(b)[Size(b) + 2] = Visit("count", b, b)
<1> DEFINE s == instance.bundles[b]
           e == [i \in DOMAIN s |-> Visit("emplace", s[i], s[i])]
           x == Visit("identify", b, b)
           y == Visit("count", b, b)
           V == {Visit("emplace", m, m) : m \in Modules} \cup {x, y}
<1>1. s \in Seq(Modules) /\ Len(s) \in Nat /\ DOMAIN s = 1 .. Len(s)
  BY InstanceFacts
<1>2. e \in Seq(V) /\ Len(e) = Len(s)
  BY <1>1
<1>3. x \in V /\ y \in V
  OBVIOUS
<1>4. \A i \in 1 .. Len(s) : e[i] = Visit("emplace", s[i], s[i])
  BY <1>1
<1>5. registerBundle(b) = e \o <<x, y>>
  BY DEF registerBundle
<1> HIDE DEF e, x, y, V
<1>6. /\ Len(e \o <<x, y>>) = Len(e) + 2
      /\ \A i \in 1 .. Len(e) : (e \o <<x, y>>)[i] = e[i]
      /\ (e \o <<x, y>>)[Len(e) + 1] = x
      /\ (e \o <<x, y>>)[Len(e) + 2] = y
  BY <1>2, <1>3, TwoParts
<1>7. QED
  BY <1>1, <1>2, <1>4, <1>5, <1>6 DEF x, y, Size

(* A module is bound import by import, then its definitions are facts. *)
LEMMA BindShape ==
  ASSUME instance \in Instances, NEW m \in Modules
  PROVE  /\ Degree(m) \in Nat
         /\ Len(bind(m)) \in {Degree(m) + 1, Degree(m) + 3}
         /\ \A i \in 1 .. Degree(m) : bind(m)[i] = Visit("import", m, instance.imports[m][i])
         /\ bind(m)[Degree(m) + 1] = Visit("define", m, m)
         /\ Len(bind(m)) = Degree(m) + 3 => /\ bind(m)[Degree(m) + 2] = Visit("lock", m, m)
                                    /\ bind(m)[Degree(m) + 3] = Visit("unlock", m, m)
<1> DEFINE n == Degree(m)
           s == instance.imports[m]
           e == Imports(m)
           d == Visit("define", m, m)
           x == Visit("lock", m, m)
           y == Visit("unlock", m, m)
           V == {Visit("import", m, k) : k \in Modules} \cup {d, x, y}
<1>1. s \in Seq(Modules) /\ Len(s) \in Nat /\ DOMAIN s = 1 .. Len(s)
  BY InstanceFacts
<1>2. e \in Seq(V) /\ Len(e) = Len(s) /\ n = Len(s)
  BY <1>1 DEF Imports, Degree
<1>3. \A i \in 1 .. Len(s) : e[i] = Visit("import", m, s[i])
  BY <1>1 DEF Imports
<1>4. d \in V /\ x \in V /\ y \in V
  OBVIOUS
<1>5. bind(m) = (e \o <<d>>) \o Literals(m)
  BY DEF bind
<1>6. Literals(m) \in {<<>>, <<x, y>>}
  BY DEF Literals
<1> DEFINE f == e \o <<d>>
<1> HIDE DEF e, d, x, y, V, n
<1>7. /\ f \in Seq(V)
      /\ Len(f) = Len(e) + 1
      /\ \A i \in 1 .. Len(e) : f[i] = e[i]
      /\ f[Len(e) + 1] = d
  BY <1>2, <1>4, OneMore
<1>8. bind(m) = f \o Literals(m)
  BY <1>5
<1> HIDE DEF f
<1>9. CASE Literals(m) = <<>>
  <2>1. bind(m) = f
    BY <1>7, <1>8, <1>9
  <2>2. QED
    BY <1>1, <1>2, <1>3, <1>7, <2>1 DEF d, n
<1>10. CASE Literals(m) = <<x, y>>
  <2>1. /\ Len(f \o <<x, y>>) = Len(f) + 2
        /\ \A i \in 1 .. Len(f) : (f \o <<x, y>>)[i] = f[i]
        /\ (f \o <<x, y>>)[Len(f) + 1] = x
        /\ (f \o <<x, y>>)[Len(f) + 2] = y
    BY <1>4, <1>7, TwoParts
  <2>2. /\ Len(f) = n + 1 /\ Len(f) + 1 = n + 2 /\ Len(f) + 2 = n + 3
        /\ n \in Nat /\ n + 3 # n + 1
    BY <1>1, <1>2, <1>7
  <2>3. \A i \in 1 .. n : bind(m)[i] = Visit("import", m, s[i])
    BY <1>1, <1>2, <1>3, <1>7, <1>8, <1>10, <2>1, <2>2
  <2>4. bind(m)[n + 1] = d
    BY <1>1, <1>2, <1>7, <1>8, <1>10, <2>1, <2>2
  <2>5. Len(bind(m)) = n + 3 /\ bind(m)[n + 2] = x /\ bind(m)[n + 3] = y
    BY <1>8, <1>10, <2>1, <2>2
  <2>6. QED
    BY <2>2, <2>3, <2>4, <2>5 DEF d, x, y, n
<1>11. QED
  BY <1>6, <1>9, <1>10

LEMMA AgendaIsThere ==
  ASSUME instance \in Instances, NEW k \in 0 .. Bundles,
         NEW t \in (IF k = 0 THEN 1 ELSE 0) .. Turns(k)
  PROVE  Turns(k) \in Nat /\ Len(Agenda(k, t)) \in Nat /\ Len(Agenda(k, t)) > 0
<1>1. CASE k = 0
  <2>1. Turns(k) = Bundles /\ t \in 1 .. Bundles
    BY <1>1, InstanceFacts DEF Turns
  <2>2. Agenda(k, t) = registerBundle(t)
    BY <1>1 DEF Agenda
  <2>3. QED
    BY <2>1, <2>2, InstanceFacts, RegisterShape
<1>2. CASE k # 0
  <2>1. k \in 1 .. Bundles
    BY <1>2, InstanceFacts
  <2>2. instance.bundles[k] \in Seq(Modules)
    BY <2>1, InstanceFacts
  <2>3. Turns(k) = Len(instance.bundles[k]) /\ Turns(k) \in Nat
    BY <1>2, <2>2 DEF Turns
  <2>4. t \in 0 .. Turns(k)
    BY <1>2
  <2>5. CASE t = 0
    BY <1>2, <2>3, <2>5 DEF Agenda
  <2>6. CASE t # 0
    <3>1. instance.bundles[k][t] \in Modules
      BY <2>2, <2>3, <2>4, <2>6
    <3>2. Agenda(k, t) = bind(instance.bundles[k][t])
      BY <1>2, <2>6 DEF Agenda
    <3>3. QED
      BY <2>3, <3>1, <3>2, BindShape
  <2>7. QED
    BY <2>5, <2>6
<1>3. QED
  BY <1>1, <1>2

(* The instance does not change, nor what is read off it. *)
LEMMA Constant ==
  ASSUME instance' = instance
  PROVE  /\ \A w \in Workers : ToVisit(w)' = Agenda(task'[w], turn'[w])
         /\ \A k \in 0 .. Bundles : Turns(k)' = Turns(k)
         /\ \A b \in 1 .. Bundles : InBundle(b)' = InBundle(b)
         /\ \A m \in Modules : Uses(m)' = Uses(m)
BY DEF ToVisit, Agenda, registerBundle, bind, Imports, Literals, Turns, InBundle, Uses

-----------------------------------------------------------------------------
(* Where a worker is when it comes to something. *)

AtRegister(w) == task[w] = 0 /\ turn[w] \in 1 .. Bundles
AtBind(w) ==
  /\ task[w] \in 1 .. Bundles
  /\ turn[w] \in 1 .. Len(instance.bundles[task[w]])
  /\ Current(w) \in InBundle(task[w]) /\ Current(w) \in Modules
  /\ Imported(w) \in Seq(Modules)

ImportCount(w) == Degree(Current(w))

LEMMA WhereTaskZeroIs ==
  ASSUME TypeOK, PlacesOK, NEW w \in Workers, task[w] = 0, ~TurnIsOver(w)
  PROVE  /\ AtRegister(w) /\ Size(turn[w]) \in Nat /\ Len(ToVisit(w)) = Size(turn[w]) + 2
         /\ \/ visited[w] \in 0 .. Size(turn[w]) - 1
               /\ Now(w) = Visit("emplace", instance.bundles[turn[w]][visited[w] + 1],
                                            instance.bundles[turn[w]][visited[w] + 1])
            \/ visited[w] = Size(turn[w]) /\ Now(w) = Visit("identify", turn[w], turn[w])
            \/ visited[w] = Size(turn[w]) + 1 /\ Now(w) = Visit("count", turn[w], turn[w])
<1>1. /\ instance \in Instances
      /\ turn[w] \in 1 .. Bundles
      /\ visited[w] \in 0 .. Len(ToVisit(w))
      /\ visited[w] # Len(ToVisit(w))
  BY DEF TypeOK, PlacesOK, PlaceOK, Idle, Turns, TurnIsOver
<1>2. ToVisit(w) = registerBundle(turn[w])
  BY DEF ToVisit, Agenda
<1>3. /\ Size(turn[w]) \in Nat
      /\ Len(ToVisit(w)) = Size(turn[w]) + 2
      /\ \A i \in 1 .. Size(turn[w]) : ToVisit(w)[i] =
           Visit("emplace", instance.bundles[turn[w]][i], instance.bundles[turn[w]][i])
      /\ ToVisit(w)[Size(turn[w]) + 1] = Visit("identify", turn[w], turn[w])
      /\ ToVisit(w)[Size(turn[w]) + 2] = Visit("count", turn[w], turn[w])
  BY <1>1, <1>2, RegisterShape
<1>4. visited[w] \in 0 .. Size(turn[w]) + 1
  BY <1>1, <1>3
<1>5. CASE visited[w] \in 0 .. Size(turn[w]) - 1
  <2>1. visited[w] + 1 \in 1 .. Size(turn[w])
    BY <1>3, <1>5
  <2>2. Now(w) = Visit("emplace", instance.bundles[turn[w]][visited[w] + 1],
                                  instance.bundles[turn[w]][visited[w] + 1])
    BY <1>3, <2>1 DEF Now
  <2>3. QED
    BY <1>1, <1>3, <1>5, <2>2 DEF AtRegister
<1>6. CASE visited[w] = Size(turn[w])
  BY <1>1, <1>3, <1>6 DEF Now, AtRegister
<1>7. CASE visited[w] = Size(turn[w]) + 1
  <2>1. visited[w] + 1 = Size(turn[w]) + 2
    BY <1>3, <1>7
  <2>2. QED
    BY <1>1, <1>3, <1>7, <2>1 DEF Now, AtRegister
<1>8. QED
  BY <1>3, <1>4, <1>5, <1>6, <1>7

LEMMA WhereBindingIs ==
  ASSUME TypeOK, PlacesOK, NEW w \in Workers, task[w] \in 1 .. Bundles, turn[w] > 0
  PROVE  /\ AtBind(w) /\ ImportCount(w) \in Nat
         /\ Len(ToVisit(w)) \in {ImportCount(w) + 1, ImportCount(w) + 3}
         /\ ~TurnIsOver(w) =>
              \/ /\ visited[w] \in 0 .. ImportCount(w) - 1
                 /\ Now(w) = Visit("import", Current(w), Imported(w)[visited[w] + 1])
              \/ visited[w] = ImportCount(w) /\ Now(w) = Visit("define", Current(w), Current(w))
              \/ /\ visited[w] \in ImportCount(w) + 1 .. ImportCount(w) + 2
                 /\ Now(w).op \in {"lock", "unlock"}
<1>1. /\ instance \in Instances
      /\ turn[w] \in 0 .. Turns(task[w])
      /\ visited[w] \in 0 .. Len(ToVisit(w))
  BY DEF TypeOK, PlacesOK, PlaceOK, Idle
<1>2. /\ instance.bundles[task[w]] \in Seq(Modules)
      /\ Turns(task[w]) = Len(instance.bundles[task[w]])
  BY <1>1, InstanceFacts DEF Turns
<1>3. turn[w] \in 1 .. Len(instance.bundles[task[w]])
  BY <1>1, <1>2
<1>4. Current(w) \in Modules /\ Current(w) \in InBundle(task[w])
  BY <1>2, <1>3 DEF Current, InBundle, ToSet
<1>5. AtBind(w)
  BY <1>1, <1>3, <1>4, InstanceFacts DEF AtBind, Imported
<1>6. ToVisit(w) = bind(Current(w))
  BY <1>3, <1>2 DEF ToVisit, Agenda, Current
<1>7. /\ ImportCount(w) \in Nat
      /\ Len(ToVisit(w)) \in {ImportCount(w) + 1, ImportCount(w) + 3}
      /\ \A i \in 1 .. ImportCount(w) : ToVisit(w)[i] = Visit("import", Current(w), Imported(w)[i])
      /\ ToVisit(w)[ImportCount(w) + 1] = Visit("define", Current(w), Current(w))
      /\ Len(ToVisit(w)) = ImportCount(w) + 3 =>
           /\ ToVisit(w)[ImportCount(w) + 2] = Visit("lock", Current(w), Current(w))
           /\ ToVisit(w)[ImportCount(w) + 3] = Visit("unlock", Current(w), Current(w))
  BY <1>1, <1>4, <1>6, BindShape DEF Imported, ImportCount
<1>8. ASSUME ~TurnIsOver(w)
      PROVE  \/ /\ visited[w] \in 0 .. ImportCount(w) - 1
                /\ Now(w) = Visit("import", Current(w), Imported(w)[visited[w] + 1])
             \/ visited[w] = ImportCount(w) /\ Now(w) = Visit("define", Current(w), Current(w))
             \/ visited[w] \in ImportCount(w) + 1 .. ImportCount(w) + 2 /\ Now(w).op \in {"lock", "unlock"}
  <2> DEFINE l == Len(ToVisit(w))
  <2>1. l \in Nat /\ visited[w] \in 0 .. l /\ visited[w] # l
    BY <1>1, <1>7, <1>8 DEF TurnIsOver
  <2>2. CASE visited[w] \in 0 .. ImportCount(w) - 1
    <3>1. visited[w] + 1 \in 1 .. ImportCount(w)
      BY <1>7, <2>2
    <3>2. Now(w) = Visit("import", Current(w), Imported(w)[visited[w] + 1])
      BY <1>7, <3>1 DEF Now
    <3>3. QED
      BY <2>2, <3>2
  <2>3. CASE visited[w] = ImportCount(w)
    BY <1>7, <2>3 DEF Now
  <2>4. CASE visited[w] \notin 0 .. ImportCount(w)
    <3>1. Len(ToVisit(w)) = ImportCount(w) + 3 /\ visited[w] \in {ImportCount(w) + 1, ImportCount(w) + 2}
      BY <1>7, <2>1, <2>4
    <3>2. visited[w] + 1 \in {ImportCount(w) + 2, ImportCount(w) + 3}
      BY <1>7, <3>1
    <3>3. Now(w) \in {Visit("lock", Current(w), Current(w)), Visit("unlock", Current(w), Current(w))}
      BY <1>7, <3>1, <3>2 DEF Now
    <3>4. QED
      BY <1>7, <3>1, <3>3 DEF Visit
  <2>5. QED
    BY <1>7, <2>1, <2>2, <2>3, <2>4
<1>9. QED
  BY <1>5, <1>7, <1>8

LEMMA WhereWaitingIs ==
  ASSUME TypeOK, PlacesOK, NEW w \in Workers, task[w] \in 1 .. Bundles, turn[w] = 0
  PROVE  /\ visited[w] \in {0, 1} /\ Len(ToVisit(w)) = 1
         /\ ~TurnIsOver(w) => visited[w] = 0 /\ Now(w) = Visit("wait", task[w], task[w])
<1>1. ToVisit(w) = <<Visit("wait", task[w], task[w])>>
  BY DEF ToVisit, Agenda
<1>2. visited[w] \in 0 .. Len(ToVisit(w))
  BY DEF PlacesOK, PlaceOK, Idle
<1>3. QED
  BY <1>1, <1>2 DEF TurnIsOver, Now

-----------------------------------------------------------------------------
(* The steps of a worker within its task. *)

(* Done moves the worker on, within its turn or to the next one. *)
Onward(w) ==
  /\ visited[w] + 1 = Len(ToVisit(w)) /\ turn[w] < Turns(task[w])
  /\ turn'[w] = turn[w] + 1 /\ visited'[w] = 0
Further(w) ==
  /\ visited[w] + 1 = Len(ToVisit(w)) => turn[w] = Turns(task[w])
  /\ turn'[w] = turn[w] /\ visited'[w] = visited[w] + 1

LEMMA DoneMoves ==
  ASSUME TypeOK, PlacesOK, NEW w \in Workers, task[w] # Idle, ~TurnIsOver(w), Done(w)
  PROVE  /\ turn' \in [Workers -> Nat] /\ visited' \in [Workers -> Nat]
         /\ \A v \in Workers \ {w} : turn'[v] = turn[v] /\ visited'[v] = visited[v]
         /\ Onward(w) \/ Further(w)
         /\ PlacesOK'
<1> DEFINE l == Len(ToVisit(w))
           n == Turns(task[w])
           first == IF task[w] = 0 THEN 1 ELSE 0
<1>1. /\ instance \in Instances
      /\ turn \in [Workers -> Nat] /\ visited \in [Workers -> Nat]
      /\ \A v \in Workers : task[v] # Idle => task[v] \in 0 .. Bundles
  BY DEF TypeOK
<1>2. instance' = instance /\ task' = task
  BY DEF Done
<1>3. /\ turn[w] \in first .. n /\ visited[w] \in 0 .. l /\ visited[w] # l
  BY DEF PlacesOK, PlaceOK, TurnIsOver
<1>4. n \in Nat /\ l \in Nat /\ l > 0 /\ first \in {0, 1}
  <2>1. ToVisit(w) = Agenda(task[w], turn[w])
    BY DEF ToVisit
  <2>2. QED
    BY <1>1, <1>3, <2>1, AgendaIsThere
<1>5. /\ turn' \in [Workers -> Nat] /\ visited' \in [Workers -> Nat]
      /\ \A v \in Workers \ {w} : turn'[v] = turn[v] /\ visited'[v] = visited[v]
  BY <1>1 DEF Done
<1>6. Onward(w) \/ Further(w)
  <2>1. CASE visited[w] + 1 = l /\ turn[w] < n
    BY <1>1, <2>1 DEF Done, Onward
  <2>2. CASE ~(visited[w] + 1 = l /\ turn[w] < n)
    <3>1. visited[w] + 1 = l => turn[w] = n
      BY <1>3, <1>4, <2>2
    <3>2. QED
      BY <1>1, <2>2, <3>1 DEF Done, Further
  <2>3. QED
    BY <2>1, <2>2
<1>7. ASSUME NEW v \in Workers, task'[v] # Idle PROVE PlaceOK(v)'
  <2>1. /\ ToVisit(v)' = Agenda(task[v], turn'[v])
        /\ Turns(task[v])' = Turns(task[v])
    BY <1>2, Constant DEF Turns
  <2>2. CASE v # w
    <3>1. PlaceOK(v) /\ ToVisit(v)' = ToVisit(v)
      BY <1>2, <1>5, <1>7, <2>1, <2>2 DEF PlacesOK, ToVisit
    <3>2. QED
      BY <1>2, <1>5, <2>1, <2>2, <3>1 DEF PlaceOK, TurnIsOver
  <2>3. CASE v = w /\ Onward(w)
    <3>1. turn[w] + 1 \in first .. n
      BY <1>3, <1>4, <2>3 DEF Onward
    <3>2. Len(Agenda(task[w], turn[w] + 1)) \in Nat /\ Len(Agenda(task[w], turn[w] + 1)) > 0
      BY <1>1, <1>2, <1>7, <2>3, <3>1, AgendaIsThere
    <3>3. ToVisit(w)' = Agenda(task[w], turn[w] + 1) /\ turn'[w] = turn[w] + 1 /\ visited'[w] = 0
      BY <2>1, <2>3 DEF Onward
    <3>4. QED
      BY <1>2, <2>1, <2>3, <3>1, <3>2, <3>3 DEF PlaceOK, TurnIsOver
  <2>4. CASE v = w /\ Further(w)
    <3>1. ToVisit(w)' = ToVisit(w)
      BY <2>1, <2>4 DEF Further, ToVisit
    <3>2. visited[w] + 1 \in 0 .. l
      BY <1>3, <1>4
    <3>3. QED
      BY <1>2, <1>3, <2>1, <2>4, <3>1, <3>2 DEF PlaceOK, TurnIsOver, Further
  <2>5. QED
    BY <1>6, <2>2, <2>3, <2>4
<1>8. QED
  BY <1>5, <1>6, <1>7 DEF PlacesOK

(* The thread pool goes on as it was. *)
LEMMA PoolStays ==
  ASSUME TypeOK, TasksAgree, UNCHANGED <<instance, pool, task>>
  PROVE  TasksAgree'
BY DEF TasksAgree, pool

(* Only a worker that registers changes what is shared. *)
LEMMA BinderMoves ==
  ASSUME IInv, NEW w \in Workers, task[w] \in 1 .. Bundles, ~TurnIsOver(w), Done(w),
         UNCHANGED shared,
         facts' \in [Workers -> [Definitions -> {Waiting} \cup Trees]],
         bound' \in [Modules -> [Definitions -> {Unvisited, Waiting} \cup Trees]],
         turn[w] > 0 \/ visited[w] > 0 \/ interfaceAtomCount >= task[w] - 1
  PROVE  IInv'
<1>1. task[w] # Idle
  BY InstanceFacts DEF IInv, TypeOK, Idle
<1>2. /\ turn' \in [Workers -> Nat] /\ visited' \in [Workers -> Nat]
      /\ \A v \in Workers \ {w} : turn'[v] = turn[v] /\ visited'[v] = visited[v]
      /\ PlacesOK'
  BY <1>1, DoneMoves DEF IInv
<1>3. UNCHANGED <<instance, pool, task>>
  BY DEF Done
<1>4. TypeOK'
  BY <1>2, <1>3 DEF IInv, TypeOK, pool, shared
<1>5. TasksAgree'
  BY <1>3, PoolStays DEF IInv
<1>6. \A v \in Workers : task[v] = 0 => ToVisit(v)' = ToVisit(v)
  BY <1>2, <1>3, Constant DEF ToVisit
<1>7. Counts'
  <2>1. \A b \in 1 .. interfaceAtomCount : Registered(b)
    BY DEF IInv, Counts
  <2>2. \A b \in 1 .. interfaceAtomCount : Registered(b)'
    BY <1>3, <2>1 DEF Registered, InBundle, shared
  <2>3. ASSUME NEW v \in Workers, task[v] = 0
        PROVE  /\ turn'[v] = turn[v] /\ visited'[v] = visited[v]
               /\ TurnIsOver(v)' = TurnIsOver(v)
    BY <1>2, <1>6, <2>3 DEF TurnIsOver
  <2>4. ASSUME NEW v \in Workers, task[v] = 0
        PROVE  /\ interfaceAtomCount = IF TurnIsOver(v) THEN turn[v] ELSE turn[v] - 1
               /\ \A i \in DOMAIN instance.bundles[turn[v]] :
                    i <= visited[v] => instance.bundles[turn[v]][i] \in asSimpleMap
               /\ visited[v] > Len(instance.bundles[turn[v]]) => InBundle(turn[v]) \subseteq identified
    BY <2>4 DEF IInv, Counts
  <2>5. \A v \in Workers : InBundle(turn[v])' = ToSet(instance.bundles[turn'[v]])
    BY <1>3 DEF InBundle
  <2>6. QED
    BY <1>3, <2>2, <2>3, <2>4, <2>5 DEF IInv, Counts, pool, shared, InBundle
<1>8. Waited'
  BY <1>2, <1>3 DEF IInv, TypeOK, Waited, shared
<1>9. QED
  BY <1>2, <1>4, <1>5, <1>7, <1>8 DEF IInv

(* What task 0 keeps true of its own place. *)
RegistersOK(w) ==
  /\ interfaceAtomCount = IF TurnIsOver(w) THEN turn[w] ELSE turn[w] - 1
  /\ \A i \in DOMAIN instance.bundles[turn[w]] :
       i <= visited[w] => instance.bundles[turn[w]][i] \in asSimpleMap
  /\ visited[w] > Len(instance.bundles[turn[w]]) => InBundle(turn[w]) \subseteq identified

(* A step of the worker that registers: the map grows and it moves on. *)
LEMMA RegistrarMoves ==
  ASSUME IInv, NEW w \in Workers, task[w] = 0, ~TurnIsOver(w), Done(w),
         asSimpleMap \subseteq asSimpleMap', identified \subseteq identified',
         interfaceAtomCount' \in 0 .. Bundles, interfaceAtomCount' >= interfaceAtomCount,
         facts' \in [Workers -> [Definitions -> {Waiting} \cup Trees]],
         bound' = bound,
         \A b \in 1 .. interfaceAtomCount' : b > interfaceAtomCount => Registered(b)',
         RegistersOK(w)'
  PROVE  IInv'
<1>1. task[w] # Idle
  BY DEF Idle
<1>2. /\ turn' \in [Workers -> Nat] /\ visited' \in [Workers -> Nat]
      /\ \A v \in Workers \ {w} : turn'[v] = turn[v] /\ visited'[v] = visited[v]
      /\ PlacesOK'
  BY <1>1, DoneMoves DEF IInv
<1>3. UNCHANGED <<instance, pool, task>>
  BY DEF Done
<1>4. TypeOK'
  BY <1>2, <1>3 DEF IInv, TypeOK, pool
<1>5. TasksAgree'
  BY <1>3, PoolStays DEF IInv
<1>6. /\ task[w] \in (0 .. begun - 1) \ finished
      /\ \A v \in Workers : task[v] = 0 => v = w
  BY <1>1 DEF IInv, TasksAgree
<1>7. begun # 0 /\ 0 \notin finished
  BY <1>6 DEF IInv, TypeOK
<1>8. \A b \in 1 .. interfaceAtomCount' : Registered(b)'
  <2>1. \A b \in 1 .. interfaceAtomCount : Registered(b)
    BY DEF IInv, Counts
  <2>2. \A b \in 1 .. interfaceAtomCount : Registered(b)'
    BY <1>3, <2>1 DEF Registered, InBundle
  <2>3. QED
    BY <2>2 DEF IInv, TypeOK
<1>9. \A v \in Workers : task'[v] = 0 => RegistersOK(v)'
  BY <1>3, <1>6
<1>10. Counts'
  BY <1>3, <1>7, <1>8, <1>9 DEF Counts, RegistersOK, pool
<1>11. Waited'
  <2> SUFFICES ASSUME NEW v \in Workers, task'[v] > 0, turn'[v] > 0 \/ visited'[v] > 0
               PROVE  interfaceAtomCount' >= task'[v] - 1
    BY DEF Waited
  <2>1. v # w /\ task'[v] = task[v] /\ task[v] \in Int
    BY <1>3 DEF IInv, TypeOK, Idle
  <2>2. interfaceAtomCount >= task[v] - 1
    BY <1>2, <2>1 DEF IInv, Waited
  <2>3. interfaceAtomCount \in Int /\ interfaceAtomCount' \in Int
    BY DEF IInv, TypeOK
  <2>4. QED
    BY <2>1, <2>2, <2>3
<1>12. QED
  BY <1>2, <1>4, <1>5, <1>10, <1>11 DEF IInv

(* Where the worker that registers is, in short. *)
LEMMA Registrar ==
  ASSUME IInv, NEW w \in Workers, task[w] = 0
  PROVE  /\ turn[w] \in 1 .. Bundles /\ RegistersOK(w)
         /\ Size(turn[w]) \in Nat /\ DOMAIN instance.bundles[turn[w]] = 1 .. Size(turn[w])
         /\ visited[w] \in 0 .. Size(turn[w]) + 2
         /\ TurnIsOver(w) <=> visited[w] = Size(turn[w]) + 2
<1>1. /\ instance \in Instances /\ turn[w] \in 1 .. Bundles
      /\ visited[w] \in 0 .. Len(ToVisit(w))
  BY DEF IInv, TypeOK, PlacesOK, PlaceOK, Idle, Turns
<1>2. Len(ToVisit(w)) = Size(turn[w]) + 2
  BY <1>1, RegisterShape DEF ToVisit, Agenda
<1>3. Size(turn[w]) \in Nat /\ DOMAIN instance.bundles[turn[w]] = 1 .. Size(turn[w])
  BY <1>1, InstanceFacts DEF Size
<1>4. RegistersOK(w)
  BY DEF IInv, Counts, RegistersOK
<1>5. QED
  BY <1>1, <1>2, <1>3, <1>4 DEF TurnIsOver

(* What is visited tells what the worker is at. *)
LEMMA AtTaskZero ==
  ASSUME IInv, NEW w \in Workers, NEW op \in {"emplace", "identify", "count"}, At(w, op)
  PROVE  /\ task[w] = 0 /\ ~TurnIsOver(w)
         /\ op = "emplace" => /\ visited[w] + 1 \in 1 .. Size(turn[w])
                              /\ Now(w).of = instance.bundles[turn[w]][visited[w] + 1]
         /\ op = "identify" => visited[w] = Size(turn[w]) /\ Now(w).of = turn[w]
         /\ op = "count" => visited[w] = Size(turn[w]) + 1
<1>1. /\ task[w] \in 0 .. Bundles /\ turn[w] \in Nat /\ ~TurnIsOver(w) /\ Now(w).op = op
  BY DEF At, IInv, TypeOK
<1>2. CASE task[w] = 0
  <2>1. Size(turn[w]) \in Nat
    BY <1>2, Registrar
  <2>2. \/ visited[w] \in 0 .. Size(turn[w]) - 1
           /\ Now(w) = Visit("emplace", instance.bundles[turn[w]][visited[w] + 1],
                                        instance.bundles[turn[w]][visited[w] + 1])
        \/ visited[w] = Size(turn[w]) /\ Now(w) = Visit("identify", turn[w], turn[w])
        \/ visited[w] = Size(turn[w]) + 1 /\ Now(w) = Visit("count", turn[w], turn[w])
    BY <1>1, <1>2, WhereTaskZeroIs DEF IInv
  <2>3. QED
    BY <1>1, <1>2, <2>1, <2>2 DEF Visit
<1>3. CASE task[w] \in 1 .. Bundles /\ turn[w] = 0
  <2>1. Now(w) = Visit("wait", task[w], task[w])
    BY <1>1, <1>3, WhereWaitingIs DEF IInv
  <2>2. QED
    BY <1>1, <2>1 DEF Visit
<1>4. CASE task[w] \in 1 .. Bundles /\ turn[w] > 0
  <2>1. \/ Now(w) = Visit("import", Current(w), Imported(w)[visited[w] + 1])
        \/ Now(w) = Visit("define", Current(w), Current(w))
        \/ Now(w).op \in {"lock", "unlock"}
    BY <1>1, <1>4, WhereBindingIs DEF IInv
  <2>2. QED
    BY <1>1, <2>1 DEF Visit
<1>5. QED
  BY <1>1, <1>2, <1>3, <1>4, InstanceFacts DEF IInv, TypeOK

LEMMA RegistrarNext ==
  ASSUME IInv, NEW w \in Workers, task[w] = 0, ~TurnIsOver(w), Done(w)
  PROVE  /\ turn'[w] \in 1 .. Bundles
         /\ Size(turn'[w]) \in Nat /\ DOMAIN instance.bundles[turn'[w]] = 1 .. Size(turn'[w])
         /\ TurnIsOver(w)' <=> visited'[w] = Size(turn'[w]) + 2
         /\ \/ /\ visited[w] = Size(turn[w]) + 1
               /\ turn'[w] = turn[w] + 1 /\ visited'[w] = 0
            \/ /\ turn'[w] = turn[w] /\ visited'[w] = visited[w] + 1
<1>1. /\ turn[w] \in 1 .. Bundles /\ Size(turn[w]) \in Nat
      /\ visited[w] \in 0 .. Size(turn[w]) + 2
  BY Registrar
<1>2. Onward(w) \/ Further(w)
  BY DoneMoves DEF IInv, Idle
<1>3. Len(ToVisit(w)) = Size(turn[w]) + 2
  BY WhereTaskZeroIs DEF IInv
<1>4. \/ visited[w] = Size(turn[w]) + 1 /\ turn'[w] = turn[w] + 1 /\ visited'[w] = 0
         /\ turn[w] < Bundles
      \/ turn'[w] = turn[w] /\ visited'[w] = visited[w] + 1
  BY <1>1, <1>2, <1>3 DEF Onward, Further, Turns
<1>5. turn'[w] \in 1 .. Bundles
  BY <1>1, <1>4, InstanceFacts DEF IInv, TypeOK
<1>6. instance' = instance /\ task'[w] = 0 /\ instance \in Instances
  BY DEF Done, IInv, TypeOK
<1>7. ToVisit(w)' = registerBundle(turn'[w])
  BY <1>6, Constant DEF Agenda
<1>8. Size(turn'[w]) \in Nat /\ Len(registerBundle(turn'[w])) = Size(turn'[w]) + 2
  BY <1>5, <1>6, RegisterShape
<1>9. DOMAIN instance.bundles[turn'[w]] = 1 .. Size(turn'[w])
  BY <1>5, <1>6, InstanceFacts DEF Size
<1>10. TurnIsOver(w)' <=> visited'[w] = Size(turn'[w]) + 2
  BY <1>7, <1>8 DEF TurnIsOver
<1>11. QED
  BY <1>4, <1>5, <1>8, <1>9, <1>10

LEMMA EmplacedKeeps ==
  ASSUME IInv, NEW w \in Workers, Emplaced(w) PROVE IInv'
<1> DEFINE n == Size(turn[w])
           s == instance.bundles[turn[w]]
<1>1. /\ task[w] = 0 /\ ~TurnIsOver(w)
      /\ visited[w] + 1 \in 1 .. n /\ Now(w).of = s[visited[w] + 1]
  BY AtTaskZero DEF Emplaced
<1>2. /\ Done(w)
      /\ asSimpleMap' = asSimpleMap \cup {s[visited[w] + 1]}
      /\ UNCHANGED <<interfaceAtomCount, identified, facts, bound, instance>>
  BY <1>1 DEF Emplaced, Done
<1>3. /\ turn[w] \in 1 .. Bundles /\ RegistersOK(w)
      /\ n \in Nat /\ DOMAIN s = 1 .. n /\ visited[w] \in 0 .. n + 2
      /\ TurnIsOver(w) <=> visited[w] = n + 2
  BY <1>1, Registrar
<1>4. /\ turn'[w] = turn[w] /\ visited'[w] = visited[w] + 1
      /\ TurnIsOver(w)' <=> visited'[w] = n + 2
  BY <1>1, <1>2, <1>3, RegistrarNext
<1>5. RegistersOK(w)'
  <2>1. interfaceAtomCount' = IF TurnIsOver(w)' THEN turn'[w] ELSE turn'[w] - 1
    BY <1>1, <1>2, <1>3, <1>4 DEF RegistersOK
  <2>2. \A i \in 1 .. n : i <= visited[w] + 1 => s[i] \in asSimpleMap'
    BY <1>1, <1>2, <1>3 DEF RegistersOK
  <2>3. ~(visited[w] + 1 > n)
    BY <1>1, <1>3
  <2>4. QED
    BY <1>2, <1>3, <1>4, <2>1, <2>2, <2>3 DEF RegistersOK, Size
<1>6. QED
  BY <1>1, <1>2, <1>5, RegistrarMoves DEF IInv, TypeOK

LEMMA IdentifyKeeps ==
  ASSUME IInv, NEW w \in Workers, Identify(w) PROVE IInv'
<1> DEFINE n == Size(turn[w])
           s == instance.bundles[turn[w]]
<1>1. task[w] = 0 /\ ~TurnIsOver(w) /\ visited[w] = n /\ Now(w).of = turn[w]
  BY AtTaskZero DEF Identify
<1>2. /\ Done(w)
      /\ identified' = identified \cup ToSet(s)
      /\ UNCHANGED <<interfaceAtomCount, asSimpleMap, bound, instance>>
  BY <1>1 DEF Identify, Done
<1>3. facts' \in [Workers -> [Definitions -> {Waiting} \cup Trees]]
  <2>1. Interface \in Trees
    BY InstanceFacts DEF IInv, TypeOK, Interface, Trees
  <2>2. facts \in [Workers -> [Definitions -> {Waiting} \cup Trees]]
    BY DEF IInv, TypeOK
  <2>3. QED
    BY <2>1, <2>2 DEF Identify
<1>4. /\ turn[w] \in 1 .. Bundles /\ RegistersOK(w)
      /\ n \in Nat /\ DOMAIN s = 1 .. n
      /\ TurnIsOver(w) <=> visited[w] = n + 2
  BY <1>1, Registrar
<1>5. /\ turn'[w] = turn[w] /\ visited'[w] = visited[w] + 1
      /\ TurnIsOver(w)' <=> visited'[w] = n + 2
  BY <1>1, <1>2, <1>4, RegistrarNext
<1>6. RegistersOK(w)'
  <2>1. interfaceAtomCount' = IF TurnIsOver(w)' THEN turn'[w] ELSE turn'[w] - 1
    BY <1>1, <1>2, <1>4, <1>5 DEF RegistersOK
  <2>2. \A i \in 1 .. n : s[i] \in asSimpleMap'
    BY <1>1, <1>2, <1>4 DEF RegistersOK
  <2>3. InBundle(turn[w])' \subseteq identified'
    BY <1>2, <1>5 DEF InBundle
  <2>4. QED
    BY <1>2, <1>4, <1>5, <2>1, <2>2, <2>3 DEF RegistersOK, InBundle
<1>7. QED
  BY <1>1, <1>2, <1>3, <1>6, RegistrarMoves DEF IInv, TypeOK

LEMMA CountKeeps ==
  ASSUME IInv, NEW w \in Workers, Count(w) PROVE IInv'
<1> DEFINE n == Size(turn[w])
           s == instance.bundles[turn[w]]
<1>1. task[w] = 0 /\ ~TurnIsOver(w) /\ visited[w] = n + 1
  BY AtTaskZero DEF Count
<1>2. /\ Done(w)
      /\ interfaceAtomCount' = interfaceAtomCount + 1
      /\ UNCHANGED <<asSimpleMap, identified, facts, bound, instance>>
  BY DEF Count, Done
<1>3. /\ turn[w] \in 1 .. Bundles /\ RegistersOK(w)
      /\ n \in Nat /\ DOMAIN s = 1 .. n
  BY <1>1, Registrar
<1>4. interfaceAtomCount = turn[w] - 1 /\ interfaceAtomCount' = turn[w]
  BY <1>1, <1>2, <1>3 DEF RegistersOK
<1>5. InBundle(turn[w]) \subseteq asSimpleMap \cap identified
  <2>1. \A i \in 1 .. n : s[i] \in asSimpleMap
    BY <1>1, <1>3 DEF RegistersOK
  <2>2. InBundle(turn[w]) \subseteq asSimpleMap
    BY <1>3, <2>1 DEF InBundle, ToSet
  <2>3. InBundle(turn[w]) \subseteq identified
    BY <1>1, <1>3 DEF RegistersOK, Size
  <2>4. QED
    BY <2>2, <2>3
<1>6. \A b \in 1 .. interfaceAtomCount' : b > interfaceAtomCount => Registered(b)'
  <2> SUFFICES ASSUME NEW b \in 1 .. interfaceAtomCount', b > interfaceAtomCount
               PROVE  Registered(b)'
    OBVIOUS
  <2>1. b = turn[w]
    BY <1>3, <1>4
  <2>2. InBundle(b) \subseteq asSimpleMap \cap identified
    BY <1>5, <2>1
  <2>3. QED
    BY <1>2, <2>2 DEF Registered, InBundle
<1>7. RegistersOK(w)'
  <2>1. /\ turn'[w] \in 1 .. Bundles
        /\ Size(turn'[w]) \in Nat /\ DOMAIN instance.bundles[turn'[w]] = 1 .. Size(turn'[w])
        /\ TurnIsOver(w)' <=> visited'[w] = Size(turn'[w]) + 2
        /\ \/ turn'[w] = turn[w] + 1 /\ visited'[w] = 0
           \/ turn'[w] = turn[w] /\ visited'[w] = n + 2
    BY <1>1, <1>2, <1>3, RegistrarNext
  <2>2. CASE turn'[w] = turn[w] + 1 /\ visited'[w] = 0
    <3>1. interfaceAtomCount' = turn'[w] - 1 /\ ~TurnIsOver(w)'
      BY <1>3, <1>4, <2>1, <2>2
    <3>2. \A i \in 1 .. Size(turn'[w]) : ~(i <= visited'[w])
      BY <2>1, <2>2
    <3>3. ~(visited'[w] > Size(turn'[w]))
      BY <2>1, <2>2
    <3>4. QED
      BY <1>2, <2>1, <3>1, <3>2, <3>3 DEF RegistersOK, Size
  <2>3. CASE turn'[w] = turn[w] /\ visited'[w] = n + 2
    <3>1. interfaceAtomCount' = turn'[w] /\ TurnIsOver(w)'
      BY <1>4, <2>1, <2>3
    <3>2. InBundle(turn'[w]) \subseteq asSimpleMap' \cap identified'
      BY <1>2, <1>5, <2>3
    <3>3. \A i \in 1 .. Size(turn'[w]) : instance.bundles[turn'[w]][i] \in asSimpleMap'
      BY <2>1, <3>2 DEF InBundle, ToSet
    <3>4. InBundle(turn[w])' \subseteq identified'
      BY <1>2, <2>3, <3>2 DEF InBundle
    <3>5. QED
      BY <1>2, <2>1, <3>1, <3>3, <3>4 DEF RegistersOK, InBundle
  <2>4. QED
    BY <2>1, <2>2, <2>3
<1>8. interfaceAtomCount' \in 0 .. Bundles /\ interfaceAtomCount' >= interfaceAtomCount
  BY <1>3, <1>4, InstanceFacts DEF IInv, TypeOK
<1>9. facts' \in [Workers -> [Definitions -> {Waiting} \cup Trees]] /\ bound' = bound
  BY <1>2 DEF IInv, TypeOK
<1>10. QED
  BY <1>1, <1>2, <1>6, <1>7, <1>8, <1>9, RegistrarMoves

LEMMA AtTaskOfBundle ==
  ASSUME IInv, NEW w \in Workers,
         NEW op \in {"wait", "import", "define", "lock", "unlock"}, At(w, op)
  PROVE  /\ task[w] \in 1 .. Bundles /\ ~TurnIsOver(w)
         /\ op = "wait" => turn[w] = 0 /\ visited[w] = 0 /\ Now(w).of = task[w]
         /\ op # "wait" => turn[w] > 0 /\ AtBind(w) /\ ImportCount(w) \in Nat
         /\ op = "import" => /\ visited[w] + 1 \in 1 .. ImportCount(w)
                             /\ Now(w).to = Imported(w)[visited[w] + 1]
         /\ op = "define" => visited[w] = ImportCount(w) /\ Now(w).of = Current(w)
         /\ op \in {"lock", "unlock"} => visited[w] > ImportCount(w)
<1>1. /\ task[w] \in 0 .. Bundles /\ turn[w] \in Nat /\ ~TurnIsOver(w) /\ Now(w).op = op
  BY DEF At, IInv, TypeOK
<1>2. CASE task[w] = 0
  <2>1. \/ Now(w) = Visit("emplace", instance.bundles[turn[w]][visited[w] + 1],
                                     instance.bundles[turn[w]][visited[w] + 1])
        \/ Now(w) = Visit("identify", turn[w], turn[w])
        \/ Now(w) = Visit("count", turn[w], turn[w])
    BY <1>1, <1>2, WhereTaskZeroIs DEF IInv
  <2>2. QED
    BY <1>1, <2>1 DEF Visit
<1>3. CASE task[w] \in 1 .. Bundles /\ turn[w] = 0
  <2>1. visited[w] = 0 /\ Now(w) = Visit("wait", task[w], task[w])
    BY <1>1, <1>3, WhereWaitingIs DEF IInv
  <2>2. op = "wait" /\ Now(w).of = task[w]
    BY <1>1, <2>1 DEF Visit
  <2>3. QED
    BY <1>1, <1>3, <2>1, <2>2
<1>4. CASE task[w] \in 1 .. Bundles /\ turn[w] > 0
  <2>1. /\ AtBind(w) /\ ImportCount(w) \in Nat
        /\ \/ /\ visited[w] \in 0 .. ImportCount(w) - 1
              /\ Now(w) = Visit("import", Current(w), Imported(w)[visited[w] + 1])
           \/ visited[w] = ImportCount(w) /\ Now(w) = Visit("define", Current(w), Current(w))
           \/ /\ visited[w] \in ImportCount(w) + 1 .. ImportCount(w) + 2
              /\ Now(w).op \in {"lock", "unlock"}
    BY <1>1, <1>4, WhereBindingIs DEF IInv
  <2>2. CASE /\ visited[w] \in 0 .. ImportCount(w) - 1
             /\ Now(w) = Visit("import", Current(w), Imported(w)[visited[w] + 1])
    <3>1. op = "import" /\ Now(w).to = Imported(w)[visited[w] + 1]
      BY <1>1, <2>2 DEF Visit
    <3>2. QED
      BY <1>1, <1>4, <2>1, <2>2, <3>1
  <2>3. CASE visited[w] = ImportCount(w) /\ Now(w) = Visit("define", Current(w), Current(w))
    <3>1. op = "define" /\ Now(w).of = Current(w)
      BY <1>1, <2>3 DEF Visit
    <3>2. QED
      BY <1>1, <1>4, <2>1, <2>3, <3>1
  <2>4. CASE /\ visited[w] \in ImportCount(w) + 1 .. ImportCount(w) + 2
             /\ Now(w).op \in {"lock", "unlock"}
    BY <1>1, <1>4, <2>1, <2>4
  <2>5. QED
    BY <2>1, <2>2, <2>3, <2>4
<1>5. QED
  BY <1>1, <1>2, <1>3, <1>4, InstanceFacts DEF IInv, TypeOK

FactsOK == facts \in [Workers -> [Definitions -> {Waiting} \cup Trees]]
BoundOK == bound \in [Modules -> [Definitions -> {Unvisited, Waiting} \cup Trees]]

LEMMA TreesAre ==
  ASSUME IInv, NEW w \in Workers, task[w] \in 1 .. Bundles
  PROVE  Interface \in Trees /\ task[w] \in Trees
BY InstanceFacts DEF IInv, TypeOK, Interface, Trees

LEMMA NotifyIsTyped ==
  ASSUME IInv, NEW w \in Workers, NEW known, NEW tree \in Trees, notifyEvent(w, known, tree)
  PROVE  FactsOK' /\ BoundOK'
<1>1. FactsOK /\ BoundOK
  BY DEF IInv, TypeOK, FactsOK, BoundOK
<1>2. FactsOK'
  BY <1>1 DEF notifyEvent, FactsOK
<1>3. BoundOK'
  BY <1>1 DEF notifyEvent, BoundOK
<1>4. QED
  BY <1>2, <1>3

LEMMA WaitKeeps ==
  ASSUME IInv, NEW w \in Workers, Wait(w) PROVE IInv'
<1>1. task[w] \in 1 .. Bundles /\ ~TurnIsOver(w) /\ Now(w).of = task[w]
  BY AtTaskOfBundle DEF Wait
<1>2. /\ Done(w) /\ UNCHANGED shared /\ interfaceAtomCount >= task[w] - 1
      /\ FactsOK' /\ BoundOK'
  BY <1>1 DEF Wait, IInv, TypeOK, FactsOK, BoundOK
<1>3. QED
  BY <1>1, <1>2, BinderMoves DEF FactsOK, BoundOK

LEMMA ImportKeeps ==
  ASSUME IInv, NEW w \in Workers, Import(w) PROVE IInv'
<1>1. task[w] \in 1 .. Bundles /\ ~TurnIsOver(w) /\ turn[w] > 0
  BY AtTaskOfBundle DEF Import
<1>2. Done(w) /\ UNCHANGED shared
  BY DEF Import
<1>3. FactsOK' /\ BoundOK'
  BY <1>1, TreesAre, NotifyIsTyped DEF Import
<1>4. QED
  BY <1>1, <1>2, <1>3, BinderMoves DEF FactsOK, BoundOK

LEMMA DefineKeeps ==
  ASSUME IInv, NEW w \in Workers, Define(w) PROVE IInv'
<1>1. task[w] \in 1 .. Bundles /\ ~TurnIsOver(w) /\ turn[w] > 0
  BY AtTaskOfBundle DEF Define
<1>2. Done(w) /\ UNCHANGED shared
  BY DEF Define
<1>3. FactsOK /\ BoundOK /\ task[w] \in Trees
  BY <1>1, TreesAre DEF IInv, TypeOK, FactsOK, BoundOK
<1>4. FactsOK'
  BY <1>3 DEF Define, FactsOK
<1>5. \A d \in Definitions : facts'[w][d] \in {Waiting} \cup Trees
  BY <1>4 DEF FactsOK
<1>6. BoundOK'
  BY <1>3, <1>5 DEF Define, BoundOK
<1>7. QED
  BY <1>1, <1>2, <1>4, <1>6, BinderMoves DEF FactsOK, BoundOK

LEMMA LockKeeps ==
  ASSUME IInv, NEW w \in Workers, Lock(w) \/ Unlock(w) PROVE IInv'
<1>1. task[w] \in 1 .. Bundles /\ ~TurnIsOver(w) /\ turn[w] > 0
  BY AtTaskOfBundle DEF Lock, Unlock
<1>2. Done(w) /\ UNCHANGED <<shared, facts, bound>>
  BY DEF Lock, Unlock
<1>3. FactsOK' /\ BoundOK'
  BY <1>2 DEF IInv, TypeOK, FactsOK, BoundOK
<1>4. QED
  BY <1>1, <1>2, <1>3, BinderMoves DEF FactsOK, BoundOK

-----------------------------------------------------------------------------
(* The steps of the pool. *)

(* What the pool does, with the sizes of the jobs written out. *)
LEMMA PoolSteps ==
  ASSUME TypeOK
  PROVE  /\ Pool!Submit => /\ phase = "idle" /\ job' \in 1 .. Makes /\ phase' = "open"
                           /\ begun' = 0 /\ finished' = {}
         /\ Pool!Begin => /\ phase = "open" /\ begun \in 0 .. Bundles /\ begun' = begun + 1
                          /\ UNCHANGED <<job, phase, finished>>
         /\ Pool!Return => /\ phase = "open" /\ finished = 0 .. Bundles /\ phase' = "idle"
                           /\ UNCHANGED <<job, begun, finished>>
<1> DEFINE jobs == [i \in 1 .. Makes |-> Bundles + 1]
<1>1. /\ Bundles \in Nat /\ Makes \in Nat /\ job \in 0 .. Makes
      /\ phase = "open" => job > 0
      /\ begun \in 0 .. Bundles + 1
  BY InstanceFacts DEF TypeOK
<1>2. Len(jobs) = Makes /\ \A i \in 1 .. Makes : jobs[i] = Bundles + 1
  <2>1. jobs \in Seq(Nat) /\ DOMAIN jobs = 1 .. Makes
    BY <1>1
  <2>2. QED
    BY <1>1, <2>1
<1>3. Pool!Submit => /\ phase = "idle" /\ job' \in 1 .. Makes /\ phase' = "open"
                     /\ begun' = 0 /\ finished' = {}
  BY <1>1, <1>2 DEF Pool!Submit
<1>4. ASSUME phase = "open" PROVE Pool!Size = Bundles + 1
  BY <1>1, <1>2, <1>4 DEF Pool!Size
<1>5. Pool!Begin => /\ phase = "open" /\ begun \in 0 .. Bundles /\ begun' = begun + 1
                    /\ UNCHANGED <<job, phase, finished>>
  BY <1>1, <1>4 DEF Pool!Begin
<1>6. Pool!Return => /\ phase = "open" /\ finished = 0 .. Bundles /\ phase' = "idle"
                     /\ UNCHANGED <<job, begun, finished>>
  BY <1>1, <1>4 DEF Pool!Return
<1>7. QED
  BY <1>3, <1>5, <1>6

(* A step that leaves alone what IInv is about. *)
LEMMA OthersKeep ==
  ASSUME IInv, UNCHANGED <<instance, pool, place, interfaceAtomCount, asSimpleMap,
                           identified, facts, bound>>
  PROVE  IInv'
<1>1. TypeOK'
  BY DEF IInv, TypeOK, pool, place
<1>2. TasksAgree'
  BY PoolStays DEF IInv, place
<1>3. \A w \in Workers : ToVisit(w)' = ToVisit(w)
  BY Constant DEF ToVisit, place
<1>4. \A w \in Workers : PlaceOK(w)' = PlaceOK(w) /\ TurnIsOver(w)' = TurnIsOver(w)
  BY <1>3 DEF PlaceOK, TurnIsOver, Turns, place
<1>5. PlacesOK'
  BY <1>4 DEF IInv, PlacesOK, place
<1>6. \A b : Registered(b)' = Registered(b) /\ InBundle(b)' = InBundle(b)
  BY DEF Registered, InBundle
<1>7. \A w \in Workers : RegistersOK(w)' = RegistersOK(w)
  BY <1>4 DEF RegistersOK, InBundle, place
<1>8. Counts'
  BY <1>6, <1>7 DEF IInv, Counts, RegistersOK, pool, place
<1>9. Waited'
  BY DEF IInv, Waited, place
<1>10. QED
  BY <1>1, <1>2, <1>5, <1>8, <1>9 DEF IInv

(* The main thread submits and returns when nobody has a task. *)
LEMMA NoTask ==
  ASSUME IInv, phase = "idle" \/ finished = 0 .. Bundles
  PROVE  \A w \in Workers : task[w] = Idle
<1>1. ASSUME NEW w \in Workers, task[w] # Idle PROVE FALSE
  <2>1. phase = "open" /\ task[w] \in (0 .. begun - 1) \ finished
    BY <1>1 DEF IInv, TasksAgree
  <2>2. begun \in 0 .. Bundles + 1 /\ Bundles \in Nat
    BY InstanceFacts DEF IInv, TypeOK
  <2>3. QED
    BY <2>1, <2>2
<1>2. QED
  BY <1>1

LEMMA AnalyzeKeeps ==
  ASSUME IInv, Analyze PROVE IInv'
<1>1. /\ phase = "idle" /\ job' \in 1 .. Makes /\ phase' = "open"
      /\ begun' = 0 /\ finished' = {}
  BY PoolSteps DEF Analyze, IInv
<1>2. /\ UNCHANGED <<instance, place>>
      /\ interfaceAtomCount' = 0 /\ facts' = NoFacts /\ bound' = NoUses
  BY DEF Analyze
<1>3. \A w \in Workers : task'[w] = Idle
  BY <1>1, <1>2, NoTask DEF place
<1>4. TypeOK'
  BY <1>1, <1>2, InstanceFacts DEF IInv, TypeOK, NoFacts, NoUses, place
<1>5. TasksAgree'
  BY <1>1, <1>3 DEF TasksAgree
<1>6. PlacesOK'
  BY <1>3 DEF PlacesOK
<1>7. Idle # 0 /\ ~(Idle > 0)
  BY DEF Idle
<1>8. Counts'
  BY <1>1, <1>2, <1>3, <1>7 DEF Counts
<1>9. Waited'
  BY <1>3, <1>7 DEF Waited
<1>10. QED
  BY <1>4, <1>5, <1>6, <1>8, <1>9 DEF IInv

LEMMA ReturnKeeps ==
  ASSUME IInv, Return PROVE IInv'
<1>1. /\ phase = "open" /\ finished = 0 .. Bundles /\ phase' = "idle"
      /\ UNCHANGED <<job, begun, finished>>
  BY PoolSteps DEF Return, IInv
<1>2. UNCHANGED <<instance, place, shared, facts, bound>>
  BY DEF Return
<1>3. \A w \in Workers : task[w] = Idle /\ task'[w] = Idle
  BY <1>1, <1>2, NoTask DEF place
<1>4. TypeOK'
  BY <1>1, <1>2 DEF IInv, TypeOK, place, shared
<1>5. TasksAgree'
  BY <1>1, <1>3 DEF TasksAgree
<1>6. PlacesOK'
  BY <1>3 DEF PlacesOK
<1>7. Idle # 0 /\ ~(Idle > 0)
  BY DEF Idle
<1>8. \A b : Registered(b)' = Registered(b)
  BY <1>2 DEF Registered, InBundle, shared
<1>9. Counts'
  BY <1>1, <1>2, <1>3, <1>7, <1>8 DEF IInv, Counts, shared
<1>10. Waited'
  BY <1>3, <1>7 DEF Waited
<1>11. QED
  BY <1>4, <1>5, <1>6, <1>9, <1>10 DEF IInv

(* A worker that begins or ends a task leaves the others at their places. *)
LEMMA OtherPlaces ==
  ASSUME IInv, instance' = instance, NEW w \in Workers,
         \A v \in Workers \ {w} : /\ task'[v] = task[v] /\ turn'[v] = turn[v]
                                  /\ visited'[v] = visited[v]
  PROVE  \A v \in Workers \ {w} :
           /\ PlaceOK(v)' = PlaceOK(v) /\ TurnIsOver(v)' = TurnIsOver(v)
           /\ UNCHANGED shared => RegistersOK(v)' = RegistersOK(v)
<1> SUFFICES ASSUME NEW v \in Workers \ {w}
             PROVE  /\ PlaceOK(v)' = PlaceOK(v) /\ TurnIsOver(v)' = TurnIsOver(v)
                    /\ UNCHANGED shared => RegistersOK(v)' = RegistersOK(v)
  OBVIOUS
<1>1. ToVisit(v)' = ToVisit(v)
  BY Constant DEF ToVisit
<1>2. Turns(task[v])' = Turns(task'[v]) /\ Turns(task'[v]) = Turns(task[v])
  BY DEF Turns
<1>3. PlaceOK(v)' = PlaceOK(v) /\ TurnIsOver(v)' = TurnIsOver(v)
  BY <1>1 DEF PlaceOK, TurnIsOver, Turns
<1>4. UNCHANGED shared => RegistersOK(v)' = RegistersOK(v)
  BY <1>3 DEF RegistersOK, InBundle, shared
<1>5. QED
  BY <1>3, <1>4

LEMMA BeginKeeps ==
  ASSUME IInv, NEW w \in Workers, Begin(w) PROVE IInv'
<1>1. /\ phase = "open" /\ begun \in 0 .. Bundles /\ begun' = begun + 1
      /\ UNCHANGED <<job, phase, finished>>
  BY PoolSteps DEF Begin, IInv
<1>2. /\ w \in instance.pool /\ task[w] = Idle
      /\ UNCHANGED <<instance, shared, facts, bound>>
      /\ task' = [task EXCEPT ![w] = begun]
      /\ turn' = [turn EXCEPT ![w] = IF begun = 0 THEN 1 ELSE 0]
      /\ visited' = [visited EXCEPT ![w] = 0]
  BY DEF Begin, NextTask
<1>3. /\ task \in [Workers -> {Idle} \cup 0 .. Bundles]
      /\ turn \in [Workers -> Nat] /\ visited \in [Workers -> Nat]
      /\ Bundles \in Nat /\ Bundles > 0 /\ finished \subseteq 0 .. begun - 1
      /\ instance \in Instances /\ interfaceAtomCount \in 0 .. Bundles
  BY InstanceFacts DEF IInv, TypeOK
<1>4. /\ task'[w] = begun /\ turn'[w] = (IF begun = 0 THEN 1 ELSE 0) /\ visited'[w] = 0
      /\ \A v \in Workers \ {w} : /\ task'[v] = task[v] /\ turn'[v] = turn[v]
                                  /\ visited'[v] = visited[v]
  BY <1>2, <1>3
<1>5. TypeOK'
  <2>1. task' \in [Workers -> {Idle} \cup 0 .. Bundles]
    BY <1>1, <1>2, <1>3
  <2>2. turn' \in [Workers -> Nat] /\ visited' \in [Workers -> Nat]
    BY <1>2, <1>3
  <2>3. begun' \in 0 .. Bundles + 1 /\ finished' \subseteq 0 .. begun' - 1
    BY <1>1, <1>3
  <2>4. QED
    BY <1>1, <1>2, <2>1, <2>2, <2>3 DEF IInv, TypeOK, shared
<1>6. TasksAgree'
  <2>1. begun \in (0 .. begun' - 1) \ finished
    BY <1>1, <1>3
  <2>2. ASSUME NEW v \in Workers, task'[v] # Idle
        PROVE  v \in instance'.pool /\ phase' = "open" /\ task'[v] \in (0 .. begun' - 1) \ finished'
    <3>1. CASE v = w
      BY <1>1, <1>2, <1>4, <2>1, <3>1
    <3>2. CASE v # w
      <4>1. v \in instance.pool /\ task[v] \in (0 .. begun - 1) \ finished
        BY <1>4, <2>2, <3>2 DEF IInv, TasksAgree
      <4>2. QED
        BY <1>1, <1>2, <1>4, <3>2, <4>1
    <3>3. QED
      BY <3>1, <3>2
  <2>3. \A v \in Workers \ {w} : task[v] # begun
    BY <1>1, <1>3 DEF IInv, TasksAgree, Idle
  <2>4. \A u, v \in Workers : task'[u] = task'[v] /\ task'[u] # Idle => u = v
    BY <1>4, <2>3 DEF IInv, TasksAgree
  <2>5. ASSUME NEW i \in (0 .. begun' - 1) \ finished' PROVE \E v \in Workers : task'[v] = i
    <3>1. CASE i = begun
      BY <1>4, <3>1
    <3>2. CASE i # begun
      <4>1. i \in (0 .. begun - 1) \ finished
        BY <1>1, <3>2
      <4>2. PICK v \in Workers : task[v] = i
        BY <1>1, <4>1 DEF IInv, TasksAgree
      <4>3. v # w
        BY <1>1, <1>2, <4>1, <4>2 DEF Idle
      <4>4. QED
        BY <1>4, <4>2, <4>3
    <3>3. QED
      BY <3>1, <3>2
  <2>6. QED
    BY <2>2, <2>4, <2>5 DEF TasksAgree
<1>7. \A v \in Workers \ {w} : /\ PlaceOK(v)' = PlaceOK(v) /\ TurnIsOver(v)' = TurnIsOver(v)
                               /\ RegistersOK(v)' = RegistersOK(v)
  BY <1>2, <1>4, OtherPlaces
<1>8. turn'[w] \in (IF begun = 0 THEN 1 ELSE 0) .. Turns(begun)
  <2>1. CASE begun = 0
    BY <1>3, <1>4, <2>1 DEF Turns
  <2>2. CASE begun # 0
    <3>1. begun \in 1 .. Bundles
      BY <1>1, <2>2
    <3>2. Turns(begun) \in Nat
      BY <1>3, <2>2, <3>1, InstanceFacts DEF Turns
    <3>3. QED
      BY <1>4, <2>2, <3>2
  <2>3. QED
    BY <2>1, <2>2
<1>9. /\ ToVisit(w)' = Agenda(begun, turn'[w])
      /\ Len(Agenda(begun, turn'[w])) \in Nat /\ Len(Agenda(begun, turn'[w])) > 0
  BY <1>1, <1>2, <1>3, <1>4, <1>8, Constant, AgendaIsThere
<1>10. ~TurnIsOver(w)'
  BY <1>4, <1>9 DEF TurnIsOver
<1>11. PlaceOK(w)'
  <2>1. Turns(task[w])' = Turns(begun)
    BY <1>2, <1>4 DEF Turns
  <2>2. QED
    BY <1>4, <1>8, <1>9, <1>10, <2>1 DEF PlaceOK
<1>12. PlacesOK'
  BY <1>4, <1>7, <1>11 DEF IInv, PlacesOK
<1>13. \A b : Registered(b)' = Registered(b)
  BY <1>2 DEF Registered, InBundle, shared
<1>14. begun = 0 => RegistersOK(w)'
  <2> SUFFICES ASSUME begun = 0 PROVE RegistersOK(w)'
    OBVIOUS
  <2>1. interfaceAtomCount' = 0 /\ turn'[w] = 1 /\ visited'[w] = 0
    BY <1>2, <1>4 DEF IInv, Counts, shared
  <2>2. 1 \in 1 .. Bundles
    BY <1>3
  <2>3. DOMAIN instance.bundles[1] = 1 .. Len(instance.bundles[1]) /\ Len(instance.bundles[1]) \in Nat
    BY <1>3, <2>2, InstanceFacts
  <2>4. QED
    BY <1>2, <1>10, <2>1, <2>3 DEF RegistersOK
<1>15. \A v \in Workers : task'[v] = 0 => RegistersOK(v)'
  <2> SUFFICES ASSUME NEW v \in Workers, task'[v] = 0 PROVE RegistersOK(v)'
    OBVIOUS
  <2>1. CASE v = w
    BY <1>4, <1>14, <2>1
  <2>2. CASE v # w
    <3>1. RegistersOK(v)
      BY <1>4, <2>2 DEF IInv, Counts, RegistersOK
    <3>2. QED
      BY <1>7, <2>2, <3>1
  <2>3. QED
    BY <2>1, <2>2
<1>16. Counts'
  <2>1. begun' # 0
    BY <1>1
  <2>2. interfaceAtomCount' = interfaceAtomCount
    BY <1>2 DEF shared
  <2>3. QED
    BY <1>1, <1>13, <1>15, <2>1, <2>2 DEF IInv, Counts, RegistersOK
<1>17. Waited'
  <2> SUFFICES ASSUME NEW v \in Workers, task'[v] > 0, turn'[v] > 0 \/ visited'[v] > 0
               PROVE  interfaceAtomCount' >= task'[v] - 1
    BY DEF Waited
  <2>1. v # w
    BY <1>1, <1>4
  <2>2. QED
    BY <1>2, <1>4, <2>1 DEF IInv, Waited, shared
<1>18. QED
  BY <1>5, <1>6, <1>12, <1>16, <1>17 DEF IInv

LEMMA EndKeeps ==
  ASSUME IInv, NEW w \in Workers, End(w) PROVE IInv'
<1>1. /\ phase = "open" /\ finished' = finished \cup {task[w]}
      /\ UNCHANGED <<job, begun, phase>>
  BY DEF End, Pool!End
<1>2. /\ task[w] # Idle /\ TurnIsOver(w)
      /\ UNCHANGED <<instance, shared, facts, bound>>
      /\ task' = [task EXCEPT ![w] = Idle]
      /\ turn' = [turn EXCEPT ![w] = 0]
      /\ visited' = [visited EXCEPT ![w] = 0]
  BY DEF End
<1>3. /\ task \in [Workers -> {Idle} \cup 0 .. Bundles]
      /\ turn \in [Workers -> Nat] /\ visited \in [Workers -> Nat]
      /\ finished \subseteq 0 .. begun - 1
      /\ task[w] \in (0 .. begun - 1) \ finished
  BY <1>2 DEF IInv, TypeOK, TasksAgree
<1>4. /\ task'[w] = Idle
      /\ \A v \in Workers \ {w} : /\ task'[v] = task[v] /\ turn'[v] = turn[v]
                                  /\ visited'[v] = visited[v]
  BY <1>2, <1>3
<1>5. TypeOK'
  <2>1. task' \in [Workers -> {Idle} \cup 0 .. Bundles]
    BY <1>2, <1>3
  <2>2. turn' \in [Workers -> Nat] /\ visited' \in [Workers -> Nat]
    BY <1>2, <1>3
  <2>3. QED
    BY <1>1, <1>2, <1>3, <2>1, <2>2 DEF IInv, TypeOK, shared
<1>6. TasksAgree'
  <2>1. \A v \in Workers \ {w} : task[v] # task[w]
    BY <1>2 DEF IInv, TasksAgree
  <2>2. ASSUME NEW v \in Workers, task'[v] # Idle
        PROVE  v \in instance'.pool /\ phase' = "open" /\ task'[v] \in (0 .. begun' - 1) \ finished'
    <3>1. v # w
      BY <1>4, <2>2
    <3>2. v \in instance.pool /\ task[v] \in (0 .. begun - 1) \ finished
      BY <1>4, <2>2, <3>1 DEF IInv, TasksAgree
    <3>3. QED
      BY <1>1, <1>2, <1>4, <2>1, <3>1, <3>2
  <2>3. \A u, v \in Workers : task'[u] = task'[v] /\ task'[u] # Idle => u = v
    BY <1>4 DEF IInv, TasksAgree
  <2>4. ASSUME NEW i \in (0 .. begun' - 1) \ finished' PROVE \E v \in Workers : task'[v] = i
    <3>1. i \in (0 .. begun - 1) \ finished /\ i # task[w]
      BY <1>1, <2>4
    <3>2. PICK v \in Workers : task[v] = i
      BY <1>1, <3>1 DEF IInv, TasksAgree
    <3>3. QED
      BY <1>4, <3>1, <3>2
  <2>5. QED
    BY <2>2, <2>3, <2>4 DEF TasksAgree
<1>7. \A v \in Workers \ {w} : /\ PlaceOK(v)' = PlaceOK(v) /\ TurnIsOver(v)' = TurnIsOver(v)
                               /\ RegistersOK(v)' = RegistersOK(v)
  BY <1>2, <1>4, OtherPlaces
<1>8. PlacesOK'
  BY <1>4, <1>7 DEF IInv, PlacesOK
<1>9. \A b : Registered(b)' = Registered(b)
  BY <1>2 DEF Registered, InBundle, shared
<1>10. task[w] = 0 => interfaceAtomCount = Bundles
  <2> SUFFICES ASSUME task[w] = 0 PROVE interfaceAtomCount = Bundles
    OBVIOUS
  <2>1. turn[w] = Bundles
    BY <1>2 DEF IInv, PlacesOK, PlaceOK, Turns
  <2>2. QED
    BY <1>2, <2>1 DEF IInv, Counts
<1>11. \A v \in Workers : task'[v] = 0 => RegistersOK(v)'
  <2> SUFFICES ASSUME NEW v \in Workers, task'[v] = 0 PROVE RegistersOK(v)'
    OBVIOUS
  <2>1. v # w
    BY <1>4 DEF Idle
  <2>2. RegistersOK(v)
    BY <1>4, <2>1 DEF IInv, Counts, RegistersOK
  <2>3. QED
    BY <1>7, <2>1, <2>2
<1>12. Counts'
  <2>1. interfaceAtomCount' = interfaceAtomCount
    BY <1>2 DEF shared
  <2>2. 0 \in finished' => interfaceAtomCount = Bundles
    BY <1>1, <1>10 DEF IInv, Counts
  <2>3. QED
    BY <1>1, <1>9, <1>11, <2>1, <2>2 DEF IInv, Counts, RegistersOK
<1>13. Waited'
  <2> SUFFICES ASSUME NEW v \in Workers, task'[v] > 0, turn'[v] > 0 \/ visited'[v] > 0
               PROVE  interfaceAtomCount' >= task'[v] - 1
    BY DEF Waited
  <2>1. v # w
    BY <1>4 DEF Idle
  <2>2. QED
    BY <1>2, <1>4, <2>1 DEF IInv, Waited, shared
<1>14. QED
  BY <1>5, <1>6, <1>8, <1>12, <1>13 DEF IInv

-----------------------------------------------------------------------------
(* The invariant, with the aborts and without. *)

AnyNext == Next \/ \E w \in Workers : Abort(w)

LEMMA InitIsFine ==
  ASSUME Init PROVE IInv
<1>1. /\ instance \in Instances
      /\ job = 0 /\ phase = "idle" /\ begun = 0 /\ finished = {}
      /\ task = [w \in Workers |-> Idle] /\ turn = [w \in Workers |-> 0]
      /\ visited = [w \in Workers |-> 0] /\ interfaceAtomCount = 0
      /\ facts = NoFacts /\ bound = NoUses
  BY DEF Init, Pool!Init
<1>2. \A w \in Workers : task[w] = Idle
  BY <1>1
<1>3. Idle # 0 /\ ~(Idle > 0)
  BY DEF Idle
<1>4. TypeOK
  BY <1>1, InstanceFacts DEF TypeOK, NoFacts, NoUses
<1>5. TasksAgree
  BY <1>1, <1>2 DEF TasksAgree
<1>6. PlacesOK
  BY <1>2 DEF PlacesOK
<1>7. Counts
  BY <1>1, <1>2, <1>3 DEF Counts
<1>8. Waited
  BY <1>2, <1>3 DEF Waited
<1>9. QED
  BY <1>4, <1>5, <1>6, <1>7, <1>8 DEF IInv

LEMMA StepKeeps ==
  ASSUME IInv, NEW w \in Workers, Step(w) PROVE IInv'
<1>1. CASE Begin(w)
  BY <1>1, BeginKeeps
<1>2. CASE End(w)
  BY <1>2, EndKeeps
<1>3. CASE Emplace(w)
  BY <1>3, OthersKeep DEF Emplace
<1>4. CASE Emplaced(w)
  BY <1>4, EmplacedKeeps
<1>5. CASE Identify(w)
  BY <1>5, IdentifyKeeps
<1>6. CASE Count(w)
  BY <1>6, CountKeeps
<1>7. CASE Wait(w)
  BY <1>7, WaitKeeps
<1>8. CASE Import(w)
  BY <1>8, ImportKeeps
<1>9. CASE Define(w)
  BY <1>9, DefineKeeps
<1>10. CASE Lock(w) \/ Unlock(w)
  BY <1>10, LockKeeps
<1>11. QED
  BY <1>1, <1>2, <1>3, <1>4, <1>5, <1>6, <1>7, <1>8, <1>9, <1>10 DEF Step

LEMMA NextKeeps ==
  ASSUME IInv, [AnyNext]_vars PROVE IInv'
<1>1. CASE Analyze
  BY <1>1, AnalyzeKeeps
<1>2. CASE Return
  BY <1>2, ReturnKeeps
<1>3. CASE \E w \in Workers : Step(w)
  BY <1>3, StepKeeps
<1>4. CASE Over \/ UNCHANGED vars
  BY <1>4, OthersKeep DEF Over, vars, shared
<1>5. CASE \E w \in Workers : Abort(w)
  BY <1>5, OthersKeep DEF Abort, shared
<1>6. QED
  BY <1>1, <1>2, <1>3, <1>4, <1>5 DEF AnyNext, Next

(* The instance is a constant of a behaviour. *)
LEMMA InstanceStays ==
  ASSUME [AnyNext]_vars PROVE instance' = instance
BY DEF AnyNext, Next, Analyze, Return, Step, Begin, End, Emplace, Emplaced, Identify,
       Count, Wait, Import, Define, Lock, Unlock, Done, Over, Abort, vars

(* The tasks, the places of the workers in them, and the count of the      *)
(* registered bundles agree in every state, aborts included.               *)
THEOREM CountsAgree == UnlockedSpec => []IInv
<1>1. Init => IInv
  BY InitIsFine
<1>2. IInv /\ [AnyNext]_vars => IInv'
  BY NextKeeps
<1>3. QED
  BY <1>1, <1>2, PTL DEF UnlockedSpec, AnyNext

(* A view that is to be imported is there. *)
LEMMA WaitedForViews ==
  ASSUME IInv, Ordered PROVE ViewsReady
<1> SUFFICES ASSUME NEW w \in Workers, At(w, "import")
             PROVE  Now(w).to \in asSimpleMap \cap identified
  BY DEF ViewsReady
<1>1. /\ task[w] \in 1 .. Bundles /\ turn[w] > 0
      /\ AtBind(w) /\ visited[w] + 1 \in 1 .. ImportCount(w)
      /\ Now(w).to = Imported(w)[visited[w] + 1]
  BY AtTaskOfBundle
<1>2. /\ Current(w) \in InBundle(task[w])
      /\ Now(w).to \in ToSet(instance.imports[Current(w)])
  BY <1>1 DEF AtBind, ImportCount, Degree, Imported, ToSet
<1>3. PICK b \in IF OneThread THEN 1 .. Bundles ELSE 1 .. task[w] - 1 : Now(w).to \in InBundle(b)
  BY <1>1, <1>2 DEF Ordered
<1>4. interfaceAtomCount \in 0 .. Bundles /\ Bundles \in Nat
  BY InstanceFacts DEF IInv, TypeOK
<1>5. b \in 1 .. interfaceAtomCount
  <2>1. CASE OneThread
    <3>1. task[w] # Idle
      BY <1>1 DEF Idle
    <3>2. w \in instance.pool /\ phase = "open" /\ task[w] \in (0 .. begun - 1) \ finished
      BY <3>1 DEF IInv, TasksAgree
    <3>3. 0 \in 0 .. begun - 1
      BY <1>1, <3>2 DEF IInv, TypeOK
    <3>4. 0 \in finished
      <4> SUFFICES ASSUME 0 \notin finished PROVE FALSE
        OBVIOUS
      <4>1. PICK v \in Workers : task[v] = 0
        BY <3>2, <3>3 DEF IInv, TasksAgree
      <4>2. v \in instance.pool
        BY <4>1 DEF IInv, TasksAgree, Idle
      <4>3. v = w
        BY <2>1, <3>2, <4>2 DEF OneThread
      <4>4. QED
        BY <1>1, <4>1, <4>3
    <3>5. interfaceAtomCount = Bundles
      BY <3>4 DEF IInv, Counts
    <3>6. QED
      BY <1>3, <2>1, <3>5
  <2>2. CASE ~OneThread
    <3>1. interfaceAtomCount >= task[w] - 1
      BY <1>1 DEF IInv, Waited
    <3>2. b \in 1 .. task[w] - 1
      BY <1>3, <2>2
    <3>3. QED
      BY <1>1, <1>4, <3>1, <3>2
  <2>3. QED
    BY <2>1, <2>2
<1>6. QED
  BY <1>3, <1>5 DEF IInv, Counts, Registered

LEMMA OrderedStays ==
  ASSUME [AnyNext]_vars
  PROVE  /\ Ordered => Ordered'
         /\ OneThread => OneThread'
         /\ Partitioned => Partitioned'
BY InstanceStays DEF Ordered, OneThread, Partitioned, InBundle

(* Every make request finds the views it imports, with any number of       *)
(* threads when the bundles come after those they import from, and in any  *)
(* order with one thread: task 0 is begun first and waits for nothing.     *)
THEOREM ViewsReadyCorrect == UnlockedSpec /\ Ordered => []ViewsReady
<1>1. Ordered /\ [AnyNext]_vars => Ordered'
  BY OrderedStays
<1>2. IInv /\ Ordered => ViewsReady
  BY WaitedForViews
<1>3. QED
  BY <1>1, <1>2, CountsAgree, PTL DEF UnlockedSpec, AnyNext

-----------------------------------------------------------------------------
(* What the uses of a module are bound to. *)

LEMMA ElementsOf ==
  ASSUME instance \in Instances, NEW b \in 1 .. Bundles
  PROVE  /\ Size(b) \in Nat /\ InBundle(b) \subseteq Modules
         /\ \A i \in 1 .. Size(b) : instance.bundles[b][i] \in InBundle(b)
         /\ \A m \in InBundle(b) : \E i \in 1 .. Size(b) : m = instance.bundles[b][i]
<1>1. instance.bundles[b] \in Seq(Modules)
  BY InstanceFacts
<1>2. QED
  BY <1>1 DEF InBundle, ToSet, Size

(* Only a use that waits is bound by a step that is not at its module. *)
LEMMA SettledStays ==
  ASSUME instance' = instance, NEW m \in Modules, NEW b \in 1 .. Bundles, Settled(m, b),
         \A d \in Uses(m) : bound[m][d] # Waiting => bound'[m][d] = bound[m][d]
  PROVE  Settled(m, b)'
<1>1. Uses(m)' = Uses(m)
  BY Constant
<1>2. Waiting # Interface /\ Waiting # b
  BY DEF Waiting, Interface
<1>3. QED
  BY <1>1, <1>2 DEF Settled

(* Such a step leaves the other workers and the tasks that are over as they *)
(* were.                                                                   *)
LEMMA OthersSettled ==
  ASSUME IInv, Settles, instance' = instance, NEW v \in Workers, task[v] > 0,
         task'[v] = task[v], turn'[v] = turn[v], visited'[v] = visited[v],
         \A d \in Definitions : d[2] = "exported" => facts'[v][d] = facts[v][d],
         \A m \in InBundle(task[v]) : Settled(m, task[v]) => Settled(m, task[v])'
  PROVE  ImportsKnown(v)' /\ TurnsSettled(v)'
<1>1. /\ task[v] \in 1 .. Bundles /\ turn[v] \in 0 .. Size(task[v]) /\ instance \in Instances
      /\ ImportsKnown(v) /\ TurnsSettled(v)
  <2>1. task[v] \in {Idle} \cup 0 .. Bundles /\ task[v] # Idle /\ instance \in Instances
    BY DEF IInv, TypeOK, Idle
  <2>2. task[v] \in 1 .. Bundles
    BY <2>1, InstanceFacts DEF Idle
  <2>3. turn[v] \in 0 .. Turns(task[v])
    BY <2>1, <2>2 DEF IInv, PlacesOK, PlaceOK
  <2>4. QED
    BY <2>1, <2>2, <2>3 DEF Turns, Size, Settles
<1>2. Current(v)' = Current(v) /\ Imported(v)' = Imported(v)
  BY DEF Current, Imported
<1>3. ImportsKnown(v)'
  <2> SUFFICES ASSUME turn[v] > 0, NEW i \in DOMAIN Imported(v), i <= visited[v]
               PROVE  facts'[v][<<Imported(v)[i], "exported">>] \in {Interface, task[v]}
    BY <1>2 DEF ImportsKnown
  <2>1. Current(v) \in Modules
    BY <1>1, ElementsOf DEF Current
  <2>2. Imported(v)[i] \in Modules
    BY <1>1, <2>1, InstanceFacts DEF Imported
  <2> DEFINE d == <<Imported(v)[i], "exported">>
  <2>3. d \in Definitions /\ d[2] = "exported"
    BY <2>2 DEF Definitions
  <2>4. facts'[v][d] = facts[v][d]
    BY <2>3
  <2>5. QED
    BY <1>1, <2>4 DEF ImportsKnown
<1>4. TurnsSettled(v)'
  <2> SUFFICES ASSUME NEW i \in 1 .. turn[v], i < turn[v] \/ visited[v] > Len(Imported(v))
               PROVE  Settled(instance.bundles[task[v]][i], task[v])'
    BY <1>2 DEF TurnsSettled, Settled, Uses
  <2>1. Settled(instance.bundles[task[v]][i], task[v])
    BY <1>1 DEF TurnsSettled
  <2> DEFINE m == instance.bundles[task[v]][i]
  <2>2. m \in InBundle(task[v])
    BY <1>1, ElementsOf
  <2>3. QED
    BY <2>1, <2>2
<1>5. QED
  BY <1>3, <1>4

(* What is to be shown of a step of a worker. *)
LEMMA SettlesNext ==
  ASSUME IInv, Settles, instance' = instance, NEW w \in Workers,
         \A v \in Workers \ {w} :
           /\ task'[v] = task[v] /\ turn'[v] = turn[v] /\ visited'[v] = visited[v]
           /\ facts'[v] = facts[v],
         \A b \in 1 .. Bundles : \A m \in InBundle(b) : Settled(m, b) => Settled(m, b)',
         task'[w] > 0 => ImportsKnown(w)' /\ TurnsSettled(w)',
         \A b \in finished' \ {0} :
           b \in finished \/ (b \in 1 .. Bundles /\ \A m \in InBundle(b) : Settled(m, b))
  PROVE  Settles'
<1>1. finished \subseteq 0 .. Bundles /\ task \in [Workers -> {Idle} \cup 0 .. Bundles]
  BY InstanceFacts DEF IInv, TypeOK
<1>2. ASSUME NEW v \in Workers, task'[v] > 0 PROVE ImportsKnown(v)' /\ TurnsSettled(v)'
  <2>1. CASE v = w
    BY <1>2, <2>1
  <2>2. CASE v # w
    <3>1. /\ task'[v] = task[v] /\ turn'[v] = turn[v] /\ visited'[v] = visited[v]
          /\ facts'[v] = facts[v]
      BY <2>2
    <3>2. task[v] > 0 /\ task[v] \in 1 .. Bundles
      BY <1>1, <1>2, <3>1 DEF Idle
    <3>3. \A m \in InBundle(task[v]) : Settled(m, task[v]) => Settled(m, task[v])'
      <4> SUFFICES ASSUME NEW m \in InBundle(task[v]), Settled(m, task[v])
                   PROVE  Settled(m, task[v])'
        OBVIOUS
      <4>1. PICK b \in 1 .. Bundles : b = task[v]
        BY <3>2
      <4>2. Settled(m, b)'
        BY <4>1
      <4>3. QED
        BY <3>1, <4>1, <4>2 DEF Settled
    <3>4. QED
      BY <3>1, <3>2, <3>3, OthersSettled
  <2>3. QED
    BY <2>1, <2>2
<1>3. FinishedSettled'
  <2> SUFFICES ASSUME NEW b \in finished' \ {0}, NEW m \in InBundle(b)'
               PROVE  Settled(m, b)'
    BY DEF FinishedSettled
  <2>1. b \in 1 .. Bundles
    <3>1. CASE b \in finished
      BY <1>1, <3>1
    <3>2. QED
      BY <3>1
  <2>2. m \in InBundle(b)
    BY DEF InBundle
  <2>3. Settled(m, b)
    BY <2>1, <2>2 DEF Settles, FinishedSettled
  <2>4. QED
    BY <2>1, <2>2, <2>3
<1>4. QED
  BY <1>2, <1>3 DEF Settles

(* Where a worker that binds a module goes next. *)
LEMMA BinderNext ==
  ASSUME IInv, NEW w \in Workers, task[w] \in 1 .. Bundles, ~TurnIsOver(w), Done(w),
         turn[w] > 0
  PROVE  \/ turn'[w] = turn[w] /\ visited'[w] = visited[w] + 1
         \/ /\ turn'[w] = turn[w] + 1 /\ visited'[w] = 0
            /\ visited[w] >= ImportCount(w)
            /\ turn[w] < Size(task[w])
<1>1. /\ Onward(w) \/ Further(w)
  BY DoneMoves DEF IInv, Idle
<1>2. ImportCount(w) \in Nat /\ Len(ToVisit(w)) \in {ImportCount(w) + 1, ImportCount(w) + 3}
  BY WhereBindingIs DEF IInv
<1>3. visited[w] \in Nat
  BY DEF IInv, TypeOK
<1>4. QED
  BY <1>1, <1>2, <1>3 DEF Onward, Further, Turns, Size

(* The bundle of a binder is settled up to its place, if its module is      *)
(* settled by the time that it is defined.                                 *)
LEMMA BinderSettles ==
  ASSUME IInv, Settles, instance' = instance, NEW w \in Workers, task[w] \in 1 .. Bundles,
         ~TurnIsOver(w), Done(w), turn[w] > 0,
         \A b \in 1 .. Bundles : \A m \in InBundle(b) : Settled(m, b) => Settled(m, b)',
         \A m \in Modules : m = Current(w) /\ visited[w] >= ImportCount(w) =>
           Settled(m, task[w])',
         \A i \in 1 .. ImportCount(w) : i <= visited[w] + 1 =>
           facts'[w][<<Imported(w)[i], "exported">>] \in {Interface, task[w]}
  PROVE  ImportsKnown(w)' /\ TurnsSettled(w)'
<1>1. /\ ImportCount(w) \in Nat /\ DOMAIN Imported(w) = 1 .. ImportCount(w)
      /\ Len(Imported(w)) = ImportCount(w) /\ AtBind(w)
  <2>1. AtBind(w) /\ ImportCount(w) \in Nat
    BY WhereBindingIs DEF IInv
  <2>2. QED
    BY <2>1 DEF AtBind, Imported, ImportCount, Degree
<1>2. /\ turn[w] \in 1 .. Size(task[w]) /\ visited[w] \in Nat
      /\ Size(task[w]) \in Nat /\ instance \in Instances
  BY <1>1, ElementsOf DEF AtBind, Size, IInv, TypeOK
<1>3. /\ task'[w] = task[w]
      /\ \/ turn'[w] = turn[w] /\ visited'[w] = visited[w] + 1
         \/ turn'[w] = turn[w] + 1 /\ visited'[w] = 0 /\ visited[w] >= ImportCount(w)
            /\ turn[w] < Size(task[w])
  BY BinderNext DEF Done
<1>4. TurnsSettled(w)
  BY DEF Settles
<1>5. ASSUME NEW i \in 1 .. turn[w], i < turn[w] \/ visited[w] >= ImportCount(w)
      PROVE  Settled(instance.bundles[task[w]][i], task[w])'
  <2>1. instance.bundles[task[w]][i] \in InBundle(task[w])
    BY <1>2, ElementsOf
  <2>2. PICK m \in InBundle(task[w]) : m = instance.bundles[task[w]][i]
    BY <2>1
  <2>3. Settled(m, task[w])'
    <3>1. CASE i < turn[w]
      <4>1. Settled(m, task[w])
        BY <1>4, <2>2, <3>1 DEF TurnsSettled
      <4>2. PICK b \in 1 .. Bundles : b = task[w]
        OBVIOUS
      <4>3. Settled(m, b)'
        BY <4>1, <4>2
      <4>4. QED
        BY <1>3, <4>2, <4>3 DEF Settled
    <3>2. CASE i = turn[w] /\ visited[w] >= ImportCount(w)
      <4>1. m \in Modules /\ m = Current(w)
        BY <1>2, <2>2, <3>2, ElementsOf DEF Current
      <4>2. QED
        BY <3>2, <4>1
    <3>3. QED
      BY <1>2, <1>5, <3>1, <3>2
  <2>4. QED
    BY <1>3, <2>2, <2>3 DEF Settled, Uses
<1>6. CASE turn'[w] = turn[w] /\ visited'[w] = visited[w] + 1
  <2>1. Imported(w)' = Imported(w)
    BY <1>3, <1>6 DEF Imported, Current
  <2>2. ImportsKnown(w)'
    BY <1>1, <1>3, <1>6, <2>1 DEF ImportsKnown
  <2>3. visited[w] + 1 > ImportCount(w) => visited[w] >= ImportCount(w)
    BY <1>1, <1>2
  <2>4. TurnsSettled(w)'
    BY <1>1, <1>3, <1>5, <1>6, <2>1, <2>3 DEF TurnsSettled
  <2>5. QED
    BY <2>2, <2>4
<1>7. CASE turn'[w] = turn[w] + 1 /\ visited'[w] = 0 /\ visited[w] >= ImportCount(w)
           /\ turn[w] < Size(task[w])
  <2>1. turn'[w] \in 1 .. Size(task[w])
    BY <1>2, <1>7
  <2>2. Imported(w)' = instance.imports[instance.bundles[task[w]][turn'[w]]]
    BY <1>3 DEF Imported, Current
  <2>3. Imported(w)' \in Seq(Modules)
    BY <1>2, <2>1, <2>2, ElementsOf, InstanceFacts
  <2>4. ImportsKnown(w)'
    BY <1>7, <2>3 DEF ImportsKnown
  <2>5. \A i \in 1 .. turn'[w] : i < turn'[w] \/ visited'[w] > Len(Imported(w)') => i \in 1 .. turn[w]
    BY <1>2, <1>7, <2>3
  <2>6. TurnsSettled(w)'
    BY <1>3, <1>5, <1>7, <2>5 DEF TurnsSettled
  <2>7. QED
    BY <2>4, <2>6
<1>8. QED
  BY <1>3, <1>6, <1>7

(* A use that is bound is not bound again but by the define of its module. *)
LEMMA AllStay ==
  ASSUME instance \in Instances, instance' = instance,
         \A m \in Modules : \A d \in Definitions :
           bound[m][d] # Waiting => bound'[m][d] = bound[m][d]
  PROVE  \A b \in 1 .. Bundles : \A m \in InBundle(b) : Settled(m, b) => Settled(m, b)'
<1> SUFFICES ASSUME NEW b \in 1 .. Bundles, NEW m \in InBundle(b), Settled(m, b)
             PROVE  Settled(m, b)'
  OBVIOUS
<1>1. m \in Modules
  BY ElementsOf
<1>2. \A d \in Uses(m) : d \in Definitions
  BY DEF Uses
<1>3. QED
  BY <1>1, <1>2, SettledStays

LEMMA RegistrarSettles ==
  ASSUME IInv, Settles, NEW w \in Workers, Emplaced(w) \/ Identify(w) \/ Count(w)
  PROVE  Settles'
<1>1. task[w] = 0 /\ ~TurnIsOver(w) /\ Done(w)
  BY AtTaskZero DEF Emplaced, Identify, Count
<1>2. /\ \A v \in Workers \ {w} : turn'[v] = turn[v] /\ visited'[v] = visited[v]
      /\ UNCHANGED <<instance, pool, task>>
  BY <1>1, DoneMoves DEF IInv, Idle, Done
<1>3. bound' = bound /\ \A v \in Workers \ {w} : facts'[v] = facts[v]
  BY DEF Emplaced, Identify, Count, IInv, TypeOK
<1>4. \A b \in 1 .. Bundles : \A m \in InBundle(b) : Settled(m, b) => Settled(m, b)'
  BY <1>2, <1>3, AllStay DEF IInv, TypeOK
<1>5. QED
  BY <1>1, <1>2, <1>3, <1>4, SettlesNext DEF pool

LEMMA WaitSettles ==
  ASSUME IInv, Settles, NEW w \in Workers, Wait(w) PROVE Settles'
<1>1. task[w] \in 1 .. Bundles /\ ~TurnIsOver(w) /\ Done(w) /\ turn[w] = 0 /\ visited[w] = 0
  BY AtTaskOfBundle DEF Wait
<1>2. /\ \A v \in Workers \ {w} : turn'[v] = turn[v] /\ visited'[v] = visited[v]
      /\ Onward(w) \/ Further(w)
      /\ UNCHANGED <<instance, pool, task>>
  <2>1. task[w] # Idle
    BY <1>1 DEF Idle
  <2>2. UNCHANGED <<instance, pool, task>>
    BY <1>1 DEF Done
  <2>3. QED
    BY <1>1, <2>1, <2>2, DoneMoves DEF IInv
<1>3. bound' = bound /\ facts' = facts
  BY DEF Wait
<1>4. \A b \in 1 .. Bundles : \A m \in InBundle(b) : Settled(m, b) => Settled(m, b)'
  BY <1>2, <1>3, AllStay DEF IInv, TypeOK
<1>5. \/ turn'[w] = 0
      \/ turn'[w] = 1 /\ visited'[w] = 0 /\ 1 \in 1 .. Size(task[w])
  <2>1. Size(task[w]) \in Nat
    BY <1>1, ElementsOf DEF IInv, TypeOK
  <2>2. QED
    BY <1>1, <1>2, <2>1 DEF Onward, Further, Turns, Size
<1>6. ImportsKnown(w)' /\ TurnsSettled(w)'
  <2>1. CASE turn'[w] = 0
    BY <2>1 DEF ImportsKnown, TurnsSettled
  <2>2. CASE turn'[w] = 1 /\ visited'[w] = 0 /\ 1 \in 1 .. Size(task[w])
    <3>1. Imported(w)' = instance.imports[instance.bundles[task[w]][1]]
      BY <1>2, <2>2 DEF Imported, Current
    <3>2. Imported(w)' \in Seq(Modules)
      BY <1>1, <2>2, <3>1, ElementsOf, InstanceFacts DEF IInv, TypeOK
    <3>3. ImportsKnown(w)'
      BY <2>2, <3>2 DEF ImportsKnown
    <3>4. TurnsSettled(w)'
      BY <2>2, <3>2 DEF TurnsSettled
    <3>5. QED
      BY <3>3, <3>4
  <2>3. QED
    BY <1>5, <2>1, <2>2
<1>7. QED
  BY <1>2, <1>3, <1>4, <1>6, SettlesNext DEF pool

LEMMA LockSettles ==
  ASSUME IInv, Settles, NEW w \in Workers, Lock(w) \/ Unlock(w) PROVE Settles'
<1>1. /\ task[w] \in 1 .. Bundles /\ ~TurnIsOver(w) /\ Done(w) /\ turn[w] > 0
      /\ AtBind(w) /\ ImportCount(w) \in Nat /\ visited[w] > ImportCount(w)
  BY AtTaskOfBundle DEF Lock, Unlock
<1>2. /\ \A v \in Workers \ {w} : turn'[v] = turn[v] /\ visited'[v] = visited[v]
      /\ UNCHANGED <<instance, pool, task>>
  BY <1>1, DoneMoves DEF IInv, Idle, Done
<1>3. bound' = bound /\ facts' = facts
  BY DEF Lock, Unlock
<1>4. \A b \in 1 .. Bundles : \A m \in InBundle(b) : Settled(m, b) => Settled(m, b)'
  BY <1>2, <1>3, AllStay DEF IInv, TypeOK
<1>5. /\ ImportsKnown(w) /\ TurnsSettled(w) /\ visited[w] \in Nat /\ turn[w] \in Nat
      /\ DOMAIN Imported(w) = 1 .. ImportCount(w) /\ Len(Imported(w)) = ImportCount(w)
  BY <1>1 DEF Settles, IInv, TypeOK, AtBind, Imported, ImportCount, Degree
<1>6. \A i \in 1 .. ImportCount(w) :
        facts'[w][<<Imported(w)[i], "exported">>] \in {Interface, task[w]}
  BY <1>1, <1>3, <1>5 DEF ImportsKnown
<1>7. ASSUME NEW m \in Modules, m = Current(w) PROVE Settled(m, task[w])'
  <2>1. turn[w] \in 1 .. turn[w]
    BY <1>1, <1>5
  <2>2. Settled(m, task[w])
    BY <1>1, <1>5, <1>7, <2>1 DEF TurnsSettled, Current
  <2>3. m \in InBundle(task[w])
    BY <1>1, <1>7 DEF AtBind
  <2>4. PICK b \in 1 .. Bundles : b = task[w]
    BY <1>1
  <2>5. Settled(m, b)'
    BY <1>4, <2>2, <2>3, <2>4
  <2>6. QED
    BY <1>2, <2>4, <2>5 DEF Settled
<1>8. ImportsKnown(w)' /\ TurnsSettled(w)'
  BY <1>1, <1>2, <1>4, <1>6, <1>7, BinderSettles
<1>9. QED
  BY <1>2, <1>3, <1>4, <1>8, SettlesNext DEF pool

LEMMA ImportSettles ==
  ASSUME IInv, ViewsReady, Settles, NEW w \in Workers, Import(w) PROVE Settles'
<1>1. /\ task[w] \in 1 .. Bundles /\ ~TurnIsOver(w) /\ Done(w) /\ turn[w] > 0
      /\ AtBind(w) /\ ImportCount(w) \in Nat
      /\ visited[w] + 1 \in 1 .. ImportCount(w)
      /\ Now(w).to = Imported(w)[visited[w] + 1]
  BY AtTaskOfBundle DEF Import
<1>2. /\ \A v \in Workers \ {w} : turn'[v] = turn[v] /\ visited'[v] = visited[v]
      /\ UNCHANGED <<instance, pool, task>>
  BY <1>1, DoneMoves DEF IInv, Idle, Done
<1> DEFINE known == {<<Now(w).to, "exported">>}
<1>3. notifyEvent(w, known, Interface)
  <2>1. Now(w).to \in identified
    BY DEF ViewsReady, Import
  <2>2. {<<k, "exported">> : k \in {Now(w).to} \cap identified} = known
    BY <2>1
  <2>3. QED
    BY <2>2 DEF Import
<1>4. /\ FactsOK /\ BoundOK
      /\ \A v \in Workers \ {w} : facts'[v] = facts[v]
      /\ \A d \in Definitions : facts'[w][d] = IF d \in known THEN Interface ELSE facts[w][d]
      /\ \A m \in Modules : \A d \in Definitions :
           bound[m][d] # Waiting => bound'[m][d] = bound[m][d]
  <2>1. FactsOK /\ BoundOK
    BY DEF FactsOK, BoundOK, IInv, TypeOK
  <2>2. facts' = [facts EXCEPT ![w] =
          [d \in Definitions |-> IF d \in known THEN Interface ELSE facts[w][d]]]
    BY <1>3 DEF notifyEvent
  <2>3. \A m \in Modules : \A d \in Definitions :
           bound[m][d] # Waiting => bound'[m][d] = bound[m][d]
    BY <1>3 DEF notifyEvent
  <2>4. QED
    BY <2>1, <2>2, <2>3 DEF FactsOK
<1>5. \A b \in 1 .. Bundles : \A m \in InBundle(b) : Settled(m, b) => Settled(m, b)'
  BY <1>2, <1>4, AllStay DEF IInv, TypeOK
<1>6. ASSUME NEW i \in 1 .. ImportCount(w), i <= visited[w] + 1
      PROVE  facts'[w][<<Imported(w)[i], "exported">>] \in {Interface, task[w]}
  <2>1. Imported(w)[i] \in Modules /\ i \in DOMAIN Imported(w)
    BY <1>1 DEF AtBind, ImportCount, Degree, Imported
  <2> DEFINE d == <<Imported(w)[i], "exported">>
  <2>2. d \in Definitions
    BY <2>1 DEF Definitions
  <2>3. CASE i = visited[w] + 1
    <3>1. d \in known
      BY <1>1, <2>3
    <3>2. QED
      BY <1>4, <2>2, <3>1
  <2>4. CASE i <= visited[w]
    <3>1. facts[w][d] \in {Interface, task[w]}
      BY <1>1, <2>1, <2>4 DEF Settles, ImportsKnown
    <3>2. QED
      BY <1>4, <2>2, <3>1
  <2>5. QED
    BY <1>1, <1>6, <2>3, <2>4 DEF IInv, TypeOK
<1>7. ~(visited[w] >= ImportCount(w))
  BY <1>1 DEF IInv, TypeOK
<1>8. ImportsKnown(w)' /\ TurnsSettled(w)'
  BY <1>1, <1>2, <1>5, <1>6, <1>7, BinderSettles
<1>9. QED
  BY <1>2, <1>4, <1>5, <1>8, SettlesNext DEF pool

(* The module is settled by what its imports were found to be. *)
LEMMA DefineSettles ==
  ASSUME IInv, Partitioned, Settles, NEW w \in Workers, Define(w) PROVE Settles'
<1> DEFINE k == Current(w)
<1>1. /\ task[w] \in 1 .. Bundles /\ ~TurnIsOver(w) /\ Done(w) /\ turn[w] > 0
      /\ AtBind(w) /\ ImportCount(w) \in Nat
      /\ visited[w] = ImportCount(w) /\ Now(w).of = k
  BY AtTaskOfBundle DEF Define
<1>2. /\ \A v \in Workers \ {w} : turn'[v] = turn[v] /\ visited'[v] = visited[v]
      /\ UNCHANGED <<instance, pool, task>>
  BY <1>1, DoneMoves DEF IInv, Idle, Done
<1>3. /\ FactsOK
      /\ facts' = [facts EXCEPT ![w] =
           [d \in Definitions |-> IF d[1] = k THEN task[w] ELSE facts[w][d]]]
      /\ bound' = [m \in Modules |-> [d \in Definitions |->
           IF m = k /\ d \in Uses(k) THEN facts'[w][d]
           ELSE IF bound[m][d] = Waiting /\ d[1] = k /\ BundleOf(m) = task[w]
           THEN task[w] ELSE bound[m][d]]]
  BY <1>1 DEF Define, FactsOK, IInv, TypeOK
<1>4. /\ \A v \in Workers \ {w} : facts'[v] = facts[v]
      /\ \A d \in Definitions : facts'[w][d] = IF d[1] = k THEN task[w] ELSE facts[w][d]
      /\ \A m \in Modules \ {k} : \A d \in Definitions :
           bound[m][d] # Waiting => bound'[m][d] = bound[m][d]
      /\ k \in Modules => \A d \in Uses(k) \cap Definitions : bound'[k][d] = facts'[w][d]
  BY <1>3 DEF FactsOK
<1>5. ASSUME NEW i \in 1 .. ImportCount(w)
      PROVE  facts'[w][<<Imported(w)[i], "exported">>] \in {Interface, task[w]}
  <2>1. Imported(w)[i] \in Modules /\ i \in DOMAIN Imported(w) /\ i <= visited[w]
    BY <1>1 DEF AtBind, ImportCount, Degree, Imported
  <2> DEFINE d == <<Imported(w)[i], "exported">>
  <2>2. d \in Definitions
    BY <2>1 DEF Definitions
  <2>3. facts[w][d] \in {Interface, task[w]}
    BY <1>1, <2>1 DEF Settles, ImportsKnown
  <2>4. QED
    BY <1>4, <2>2, <2>3
<1>6. ASSUME NEW m \in Modules, m = k PROVE Settled(m, task[w])'
  <2>1. ASSUME NEW d \in Uses(m), d[2] = "exported" PROVE bound'[m][d] \in {Interface, task[w]}
    <3>1. d \in Definitions /\ d[1] \in ToSet(instance.imports[m])
      BY DEF Uses
    <3>2. d = <<d[1], "exported">>
      BY <2>1, <3>1 DEF Definitions
    <3>3. PICK i \in 1 .. ImportCount(w) : d[1] = Imported(w)[i]
      BY <1>1, <1>6, <3>1 DEF AtBind, ImportCount, Degree, Imported, ToSet
    <3>4. facts'[w][d] \in {Interface, task[w]}
      BY <1>5, <3>2, <3>3
    <3>5. bound'[m][d] = facts'[w][d]
      BY <1>4, <1>6, <3>1
    <3>6. QED
      BY <3>4, <3>5
  <2>2. Uses(m)' = Uses(m)
    BY <1>2, Constant
  <2>3. QED
    BY <1>2, <2>1, <2>2 DEF Settled
<1>7. \A b \in 1 .. Bundles : \A m \in InBundle(b) : Settled(m, b) => Settled(m, b)'
  <2> SUFFICES ASSUME NEW b \in 1 .. Bundles, NEW m \in InBundle(b), Settled(m, b)
               PROVE  Settled(m, b)'
    OBVIOUS
  <2>1. m \in Modules
    BY ElementsOf DEF IInv, TypeOK
  <2>2. CASE m = k
    <3>1. k \in InBundle(task[w])
      BY <1>1 DEF AtBind
    <3>2. b = task[w]
      BY <1>1, <2>2, <3>1 DEF Partitioned
    <3>3. QED
      BY <1>2, <1>6, <2>1, <2>2, <3>2 DEF Settled
  <2>3. CASE m # k
    <3>1. \A d \in Uses(m) : d \in Definitions
      BY DEF Uses
    <3>2. QED
      BY <1>2, <1>4, <2>1, <2>3, <3>1, SettledStays
  <2>4. QED
    BY <2>2, <2>3
<1>8. ImportsKnown(w)' /\ TurnsSettled(w)'
  BY <1>1, <1>2, <1>5, <1>6, <1>7, BinderSettles
<1>9. QED
  BY <1>2, <1>4, <1>7, <1>8, SettlesNext DEF pool

LEMMA BeginSettles ==
  ASSUME IInv, Settles, NEW w \in Workers, Begin(w) PROVE Settles'
<1>1. /\ UNCHANGED <<instance, facts, bound, finished>>
      /\ turn'[w] = (IF begun = 0 THEN 1 ELSE 0) /\ task'[w] = begun
      /\ \A v \in Workers \ {w} : /\ task'[v] = task[v] /\ turn'[v] = turn[v]
                                  /\ visited'[v] = visited[v]
  BY PoolSteps DEF Begin, NextTask, IInv, TypeOK
<1>2. \A b \in 1 .. Bundles : \A m \in InBundle(b) : Settled(m, b) => Settled(m, b)'
  BY <1>1, AllStay DEF IInv, TypeOK
<1>3. task'[w] > 0 => turn'[w] = 0
  BY <1>1 DEF IInv, TypeOK
<1>4. task'[w] > 0 => ImportsKnown(w)' /\ TurnsSettled(w)'
  BY <1>3 DEF ImportsKnown, TurnsSettled
<1>5. QED
  BY <1>1, <1>2, <1>4, SettlesNext

(* The task of a bundle is over when its last module was defined. *)
LEMMA EndSettles ==
  ASSUME IInv, Settles, NEW w \in Workers, End(w) PROVE Settles'
<1>1. /\ UNCHANGED <<instance, facts, bound>>
      /\ task[w] # Idle /\ TurnIsOver(w) /\ task'[w] = Idle
      /\ finished' = finished \cup {task[w]}
      /\ \A v \in Workers \ {w} : /\ task'[v] = task[v] /\ turn'[v] = turn[v]
                                  /\ visited'[v] = visited[v]
  BY DEF End, Pool!End, IInv, TypeOK
<1>2. \A b \in 1 .. Bundles : \A m \in InBundle(b) : Settled(m, b) => Settled(m, b)'
  BY <1>1, AllStay DEF IInv, TypeOK
<1>3. ~(task'[w] > 0)
  BY <1>1 DEF Idle
<1>4. ASSUME task[w] # 0
      PROVE  task[w] \in 1 .. Bundles /\ \A m \in InBundle(task[w]) : Settled(m, task[w])
  <2>1. task[w] \in 1 .. Bundles
    BY <1>1, <1>4, InstanceFacts DEF IInv, TypeOK, Idle
  <2>2. turn[w] = Size(task[w]) /\ Size(task[w]) \in Nat /\ TurnsSettled(w)
    BY <1>1, <1>4, <2>1, ElementsOf
       DEF IInv, TypeOK, PlacesOK, PlaceOK, Turns, Size, Settles
  <2>3. ASSUME NEW m \in InBundle(task[w]) PROVE Settled(m, task[w])
    <3>1. PICK i \in 1 .. Size(task[w]) : m = instance.bundles[task[w]][i]
      BY <2>1, ElementsOf DEF IInv, TypeOK
    <3>2. /\ AtBind(w) /\ ImportCount(w) \in Nat
          /\ Len(ToVisit(w)) \in {ImportCount(w) + 1, ImportCount(w) + 3}
      <4>1. turn[w] > 0
        BY <2>2, <3>1
      <4>2. QED
        BY <2>1, <4>1, WhereBindingIs DEF IInv
    <3>3. visited[w] > Len(Imported(w))
      BY <1>1, <3>2 DEF TurnIsOver, ImportCount, Degree, Imported
    <3>4. QED
      BY <2>2, <3>1, <3>3 DEF TurnsSettled
  <2>4. QED
    BY <2>1, <2>3
<1>5. QED
  BY <1>1, <1>2, <1>3, <1>4, SettlesNext

LEMMA NobodySettles ==
  ASSUME \A w \in Workers : task'[w] = Idle, FinishedSettled' PROVE Settles'
BY DEF Settles, Idle

LEMMA NextSettles ==
  ASSUME IInv, ViewsReady, Partitioned, Settles, [AnyNext]_vars PROVE Settles'
<1>1. CASE Analyze
  <2>1. \A w \in Workers : task'[w] = Idle /\ finished' = {}
    BY <1>1, PoolSteps, NoTask DEF IInv, Analyze, place
  <2>2. FinishedSettled'
    BY <1>1, PoolSteps DEF FinishedSettled, IInv, Analyze
  <2>3. QED
    BY <2>1, <2>2, NobodySettles
<1>2. CASE Return
  <2>1. UNCHANGED <<finished, instance, bound, task>> /\ \A w \in Workers : task[w] = Idle
    BY <1>2, PoolSteps, NoTask DEF IInv, Return, place
  <2>2. FinishedSettled'
    BY <2>1 DEF Settles, FinishedSettled, Settled, InBundle, Uses
  <2>3. QED
    BY <2>1, <2>2, NobodySettles
<1>3. ASSUME NEW w \in Workers, Step(w) PROVE Settles'
  <2>1. CASE Begin(w)
    BY <2>1, BeginSettles
  <2>2. CASE End(w)
    BY <2>2, EndSettles
  <2>3. CASE Emplace(w)
    <3>1. UNCHANGED <<instance, pool, place, facts, bound>>
      BY <2>3 DEF Emplace
    <3>2. \A b \in 1 .. Bundles : \A m \in InBundle(b) : Settled(m, b) => Settled(m, b)'
      BY <3>1, AllStay DEF IInv, TypeOK
    <3>3. ImportsKnown(w) = ImportsKnown(w)' /\ TurnsSettled(w) = TurnsSettled(w)'
      BY <3>1 DEF ImportsKnown, TurnsSettled, Imported, Current, Settled, Uses, place
    <3>4. QED
      BY <3>1, <3>2, <3>3, SettlesNext DEF pool, place, Settles
  <2>4. CASE Emplaced(w) \/ Identify(w) \/ Count(w)
    BY <2>4, RegistrarSettles
  <2>5. CASE Wait(w)
    BY <2>5, WaitSettles
  <2>6. CASE Import(w)
    BY <2>6, ImportSettles
  <2>7. CASE Define(w)
    BY <2>7, DefineSettles
  <2>8. CASE Lock(w) \/ Unlock(w)
    BY <2>8, LockSettles
  <2>9. QED
    BY <1>3, <2>1, <2>2, <2>3, <2>4, <2>5, <2>6, <2>7, <2>8 DEF Step
<1>4. CASE Over \/ UNCHANGED vars \/ \E w \in Workers : Abort(w)
  <2>1. UNCHANGED <<instance, finished, place, facts, bound>>
    BY <1>4 DEF Over, vars, Abort, pool
  <2>2. QED
    BY <2>1 DEF Settles, FinishedSettled, ImportsKnown, TurnsSettled, Imported, Current,
                Settled, InBundle, Uses, place
<1>5. QED
  BY <1>1, <1>2, <1>3, <1>4 DEF AnyNext, Next

(* What the modules of an analysed bundle use of others is bound to the     *)
(* interface or to that bundle, for any number of threads, provided that   *)
(* no module is in two bundles and the views are there in time: a Context  *)
(* forgets none of the facts of the bundles it analysed before, and its    *)
(* import has to overwrite each that the next bundle uses.                 *)
THEOREM ExportsBoundCorrect ==
  UnlockedSpec /\ Ordered /\ Partitioned => []ExportsBound
<1>1. Init => Settles
  <2> SUFFICES ASSUME Init PROVE Settles
    OBVIOUS
  <2>1. (\A w \in Workers : ~(task[w] > 0)) /\ finished = {}
    BY DEF Init, Pool!Init, Idle
  <2>2. QED
    BY <2>1 DEF Settles, FinishedSettled
<1>2. IInv /\ ViewsReady /\ Partitioned /\ Settles /\ [AnyNext]_vars => Settles'
  BY NextSettles
<1>3. Partitioned /\ [AnyNext]_vars => Partitioned'
  BY OrderedStays
<1>4. Settles => ExportsBound
  BY DEF Settles, FinishedSettled, Settled, ExportsBound, InBundle
<1>5. QED
  BY <1>1, <1>2, <1>3, <1>4, CountsAgree, ViewsReadyCorrect, PTL DEF UnlockedSpec, AnyNext

-----------------------------------------------------------------------------
(* When an import may fail. *)

AtEmplace(w) == task[w] = 0 /\ ~TurnIsOver(w) /\ Now(w).op = "emplace"

(* A key is being emplaced by the worker that registers. *)
Emplacing ==
  emplacing # {} => \E w \in Workers : AtEmplace(w) /\ emplacing = {Now(w).of}

(* A worker whose place stays is still at the same thing. *)
LEMMA EmplacingStays ==
  ASSUME IInv, Emplacing, instance' = instance, emplacing' = emplacing, NEW w \in Workers,
         ~AtEmplace(w),
         \A v \in Workers \ {w} : /\ task'[v] = task[v] /\ turn'[v] = turn[v]
                                  /\ visited'[v] = visited[v]
  PROVE  Emplacing'
<1> SUFFICES ASSUME emplacing # {}
             PROVE  \E v \in Workers : AtEmplace(v)' /\ emplacing = {Now(v)'.of}
  BY DEF Emplacing
<1>1. PICK v \in Workers : AtEmplace(v) /\ emplacing = {Now(v).of}
  BY DEF Emplacing
<1>2. v # w
  BY <1>1
<1>3. ToVisit(v)' = ToVisit(v)
  BY <1>2, Constant DEF ToVisit
<1>4. Now(v)' = Now(v) /\ TurnIsOver(v)' = TurnIsOver(v) /\ task'[v] = task[v]
  BY <1>2, <1>3 DEF Now, TurnIsOver
<1>5. QED
  BY <1>1, <1>4 DEF AtEmplace

LEMMA EmplaceStarts ==
  ASSUME IInv, Emplacing, NEW w \in Workers, Emplace(w) PROVE Emplacing'
<1>1. /\ AtEmplace(w) /\ Now(w).of \notin emplacing
      /\ emplacing' = emplacing \cup {Now(w).of} /\ UNCHANGED <<instance, place>>
  BY AtTaskZero DEF Emplace, AtEmplace, At
<1>2. emplacing = {}
  <2> SUFFICES ASSUME emplacing # {} PROVE FALSE
    OBVIOUS
  <2>1. PICK v \in Workers : AtEmplace(v) /\ emplacing = {Now(v).of}
    BY DEF Emplacing
  <2>2. v = w
    BY <1>1, <2>1 DEF AtEmplace, IInv, TasksAgree, Idle
  <2>3. QED
    BY <1>1, <2>1, <2>2
<1>3. ToVisit(w)' = ToVisit(w)
  BY <1>1, Constant DEF ToVisit, place
<1>4. Now(w)' = Now(w) /\ AtEmplace(w)'
  BY <1>1, <1>3 DEF Now, AtEmplace, TurnIsOver, place
<1>5. emplacing' = {Now(w)'.of}
  BY <1>1, <1>2, <1>4
<1>6. QED
  BY <1>4, <1>5 DEF Emplacing

LEMMA EmplacedStops ==
  ASSUME IInv, Emplacing, NEW w \in Workers, Emplaced(w) PROVE Emplacing'
<1>1. AtEmplace(w) /\ Now(w).of \in emplacing /\ emplacing' = emplacing \ {Now(w).of}
  BY AtTaskZero DEF Emplaced, AtEmplace, At
<1>2. PICK v \in Workers : AtEmplace(v) /\ emplacing = {Now(v).of}
  BY <1>1 DEF Emplacing
<1>3. v = w
  BY <1>1, <1>2 DEF AtEmplace, IInv, TasksAgree, Idle
<1>4. emplacing' = {}
  BY <1>1, <1>2, <1>3
<1>5. QED
  BY <1>4 DEF Emplacing

LEMMA NextEmplacing ==
  ASSUME IInv, Emplacing, [AnyNext]_vars PROVE Emplacing'
<1>1. CASE Analyze \/ Return \/ Over \/ UNCHANGED vars \/ \E w \in Workers : Abort(w)
  <2>1. UNCHANGED <<instance, place, emplacing>>
    BY <1>1 DEF Analyze, Return, Over, vars, Abort, shared
  <2>2. \A w \in Workers : ToVisit(w)' = ToVisit(w)
    BY <2>1, Constant DEF ToVisit, place
  <2>3. \A w \in Workers : Now(w)' = Now(w) /\ TurnIsOver(w)' = TurnIsOver(w)
    BY <2>1, <2>2 DEF Now, TurnIsOver, place
  <2>4. \A w \in Workers : AtEmplace(w)' = AtEmplace(w)
    BY <2>1, <2>3 DEF AtEmplace, place
  <2>5. QED
    BY <2>1, <2>3, <2>4 DEF Emplacing
<1>2. ASSUME NEW w \in Workers, Step(w) PROVE Emplacing'
  <2>1. CASE Emplace(w)
    BY <2>1, EmplaceStarts
  <2>2. CASE Emplaced(w)
    BY <2>2, EmplacedStops
  <2>3. CASE Begin(w) \/ End(w)
    <3>1. /\ UNCHANGED <<instance, emplacing>> /\ ~AtEmplace(w)
          /\ \A v \in Workers \ {w} : /\ task'[v] = task[v] /\ turn'[v] = turn[v]
                                      /\ visited'[v] = visited[v]
      BY <2>3 DEF Begin, End, AtEmplace, shared, Idle, IInv, TypeOK
    <3>2. QED
      BY <3>1, EmplacingStays
  <2>4. CASE Identify(w) \/ Count(w) \/ Wait(w) \/ Import(w) \/ Define(w) \/ Lock(w) \/ Unlock(w)
    <3>1. ~TurnIsOver(w) /\ task[w] # Idle /\ Now(w).op # "emplace"
      BY <2>4 DEF Identify, Count, Wait, Import, Define, Lock, Unlock, At
    <3>2. Done(w) /\ emplacing' = emplacing
      BY <2>4 DEF Identify, Count, Wait, Import, Define, Lock, Unlock, shared
    <3>3. \A v \in Workers \ {w} : turn'[v] = turn[v] /\ visited'[v] = visited[v]
      BY <3>1, <3>2, DoneMoves DEF IInv
    <3>4. instance' = instance /\ task' = task
      BY <3>2 DEF Done
    <3>5. QED
      BY <3>1, <3>2, <3>3, <3>4, EmplacingStays DEF AtEmplace
  <2>5. QED
    BY <1>2, <2>1, <2>2, <2>3, <2>4 DEF Step
<1>3. QED
  BY <1>1, <1>2 DEF AnyNext, Next

(* An import that fails found the key, in a table that another worker was   *)
(* changing.                                                               *)
LEMMA AbortsBesideTaskZero ==
  ASSUME IInv, ViewsReady, Emplacing, NEW w \in Workers, Abort(w)
  PROVE  \E v \in Workers \ {w} : task[v] = 0 /\ emplacing # {}
<1>1. task[w] \in 1 .. Bundles /\ Now(w).to \in asSimpleMap /\ emplacing # {}
  BY AtTaskOfBundle DEF Abort, ViewsReady
<1>2. PICK v \in Workers : AtEmplace(v)
  BY <1>1 DEF Emplacing
<1>3. QED
  BY <1>1, <1>2 DEF AtEmplace

LEMMA OnlyAbortAborts ==
  ASSUME [AnyNext]_vars, aborted' # aborted PROVE \E w \in Workers : Abort(w)
BY DEF AnyNext, Next, Analyze, Return, Step, Begin, End, Emplace, Emplaced, Identify,
       Count, Wait, Import, Define, Lock, Unlock, Done, Over, vars

(* Task 0 emplaces a key.                                                  *)
OneRegisters == \E v \in Workers : task[v] = 0 /\ emplacing # {}

(* A worker looks for a module that no bundle before its own has: one of    *)
(* its own bundle, or of a later one.                                      *)
LooksAhead ==
  \E w \in Workers :
    /\ At(w, "import")
    /\ \A b \in 1 .. task[w] - 1 : Now(w).to \notin InBundle(b)

(* What the bundles before that of a task have is registered when the task  *)
(* has waited for them.                                                    *)
LEMMA EarlierAreThere ==
  ASSUME IInv, NEW w \in Workers, At(w, "import"),
         NEW b \in 1 .. task[w] - 1, Now(w).to \in InBundle(b)
  PROVE  Now(w).to \in asSimpleMap
<1>1. task[w] \in 1 .. Bundles /\ turn[w] > 0
  BY AtTaskOfBundle
<1>2. interfaceAtomCount \in 0 .. Bundles /\ Bundles \in Nat
  BY InstanceFacts DEF IInv, TypeOK
<1>3. interfaceAtomCount >= task[w] - 1
  BY <1>1 DEF IInv, Waited
<1>4. b \in 1 .. interfaceAtomCount
  BY <1>1, <1>2, <1>3
<1>5. QED
  BY <1>4 DEF IInv, Counts, Registered

LEMMA AbortsHere ==
  ASSUME IInv, Emplacing, NEW w \in Workers, Abort(w)
  PROVE  OneRegisters \/ LooksAhead
<1>1. At(w, "import") /\ (Now(w).to \notin asSimpleMap \/ emplacing # {})
  BY DEF Abort
<1>2. CASE emplacing # {}
  BY <1>2 DEF Emplacing, AtEmplace, OneRegisters
<1>3. CASE Now(w).to \notin asSimpleMap
  BY <1>1, <1>3, EarlierAreThere DEF LooksAhead
<1>4. QED
  BY <1>1, <1>2, <1>3

LEMMA EmplacingAlways == UnlockedSpec => []Emplacing
<1>1. Init => Emplacing
  BY DEF Init, Emplacing
<1>2. IInv /\ Emplacing /\ [AnyNext]_vars => Emplacing'
  BY NextEmplacing
<1>3. QED
  BY <1>1, <1>2, CountsAgree, PTL DEF UnlockedSpec, AnyNext

(* The assert of robin::map::at fails only while task 0 emplaces a key, or  *)
(* where a worker looks for a module that no bundle before its own has,    *)
(* whatever the imports are: nothing else a worker does can make it fail,  *)
(* for any bundles and any number of threads.                              *)
THEOREM AbortsAreRaces ==
  UnlockedSpec => [][aborted' # aborted => OneRegisters \/ LooksAhead]_vars
<1>1. IInv /\ Emplacing /\ [AnyNext]_vars =>
        [aborted' # aborted => OneRegisters \/ LooksAhead]_vars
  BY OnlyAbortAborts, AbortsHere
<1>2. QED
  BY <1>1, CountsAgree, EmplacingAlways, PTL DEF UnlockedSpec, AnyNext

(* With one thread every key is found: what MCAnalyzerKeys shows to happen  *)
(* takes two.                                                              *)
THEOREM KeysFoundAlone == UnlockedSpec /\ Ordered /\ OneThread => []KeysFound
<1>1. Init => KeysFound
  BY DEF Init, KeysFound
<1>2. ASSUME IInv, ViewsReady, Emplacing, OneThread, KeysFound, [AnyNext]_vars
      PROVE  KeysFound'
  <2> SUFFICES ASSUME aborted' # aborted PROVE FALSE
    BY <1>2, Zenon DEF KeysFound
  <2>1. PICK w \in Workers : Abort(w)
    BY <1>2, OnlyAbortAborts
  <2>2. PICK v \in Workers \ {w} : task[v] = 0
    BY <1>2, <2>1, AbortsBesideTaskZero
  <2>3. task[w] # Idle /\ task[v] # Idle
    BY <2>1, <2>2 DEF Abort, At, Idle
  <2>4. w \in instance.pool /\ v \in instance.pool
    BY <1>2, <2>3 DEF IInv, TasksAgree
  <2>5. QED
    BY <1>2, <2>2, <2>4 DEF OneThread
<1>3. OneThread /\ [AnyNext]_vars => OneThread'
  BY OrderedStays
<1>4. QED
  BY <1>1, <1>2, <1>3, CountsAgree, ViewsReadyCorrect, EmplacingAlways, PTL
     DEF UnlockedSpec, AnyNext

=============================================================================
