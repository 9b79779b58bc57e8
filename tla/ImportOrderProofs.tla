------------------------- MODULE ImportOrderProofs -------------------------
(***************************************************************************)
(* ImportsFirst, for every set of modules and every input: when            *)
(* makeBundles takes a module, all it imports was taken before, but for    *)
(* the modules of its own import cycles, whatever solveCycle hung, moved   *)
(* and left flagged in between.                                            *)
(*                                                                         *)
(* The graph is looked at as a picture p: its nodes, which of them open    *)
(* and close a pair, what each waits for and the module it is the node     *)
(* of.  A view v of the picture says which nodes are inside a pair, which  *)
(* opening node is the outermost around each (0 once it was taken), a      *)
(* module that stands for each node, and a rank that falls along the edges *)
(* inside.  With the order R of what a module needs and its imports I:     *)
(*                                                                         *)
(*   Shape   edges lead from what needs to what is needed, the nodes in    *)
(*           one pair need each other, and from outside an edge ends at    *)
(*           a node that is outside, or at the closing node of an          *)
(*           outermost pair;                                               *)
(*   Covers  an import of a module that does not need its importer is      *)
(*           waited for by the importer, or by the outermost pair around   *)
(*           it, at once or along closing nodes.                           *)
(*                                                                         *)
(* A node that waits for nothing has then none of its imports left but     *)
(* those that need it.  The walk of solveCycle tears Covers where it       *)
(* detaches an edge, until it comes back to where it began (Torn); what it *)
(* detached lies then on a cycle.  The walk needs more of the graph than   *)
(* of the picture: which edge is the first of a node (Lone, Headed), and   *)
(* that it begins at an opening node whenever one is there that no stale   *)
(* flag marks (Parked).                                                    *)
(***************************************************************************)
EXTENDS ImportGraphProofs, FiniteSetTheorems

-----------------------------------------------------------------------------
(* Pictures and views. *)

(* R leads from a to b and back. *)
Same(R, a, b) == <<a, b>> \in R /\ <<b, a>> \in R

(* R leads from a number to itself, and on. *)
Preorder(R) ==
  /\ \A a \in Nat : <<a, a>> \in R
  /\ \A a, b, c \in Nat : <<a, b>> \in R /\ <<b, c>> \in R => <<a, c>> \in R

(* The nodes of a picture are numbers, and it waits for its own. *)
IsPicture(p) ==
  /\ p.nodes \subseteq Nat \ {0}
  /\ p.opens \subseteq p.nodes
  /\ p.closes \subseteq p.nodes
  /\ p.opens \cap p.closes = {}
  /\ \A x \in p.nodes : p.waits[x] \subseteq p.nodes

(* A view knows all numbers. *)
IsView(v) ==
  /\ v.inner \subseteq Nat
  /\ \A x \in Nat : v.top[x] \in Nat /\ v.rep[x] \in Nat /\ v.rk[x] \in Nat

(* The nodes of modules. *)
Plain(p) == p.nodes \ (p.opens \cup p.closes)
(* The opening nodes of the outermost pairs. *)
Roots(p, v) == p.opens \ v.inner
(* What is directly under a closing node. *)
Buried(p) == {y \in p.nodes \ p.opens : \E c \in p.closes : y \in p.waits[c]}

(* An edge inside a pair. *)
InnerEdge(R, p, v, x, y) ==
  /\ v.rk[y] < v.rk[x]
  /\ v.top[y] = v.top[x]
  /\ y \in p.opens \/ (x \in p.closes /\ y \in v.inner)
  /\ Same(R, v.rep[x], v.rep[y])

(* An edge from outside. *)
OuterEdge(R, p, v, x, y) ==
  /\ <<v.rep[x], v.rep[y]>> \in R
  /\ y \notin p.opens
  /\ y \in v.inner => y \in p.closes \ Buried(p)

(* All edges inside are of that kind. *)
InnerEdges(R, p, v) ==
  \A x \in p.nodes \cap v.inner : \A y \in p.waits[x] : InnerEdge(R, p, v, x, y)
(* All edges from outside are. *)
OuterEdges(R, p, v) ==
  \A x \in p.nodes \ v.inner : \A y \in p.waits[x] : OuterEdge(R, p, v, x, y)

(* An outermost pair that is still there is around x, and x needs it and   *)
(* is needed.                                                              *)
Topped(R, p, v, x) ==
  v.top[x] # 0 => v.top[x] \in Roots(p, v) /\ Same(R, v.rep[x], v.rep[v.top[x]])
(* The closing nodes are inside, and each node inside has its outermost    *)
(* pair.                                                                   *)
Tops(R, p, v) ==
  /\ p.closes \subseteq v.inner
  /\ \A o \in Roots(p, v) : v.top[o] = o
  /\ \A x \in p.nodes \cap v.inner : Topped(R, p, v, x)
(* The node of a module stands for it. *)
Reps(p, v) == \A x \in Plain(p) : v.rep[x] = p.name[x]

(* What a view says of the edges. *)
Shape(R, p, v) ==
  /\ IsPicture(p)
  /\ IsView(v)
  /\ InnerEdges(R, p, v)
  /\ OuterEdges(R, p, v)
  /\ Tops(R, p, v)
  /\ Reps(p, v)

(* X has what the closing nodes in it wait for, but opening nodes. *)
Under(p, X) == \A c \in X \cap p.closes : p.waits[c] \ p.opens \subseteq X
(* From c, y is reached along closing nodes. *)
Leads(p, c, y) == \A X \in SUBSET p.nodes : c \in X /\ Under(p, X) => y \in X

(* The node outside that stands for x. *)
Up(v, x) == IF x \in v.inner THEN v.top[x] ELSE x
(* u waits for y, at once or along closing nodes. *)
Reached(p, u, y) == u \in p.nodes /\ \E c \in p.waits[u] : Leads(p, c, y)

(* x imports y, and y does not need x. *)
Imports(R, I, p, x, y) == <<p.name[x], p.name[y]>> \in I /\ ~Same(R, p.name[x], p.name[y])
(* Each import that is not of a cycle is waited for. *)
Covers(R, I, p, v) ==
  \A x, y \in Plain(p) : Imports(R, I, p, x, y) => Reached(p, Up(v, x), y)

-----------------------------------------------------------------------------
(* A node without dependees is taken. *)
Held(p, v) == \A x \in p.nodes \cap v.inner : v.top[x] # 0 => p.waits[x] # {}

(* q is p without n. *)
Less(p, q, n) ==
  /\ q.nodes = p.nodes \ {n}
  /\ q.opens = p.opens \ {n}
  /\ q.closes = p.closes \ {n}
  /\ \A x \in q.nodes : q.waits[x] = p.waits[x] \ {n}
  /\ \A x \in q.nodes : q.name[x] = p.name[x]

(* The view once n was taken: nothing has n as its outermost node any      *)
(* more.                                                                   *)
Released(p, v, n) ==
  [inner |-> v.inner,
   top |-> [x \in Nat |-> IF n \in Roots(p, v) /\ v.top[x] = n THEN 0 ELSE v.top[x]],
   rep |-> v.rep,
   rk |-> v.rk]

(* What Released changes. *)
LEMMA ReleasedIs ==
  ASSUME NEW p, NEW v, NEW n, NEW w, w = Released(p, v, n), IsView(v)
  PROVE  /\ w.inner = v.inner /\ w.rep = v.rep /\ w.rk = v.rk
         /\ \A x \in Nat : w.top[x] = IF n \in Roots(p, v) /\ v.top[x] = n THEN 0 ELSE v.top[x]
         /\ IsView(w)
  BY DEF Released, IsView

(* A node that waits for nothing is taken: the shape stays. *)
LEMMA LessShape ==
  ASSUME NEW R, NEW p, NEW q, NEW v, NEW n, NEW w,
         Shape(R, p, v), Held(p, v), n \in p.nodes, p.waits[n] = {},
         Less(p, q, n), w = Released(p, v, n)
  PROVE  Shape(R, q, w)
<1>v. IsView(v) /\ IsPicture(p)
  BY DEF Shape
<1>w. /\ w.inner = v.inner /\ w.rep = v.rep /\ w.rk = v.rk
      /\ \A x \in Nat : w.top[x] = IF n \in Roots(p, v) /\ v.top[x] = n THEN 0 ELSE v.top[x]
      /\ IsView(w)
  BY <1>v, ReleasedIs
<1>q. /\ q.nodes = p.nodes \ {n}
      /\ q.opens = p.opens \ {n}
      /\ q.closes = p.closes \ {n}
      /\ \A x \in q.nodes : q.waits[x] = p.waits[x] \ {n}
      /\ \A x \in q.nodes : q.name[x] = p.name[x]
  BY DEF Less
<1>p. IsPicture(q)
  BY <1>v, <1>q DEF IsPicture
<1>n. p.nodes \subseteq Nat
  BY <1>v DEF IsPicture
<1>b. Buried(q) \subseteq Buried(p)
  BY <1>q, <1>v DEF Buried, IsPicture
<1>r. Roots(q, w) = Roots(p, v) \ {n}
  BY <1>q, <1>w DEF Roots
<1>i. InnerEdges(R, q, w)
  <2>1. SUFFICES ASSUME NEW x \in q.nodes \cap w.inner, NEW y \in q.waits[x]
                 PROVE  InnerEdge(R, q, w, x, y)
    BY DEF InnerEdges
  <2>2. x \in p.nodes \cap v.inner /\ y \in p.waits[x] /\ y # n /\ y \in Nat /\ x \in Nat
    BY <1>q, <1>w, <1>v, <1>n DEF IsPicture
  <2>3. InnerEdge(R, p, v, x, y)
    BY <2>2 DEF Shape, InnerEdges
  <2> QED
    BY <2>2, <2>3, <1>q, <1>w DEF InnerEdge
<1>o. OuterEdges(R, q, w)
  <2>1. SUFFICES ASSUME NEW x \in q.nodes \ w.inner, NEW y \in q.waits[x]
                 PROVE  OuterEdge(R, q, w, x, y)
    BY DEF OuterEdges
  <2>2. x \in p.nodes \ v.inner /\ y \in p.waits[x] /\ y # n
    BY <1>q, <1>w, <1>v DEF IsPicture
  <2>3. OuterEdge(R, p, v, x, y)
    BY <2>2 DEF Shape, OuterEdges
  <2> QED
    BY <2>2, <2>3, <1>q, <1>w, <1>b DEF OuterEdge
<1>t. Tops(R, q, w)
  <2>0. Tops(R, p, v)
    BY DEF Shape
  <2>1. \A o \in Roots(q, w) : w.top[o] = o
    BY <2>0, <1>r, <1>w, <1>v, <1>n DEF Tops, Roots, IsPicture
  <2>2. ASSUME NEW x \in q.nodes \cap w.inner PROVE Topped(R, q, w, x)
    <3>1. Topped(R, p, v, x)
      BY <2>0, <1>q, <1>w DEF Tops
    <3> QED
      BY <3>1, <1>r, <1>w, <1>q, <1>n DEF Topped
  <2> QED
    BY <2>0, <2>1, <2>2, <1>q, <1>w DEF Tops
<1>e. Reps(q, w)
  BY <1>q, <1>w DEF Shape, Reps, Plain
<1> QED
  BY <1>w, <1>p, <1>i, <1>o, <1>t, <1>e DEF Shape

(* What led on leads on, unless it led to the node taken. *)
LEMMA LessLeads ==
  ASSUME NEW p, NEW q, NEW n, NEW c, NEW y, IsPicture(p),
         n \in p.nodes, p.waits[n] = {}, Less(p, q, n), c \in p.nodes, y # n, Leads(p, c, y)
  PROVE  c # n /\ Leads(q, c, y)
<1>q. /\ q.nodes = p.nodes \ {n}
      /\ q.opens = p.opens \ {n}
      /\ q.closes = p.closes \ {n}
      /\ \A x \in q.nodes : q.waits[x] = p.waits[x] \ {n}
  BY DEF Less
<1>1. c # n
  <2>1. Under(p, {n})
    BY DEF Under
  <2> QED
    BY <2>1 DEF Leads
<1>2. ASSUME NEW X \in SUBSET q.nodes, c \in X, Under(q, X) PROVE y \in X
  <2>1. Under(p, X \cup {n})
    BY <1>q, <1>2 DEF Under, IsPicture
  <2> QED
    BY <2>1, <1>2, <1>q DEF Leads
<1> QED
  BY <1>1, <1>2 DEF Leads

(* The imports that are left are still waited for. *)
LEMMA LessCovers ==
  ASSUME NEW R, NEW I, NEW p, NEW q, NEW v, NEW n, NEW w,
         IsPicture(p), IsView(v), Covers(R, I, p, v), n \in p.nodes, p.waits[n] = {},
         Less(p, q, n), w = Released(p, v, n)
  PROVE  Covers(R, I, q, w)
<1>w. /\ w.inner = v.inner
      /\ \A x \in Nat : w.top[x] = IF n \in Roots(p, v) /\ v.top[x] = n THEN 0 ELSE v.top[x]
  BY ReleasedIs
<1>q. /\ q.nodes = p.nodes \ {n}
      /\ q.opens = p.opens \ {n}
      /\ q.closes = p.closes \ {n}
      /\ \A x \in q.nodes : q.waits[x] = p.waits[x] \ {n}
      /\ \A x \in q.nodes : q.name[x] = p.name[x]
  BY DEF Less
<1>1. SUFFICES ASSUME NEW x \in Plain(q), NEW y \in Plain(q), Imports(R, I, q, x, y)
               PROVE  Reached(q, Up(w, x), y)
  BY DEF Covers
<1>2. x \in Plain(p) /\ y \in Plain(p) /\ y # n /\ x \in Nat /\ x \in q.nodes /\ y \in q.nodes
  BY <1>q DEF Plain, IsPicture
<1>3. Imports(R, I, p, x, y)
  BY <1>1, <1>q, <1>2 DEF Imports
<1>4. Reached(p, Up(v, x), y)
  BY <1>2, <1>3 DEF Covers
<1>5. PICK c \in p.waits[Up(v, x)] : Leads(p, c, y)
  BY <1>4 DEF Reached
<1>6. Up(v, x) \in p.nodes /\ Up(v, x) # n /\ c \in p.nodes
  BY <1>4, <1>5 DEF Reached, IsPicture
<1>7. c # n /\ Leads(q, c, y)
  BY <1>2, <1>5, <1>6, LessLeads
<1>8. Up(w, x) = Up(v, x)
  BY <1>6, <1>w, <1>2 DEF Up
<1> QED
  BY <1>5, <1>6, <1>7, <1>8, <1>q DEF Reached

-----------------------------------------------------------------------------
(* When every node waits, what is left is held. *)
LEMMA Drained ==
  ASSUME NEW R, NEW p, NEW v, Shape(R, p, v), \A x \in p.nodes : p.waits[x] # {}
  PROVE  \A x \in p.nodes \cap v.inner : v.top[x] # 0
<1> DEFINE Free == {x \in p.nodes \cap v.inner : v.top[x] = 0}
           Ranks == {v.rk[x] : x \in Free}
<1>1. SUFFICES ASSUME Free # {} PROVE FALSE
  OBVIOUS
<1>2. Ranks \in SUBSET Nat /\ Ranks # {}
  BY <1>1 DEF Shape, IsView, IsPicture
<1>3. PICK k \in Ranks : \A j \in Ranks : k <= j
  BY <1>2, LeastNatural
<1>4. PICK x \in Free : v.rk[x] = k
  BY <1>3
<1>5. PICK y \in p.waits[x] : TRUE
  BY <1>4
<1>6. InnerEdge(R, p, v, x, y)
  BY <1>4, <1>5 DEF Shape, InnerEdges
<1>7. y \in p.nodes /\ v.top[y] = 0 /\ v.rk[y] < v.rk[x]
  BY <1>4, <1>5, <1>6 DEF Shape, IsPicture, InnerEdge
<1>8. y \in v.inner
  <2>1. CASE y \in p.opens
    <3>1. y \in Roots(p, v) => v.top[y] = y
      BY DEF Shape, Tops
    <3> QED
      BY <2>1, <3>1, <1>7 DEF Roots, Shape, IsPicture
  <2> QED
    BY <2>1, <1>6 DEF InnerEdge
<1>9. v.rk[y] \in Ranks
  BY <1>7, <1>8
<1>10. v.rk[x] \in Nat /\ v.rk[y] \in Nat /\ v.rk[x] <= v.rk[y]
  BY <1>9, <1>3, <1>4, <1>7 DEF Shape, IsView, IsPicture
<1> QED
  BY <1>7, <1>10

-----------------------------------------------------------------------------
(* The walk. *)
Lighter(p, q, n, d) ==
  /\ q.nodes = p.nodes
  /\ q.opens = p.opens
  /\ q.closes = p.closes
  /\ \A x \in p.nodes : q.name[x] = p.name[x]
  /\ \A x \in p.nodes \ {n} : q.waits[x] = p.waits[x]
  /\ q.waits[n] \subseteq p.waits[n]
  /\ p.waits[n] \subseteq q.waits[n] \cup {d}

(* An edge is gone: the shape stays. *)
LEMMA LighterShape ==
  ASSUME NEW R, NEW p, NEW q, NEW v, NEW n, NEW d,
         Shape(R, p, v), n \in p.nodes, Lighter(p, q, n, d)
  PROVE  Shape(R, q, v)
<1>p. IsPicture(p)
  BY DEF Shape
<1>q. /\ q.nodes = p.nodes
      /\ q.opens = p.opens
      /\ q.closes = p.closes
      /\ \A x \in p.nodes : q.name[x] = p.name[x]
      /\ \A x \in p.nodes : q.waits[x] \subseteq p.waits[x]
  BY DEF Lighter
<1>1. IsPicture(q)
  BY <1>p, <1>q DEF IsPicture
<1>2. Roots(q, v) = Roots(p, v) /\ Plain(q) = Plain(p) /\ Buried(q) \subseteq Buried(p)
  BY <1>q, <1>p DEF Roots, Plain, Buried, IsPicture
<1>3. InnerEdges(R, q, v)
  <2>1. SUFFICES ASSUME NEW x \in q.nodes \cap v.inner, NEW y \in q.waits[x]
                 PROVE  InnerEdge(R, q, v, x, y)
    BY DEF InnerEdges
  <2>2. InnerEdge(R, p, v, x, y)
    BY <1>q DEF Shape, InnerEdges
  <2> QED BY <2>2, <1>q DEF InnerEdge
<1>4. OuterEdges(R, q, v)
  <2>1. SUFFICES ASSUME NEW x \in q.nodes \ v.inner, NEW y \in q.waits[x]
                 PROVE  OuterEdge(R, q, v, x, y)
    BY DEF OuterEdges
  <2>2. OuterEdge(R, p, v, x, y)
    BY <1>q DEF Shape, OuterEdges
  <2> QED BY <2>2, <1>q, <1>2 DEF OuterEdge
<1>5. Tops(R, q, v)
  <2>1. ASSUME NEW x \in q.nodes \cap v.inner PROVE Topped(R, q, v, x)
    BY <1>q, <1>2 DEF Shape, Tops, Topped
  <2> QED BY <1>q, <1>2, <2>1 DEF Shape, Tops
<1>6. Reps(q, v)
  BY <1>q, <1>2 DEF Shape, Reps, Plain
<1> QED BY <1>1, <1>3, <1>4, <1>5, <1>6 DEF Shape

(* Mutual need is transitive. *)
LEMMA SameTrans ==
  ASSUME NEW R, Preorder(R), NEW a \in Nat, NEW b \in Nat, NEW c \in Nat,
         Same(R, a, b), Same(R, b, c)
  PROVE  Same(R, a, c)
  BY DEF Preorder, Same

(* What is led to along closing nodes needs and is needed. *)
LEMMA LeadsSame ==
  ASSUME NEW R, NEW p, NEW v, NEW c, NEW y, Preorder(R), Shape(R, p, v), c \in p.nodes, Leads(p, c, y)
  PROVE  y \in p.nodes /\ Same(R, v.rep[c], v.rep[y])
<1> DEFINE X == {z \in p.nodes : Same(R, v.rep[c], v.rep[z])}
<1>1. IsPicture(p) /\ IsView(v) /\ p.closes \subseteq v.inner
  BY DEF Shape, Tops
<1>2. c \in X
  BY <1>1 DEF Preorder, Same, IsPicture, IsView
<1>3. Under(p, X)
  <2>1. SUFFICES ASSUME NEW k \in X \cap p.closes, NEW z \in p.waits[k] PROVE z \in X
    BY DEF Under
  <2>2. k \in p.nodes \cap v.inner /\ z \in p.nodes
    BY <1>1 DEF IsPicture
  <2>3. Same(R, v.rep[k], v.rep[z])
    BY <2>2 DEF Shape, InnerEdges, InnerEdge
  <2>4. v.rep[c] \in Nat /\ v.rep[k] \in Nat /\ v.rep[z] \in Nat
    BY <2>2, <1>1 DEF IsView, IsPicture
  <2> QED BY <2>2, <2>3, <2>4, SameTrans
<1>4. y \in X
  BY <1>2, <1>3 DEF Leads
<1> QED BY <1>4

(* The edge the walk tears is none of those Leads goes along. *)
LEMMA LighterLeads ==
  ASSUME NEW p, NEW q, NEW n, NEW d, NEW c, NEW y,
         n \in p.nodes, Lighter(p, q, n, d), n \in p.closes => d \in p.opens, Leads(p, c, y)
  PROVE  Leads(q, c, y)
<1>1. SUFFICES ASSUME NEW X \in SUBSET q.nodes, c \in X, Under(q, X) PROVE y \in X
  BY DEF Leads
<1>2. Under(p, X)
  BY <1>1 DEF Under, Lighter
<1> QED BY <1>1, <1>2 DEF Leads, Lighter

(* What the walk may have torn so far: from front to at. *)
Torn(R, p, v, front, at, x, y) ==
  front # 0 /\ <<v.rep[front], p.name[x]>> \in R /\ <<p.name[y], v.rep[at]>> \in R
(* The imports are waited for, but for what was torn. *)
CoversBut(R, I, p, v, front, at) ==
  \A x, y \in Plain(p) :
    Imports(R, I, p, x, y) /\ ~Torn(R, p, v, front, at, x, y) => Reached(p, Up(v, x), y)

(* The strung nodes begin with front, and none is buried but perhaps       *)
(* front.                                                                  *)
Fronted(p, S, at, front) ==
  /\ front = 0 => S = {}
  /\ front # 0 => front \in S /\ at \notin Buried(p)
  /\ \A x \in S : x # front => x \notin Buried(p)
(* The walk met each outermost opening node, or begins there. *)
RootsSeen(p, v, S, F, at, front) ==
  \A r \in Roots(p, v) : r \in F \cup S \/ (r = at /\ front = 0)
(* The walk goes along needs. *)
Along(R, v, S, at, front) ==
  front # 0 => /\ <<v.rep[front], v.rep[at]>> \in R
               /\ \A s \in S : <<v.rep[front], v.rep[s]>> \in R /\ <<v.rep[s], v.rep[at]>> \in R
(* A walk inside a pair goes on to its opening node. *)
Climbs(p, v, S, at) ==
  \A x \in S \cap v.inner :
    v.top[x] \in S \/ (v.top[at] = v.top[x] /\ at \in v.inner \cup p.opens)
(* A walk that began inside a pair goes down in rank while it is inside. *)
Rises(v, S, at, front) ==
  front # 0 /\ front \in v.inner /\ v.top[front] \notin S => v.rk[at] < v.rk[front]

(* The invariant of the walk. *)
Going(R, I, p, v, S, F, at, front) ==
  /\ at \in p.nodes
  /\ S \subseteq p.nodes
  /\ Fronted(p, S, at, front)
  /\ RootsSeen(p, v, S, F, at, front)
  /\ Along(R, v, S, at, front)
  /\ Climbs(p, v, S, at)
  /\ Rises(v, S, at, front)
  /\ CoversBut(R, I, p, v, front, at)

(* No outermost pair is open: each opening node is there. *)
AllTopped(p, v) == \A x \in p.nodes \cap v.inner : v.top[x] # 0

(* The node at leads on to d. *)
LeadsOn(p, S, at, d) == /\ at \in p.nodes \ S
                        /\ d \in p.waits[at]
                        /\ at \in p.closes => d \in p.opens

(* What an edge of the picture the walk takes is like. *)
LEMMA OnFacts ==
  ASSUME NEW R, NEW p, NEW v, NEW S, NEW n, NEW d, Preorder(R), Shape(R, p, v), LeadsOn(p, S, n, d)
  PROVE  /\ d \in p.nodes /\ n \in p.nodes
         /\ n \in Nat /\ d \in Nat
         /\ d \notin Buried(p)
         /\ <<v.rep[n], v.rep[d]>> \in R
         /\ n \in v.inner => d \in p.opens /\ v.top[d] = v.top[n] /\ v.rk[d] < v.rk[n]
         /\ n \in p.opens \ v.inner => v.top[n] = n
<1>1. IsPicture(p) /\ IsView(v) /\ p.closes \subseteq v.inner
  BY DEF Shape, Tops
<1>2. d \in p.nodes /\ n \in p.nodes /\ d \in p.waits[n]
  BY <1>1 DEF LeadsOn, IsPicture
<1>3. n \in p.opens \ v.inner => v.top[n] = n
  BY DEF Shape, Tops, Roots
<1>4. CASE n \in v.inner
  <2>1. InnerEdge(R, p, v, n, d)
    BY <1>2, <1>4 DEF Shape, InnerEdges
  <2>2. d \in p.opens
    BY <2>1 DEF InnerEdge, LeadsOn
  <2> QED BY <1>1, <1>2, <1>3, <1>4, <2>1, <2>2 DEF InnerEdge, Same, Buried, IsPicture
<1>5. CASE n \notin v.inner
  <2>1. OuterEdge(R, p, v, n, d)
    BY <1>2, <1>5 DEF Shape, OuterEdges
  <2>2. d \notin Buried(p)
    <3>1. SUFFICES ASSUME NEW c \in p.closes, d \in p.waits[c], d \notin p.opens, d \notin v.inner
                   PROVE FALSE
      BY <2>1 DEF OuterEdge, Buried
    <3>2. InnerEdge(R, p, v, c, d)
      BY <1>1, <3>1 DEF Shape, InnerEdges, IsPicture
    <3> QED BY <3>1, <3>2 DEF InnerEdge
  <2> QED BY <1>1, <1>2, <1>3, <1>5, <2>1, <2>2 DEF OuterEdge, IsPicture
<1> QED BY <1>4, <1>5

(* The walk goes on from a node it flags. *)
LEMMA VisitGoes ==
  ASSUME NEW R, NEW I, NEW p, NEW v, NEW S, NEW F, NEW n, NEW front, NEW d,
         Preorder(R), Shape(R, p, v), Going(R, I, p, v, S, F, n, front),
         LeadsOn(p, S, n, d), n \notin F
  PROVE  Going(R, I, p, v, S, F \cup {n}, d, front)
<1>a. /\ d \in p.nodes /\ n \in p.nodes
      /\ d \notin Buried(p)
      /\ <<v.rep[n], v.rep[d]>> \in R
      /\ n \in v.inner => d \in p.opens /\ v.top[d] = v.top[n] /\ v.rk[d] < v.rk[n]
      /\ n \in p.opens \ v.inner => v.top[n] = n
  BY OnFacts
<1>b. \A x \in p.nodes : x \in Nat /\ v.rep[x] \in Nat /\ v.rk[x] \in Nat
  BY DEF Shape, IsPicture, IsView
<1>c. /\ S \subseteq p.nodes
      /\ Fronted(p, S, n, front)
      /\ RootsSeen(p, v, S, F, n, front)
      /\ Along(R, v, S, n, front)
      /\ Climbs(p, v, S, n)
      /\ Rises(v, S, n, front)
      /\ CoversBut(R, I, p, v, front, n)
  BY DEF Going
<1>d. front # 0 => front \in p.nodes
  BY <1>c DEF Fronted
<1>e. n \notin S
  BY DEF LeadsOn
<1>r. n \in Roots(p, v) => S = {}
  BY <1>c, <1>e DEF RootsSeen, Fronted
<1>1. Fronted(p, S, d, front)
  BY <1>a, <1>c DEF Fronted
<1>2. RootsSeen(p, v, S, F \cup {n}, d, front)
  BY <1>c DEF RootsSeen
<1>3. Along(R, v, S, d, front)
  BY <1>a, <1>b, <1>c, <1>d DEF Along, Preorder
<1>4. Climbs(p, v, S, d)
  BY <1>a, <1>c, <1>r DEF Climbs, Roots
<1>5. Rises(v, S, d, front)
  <2>1. SUFFICES ASSUME front # 0, front \in v.inner, v.top[front] \notin S
                 PROVE  v.rk[d] < v.rk[front]
    BY DEF Rises
  <2>2. front \in S /\ v.rk[n] < v.rk[front]
    BY <2>1, <1>c DEF Fronted, Rises
  <2>3. n \in v.inner \cup p.opens
    BY <2>1, <2>2, <1>c DEF Climbs
  <2>4. n \in v.inner
    BY <2>2, <2>3, <1>r, <1>a DEF Roots
  <2> QED BY <2>2, <2>4, <1>a, <1>b, <1>d, <2>1
<1>6. CoversBut(R, I, p, v, front, d)
  <2>1. SUFFICES ASSUME NEW x \in Plain(p), NEW y \in Plain(p), Imports(R, I, p, x, y),
                        ~Torn(R, p, v, front, d, x, y)
                 PROVE  ~Torn(R, p, v, front, n, x, y)
    BY <1>c DEF CoversBut
  <2>2. v.rep[y] = p.name[y] /\ p.name[y] \in Nat
    BY <1>b DEF Shape, Reps, Plain
  <2> QED BY <2>1, <2>2, <1>a, <1>b DEF Torn, Preorder
<1> QED BY <1>a, <1>c, <1>1, <1>2, <1>3, <1>4, <1>5, <1>6 DEF Going

(* The walk goes on from a node it strings, and tears its first edge. *)
LEMMA RevisitGoes ==
  ASSUME NEW R, NEW I, NEW p, NEW q, NEW v, NEW S, NEW F, NEW F2, NEW n, NEW front, NEW front2, NEW d,
         Preorder(R), Shape(R, p, v), Going(R, I, p, v, S, F, n, front),
         LeadsOn(p, S, n, d), Lighter(p, q, n, d), AllTopped(p, v),
         front # n, front2 = IF front = 0 THEN n ELSE front,
         F \subseteq F2 \cup {n}
  PROVE  Going(R, I, q, v, S \cup {n}, F2, d, front2)
<1> DEFINE T == S \cup {n}
<1>a. /\ d \in p.nodes /\ n \in p.nodes
      /\ d \notin Buried(p)
      /\ <<v.rep[n], v.rep[d]>> \in R
      /\ n \in v.inner => d \in p.opens /\ v.top[d] = v.top[n] /\ v.rk[d] < v.rk[n]
      /\ n \in p.opens \ v.inner => v.top[n] = n
  BY OnFacts
<1>b. \A x \in p.nodes : x \in Nat /\ x # 0 /\ v.rep[x] \in Nat /\ v.rk[x] \in Nat
  BY DEF Shape, IsPicture, IsView
<1>c. /\ S \subseteq p.nodes
      /\ Fronted(p, S, n, front)
      /\ RootsSeen(p, v, S, F, n, front)
      /\ Along(R, v, S, n, front)
      /\ Climbs(p, v, S, n)
      /\ Rises(v, S, n, front)
      /\ CoversBut(R, I, p, v, front, n)
  BY DEF Going
<1>d. front # 0 => front \in S /\ front \in p.nodes
  BY <1>c DEF Fronted
<1>f. front2 # 0 /\ front2 \in T /\ front2 \in p.nodes
  BY <1>d, <1>a, <1>b
<1>q. /\ q.nodes = p.nodes /\ q.opens = p.opens /\ q.closes = p.closes
      /\ \A x \in p.nodes : q.name[x] = p.name[x]
      /\ \A x \in p.nodes : q.waits[x] \subseteq p.waits[x]
  BY DEF Lighter
<1>g. Roots(q, v) = Roots(p, v) /\ Plain(q) = Plain(p) /\ Buried(q) \subseteq Buried(p)
  BY <1>q DEF Roots, Plain, Buried, Shape, IsPicture
<1>1. Fronted(q, T, d, front2)
  BY <1>a, <1>c, <1>f, <1>g DEF Fronted
<1>2. RootsSeen(q, v, T, F2, d, front2)
  BY <1>c, <1>g DEF RootsSeen
<1>n. <<v.rep[front2], v.rep[n]>> \in R
  BY <1>c, <1>a, <1>b DEF Along, Preorder
<1>3. Along(R, v, T, d, front2)
  <2>1. <<v.rep[front2], v.rep[d]>> \in R
    BY <1>n, <1>a, <1>b, <1>f DEF Preorder
  <2>2. ASSUME NEW s \in T PROVE <<v.rep[front2], v.rep[s]>> \in R /\ <<v.rep[s], v.rep[d]>> \in R
    <3>1. CASE s = n
      BY <3>1, <1>n, <1>a
    <3>2. CASE s # n
      <4>1. s \in S /\ front # 0 /\ s \in p.nodes
        BY <3>2, <1>c DEF Fronted
      <4>2. <<v.rep[front], v.rep[s]>> \in R /\ <<v.rep[s], v.rep[n]>> \in R
        BY <4>1, <1>c DEF Along
      <4> QED BY <4>1, <4>2, <1>a, <1>b DEF Preorder
    <3> QED BY <3>1, <3>2
  <2> QED BY <2>1, <2>2 DEF Along
<1>4. Climbs(q, v, T, d)
  BY <1>a, <1>c, <1>q DEF Climbs, Roots
<1>5. Rises(v, T, d, front2)
  <2>1. SUFFICES ASSUME front2 \in v.inner, v.top[front2] \notin T
                 PROVE  v.rk[d] < v.rk[front2]
    BY DEF Rises
  <2>2. CASE front = 0
    BY <2>1, <2>2, <1>a
  <2>3. CASE front # 0
    <3>1. front \in S /\ v.rk[n] < v.rk[front]
      BY <2>1, <2>3, <1>c, <1>d DEF Rises
    <3>2. n \in v.inner \cup p.opens /\ v.top[n] = v.top[front]
      BY <2>1, <2>3, <3>1, <1>c DEF Climbs
    <3>3. n \in v.inner
      BY <3>2, <2>1, <2>3, <1>a
    <3>4. v.rk[d] < v.rk[n] /\ front2 = front /\ v.rk[n] \in Nat /\ v.rk[d] \in Nat /\ v.rk[front] \in Nat
      BY <3>3, <2>3, <1>a, <1>b, <1>d
    <3> QED BY <3>1, <3>4
  <2> QED BY <2>2, <2>3
<1>6. CoversBut(R, I, q, v, front2, d)
  <2>1. SUFFICES ASSUME NEW x \in Plain(p), NEW y \in Plain(p), Imports(R, I, q, x, y),
                        ~Torn(R, q, v, front2, d, x, y)
                 PROVE  Reached(q, Up(v, x), y)
    BY <1>g DEF CoversBut
  <2>2. /\ x \in p.nodes /\ y \in p.nodes
        /\ v.rep[y] = p.name[y] /\ p.name[y] \in Nat /\ v.rep[x] = p.name[x] /\ p.name[x] \in Nat
    BY <1>b DEF Shape, Reps, Plain
  <2>3. Imports(R, I, p, x, y)
    BY <2>1, <2>2, <1>q DEF Imports
  <2>4. ~(<<v.rep[front2], p.name[x]>> \in R /\ <<p.name[y], v.rep[d]>> \in R)
    BY <2>1, <2>2, <1>q, <1>f DEF Torn
  <2>5. ~Torn(R, p, v, front, n, x, y)
    BY <2>2, <2>4, <1>a, <1>b DEF Torn, Preorder
  <2>6. Reached(p, Up(v, x), y)
    BY <2>3, <2>5, <1>c DEF CoversBut
  <2>7. PICK c \in p.waits[Up(v, x)] : Leads(p, c, y)
    BY <2>6 DEF Reached
  <2>8. Up(v, x) \in p.nodes /\ c \in p.nodes
    BY <2>6, <2>7 DEF Reached, Shape, IsPicture
  <2>9. Leads(q, c, y)
    BY <2>7, LighterLeads DEF LeadsOn
  <2>10. CASE c \in q.waits[Up(v, x)]
    BY <2>8, <2>9, <2>10, <1>q DEF Reached
  <2>11. CASE c \notin q.waits[Up(v, x)]
    <3>1. Up(v, x) = n /\ c = d
      BY <2>7, <2>8, <2>11 DEF Lighter
    <3>2. Same(R, v.rep[d], v.rep[y])
      BY <2>7, <2>8, <3>1, LeadsSame
    <3>3. <<v.rep[n], v.rep[x]>> \in R
      <4>1. CASE x \in v.inner
        <5>1. Topped(R, p, v, x) /\ v.top[x] = n /\ v.top[x] # 0
          BY <4>1, <3>1, <2>2, <1>a, <1>b DEF Shape, Tops, Up
        <5> QED BY <5>1 DEF Topped, Same
      <4>2. CASE x \notin v.inner
        BY <4>2, <3>1, <2>2, <1>b DEF Up, Preorder
      <4> QED BY <4>1, <4>2
    <3> QED BY <3>2, <3>3, <2>2, <2>4, <1>a, <1>b, <1>n, <1>f DEF Same, Preorder
  <2> QED BY <2>10, <2>11
<1> QED BY <1>a, <1>c, <1>q, <1>1, <1>2, <1>3, <1>4, <1>5, <1>6 DEF Going

(* The walk ends where it began. *)
Ring(R, I, p, v, S, F) ==
  /\ S \subseteq p.nodes /\ S # {} /\ S \cap Buried(p) = {}
  /\ \A x, y \in S : Same(R, v.rep[x], v.rep[y])
  /\ \A x \in S \cap v.inner : v.top[x] \in S
  /\ Roots(p, v) \subseteq F \cup S
  /\ Covers(R, I, p, v)

(* Where the walk comes back to its front, what it tore lies on a cycle. *)
LEMMA RingCloses ==
  ASSUME NEW R, NEW I, NEW p, NEW v, NEW S, NEW F, NEW at,
         Preorder(R), Shape(R, p, v), Going(R, I, p, v, S, F, at, at), AllTopped(p, v),
         \A a, b \in Nat : <<a, b>> \in I => <<a, b>> \in R
  PROVE  Ring(R, I, p, v, S, F)
<1>b. \A x \in p.nodes : x \in Nat /\ x # 0 /\ v.rep[x] \in Nat /\ v.rk[x] \in Nat
  BY DEF Shape, IsPicture, IsView
<1>c. /\ S \subseteq p.nodes /\ at \in p.nodes
      /\ Fronted(p, S, at, at)
      /\ RootsSeen(p, v, S, F, at, at)
      /\ Along(R, v, S, at, at)
      /\ Climbs(p, v, S, at)
      /\ Rises(v, S, at, at)
      /\ CoversBut(R, I, p, v, at, at)
  BY DEF Going
<1>1. at # 0 /\ at \in S /\ at \notin Buried(p)
  BY <1>b, <1>c DEF Fronted
<1>2. S \cap Buried(p) = {}
  BY <1>1, <1>c DEF Fronted
<1>3. ASSUME NEW x \in S, NEW y \in S PROVE Same(R, v.rep[x], v.rep[y])
  BY <1>b, <1>c, <1>1 DEF Along, Same, Preorder
<1>4. ASSUME NEW x \in S \cap v.inner PROVE v.top[x] \in S
  <2>1. at \in v.inner => v.top[at] \in S
    BY <1>b, <1>c, <1>1 DEF Rises
  <2>2. at \in p.opens \ v.inner => v.top[at] = at
    BY DEF Shape, Tops, Roots
  <2> QED BY <1>1, <1>c, <2>1, <2>2 DEF Climbs
<1>5. Roots(p, v) \subseteq F \cup S
  BY <1>1, <1>c DEF RootsSeen
<1>6. Covers(R, I, p, v)
  <2>1. SUFFICES ASSUME NEW x \in Plain(p), NEW y \in Plain(p), Imports(R, I, p, x, y),
                        Torn(R, p, v, at, at, x, y)
                 PROVE FALSE
    BY <1>c DEF Covers, CoversBut
  <2>2. p.name[y] \in Nat /\ p.name[x] \in Nat
    BY <1>b DEF Shape, Reps, Plain
  <2>3. v.rep[at] \in Nat /\ <<p.name[x], p.name[y]>> \in R /\ ~Same(R, p.name[x], p.name[y])
    BY <1>b, <1>c, <2>1, <2>2 DEF Imports
  <2>4. <<p.name[y], v.rep[at]>> \in R /\ <<v.rep[at], p.name[x]>> \in R
    BY <2>1 DEF Torn
  <2>5. <<p.name[y], p.name[x]>> \in R
    BY <2>2, <2>3, <2>4 DEF Preorder
  <2> QED BY <2>3, <2>5 DEF Same
<1> QED BY <1>c, <1>1, <1>2, <1>3, <1>4, <1>5, <1>6 DEF Ring

-----------------------------------------------------------------------------
(* The nodes of the ring are hung between O and C. *)
Hung(p, S, C, X) == (X \ (S \ p.opens)) \cup {c \in {C} : X \cap (S \ p.opens) # {}}

(* q is p where the nodes of S were put between O and C. *)
Contracted(p, q, S, O, C) ==
  /\ q.nodes = p.nodes \cup {O, C}
  /\ q.opens = p.opens \cup {O}
  /\ q.closes = p.closes \cup {C}
  /\ \A x \in p.nodes : q.name[x] = p.name[x]
  /\ \A x \in p.nodes \ S : q.waits[x] = Hung(p, S, C, p.waits[x])
  /\ \A x \in S \ p.closes : q.waits[x] = {O}
  /\ \A x \in S \cap p.closes : q.waits[x] = Hung(p, S, C, p.waits[x]) \cup {O}
  /\ q.waits[C] = S \cup {O}
  /\ q.waits[O] = Hung(p, S, C, UNION {p.waits[x] : x \in S \ p.closes})

(* Nothing but the pair is left to wait for inside the ring. *)
Loose(p, v, S) == \A x \in (S \cap v.inner) \ p.closes : p.waits[x] = {}

(* O and C are new. *)
NewPair(p, O, C) == O \in Nat \ {0} /\ C \in Nat \ {0} /\ O # C /\ O \notin p.nodes /\ C \notin p.nodes

(* The view of q: S is inside the new pair, and what had its outermost     *)
(* pair in S has the new one.                                              *)
Contraction(v, S, O, C, f, B) ==
  [inner |-> (v.inner \ {O}) \cup S \cup {C},
   top |-> [x \in Nat |-> IF x \in S \cup {O, C} \/ v.top[x] \in S THEN O ELSE v.top[x]],
   rep |-> [x \in Nat |-> IF x \in {O, C} THEN v.rep[f] ELSE v.rep[x]],
   rk |-> [x \in Nat |-> IF x = O THEN 0 ELSE IF x = C THEN B ELSE v.rk[x] + 1]]

(* What the lemmas below are about. *)
Hanging(R, p, q, v, S, O, C, f, B, w) ==
  /\ Preorder(R) /\ Shape(R, p, v)
  /\ S \subseteq p.nodes /\ S \cap Buried(p) = {} /\ f \in S
  /\ \A x, y \in S : Same(R, v.rep[x], v.rep[y])
  /\ \A x \in S \cap v.inner : v.top[x] \in S
  /\ AllTopped(p, v) /\ Loose(p, v, S) /\ NewPair(p, O, C) /\ Contracted(p, q, S, O, C)
  /\ B \in Nat /\ \A x \in S : v.rk[x] + 1 < B
  /\ w = Contraction(v, S, O, C, f, B)

(* The same, spelled out. *)
HangingFacts(p, q, v, S, O, C, f, B, w) ==
  /\ p.nodes \subseteq Nat \ {0} /\ O \in Nat \ {0} /\ C \in Nat \ {0} /\ O # C /\ O \notin p.nodes /\ C \notin p.nodes
  /\ p.opens \subseteq p.nodes /\ p.closes \subseteq p.nodes /\ p.closes \subseteq v.inner /\ p.opens \cap p.closes = {}
  /\ \A x \in Nat : v.rep[x] \in Nat /\ v.top[x] \in Nat /\ v.rk[x] \in Nat
  /\ w.inner = (v.inner \ {O}) \cup S \cup {C}
  /\ \A x \in p.nodes : /\ w.top[x] = IF x \in S \/ v.top[x] \in S THEN O ELSE v.top[x]
                        /\ w.rep[x] = v.rep[x]
                        /\ w.rk[x] = v.rk[x] + 1
  /\ w.top[O] = O /\ w.top[C] = O /\ w.rep[O] = v.rep[f] /\ w.rep[C] = v.rep[f]
  /\ w.rk[O] = 0 /\ w.rk[C] = B
  /\ IsView(w)

(* What Hanging says of the views. *)
LEMMA HangingDoes ==
  ASSUME NEW R, NEW p, NEW q, NEW v, NEW S, NEW O, NEW C, NEW f, NEW B, NEW w,
         Hanging(R, p, q, v, S, O, C, f, B, w)
  PROVE  HangingFacts(p, q, v, S, O, C, f, B, w)
<1>1. /\ IsPicture(p) /\ IsView(v) /\ Tops(R, p, v) /\ NewPair(p, O, C) /\ B \in Nat
      /\ w = Contraction(v, S, O, C, f, B) /\ S \subseteq p.nodes /\ f \in S
  BY DEF Hanging, Shape
<1>2. /\ p.nodes \subseteq Nat \ {0} /\ O \in Nat \ {0} /\ C \in Nat \ {0} /\ O # C /\ O \notin p.nodes /\ C \notin p.nodes
      /\ p.opens \subseteq p.nodes /\ p.closes \subseteq p.nodes /\ p.closes \subseteq v.inner /\ p.opens \cap p.closes = {}
      /\ \A x \in Nat : v.rep[x] \in Nat /\ v.top[x] \in Nat /\ v.rk[x] \in Nat
      /\ v.inner \subseteq Nat
  BY <1>1 DEF IsPicture, IsView, Tops, NewPair
<1>3. /\ w.inner = (v.inner \ {O}) \cup S \cup {C}
      /\ \A x \in Nat : /\ w.top[x] = IF x \in S \cup {O, C} \/ v.top[x] \in S THEN O ELSE v.top[x]
                        /\ w.rep[x] = IF x \in {O, C} THEN v.rep[f] ELSE v.rep[x]
                        /\ w.rk[x] = IF x = O THEN 0 ELSE IF x = C THEN B ELSE v.rk[x] + 1
  BY <1>1 DEF Contraction
<1>4. IsView(w)
  <2>1. w.inner \subseteq Nat
    BY <1>1, <1>2, <1>3
  <2>2. f \in Nat
    BY <1>1, <1>2
  <2>3. ASSUME NEW x \in Nat PROVE w.top[x] \in Nat /\ w.rep[x] \in Nat /\ w.rk[x] \in Nat
    BY <1>1, <1>2, <1>3, <2>2
  <2> QED BY <2>1, <2>3 DEF IsView
<1> QED BY <1>2, <1>3, <1>4 DEF HangingFacts

(* What a closing node waits for, and all else inside but the opening      *)
(* nodes, is not of the ring.                                              *)
LEMMA HangsNone ==
  ASSUME NEW R, NEW p, NEW q, NEW v, NEW S, NEW O, NEW C, NEW f, NEW B, NEW w,
         Hanging(R, p, q, v, S, O, C, f, B, w), NEW x \in p.nodes \cap v.inner
  PROVE  Hung(p, S, C, p.waits[x]) = p.waits[x] /\ p.waits[x] \subseteq p.nodes
<1>1. /\ InnerEdges(R, p, v) /\ IsPicture(p) /\ S \cap Buried(p) = {}
  BY DEF Hanging, Shape
<1>2. p.waits[x] \cap (S \ p.opens) = {}
  <2>1. SUFFICES ASSUME NEW y \in p.waits[x], y \in S, y \notin p.opens PROVE FALSE
    OBVIOUS
  <2>2. InnerEdge(R, p, v, x, y)
    BY <1>1 DEF InnerEdges
  <2>3. x \in p.closes
    BY <2>1, <2>2 DEF InnerEdge
  <2>4. y \in Buried(p)
    BY <2>1, <2>3, <1>1 DEF Buried, IsPicture
  <2> QED BY <2>1, <2>4, <1>1
<1> QED BY <1>1, <1>2 DEF Hung, IsPicture

(* The nodes are hung: the shape stays. *)
LEMMA HungShape ==
  ASSUME NEW R, NEW p, NEW q, NEW v, NEW S, NEW O, NEW C, NEW f, NEW B, NEW w,
         Hanging(R, p, q, v, S, O, C, f, B, w)
  PROVE  Shape(R, q, w)
<1>h. HangingFacts(p, q, v, S, O, C, f, B, w)
  BY HangingDoes
<1>a. /\ p.nodes \subseteq Nat \ {0} /\ O \in Nat \ {0} /\ C \in Nat \ {0} /\ O # C /\ O \notin p.nodes /\ C \notin p.nodes
      /\ p.opens \subseteq p.nodes /\ p.closes \subseteq p.nodes /\ p.closes \subseteq v.inner /\ p.opens \cap p.closes = {}
      /\ \A x \in Nat : v.rep[x] \in Nat /\ v.top[x] \in Nat /\ v.rk[x] \in Nat
      /\ w.inner = (v.inner \ {O}) \cup S \cup {C}
  BY <1>h DEF HangingFacts
<1>w. /\ \A x \in p.nodes : /\ w.top[x] = IF x \in S \/ v.top[x] \in S THEN O ELSE v.top[x]
                            /\ w.rep[x] = v.rep[x]
                            /\ w.rk[x] = v.rk[x] + 1
      /\ w.top[O] = O /\ w.top[C] = O /\ w.rep[O] = v.rep[f] /\ w.rep[C] = v.rep[f]
      /\ w.rk[O] = 0 /\ w.rk[C] = B
  BY <1>h DEF HangingFacts
<1>b. /\ Preorder(R) /\ Shape(R, p, v)
      /\ S \subseteq p.nodes /\ S \cap Buried(p) = {} /\ f \in S
      /\ \A x, y \in S : Same(R, v.rep[x], v.rep[y])
      /\ \A x \in S \cap v.inner : v.top[x] \in S
      /\ Loose(p, v, S)
      /\ B \in Nat /\ \A x \in S : v.rk[x] + 1 < B
  BY DEF Hanging
<1>c. /\ q.nodes = p.nodes \cup {O, C}
      /\ q.opens = p.opens \cup {O}
      /\ q.closes = p.closes \cup {C}
      /\ \A x \in p.nodes : q.name[x] = p.name[x]
  BY DEF Hanging, Contracted
<1>d. /\ \A x \in p.nodes \ S : q.waits[x] = Hung(p, S, C, p.waits[x])
      /\ \A x \in S \ p.closes : q.waits[x] = {O}
      /\ \A x \in S \cap p.closes : q.waits[x] = Hung(p, S, C, p.waits[x]) \cup {O}
      /\ q.waits[C] = S \cup {O}
      /\ q.waits[O] = Hung(p, S, C, UNION {p.waits[x] : x \in S \ p.closes})
  BY DEF Hanging, Contracted
<1>e. /\ IsPicture(p) /\ InnerEdges(R, p, v) /\ OuterEdges(R, p, v) /\ Tops(R, p, v) /\ Reps(p, v)
  BY <1>b DEF Shape
<1>f. ASSUME NEW x \in p.nodes \cap v.inner
      PROVE  /\ p.waits[x] \subseteq p.nodes
             /\ x \notin S => q.waits[x] = p.waits[x]
             /\ x \in S => q.waits[x] \subseteq p.waits[x] \cup {O}
  BY <1>d, HangsNone
<1>p. IsPicture(q)
  <2>1. \A x \in p.nodes : p.waits[x] \subseteq p.nodes
    BY <1>e DEF IsPicture
  <2>2. ASSUME NEW X \in SUBSET p.nodes PROVE Hung(p, S, C, X) \subseteq q.nodes
    BY <1>c DEF Hung
  <2>3. ASSUME NEW x \in q.nodes PROVE q.waits[x] \subseteq q.nodes
    <3>1. CASE x = O
      <4>1. UNION {p.waits[z] : z \in S \ p.closes} \in SUBSET p.nodes
        BY <2>1, <1>b
      <4> QED BY <4>1, <2>2, <1>d, <3>1
    <3>2. CASE x = C
      BY <3>2, <1>b, <1>c, <1>d
    <3>3. CASE x \in p.nodes \ S
      BY <3>3, <2>1, <2>2, <1>d
    <3>4. CASE x \in S \ p.closes
      BY <3>4, <1>c, <1>d
    <3>5. CASE x \in S \cap p.closes
      <4>1. Hung(p, S, C, p.waits[x]) \subseteq q.nodes
        BY <3>5, <2>1, <2>2, <1>b
      <4> QED BY <4>1, <3>5, <1>c, <1>d
    <3> QED BY <3>1, <3>2, <3>3, <3>4, <3>5, <1>c
  <2> QED BY <2>3, <1>a, <1>c DEF IsPicture
<1>r. Roots(q, w) = (Roots(p, v) \ S) \cup {O}
  <2>1. O \notin S /\ C \notin p.opens
    BY <1>a, <1>b
  <2> QED BY <2>1, <1>a, <1>c DEF Roots
<1>u. Buried(q) \subseteq Buried(p) \cup (S \ p.opens)
  <2>1. SUFFICES ASSUME NEW y \in q.nodes \ q.opens, NEW c \in q.closes, y \in q.waits[c]
                 PROVE  y \in Buried(p) \cup (S \ p.opens)
    BY DEF Buried
  <2>2. CASE c = C
    BY <2>1, <2>2, <1>c, <1>d
  <2>3. CASE c \in p.closes
    <3>1. q.waits[c] \subseteq p.waits[c] \cup {O} /\ p.waits[c] \subseteq p.nodes
      BY <2>3, <1>f, <1>a
    <3>2. y \in p.waits[c] /\ y \in p.nodes \ p.opens
      BY <2>1, <3>1, <1>c
    <3> QED BY <3>2, <2>3 DEF Buried
  <2> QED BY <2>1, <2>2, <2>3, <1>c
<1>i. InnerEdges(R, q, w)
  <2>1. SUFFICES ASSUME NEW x \in q.nodes \cap w.inner, NEW y \in q.waits[x]
                 PROVE  InnerEdge(R, q, w, x, y)
    BY DEF InnerEdges
  <2>f. \A z \in S : z \in p.nodes /\ v.rep[z] \in Nat /\ Same(R, v.rep[z], v.rep[f]) /\ Same(R, v.rep[f], v.rep[z])
    BY <1>a, <1>b
  <2>2. CASE x = C
    <3>1. CASE y = O
      BY <2>2, <3>1, <1>a, <1>b, <1>c, <1>w, <2>f DEF InnerEdge
    <3>2. CASE y \in S
      <4>1. w.rk[y] < w.rk[x]
        BY <2>2, <3>2, <1>b, <1>w
      <4> QED BY <4>1, <2>2, <3>2, <1>a, <1>b, <1>c, <1>w, <2>f DEF InnerEdge
    <3> QED BY <2>1, <2>2, <3>1, <3>2, <1>d
  <2>3. CASE x \in S /\ y = O
    <3>1. w.rk[y] < w.rk[x]
      BY <2>3, <1>a, <1>b, <1>w
    <3> QED BY <3>1, <2>3, <1>a, <1>b, <1>c, <1>w, <2>f DEF InnerEdge
  <2>4. CASE x \in p.nodes \cap v.inner /\ y \in p.waits[x]
    <3>1. InnerEdge(R, p, v, x, y) /\ y \in p.nodes
      BY <2>4, <1>f, <1>e DEF InnerEdges
    <3>2. w.rk[y] < w.rk[x]
      BY <3>1, <2>4, <1>a, <1>w DEF InnerEdge
    <3>3. y \in q.opens \/ (x \in q.closes /\ y \in w.inner)
      BY <3>1, <1>a, <1>c DEF InnerEdge
    <3>4. Same(R, w.rep[x], w.rep[y])
      BY <3>1, <2>4, <1>w DEF InnerEdge
    <3>5. v.top[y] = v.top[x]
      BY <3>1 DEF InnerEdge
    <3>6. y \in S => v.top[y] \in S
      <4>1. SUFFICES ASSUME y \in S, y \notin v.inner PROVE v.top[y] \in S
        BY <1>b
      <4>2. y \in p.opens
        BY <4>1, <3>1 DEF InnerEdge
      <4> QED BY <4>1, <4>2, <1>e DEF Tops, Roots
    <3>7. x \in S => v.top[x] \in S
      BY <1>b, <2>4
    <3>8. w.top[y] = w.top[x]
      BY <3>1, <3>5, <3>6, <3>7, <2>4, <1>w
    <3> QED BY <3>2, <3>3, <3>4, <3>8 DEF InnerEdge
  <2>5. CASE x \in S \ p.closes
    BY <2>1, <2>3, <2>5, <1>d
  <2>6. CASE x \in S \cap p.closes
    <3>1. y \in p.waits[x] \cup {O}
      BY <2>1, <2>6, <1>a, <1>b, <1>f
    <3> QED BY <3>1, <2>3, <2>4, <2>6, <1>a
  <2>7. CASE x \in p.nodes \ S
    <3>1. x \in v.inner
      BY <2>1, <2>7, <1>a
    <3> QED BY <2>1, <2>4, <2>7, <3>1, <1>f
  <2>8. x # O
    BY <2>1, <1>a, <1>b
  <2> QED BY <2>1, <2>2, <2>5, <2>6, <2>7, <2>8, <1>c
<1>o. OuterEdges(R, q, w)
  <2>1. SUFFICES ASSUME NEW x \in q.nodes \ w.inner, NEW y \in q.waits[x]
                 PROVE  OuterEdge(R, q, w, x, y)
    BY DEF OuterEdges
  <2>2. C \notin q.opens /\ C \in q.closes \ Buried(q)
    <3>1. C \notin Buried(p) \cup S
      BY <1>a, <1>b DEF Buried
    <3> QED BY <3>1, <1>a, <1>c, <1>u
  <2>3. ASSUME NEW z \in p.nodes \ v.inner, NEW k \in p.waits[z], k \notin S \ p.opens
        PROVE  /\ <<v.rep[z], w.rep[k]>> \in R
               /\ k \notin q.opens
               /\ k \in w.inner => k \in q.closes \ Buried(q)
    <3>1. OuterEdge(R, p, v, z, k) /\ k \in p.nodes
      BY <1>e DEF OuterEdges, IsPicture
    <3>2. k \notin p.opens /\ k \notin S
      BY <3>1, <2>3 DEF OuterEdge
    <3> QED BY <3>1, <3>2, <1>a, <1>c, <1>u, <1>w DEF OuterEdge
  <2>4. CASE x \in p.nodes
    <3>1. x \in p.nodes \ v.inner /\ x \notin S /\ w.rep[x] = v.rep[x] /\ q.waits[x] = Hung(p, S, C, p.waits[x])
      BY <2>1, <2>4, <1>a, <1>w, <1>d
    <3>2. CASE y = C
      <4>1. PICK z \in p.waits[x] : z \in S
        <5>1. y \notin p.waits[x]
          BY <3>1, <3>2, <1>a, <1>e DEF IsPicture
        <5> QED BY <5>1, <2>1, <3>1, <3>2 DEF Hung
      <4>2. OuterEdge(R, p, v, x, z)
        BY <3>1, <4>1, <1>e DEF OuterEdges
      <4>3. <<v.rep[x], v.rep[z]>> \in R /\ <<v.rep[z], v.rep[f]>> \in R
        BY <4>1, <4>2, <1>b DEF OuterEdge, Same
      <4>4. v.rep[x] \in Nat /\ v.rep[z] \in Nat /\ v.rep[f] \in Nat
        BY <3>1, <4>1, <1>a, <1>b
      <4>5. <<v.rep[x], v.rep[f]>> \in R
        BY <4>3, <4>4, <1>b DEF Preorder
      <4> QED BY <4>5, <3>1, <3>2, <2>2, <1>w DEF OuterEdge
    <3>3. CASE y # C
      <4>1. y \in p.waits[x] /\ y \notin S \ p.opens
        BY <2>1, <3>1, <3>3 DEF Hung
      <4> QED BY <4>1, <2>3, <3>1 DEF OuterEdge
    <3> QED BY <3>2, <3>3
  <2>5. CASE x = O
    <3>0. f \in Nat /\ v.rep[f] \in Nat /\ w.rep[x] = v.rep[f]
      BY <2>5, <1>a, <1>b, <1>w
    <3>2. CASE y = C
      <4>1. <<v.rep[f], v.rep[f]>> \in R
        BY <3>0, <1>b DEF Preorder
      <4> QED BY <4>1, <3>0, <3>2, <2>2, <1>w DEF OuterEdge
    <3>3. CASE y # C
      <4>0. y \in Hung(p, S, C, UNION {p.waits[z] : z \in S \ p.closes})
        BY <2>1, <2>5, <1>d
      <4>1. y \in UNION {p.waits[z] : z \in S \ p.closes} /\ y \notin S \ p.opens
        BY <4>0, <3>3 DEF Hung
      <4>2. PICK z \in S \ p.closes : y \in p.waits[z]
        BY <4>1
      <4>3. z \in p.nodes \ v.inner
        BY <4>2, <1>b DEF Loose
      <4>4. /\ <<v.rep[z], w.rep[y]>> \in R
            /\ y \notin q.opens
            /\ y \in w.inner => y \in q.closes \ Buried(q)
        BY <2>3, <4>1, <4>2, <4>3
      <4>5. <<v.rep[f], v.rep[z]>> \in R
        BY <4>2, <1>b DEF Same
      <4>6. y \in p.nodes
        BY <4>2, <4>3, <1>e DEF IsPicture
      <4>7. v.rep[z] \in Nat /\ w.rep[y] \in Nat
        BY <4>3, <4>6, <1>a, <1>w
      <4>8. <<v.rep[f], w.rep[y]>> \in R
        BY <4>4, <4>5, <4>7, <3>0, <1>b DEF Preorder
      <4> QED BY <4>4, <4>8, <3>0 DEF OuterEdge
    <3> QED BY <3>2, <3>3
  <2>6. x # C
    BY <2>1, <1>a
  <2> QED BY <2>4, <2>5, <2>6, <1>c
<1>t. Tops(R, q, w)
  <2>1. q.closes \subseteq w.inner
    BY <1>a, <1>c
  <2>2. ASSUME NEW o \in Roots(q, w) PROVE w.top[o] = o
    <3>1. CASE o = O
      BY <3>1, <1>w
    <3>2. CASE o \in Roots(p, v) \ S
      <4>1. v.top[o] = o /\ o \in p.nodes
        BY <3>2, <1>e DEF Tops, Roots, IsPicture
      <4> QED BY <4>1, <3>2, <1>w
    <3> QED BY <3>1, <3>2, <1>r
  <2>3. ASSUME NEW x \in q.nodes \cap w.inner PROVE Topped(R, q, w, x)
    <3>1. CASE x = C
      <4>1. Same(R, v.rep[f], v.rep[f])
        BY <1>b
      <4> QED BY <3>1, <4>1, <1>r, <1>w DEF Topped
    <3>2. CASE x \in S
      <4>1. Same(R, v.rep[x], v.rep[f])
        BY <3>2, <1>b
      <4>2. w.top[x] = O /\ w.rep[x] = v.rep[x]
        BY <3>2, <1>b, <1>w
      <4> QED BY <4>1, <4>2, <1>r, <1>w DEF Topped
    <3>3. CASE x \in p.nodes \ S
      <4>1. Topped(R, p, v, x) /\ x \in p.nodes /\ x \in Nat
        BY <2>3, <3>3, <1>a, <1>e DEF Tops
      <4>2. CASE v.top[x] \in S
        <5>1. v.top[x] # 0 /\ v.top[x] \in Nat
          BY <4>2, <1>a, <1>b
        <5>2. Same(R, v.rep[x], v.rep[v.top[x]]) /\ Same(R, v.rep[v.top[x]], v.rep[f])
          BY <4>1, <4>2, <5>1, <1>b DEF Topped
        <5>3. v.rep[x] \in Nat /\ v.rep[v.top[x]] \in Nat /\ v.rep[f] \in Nat
          BY <4>1, <5>1, <1>a, <1>b
        <5>4. Same(R, v.rep[x], v.rep[f])
          BY <5>2, <5>3, <1>b, SameTrans
        <5> QED BY <4>1, <4>2, <5>4, <1>r, <1>w DEF Topped
      <4>3. CASE v.top[x] \notin S
        <5>1. w.top[x] = v.top[x] /\ w.rep[x] = v.rep[x]
          BY <4>1, <4>3, <3>3, <1>w
        <5>2. v.top[x] # 0 => v.top[x] \in p.nodes
          BY <4>1, <1>a DEF Topped, Roots
        <5> QED BY <4>1, <4>3, <5>1, <5>2, <1>r, <1>w DEF Topped
      <4> QED BY <4>2, <4>3
    <3>4. x # O
      BY <2>3, <1>a, <1>b
    <3> QED BY <3>1, <3>2, <3>3, <3>4, <1>c
  <2> QED BY <2>1, <2>2, <2>3 DEF Tops
<1>s. Reps(q, w)
  <2>1. Plain(q) = Plain(p)
    BY <1>a, <1>c DEF Plain
  <2> QED BY <2>1, <1>e, <1>c, <1>w DEF Reps, Plain
<1>v. IsView(w)
  BY <1>h DEF HangingFacts
<1> QED BY <1>p, <1>i, <1>o, <1>t, <1>s, <1>v DEF Shape

(* What led on leads on. *)
LEMMA HungLeads ==
  ASSUME NEW R, NEW p, NEW q, NEW v, NEW S, NEW O, NEW C, NEW f, NEW B, NEW w,
         Hanging(R, p, q, v, S, O, C, f, B, w), NEW c, NEW y, Leads(p, c, y), c \in p.nodes
  PROVE  Leads(q, c, y)
<1>a. /\ p.opens \subseteq p.nodes /\ p.closes \subseteq p.nodes /\ p.closes \subseteq v.inner
      /\ O \notin p.nodes /\ C \notin p.nodes
  BY HangingDoes DEF HangingFacts
<1>c. /\ q.nodes = p.nodes \cup {O, C}
      /\ q.opens = p.opens \cup {O}
      /\ q.closes = p.closes \cup {C}
  BY DEF Hanging, Contracted
<1>d. /\ \A x \in p.nodes \ S : q.waits[x] = Hung(p, S, C, p.waits[x])
      /\ \A x \in S \cap p.closes : q.waits[x] = Hung(p, S, C, p.waits[x]) \cup {O}
  BY DEF Hanging, Contracted
<1>1. SUFFICES ASSUME NEW X \in SUBSET q.nodes, c \in X, Under(q, X) PROVE y \in X
  BY DEF Leads
<1>2. Under(p, X \cap p.nodes)
  <2>1. SUFFICES ASSUME NEW k \in (X \cap p.nodes) \cap p.closes, NEW z \in p.waits[k], z \notin p.opens
                 PROVE  z \in X \cap p.nodes
    BY DEF Under
  <2>2. Hung(p, S, C, p.waits[k]) = p.waits[k] /\ p.waits[k] \subseteq p.nodes
    BY <2>1, <1>a, HangsNone
  <2>3. z \in q.waits[k]
    BY <2>1, <2>2, <1>d
  <2>4. z \notin q.opens
    BY <2>1, <2>2, <1>a, <1>c
  <2> QED BY <2>1, <2>2, <2>3, <2>4, <1>1, <1>c DEF Under
<1> QED BY <1>1, <1>2 DEF Leads

(* The imports are still waited for. *)
LEMMA HungCovers ==
  ASSUME NEW R, NEW I, NEW p, NEW q, NEW v, NEW S, NEW O, NEW C, NEW f, NEW B, NEW w,
         Hanging(R, p, q, v, S, O, C, f, B, w), Covers(R, I, p, v)
  PROVE  Covers(R, I, q, w)
<1>h. HangingFacts(p, q, v, S, O, C, f, B, w)
  BY HangingDoes
<1>a. /\ p.nodes \subseteq Nat \ {0} /\ O \notin p.nodes /\ C \notin p.nodes /\ O # C
      /\ p.opens \subseteq p.nodes /\ p.closes \subseteq p.nodes /\ p.closes \subseteq v.inner /\ p.opens \cap p.closes = {}
      /\ w.inner = (v.inner \ {O}) \cup S \cup {C}
      /\ \A x \in p.nodes : w.top[x] = IF x \in S \/ v.top[x] \in S THEN O ELSE v.top[x]
  BY <1>h DEF HangingFacts
<1>b. /\ IsPicture(p) /\ Tops(R, p, v) /\ AllTopped(p, v)
      /\ S \subseteq p.nodes
      /\ \A x \in S \cap v.inner : v.top[x] \in S
  BY DEF Hanging, Shape
<1>c. /\ q.nodes = p.nodes \cup {O, C}
      /\ q.opens = p.opens \cup {O}
      /\ q.closes = p.closes \cup {C}
      /\ \A x \in p.nodes : q.name[x] = p.name[x]
  BY DEF Hanging, Contracted
<1>d. /\ \A x \in p.nodes \ S : q.waits[x] = Hung(p, S, C, p.waits[x])
      /\ q.waits[C] = S \cup {O}
      /\ q.waits[O] = Hung(p, S, C, UNION {p.waits[x] : x \in S \ p.closes})
  BY DEF Hanging, Contracted
<1>p. Plain(q) = Plain(p)
  BY <1>a, <1>c DEF Plain
<1>1. SUFFICES ASSUME NEW x \in Plain(p), NEW y \in Plain(p), Imports(R, I, q, x, y)
               PROVE  Reached(q, Up(w, x), y)
  BY <1>p DEF Covers
<1>2. Reached(p, Up(v, x), y)
  BY <1>1, <1>c DEF Covers, Imports, Plain
<1>3. PICK c \in p.waits[Up(v, x)] : Leads(p, c, y)
  BY <1>2 DEF Reached
<1> DEFINE u == Up(v, x)
           U == IF u \in S THEN O ELSE u
<1>4. u \in p.nodes /\ u \notin p.closes /\ U \in q.nodes /\ c \in p.nodes
  <2>1. u \in p.nodes
    BY <1>2 DEF Reached
  <2>2. u \notin p.closes
    <3>1. CASE x \in v.inner
      <4>1. Topped(R, p, v, x) /\ v.top[x] # 0
        BY <3>1, <1>b DEF Tops, Plain, AllTopped
      <4> QED BY <4>1, <3>1, <1>a DEF Topped, Roots, Up
    <3>2. CASE x \notin v.inner
      BY <3>2 DEF Up, Plain
    <3> QED BY <3>1, <3>2
  <2> QED BY <2>1, <2>2, <1>c, <1>3, <1>b DEF IsPicture
<1>5. Up(w, x) = U
  <2>1. x \in p.nodes /\ x # O /\ x # C
    BY <1>a DEF Plain
  <2>2. w.top[x] = IF x \in S \/ v.top[x] \in S THEN O ELSE v.top[x]
    BY <2>1, <1>a
  <2>3. x \in w.inner <=> x \in v.inner \/ x \in S
    BY <2>1, <1>a
  <2> QED BY <2>2, <2>3, <1>b DEF Up
<1>6. Leads(q, c, y)
  BY <1>3, <1>4, HungLeads
<1>7. q.waits[U] = Hung(p, S, C, IF u \in S THEN UNION {p.waits[z] : z \in S \ p.closes} ELSE p.waits[u])
  BY <1>4, <1>d
<1>8. c \in IF u \in S THEN UNION {p.waits[z] : z \in S \ p.closes} ELSE p.waits[u]
  BY <1>3, <1>4
<1>9. CASE c \in S \ p.opens
  <2>1. C \in q.waits[U]
    BY <1>7, <1>8, <1>9 DEF Hung
  <2>2. Leads(q, C, y)
    <3>1. SUFFICES ASSUME NEW X \in SUBSET q.nodes, C \in X, Under(q, X) PROVE y \in X
      BY DEF Leads
    <3>2. c \in q.waits[C] \ q.opens
      BY <1>4, <1>9, <1>a, <1>c, <1>d
    <3>3. c \in X
      BY <3>1, <3>2, <1>c DEF Under
    <3> QED BY <3>1, <3>3, <1>6 DEF Leads
  <2> QED BY <2>1, <2>2, <1>4, <1>5 DEF Reached
<1>10. CASE c \notin S \ p.opens
  <2>1. c \in q.waits[U]
    BY <1>7, <1>8, <1>10 DEF Hung
  <2> QED BY <2>1, <1>4, <1>5, <1>6 DEF Reached
<1> QED BY <1>9, <1>10

-----------------------------------------------------------------------------
(* The lists of a node's edges and the head of _blockeds. *)

(* stealNode moves a node from list to list: edges and dependees stay. *)
LEMMA StealFacts ==
  ASSUME NEW V, NEW g \in GraphSet(V), NEW from \in Lists, NEW to \in Lists, from # to,
         NEW S, NEW T,
         IsChain(g.node, g[from], S), IsChain(g.node, g[to], T),
         NEW n \in S, Clean(g, from), NEW h, h = steal(g, from, to, n)
  PROVE  /\ Relinked(g, h) /\ h[to] = n
         /\ n # g[from] => h[from] = g[from]
<1> DEFINE c == g.node
           head == g[from]
           first == g[to]
           next == c[n].next
           prev == c[n].prev
<1>1. /\ S \subseteq DOMAIN c \ {Nil}
      /\ head \in S
      /\ next \in S \cup {Nil}
      /\ n # head => prev \in S
  <2>1. Around(c, head, S, n)
    BY ChainAt
  <2> QED BY <2>1 DEF Around
<1>2. T \subseteq DOMAIN c \ {Nil} /\ first \in T \cup {Nil}
  BY ChainEnds
<1>3. n = head <=> prev = Nil
  <2>1. n = head => prev = Nil
    BY <1>1 DEF Clean
  <2>2. n # head => prev # Nil
    BY <1>1
  <2> QED BY <2>1, <2>2
<1>4. Stolen(V, g, h, from, to, n, next, prev, first)
  <2>1. /\ n \in DOMAIN g.node
        /\ g.node[n].next \in DOMAIN g.node \cup {Nil}
        /\ g.node[n].prev \in DOMAIN g.node \cup {Nil}
        /\ g[to] \in DOMAIN g.node \cup {Nil}
        /\ g.node[n].prev = Nil => g[from] = n
    BY <1>1, <1>2, <1>3
  <2> QED BY <2>1, StealDoes
<1> QED BY <1>3, <1>4 DEF Stolen

(* attach hooks the new edge before the others of l. *)
Hooked(g, h, l, e) ==
  /\ \A x \in Live(g) : dependees(h, x) = IF x = l THEN <<e>> \o dependees(g, x) ELSE dependees(g, x)
  /\ h["blockeds"] = IF isPending(g, l) THEN l ELSE g["blockeds"]

(* That is what attach does to the dependees. *)
LEMMA AttachLists ==
  ASSUME NEW V, NEW g, GraphOK(V, g), NEW l \in Live(g), NEW r \in Live(g),
         isPending(g, l) => Clean(g, "pendings")
  PROVE  Hooked(g, attach(g, l, r), l, NewEdge(g))
<1> DEFINE b == IF isPending(g, l) THEN steal(g, "pendings", "blockeds", l) ELSE g
           e == NewEdge(g)
           h == attach(g, l, r)
<1>1. b \in GraphSet(V) /\ EdgesOK(V, b) /\ Live(b) = Live(g) /\ b.edge = g.edge
  BY BlockKeeps
<1>0. /\ g \in GraphSet(V) /\ EdgesOK(V, g)
  BY DEF GraphOK, EdgesOK
<1>2. e \in Nat /\ e \notin DOMAIN g.edge
  BY NewEdgeDoes DEF GraphOK, EdgesOK
<1>3. h = Rewire(b, EdgePlus(b.edge, e, l, r), l, <<e>> \o dependees(b, l), r, <<e>> \o dependers(b, r))
  BY DEF attach, Rewire, SetEdges, SetOut, SetInto, EdgePlus, dependees, dependers
<1>4. /\ \A x \in DOMAIN g.node : dependees(b, x) = dependees(g, x)
      /\ DOMAIN b.node = DOMAIN g.node
      /\ b["blockeds"] = IF isPending(g, l) THEN l ELSE g["blockeds"]
  <2>1. CASE isPending(g, l)
    <3>1. /\ IsChain(g.node, g["pendings"], Pending(g))
          /\ IsChain(g.node, g["blockeds"], Blocked(g))
          /\ Clean(g, "pendings") /\ l \in Pending(g)
      BY <2>1 DEF GraphOK, Sides, Pending
    <3>2. "pendings" \in Lists /\ "blockeds" \in Lists /\ "pendings" # "blockeds"
      BY DEF Lists
    <3>3. b = steal(g, "pendings", "blockeds", l)
      BY <2>1
    <3> HIDE DEF b
    <3>4. Relinked(g, b) /\ b["blockeds"] = l
      BY <3>1, <3>2, <3>3, <1>0, StealFacts
    <3> QED BY <3>4, <2>1 DEF Relinked, SameCell, dependees
  <2>2. CASE ~isPending(g, l)
    BY <2>2
  <2> QED BY <2>1, <2>2
<1> HIDE DEF b, e, h
<1>5. Rewired(V, b, h, EdgePlus(b.edge, e, l, r), l, <<e>> \o dependees(b, l), r, <<e>> \o dependers(b, r))
  <2> DEFINE out == <<e>> \o dependees(b, l)
             in == <<e>> \o dependers(b, r)
  <2>1. /\ l \in DOMAIN b.node /\ l \in Nat /\ r \in DOMAIN b.node /\ r \in Nat
        /\ dependees(b, l) \in Seq(Nat) /\ dependers(b, r) \in Seq(Nat)
    BY <1>1, LiveCells
  <2>2. EdgePlus(b.edge, e, l, r) \in EdgeSet
    BY <2>1, <1>1, <1>2, EdgePlusType
  <2>3. out \in Seq(Nat) /\ in \in Seq(Nat)
    BY <2>1, <1>2
  <2> HIDE DEF out, in
  <2>4. Rewired(V, b, Rewire(b, EdgePlus(b.edge, e, l, r), l, out, r, in),
                EdgePlus(b.edge, e, l, r), l, out, r, in)
    BY <1>1, <2>1, <2>2, <2>3, RewireDoes
  <2> QED BY <2>4, <1>3 DEF out, in
<1>6. ASSUME NEW x \in Live(g)
      PROVE  dependees(h, x) = IF x = l THEN <<e>> \o dependees(g, x) ELSE dependees(g, x)
  <2>1. x \in DOMAIN b.node /\ x \in DOMAIN g.node
    BY <1>0, <1>4, LiveCells
  <2> QED BY <2>1, <1>4, <1>5 DEF Rewired
<1>7. h["blockeds"] = b["blockeds"]
  <2>1. h.blockeds = b.blockeds
    BY <1>5 DEF Rewired, SameLinks
  <2> QED BY <2>1
<1> QED BY <1>4, <1>6, <1>7 DEF Hooked, h, e

(* A head of _blockeds that stays blocked stays the head. *)
HeadKept(g, h) ==
  /\ Blocked(h) \subseteq Blocked(g)
  /\ g["blockeds"] \in Blocked(h) => h["blockeds"] = g["blockeds"]
(* detach drops e from the dependees of l. *)
Unhooked(g, h, l, e) ==
  /\ \A x \in Live(g) : dependees(h, x) = IF x = l THEN Without(dependees(g, x), e) ELSE dependees(g, x)
  /\ HeadKept(g, h)

(* That is what detach does to the dependees. *)
LEMMA DetachLists ==
  ASSUME NEW V, NEW g, GraphOK(V, g), NEW e \in DOMAIN g.edge
  PROVE  Unhooked(g, detach(g, e), depender(g, e), e)
<1> DEFINE l == depender(g, e)
           c == Cut(g, e)
           h == detach(g, e)
           r == dependee(g, e)
           E == Restrict(g.edge, DOMAIN g.edge \ {e})
           out == Without(dependees(g, l), e)
           in == Without(dependers(g, r), e)
<1>1. WasCut(V, g, c, e, l)
  BY CutDoes DEF GraphOK
<1>2. h = IF isPending(c, l) THEN steal(c, "blockeds", "pendings", l) ELSE c
  BY DEF detach
<1>3. c = Rewire(g, E, l, out, r, in)
  BY DEF Cut, Rewire, SetEdges, SetOut, SetInto, dependees, dependers
<1>4. l \in Live(g) /\ r \in Live(g) /\ g \in GraphSet(V) /\ EdgesOK(V, g)
  BY DEF GraphOK, EdgesOK
<1> HIDE DEF l, r, c, h
<1>5. l \in DOMAIN g.node /\ r \in DOMAIN g.node
  BY <1>4, LiveCells
<1>6. Rewired(V, g, c, E, l, out, r, in)
  <2>1. e \in ToSet(dependees(g, l)) /\ e \in ToSet(dependers(g, r))
    BY <1>4 DEF EdgesOK, OutOf, Into, l, r
  <2>2. OnceIn(dependees(g, l)) /\ OnceIn(dependers(g, r))
    BY <1>4 DEF EdgesOK
  <2>3. out \in Seq(Nat) /\ in \in Seq(Nat)
    BY <2>1, <2>2, WithoutDoes DEF OnceIn
  <2>4. E \in EdgeSet
    BY <1>4, EdgeMinusType
  <2> HIDE DEF out, in, E
  <2> QED BY <2>3, <2>4, <1>3, <1>4, <1>5, RewireDoes
<1>7. /\ \A x \in DOMAIN g.node : dependees(c, x) = IF x = l THEN Without(dependees(g, x), e) ELSE dependees(g, x)
      /\ DOMAIN c.node = DOMAIN g.node /\ c["blockeds"] = g["blockeds"] /\ c.recycled = g.recycled
  <2>1. c.blockeds = g.blockeds
    BY <1>6 DEF Rewired, SameLinks
  <2>2. c["blockeds"] = c.blockeds /\ g["blockeds"] = g.blockeds
    OBVIOUS
  <2> QED BY <1>6, <2>1, <2>2 DEF Rewired, SameLinks
<1>8. /\ \A x \in DOMAIN g.node : dependees(h, x) = dependees(c, x)
      /\ DOMAIN h.node = DOMAIN c.node /\ h.recycled = c.recycled
      /\ h["blockeds"] = c["blockeds"] \/ (isPending(h, l) /\ c["blockeds"] = l)
  <2>1. CASE ~isPending(c, l)
    BY <2>1, <1>2
  <2>2. CASE isPending(c, l)
    <3>1. Sides(c, Pending(g), Blocked(g))
      BY <1>1, LinkedSides DEF WasCut, GraphOK
    <3>2. /\ IsChain(c.node, c["pendings"], Pending(g))
          /\ IsChain(c.node, c["blockeds"], Blocked(g))
          /\ Clean(c, "blockeds") /\ l \in Blocked(g) /\ c \in GraphSet(V)
      BY <3>1, <1>1 DEF Sides, WasCut, Blocked
    <3>3. "pendings" \in Lists /\ "blockeds" \in Lists /\ "pendings" # "blockeds"
      BY DEF Lists
    <3>4. h = steal(c, "blockeds", "pendings", l)
      BY <2>2, <1>2
    <3>5. Relinked(c, h) /\ (l # c["blockeds"] => h["blockeds"] = c["blockeds"])
      BY <3>2, <3>3, <3>4, StealFacts
    <3> QED BY <3>5, <2>2, <1>5, <1>7 DEF Relinked, SameCell, dependees, isPending
  <2> QED BY <2>1, <2>2
<1>9. Live(h) = Live(g) /\ Live(g) \subseteq DOMAIN g.node
  BY <1>7, <1>8 DEF Live
<1>10. ASSUME NEW x \in Live(g)
       PROVE  dependees(h, x) = IF x = l THEN Without(dependees(g, x), e) ELSE dependees(g, x)
  BY <1>7, <1>8, <1>9
<1>11. HeadKept(g, h)
  <2>1. ASSUME NEW x \in Blocked(h) PROVE x \in Blocked(g)
    <3>1. CASE x = l
      BY <3>1, <1>1, <1>4 DEF WasCut, Blocked
    <3>2. CASE x # l
      BY <3>2, <2>1, <1>9, <1>10 DEF Blocked, isPending
    <3> QED BY <3>1, <3>2
  <2>2. g["blockeds"] \in Blocked(h) => h["blockeds"] = g["blockeds"]
    BY <1>7, <1>8 DEF Blocked
  <2> QED BY <2>1, <2>2 DEF HeadKept
<1> QED BY <1>10, <1>11 DEF Unhooked, h, l

(* The first edge stays the first when another one is taken out. *)
LEMMA WithoutHead ==
  ASSUME NEW s, OnceIn(s), NEW e \in ToSet(s), s # <<>>, Head(s) # e
  PROVE  Without(s, e) # <<>> /\ Head(Without(s, e)) = Head(s)
<1> DEFINE i == CHOOSE i \in DOMAIN s : s[i] = e
           w == Without(s, e)
<1>1. s \in Seq(Nat)
  BY DEF OnceIn
<1>2. i \in 1 .. Len(s) /\ s[i] = e
  BY <1>1 DEF ToSet
<1>3. w = RemoveAt(s, i)
  BY DEF Without
<1> HIDE DEF i, w
<1>4. /\ w \in Seq(Nat) /\ Len(w) = Len(s) - 1
      /\ \A j \in 1 .. Len(s) - 1 : w[j] = IF j < i THEN s[j] ELSE s[j + 1]
  <2>1. Shortened(Nat, s, w, i)
    BY <1>1, <1>2, <1>3, RemoveAtDoes
  <2> QED BY <2>1 DEF Shortened
<1>5. i # 1 /\ Len(s) \in Nat /\ Head(s) = s[1]
  BY <1>1, <1>2
<1>6. Len(w) # 0 /\ w[1] = s[1]
  BY <1>2, <1>4, <1>5
<1> QED BY <1>4, <1>5, <1>6 DEF w

(* The first dependee of what is left is the first that is left. *)
Firsts(g, h) ==
  \A x \in Live(g) :
    dependees(g, x) # <<>> /\ Head(dependees(g, x)) \in DOMAIN h.edge =>
      dependees(h, x) # <<>> /\ Head(dependees(h, x)) = Head(dependees(g, x))

(* Edges went: the lists of dependees only lost them. *)
Lessened(g, h) ==
  /\ DOMAIN h.edge \subseteq DOMAIN g.edge
  /\ Firsts(g, h)
  /\ HeadKept(g, h)

(* Losing twice is losing. *)
LEMMA LessenedTwice ==
  ASSUME NEW g, NEW h, NEW i, Lessened(g, h), Lessened(h, i), Live(h) = Live(g)
  PROVE  Lessened(g, i)
  BY DEF Lessened, Firsts, HeadKept

(* detach loses an edge. *)
LEMMA DetachLessens ==
  ASSUME NEW V, NEW g, GraphOK(V, g), NEW e \in DOMAIN g.edge
  PROVE  Lessened(g, detach(g, e))
<1> DEFINE h == detach(g, e)
           l == depender(g, e)
<1>1. Unhooked(g, h, l, e)
  BY DetachLists
<1>2. h.edge = EdgeMinus(g.edge, e)
  BY DetachDoes
<1>3. l \in Live(g) /\ e \in ToSet(dependees(g, l)) /\ OnceIn(dependees(g, l))
  BY DEF GraphOK, EdgesOK, OutOf
<1> HIDE DEF h, l
<1>4. DOMAIN h.edge = DOMAIN g.edge \ {e}
  BY <1>2 DEF EdgeMinus, Restrict
<1>5. Firsts(g, h)
  <2>1. SUFFICES ASSUME NEW x \in Live(g), dependees(g, x) # <<>>, Head(dependees(g, x)) \in DOMAIN h.edge
                 PROVE  dependees(h, x) # <<>> /\ Head(dependees(h, x)) = Head(dependees(g, x))
    BY DEF Firsts
  <2>2. CASE x = l
    <3>1. Head(dependees(g, l)) # e
      BY <2>1, <2>2, <1>4
    <3> QED BY <3>1, <2>1, <2>2, <1>1, <1>3, WithoutHead DEF Unhooked
  <2>3. CASE x # l
    BY <2>1, <2>3, <1>1 DEF Unhooked
  <2> QED BY <2>2, <2>3
<1> QED BY <1>1, <1>4, <1>5 DEF Lessened, Unhooked, h

(* So does the loop of pop. *)
LEMMA DetachAllLessens ==
  ASSUME NEW V, NEW g, GraphOK(V, g), NEW n \in Live(g)
  PROVE  Lessened(g, detachAll(g, n))
<1> DEFINE s == dependers(g, n)
           N == Len(s)
<1>1. OnceIn(s) /\ ToSet(s) = Into(g, n)
  BY DEF GraphOK, EdgesOK
<1>2. s \in Seq(Nat) /\ N \in Nat /\ DOMAIN s = 1 .. N
      /\ \A a, b \in 1 .. N : s[a] = s[b] => a = b
  BY <1>1 DEF OnceIn, IsInjective
<1>3. PICK after : /\ detachAll(g, n) = after[N]
                   /\ after[0] = g
                   /\ \A k \in 1 .. N : after[k] = detach(after[k - 1], s[k])
  BY <1>2, DetachAllShape
<1> HIDE DEF s, N
<1> DEFINE Done(k) == {s[i] : i \in 1 .. k}
           P == {k \in 0 .. N : /\ Kept(V, g, after[k]) /\ EdgesLess(g, after[k], Done(k))
                                /\ Lessened(g, after[k])}
<1>4. 0 \in P
  <2>1. Done(0) = {}
    OBVIOUS
  <2> HIDE DEF Done
  <2>2. EdgesLess(g, g, Done(0)) /\ Lessened(g, g)
    BY <2>1 DEF EdgesLess, Lessened, Firsts, HeadKept
  <2> QED BY <2>2, <1>2, <1>3, KeptNot
<1>5. ASSUME NEW k \in 0 .. N - 1, k \in P PROVE k + 1 \in P
  <2> DEFINE c == after[k]
             h == after[k + 1]
             e == s[k + 1]
  <2>1. Kept(V, g, c) /\ EdgesLess(g, c, Done(k)) /\ GraphOK(V, c) /\ Lessened(g, c)
    BY <1>5 DEF Kept
  <2>2. k + 1 \in 1 .. N /\ (k + 1) - 1 = k
    BY <1>2
  <2>3. h = detach(c, e)
    BY <2>2, <1>3
  <2>4. Done(k + 1) = Done(k) \cup {e} /\ e \notin Done(k)
    BY <2>2, <1>2
  <2>5. e \in DOMAIN g.edge
    BY <2>2, <1>1, <1>2 DEF ToSet, Into
  <2> HIDE DEF c, h, e, Done
  <2>6. e \in DOMAIN c.edge
    BY <2>1, <2>4, <2>5 DEF EdgesLess
  <2>7. Kept(V, c, h) /\ h.edge = EdgeMinus(c.edge, e)
    BY <2>1, <2>3, <2>6, DetachDoes
  <2>8. EdgesLess(g, h, Done(k + 1))
    BY <2>1, <2>4, <2>7 DEF EdgesLess, EdgeMinus, Restrict
  <2>9. Kept(V, g, h)
    BY <2>1, <2>7, KeptTwice
  <2>10. Lessened(c, h)
    BY <2>1, <2>3, <2>6, DetachLessens
  <2>11. Live(c) = Live(g)
    BY <2>1, SameNodesLive DEF Kept
  <2>12. Lessened(g, h)
    BY <2>1, <2>10, <2>11, LessenedTwice
  <2> QED BY <2>2, <2>8, <2>9, <2>12 DEF h
<1>6. N \in P
  <2> HIDE DEF P
  <2>1. 0 .. N \subseteq P
    BY <1>2, <1>4, <1>5, UpTo
  <2> QED BY <2>1, <1>2
<1> QED BY <1>3, <1>6

(* Taking a pending node leaves the head of _blockeds. *)
LEMMA PopListHead ==
  ASSUME NEW V, NEW g \in GraphSet(V), NEW P, NEW B, Sides(g, P, B), NEW n \in P
  PROVE  PopList(g, n)["blockeds"] = g["blockeds"]
<1> DEFINE next == g.node[n].next
           prev == g.node[n].prev
<1>0. "blockeds" \in Lists /\ "pendings" \in Lists /\ "blockeds" # "pendings" /\ g["pendings"] = g.pendings
  BY DEF Lists
<1>1. Around(g.node, g["pendings"], P, n)
  BY ChainAt DEF Sides
<1>2. /\ P \subseteq DOMAIN g.node \ {Nil}
      /\ next \in DOMAIN g.node \cup {Nil}
      /\ n # g["pendings"] => prev \in DOMAIN g.node
  BY <1>1 DEF Around
<1>3. DOMAIN g.node \subseteq Nat
  BY DEF GraphSet
<1>4. next \in Nat
  BY <1>2, <1>3 DEF Nil
<1>5. CASE g.pendings = n
  <2>1. HeadSetIn(V, g, SetHead(g, "pendings", next), "pendings", next)
    BY <1>0, <1>4, SetHeadDoes
  <2> QED BY <2>1, <1>0, <1>5 DEF HeadSetIn, PopList
<1>6. CASE g.pendings # n
  <2> DEFINE h == SetNext(g, prev, next)
  <2>1. NextSetIn(V, g, h, prev, next)
    BY <1>0, <1>2, <1>4, <1>6, SetNextDoes
  <2> HIDE DEF h
  <2>2. h \in GraphSet(V) /\ h["blockeds"] = g["blockeds"] /\ DOMAIN h.node = DOMAIN g.node
    BY <2>1, <1>0 DEF NextSetIn, Relinked
  <2>3. prev \in Nat
    BY <1>0, <1>2, <1>3, <1>6
  <2>4. PrevSetIn(V, h, LinkPrev(h, next, prev), next, prev)
    BY <2>2, <2>3, <1>2, LinkPrevDoes
  <2>5. LinkPrev(h, next, prev)["blockeds"] = h["blockeds"]
    BY <2>4, <1>0 DEF PrevSetIn
  <2> QED BY <2>2, <2>5, <1>6 DEF PopList, h
<1> QED BY <1>5, <1>6

(* pop loses the edges to the node. *)
LEMMA PopLessens ==
  ASSUME NEW V, NEW g, GraphOK(V, g), NEW n \in Pending(g)
  PROVE  Lessened(g, pop(g, n))
<1> DEFINE c == detachAll(g, n)
           d == PopList(c, n)
           h == pop(g, n)
<1>1. n \in Live(g) /\ h = erase(c, n)
  BY DEF Pending, pop
<1>2. Kept(V, g, c) /\ EdgesLess(g, c, Into(g, n)) /\ Lessened(g, c)
  BY <1>1, DetachAllDoes, DetachAllLessens
<1>p. Popped(V, g, h, n)
  BY PopDoes
<1>q. h = SetRecycled(d, <<n>> \o d.recycled)
  BY <1>1 DEF erase, PopList, SetHead, SetNext, SetRecycled
<1> HIDE DEF c, h
<1>3. GraphOK(V, c) /\ EdgesOK(V, c) /\ SameNodes(g, c) /\ Live(c) = Live(g) /\ c \in GraphSet(V)
  BY <1>2, SameNodesLive DEF Kept, GraphOK, EdgesOK
<1>4. n \in Pending(c)
  <2>1. ~(n \in Blocked(c))
    BY <1>2 DEF Lessened, HeadKept, Blocked, Pending
  <2> QED BY <2>1, <1>1, <1>3 DEF Blocked, Pending
<1>5. /\ d \in GraphSet(V) /\ Relinked(c, d) /\ d["blockeds"] = c["blockeds"]
  <2>1. Pending(c) \cap Blocked(c) = {} /\ Sides(c, Pending(c), Blocked(c))
    BY <1>3 DEF Pending, Blocked, GraphOK
  <2> QED BY <2>1, <1>3, <1>4, PopListDoes, PopListHead
<1> HIDE DEF d
<1>6. RecycledSetIn(V, d, h, <<n>> \o d.recycled)
  <2>1. d.recycled \in Seq(Nat) /\ n \in Nat
    BY <1>1, <1>5, LiveCells DEF GraphSet, GraphOK
  <2>2. <<n>> \o d.recycled \in Seq(Nat)
    BY <2>1
  <2> QED BY <2>2, <1>q, <1>5, SetRecycledDoes
<1>7. /\ h.edge = c.edge /\ h["blockeds"] = c["blockeds"]
      /\ \A x \in Live(g) : dependees(h, x) = dependees(c, x)
  <2>1. Live(g) \subseteq DOMAIN c.node
    BY <1>3 DEF Live
  <2> QED BY <2>1, <1>5, <1>6 DEF RecycledSetIn, Relinked, SameCell, dependees
<1>8. Live(h) = Live(g) \ {n}
  BY <1>p DEF Popped
<1>9. Blocked(h) \subseteq Blocked(c)
  BY <1>3, <1>7, <1>8 DEF Blocked, isPending
<1>10. DOMAIN h.edge \subseteq DOMAIN g.edge /\ HeadKept(g, h)
  BY <1>2, <1>7, <1>9 DEF Lessened, HeadKept
<1>11. Firsts(g, h)
  BY <1>2, <1>7 DEF Lessened, Firsts
<1> QED BY <1>10, <1>11 DEF Lessened, h

-----------------------------------------------------------------------------
(* The edges that a loop of solveCycle moves. *)

(* If o is blocked, it is the head of _blockeds. *)
HeadIs(g, o) == o \in Blocked(g) => g["blockeds"] = o

(* The edges M are gone, and each has a new one in its place. *)
Redirected(V, g, h, M, new, o) ==
  /\ Changed(V, g, h, M)
  /\ \A e \in DOMAIN h.edge \ (DOMAIN g.edge \ M) : \E f \in M : h.edge[e] = new[f]
  /\ \A f \in M : \E e \in DOMAIN h.edge \ (DOMAIN g.edge \ M) : h.edge[e] = new[f]
  /\ \A x \in Live(g) :
       (\A f \in M : depender(g, f) # x /\ new[f][1] # x) => dependees(h, x) = dependees(g, x)
  /\ HeadIs(g, o) => HeadIs(h, o)

(* Where a moved edge may lead. *)
MovesTo(g, M, new, o) ==
  \A f \in M : \E l, r \in Live(g) : new[f] = <<l, r>> /\ l \in {o, depender(g, f)}

(* At first no edge is moved. *)
LEMMA MovedNone ==
  ASSUME NEW V, NEW g, GraphOK(V, g), NEW M, M = {}, NEW new, NEW o
  PROVE  Redirected(V, g, g, M, new, o)
<1>1. Changed(V, g, g, M)
  BY ChangedNot
<1> QED BY <1>1 DEF Redirected

(* The head stays where _blockeds keeps its head. *)
LEMMA HeadStays ==
  ASSUME NEW g, NEW h, HeadKept(g, h), NEW o, HeadIs(g, o)
  PROVE  HeadIs(h, o)
  BY DEF HeadKept, HeadIs

(* One edge is moved. *)
LEMMA OneMoved ==
  ASSUME NEW V, NEW g, GraphOK(V, g), Clean(g, "pendings"), NEW h, NEW M, NEW new, NEW o,
         Redirected(V, g, h, M, new, o), NEW f \in DOMAIN g.edge \ M,
         NEW l \in Live(g), NEW r \in Live(g), new[f] = <<l, r>>, l \in {o, depender(g, f)},
         NEW i, i = detach(attach(h, l, r), f), NEW N, N = M \cup {f}
  PROVE  Redirected(V, g, i, N, new, o)
<1> DEFINE a == attach(h, l, r)
           e == NewEdge(h)
           d == depender(g, f)
<1>1. /\ GraphOK(V, h) /\ Live(h) = Live(g) /\ Clean(h, "pendings") /\ Kept(V, g, h)
      /\ f \in DOMAIN h.edge /\ h.edge[f] = g.edge[f] /\ Changed(V, g, h, M)
  BY KeptFacts DEF Redirected, Changed
<1>2. /\ Kept(V, h, a) /\ a.edge = EdgePlus(h.edge, e, l, r) /\ e \notin DOMAIN h.edge
  BY <1>1, AttachDoes
<1>3. Hooked(h, a, l, e)
  BY <1>1, AttachLists
<1>4. DOMAIN a.edge = DOMAIN h.edge \cup {e} /\ a.edge[e] = <<l, r>>
      /\ \A x \in DOMAIN h.edge : a.edge[x] = h.edge[x]
  BY <1>2 DEF EdgePlus
<1>5. GraphOK(V, a) /\ Live(a) = Live(g) /\ f \in DOMAIN a.edge /\ depender(a, f) = d
  BY <1>1, <1>2, <1>4, KeptFacts DEF depender
<1>6. i = detach(a, f)
  OBVIOUS
<1> HIDE DEF a, e, d
<1>7. Kept(V, a, i) /\ i.edge = EdgeMinus(a.edge, f) /\ Unhooked(a, i, d, f)
  BY <1>5, <1>6, DetachDoes, DetachLists
<1>8. DOMAIN i.edge = (DOMAIN h.edge \cup {e}) \ {f} /\ i.edge[e] = new[f]
      /\ \A x \in DOMAIN h.edge \ {f} : i.edge[x] = h.edge[x]
  <2>1. e # f
    BY <1>1, <1>2
  <2> QED BY <2>1, <1>2, <1>4, <1>7 DEF EdgeMinus, Restrict
<1>9. Changed(V, g, i, N)
  <2>1. Kept(V, g, i)
    BY <1>1, <1>2, <1>7, KeptTwice
  <2> QED BY <2>1, <1>1, <1>8 DEF Changed
<1>10. ASSUME NEW x \in DOMAIN i.edge \ (DOMAIN g.edge \ N) PROVE \E k \in N : i.edge[x] = new[k]
  <2>1. CASE x = e
    BY <2>1, <1>8
  <2>2. CASE x # e
    <3>1. x \in DOMAIN h.edge \ (DOMAIN g.edge \ M) /\ i.edge[x] = h.edge[x]
      BY <2>2, <1>8, <1>10
    <3> QED BY <3>1 DEF Redirected
  <2> QED BY <2>1, <2>2
<1>11. ASSUME NEW k \in N PROVE \E x \in DOMAIN i.edge \ (DOMAIN g.edge \ N) : i.edge[x] = new[k]
  <2>1. CASE k = f
    <3>1. e \in DOMAIN i.edge /\ e \notin DOMAIN g.edge \ N
      BY <1>1, <1>2, <1>8 DEF Changed
    <3> QED BY <3>1, <2>1, <1>8
  <2>2. CASE k \in M
    <3>1. PICK x \in DOMAIN h.edge \ (DOMAIN g.edge \ M) : h.edge[x] = new[k]
      BY <2>2 DEF Redirected
    <3>2. x # f
      BY <3>1
    <3> QED BY <3>1, <3>2, <1>8
  <2> QED BY <2>1, <2>2
<1>12. ASSUME NEW x \in Live(g), \A k \in N : depender(g, k) # x /\ new[k][1] # x
       PROVE  dependees(i, x) = dependees(g, x)
  <2>1. x # d /\ x # l
    BY <1>12 DEF d
  <2>2. dependees(h, x) = dependees(g, x)
    BY <1>12 DEF Redirected
  <2>3. dependees(a, x) = dependees(h, x)
    BY <2>1, <1>1, <1>3 DEF Hooked
  <2>4. dependees(i, x) = dependees(a, x)
    BY <2>1, <1>5, <1>7 DEF Unhooked
  <2> QED BY <2>2, <2>3, <2>4
<1>13. ASSUME HeadIs(g, o) PROVE HeadIs(i, o)
  <2>1. HeadIs(h, o)
    BY <1>13 DEF Redirected
  <2>2. l = o \/ ~isPending(h, l)
    <3>1. CASE l = d
      <4>1. f \in OutOf(h, l)
        BY <3>1, <1>1 DEF OutOf, depender, d
      <4>2. Waits(h, l) # {}
        BY <4>1 DEF Waits
      <4> QED BY <4>2, <1>1, WaitsLive
    <3> QED BY <3>1 DEF d
  <2>3. HeadIs(a, o)
    <3> SUFFICES ASSUME o \in Blocked(a) PROVE a["blockeds"] = o
      BY DEF HeadIs
    <3>1. CASE isPending(h, l)
      BY <3>1, <2>2, <1>3 DEF Hooked
    <3>2. CASE ~isPending(h, l)
      <4>1. a["blockeds"] = h["blockeds"]
        BY <3>2, <1>3 DEF Hooked
      <4>2. o \in Live(h) /\ ~isPending(a, o)
        BY <1>1, <1>5 DEF Blocked
      <4>3. ~isPending(h, o)
        <5>1. CASE o = l
          BY <5>1, <3>2
        <5>2. CASE o # l
          BY <5>2, <4>2, <1>3 DEF Hooked, isPending
        <5> QED BY <5>1, <5>2
      <4> QED BY <2>1, <4>1, <4>2, <4>3 DEF HeadIs, Blocked
    <3> QED BY <3>1, <3>2
  <2> QED BY <2>3, <1>7, HeadStays DEF Unhooked
<1> QED BY <1>9, <1>10, <1>11, <1>12, <1>13 DEF Redirected

(* The turns of a loop over edges that moves those of M. *)
MoveTurns(g, edges, M, new, after) ==
  /\ after[0] = g
  /\ \A k \in 1 .. Len(edges) :
       after[k - 1].edge[edges[k]] = g.edge[edges[k]] =>
         after[k] = IF edges[k] \in M
                    THEN detach(attach(after[k - 1], new[edges[k]][1], new[edges[k]][2]), edges[k])
                    ELSE after[k - 1]

(* The loop moves all of them. *)
LEMMA Moves ==
  ASSUME NEW V, NEW g, GraphOK(V, g), Clean(g, "pendings"), NEW o, NEW edges, OnceIn(edges),
         ToSet(edges) \subseteq DOMAIN g.edge, NEW M, M \subseteq ToSet(edges), NEW new,
         MovesTo(g, M, new, o), NEW after, MoveTurns(g, edges, M, new, after)
  PROVE  Redirected(V, g, after[Len(edges)], M, new, o)
<1> DEFINE N == Len(edges)
           Gone(k) == {edges[i] : i \in 1 .. k}
           Now(k) == M \cap Gone(k)
<1>1. edges \in Seq(Nat) /\ N \in Nat /\ DOMAIN edges = 1 .. N
      /\ \A a, b \in 1 .. N : edges[a] = edges[b] => a = b
  BY DEF OnceIn, IsInjective
<1>2. /\ after[0] = g
      /\ \A k \in 1 .. N :
       after[k - 1].edge[edges[k]] = g.edge[edges[k]] =>
         after[k] = IF edges[k] \in M
                    THEN detach(attach(after[k - 1], new[edges[k]][1], new[edges[k]][2]), edges[k])
                    ELSE after[k - 1]
  BY DEF MoveTurns
<1> HIDE DEF N
<1> DEFINE P == {k \in 0 .. N : Redirected(V, g, after[k], Now(k), new, o)}
<1>3. 0 \in P
  <2>1. Now(0) = {}
    OBVIOUS
  <2> HIDE DEF Now
  <2>2. Redirected(V, g, after[0], Now(0), new, o)
    BY <2>1, <1>2, MovedNone
  <2> QED BY <2>2, <1>1
<1>4. ASSUME NEW k \in 0 .. N - 1, k \in P PROVE k + 1 \in P
  <2> DEFINE h == after[k]
             i == after[k + 1]
             f == edges[k + 1]
             A == Now(k)
             B == Now(k + 1)
  <2>1. k \in Nat /\ k + 1 \in 1 .. N /\ k + 1 \in 0 .. N /\ k + 1 - 1 = k
    BY <1>1
  <2>2. h.edge[f] = g.edge[f] =>
          i = IF f \in M THEN detach(attach(h, new[f][1], new[f][2]), f) ELSE h
    BY <1>2, <2>1
  <2>3. Gone(k + 1) = Gone(k) \cup {f} /\ f \notin Gone(k)
    BY <2>1, <1>1
  <2>4. f \in DOMAIN g.edge
    BY <2>1, <1>1 DEF ToSet
  <2>5. Redirected(V, g, h, A, new, o)
    BY <1>4
  <2>6. f \in DOMAIN g.edge \ A /\ B = IF f \in M THEN A \cup {f} ELSE A
    BY <2>3, <2>4
  <2> HIDE DEF A, B, h, i, f
  <2>7. h.edge[f] = g.edge[f]
    BY <2>5, <2>6 DEF Redirected, Changed
  <2>8. Redirected(V, g, i, B, new, o)
    <3>1. CASE f \notin M
      BY <3>1, <2>2, <2>5, <2>6, <2>7
    <3>2. CASE f \in M
      <4>1. PICK l, r \in Live(g) : new[f] = <<l, r>> /\ l \in {o, depender(g, f)}
        BY <3>2 DEF MovesTo
      <4>2. i = detach(attach(h, l, r), f) /\ B = A \cup {f}
        BY <3>2, <4>1, <2>2, <2>6, <2>7
      <4> QED BY <4>1, <4>2, <2>5, <2>6, OneMoved
    <3> QED BY <3>1, <3>2
  <2> QED BY <2>1, <2>8 DEF i, B
<1>5. N \in P
  <2> HIDE DEF P
  <2>1. 0 .. N \subseteq P
    BY <1>1, <1>3, <1>4, UpTo
  <2> QED BY <2>1, <1>1
<1>6. Now(N) = M
  BY <1>1 DEF ToSet
<1> HIDE DEF Now
<1> QED BY <1>5, <1>6 DEF N

(* The two loops. *)
Outward(g, n, o) == OutOf(g, n) \ Into(g, o)
(* They come from o then. *)
OutwardTo(g, n, o) == [f \in Outward(g, n, o) |-> <<o, dependee(g, f)>>]

(* attachDetachDependees moves them. *)
LEMMA OutTurns ==
  ASSUME NEW V, NEW g, GraphOK(V, g), Clean(g, "pendings"), NEW o \in Live(g), NEW n \in Live(g)
  PROVE  Redirected(V, g, attachDetachDependees(g, o, dependees(g, n)),
               Outward(g, n, o), OutwardTo(g, n, o), o)
<1> DEFINE s == dependees(g, n)
           M == Outward(g, n, o)
           new == OutwardTo(g, n, o)
<1>1. OnceIn(s) /\ ToSet(s) = OutOf(g, n) /\ ToSet(s) \subseteq DOMAIN g.edge
  BY NodeEdges DEF OutOf
<1>2. Len(s) \in Nat /\ DOMAIN s = 1 .. Len(s)
  BY <1>1 DEF OnceIn
<1>3. PICK after : MoveDependeesTurns(g, o, s, after)
  <2> HIDE DEF s
  <2> QED BY <1>2, MoveDependeesShape
<1>4. \A f \in DOMAIN g.edge : depender(g, f) \in Live(g) /\ dependee(g, f) \in Live(g)
  BY EdgeEnds
<1>5. M \subseteq ToSet(s) /\ \A f \in ToSet(s) : f \in M <=> dependee(g, f) # o
  BY <1>1 DEF Outward, Into
<1>6. \A f \in M : new[f] = <<o, dependee(g, f)>>
  BY DEF OutwardTo
<1> HIDE DEF s, M, new
<1>7. MovesTo(g, M, new, o)
  BY <1>1, <1>4, <1>5, <1>6 DEF MovesTo
<1>8. MoveTurns(g, s, M, new, after)
  <2>1. ASSUME NEW k \in 1 .. Len(s), after[k - 1].edge[s[k]] = g.edge[s[k]]
        PROVE  after[k] = IF s[k] \in M
                    THEN detach(attach(after[k - 1], new[s[k]][1], new[s[k]][2]), s[k])
                    ELSE after[k - 1]
    <3>1. after[k] = MoveDependee(after[k - 1], o, s[k])
      BY <1>3 DEF MoveDependeesTurns
    <3>2. dependee(after[k - 1], s[k]) = dependee(g, s[k])
      BY <2>1 DEF dependee
    <3>3. s[k] \in ToSet(s)
      BY <1>2 DEF ToSet
    <3>4. s[k] \in M => new[s[k]][1] = o /\ new[s[k]][2] = dependee(g, s[k])
      BY <1>6
    <3> QED BY <3>1, <3>2, <3>3, <3>4, <1>5 DEF MoveDependee
  <2> QED BY <2>1, <1>3 DEF MoveTurns, MoveDependeesTurns
<1>9. Redirected(V, g, after[Len(s)], M, new, o)
  BY <1>1, <1>5, <1>7, <1>8, Moves
<1> QED BY <1>9, <1>3 DEF MoveDependeesTurns, s, M, new

(* The edges into n that attachDetachDependers moves. *)
Inward(g, n, c) == Into(g, n) \ OutOf(g, c)
(* They end in c then. *)
InwardTo(g, n, c) == [f \in Inward(g, n, c) |-> <<depender(g, f), c>>]

(* attachDetachDependers moves them. *)
LEMMA InTurns ==
  ASSUME NEW V, NEW g, GraphOK(V, g), Clean(g, "pendings"), NEW o, NEW c \in Live(g), NEW n \in Live(g)
  PROVE  Redirected(V, g, attachDetachDependers(g, c, dependers(g, n)),
               Inward(g, n, c), InwardTo(g, n, c), o)
<1> DEFINE s == dependers(g, n)
           M == Inward(g, n, c)
           new == InwardTo(g, n, c)
<1>1. OnceIn(s) /\ ToSet(s) = Into(g, n) /\ ToSet(s) \subseteq DOMAIN g.edge
  BY NodeEdges DEF Into
<1>2. Len(s) \in Nat /\ DOMAIN s = 1 .. Len(s)
  BY <1>1 DEF OnceIn
<1>3. PICK after : MoveDependersTurns(g, c, s, after)
  <2> HIDE DEF s
  <2> QED BY <1>2, MoveDependersShape
<1>4. \A f \in DOMAIN g.edge : depender(g, f) \in Live(g) /\ dependee(g, f) \in Live(g)
  BY EdgeEnds
<1>5. M \subseteq ToSet(s) /\ \A f \in ToSet(s) : f \in M <=> depender(g, f) # c
  BY <1>1 DEF Inward, OutOf
<1>6. \A f \in M : new[f] = <<depender(g, f), c>>
  BY DEF InwardTo
<1> HIDE DEF s, M, new
<1>7. MovesTo(g, M, new, o)
  BY <1>1, <1>4, <1>5, <1>6 DEF MovesTo
<1>8. MoveTurns(g, s, M, new, after)
  <2>1. ASSUME NEW k \in 1 .. Len(s), after[k - 1].edge[s[k]] = g.edge[s[k]]
        PROVE  after[k] = IF s[k] \in M
                    THEN detach(attach(after[k - 1], new[s[k]][1], new[s[k]][2]), s[k])
                    ELSE after[k - 1]
    <3>1. after[k] = MoveDepender(after[k - 1], c, s[k])
      BY <1>3 DEF MoveDependersTurns
    <3>2. depender(after[k - 1], s[k]) = depender(g, s[k])
      BY <2>1 DEF depender
    <3>3. s[k] \in ToSet(s)
      BY <1>2 DEF ToSet
    <3>4. s[k] \in M => new[s[k]][1] = depender(g, s[k]) /\ new[s[k]][2] = c
      BY <1>6
    <3> QED BY <3>1, <3>2, <3>3, <3>4, <1>5 DEF MoveDepender
  <2> QED BY <2>1, <1>3 DEF MoveTurns, MoveDependersTurns
<1>9. Redirected(V, g, after[Len(s)], M, new, o)
  BY <1>1, <1>5, <1>7, <1>8, Moves
<1> QED BY <1>9, <1>3 DEF MoveDependersTurns, s, M, new

-----------------------------------------------------------------------------
(* What waits for what after the edges were moved. *)

(* What the nodes wait for when edges were moved. *)
LEMMA MovedSides ==
  ASSUME NEW V, NEW g, NEW h, NEW M, NEW new, NEW o, Redirected(V, g, h, M, new, o)
  PROVE  /\ \A x : Waits(h, x) = {dependee(g, e) : e \in OutOf(g, x) \ M}
                                   \cup {new[f][2] : f \in {k \in M : new[k][1] = x}}
         /\ \A x : (\A f \in M : new[f][1] # x) => OutOf(h, x) = OutOf(g, x) \ M
         /\ \A x : (\A f \in M : new[f][2] # x) => Into(h, x) = Into(g, x) \ M
<1>1. /\ \A e \in DOMAIN g.edge \ M : e \in DOMAIN h.edge /\ h.edge[e] = g.edge[e]
      /\ \A e \in DOMAIN h.edge \ (DOMAIN g.edge \ M) : \E f \in M : h.edge[e] = new[f]
      /\ \A f \in M : \E e \in DOMAIN h.edge \ (DOMAIN g.edge \ M) : h.edge[e] = new[f]
  BY DEF Redirected, Changed
<1>2. ASSUME NEW x
      PROVE  Waits(h, x) = {dependee(g, e) : e \in OutOf(g, x) \ M}
                                   \cup {new[f][2] : f \in {k \in M : new[k][1] = x}}
  <2> DEFINE A == {dependee(g, e) : e \in OutOf(g, x) \ M}
             B == {new[f][2] : f \in {k \in M : new[k][1] = x}}
  <2>1. ASSUME NEW y \in Waits(h, x) PROVE y \in A \cup B
    <3>1. PICK e \in OutOf(h, x) : y = dependee(h, e)
      BY DEF Waits
    <3>2. CASE e \in DOMAIN g.edge \ M
      <4>1. e \in OutOf(g, x) \ M /\ y = dependee(g, e)
        BY <3>1, <3>2, <1>1 DEF OutOf, depender, dependee
      <4> QED BY <4>1
    <3>3. CASE e \notin DOMAIN g.edge \ M
      <4>1. PICK f \in M : h.edge[e] = new[f]
        BY <3>1, <3>3, <1>1 DEF OutOf
      <4>2. new[f][1] = x /\ y = new[f][2]
        BY <3>1, <4>1 DEF OutOf, depender, dependee
      <4> QED BY <4>2
    <3> QED BY <3>2, <3>3
  <2>2. ASSUME NEW e \in OutOf(g, x) \ M PROVE dependee(g, e) \in Waits(h, x)
    <3>1. e \in OutOf(h, x) /\ dependee(h, e) = dependee(g, e)
      BY <1>1 DEF OutOf, depender, dependee
    <3> QED BY <3>1 DEF Waits
  <2>3. ASSUME NEW f \in M, new[f][1] = x PROVE new[f][2] \in Waits(h, x)
    <3>1. PICK e \in DOMAIN h.edge : h.edge[e] = new[f]
      BY <1>1
    <3>2. e \in OutOf(h, x) /\ dependee(h, e) = new[f][2]
      BY <2>3, <3>1 DEF OutOf, depender, dependee
    <3> QED BY <3>2 DEF Waits
  <2> QED BY <2>1, <2>2, <2>3
<1>3. ASSUME NEW x, \A f \in M : new[f][1] # x PROVE OutOf(h, x) = OutOf(g, x) \ M
  BY <1>1, <1>3 DEF OutOf, depender
<1>4. ASSUME NEW x, \A f \in M : new[f][2] # x PROVE Into(h, x) = Into(g, x) \ M
  BY <1>1, <1>4 DEF Into, dependee
<1> QED BY <1>2, <1>3, <1>4

(* The list of x is as it was, and so are its edges. *)
Untouched(g, h, x) ==
  /\ dependees(h, x) = dependees(g, x)
  /\ \A e \in OutOf(g, x) : e \in DOMAIN h.edge /\ h.edge[e] = g.edge[e]

(* Untouched is transitive. *)
LEMMA UntouchedTwice ==
  ASSUME NEW g, NEW h, NEW i, NEW x, Untouched(g, h, x), Untouched(h, i, x)
  PROVE  Untouched(g, i, x)
<1>1. \A e \in OutOf(g, x) : e \in OutOf(h, x)
  BY DEF Untouched, OutOf, depender
<1> QED BY <1>1 DEF Untouched

(* A node that is not touched waits for the same. *)
LEMMA UntouchedWaits ==
  ASSUME NEW V, NEW g, NEW h, NEW x \in Live(g), GraphOK(V, g), Kept(V, g, h), Untouched(g, h, x)
  PROVE  Waits(h, x) = Waits(g, x) /\ OutOf(h, x) = OutOf(g, x)
<1>1. Live(h) = Live(g) /\ GraphOK(V, h)
  BY KeptFacts
<1>2. OutOf(h, x) = OutOf(g, x)
  BY <1>1, NodeEdges DEF Untouched
<1>3. \A e \in OutOf(g, x) : dependee(h, e) = dependee(g, e)
  BY DEF Untouched, dependee
<1> QED BY <1>2, <1>3 DEF Waits

(* No edge of x is moved: x is not touched. *)
LEMMA MovedUntouched ==
  ASSUME NEW V, NEW g, NEW h, NEW M, NEW new, NEW o, Redirected(V, g, h, M, new, o),
         NEW x \in Live(g), \A f \in M : depender(g, f) # x /\ new[f][1] # x
  PROVE  Untouched(g, h, x)
<1>1. dependees(h, x) = dependees(g, x)
  BY DEF Redirected
<1>2. \A e \in OutOf(g, x) : e \in DOMAIN g.edge \ M
  BY DEF OutOf
<1> QED BY <1>1, <1>2 DEF Redirected, Changed, Untouched

-----------------------------------------------------------------------------
(* The two loops, for a node n. *)

(* n waits for nothing but itself, and o waits for what n did. *)
LeftOut(V, g, h, n, o) ==
  /\ Kept(V, g, h)
  /\ \A x \in Live(g) \ {n, o} : Untouched(g, h, x)
  /\ OutOf(h, n) = OutOf(g, n) \cap Into(g, o)
  /\ Waits(h, n) = Waits(g, n) \cap {o}
  /\ Waits(h, o) = Waits(g, o) \cup (Waits(g, n) \ {o})
  /\ Into(h, o) = Into(g, o)
  /\ HeadIs(g, o) => HeadIs(h, o)

(* That is what attachDetachDependees does. *)
LEMMA OutTurnsLeave ==
  ASSUME NEW V, NEW g, GraphOK(V, g), Clean(g, "pendings"), NEW o \in Live(g), NEW n \in Live(g), n # o
  PROVE  LeftOut(V, g, attachDetachDependees(g, o, dependees(g, n)), n, o)
<1> DEFINE h == attachDetachDependees(g, o, dependees(g, n))
           M == Outward(g, n, o)
           new == OutwardTo(g, n, o)
<1>1. Redirected(V, g, h, M, new, o)
  BY OutTurns
<1>2. \A f \in M : f \in OutOf(g, n) /\ depender(g, f) = n /\ dependee(g, f) # o
  BY DEF Outward, OutOf, Into
<1>3. \A f \in OutOf(g, n) : f \notin M <=> f \in Into(g, o)
  BY DEF Outward
<1>4. \A f \in M : new[f][1] = o /\ new[f][2] = dependee(g, f)
  BY DEF OutwardTo
<1> HIDE DEF h, M, new
<1>5. Kept(V, g, h) /\ (HeadIs(g, o) => HeadIs(h, o))
  BY <1>1 DEF Redirected, Changed
<1>6. ASSUME NEW x \in Live(g) \ {n, o} PROVE Untouched(g, h, x)
  BY <1>1, <1>2, <1>4, MovedUntouched
<1>s. /\ \A x : Waits(h, x) = {dependee(g, e) : e \in OutOf(g, x) \ M}
                                   \cup {new[f][2] : f \in {k \in M : new[k][1] = x}}
      /\ \A x : (\A f \in M : new[f][1] # x) => OutOf(h, x) = OutOf(g, x) \ M
      /\ \A x : (\A f \in M : new[f][2] # x) => Into(h, x) = Into(g, x) \ M
  BY <1>1, MovedSides
<1>7. OutOf(h, n) = OutOf(g, n) \cap Into(g, o)
  <2>1. OutOf(h, n) = OutOf(g, n) \ M
    BY <1>s, <1>4
  <2> QED BY <2>1, <1>3
<1>8. Waits(h, n) = Waits(g, n) \cap {o}
  <2>1. Waits(h, n) = {dependee(g, e) : e \in OutOf(g, n) \ M}
    BY <1>s, <1>4
  <2>2. \A e \in OutOf(g, n) \ M : dependee(g, e) = o
    BY <1>3 DEF Into
  <2>3. \A e \in OutOf(g, n) : dependee(g, e) = o => e \in OutOf(g, n) \ M
    BY <1>2
  <2> QED BY <2>1, <2>2, <2>3 DEF Waits
<1>9. Waits(h, o) = Waits(g, o) \cup (Waits(g, n) \ {o})
  <2>1. OutOf(g, o) \ M = OutOf(g, o)
    BY <1>2 DEF OutOf
  <2>2. {k \in M : new[k][1] = o} = M
    BY <1>4
  <2>3. {new[f][2] : f \in M} = {dependee(g, f) : f \in M}
    BY <1>4
  <2>4. {dependee(g, f) : f \in M} = Waits(g, n) \ {o}
    <3>1. \A e \in OutOf(g, n) : dependee(g, e) # o => e \in M
      BY <1>3 DEF Into
    <3> QED BY <1>2, <3>1 DEF Waits
  <2> QED BY <2>1, <2>2, <2>3, <2>4, <1>s DEF Waits
<1>10. Into(h, o) = Into(g, o)
  <2>1. Into(h, o) = Into(g, o) \ M
    BY <1>s, <1>2, <1>4
  <2> QED BY <2>1, <1>2 DEF Into
<1> QED BY <1>5, <1>6, <1>7, <1>8, <1>9, <1>10 DEF LeftOut, h

(* c instead of n. *)
Shifted(X, n, c) == IF n \in X THEN (X \ {n}) \cup {c} ELSE X

(* What waited for n waits for c. *)
LeftIn(V, g, h, n, o, c) ==
  /\ Kept(V, g, h)
  /\ \A x \in Live(g) \ {c} : n \notin Waits(g, x) => Untouched(g, h, x)
  /\ \A x \in Live(g) \ {c} : Waits(h, x) = Shifted(Waits(g, x), n, c)
  /\ Waits(h, c) = Waits(g, c)
  /\ Into(h, o) = Into(g, o)
  /\ HeadIs(g, o) => HeadIs(h, o)

(* That is what attachDetachDependers does. *)
LEMMA InTurnsLeave ==
  ASSUME NEW V, NEW g, GraphOK(V, g), Clean(g, "pendings"), NEW o, NEW c \in Live(g), NEW n \in Live(g),
         n # o, n # c, o # c
  PROVE  LeftIn(V, g, attachDetachDependers(g, c, dependers(g, n)), n, o, c)
<1> DEFINE h == attachDetachDependers(g, c, dependers(g, n))
           M == Inward(g, n, c)
           new == InwardTo(g, n, c)
<1>1. Redirected(V, g, h, M, new, o)
  BY InTurns
<1>2. \A f \in M : f \in DOMAIN g.edge /\ dependee(g, f) = n /\ depender(g, f) # c
  BY DEF Inward, OutOf, Into
<1>3. \A f \in DOMAIN g.edge : f \in M <=> dependee(g, f) = n /\ depender(g, f) # c
  BY DEF Inward, OutOf, Into
<1>4. \A f \in M : new[f][1] = depender(g, f) /\ new[f][2] = c
  BY DEF InwardTo
<1> HIDE DEF h, M, new
<1>5. Kept(V, g, h) /\ (HeadIs(g, o) => HeadIs(h, o))
  BY <1>1 DEF Redirected, Changed
<1>6. ASSUME NEW x \in Live(g) \ {c}, n \notin Waits(g, x) PROVE Untouched(g, h, x)
  <2>1. \A f \in M : depender(g, f) # x
    BY <1>2, <1>6 DEF Waits, OutOf
  <2> QED BY <2>1, <1>1, <1>4, MovedUntouched
<1>s. /\ \A x : Waits(h, x) = {dependee(g, e) : e \in OutOf(g, x) \ M}
                                   \cup {new[f][2] : f \in {k \in M : new[k][1] = x}}
      /\ \A x : (\A f \in M : new[f][2] # x) => Into(h, x) = Into(g, x) \ M
  BY <1>1, MovedSides
<1>7. ASSUME NEW x \in Live(g) \ {c} PROVE Waits(h, x) = Shifted(Waits(g, x), n, c)
  <2> DEFINE A == {dependee(g, e) : e \in OutOf(g, x) \ M}
             K == {k \in M : new[k][1] = x}
             B == {new[f][2] : f \in K}
  <2>1. K = OutOf(g, x) \cap M
    BY <1>2, <1>4 DEF OutOf
  <2>2. A = Waits(g, x) \ {n}
    <3>1. \A e \in OutOf(g, x) : e \in M <=> dependee(g, e) = n
      BY <1>3 DEF OutOf
    <3> QED BY <3>1 DEF Waits
  <2>3. K # {} <=> n \in Waits(g, x)
    <3>1. \A e \in OutOf(g, x) : e \in M <=> dependee(g, e) = n
      BY <1>3 DEF OutOf
    <3> QED BY <3>1, <2>1 DEF Waits
  <2>4. B = IF K # {} THEN {c} ELSE {}
    BY <1>4
  <2>5. Waits(h, x) = A \cup B
    BY <1>s
  <2> HIDE DEF A, B, K
  <2> QED BY <2>2, <2>3, <2>4, <2>5 DEF Shifted
<1>8. Waits(h, c) = Waits(g, c)
  <2>1. OutOf(g, c) \ M = OutOf(g, c) /\ {k \in M : new[k][1] = c} = {}
    BY <1>2, <1>4 DEF OutOf
  <2> QED BY <2>1, <1>s DEF Waits
<1>9. Into(h, o) = Into(g, o)
  <2>1. Into(h, o) = Into(g, o) \ M
    BY <1>s, <1>4
  <2> QED BY <2>1, <1>2 DEF Into
<1> QED BY <1>5, <1>6, <1>7, <1>8, <1>9 DEF LeftIn, h

-----------------------------------------------------------------------------
(* RehangNode. *)

(* An opening node stays where it is. *)
Shift(X, g, n, c) == IF isHyperOpen(g, n) THEN X ELSE Shifted(X, n, c)

(* One node strung between o and c is hung there. *)
Rehung(V, g, h, n, o, c) ==
  /\ Changed(V, g, h, NotInto(g, o))
  /\ Into(h, o) = Into(g, o)
  /\ HeadIs(g, o) => HeadIs(h, o)
  /\ \A x \in Live(g) \ {o, c} : x # n \/ isHyperClose(g, n) =>
       /\ Waits(h, x) = Shift(Waits(g, x), g, n, c)
       /\ isHyperOpen(g, n) \/ n \notin Waits(g, x) => Untouched(g, h, x)
  /\ ~isHyperClose(g, n) => /\ OutOf(h, n) = OutOf(g, n) \cap Into(g, o)
                            /\ Waits(h, n) = Waits(g, n) \cap {o}
  /\ Waits(h, o) = Shift(IF isHyperClose(g, n) THEN Waits(g, o)
                         ELSE Waits(g, o) \cup (Waits(g, n) \ {o}), g, n, c)
  /\ Waits(h, c) = Waits(g, c)

(* That is what a turn of the loop of solveCycle does. *)
LEMMA RehangNodeHangs ==
  ASSUME NEW V, NEW g, GraphOK(V, g), Clean(g, "pendings"),
         NEW o, o = solving.open, NEW c, c = solving.close,
         o \in Live(g), c \in Live(g), o # c, isHyperOpen(g, o),
         NEW e \in DOMAIN g.edge, NEW n, n = depender(g, e), n # o, n # c
  PROVE  Rehung(V, g, RehangNode(g, e), n, o, c)
<1> DEFINE h == IF isHyperClose(g, n) THEN g
                ELSE attachDetachDependees(g, o, dependees(g, n))
           i == attachDetachDependers(h, c, dependers(h, n))
           r == RehangNode(g, e)
<1>1. n \in Live(g)
  BY EdgeEnds
<1>2. Changed(V, g, r, NotInto(g, o))
  BY RehangNodeDoes
<1>3. r = IF isHyperOpen(h, n) THEN h ELSE i
  BY DEF RehangNode
<1>4. isHyperClose(g, n) => h = g
  OBVIOUS
<1>5. ~isHyperClose(g, n) => LeftOut(V, g, h, n, o)
  BY <1>1, OutTurnsLeave
<1> HIDE DEF h, r
<1>6. Kept(V, g, h)
  BY <1>4, <1>5, KeptNot DEF LeftOut
<1>7. GraphOK(V, h) /\ Clean(h, "pendings") /\ Live(h) = Live(g) /\ (isHyperOpen(h, n) <=> isHyperOpen(g, n))
  BY <1>1, <1>6, KeptFacts, SameHyper
<1>8. LeftIn(V, h, i, n, o, c)
  BY <1>1, <1>7, InTurnsLeave
<1> HIDE DEF i
<1>9. /\ Into(h, o) = Into(g, o) /\ (HeadIs(g, o) => HeadIs(h, o)) /\ Waits(h, c) = Waits(g, c)
      /\ Waits(h, o) = IF isHyperClose(g, n) THEN Waits(g, o) ELSE Waits(g, o) \cup (Waits(g, n) \ {o})
  <2>1. CASE isHyperClose(g, n)
    BY <2>1, <1>4
  <2>2. CASE ~isHyperClose(g, n)
    <3>1. LeftOut(V, g, h, n, o)
      BY <2>2, <1>5
    <3>2. Untouched(g, h, c)
      BY <3>1 DEF LeftOut
    <3>3. Waits(h, c) = Waits(g, c)
      BY <3>2, <1>6, UntouchedWaits
    <3> QED BY <3>1, <3>3, <2>2 DEF LeftOut
  <2> QED BY <2>1, <2>2
<1>10. ASSUME NEW x \in Live(g) \ {o, c}, x # n \/ isHyperClose(g, n)
       PROVE  Untouched(g, h, x) /\ Waits(h, x) = Waits(g, x)
  <2>1. Untouched(g, h, x)
    <3>1. CASE isHyperClose(g, n)
      BY <3>1, <1>4 DEF Untouched, OutOf
    <3>2. CASE ~isHyperClose(g, n)
      BY <3>2, <1>5, <1>10 DEF LeftOut
    <3> QED BY <3>1, <3>2
  <2> QED BY <2>1, <1>6, UntouchedWaits
<1>11. ~isHyperClose(g, n) => OutOf(h, n) = OutOf(g, n) \cap Into(g, o) /\ Waits(h, n) = Waits(g, n) \cap {o}
  BY <1>5 DEF LeftOut
<1>12. CASE isHyperOpen(g, n)
  <2>1. r = h
    BY <1>3, <1>7, <1>12
  <2>2. \A X : Shift(X, g, n, c) = X
    BY <1>12 DEF Shift
  <2> QED BY <2>1, <2>2, <1>2, <1>9, <1>10, <1>11 DEF Rehung, r
<1>13. CASE ~isHyperOpen(g, n)
  <2>1. r = i
    BY <1>3, <1>7, <1>13
  <2>2. \A X : Shift(X, g, n, c) = Shifted(X, n, c)
    BY <1>13 DEF Shift
  <2>3. Kept(V, h, i)
    BY <1>8 DEF LeftIn
  <2>4. ASSUME NEW x \in Live(g) \ {o, c}, x # n \/ isHyperClose(g, n)
        PROVE  /\ Waits(i, x) = Shift(Waits(g, x), g, n, c)
               /\ n \notin Waits(g, x) => Untouched(g, i, x)
    <3>1. Untouched(g, h, x) /\ Waits(h, x) = Waits(g, x)
      BY <2>4, <1>10
    <3>2. Waits(i, x) = Shifted(Waits(h, x), n, c) /\ (n \notin Waits(h, x) => Untouched(h, i, x))
      BY <1>7, <1>8 DEF LeftIn
    <3> QED BY <3>1, <3>2, <2>2, UntouchedTwice
  <2>5. ASSUME ~isHyperClose(g, n)
        PROVE  OutOf(i, n) = OutOf(g, n) \cap Into(g, o) /\ Waits(i, n) = Waits(g, n) \cap {o}
    <3>1. n \notin Waits(h, n)
      BY <2>5, <1>11
    <3>2. Untouched(h, i, n)
      BY <3>1, <1>1, <1>7, <1>8 DEF LeftIn
    <3>3. OutOf(i, n) = OutOf(h, n) /\ Waits(i, n) = Waits(h, n)
      BY <3>2, <1>1, <1>7, <2>3, UntouchedWaits
    <3> QED BY <3>3, <2>5, <1>11
  <2>6. Waits(i, o) = Shift(Waits(h, o), g, n, c) /\ Waits(i, c) = Waits(h, c)
    BY <2>2, <1>7, <1>8 DEF LeftIn
  <2>7. Into(i, o) = Into(h, o) /\ (HeadIs(h, o) => HeadIs(i, o))
    BY <1>8 DEF LeftIn
  <2> QED BY <2>1, <2>4, <2>5, <2>6, <2>7, <1>2, <1>9, <1>13 DEF Rehung, r
<1> QED BY <1>12, <1>13

-----------------------------------------------------------------------------
(* The picture of a graph, without the nodes H. *)
Pic(g, H) ==
  [nodes |-> Live(g) \ H,
   opens |-> {x \in Live(g) \ H : isHyperOpen(g, x)},
   closes |-> {x \in Live(g) \ H : isHyperClose(g, x)},
   waits |-> [x \in Live(g) \ H |-> Waits(g, x) \ H],
   name |-> [x \in Live(g) \ H |-> g.node[x].value]]

(* The node the walk goes on to from x. *)
FirstOf(g, x) == dependee(g, Head(dependees(g, x)))

(* The pair of hyper nodes of a walk, and the nodes strung between them. *)
Strung(g, S, o, c) ==
  /\ o \in Live(g) /\ c \in Live(g) /\ o # c /\ isHyperOpen(g, o) /\ isHyperClose(g, c)
  /\ Waits(g, c) = S /\ S \subseteq Live(g) \ {o, c}
  /\ Waits(g, o) = {}
  /\ \A x \in Live(g) : c \notin Waits(g, x)
  /\ \A x \in Live(g) \ {o, c} : o \in Waits(g, x) <=> x \in S
  /\ \A x \in S : \E e : OutOf(g, x) \cap Into(g, o) = {e}

(* One more node is hung. *)
LEMMA HungMore ==
  ASSUME NEW p, NEW T, NEW n, n \notin T, NEW c, n # c, NEW X, NEW N, N = T \cup {n}
  PROVE  /\ n \in p.opens => Hung(p, T, c, X) = Hung(p, N, c, X)
         /\ n \notin p.opens => Shifted(Hung(p, T, c, X), n, c) = Hung(p, N, c, X)
<1>1. n \in p.opens => Hung(p, T, c, X) = Hung(p, N, c, X)
  BY DEF Hung
<1>2. ASSUME n \notin p.opens PROVE Shifted(Hung(p, T, c, X), n, c) = Hung(p, N, c, X)
  <2>1. N \ p.opens = (T \ p.opens) \cup {n}
    BY <1>2
  <2>2. CASE n \in X
    BY <2>1, <2>2, <1>2 DEF Hung, Shifted
  <2>3. CASE n \notin X
    BY <2>1, <2>3, <1>2 DEF Hung, Shifted
  <2> QED BY <2>2, <2>3
<1> QED BY <1>1, <1>2

(* The opening node is waited for by those strung. *)
Mark(S, o, x) == IF x \in S THEN {o} ELSE {}
(* What the nodes of T wait for, the closing ones aside. *)
AllOf(p, T) == UNION {p.waits[x] : x \in T \ p.closes}

(* How far the loop over the nodes of the cycle has come: T is done. *)
Hanged(V, g, h, p, S, T, o, c) ==
  /\ Changed(V, g, h, NotInto(g, o))
  /\ Into(h, o) = Into(g, o)
  /\ HeadIs(h, o)
  /\ \A x \in p.nodes \ (T \ p.closes) :
       Waits(h, x) = Hung(p, T, c, p.waits[x]) \cup Mark(S, o, x)
  /\ \A x \in T \ p.closes : Waits(h, x) = {o} /\ \E e : OutOf(h, x) = {e}
  /\ Waits(h, o) = Hung(p, T, c, AllOf(p, T))
  /\ Waits(h, c) = S
  /\ \A x \in p.nodes \ (T \ p.closes) :
       p.waits[x] \cap (T \ p.opens) = {} => Untouched(g, h, x)

(* What the picture of a graph is. *)
LEMMA PicIs ==
  ASSUME NEW V, NEW g, GraphOK(V, g), NEW H, NEW p, p = Pic(g, H)
  PROVE  /\ p.nodes = Live(g) \ H
         /\ \A x \in Live(g) \ H : x \in p.opens <=> isHyperOpen(g, x)
         /\ \A x \in Live(g) \ H : x \in p.closes <=> isHyperClose(g, x)
         /\ p.opens \subseteq p.nodes /\ p.closes \subseteq p.nodes
         /\ \A x \in Live(g) \ H : p.waits[x] = Waits(g, x) \ H
         /\ \A x \in Live(g) \ H : p.name[x] = g.node[x].value
         /\ \A x \in Live(g) \ H : p.waits[x] \subseteq p.nodes
         /\ p.opens \cap p.closes = {}
<1>1. /\ p.nodes = Live(g) \ H
      /\ p.opens = {x \in Live(g) \ H : isHyperOpen(g, x)}
      /\ p.closes = {x \in Live(g) \ H : isHyperClose(g, x)}
      /\ \A x \in Live(g) \ H : p.waits[x] = Waits(g, x) \ H
      /\ \A x \in Live(g) \ H : p.name[x] = g.node[x].value
  BY DEF Pic
<1>2. p.opens \cap p.closes = {}
  BY <1>1, NoHyperModule DEF isHyperOpen, isHyperClose
<1>3. \A x \in Live(g) \ H : p.waits[x] \subseteq p.nodes
  BY <1>1, WaitsLive
<1> QED BY <1>1, <1>2, <1>3

(* Hung goes through unions. *)
LEMMA HungBoth ==
  ASSUME NEW p, NEW T, NEW c, NEW X, NEW Y
  PROVE  Hung(p, T, c, X) \cup Hung(p, T, c, Y) = Hung(p, T, c, X \cup Y)
<1> DEFINE R == T \ p.opens
<1> HIDE DEF R
<1>1. \A Z : Hung(p, T, c, Z) = (Z \ R) \cup {k \in {c} : Z \cap R # {}}
  BY DEF Hung, R
<1>2. ((X \ R) \cup {k \in {c} : X \cap R # {}}) \cup ((Y \ R) \cup {k \in {c} : Y \cap R # {}})
       = ((X \cup Y) \ R) \cup {k \in {c} : (X \cup Y) \cap R # {}}
  OBVIOUS
<1> QED BY <1>1, <1>2

(* n brings what it waits for. *)
AllOfGrows(p, T, N, n) == AllOf(p, N) = AllOf(p, T) \cup p.waits[n]

(* That is so where n is no closing node. *)
LEMMA AllOfMore ==
  ASSUME NEW p, NEW T, NEW N, NEW n, NEW K, K = p.closes, N \ K = (T \ K) \cup {n}
  PROVE  AllOfGrows(p, T, N, n)
<1> DEFINE A == N \ p.closes
           B == T \ p.closes
           w == p.waits
<1>1. AllOf(p, N) = UNION {w[x] : x \in A} /\ AllOf(p, T) = UNION {w[x] : x \in B} /\ A = B \cup {n}
  BY DEF AllOf
<1> HIDE DEF A, B, w
<1>2. UNION {w[x] : x \in B \cup {n}} = (UNION {w[x] : x \in B}) \cup w[n]
  OBVIOUS
<1> QED BY <1>1, <1>2 DEF w, AllOfGrows

(* At first none is hung. *)
LEMMA HangedNone ==
  ASSUME NEW V, NEW g, GraphOK(V, g), NEW S, NEW o, NEW c, Strung(g, S, o, c),
         NEW p, p = Pic(g, {o, c}), NEW T, T = {}
  PROVE  Hanged(V, g, g, p, S, T, o, c)
<1>1. /\ p.nodes = Live(g) \ {o, c}
      /\ \A x \in Live(g) \ {o, c} : p.waits[x] = Waits(g, x) \ {o, c}
  BY PicIs
<1>2. \A X : Hung(p, T, c, X) = X
  BY DEF Hung
<1>3. Changed(V, g, g, NotInto(g, o))
  BY ChangedNot
<1>4. HeadIs(g, o)
  BY WaitsLive DEF HeadIs, Blocked, Strung
<1>5. ASSUME NEW x \in p.nodes
      PROVE  Waits(g, x) = p.waits[x] \cup Mark(S, o, x)
  <2>1. x \in Live(g) /\ x # c /\ p.waits[x] = Waits(g, x) \ {o, c} /\ c \notin Waits(g, x)
        /\ (o \in Waits(g, x) <=> x \in S)
    BY <1>1 DEF Strung
  <2> QED BY <2>1 DEF Mark
<1>6. AllOf(p, T) = {}
  BY DEF AllOf
<1>7. \A x \in p.nodes : Untouched(g, g, x)
  BY DEF Untouched, OutOf
<1>8. Waits(g, o) = {} /\ Waits(g, c) = S
  BY DEF Strung
<1>9. T \ p.closes = {}
  OBVIOUS
<1> QED BY <1>2, <1>3, <1>4, <1>5, <1>6, <1>7, <1>8, <1>9 DEF Hanged

(* A turn of the loop hangs one more. *)
LEMMA HangedStep ==
  ASSUME NEW V, NEW g, GraphOK(V, g), Clean(g, "pendings"),
         NEW o, o = solving.open, NEW c, c = solving.close, NEW S, Strung(g, S, o, c),
         NEW p, p = Pic(g, {o, c}), NEW T, T \subseteq S, NEW h, Hanged(V, g, h, p, S, T, o, c),
         NEW e \in Into(g, o), NEW n \in S \ T, depender(g, e) = n,
         NEW i, i = RehangNode(h, e), NEW N, N = T \cup {n}
  PROVE  Hanged(V, g, i, p, S, N, o, c)
<1>p. /\ p.nodes = Live(g) \ {o, c}
      /\ \A x \in Live(g) \ {o, c} : x \in p.opens <=> isHyperOpen(g, x)
      /\ \A x \in Live(g) \ {o, c} : x \in p.closes <=> isHyperClose(g, x)
      /\ \A x \in Live(g) \ {o, c} : p.waits[x] = Waits(g, x) \ {o, c}
      /\ p.opens \cap p.closes = {}
  BY PicIs
<1>s. /\ o \in Live(g) /\ c \in Live(g) /\ o # c /\ isHyperOpen(g, o)
      /\ S \subseteq Live(g) \ {o, c}
      /\ \A x \in S : \E k : OutOf(g, x) \cap Into(g, o) = {k}
  BY DEF Strung
<1>n. n \in p.nodes /\ n # o /\ n # c /\ n \in Live(g)
  BY <1>p, <1>s
<1>h. /\ Changed(V, g, h, NotInto(g, o))
      /\ Into(h, o) = Into(g, o)
      /\ HeadIs(h, o)
      /\ \A x \in p.nodes \ (T \ p.closes) :
           Waits(h, x) = Hung(p, T, c, p.waits[x]) \cup Mark(S, o, x)
      /\ \A x \in T \ p.closes : Waits(h, x) = {o} /\ \E k : OutOf(h, x) = {k}
      /\ Waits(h, o) = Hung(p, T, c, AllOf(p, T))
      /\ Waits(h, c) = S
      /\ \A x \in p.nodes \ (T \ p.closes) :
           p.waits[x] \cap (T \ p.opens) = {} => Untouched(g, h, x)
  BY DEF Hanged
<1>ha. ASSUME NEW x \in p.nodes \ (T \ p.closes)
       PROVE  Waits(h, x) = Hung(p, T, c, p.waits[x]) \cup Mark(S, o, x)
  BY <1>h
<1>hb. ASSUME NEW x \in T \ p.closes PROVE Waits(h, x) = {o} /\ \E k : OutOf(h, x) = {k}
  BY <1>h
<1>hc. ASSUME NEW x \in p.nodes \ (T \ p.closes), p.waits[x] \cap (T \ p.opens) = {}
       PROVE  Untouched(g, h, x)
  BY <1>h, <1>hc
<1>k. /\ Kept(V, g, h) /\ GraphOK(V, h) /\ Live(h) = Live(g) /\ Clean(h, "pendings")
      /\ isHyperOpen(h, o)
      /\ isHyperOpen(h, n) <=> n \in p.opens
      /\ isHyperClose(h, n) <=> n \in p.closes
  <2>1. Kept(V, g, h)
    BY <1>h DEF Changed
  <2>2. GraphOK(V, h) /\ Live(h) = Live(g) /\ Clean(h, "pendings")
    BY <2>1, KeptFacts
  <2>3. isHyperOpen(h, o)
    BY <2>1, <1>s, SameHyper
  <2>4. (isHyperOpen(h, n) <=> isHyperOpen(g, n)) /\ (isHyperClose(h, n) <=> isHyperClose(g, n))
    BY <2>1, <1>n, SameHyper
  <2>5. (isHyperOpen(g, n) <=> n \in p.opens) /\ (isHyperClose(g, n) <=> n \in p.closes)
    BY <1>n, <1>p
  <2> QED BY <2>1, <2>2, <2>3, <2>4, <2>5
<1>e. e \in DOMAIN h.edge /\ depender(h, e) = n
  BY <1>h DEF Changed, Into, NotInto, depender
<1>r. Rehung(V, h, i, n, o, c)
  BY <1>e, <1>k, <1>n, <1>s, RehangNodeHangs
<1>q. /\ Changed(V, h, i, NotInto(h, o))
      /\ Into(i, o) = Into(h, o)
      /\ HeadIs(h, o) => HeadIs(i, o)
      /\ \A x \in p.nodes : x # n \/ n \in p.closes =>
           /\ Waits(i, x) = Shift(Waits(h, x), h, n, c)
           /\ n \in p.opens \/ n \notin Waits(h, x) => Untouched(h, i, x)
      /\ n \notin p.closes => /\ OutOf(i, n) = OutOf(h, n) \cap Into(h, o)
                              /\ Waits(i, n) = Waits(h, n) \cap {o}
      /\ Waits(i, o) = Shift(IF n \in p.closes THEN Waits(h, o)
                             ELSE Waits(h, o) \cup (Waits(h, n) \ {o}), h, n, c)
      /\ Waits(i, c) = Waits(h, c)
  BY <1>r, <1>k, <1>p DEF Rehung
<1>m. \A X : Shift(Hung(p, T, c, X), h, n, c) = Hung(p, N, c, X)
  BY <1>n, <1>k, HungMore DEF Shift
<1>1. Changed(V, g, i, NotInto(g, o)) /\ Into(i, o) = Into(g, o) /\ HeadIs(i, o) /\ Waits(i, c) = S
  BY <1>h, <1>q, NotIntoTwice
<1>2. ASSUME NEW x \in p.nodes \ (N \ p.closes)
      PROVE  /\ Waits(i, x) = Hung(p, N, c, p.waits[x]) \cup Mark(S, o, x)
             /\ p.waits[x] \cap (N \ p.opens) = {} => Untouched(g, i, x)
  <2>1. x \in p.nodes \ (T \ p.closes) /\ (x # n \/ n \in p.closes)
    BY <1>2
  <2> DEFINE O == Mark(S, o, x)
  <2>2. Waits(h, x) = Hung(p, T, c, p.waits[x]) \cup O
    BY <2>1, <1>h
  <2>3. Waits(i, x) = Shift(Waits(h, x), h, n, c)
    BY <2>1, <1>q
  <2>0. o # c /\ n # o /\ c # n /\ O \subseteq {o}
    BY <1>n, <1>s DEF Mark
  <2>4. Shift(Hung(p, T, c, p.waits[x]) \cup O, h, n, c) = Shift(Hung(p, T, c, p.waits[x]), h, n, c) \cup O
    <3> DEFINE X == Hung(p, T, c, p.waits[x])
    <3> HIDE DEF X, O
    <3>1. Shift(X \cup O, h, n, c) = Shift(X, h, n, c) \cup O
      BY <2>0 DEF Shift, Shifted
    <3> QED BY <3>1 DEF X
  <2>5. Waits(i, x) = Hung(p, N, c, p.waits[x]) \cup O
    <3>1. Shift(Hung(p, T, c, p.waits[x]), h, n, c) = Hung(p, N, c, p.waits[x])
      BY <1>m
    <3> HIDE DEF O
    <3> QED BY <2>2, <2>3, <2>4, <3>1
  <2>6. ASSUME p.waits[x] \cap (N \ p.opens) = {} PROVE Untouched(g, i, x)
    <3>1. Untouched(g, h, x)
      <4>1. p.waits[x] \cap (T \ p.opens) = {}
        BY <2>6
      <4> QED BY <4>1, <2>1, <1>hc
    <3>2. n \in p.opens \/ n \notin Waits(h, x)
      BY <2>0, <2>2, <2>6 DEF Hung
    <3>3. Untouched(h, i, x)
      BY <3>2, <2>1, <1>q
    <3> QED BY <3>1, <3>3, UntouchedTwice
  <2> QED BY <2>5, <2>6
<1>3. ASSUME NEW x \in N \ p.closes
      PROVE  Waits(i, x) = {o} /\ \E k : OutOf(i, x) = {k}
  <2>1. CASE x = n
    <3>1. n \in p.nodes \ (T \ p.closes) /\ n \notin p.closes
      BY <2>1, <1>3, <1>n
    <3>2. o \in Waits(h, n)
      BY <3>1, <1>ha DEF Mark
    <3>3. Waits(i, n) = {o}
      BY <3>1, <3>2, <1>q
    <3>4. OutOf(h, n) \cap Into(h, o) = OutOf(g, n) \cap Into(g, o)
      <4>1. \A k \in Into(g, o) : depender(h, k) = depender(g, k) /\ k \in DOMAIN h.edge /\ k \in DOMAIN g.edge
        BY <1>h DEF Changed, Into, NotInto, depender
      <4> QED BY <4>1, <1>h DEF OutOf
    <3> QED BY <2>1, <3>1, <3>3, <3>4, <1>q, <1>s
  <2>2. CASE x # n
    <3>1. x \in T \ p.closes /\ x \in p.nodes
      BY <2>2, <1>3, <1>p, <1>s
    <3>2. n \notin Waits(h, x)
      BY <3>1, <1>hb, <1>n
    <3>3. Untouched(h, i, x)
      BY <2>2, <3>1, <3>2, <1>q
    <3>4. Waits(i, x) = Waits(h, x) /\ OutOf(i, x) = OutOf(h, x)
      <4>1. x \in Live(h) /\ Kept(V, h, i)
        BY <3>1, <1>k, <1>p, <1>q DEF Changed
      <4> QED BY <4>1, <3>3, <1>k, UntouchedWaits
    <3> QED BY <3>1, <3>4, <1>hb
  <2> QED BY <2>1, <2>2
<1>4. Waits(i, o) = Hung(p, N, c, AllOf(p, N))
  <2> DEFINE U == AllOf(p, T)
             W == AllOf(p, N)
  <2>1. Waits(h, o) = Hung(p, T, c, U)
    BY <1>h
  <2>2. CASE n \in p.closes
    <3>1. N \ p.closes = T \ p.closes
      BY <2>2
    <3>2. W = U
      BY <3>1 DEF AllOf
    <3>3. Waits(i, o) = Shift(Waits(h, o), h, n, c)
      BY <2>2, <1>q
    <3> HIDE DEF U, W
    <3> QED BY <2>1, <3>2, <3>3, <1>m DEF W
  <2>3. CASE n \notin p.closes
    <3>1. W = U \cup p.waits[n]
      <4>1. N \ p.closes = (T \ p.closes) \cup {n}
        BY <2>3
      <4> HIDE DEF U, W
      <4> DEFINE K == p.closes
      <4>2. K = p.closes /\ N \ K = (T \ K) \cup {n}
        BY <4>1
      <4> HIDE DEF K
      <4>3. AllOfGrows(p, T, N, n)
        BY <4>2, AllOfMore
      <4> QED BY <4>3 DEF U, W, AllOfGrows
    <3>2. Waits(h, n) \ {o} = Hung(p, T, c, p.waits[n])
      <4>1. Waits(h, n) = Hung(p, T, c, p.waits[n]) \cup {o}
        <5>1. n \in p.nodes \ (T \ p.closes) /\ Mark(S, o, n) = {o}
          BY <1>n DEF Mark
        <5> QED BY <5>1, <1>ha
      <4>2. o \notin Hung(p, T, c, p.waits[n])
        <5>0. p.waits[n] = Waits(g, n) \ {o, c}
          BY <1>p, <1>n
        <5>1. o \notin p.waits[n] /\ o # c
          BY <5>0, <1>s
        <5> QED BY <5>1 DEF Hung
      <4> QED BY <4>1, <4>2
    <3>3. Hung(p, T, c, U) \cup Hung(p, T, c, p.waits[n]) = Hung(p, T, c, U \cup p.waits[n])
      BY HungBoth
    <3>4. Waits(i, o) = Shift(Waits(h, o) \cup (Waits(h, n) \ {o}), h, n, c)
      BY <2>3, <1>q
    <3> HIDE DEF U, W
    <3>5. Waits(i, o) = Shift(Hung(p, T, c, W), h, n, c)
      BY <2>1, <3>1, <3>2, <3>3, <3>4
    <3> QED BY <3>5, <1>m DEF W
  <2> QED BY <2>2, <2>3
<1> QED BY <1>1, <1>2, <1>3, <1>4 DEF Hanged

(* The loop hangs all of them. *)
LEMMA RehangAllHangs ==
  ASSUME NEW V, NEW g, GraphOK(V, g), Clean(g, "pendings"),
         NEW o, o = solving.open, NEW c, c = solving.close, NEW S, Strung(g, S, o, c),
         NEW p, p = Pic(g, {o, c})
  PROVE  Hanged(V, g, RehangAll(g, dependers(g, o)), p, S, S, o, c)
<1> DEFINE edges == dependers(g, o)
           N == Len(edges)
           T(k) == {depender(g, edges[j]) : j \in 1 .. k}
<1>s. /\ o \in Live(g) /\ c \in Live(g)
      /\ Waits(g, c) = S /\ S \subseteq Live(g) \ {o, c}
      /\ Waits(g, o) = {}
      /\ \A x \in Live(g) \ {o, c} : o \in Waits(g, x) <=> x \in S
      /\ \A x \in S : \E e : OutOf(g, x) \cap Into(g, o) = {e}
  BY DEF Strung
<1>1. OnceIn(edges) /\ ToSet(edges) = Into(g, o)
  BY <1>s, NodeEdges
<1>2. /\ N \in Nat /\ DOMAIN edges = 1 .. N
      /\ \A a, b \in 1 .. N : edges[a] = edges[b] => a = b
  BY <1>1 DEF OnceIn, IsInjective
<1>3. \A k \in 1 .. N : edges[k] \in Into(g, o)
  BY <1>1, <1>2 DEF ToSet
<1>4. ASSUME NEW e \in Into(g, o) PROVE depender(g, e) \in S /\ e \in OutOf(g, depender(g, e)) \cap Into(g, o)
  <2>1. depender(g, e) \in Live(g) /\ e \in OutOf(g, depender(g, e)) /\ dependee(g, e) = o
    BY EdgeEnds DEF Into, OutOf
  <2>2. o \in Waits(g, depender(g, e))
    BY <2>1 DEF Waits
  <2> QED BY <2>1, <2>2, <1>s
<1>5. ASSUME NEW x \in S PROVE \E k \in 1 .. N : depender(g, edges[k]) = x
  <2>1. PICK e : OutOf(g, x) \cap Into(g, o) = {e}
    BY <1>s
  <2>2. e \in ToSet(edges) /\ depender(g, e) = x
    BY <2>1, <1>1 DEF OutOf
  <2> QED BY <2>2, <1>2 DEF ToSet
<1> HIDE DEF edges
<1>0. PICK after : RehangAllTurns(g, edges, after)
  <2> HIDE DEF N
  <2> QED BY <1>2, RehangAllShape DEF N
<1>6. /\ RehangAll(g, edges) = after[N]
      /\ after[0] = g
      /\ \A k \in 1 .. N : after[k] = RehangNode(after[k - 1], edges[k])
  BY <1>0 DEF RehangAllTurns
<1> HIDE DEF N
<1> DEFINE P == {k \in 0 .. N : Hanged(V, g, after[k], p, S, T(k), o, c)}
<1>7. 0 \in P
  <2>1. T(0) = {}
    OBVIOUS
  <2> HIDE DEF T
  <2>2. Hanged(V, g, after[0], p, S, T(0), o, c)
    BY <2>1, <1>6, HangedNone
  <2> QED BY <2>2, <1>2
<1>8. ASSUME NEW k \in 0 .. N - 1, k \in P PROVE k + 1 \in P
  <2> DEFINE h == after[k]
             i == after[k + 1]
             e == edges[k + 1]
             n == depender(g, e)
             A == T(k)
             B == T(k + 1)
  <2>1. k \in Nat /\ k + 1 \in 1 .. N /\ k + 1 \in 0 .. N /\ k + 1 - 1 = k
    BY <1>2
  <2>2. i = RehangNode(h, e)
    BY <2>1, <1>6
  <2>3. e \in Into(g, o) /\ n \in S
    BY <2>1, <1>3, <1>4
  <2>4. B = A \cup {n}
    BY <2>1
  <2>5. n \notin A
    <3>1. ASSUME NEW j \in 1 .. k, depender(g, edges[j]) = n PROVE FALSE
      <4>1. j \in 1 .. N /\ j # k + 1
        BY <2>1, <1>2
      <4>2. PICK x : OutOf(g, n) \cap Into(g, o) = {x}
        BY <2>3, <1>s
      <4>3. edges[j] = x /\ e = x
        BY <4>1, <4>2, <2>3, <3>1, <1>3, <1>4
      <4> QED BY <4>1, <4>3, <2>1, <1>2
    <3> QED BY <3>1
  <2>6. A \subseteq S
    BY <2>1, <1>2, <1>3, <1>4
  <2>7. Hanged(V, g, h, p, S, A, o, c)
    BY <1>8
  <2> HIDE DEF A, B, h, i, e
  <2>8. Hanged(V, g, i, p, S, B, o, c)
    BY <2>2, <2>3, <2>4, <2>5, <2>6, <2>7, HangedStep
  <2> QED BY <2>1, <2>8 DEF i, B
<1>9. N \in P
  <2> HIDE DEF P
  <2>1. 0 .. N \subseteq P
    BY <1>2, <1>7, <1>8, UpTo
  <2> QED BY <2>1, <1>2
<1>10. T(N) = S
  <2>1. T(N) \subseteq S
    BY <1>3, <1>4
  <2>2. S \subseteq T(N)
    BY <1>5
  <2> QED BY <2>1, <2>2
<1> HIDE DEF T
<1> QED BY <1>6, <1>9, <1>10 DEF edges

-----------------------------------------------------------------------------
(* The whole of Rehang. *)

(* The picture of a whole graph. *)
PicFacts(g, q) ==
  /\ q.nodes = Live(g)
  /\ q.opens = {x \in Live(g) : isHyperOpen(g, x)}
  /\ q.closes = {x \in Live(g) : isHyperClose(g, x)}
  /\ q.opens \subseteq q.nodes /\ q.closes \subseteq q.nodes
  /\ \A x \in Live(g) : q.waits[x] = Waits(g, x)
  /\ \A x \in Live(g) : q.name[x] = g.node[x].value
  /\ q.opens \cap q.closes = {}

(* It is what PicIs says, for no hidden node. *)
LEMMA PicFull ==
  ASSUME NEW V, NEW g, GraphOK(V, g), NEW q, q = Pic(g, {})
  PROVE  PicFacts(g, q)
<1> DEFINE H == {}
<1>0. q = Pic(g, H)
  OBVIOUS
<1>e. \A S : S \ H = S
  OBVIOUS
<1> HIDE DEF H
<1>1. /\ q.nodes = Live(g) \ H
      /\ \A x \in Live(g) \ H : x \in q.opens <=> isHyperOpen(g, x)
      /\ \A x \in Live(g) \ H : x \in q.closes <=> isHyperClose(g, x)
      /\ q.opens \subseteq q.nodes /\ q.closes \subseteq q.nodes
      /\ \A x \in Live(g) \ H : q.waits[x] = Waits(g, x) \ H
      /\ \A x \in Live(g) \ H : q.name[x] = g.node[x].value
      /\ q.opens \cap q.closes = {}
  BY <1>0, PicIs
<1>2. q.nodes = Live(g)
  BY <1>1, <1>e
<1>3. q.opens = {x \in Live(g) : isHyperOpen(g, x)} /\ q.closes = {x \in Live(g) : isHyperClose(g, x)}
  BY <1>1, <1>2
<1>4. \A x \in Live(g) : q.waits[x] = Waits(g, x) /\ q.name[x] = g.node[x].value
  BY <1>1, <1>e
<1> QED BY <1>1, <1>2, <1>3, <1>4 DEF PicFacts

(* The first edge of a node that is not touched stays. *)
LEMMA UntouchedFirst ==
  ASSUME NEW V, NEW g, GraphOK(V, g), NEW h, NEW x \in Live(g), Untouched(g, h, x), dependees(g, x) # <<>>
  PROVE  dependees(h, x) # <<>> /\ FirstOf(h, x) = FirstOf(g, x)
<1>1. Head(dependees(g, x)) \in OutOf(g, x)
  BY NodeEdges, TailOnce
<1>2. dependees(h, x) = dependees(g, x)
  BY DEF Untouched
<1>3. h.edge[Head(dependees(g, x))] = g.edge[Head(dependees(g, x))]
  BY <1>1 DEF Untouched
<1> QED BY <1>2, <1>3 DEF FirstOf, dependee

(* What Rehang makes of the nodes strung between o and c. *)
Contracts(V, g, h, p, q, S, o, c) ==
  /\ Kept(V, g, h)
  /\ Contracted(p, q, S, o, c)
  /\ \A x \in S \ p.closes : \E e : OutOf(h, x) = {e}
  /\ \A x \in p.nodes \ (S \ p.closes) :
       p.waits[x] \cap (S \ p.opens) = {} => Untouched(g, h, x)
  /\ dependees(h, c) # <<>> /\ FirstOf(h, c) = o
  /\ HeadIs(h, o)

(* Rehang contracts the nodes that were strung. *)
LEMMA RehangContracts ==
  ASSUME NEW V, NEW g, GraphOK(V, g), Clean(g, "pendings"),
         NEW o, o = solving.open, NEW c, c = solving.close,
         NEW S, S # {}, Strung(g, S, o, c),
         NEW p, p = Pic(g, {o, c}),
         NEW h, h = attach(RehangAll(g, dependers(g, o)), c, o), NEW q, q = Pic(h, {})
  PROVE  Contracts(V, g, h, p, q, S, o, c)
<1> DEFINE i == RehangAll(g, dependers(g, o))
           e == NewEdge(i)
<1>i. Hanged(V, g, i, p, S, S, o, c)
  BY RehangAllHangs
<1>h. h = attach(i, c, o)
  OBVIOUS
<1> HIDE DEF i
<1>ia. /\ Changed(V, g, i, NotInto(g, o))
       /\ HeadIs(i, o)
       /\ Waits(i, o) = Hung(p, S, c, AllOf(p, S))
       /\ Waits(i, c) = S
  BY <1>i DEF Hanged
<1>ib. ASSUME NEW x \in p.nodes \ (S \ p.closes)
       PROVE  /\ Waits(i, x) = Hung(p, S, c, p.waits[x]) \cup Mark(S, o, x)
              /\ p.waits[x] \cap (S \ p.opens) = {} => Untouched(g, i, x)
  BY <1>i DEF Hanged
<1>ic. ASSUME NEW x \in S \ p.closes PROVE Waits(i, x) = {o} /\ \E k : OutOf(i, x) = {k}
  BY <1>i DEF Hanged
<1>s. /\ o \in Live(g) /\ c \in Live(g) /\ o # c /\ isHyperOpen(g, o) /\ isHyperClose(g, c)
      /\ S \subseteq Live(g) \ {o, c}
  BY DEF Strung
<1>p. /\ p.nodes = Live(g) \ {o, c}
      /\ \A x \in Live(g) \ {o, c} : x \in p.opens <=> isHyperOpen(g, x)
      /\ \A x \in Live(g) \ {o, c} : x \in p.closes <=> isHyperClose(g, x)
      /\ p.opens \subseteq p.nodes /\ p.closes \subseteq p.nodes
      /\ \A x \in Live(g) \ {o, c} : p.waits[x] = Waits(g, x) \ {o, c}
      /\ \A x \in Live(g) \ {o, c} : p.name[x] = g.node[x].value
      /\ p.opens \cap p.closes = {}
  BY PicIs
<1>1. Kept(V, g, i) /\ GraphOK(V, i) /\ Live(i) = Live(g) /\ Clean(i, "pendings")
  <2>1. Kept(V, g, i)
    BY <1>ia DEF Changed
  <2> QED BY <2>1, KeptFacts
<1>2. /\ Kept(V, i, h) /\ h.edge = EdgePlus(i.edge, e, c, o) /\ e \in Nat \ DOMAIN i.edge
      /\ Hooked(i, h, c, e)
      /\ \A x : Waits(h, x) = IF x = c THEN Waits(i, x) \cup {o} ELSE Waits(i, x)
  <2>1. isPending(i, c) => Clean(i, "pendings")
    BY <1>1
  <2>2. c \in Live(i) /\ o \in Live(i)
    BY <1>1, <1>s
  <2>3. Kept(V, i, h) /\ h.edge = EdgePlus(i.edge, e, c, o) /\ e \in Nat \ DOMAIN i.edge
    BY <2>1, <2>2, <1>1, <1>h, AttachDoes
  <2>4. Hooked(i, h, c, e)
    BY <2>1, <2>2, <1>1, <1>h, AttachLists
  <2>5. AttachedWaits(V, i, h, c, o)
    BY <2>1, <2>2, <1>1, <1>h, AttachWaits
  <2> QED BY <2>3, <2>4, <2>5 DEF AttachedWaits
<1> HIDE DEF e
<1>3. Kept(V, g, h) /\ GraphOK(V, h) /\ Live(h) = Live(g)
  <2>1. Kept(V, g, h)
    BY <1>1, <1>2, KeptTwice
  <2> QED BY <2>1, KeptFacts
<1>4. /\ e \in DOMAIN h.edge /\ h.edge[e] = <<c, o>>
      /\ \A k \in DOMAIN i.edge : k \in DOMAIN h.edge /\ h.edge[k] = i.edge[k]
      /\ \A k \in DOMAIN h.edge : k # e => k \in DOMAIN i.edge
  BY <1>2 DEF EdgePlus
<1>5. ASSUME NEW x \in Live(g), x # c PROVE OutOf(h, x) = OutOf(i, x) /\ Untouched(i, h, x) /\ Waits(h, x) = Waits(i, x)
  <2>1. OutOf(h, x) = OutOf(i, x)
    BY <1>4, <1>5 DEF OutOf, depender
  <2>2. Untouched(i, h, x)
    BY <1>1, <1>2, <1>4, <1>5 DEF Untouched, OutOf, Hooked
  <2>3. Waits(h, x) = Waits(i, x)
    BY <1>2, <1>5
  <2> QED BY <2>1, <2>2, <2>3
<1>6. ASSUME NEW x \in S \ p.closes PROVE \E k : OutOf(h, x) = {k}
  <2>1. OutOf(h, x) = OutOf(i, x)
    BY <1>5, <1>s
  <2> QED BY <2>1, <1>ic
<1>7. ASSUME NEW x \in p.nodes \ (S \ p.closes), p.waits[x] \cap (S \ p.opens) = {}
      PROVE  Untouched(g, h, x)
  <2>1. Untouched(g, i, x)
    BY <1>7, <1>ib
  <2>2. Untouched(i, h, x)
    BY <1>5, <1>7, <1>p
  <2> QED BY <2>1, <2>2, UntouchedTwice
<1>8. dependees(h, c) # <<>> /\ FirstOf(h, c) = o
  <2>1. dependees(h, c) = <<e>> \o dependees(i, c)
    BY <1>2, <1>1, <1>s DEF Hooked
  <2>2. dependees(i, c) \in Seq(Nat) /\ e \in Nat
    BY <1>1, <1>2, <1>s, NodeEdges DEF OnceIn
  <2>3. dependees(h, c) # <<>> /\ Head(dependees(h, c)) = e
    BY <2>1, <2>2
  <2> QED BY <2>3, <1>4 DEF FirstOf, dependee
<1>9. HeadIs(h, o)
  <2>1. ~isPending(i, c)
    BY <1>1, <1>s, <1>ia, WaitsLive
  <2>2. h["blockeds"] = i["blockeds"]
    BY <2>1, <1>2 DEF Hooked
  <2>3. isPending(h, o) <=> isPending(i, o)
    BY <1>5, <1>s DEF Untouched, isPending
  <2> QED BY <2>2, <2>3, <1>1, <1>3, <1>ia DEF HeadIs, Blocked
<1>qq. PicFacts(h, q)
  BY <1>3, PicFull
<1>q1. q.nodes = Live(g)
  BY <1>qq, <1>3 DEF PicFacts
<1>q2. \A x \in Live(g) : x \in q.opens <=> isHyperOpen(h, x)
  BY <1>qq, <1>3 DEF PicFacts
<1>q3. \A x \in Live(g) : x \in q.closes <=> isHyperClose(h, x)
  BY <1>qq, <1>3 DEF PicFacts
<1>q4. q.opens \subseteq Live(g) /\ q.closes \subseteq Live(g)
  BY <1>qq, <1>3 DEF PicFacts
<1>q5. \A x \in Live(g) : q.waits[x] = Waits(h, x)
  BY <1>qq, <1>3 DEF PicFacts
<1>q6. \A x \in Live(g) : q.name[x] = h.node[x].value
  BY <1>qq, <1>3 DEF PicFacts
<1>p1. p.nodes = Live(g) \ {o, c} /\ p.opens \subseteq p.nodes /\ p.closes \subseteq p.nodes
  BY <1>p
<1>10. ASSUME NEW x \in Live(g)
       PROVE  /\ isHyperOpen(h, x) <=> isHyperOpen(g, x)
              /\ isHyperClose(h, x) <=> isHyperClose(g, x)
              /\ h.node[x].value = g.node[x].value
  BY <1>3, KeptLabels DEF SameLabels, isHyperOpen, isHyperClose
<1>11. Contracted(p, q, S, o, c)
  <2>1. q.nodes = p.nodes \cup {o, c}
    BY <1>q1, <1>p1, <1>s
  <2>2. q.opens = p.opens \cup {o}
    <3>1. ~isHyperOpen(g, c)
      BY <1>s, NoHyperModule DEF isHyperOpen, isHyperClose
    <3>2. \A x \in Live(g) \ {o, c} : x \in p.opens <=> x \in q.opens
      BY <1>p, <1>q2, <1>10
    <3>3. o \in q.opens /\ c \notin q.opens
      BY <3>1, <1>q2, <1>10, <1>s
    <3> QED BY <3>2, <3>3, <1>q4, <1>p1, <1>s
  <2>3. q.closes = p.closes \cup {c}
    <3>1. ~isHyperClose(g, o)
      BY <1>s, NoHyperModule DEF isHyperOpen, isHyperClose
    <3>2. \A x \in Live(g) \ {o, c} : x \in p.closes <=> x \in q.closes
      BY <1>p, <1>q3, <1>10
    <3>3. c \in q.closes /\ o \notin q.closes
      BY <3>1, <1>q3, <1>10, <1>s
    <3> QED BY <3>2, <3>3, <1>q4, <1>p1, <1>s
  <2>4. \A x \in p.nodes : q.name[x] = p.name[x]
    <3>1. \A x \in Live(g) \ {o, c} : p.name[x] = g.node[x].value
      BY <1>p
    <3>2. \A x \in Live(g) : h.node[x].value = g.node[x].value
      BY <1>10
    <3>3. p.nodes = Live(g) \ {o, c}
      BY <1>p1
    <3> QED BY <3>1, <3>2, <3>3, <1>q6
  <2>5. \A x \in Live(g) : q.waits[x] = Waits(h, x)
    BY <1>q5
  <2>6. ASSUME NEW x \in p.nodes \ S PROVE q.waits[x] = Hung(p, S, c, p.waits[x])
    <3>1. x \in p.nodes \ (S \ p.closes) /\ x \in Live(g) /\ x # c /\ Mark(S, o, x) = {}
      BY <1>p DEF Mark
    <3>2. q.waits[x] = Waits(i, x)
      BY <3>1, <2>5, <1>5
    <3>3. Waits(i, x) = Hung(p, S, c, p.waits[x]) \cup {}
      BY <3>1, <1>ib
    <3> QED BY <3>2, <3>3
  <2>7. ASSUME NEW x \in S \ p.closes PROVE q.waits[x] = {o}
    BY <2>5, <1>5, <1>ic, <1>s
  <2>8. ASSUME NEW x \in S \cap p.closes PROVE q.waits[x] = Hung(p, S, c, p.waits[x]) \cup {o}
    <3>1. x \in p.nodes \ (S \ p.closes) /\ x \in Live(g) /\ x # c /\ Mark(S, o, x) = {o}
      BY <1>p, <1>s DEF Mark
    <3>2. q.waits[x] = Waits(i, x)
      BY <3>1, <2>5, <1>5
    <3> QED BY <3>1, <3>2, <1>ib
  <2>9. q.waits[c] = S \cup {o}
    BY <2>5, <1>s, <1>2, <1>ia
  <2>10. q.waits[o] = Hung(p, S, c, AllOf(p, S))
    BY <2>5, <1>s, <1>2, <1>ia
  <2>11. AllOf(p, S) = UNION {p.waits[x] : x \in S \ p.closes}
    BY DEF AllOf
  <2> QED BY <2>1, <2>2, <2>3, <2>4, <2>6, <2>7, <2>8, <2>9, <2>10, <2>11 DEF Contracted
<1> QED BY <1>3, <1>6, <1>7, <1>8, <1>9, <1>11 DEF Contracts

-----------------------------------------------------------------------------
(* What holds of the graph between two walks, and how a pop keeps it. *)

(* What is inside a pair that is still waited for, but for the closing     *)
(* nodes, has one edge left.                                               *)
Lone(g, N, v) ==
  \A x \in N \cap v.inner : ~isHyperClose(g, x) /\ v.top[x] # 0 => \E e : OutOf(g, x) = {e}
(* The walk leaves a closing node for an opening one. *)
Headed(g, N, v) ==
  \A x \in N \cap v.inner :
    isHyperClose(g, x) /\ v.top[x] # 0 => dependees(g, x) # <<>> /\ isHyperOpen(g, FirstOf(g, x))
(* The next walk begins at an opening node, or meets it as a flagged one. *)
Parked(g, v) ==
  \A r \in Blocked(g) \ v.inner :
    isHyperOpen(g, r) /\ r # g["blockeds"] => g.node[r].withinCycle

(* The invariant between two walks. *)
Settled(R, I, g, v) ==
  /\ Shape(R, Pic(g, {}), v)
  /\ Covers(R, I, Pic(g, {}), v)
  /\ Lone(g, Live(g), v)
  /\ Headed(g, Live(g), v)
  /\ Parked(g, v)

(* Nothing inside a pair is taken before its outermost opening node. *)
LEMMA SettledHeld ==
  ASSUME NEW V, NEW g, GraphOK(V, g), NEW v, Lone(g, Live(g), v), Headed(g, Live(g), v),
         NEW p, p = Pic(g, {})
  PROVE  Held(p, v)
<1>p. PicFacts(g, p)
  BY PicFull
<1>1. SUFFICES ASSUME NEW x \in Live(g) \cap v.inner, v.top[x] # 0 PROVE Waits(g, x) # {}
  BY <1>p DEF Held, PicFacts
<1>2. CASE isHyperClose(g, x)
  <2>1. ~isPending(g, x)
    BY <1>1, <1>2 DEF Headed, isPending
  <2> QED BY <2>1, WaitsLive
<1>3. CASE ~isHyperClose(g, x)
  <2>1. PICK e : OutOf(g, x) = {e}
    BY <1>1, <1>3 DEF Lone
  <2> QED BY <2>1 DEF Waits
<1> QED BY <1>2, <1>3

(* No node inside a pair that is still waited for is taken, nor is the     *)
(* pair's opening node.                                                    *)
LEMMA TakenTops ==
  ASSUME NEW R, NEW p, NEW v, Shape(R, p, v), Held(p, v), NEW n \in p.nodes, p.waits[n] = {},
         NEW w, w = Released(p, v, n), NEW x \in p.nodes \cap v.inner, w.top[x] # 0,
         NEW y \in p.waits[x], y \in p.opens
  PROVE  y # n /\ v.top[x] # 0
<1>v. IsView(v) /\ IsPicture(p)
  BY DEF Shape
<1>w. \A k \in Nat : w.top[k] = IF n \in Roots(p, v) /\ v.top[k] = n THEN 0 ELSE v.top[k]
  BY <1>v, ReleasedIs
<1>1. x \in Nat /\ y \in p.nodes /\ y \in Nat
  BY <1>v DEF IsPicture
<1>2. v.top[x] # 0 /\ (n \in Roots(p, v) => v.top[x] # n)
  BY <1>1, <1>w
<1>3. InnerEdge(R, p, v, x, y)
  BY DEF Shape, InnerEdges
<1>4. v.top[y] = v.top[x]
  BY <1>3 DEF InnerEdge
<1>5. y \in v.inner => y # n
  BY <1>1, <1>2, <1>4 DEF Held
<1>6. y \notin v.inner => y \in Roots(p, v) /\ v.top[y] = y
  BY DEF Shape, Tops, Roots
<1> QED BY <1>2, <1>4, <1>5, <1>6

(* pop keeps the invariant. *)
LEMMA PopSettles ==
  ASSUME NEW V, NEW g, GraphOK(V, g), NEW n \in Pending(g), NEW h, h = pop(g, n),
         NEW R, NEW I, NEW v, Settled(R, I, g, v),
         NEW w, w = Released(Pic(g, {}), v, n)
  PROVE  Settled(R, I, h, w)
<1> DEFINE p == Pic(g, {})
           q == Pic(h, {})
<1>1. Popped(V, g, h, n) /\ Lessened(g, h) /\ PoppedWaits(V, g, h, n)
  BY PopDoes, PopLessens, PopWaits
<1>2. /\ GraphOK(V, h) /\ Live(h) = Live(g) \ {n} /\ EdgesLess(g, h, Into(g, n)) /\ SameValues(g, h)
      /\ \A x : Waits(h, x) = Waits(g, x) \ {n}
  BY <1>1 DEF Popped, PoppedWaits
<1>n. n \in Live(g) /\ Waits(g, n) = {}
  BY WaitsLive DEF Pending
<1>p. PicFacts(g, p)
  BY PicFull
<1>q. PicFacts(h, q)
  BY <1>2, PicFull
<1>s. Shape(R, p, v) /\ Covers(R, I, p, v) /\ Lone(g, Live(g), v) /\ Headed(g, Live(g), v) /\ Parked(g, v)
  BY DEF Settled
<1>w. w = Released(p, v, n)
  OBVIOUS
<1> HIDE DEF p, q
<1>3. ASSUME NEW x \in Live(h)
      PROVE  /\ h.node[x].value = g.node[x].value
             /\ h.node[x].withinCycle = g.node[x].withinCycle
             /\ isHyperOpen(h, x) <=> isHyperOpen(g, x)
             /\ isHyperClose(h, x) <=> isHyperClose(g, x)
  BY <1>2, WaitsLive DEF SameValues, isHyperOpen, isHyperClose
<1>4. Less(p, q, n)
  <2>1. q.nodes = p.nodes \ {n}
    BY <1>p, <1>q, <1>2 DEF PicFacts
  <2>2. q.opens = p.opens \ {n} /\ q.closes = p.closes \ {n}
    BY <1>p, <1>q, <1>2, <1>3 DEF PicFacts
  <2>3. \A x \in q.nodes : q.waits[x] = p.waits[x] \ {n}
    BY <1>p, <1>q, <1>2 DEF PicFacts
  <2>4. \A x \in q.nodes : q.name[x] = p.name[x]
    BY <1>p, <1>q, <1>2, <1>3 DEF PicFacts
  <2> QED BY <2>1, <2>2, <2>3, <2>4 DEF Less
<1>5. Held(p, v)
  BY <1>s, SettledHeld DEF p
<1>6. n \in p.nodes /\ p.waits[n] = {}
  BY <1>n, <1>p DEF PicFacts
<1>7. Shape(R, q, w) /\ Covers(R, I, q, w)
  <2>1. IsPicture(p) /\ IsView(v)
    BY <1>s DEF Shape
  <2>2. Shape(R, q, w)
    BY <1>4, <1>5, <1>6, <1>s, <1>w, LessShape
  <2>3. Covers(R, I, q, w)
    BY <2>1, <1>4, <1>6, <1>s, <1>w, LessCovers
  <2> QED BY <2>2, <2>3
<1>8. w.inner = v.inner
  BY DEF Released
<1>9. ASSUME NEW x \in Live(h) \cap w.inner, w.top[x] # 0, NEW y \in Waits(g, x), isHyperOpen(g, y)
      PROVE  y # n /\ v.top[x] # 0
  <2>1. x \in p.nodes \cap v.inner /\ y \in p.waits[x]
    BY <1>9, <1>8, <1>2, <1>p DEF PicFacts
  <2>2. y \in p.opens
    BY <1>9, <1>p, WaitsLive DEF PicFacts
  <2> QED BY <2>1, <2>2, <1>9, <1>5, <1>6, <1>s, <1>w, TakenTops
<1>t. ASSUME NEW x \in Live(h) \cap w.inner, w.top[x] # 0 PROVE v.top[x] # 0
  <2>1. IsView(v) /\ IsPicture(p) /\ x \in p.nodes
    BY <1>s, <1>t, <1>2, <1>p DEF Shape, PicFacts
  <2>2. x \in Nat
    BY <2>1 DEF IsPicture
  <2>3. w.top[x] = IF n \in Roots(p, v) /\ v.top[x] = n THEN 0 ELSE v.top[x]
    BY <2>1, <2>2, <1>w, ReleasedIs
  <2> QED BY <2>3, <1>t
<1>10. Lone(h, Live(h), w)
  <2>1. SUFFICES ASSUME NEW x \in Live(h) \cap w.inner, ~isHyperClose(h, x), w.top[x] # 0
                 PROVE  \E e : OutOf(h, x) = {e}
    BY DEF Lone
  <2>2. x \in Live(g) \cap v.inner /\ ~isHyperClose(g, x) /\ v.top[x] # 0
    BY <2>1, <1>t, <1>2, <1>3, <1>8
  <2>3. PICK e : OutOf(g, x) = {e}
    BY <2>2, <1>s DEF Lone
  <2> DEFINE y == dependee(g, e)
  <2>4. y \in Waits(g, x)
    BY <2>3 DEF Waits
  <2>5. isHyperOpen(g, y)
    <3>1. InnerEdge(R, p, v, x, y)
      BY <2>2, <2>4, <1>s, <1>p DEF Shape, InnerEdges, PicFacts
    <3>2. x \notin p.closes
      BY <2>2, <1>p DEF PicFacts
    <3> QED BY <3>1, <3>2, <1>p DEF InnerEdge, PicFacts
  <2>6. y # n
    BY <2>1, <2>4, <2>5, <1>9
  <2>7. e \in DOMAIN g.edge /\ e \notin Into(g, n)
    BY <2>3, <2>6 DEF OutOf, Into
  <2>8. OutOf(h, x) = {e}
    BY <2>3, <2>7, <1>2 DEF EdgesLess, OutOf, depender
  <2> QED BY <2>8
<1>11. Headed(h, Live(h), w)
  <2>1. SUFFICES ASSUME NEW x \in Live(h) \cap w.inner, isHyperClose(h, x), w.top[x] # 0
                 PROVE  dependees(h, x) # <<>> /\ isHyperOpen(h, FirstOf(h, x))
    BY DEF Headed
  <2>2. x \in Live(g) \cap v.inner /\ isHyperClose(g, x) /\ v.top[x] # 0
    BY <2>1, <1>t, <1>2, <1>3, <1>8
  <2> DEFINE e == Head(dependees(g, x))
             y == dependee(g, e)
  <2>3. dependees(g, x) # <<>> /\ isHyperOpen(g, y)
    BY <2>2, <1>s DEF Headed, FirstOf
  <2>4. e \in OutOf(g, x)
    BY <2>2, <2>3, NodeEdges, TailOnce
  <2>5. y \in Waits(g, x) /\ y \in Live(g)
    BY <2>4, WaitsLive DEF Waits
  <2>6. y # n
    BY <2>1, <2>3, <2>5, <1>9
  <2> HIDE DEF e
  <2>7. e \in DOMAIN h.edge /\ h.edge[e] = g.edge[e]
    BY <2>4, <2>6, <1>2 DEF EdgesLess, OutOf, Into
  <2>8. dependees(h, x) # <<>> /\ Head(dependees(h, x)) = e
    BY <2>2, <2>3, <2>7, <1>1 DEF Lessened, Firsts, e
  <2>9. FirstOf(h, x) = y
    BY <2>7, <2>8 DEF FirstOf, dependee
  <2>10. isHyperOpen(h, y)
    BY <2>3, <2>5, <2>6, <1>2, <1>3
  <2> QED BY <2>8, <2>9, <2>10
<1>12. Parked(h, w)
  <2>1. SUFFICES ASSUME NEW r \in Blocked(h) \ w.inner, isHyperOpen(h, r), r # h["blockeds"]
                 PROVE  h.node[r].withinCycle
    BY DEF Parked
  <2>2. r \in Live(h) /\ r \in Blocked(g) \ v.inner /\ isHyperOpen(g, r)
    BY <2>1, <1>1, <1>3, <1>8 DEF Lessened, HeadKept, Blocked
  <2>3. r # g["blockeds"]
    BY <2>1, <1>1 DEF Lessened, HeadKept
  <2> QED BY <2>2, <2>3, <1>3, <1>s DEF Parked
<1> QED BY <1>7, <1>10, <1>11, <1>12 DEF Settled, q

-----------------------------------------------------------------------------
(* The walk begins. *)

(* The flagged nodes. *)
Flags(g) == {x \in Live(g) : g.node[x].withinCycle}

(* What holds of the graph during a walk. *)
Walkable(R, g, v, S, o, c, p) ==
  /\ Strung(g, S, o, c)
  /\ \A x \in S : dependees(g, x) # <<>> /\ FirstOf(g, x) = o
  /\ Shape(R, p, v)
  /\ AllTopped(p, v)
  /\ Lone(g, p.nodes, v)
  /\ Headed(g, p.nodes, v)

(* The invariant of the walk: S was strung so far. *)
OnTheWay(R, I, g, v, S, o, c, at, front) ==
  /\ Walkable(R, g, v, S, o, c, Pic(g, {o, c}))
  /\ Going(R, I, Pic(g, {o, c}), v, S, Flags(g), at, front)

(* The walk came to a node that was met and is lost, or goes on. *)
Walked(R, I, g, v, o, c, at, front) ==
  \/ at = o /\ isPending(g, o) /\ front # o
  \/ \E S : OnTheWay(R, I, g, v, S, o, c, at, front)

(* The walk came back. *)
Ready(R, I, g, v, o, c) ==
  \E S : /\ Walkable(R, g, v, S, o, c, Pic(g, {o, c}))
         /\ Ring(R, I, Pic(g, {o, c}), v, S, Flags(g))

(* makeNode leaves the other nodes as they were. *)
LEMMA MakeSame ==
  ASSUME NEW V, NEW g, GraphOK(V, g), NEW value \in V, NEW h, h = makeNode(g, value), NEW x \in Live(g)
  PROVE  SameCell(g.node[x], h.node[x])
<1>1. g["pendings"] \in DOMAIN g.node \cup {Nil}
  BY HeadsOf, WaitsLive DEF empty, top, Pending
<1>2. EdgesOK(V, g)
  BY DEF GraphOK
<1>3. CellsMade(V, g, h, value, FreshCell(g))
  BY <1>1, <1>2, MakeCells
<1>4. x \in DOMAIN g.node \ {FreshCell(g)}
  BY <1>2, WaitsLive, FreshIs
<1> QED BY <1>3, <1>4 DEF CellsMade

(* A hyper node is made. *)
Added(V, g, h, n, value) ==
  /\ GraphOK(V, h) /\ Clean(h, "pendings")
  /\ n \notin Live(g) /\ Live(h) = Live(g) \cup {n}
  /\ h.node[n].value = value
  /\ h.edge = g.edge /\ h["blockeds"] = g["blockeds"]
  /\ \A x \in Live(g) : SameCell(g.node[x], h.node[x]) /\ Waits(h, x) = Waits(g, x)
  /\ Waits(h, n) = {}
  /\ n # Nil /\ n \in Nat

(* That is what makeNode does. *)
LEMMA MakeAdds ==
  ASSUME NEW V, NEW g, GraphOK(V, g), NEW value \in V, NEW h, h = makeNode(g, value), NEW n, n = h.pendings
  PROVE  Added(V, g, h, n, value)
<1>1. Made(V, g, h, value)
  BY MakeNodeDoes
<1>2. NodeWaits(V, g, h, value)
  BY MakeWaits
<1>3. \A x \in Live(g) : SameCell(g.node[x], h.node[x])
  BY MakeSame
<1>4. n # Nil /\ n \in Nat
  <2>1. n \in Live(h) /\ GraphOK(V, h)
    BY <1>1 DEF Made
  <2> QED BY <2>1, LiveCells DEF GraphOK
<1> QED BY <1>1, <1>2, <1>3, <1>4 DEF Made, NodeWaits, top, Added

(* Where solveCycle begins, the walk has strung nothing. *)
LEMMA OpenWalks ==
  ASSUME NEW V, NEW g, GraphOK(V, g), HyperOpen \in V, HyperClose \in V,
         NEW a, a = makeNode(g, HyperOpen), NEW h, h = makeNode(a, HyperClose),
         NEW o, o = a.pendings, NEW c, c = h.pendings,
         NEW R, NEW I, NEW v, Settled(R, I, g, v), Pending(g) = {}, g.blockeds # Nil
  PROVE  Walked(R, I, h, v, o, c, g.blockeds, Nil)
<1> DEFINE p == Pic(g, {})
           H == {o, c}
           S == {}
           at == g.blockeds
           F == Flags(h)
<1>1. Added(V, g, a, o, HyperOpen)
  BY MakeAdds
<1>2. Added(V, a, h, c, HyperClose)
  <2>1. GraphOK(V, a)
    BY <1>1 DEF Added
  <2> QED BY <2>1, MakeAdds
<1>3. /\ GraphOK(V, h) /\ o \notin Live(g) /\ c \notin Live(g) /\ o # c
      /\ Live(h) = Live(g) \cup {o, c} /\ o \in Live(a)
      /\ h.edge = g.edge
  BY <1>1, <1>2 DEF Added
<1>4. h.node[o].value = HyperOpen /\ h.node[c].value = HyperClose
  BY <1>1, <1>2 DEF Added, SameCell
<1>5. ASSUME NEW x \in Live(g)
      PROVE  SameCell(g.node[x], h.node[x]) /\ Waits(h, x) = Waits(g, x)
  BY <1>5, <1>1, <1>2 DEF Added, SameCell
<1>6. Waits(h, o) = {} /\ Waits(h, c) = {}
  BY <1>1, <1>2, <1>3 DEF Added
<1>7. \A x : Waits(g, x) \subseteq Live(g)
  BY WaitsLive
<1>p. PicFacts(g, p)
  BY PicFull
<1>8. Live(h) \ H = Live(g)
  BY <1>3
<1>9. Pic(h, H) = p
  <2>1. \A x \in Live(g) : /\ isHyperOpen(h, x) <=> isHyperOpen(g, x)
                           /\ isHyperClose(h, x) <=> isHyperClose(g, x)
                           /\ h.node[x].value = g.node[x].value
    BY <1>5 DEF SameCell, isHyperOpen, isHyperClose
  <2>2. \A x \in Live(g) : Waits(h, x) \ H = Waits(g, x) \ {}
    BY <1>5, <1>7, <1>3
  <2>0. Live(g) \ {} = Live(g)
    OBVIOUS
  <2> HIDE DEF H
  <2>3. Pic(h, H) = [nodes |-> Live(g), opens |-> {x \in Live(g) : isHyperOpen(h, x)},
                     closes |-> {x \in Live(g) : isHyperClose(h, x)},
                     waits |-> [x \in Live(g) |-> Waits(h, x) \ H],
                     name |-> [x \in Live(g) |-> h.node[x].value]]
    BY <1>8 DEF Pic
  <2>4. p = [nodes |-> Live(g), opens |-> {x \in Live(g) : isHyperOpen(g, x)},
                     closes |-> {x \in Live(g) : isHyperClose(g, x)},
                     waits |-> [x \in Live(g) |-> Waits(g, x) \ {}],
                     name |-> [x \in Live(g) |-> g.node[x].value]]
    BY <2>0 DEF Pic
  <2>5. /\ {x \in Live(g) : isHyperOpen(h, x)} = {x \in Live(g) : isHyperOpen(g, x)}
        /\ {x \in Live(g) : isHyperClose(h, x)} = {x \in Live(g) : isHyperClose(g, x)}
    BY <2>1
  <2>6. [x \in Live(g) |-> Waits(h, x) \ H] = [x \in Live(g) |-> Waits(g, x) \ {}]
    BY <2>2
  <2>7. [x \in Live(g) |-> h.node[x].value] = [x \in Live(g) |-> g.node[x].value]
    BY <2>1
  <2> QED BY <2>3, <2>4, <2>5, <2>6, <2>7
<1>s. Shape(R, p, v) /\ Covers(R, I, p, v) /\ Lone(g, Live(g), v) /\ Headed(g, Live(g), v) /\ Parked(g, v)
  BY DEF Settled
<1> HIDE DEF p
<1>10. Strung(h, S, o, c)
  <2>1. isHyperOpen(h, o) /\ isHyperClose(h, c)
    BY <1>4 DEF isHyperOpen, isHyperClose
  <2>2. \A x \in Live(h) : c \notin Waits(h, x) /\ o \notin Waits(h, x)
    BY <1>3, <1>5, <1>6, <1>7
  <2> QED BY <2>1, <2>2, <1>3, <1>6 DEF Strung
<1>11. AllTopped(p, v)
  <2>1. \A x \in p.nodes : p.waits[x] # {}
    BY <1>p, WaitsLive DEF PicFacts, Pending
  <2> QED BY <2>1, <1>s, Drained DEF AllTopped
<1>12. ASSUME NEW x \in Live(g)
       PROVE  /\ dependees(h, x) = dependees(g, x) /\ OutOf(h, x) = OutOf(g, x) /\ FirstOf(h, x) = FirstOf(g, x)
              /\ isHyperClose(h, x) <=> isHyperClose(g, x)
              /\ isHyperOpen(h, x) <=> isHyperOpen(g, x)
              /\ h.node[x].withinCycle = g.node[x].withinCycle
  BY <1>3, <1>5 DEF SameCell, FirstOf, dependees, dependee, OutOf, depender, isHyperClose, isHyperOpen
<1>n. p.nodes = Live(g)
  BY <1>p DEF PicFacts
<1>13. Lone(h, p.nodes, v)
  BY <1>s, <1>n, <1>12 DEF Lone
<1>14. Headed(h, p.nodes, v)
  <2>1. SUFFICES ASSUME NEW x \in Live(g) \cap v.inner, isHyperClose(h, x), v.top[x] # 0
                 PROVE  dependees(h, x) # <<>> /\ isHyperOpen(h, FirstOf(h, x))
    BY <1>n DEF Headed
  <2>2. dependees(g, x) # <<>> /\ isHyperOpen(g, FirstOf(g, x))
    BY <2>1, <1>s, <1>12 DEF Headed
  <2>3. Head(dependees(g, x)) \in OutOf(g, x)
    BY <2>2, NodeEdges, TailOnce
  <2>4. FirstOf(g, x) \in Live(g)
    BY <2>3, EdgeEnds DEF FirstOf, OutOf
  <2> QED BY <2>1, <2>2, <2>4, <1>12
<1>15. at \in Blocked(g)
  BY HeadsOf
<1>16. Going(R, I, p, v, S, F, at, Nil)
  <2>0. Nil = 0 /\ at \in p.nodes
    BY <1>15, <1>n DEF Nil, Blocked
  <2>1. Fronted(p, S, at, Nil)
    BY <2>0 DEF Fronted
  <2>2. RootsSeen(p, v, S, F, at, Nil)
    <3>1. SUFFICES ASSUME NEW r \in Roots(p, v), r # at PROVE r \in F
      BY <2>0 DEF RootsSeen
    <3>2. r \in Live(g) \ v.inner /\ isHyperOpen(g, r)
      BY <3>1, <1>p DEF Roots, PicFacts
    <3>3. r \in Blocked(g) \ v.inner
      BY <3>2 DEF Pending, Blocked
    <3>4. g.node[r].withinCycle
      BY <3>1, <3>2, <3>3, <1>s DEF Parked
    <3> QED BY <3>2, <3>4, <1>3, <1>12 DEF Flags
  <2>3. Along(R, v, S, at, Nil) /\ Climbs(p, v, S, at) /\ Rises(v, S, at, Nil)
    BY <2>0 DEF Along, Climbs, Rises
  <2>4. CoversBut(R, I, p, v, Nil, at)
    BY <1>s, <2>0 DEF CoversBut, Covers
  <2> QED BY <2>0, <2>1, <2>2, <2>3, <2>4 DEF Going
<1>17. Walkable(R, h, v, S, o, c, p)
  BY <1>10, <1>11, <1>13, <1>14, <1>s DEF Walkable
<1> HIDE DEF S, F, at
<1>18. OnTheWay(R, I, h, v, S, o, c, at, Nil)
  BY <1>9, <1>16, <1>17 DEF OnTheWay, F
<1> QED BY <1>18 DEF Walked, at

-----------------------------------------------------------------------------
(* The walk goes on. *)

(* But for flags and links. *)
Alike(g, h) ==
  /\ Live(h) = Live(g) /\ h.edge = g.edge
  /\ \A x \in Live(g) : h.node[x].value = g.node[x].value /\ dependees(h, x) = dependees(g, x)

(* n got its flag, or lost it. *)
FlagSet(V, g, h, n, b) ==
  /\ Alike(g, h) /\ GraphOK(V, h)
  /\ \A x \in Live(g) : h.node[x].withinCycle = IF x = n THEN b ELSE g.node[x].withinCycle

(* A flag changes nothing else. *)
LEMMA FlagAlike ==
  ASSUME NEW V, NEW g, GraphOK(V, g), NEW n \in Live(g), NEW b \in BOOLEAN, NEW h, h = SetFlag(g, n, b)
  PROVE  FlagSet(V, g, h, n, b)
<1>1. Flagged(V, g, h)
  BY FlagDoes
<1>2. Live(g) \subseteq DOMAIN g.node
  BY WaitsLive
<1>3. g \in GraphSet(V)
  BY DEF GraphOK, EdgesOK
<1>4. g.node \in Seq(CellSet(V)) /\ h.node = [g.node EXCEPT ![n].withinCycle = b]
  BY <1>3 DEF GraphSet, SetFlag
<1>5. ASSUME NEW x \in Live(g)
      PROVE  h.node[x].withinCycle = IF x = n THEN b ELSE g.node[x].withinCycle
  <2>1. g.node[x] \in CellSet(V) /\ x \in DOMAIN g.node /\ n \in DOMAIN g.node
    BY <1>2, <1>4
  <2>2. h.node[x] = IF x = n THEN [g.node[x] EXCEPT !.withinCycle = b] ELSE g.node[x]
    BY <1>4, <2>1
  <2> QED BY <2>1, <2>2 DEF CellSet
<1>6. Alike(g, h)
  BY <1>1, <1>2 DEF Flagged, Alike
<1> QED BY <1>1, <1>5, <1>6 DEF FlagSet, Flagged

(* Flags are not in the picture. *)
LEMMA AlikePic ==
  ASSUME NEW g, NEW h, Alike(g, h), NEW H
  PROVE  Pic(h, H) = Pic(g, H)
<1>1. Live(h) = Live(g)
  BY DEF Alike
<1>2. \A x \in Live(g) : /\ h.node[x].value = g.node[x].value
                         /\ isHyperOpen(h, x) <=> isHyperOpen(g, x)
                         /\ isHyperClose(h, x) <=> isHyperClose(g, x)
  BY DEF Alike, isHyperOpen, isHyperClose
<1>3. \A x : Waits(h, x) = Waits(g, x)
  BY DEF Alike, Waits, OutOf, depender, dependee
<1> DEFINE N == Live(g) \ H
<1>4. Pic(h, H) = [nodes |-> N, opens |-> {x \in N : isHyperOpen(h, x)},
                   closes |-> {x \in N : isHyperClose(h, x)},
                   waits |-> [x \in N |-> Waits(h, x) \ H],
                   name |-> [x \in N |-> h.node[x].value]]
  BY <1>1 DEF Pic
<1>5. Pic(g, H) = [nodes |-> N, opens |-> {x \in N : isHyperOpen(g, x)},
                   closes |-> {x \in N : isHyperClose(g, x)},
                   waits |-> [x \in N |-> Waits(g, x) \ H],
                   name |-> [x \in N |-> g.node[x].value]]
  BY DEF Pic
<1>6. /\ {x \in N : isHyperOpen(h, x)} = {x \in N : isHyperOpen(g, x)}
      /\ {x \in N : isHyperClose(h, x)} = {x \in N : isHyperClose(g, x)}
  BY <1>2
<1>7. [x \in N |-> Waits(h, x) \ H] = [x \in N |-> Waits(g, x) \ H]
  BY <1>3
<1>8. [x \in N |-> h.node[x].value] = [x \in N |-> g.node[x].value]
  BY <1>2
<1> QED BY <1>4, <1>5, <1>6, <1>7, <1>8

(* Nor does the walk ask for more. *)
LEMMA AlikeWalks ==
  ASSUME NEW V, NEW g, GraphOK(V, g), NEW h, Alike(g, h), NEW o, NEW c, NEW p, p = Pic(g, {o, c}),
         NEW R, NEW v, NEW S, Walkable(R, g, v, S, o, c, p)
  PROVE  Walkable(R, h, v, S, o, c, p)
<1>1. /\ Live(h) = Live(g)
      /\ \A x \in Live(g) : /\ isHyperOpen(h, x) <=> isHyperOpen(g, x)
                            /\ isHyperClose(h, x) <=> isHyperClose(g, x)
                            /\ dependees(h, x) = dependees(g, x)
  BY DEF Alike, isHyperOpen, isHyperClose
<1>2. \A x : Waits(h, x) = Waits(g, x) /\ OutOf(h, x) = OutOf(g, x) /\ Into(h, x) = Into(g, x)
  BY DEF Alike, Waits, OutOf, Into, depender, dependee
<1>3. \A x \in Live(g) : FirstOf(h, x) = FirstOf(g, x)
  BY <1>1 DEF FirstOf, Alike, dependee
<1>4. /\ Strung(g, S, o, c)
      /\ \A x \in S : dependees(g, x) # <<>> /\ FirstOf(g, x) = o
      /\ Shape(R, p, v)
      /\ AllTopped(p, v)
      /\ Lone(g, p.nodes, v)
      /\ Headed(g, p.nodes, v)
  BY DEF Walkable
<1>5. p.nodes \subseteq Live(g)
  BY PicIs
<1>6. S \subseteq Live(g)
  BY <1>4 DEF Strung
<1>7. Strung(h, S, o, c)
  BY <1>1, <1>2, <1>4 DEF Strung
<1>8. \A x \in S : dependees(h, x) # <<>> /\ FirstOf(h, x) = o
  BY <1>1, <1>3, <1>4, <1>6
<1>9. Lone(h, p.nodes, v)
  BY <1>1, <1>2, <1>4, <1>5 DEF Lone
<1>10. Headed(h, p.nodes, v)
  <2>1. SUFFICES ASSUME NEW x \in p.nodes \cap v.inner, isHyperClose(h, x), v.top[x] # 0
                 PROVE  dependees(h, x) # <<>> /\ isHyperOpen(h, FirstOf(h, x))
    BY DEF Headed
  <2>2. x \in Live(g) /\ dependees(g, x) # <<>> /\ isHyperOpen(g, FirstOf(g, x))
    BY <2>1, <1>1, <1>4, <1>5 DEF Headed
  <2>3. Head(dependees(g, x)) \in OutOf(g, x)
    BY <2>2, NodeEdges, TailOnce
  <2>4. FirstOf(g, x) \in Live(g)
    BY <2>3, EdgeEnds DEF FirstOf, OutOf
  <2> QED BY <2>2, <2>4, <1>1, <1>3
<1> QED BY <1>4, <1>7, <1>8, <1>9, <1>10 DEF Walkable

(* From a node that is not strung yet, the first edge leads on in the      *)
(* picture.                                                                *)
LEMMA WalkLeads ==
  ASSUME NEW V, NEW g, GraphOK(V, g), NEW o, NEW c, NEW p, p = Pic(g, {o, c}),
         NEW R, NEW v, NEW S, Walkable(R, g, v, S, o, c, p),
         NEW n \in p.nodes, ~isPending(g, n), NEW d, d = FirstOf(g, n)
  PROVE  /\ n \in S => d = o
         /\ n \notin S => LeadsOn(p, S, n, d)
<1>1. n \in S => d = o
  BY DEF Walkable
<1>2. ASSUME n \notin S PROVE LeadsOn(p, S, n, d)
  <2>p. /\ p.nodes = Live(g) \ {o, c}
        /\ p.waits[n] = Waits(g, n) \ {o, c}
        /\ d \in p.nodes => (d \in p.opens <=> isHyperOpen(g, d))
        /\ n \in p.closes <=> isHyperClose(g, n)
    BY PicIs
  <2>1. dependees(g, n) # <<>> /\ n \in Live(g)
    BY <2>p DEF isPending
  <2>2. Head(dependees(g, n)) \in OutOf(g, n)
    BY <2>1, NodeEdges, TailOnce
  <2>3. d \in Waits(g, n) /\ d \in Live(g)
    BY <2>2, WaitsLive DEF FirstOf, Waits
  <2>4. o \notin Waits(g, n) /\ c \notin Waits(g, n)
    BY <2>p, <1>2 DEF Walkable, Strung
  <2>5. d \in p.nodes /\ d \in p.waits[n]
    BY <2>p, <2>3, <2>4
  <2>6. ASSUME n \in p.closes PROVE d \in p.opens
    <3>1. n \in p.nodes \cap v.inner
      BY <2>6 DEF Walkable, Shape, Tops
    <3>2. v.top[n] # 0
      BY <3>1 DEF Walkable, AllTopped
    <3>3. isHyperClose(g, n)
      BY <2>6, <2>p
    <3>4. Headed(g, p.nodes, v)
      BY DEF Walkable
    <3>5. isHyperOpen(g, d)
      BY <3>1, <3>2, <3>3, <3>4 DEF Headed
    <3> QED BY <3>5, <2>5, <2>p
  <2> QED BY <1>2, <2>5, <2>6 DEF LeadsOn
<1> QED BY <1>1, <1>2

(* Visit. *)
LEMMA VisitWalks ==
  ASSUME NEW V, NEW g, GraphOK(V, g), NEW o, NEW c, NEW R, NEW I, NEW v, Preorder(R),
         NEW n, NEW front, Walked(R, I, g, v, o, c, n, front),
         ~isPending(g, n), ~g.node[n].withinCycle,
         NEW h, h = SetFlag(g, n, TRUE), NEW d, d = FirstOf(g, n)
  PROVE  Walked(R, I, h, v, o, c, d, front)
<1> DEFINE p == Pic(g, {o, c})
<1>1. PICK S : OnTheWay(R, I, g, v, S, o, c, n, front)
  BY DEF Walked
<1>2. Walkable(R, g, v, S, o, c, p) /\ Going(R, I, p, v, S, Flags(g), n, front)
  BY <1>1 DEF OnTheWay
<1>0. p = Pic(g, {o, c})
  OBVIOUS
<1> HIDE DEF p
<1>3. n \in p.nodes /\ p.nodes = Live(g) \ {o, c}
  BY <1>0, <1>2, PicIs DEF Going
<1>4. FlagSet(V, g, h, n, TRUE)
  BY <1>3, FlagAlike
<1>5. Alike(g, h)
  BY <1>4 DEF FlagSet
<1>6. Pic(h, {o, c}) = p
  BY <1>0, <1>5, AlikePic
<1>7. Walkable(R, h, v, S, o, c, p)
  BY <1>0, <1>2, <1>5, AlikeWalks
<1>8. Flags(h) = Flags(g) \cup {n}
  BY <1>3, <1>4 DEF Flags, FlagSet, Alike
<1>9. CASE n \in S
  <2>1. d = o
    BY <1>0, <1>2, <1>3, <1>9, WalkLeads
  <2>2. Waits(h, o) = {} /\ o \in Live(h) /\ GraphOK(V, h)
    BY <1>4, <1>7 DEF Walkable, Strung, FlagSet
  <2>3. isPending(h, o)
    BY <2>2, WaitsLive
  <2>4. front # o
    <3>1. front # 0 => front \in S
      BY <1>2 DEF Going, Fronted
    <3>2. o \notin S /\ o # 0
      BY <1>2, LiveCells DEF Walkable, Strung, GraphOK, Nil
    <3> QED BY <3>1, <3>2
  <2> QED BY <2>1, <2>3, <2>4 DEF Walked
<1>10. CASE n \notin S
  <2>1. LeadsOn(p, S, n, d)
    BY <1>0, <1>2, <1>3, <1>10, WalkLeads
  <2>2. n \notin Flags(g)
    BY DEF Flags
  <2>3. Shape(R, p, v)
    BY <1>2 DEF Walkable
  <2>4. Going(R, I, p, v, S, Flags(g) \cup {n}, d, front)
    BY <2>1, <2>2, <2>3, <1>2, VisitGoes
  <2>5. OnTheWay(R, I, h, v, S, o, c, d, front)
    BY <2>4, <1>6, <1>7, <1>8 DEF OnTheWay
  <2> QED BY <2>5 DEF Walked
<1> QED BY <1>9, <1>10

-----------------------------------------------------------------------------
(* A node is strung between the hyper nodes. *)

(* In h the node n depends upon o, f being the edge, instead of the end of *)
(* e; and c upon n.                                                        *)
Restrung(V, g, h, n, o, c, e, f) ==
  /\ Kept(V, g, h)
  /\ f \notin DOMAIN g.edge
  /\ \A x \in Live(g) \ {n, c} : dependees(h, x) = dependees(g, x) /\ OutOf(h, x) = OutOf(g, x)
  /\ \A x \in Live(g) \ {n, c} : Waits(h, x) = Waits(g, x)
  /\ \A k \in DOMAIN g.edge \ {e} : k \in DOMAIN h.edge /\ h.edge[k] = g.edge[k]
  /\ f \in DOMAIN h.edge /\ h.edge[f] = <<n, o>>
  /\ dependees(h, n) # <<>> /\ Head(dependees(h, n)) = f
  /\ OutOf(h, n) = (OutOf(g, n) \ {e}) \cup {f}
  /\ Waits(h, c) = Waits(g, c) \cup {n}
  /\ Into(h, o) = (Into(g, o) \ {e}) \cup {f}

(* attach, attach and detach string a node. *)
LEMMA Restrings ==
  ASSUME NEW V, NEW g, GraphOK(V, g), Clean(g, "pendings"),
         NEW o \in Live(g), NEW c \in Live(g), NEW n \in Live(g), n # c, n # o, o # c,
         NEW e \in OutOf(g, n),
         NEW a, a = attach(g, c, n), NEW b, b = attach(a, n, o), NEW h, h = detach(b, e)
  PROVE  \E f : Restrung(V, g, h, n, o, c, e, f)
<1> DEFINE d == NewEdge(g)
           f == NewEdge(a)
<1>1. /\ Kept(V, g, a) /\ a.edge = EdgePlus(g.edge, d, c, n) /\ d \in Nat \ DOMAIN g.edge
      /\ Hooked(g, a, c, d)
  BY AttachDoes, AttachLists
<1>2. GraphOK(V, a) /\ Live(a) = Live(g) /\ Clean(a, "pendings")
  BY <1>1, KeptFacts
<1>3. /\ Kept(V, a, b) /\ b.edge = EdgePlus(a.edge, f, n, o) /\ f \in Nat \ DOMAIN a.edge
      /\ Hooked(a, b, n, f)
  BY <1>2, AttachDoes, AttachLists
<1>4. GraphOK(V, b) /\ Live(b) = Live(g) /\ Clean(b, "pendings")
  BY <1>2, <1>3, KeptFacts
<1> HIDE DEF d, f
<1>5. /\ \A k \in DOMAIN g.edge : k \in DOMAIN b.edge /\ b.edge[k] = g.edge[k]
      /\ d \in DOMAIN b.edge /\ b.edge[d] = <<c, n>>
      /\ f \in DOMAIN b.edge /\ b.edge[f] = <<n, o>>
      /\ \A k \in DOMAIN b.edge : k \in DOMAIN g.edge \cup {d, f}
      /\ d \notin DOMAIN g.edge /\ f \notin DOMAIN g.edge /\ d # f
  <2>1. /\ \A k \in DOMAIN g.edge : k \in DOMAIN a.edge /\ a.edge[k] = g.edge[k]
        /\ d \in DOMAIN a.edge /\ a.edge[d] = <<c, n>>
        /\ \A k \in DOMAIN a.edge : k \in DOMAIN g.edge \cup {d}
    BY <1>1 DEF EdgePlus
  <2>2. /\ \A k \in DOMAIN a.edge : k \in DOMAIN b.edge /\ b.edge[k] = a.edge[k]
        /\ f \in DOMAIN b.edge /\ b.edge[f] = <<n, o>>
        /\ \A k \in DOMAIN b.edge : k \in DOMAIN a.edge \cup {f}
    BY <1>3 DEF EdgePlus
  <2> QED BY <2>1, <2>2, <1>1, <1>3
<1>6. e \in DOMAIN g.edge /\ depender(g, e) = n /\ e \in DOMAIN b.edge /\ depender(b, e) = n /\ e # f /\ e # d
  BY <1>5 DEF OutOf, depender
<1>7. /\ Kept(V, b, h) /\ h.edge = EdgeMinus(b.edge, e)
      /\ Unhooked(b, h, n, e)
  BY <1>4, <1>6, DetachDoes, DetachLists
<1>8. Kept(V, g, h)
  BY <1>1, <1>3, <1>7, KeptTwice
<1>9. DOMAIN h.edge = DOMAIN b.edge \ {e} /\ \A k \in DOMAIN h.edge : h.edge[k] = b.edge[k]
  BY <1>7 DEF EdgeMinus, Restrict
<1>10. /\ \A k \in DOMAIN g.edge \ {e} : k \in DOMAIN h.edge /\ h.edge[k] = g.edge[k]
       /\ d \in DOMAIN h.edge /\ h.edge[d] = <<c, n>>
       /\ f \in DOMAIN h.edge /\ h.edge[f] = <<n, o>>
       /\ \A k \in DOMAIN h.edge : k \in (DOMAIN g.edge \ {e}) \cup {d, f}
  BY <1>5, <1>6, <1>9
<1>11. ASSUME NEW x \in Live(g) \ {n, c} PROVE OutOf(h, x) = OutOf(g, x) /\ Waits(h, x) = Waits(g, x)
  <2>1. OutOf(h, x) = OutOf(g, x)
    BY <1>6, <1>10 DEF OutOf, depender
  <2>2. \A k \in OutOf(g, x) : dependee(h, k) = dependee(g, k)
    BY <1>6, <1>10 DEF OutOf, depender, dependee
  <2> QED BY <2>1, <2>2 DEF Waits
<1>12. ASSUME NEW x \in Live(g) \ {n, c} PROVE dependees(h, x) = dependees(g, x)
  BY <1>1, <1>2, <1>3, <1>4, <1>7 DEF Hooked, Unhooked
<1>13. dependees(h, n) # <<>> /\ Head(dependees(h, n)) = f
  <2>1. dependees(a, n) = dependees(g, n)
    BY <1>1 DEF Hooked
  <2>2. dependees(b, n) = <<f>> \o dependees(a, n)
    BY <1>2, <1>3 DEF Hooked
  <2>3. OnceIn(dependees(b, n)) /\ ToSet(dependees(b, n)) = OutOf(b, n)
    BY <1>4, NodeEdges
  <2>4. e \in ToSet(dependees(b, n))
    BY <2>3, <1>6 DEF OutOf
  <2>5. dependees(a, n) \in Seq(Nat)
    BY <1>2, NodeEdges DEF OnceIn
  <2>6. dependees(b, n) # <<>> /\ Head(dependees(b, n)) = f
    BY <2>2, <2>5, <1>3
  <2>7. dependees(h, n) = Without(dependees(b, n), e)
    BY <1>4, <1>7 DEF Unhooked
  <2> QED BY <2>3, <2>4, <2>6, <2>7, <1>6, WithoutHead
<1>14. OutOf(h, n) = (OutOf(g, n) \ {e}) \cup {f}
  <2>1. \A k \in OutOf(h, n) : k \in (OutOf(g, n) \ {e}) \cup {f}
    BY <1>10 DEF OutOf, depender
  <2>2. \A k \in (OutOf(g, n) \ {e}) \cup {f} : k \in OutOf(h, n)
    BY <1>10 DEF OutOf, depender
  <2> QED BY <2>1, <2>2
<1>15. Waits(h, c) = Waits(g, c) \cup {n}
  <2>1. OutOf(h, c) = OutOf(g, c) \cup {d}
    <3>1. \A k \in OutOf(h, c) : k \in OutOf(g, c) \cup {d}
      BY <1>10 DEF OutOf, depender
    <3>2. \A k \in OutOf(g, c) \cup {d} : k \in OutOf(h, c)
      BY <1>10, <1>6 DEF OutOf, depender
    <3> QED BY <3>1, <3>2
  <2>2. \A k \in OutOf(g, c) : dependee(h, k) = dependee(g, k)
    BY <1>6, <1>10 DEF OutOf, depender, dependee
  <2>3. dependee(h, d) = n
    BY <1>10 DEF dependee
  <2> QED BY <2>1, <2>2, <2>3 DEF Waits
<1>16. Into(h, o) = (Into(g, o) \ {e}) \cup {f}
  <2>1. \A k \in Into(h, o) : k \in (Into(g, o) \ {e}) \cup {f}
    BY <1>10 DEF Into, dependee
  <2>2. \A k \in (Into(g, o) \ {e}) \cup {f} : k \in Into(h, o)
    BY <1>10 DEF Into, dependee
  <2> QED BY <2>1, <2>2
<1>17. Restrung(V, g, h, n, o, c, e, f)
  BY <1>5, <1>8, <1>10, <1>11, <1>12, <1>13, <1>14, <1>15, <1>16 DEF Restrung
<1> QED BY <1>17

-----------------------------------------------------------------------------
(* The walk takes a flagged node for one of the cycle. *)

(* One more node is strung. *)
LEMMA RestrungStrung ==
  ASSUME NEW V, NEW g, GraphOK(V, g), NEW o, NEW c, NEW S, Strung(g, S, o, c),
         NEW n \in Live(g) \ {o, c}, n \notin S, NEW e \in OutOf(g, n), NEW f, NEW h,
         Restrung(V, g, h, n, o, c, e, f), NEW T, T = S \cup {n}
  PROVE  Strung(h, T, o, c)
<1>s. /\ o \in Live(g) /\ c \in Live(g) /\ o # c /\ isHyperOpen(g, o) /\ isHyperClose(g, c)
      /\ Waits(g, c) = S /\ S \subseteq Live(g) \ {o, c}
      /\ Waits(g, o) = {}
  BY DEF Strung
<1>sa. ASSUME NEW x \in Live(g) PROVE c \notin Waits(g, x)
  BY DEF Strung
<1>sb. ASSUME NEW x \in Live(g) \ {o, c} PROVE o \in Waits(g, x) <=> x \in S
  BY DEF Strung
<1>sc. ASSUME NEW x \in S PROVE \E k : OutOf(g, x) \cap Into(g, o) = {k}
  BY DEF Strung
<1>r. /\ Kept(V, g, h)
      /\ f \notin DOMAIN g.edge
      /\ \A k \in DOMAIN g.edge \ {e} : k \in DOMAIN h.edge /\ h.edge[k] = g.edge[k]
      /\ f \in DOMAIN h.edge /\ h.edge[f] = <<n, o>>
      /\ OutOf(h, n) = (OutOf(g, n) \ {e}) \cup {f}
      /\ Waits(h, c) = Waits(g, c) \cup {n}
      /\ Into(h, o) = (Into(g, o) \ {e}) \cup {f}
  BY DEF Restrung
<1>ra. ASSUME NEW x \in Live(g) \ {n, c}
       PROVE  OutOf(h, x) = OutOf(g, x) /\ Waits(h, x) = Waits(g, x)
  BY DEF Restrung
<1>1. Live(h) = Live(g) /\ isHyperOpen(h, o) /\ isHyperClose(h, c)
  BY <1>r, <1>s, KeptFacts, SameHyper
<1>2. Waits(h, o) = {}
  BY <1>ra, <1>s
<1>3. Waits(h, c) = T /\ T \subseteq Live(h) \ {o, c}
  BY <1>r, <1>s, <1>1
<1>4. \A y \in Waits(h, n) : y \in Waits(g, n) \cup {o}
  <2>1. \A k \in OutOf(h, n) : k # f => k \in OutOf(g, n) /\ dependee(h, k) = dependee(g, k)
    BY <1>r DEF OutOf, dependee
  <2>2. dependee(h, f) = o
    BY <1>r DEF dependee
  <2> QED BY <2>1, <2>2 DEF Waits
<1>5. o \in Waits(h, n)
  <2>1. dependee(h, f) = o /\ f \in OutOf(h, n)
    BY <1>r DEF dependee
  <2> QED BY <2>1 DEF Waits
<1>6. ASSUME NEW x \in Live(h) PROVE c \notin Waits(h, x)
  <2>1. CASE x = n
    <3>1. c \notin Waits(g, n)
      BY <1>sa
    <3> QED BY <2>1, <3>1, <1>4, <1>s
  <2>2. CASE x = c
    BY <2>2, <1>3
  <2>3. CASE x \notin {n, c}
    <3>1. Waits(h, x) = Waits(g, x) /\ x \in Live(g)
      BY <2>3, <1>1, <1>ra
    <3> QED BY <3>1, <1>sa
  <2> QED BY <2>1, <2>2, <2>3
<1>7. ASSUME NEW x \in Live(h) \ {o, c} PROVE o \in Waits(h, x) <=> x \in T
  <2>1. CASE x = n
    BY <2>1, <1>5
  <2>2. CASE x # n
    <3>1. Waits(h, x) = Waits(g, x) /\ x \in Live(g) \ {o, c}
      BY <2>2, <1>1, <1>ra
    <3> QED BY <3>1, <2>2, <1>sb
  <2> QED BY <2>1, <2>2
<1>8. ASSUME NEW x \in T PROVE \E k : OutOf(h, x) \cap Into(h, o) = {k}
  <2>1. CASE x = n
    <3>1. o \notin Waits(g, n)
      BY <1>sb
    <3>2. \A k \in OutOf(g, n) : k \notin Into(g, o)
      BY <3>1 DEF Waits, OutOf, Into
    <3>3. f \notin OutOf(g, n) /\ f \notin Into(g, o)
      BY <1>r DEF OutOf, Into
    <3>4. OutOf(h, n) \cap Into(h, o) = {f}
      BY <3>2, <3>3, <1>r
    <3> QED BY <2>1, <3>4
  <2>2. CASE x # n
    <3>1. x \in S /\ x \in Live(g) \ {n, c}
      BY <2>2, <1>s
    <3>2. PICK k : OutOf(g, x) \cap Into(g, o) = {k}
      BY <3>1, <1>sc
    <3>3. e \notin OutOf(g, x) /\ f \notin OutOf(g, x)
      BY <2>2, <1>r DEF OutOf
    <3>4. OutOf(h, x) = OutOf(g, x)
      BY <3>1, <1>ra
    <3>5. OutOf(h, x) \cap Into(h, o) = {k}
      BY <3>2, <3>3, <3>4, <1>r
    <3> QED BY <3>5
  <2> QED BY <2>1, <2>2
<1> QED BY <1>1, <1>2, <1>3, <1>6, <1>7, <1>8, <1>s DEF Strung

(* The picture without the pair lost one edge. *)
LEMMA RestrungLighter ==
  ASSUME NEW V, NEW g, GraphOK(V, g), NEW o, NEW c,
         NEW n \in Live(g) \ {o, c}, NEW e \in OutOf(g, n), NEW f, NEW h,
         Restrung(V, g, h, n, o, c, e, f), NEW p, p = Pic(g, {o, c}), NEW q, q = Pic(h, {o, c}),
         NEW d, d = dependee(g, e)
  PROVE  Lighter(p, q, n, d)
<1> DEFINE H == {o, c}
<1>k. Kept(V, g, h) /\ GraphOK(V, h) /\ Live(h) = Live(g)
  BY KeptFacts DEF Restrung
<1>p. /\ p.nodes = Live(g) \ H
      /\ p.opens = {x \in Live(g) \ H : isHyperOpen(g, x)}
      /\ p.closes = {x \in Live(g) \ H : isHyperClose(g, x)}
      /\ \A x \in Live(g) \ H : p.waits[x] = Waits(g, x) \ H
      /\ \A x \in Live(g) \ H : p.name[x] = g.node[x].value
  BY DEF Pic
<1>q. /\ q.nodes = Live(h) \ H
      /\ q.opens = {x \in Live(h) \ H : isHyperOpen(h, x)}
      /\ q.closes = {x \in Live(h) \ H : isHyperClose(h, x)}
      /\ \A x \in Live(h) \ H : q.waits[x] = Waits(h, x) \ H
      /\ \A x \in Live(h) \ H : q.name[x] = h.node[x].value
  BY DEF Pic
<1>h. o \in H /\ c \in H /\ n \notin H
  OBVIOUS
<1> HIDE DEF H
<1>1. \A x \in Live(g) : /\ isHyperOpen(h, x) <=> isHyperOpen(g, x)
                         /\ isHyperClose(h, x) <=> isHyperClose(g, x)
                         /\ h.node[x].value = g.node[x].value
  BY <1>k, KeptLabels DEF SameLabels, isHyperOpen, isHyperClose
<1>2. q.nodes = p.nodes /\ q.opens = p.opens /\ q.closes = p.closes
  BY <1>k, <1>p, <1>q, <1>1
<1>3. \A x \in p.nodes : q.name[x] = p.name[x]
  <2>1. \A x \in Live(g) \ H : p.name[x] = g.node[x].value
    BY <1>p
  <2>2. \A x \in Live(g) \ H : q.name[x] = h.node[x].value
    BY <1>q, <1>k
  <2>3. \A x \in Live(g) : h.node[x].value = g.node[x].value
    BY <1>1
  <2>4. p.nodes = Live(g) \ H
    BY <1>p
  <2> QED BY <2>1, <2>2, <2>3, <2>4
<1>4. ASSUME NEW x \in p.nodes \ {n} PROVE q.waits[x] = p.waits[x]
  <2>1. x \in Live(g) \ {n, c} /\ x \in Live(g) \ H
    BY <1>p, <1>h
  <2>2. Waits(h, x) = Waits(g, x)
    BY <2>1 DEF Restrung
  <2> QED BY <2>1, <2>2, <1>k, <1>p, <1>q
<1>r. /\ \A k \in DOMAIN g.edge \ {e} : h.edge[k] = g.edge[k]
      /\ h.edge[f] = <<n, o>>
      /\ OutOf(h, n) = (OutOf(g, n) \ {e}) \cup {f}
  BY DEF Restrung
<1>5. q.waits[n] = Waits(h, n) \ H /\ p.waits[n] = Waits(g, n) \ H
  BY <1>k, <1>p, <1>q, <1>h
<1>6. \A y \in Waits(h, n) : y \in Waits(g, n) \cup {o}
  <2>1. \A k \in OutOf(h, n) : k # f => k \in OutOf(g, n) /\ dependee(h, k) = dependee(g, k)
    BY <1>r DEF OutOf, dependee
  <2>2. dependee(h, f) = o
    BY <1>r DEF dependee
  <2> QED BY <2>1, <2>2 DEF Waits
<1>7. \A y \in Waits(g, n) : y \in Waits(h, n) \cup {d}
  <2>1. \A k \in OutOf(g, n) : k # e => k \in OutOf(h, n) /\ dependee(h, k) = dependee(g, k)
    BY <1>r DEF OutOf, dependee
  <2> QED BY <2>1 DEF Waits
<1>8. q.waits[n] \subseteq p.waits[n] /\ p.waits[n] \subseteq q.waits[n] \cup {d}
  BY <1>5, <1>6, <1>7, <1>h
<1> QED BY <1>2, <1>3, <1>4, <1>8 DEF Lighter

(* The graph is as the walk needs it. *)
LEMMA RestrungWalks ==
  ASSUME NEW V, NEW g, GraphOK(V, g), NEW o, NEW c, NEW S, NEW R, NEW v,
         NEW p, p = Pic(g, {o, c}), Walkable(R, g, v, S, o, c, p),
         NEW n \in p.nodes \ S, NEW e \in OutOf(g, n), NEW f, NEW h,
         Restrung(V, g, h, n, o, c, e, f), NEW q, q = Pic(h, {o, c}), NEW T, T = S \cup {n}
  PROVE  /\ Walkable(R, h, v, T, o, c, q)
         /\ Lighter(p, q, n, dependee(g, e))
<1>p. p.nodes = Live(g) \ {o, c}
  BY PicIs
<1>w. /\ Strung(g, S, o, c)
      /\ \A x \in S : dependees(g, x) # <<>> /\ FirstOf(g, x) = o
      /\ Shape(R, p, v)
      /\ AllTopped(p, v)
      /\ Lone(g, p.nodes, v)
      /\ Headed(g, p.nodes, v)
  BY DEF Walkable
<1>s. /\ o \in Live(g) /\ c \in Live(g) /\ o # c /\ isHyperOpen(g, o) /\ isHyperClose(g, c)
      /\ S \subseteq Live(g) \ {o, c}
  BY <1>w DEF Strung
<1>1. Strung(h, T, o, c)
  BY <1>p, <1>w, RestrungStrung
<1>2. Lighter(p, q, n, dependee(g, e))
  BY <1>p, RestrungLighter
<1>k. Kept(V, g, h) /\ GraphOK(V, h) /\ Live(h) = Live(g)
  BY KeptFacts DEF Restrung
<1>q. q.nodes = p.nodes
  BY <1>2 DEF Lighter
<1>3. Shape(R, q, v)
  BY <1>w, <1>2, LighterShape
<1>4. AllTopped(q, v)
  BY <1>w, <1>q DEF AllTopped
<1>r. /\ \A k \in DOMAIN g.edge \ {e} : h.edge[k] = g.edge[k]
      /\ h.edge[f] = <<n, o>>
      /\ dependees(h, n) # <<>> /\ Head(dependees(h, n)) = f
      /\ OutOf(h, n) = (OutOf(g, n) \ {e}) \cup {f}
  BY DEF Restrung
<1>f. dependees(h, n) # <<>> /\ FirstOf(h, n) = o
  BY <1>r DEF FirstOf, dependee
<1>5. ASSUME NEW x \in p.nodes, x # n
      PROVE  /\ dependees(h, x) = dependees(g, x) /\ OutOf(h, x) = OutOf(g, x)
             /\ dependees(g, x) # <<>> => FirstOf(h, x) = FirstOf(g, x) /\ FirstOf(g, x) \in Live(g)
  <2>1. x \in Live(g) \ {n, c}
    BY <1>5, <1>p
  <2>2. dependees(h, x) = dependees(g, x) /\ OutOf(h, x) = OutOf(g, x)
    BY <2>1 DEF Restrung
  <2>3. ASSUME dependees(g, x) # <<>> PROVE FirstOf(h, x) = FirstOf(g, x) /\ FirstOf(g, x) \in Live(g)
    <3>1. Head(dependees(g, x)) \in OutOf(g, x)
      BY <2>1, <2>3, NodeEdges, TailOnce
    <3>2. Head(dependees(g, x)) \in DOMAIN g.edge \ {e}
      BY <3>1, <1>5 DEF OutOf
    <3> QED BY <2>2, <3>1, <3>2, <1>r, EdgeEnds DEF FirstOf, dependee
  <2> QED BY <2>2, <2>3
<1>6. ASSUME NEW x \in T PROVE dependees(h, x) # <<>> /\ FirstOf(h, x) = o
  <2>1. CASE x = n
    BY <2>1, <1>f
  <2>2. CASE x # n
    <3>1. x \in S /\ x \in p.nodes
      BY <2>2, <1>p, <1>s
    <3> QED BY <3>1, <2>2, <1>5, <1>w
  <2> QED BY <2>1, <2>2
<1>7. ASSUME NEW x \in Live(g) PROVE /\ isHyperOpen(h, x) <=> isHyperOpen(g, x)
                                     /\ isHyperClose(h, x) <=> isHyperClose(g, x)
  BY <1>k, SameHyper
<1>8. Lone(h, q.nodes, v)
  <2>1. SUFFICES ASSUME NEW x \in p.nodes \cap v.inner, ~isHyperClose(h, x), v.top[x] # 0
                 PROVE  \E k : OutOf(h, x) = {k}
    BY <1>q DEF Lone
  <2>2. x \in Live(g) /\ ~isHyperClose(g, x)
    BY <2>1, <1>p, <1>7
  <2>3. PICK k : OutOf(g, x) = {k}
    BY <2>1, <2>2, <1>w DEF Lone
  <2>4. CASE x = n
    <3>1. OutOf(h, x) = {f}
      BY <2>3, <2>4, <1>r
    <3> QED BY <3>1
  <2>5. CASE x # n
    BY <2>3, <2>5, <1>5
  <2> QED BY <2>4, <2>5
<1>9. Headed(h, q.nodes, v)
  <2>1. SUFFICES ASSUME NEW x \in p.nodes \cap v.inner, isHyperClose(h, x), v.top[x] # 0
                 PROVE  dependees(h, x) # <<>> /\ isHyperOpen(h, FirstOf(h, x))
    BY <1>q DEF Headed
  <2>2. CASE x = n
    BY <2>2, <1>f, <1>7, <1>s
  <2>3. CASE x # n
    <3>1. x \in Live(g) /\ isHyperClose(g, x)
      BY <2>1, <1>p, <1>7
    <3>2. dependees(g, x) # <<>> /\ isHyperOpen(g, FirstOf(g, x))
      BY <2>1, <3>1, <1>w DEF Headed
    <3>3. dependees(h, x) = dependees(g, x) /\ FirstOf(h, x) = FirstOf(g, x) /\ FirstOf(g, x) \in Live(g)
      BY <2>3, <3>2, <1>5
    <3> QED BY <3>2, <3>3, <1>7
  <2> QED BY <2>2, <2>3
<1> QED BY <1>1, <1>2, <1>3, <1>4, <1>6, <1>8, <1>9 DEF Walkable

(* A node n off the walk, first at front, is strung by an edge f in place  *)
(* of e.                                                                   *)
Turned(V, R, I, g, v, S, o, c, n, front, e, f, k, h, d) ==
  /\ GraphOK(V, g) /\ Preorder(R)
  /\ Walkable(R, g, v, S, o, c, Pic(g, {o, c}))
  /\ n \in Pic(g, {o, c}).nodes \ S
  /\ Going(R, I, Pic(g, {o, c}), v, S, Flags(g), n, front)
  /\ ~isPending(g, n) /\ front # n
  /\ GraphOK(V, k) /\ e \in OutOf(g, n) /\ d = FirstOf(g, n) /\ d = dependee(g, e)
  /\ Restrung(V, g, k, n, o, c, e, f)
  /\ Alike(k, h) /\ Flags(g) \subseteq Flags(h) \cup {n}

(* The walk goes on from a node that was strung. *)
LEMMA StrungOn ==
  ASSUME NEW V, NEW R, NEW I, NEW g, NEW v, NEW S, NEW o, NEW c, NEW n, NEW front, NEW e, NEW f, NEW k, NEW h, NEW d,
         Turned(V, R, I, g, v, S, o, c, n, front, e, f, k, h, d)
  PROVE  Walked(R, I, h, v, o, c, d, IF front = 0 THEN n ELSE front)
<1> DEFINE p == Pic(g, {o, c})
           front2 == IF front = 0 THEN n ELSE front
<1>p. p = Pic(g, {o, c})
  OBVIOUS
<1>f. front2 = IF front = 0 THEN n ELSE front
  OBVIOUS
<1>a. GraphOK(V, g) /\ Preorder(R) /\ Walkable(R, g, v, S, o, c, p)
  BY DEF Turned
<1>b. n \in p.nodes \ S /\ Going(R, I, p, v, S, Flags(g), n, front)
  BY DEF Turned
<1>c. ~isPending(g, n) /\ front # n
  BY DEF Turned
<1>d. GraphOK(V, k) /\ e \in OutOf(g, n) /\ d = FirstOf(g, n) /\ d = dependee(g, e)
  BY DEF Turned
<1>e. Restrung(V, g, k, n, o, c, e, f)
  BY DEF Turned
<1>g. Alike(k, h) /\ Flags(g) \subseteq Flags(h) \cup {n}
  BY DEF Turned
<1> HIDE DEF p, front2
<1> DEFINE T == S \cup {n}
           q == Pic(k, {o, c})
<1>0. T = S \cup {n}
  OBVIOUS
<1>q. q = Pic(k, {o, c})
  OBVIOUS
<1> HIDE DEF T, q
<1>1. Walkable(R, k, v, T, o, c, q) /\ Lighter(p, q, n, d)
  BY <1>0, <1>q, <1>p, <1>a, <1>b, <1>d, <1>e, RestrungWalks
<1>2. LeadsOn(p, S, n, d)
  BY <1>p, <1>a, <1>b, <1>c, <1>d, WalkLeads
<1>3. Shape(R, p, v) /\ AllTopped(p, v)
  BY <1>a DEF Walkable
<1>4. Going(R, I, q, v, T, Flags(h), d, front2)
  BY <1>0, <1>1, <1>2, <1>3, <1>f, <1>a, <1>b, <1>c, <1>g, RevisitGoes
<1>5. Walkable(R, h, v, T, o, c, q)
  BY <1>1, <1>q, <1>d, <1>g, AlikeWalks
<1>6. Pic(h, {o, c}) = q
  BY <1>q, <1>g, AlikePic
<1>7. OnTheWay(R, I, h, v, T, o, c, d, front2)
  BY <1>4, <1>5, <1>6 DEF OnTheWay
<1> QED BY <1>7, <1>f DEF Walked

(* Revisit. *)
LEMMA RevisitWalksOn ==
  ASSUME NEW V, NEW g, GraphOK(V, g), Clean(g, "pendings"), NEW o, NEW c, NEW R, NEW I, NEW v, Preorder(R),
         NEW n, NEW front, Walked(R, I, g, v, o, c, n, front), front = Nil \/ n # front,
         ~isPending(g, n),
         NEW a, a = attach(g, c, n), NEW b, b = attach(a, n, o),
         NEW e, e = FirstDependee(g, n), NEW k, k = detach(b, e),
         NEW h, h = SetFlag(k, n, FALSE), NEW d, d = dependee(g, e),
         NEW front2, front2 = IF front = Nil THEN n ELSE front
  PROVE  Walked(R, I, h, v, o, c, d, front2)
<1> DEFINE p == Pic(g, {o, c})
           q == Pic(k, {o, c})
<1>1. PICK S : OnTheWay(R, I, g, v, S, o, c, n, front)
  BY DEF Walked
<1>2. Walkable(R, g, v, S, o, c, p) /\ Going(R, I, p, v, S, Flags(g), n, front)
  BY <1>1 DEF OnTheWay
<1>0. p = Pic(g, {o, c})
  OBVIOUS
<1>q. q = Pic(k, {o, c})
  OBVIOUS
<1> HIDE DEF p, q
<1>3. n \in p.nodes /\ p.nodes = Live(g) \ {o, c}
  BY <1>0, <1>2, PicIs DEF Going
<1>s. /\ Strung(g, S, o, c) /\ Shape(R, p, v) /\ AllTopped(p, v)
      /\ o \in Live(g) /\ c \in Live(g) /\ o # c /\ Waits(g, o) = {}
      /\ S \subseteq Live(g) \ {o, c}
  BY <1>2 DEF Walkable, Strung
<1>e. e \in OutOf(g, n) /\ d = FirstOf(g, n)
  <2>1. dependees(g, n) # <<>>
    BY DEF isPending
  <2>2. e \in ToSet(dependees(g, n))
    BY <2>1, <1>3, NodeEdges, TailOnce DEF FirstDependee
  <2> QED BY <2>2, <1>3, NodeEdges DEF FirstDependee, FirstOf
<1>4. PICK f : Restrung(V, g, k, n, o, c, e, f)
  BY <1>3, <1>s, <1>e, Restrings
<1>5. Kept(V, g, k) /\ GraphOK(V, k) /\ Live(k) = Live(g) /\ SameNodes(g, k)
  BY <1>4, KeptFacts DEF Restrung
<1>6. FlagSet(V, k, h, n, FALSE)
  BY <1>3, <1>5, FlagAlike
<1>7. Alike(k, h) /\ GraphOK(V, h) /\ Live(h) = Live(g)
  BY <1>5, <1>6 DEF FlagSet, Alike
<1>7a. Alike(k, h)
  BY <1>7
<1>8. Flags(g) \subseteq Flags(h) \cup {n}
  <2>1. \A x \in Live(g) : k.node[x].withinCycle = g.node[x].withinCycle
    BY <1>5, WaitsLive DEF SameNodes
  <2>2. \A x \in Live(g) : h.node[x].withinCycle = IF x = n THEN FALSE ELSE k.node[x].withinCycle
    BY <1>5, <1>6 DEF FlagSet
  <2>3. \A x \in Live(g) : x # n => (h.node[x].withinCycle <=> g.node[x].withinCycle)
    BY <2>1, <2>2
  <2> QED BY <2>3, <1>7 DEF Flags
<1>z. Nil = 0 /\ n # 0 /\ o # 0
  BY <1>3, <1>s, LiveCells DEF GraphOK, Nil
<1>9. CASE n \in S
  <2>1. d = o
    BY <1>0, <1>2, <1>3, <1>9, <1>e, WalkLeads
  <2>2. Waits(k, o) = {}
    BY <1>4, <1>3, <1>s DEF Restrung
  <2>3. isPending(k, o)
    BY <2>2, <1>5, <1>s, WaitsLive
  <2>4. isPending(h, o)
    BY <2>3, <1>5, <1>7, <1>s DEF Alike, isPending
  <2>5. front # 0 => front \in S
    BY <1>2 DEF Going, Fronted
  <2>6. front2 # o
    BY <2>5, <1>3, <1>s, <1>z
  <2> QED BY <2>1, <2>4, <2>6 DEF Walked
<1>10. CASE n \notin S
  <2>1. n \in p.nodes \ S
    BY <1>3, <1>10
  <2>2. front # n /\ front2 = IF front = 0 THEN n ELSE front
    BY <1>z
  <2>3. Turned(V, R, I, g, v, S, o, c, n, front, e, f, k, h, d)
    BY <2>1, <2>2, <1>0, <1>2, <1>4, <1>5, <1>7a, <1>8, <1>e DEF Turned
  <2>4. Walked(R, I, h, v, o, c, d, IF front = 0 THEN n ELSE front)
    BY <2>3, StrungOn
  <2> QED BY <2>2, <2>4
<1> QED BY <1>9, <1>10

-----------------------------------------------------------------------------
(* The walk ends, and the nodes strung are hung between the pair. *)

(* The walk ends at its front: the cycle can be contracted. *)
LEMMA WalkComesBack ==
  ASSUME NEW V, NEW g, GraphOK(V, g), NEW o, NEW c, NEW R, NEW I, NEW v, Preorder(R),
         \A a, b \in Nat : <<a, b>> \in I => <<a, b>> \in R,
         NEW at, NEW front, front = at, Walked(R, I, g, v, o, c, at, front)
  PROVE  Ready(R, I, g, v, o, c)
<1> DEFINE p == Pic(g, {o, c})
           F == Flags(g)
<1>1. PICK S : OnTheWay(R, I, g, v, S, o, c, at, at)
  BY DEF Walked
<1>2. Walkable(R, g, v, S, o, c, p) /\ Going(R, I, p, v, S, F, at, at)
  BY <1>1 DEF OnTheWay
<1> HIDE DEF p, F
<1>3. Shape(R, p, v) /\ AllTopped(p, v)
  BY <1>2 DEF Walkable
<1>4. Ring(R, I, p, v, S, F)
  BY <1>2, <1>3, RingCloses
<1> QED BY <1>2, <1>4 DEF Ready, p, F

(* The ranks of finitely many nodes have a bound. *)
LEMMA RanksBounded ==
  ASSUME NEW V, NEW g, GraphOK(V, g), NEW v, IsView(v), NEW S, S \subseteq Live(g)
  PROVE  \E B \in Nat : \A x \in S : v.rk[x] + 1 < B
<1> DEFINE P == {k \in Nat : \E B \in Nat : \A x \in S : x <= k => v.rk[x] + 1 < B}
<1>1. PICK N \in Nat : DOMAIN g.node = 1 .. N
  <2>1. g.node \in Seq(CellSet(V))
    BY DEF GraphOK, EdgesOK, GraphSet
  <2> QED BY <2>1
<1>2. \A x \in S : x \in 1 .. N
  BY <1>1, WaitsLive
<1>3. 0 \in P
  BY <1>2
<1>4. ASSUME NEW k \in 0 .. N - 1, k \in P PROVE k + 1 \in P
  <2>1. PICK B \in Nat : \A x \in S : x <= k => v.rk[x] + 1 < B
    BY <1>4
  <2>2. v.rk[k + 1] \in Nat
    BY DEF IsView
  <2> DEFINE M == B + v.rk[k + 1] + 2
  <2>3. M \in Nat
    BY <2>2
  <2>4. ASSUME NEW x \in S, x <= k + 1 PROVE v.rk[x] + 1 < M
    <3>1. x \in Nat /\ v.rk[x] \in Nat
      BY <1>2 DEF IsView
    <3>2. CASE x = k + 1
      BY <3>2, <2>2
    <3>3. CASE x <= k
      BY <3>1, <3>3, <2>1, <2>2
    <3> QED BY <2>4, <3>1, <3>2, <3>3
  <2> QED BY <2>3, <2>4
<1>5. N \in P
  <2> HIDE DEF P
  <2> QED BY <1>3, <1>4, UpTo
<1>6. PICK B \in Nat : \A x \in S : x <= N => v.rk[x] + 1 < B
  BY <1>5
<1> QED BY <1>2, <1>6

(* A node that was inside a pair waits for nothing more but the new        *)
(* opening node.                                                           *)
LEMMA StrungLoose ==
  ASSUME NEW V, NEW g, GraphOK(V, g), NEW S, NEW o, NEW c, Strung(g, S, o, c),
         NEW p, p = Pic(g, {o, c}), NEW v, AllTopped(p, v), Lone(g, p.nodes, v)
  PROVE  Loose(p, v, S)
<1>1. SUFFICES ASSUME NEW x \in (S \cap v.inner) \ p.closes PROVE p.waits[x] = {}
  BY DEF Loose
<1>2. x \in Live(g) \ {o, c}
  BY <1>1 DEF Strung
<1>3. x \in p.nodes /\ ~isHyperClose(g, x) /\ p.waits[x] = Waits(g, x) \ {o, c}
  BY <1>1, <1>2, PicIs
<1>4. PICK k : OutOf(g, x) = {k}
  BY <1>1, <1>3 DEF AllTopped, Lone
<1>5. PICK e : OutOf(g, x) \cap Into(g, o) = {e}
  BY <1>1 DEF Strung
<1>6. k = e /\ dependee(g, e) = o
  BY <1>4, <1>5 DEF Into
<1>7. Waits(g, x) = {o}
  BY <1>4, <1>6 DEF Waits
<1> QED BY <1>3, <1>7

(* What the walk leaves is what the lemmas on Hanging ask for. *)
LEMMA ReadyHangs ==
  ASSUME NEW V, NEW g, GraphOK(V, g), NEW R, NEW I, NEW v, NEW S, NEW o, NEW c, Preorder(R),
         NEW p, p = Pic(g, {o, c}), Walkable(R, g, v, S, o, c, p), NEW F, Ring(R, I, p, v, S, F),
         NEW q, Contracted(p, q, S, o, c), NEW f \in S,
         NEW B \in Nat, \A x \in S : v.rk[x] + 1 < B,
         NEW w, w = Contraction(v, S, o, c, f, B)
  PROVE  Hanging(R, p, q, v, S, o, c, f, B, w)
<1>1. Strung(g, S, o, c) /\ Shape(R, p, v) /\ AllTopped(p, v) /\ Lone(g, p.nodes, v)
  BY DEF Walkable
<1>2. Loose(p, v, S)
  BY <1>1, StrungLoose
<1>3. NewPair(p, o, c)
  <2>1. p.nodes = Live(g) \ {o, c}
    BY PicIs
  <2>2. o \in Live(g) /\ c \in Live(g) /\ o # c
    BY <1>1 DEF Strung
  <2>3. o \in Nat /\ o # 0 /\ c \in Nat /\ c # 0
    BY <2>2, LiveCells DEF GraphOK, Nil
  <2> QED BY <2>1, <2>2, <2>3 DEF NewPair
<1>4. /\ S \subseteq p.nodes /\ S \cap Buried(p) = {}
      /\ \A x, y \in S : Same(R, v.rep[x], v.rep[y])
      /\ \A x \in S \cap v.inner : v.top[x] \in S
  BY DEF Ring
<1> QED BY <1>1, <1>2, <1>3, <1>4 DEF Hanging

(* All that is known once the nodes were hung. *)
Rehanged(V, R, I, g, h, p, q, v, S, o, c, f, B, w) ==
  /\ GraphOK(V, g) /\ GraphOK(V, h) /\ p = Pic(g, {o, c}) /\ q = Pic(h, {})
  /\ Walkable(R, g, v, S, o, c, p) /\ Ring(R, I, p, v, S, Flags(g))
  /\ Contracts(V, g, h, p, q, S, o, c)
  /\ Hanging(R, p, q, v, S, o, c, f, B, w)

(* The nodes before and after. *)
RehangedFacts(g, h, p, v, S, o, c, w) ==
  /\ Live(h) = Live(g) /\ Live(g) = p.nodes \cup {o, c} /\ o \notin p.nodes /\ c \notin p.nodes /\ o # c
  /\ S \subseteq p.nodes
  /\ isHyperOpen(h, o) /\ isHyperClose(h, c)
  /\ w.inner = (v.inner \ {o}) \cup S \cup {c}
  /\ \A x \in Live(g) : /\ isHyperOpen(h, x) <=> isHyperOpen(g, x)
                        /\ isHyperClose(h, x) <=> isHyperClose(g, x)
                        /\ h.node[x].withinCycle = g.node[x].withinCycle
  /\ \A x \in p.nodes : (x \in p.closes <=> isHyperClose(g, x)) /\ (x \in p.opens <=> isHyperOpen(g, x))
  /\ p.closes \subseteq v.inner

(* That is what Rehanged says of them. *)
LEMMA RehangedDoes ==
  ASSUME NEW V, NEW R, NEW I, NEW g, NEW h, NEW p, NEW q, NEW v, NEW S, NEW o, NEW c, NEW f, NEW B, NEW w,
         Rehanged(V, R, I, g, h, p, q, v, S, o, c, f, B, w)
  PROVE  RehangedFacts(g, h, p, v, S, o, c, w)
<1>1. GraphOK(V, g) /\ p = Pic(g, {o, c}) /\ Kept(V, g, h) /\ Strung(g, S, o, c)
      /\ Hanging(R, p, q, v, S, o, c, f, B, w)
  BY DEF Rehanged, Contracts, Walkable
<1>h. HangingFacts(p, q, v, S, o, c, f, B, w)
  BY <1>1, HangingDoes
<1>2. Live(h) = Live(g) /\ SameNodes(g, h)
  BY <1>1, KeptFacts
<1>3. ASSUME NEW x \in Live(g)
      PROVE  /\ isHyperOpen(h, x) <=> isHyperOpen(g, x)
             /\ isHyperClose(h, x) <=> isHyperClose(g, x)
             /\ h.node[x].withinCycle = g.node[x].withinCycle
  <2>1. x \in DOMAIN g.node
    BY <1>1, WaitsLive
  <2> QED BY <2>1, <1>1, <1>2, SameHyper DEF SameNodes
<1>4. /\ o \in Live(g) /\ c \in Live(g) /\ o # c /\ isHyperOpen(g, o) /\ isHyperClose(g, c)
      /\ S \subseteq Live(g) \ {o, c}
  BY <1>1 DEF Strung
<1>5. p.nodes = Live(g) \ {o, c}
  BY <1>1, PicIs
<1>6. \A x \in p.nodes : (x \in p.closes <=> isHyperClose(g, x)) /\ (x \in p.opens <=> isHyperOpen(g, x))
  BY <1>1, <1>5, PicIs
<1>7. w.inner = (v.inner \ {o}) \cup S \cup {c} /\ p.closes \subseteq v.inner
  BY <1>h DEF HangingFacts
<1> QED BY <1>2, <1>3, <1>4, <1>5, <1>6, <1>7 DEF RehangedFacts

(* A node inside, but one of the ring, keeps its edges. *)
LEMMA InnerKeeps ==
  ASSUME NEW V, NEW R, NEW I, NEW g, NEW h, NEW p, NEW q, NEW v, NEW S, NEW o, NEW c, NEW f, NEW B, NEW w,
         Rehanged(V, R, I, g, h, p, q, v, S, o, c, f, B, w),
         NEW x \in p.nodes \cap v.inner, x \notin S \ p.closes
  PROVE  Untouched(g, h, x)
<1>1. Hanging(R, p, q, v, S, o, c, f, B, w) /\ Contracts(V, g, h, p, q, S, o, c)
  BY DEF Rehanged
<1>2. Hung(p, S, c, p.waits[x]) = p.waits[x] /\ p.waits[x] \subseteq p.nodes
  BY <1>1, HangsNone
<1>3. c \notin p.nodes
  BY <1>1 DEF Hanging, NewPair
<1>4. p.waits[x] \cap (S \ p.opens) = {}
  BY <1>2, <1>3 DEF Hung
<1> QED BY <1>1, <1>4 DEF Contracts

(* What is inside has one edge left. *)
LEMMA RehangedLone ==
  ASSUME NEW V, NEW R, NEW I, NEW g, NEW h, NEW p, NEW q, NEW v, NEW S, NEW o, NEW c, NEW f, NEW B, NEW w,
         Rehanged(V, R, I, g, h, p, q, v, S, o, c, f, B, w)
  PROVE  Lone(h, Live(h), w)
<1>a. RehangedFacts(g, h, p, v, S, o, c, w)
  BY RehangedDoes
<1>b. GraphOK(V, g) /\ Contracts(V, g, h, p, q, S, o, c) /\ AllTopped(p, v) /\ Lone(g, p.nodes, v) /\ Kept(V, g, h)
  BY DEF Rehanged, Walkable, Contracts
<1>1. SUFFICES ASSUME NEW x \in Live(h) \cap w.inner, ~isHyperClose(h, x) PROVE \E e : OutOf(h, x) = {e}
  BY DEF Lone
<1>2. x \in p.nodes /\ x \notin p.closes /\ x \in Live(g)
  BY <1>1, <1>a DEF RehangedFacts
<1>3. CASE x \in S
  BY <1>2, <1>3, <1>b DEF Contracts
<1>4. CASE x \notin S
  <2>1. x \in p.nodes \cap v.inner
    BY <1>1, <1>2, <1>4, <1>a DEF RehangedFacts
  <2>2. Untouched(g, h, x)
    BY <2>1, <1>4, InnerKeeps
  <2>3. OutOf(h, x) = OutOf(g, x)
    BY <2>2, <1>2, <1>b, UntouchedWaits
  <2>4. \E e : OutOf(g, x) = {e}
    BY <2>1, <1>1, <1>2, <1>a, <1>b DEF Lone, AllTopped, RehangedFacts
  <2> QED BY <2>3, <2>4
<1> QED BY <1>3, <1>4

(* A closing node has an opening one first. *)
LEMMA RehangedHeaded ==
  ASSUME NEW V, NEW R, NEW I, NEW g, NEW h, NEW p, NEW q, NEW v, NEW S, NEW o, NEW c, NEW f, NEW B, NEW w,
         Rehanged(V, R, I, g, h, p, q, v, S, o, c, f, B, w)
  PROVE  Headed(h, Live(h), w)
<1>a. RehangedFacts(g, h, p, v, S, o, c, w)
  BY RehangedDoes
<1>b. GraphOK(V, g) /\ Contracts(V, g, h, p, q, S, o, c) /\ AllTopped(p, v) /\ Headed(g, p.nodes, v)
  BY DEF Rehanged, Walkable
<1>1. SUFFICES ASSUME NEW x \in Live(h) \cap w.inner, isHyperClose(h, x)
               PROVE  dependees(h, x) # <<>> /\ isHyperOpen(h, FirstOf(h, x))
  BY DEF Headed
<1>2. CASE x = c
  BY <1>2, <1>a, <1>b DEF Contracts, RehangedFacts
<1>3. CASE x # c
  <2>0. ~isHyperClose(h, o)
    BY <1>a, NoHyperModule DEF RehangedFacts, isHyperOpen, isHyperClose
  <2>1. x \in p.nodes /\ x \in p.closes /\ x \in Live(g) /\ x \in v.inner /\ isHyperClose(g, x)
    BY <1>1, <1>3, <1>a, <2>0 DEF RehangedFacts
  <2>2. Untouched(g, h, x)
    BY <2>1, InnerKeeps
  <2>3. dependees(g, x) # <<>> /\ isHyperOpen(g, FirstOf(g, x))
    BY <2>1, <1>b DEF AllTopped, Headed
  <2>4. dependees(h, x) # <<>> /\ FirstOf(h, x) = FirstOf(g, x)
    BY <2>1, <2>2, <2>3, <1>b, UntouchedFirst
  <2>5. Head(dependees(g, x)) \in OutOf(g, x)
    BY <2>1, <2>3, <1>b, NodeEdges, TailOnce
  <2>6. FirstOf(g, x) \in Live(g)
    BY <2>5, <1>b, EdgeEnds DEF FirstOf, OutOf
  <2> QED BY <2>3, <2>4, <2>6, <1>a DEF RehangedFacts
<1> QED BY <1>2, <1>3

(* The next walk begins at the new pair, if it is blocked; all others that *)
(* open one were met.                                                      *)
LEMMA RehangedParked ==
  ASSUME NEW V, NEW R, NEW I, NEW g, NEW h, NEW p, NEW q, NEW v, NEW S, NEW o, NEW c, NEW f, NEW B, NEW w,
         Rehanged(V, R, I, g, h, p, q, v, S, o, c, f, B, w)
  PROVE  Parked(h, w)
<1>a. RehangedFacts(g, h, p, v, S, o, c, w)
  BY RehangedDoes
<1>1. SUFFICES ASSUME NEW r \in Blocked(h) \ w.inner, isHyperOpen(h, r), r # h["blockeds"]
               PROVE  h.node[r].withinCycle
  BY DEF Parked
<1>2. HeadIs(h, o) /\ Ring(R, I, p, v, S, Flags(g))
  BY DEF Rehanged, Contracts
<1>3. r # o
  BY <1>1, <1>2 DEF HeadIs
<1>4. r \in Live(h)
  BY <1>1 DEF Blocked
<1>5. r \in p.nodes /\ r \notin S /\ r \notin v.inner /\ r \in p.opens
  BY <1>1, <1>3, <1>4, <1>a DEF RehangedFacts
<1>6. r \in Flags(g)
  BY <1>2, <1>5 DEF Ring, Roots
<1> QED BY <1>6, <1>a DEF Flags, RehangedFacts

(* Rehang brings the invariant back. *)
LEMMA RehangSettles ==
  ASSUME NEW V, NEW g, GraphOK(V, g), Clean(g, "pendings"), NEW R, NEW I, NEW v, Preorder(R),
         NEW o, o = solving.open, NEW c, c = solving.close, Ready(R, I, g, v, o, c),
         NEW h, h = attach(RehangAll(g, dependers(g, o)), c, o)
  PROVE  \E w : Settled(R, I, h, w)
<1> DEFINE p == Pic(g, {o, c})
           q == Pic(h, {})
<1>1. PICK S : Walkable(R, g, v, S, o, c, p) /\ Ring(R, I, p, v, S, Flags(g))
  BY DEF Ready
<1>p. p = Pic(g, {o, c}) /\ q = Pic(h, {})
  OBVIOUS
<1> HIDE DEF p, q
<1>2. S # {} /\ Strung(g, S, o, c) /\ Shape(R, p, v) /\ Covers(R, I, p, v)
  BY <1>1 DEF Ring, Walkable
<1>3. Contracts(V, g, h, p, q, S, o, c)
  BY <1>2, <1>p, RehangContracts
<1>4. PICK f : f \in S
  BY <1>2
<1>5. PICK B \in Nat : \A x \in S : v.rk[x] + 1 < B
  <2>1. IsView(v) /\ S \subseteq Live(g)
    BY <1>2 DEF Shape, Strung
  <2> QED BY <2>1, RanksBounded
<1> DEFINE w == Contraction(v, S, o, c, f, B)
<1>w. w = Contraction(v, S, o, c, f, B)
  OBVIOUS
<1> HIDE DEF w
<1>6. Contracted(p, q, S, o, c) /\ GraphOK(V, h)
  BY <1>3, KeptFacts DEF Contracts
<1>7. Hanging(R, p, q, v, S, o, c, f, B, w)
  BY <1>1, <1>4, <1>5, <1>6, <1>p, <1>w, ReadyHangs
<1>8. Rehanged(V, R, I, g, h, p, q, v, S, o, c, f, B, w)
  BY <1>1, <1>3, <1>6, <1>7, <1>p DEF Rehanged
<1>9. Shape(R, q, w)
  BY <1>7, HungShape
<1>10. Covers(R, I, q, w)
  BY <1>2, <1>7, HungCovers
<1>11. Lone(h, Live(h), w)
  BY <1>8, RehangedLone
<1>12. Headed(h, Live(h), w)
  BY <1>8, RehangedHeaded
<1>13. Parked(h, w)
  BY <1>8, RehangedParked
<1>14. Settled(R, I, h, w)
  BY <1>9, <1>10, <1>11, <1>12, <1>13, <1>p DEF Settled
<1> QED BY <1>14

-----------------------------------------------------------------------------
(* The edges of the registered modules are their imports. *)

(* The node of module a waits for that of b. *)
Depends(s, a, b) == a \in DOMAIN s.map /\ b \in DOMAIN s.map /\ s.map[b] \in Waits(s.graph, s.map[a])
(* t is s, and the node of m waits for those of X. *)
MoreDepends(s, t, m, X) == \A a, b : Depends(t, a, b) <=> Depends(s, a, b) \/ (a = m /\ b \in X)

(* getOrMakeModule makes nothing wait. *)
LEMMA GetOrMakeDepends ==
  ASSUME NEW s, RegOK(s), NEW m \in Modules
  PROVE  MoreDepends(s, getOrMakeModule(s, m), m, {})
<1>1. CASE m \in DOMAIN s.map
  BY <1>1 DEF getOrMakeModule, MoreDepends
<1>2. CASE m \notin DOMAIN s.map
  <2> DEFINE g == s.graph
             h == makeNode(g, m)
             n == h.pendings
             map == Emplaced(s.map, m, n)
             t == [graph |-> h, map |-> map]
  <2>1. getOrMakeModule(s, m) = t
    BY <1>2 DEF getOrMakeModule
  <2>g. GraphOK(NodeValues, g) /\ m \in NodeValues /\ Mapped(g, s.map)
    BY DEF RegOK, NodeValues
  <2>2. NodeWaits(NodeValues, g, h, m)
    BY <2>g, MakeWaits
  <2>t. t.graph = h /\ t.map = map
    OBVIOUS
  <2> HIDE DEF h, t
  <2>3. n \notin Live(g) /\ Waits(h, n) = {} /\ \A x \in Live(g) : Waits(h, x) = Waits(g, x)
    BY <2>2 DEF NodeWaits, top
  <2> HIDE DEF n
  <2>4. DOMAIN map = DOMAIN s.map \cup {m} /\ map[m] = n /\ \A k \in DOMAIN s.map : map[k] = s.map[k]
    BY <1>2 DEF Emplaced
  <2> HIDE DEF map
  <2>5. \A k \in DOMAIN s.map : s.map[k] \in Live(g)
    BY <2>g DEF Mapped
  <2>6. \A x : Waits(g, x) \subseteq Live(g)
    BY <2>g, WaitsLive
  <2>7. ASSUME NEW a, NEW b PROVE Depends(t, a, b) <=> Depends(s, a, b)
    <3>1. CASE a = m
      <4>1. ~Depends(t, a, b)
        BY <3>1, <2>t, <2>3, <2>4 DEF Depends
      <4>2. ~Depends(s, a, b)
        BY <3>1, <1>2 DEF Depends
      <4> QED BY <4>1, <4>2
    <3>2. CASE a # m /\ b = m
      <4>1. ~Depends(t, a, b)
        BY <3>2, <2>t, <2>3, <2>4, <2>5, <2>6 DEF Depends
      <4>2. ~Depends(s, a, b)
        BY <3>2, <1>2 DEF Depends
      <4> QED BY <4>1, <4>2
    <3>3. CASE a # m /\ b # m
      BY <3>3, <2>t, <2>3, <2>4, <2>5 DEF Depends
    <3> QED BY <3>1, <3>2, <3>3
  <2> QED BY <2>1, <2>7 DEF MoreDepends
<1> QED BY <1>1, <1>2

(* makeDependency makes lhs wait for rhs. *)
LEMMA MakeDependencyDepends ==
  ASSUME NEW s, RegOK(s), NEW lhs \in Modules, NEW rhs \in Modules
  PROVE  MoreDepends(s, makeDependency(s, lhs, rhs), lhs, {rhs})
<1> DEFINE u == getOrMakeModule(s, lhs)
           t == getOrMakeModule(u, rhs)
           g == t.graph
           h == attach(g, t.map[lhs], t.map[rhs])
           v == [t EXCEPT !.graph = h]
<1>1. makeDependency(s, lhs, rhs) = v
  BY DEF makeDependency
<1>2. RegOK(u) /\ DOMAIN u.map = DOMAIN s.map \cup {lhs} /\ MoreDepends(s, u, lhs, {})
  BY GetOrMakeDoes, GetOrMakeDepends
<1> HIDE DEF u
<1>3. RegOK(t) /\ DOMAIN t.map = DOMAIN u.map \cup {rhs} /\ MoreDepends(u, t, rhs, {})
  BY <1>2, GetOrMakeDoes, GetOrMakeDepends
<1> HIDE DEF t
<1>4. lhs \in DOMAIN t.map /\ rhs \in DOMAIN t.map
  BY <1>2, <1>3
<1>5. GraphOK(NodeValues, g) /\ Clean(g, "pendings") /\ Mapped(g, t.map) /\ t = [graph |-> g, map |-> t.map]
  BY <1>3 DEF RegOK
<1>6. t.map[lhs] \in Live(g) /\ t.map[rhs] \in Live(g)
  BY <1>4, <1>5 DEF Mapped
<1>7. AttachedWaits(NodeValues, g, h, t.map[lhs], t.map[rhs])
  BY <1>5, <1>6, AttachWaits
<1>8. v.graph = h /\ v.map = t.map
  BY <1>5
<1> HIDE DEF g, h, v
<1>9. \A x : Waits(h, x) = IF x = t.map[lhs] THEN Waits(g, x) \cup {t.map[rhs]} ELSE Waits(g, x)
  BY <1>7 DEF AttachedWaits
<1>10. \A a, b \in DOMAIN t.map : t.map[a] = t.map[b] => a = b
  BY <1>5 DEF Mapped
<1>11. ASSUME NEW a, NEW b PROVE Depends(v, a, b) <=> Depends(t, a, b) \/ (a = lhs /\ b = rhs)
  BY <1>4, <1>8, <1>9, <1>10 DEF Depends, g
<1> QED BY <1>1, <1>2, <1>3, <1>11 DEF MoreDepends

(* makeDependencies makes the module wait for its imports. *)
LEMMA MakeDependenciesDepends ==
  ASSUME NEW s, RegOK(s), NEW m \in Modules, m \in DOMAIN s.map, NEW imports \in Seq(Modules)
  PROVE  MoreDepends(s, makeDependencies(s, m, imports), m, ToSet(imports))
<1> DEFINE N == Len(imports)
           Met(k) == {imports[i] : i \in 1 .. k}
<1>1. N \in Nat /\ DOMAIN imports = 1 .. N /\ \A k \in 1 .. N : imports[k] \in Modules
  OBVIOUS
<1>0. PICK after : MakeDependenciesTurns(s, m, imports, after)
  <2>1. Len(imports) \in Nat
    BY <1>1
  <2> QED BY <2>1, MakeDependenciesShape
<1>2. /\ makeDependencies(s, m, imports) = after[N]
      /\ after[0] = s
      /\ \A k \in 1 .. N : after[k] = makeDependency(after[k - 1], m, imports[k])
  BY <1>0 DEF MakeDependenciesTurns
<1> HIDE DEF N
<1> DEFINE P == {k \in 0 .. N : RegOK(after[k]) /\ MoreDepends(s, after[k], m, Met(k))}
<1>3. 0 \in P
  <2>1. Met(0) = {}
    OBVIOUS
  <2> HIDE DEF Met
  <2>2. RegOK(s) /\ MoreDepends(s, s, m, Met(0))
    BY <2>1 DEF MoreDepends
  <2> QED BY <2>2, <1>1, <1>2
<1>4. ASSUME NEW k \in 0 .. N - 1, k \in P PROVE k + 1 \in P
  <2> DEFINE c == after[k]
             h == after[k + 1]
             i == imports[k + 1]
  <2>1. k + 1 \in 1 .. N /\ (k + 1) - 1 = k
    BY <1>1
  <2>2. h = makeDependency(c, m, i) /\ i \in Modules
    BY <2>1, <1>1, <1>2
  <2>3. Met(k + 1) = Met(k) \cup {i}
    BY <2>1
  <2>4. RegOK(c) /\ MoreDepends(s, c, m, Met(k))
    BY <1>4
  <2> HIDE DEF c, h, i, Met
  <2>5. RegOK(h) /\ MoreDepends(c, h, m, {i})
    BY <2>2, <2>4, MakeDependencyDoes, MakeDependencyDepends
  <2>6. MoreDepends(s, h, m, Met(k + 1))
    BY <2>3, <2>4, <2>5 DEF MoreDepends
  <2> QED BY <2>1, <2>5, <2>6 DEF h
<1>5. N \in P
  <2> HIDE DEF P
  <2>1. 0 .. N \subseteq P
    BY <1>1, <1>3, <1>4, UpTo
  <2> QED BY <2>1, <1>1
<1>6. Met(N) = ToSet(imports)
  BY <1>1 DEF ToSet
<1>7. QED
  BY <1>2, <1>5, <1>6

(* What registerAsts has made. *)
Registered == [graph |-> graph, map |-> moduleMap]
(* One of the first k declarations is of a and imports b. *)
Linked(k, a, b) == \E i \in 1 .. k : declared[i].module = a /\ b \in ToSet(declared[i].imports)

(* While the files are registered, the edges are the imports of those that *)
(* were.                                                                   *)
EdgesAreImports ==
  pc = "register" => \A a, b : Depends(Registered, a, b) <=> Linked(registered, a, b)

(* Registering a file keeps that. *)
LEMMA RegisterEdges ==
  ASSUME IInv, EdgesAreImports, RegisterModule
  PROVE  EdgesAreImports'
<1> DEFINE d == declared[registered + 1]
           s0 == [graph |-> graph, map |-> moduleMap]
           s == getOrMakeModule(s0, d.module)
           t == makeDependencies(s, d.module, d.imports)
<1>1. /\ pc = "register" /\ registered < Len(declared) /\ registered' = registered + 1
      /\ declared' = declared
      /\ graph' = t.graph /\ moduleMap' = t.map
  BY DEF RegisterModule
<1>2. /\ declared \in Inputs /\ registered \in 0 .. Len(declared)
      /\ GraphOK(NodeValues, graph) /\ Clean(graph, "pendings") /\ Mapped(graph, moduleMap)
  BY <1>1 DEF IInv, TypeOK, GraphHolds, Registering
<1>3. registered + 1 \in 1 .. Len(declared) /\ registered \in Nat
  BY <1>1, <1>2, DeclaredType
<1>4. d.module \in Modules /\ d.imports \in Seq(Modules)
  BY <1>2, <1>3, DeclaredType
<1>5. RegOK(s0) /\ s0 = Registered
  BY <1>2 DEF RegOK, Registered
<1>d. d = declared[registered + 1]
  OBVIOUS
<1> HIDE DEF s0, d
<1>6. RegOK(s) /\ d.module \in DOMAIN s.map /\ MoreDepends(s0, s, d.module, {})
  BY <1>4, <1>5, GetOrMakeDoes, GetOrMakeDepends
<1> HIDE DEF s
<1>7. RegOK(t) /\ MoreDepends(s, t, d.module, ToSet(d.imports))
  BY <1>4, <1>6, MakeDependenciesDoes, MakeDependenciesDepends
<1> HIDE DEF t
<1>8. t = Registered'
  BY <1>1, <1>7 DEF RegOK, Registered
<1>9. \A a, b : Linked(registered + 1, a, b)
                  <=> Linked(registered, a, b) \/ (a = d.module /\ b \in ToSet(d.imports))
  <2>1. 1 .. registered + 1 = 1 .. registered \cup {registered + 1}
    BY <1>3
  <2> QED BY <2>1, <1>d DEF Linked
<1>10. \A a, b : Depends(t, a, b) <=> Linked(registered + 1, a, b)
  <2>1. \A a, b : Depends(s0, a, b) <=> Linked(registered, a, b)
    BY <1>1, <1>5 DEF EdgesAreImports
  <2> QED BY <2>1, <1>6, <1>7, <1>9 DEF MoreDepends
<1>11. \A a, b : Linked(registered, a, b)' <=> Linked(registered + 1, a, b)
  BY <1>1 DEF Linked
<1>12. \A a, b : Depends(Registered', a, b) <=> Linked(registered, a, b)'
  BY <1>8, <1>10, <1>11
<1> QED BY <1>12 DEF EdgesAreImports, Depends, Registered

-----------------------------------------------------------------------------
(* What a module needs, and the order the imports make. *)

(* One turn of Needs. *)
Onward(A) == A \cup UNION {ImportsOf(n) : n \in A}
(* X has the imports of what is in it. *)
Closed(X) == \A n \in X : ImportsOf(n) \subseteq X
(* The first turns of Needs. *)
Nears(m, h, N) == \A k \in 0 .. N : h[k] = IF k = 0 THEN ImportsOf(m) ELSE Onward(h[k - 1])

(* There are such turns. *)
LEMMA NearsExists ==
  ASSUME NEW m, NEW N \in Nat
  PROVE  \E h : Nears(m, h, N)
<1> DEFINE P == {k \in Nat : \E h : Nears(m, h, k)}
<1>1. 0 \in P
  <2>1. Nears(m, [k \in 0 .. 0 |-> ImportsOf(m)], 0)
    BY DEF Nears
  <2> QED BY <2>1
<1>2. ASSUME NEW k \in 0 .. N - 1, k \in P PROVE k + 1 \in P
  <2>1. PICK h : Nears(m, h, k)
    BY <1>2
  <2> DEFINE q == [j \in 0 .. k + 1 |-> IF j = k + 1 THEN Onward(h[k]) ELSE h[j]]
  <2>2. \A j \in 0 .. k : h[j] = IF j = 0 THEN ImportsOf(m) ELSE Onward(h[j - 1])
    BY <2>1 DEF Nears
  <2>3. (\A j \in 0 .. k : q[j] = h[j]) /\ q[k + 1] = Onward(h[k])
    OBVIOUS
  <2> HIDE DEF q
  <2>4. \A j \in 0 .. k + 1 : q[j] = IF j = 0 THEN ImportsOf(m) ELSE Onward(q[j - 1])
    BY <2>2, <2>3
  <2>5. Nears(m, q, k + 1)
    BY <2>4 DEF Nears
  <2> QED BY <2>5
<1>3. N \in P
  <2> HIDE DEF P
  <2> QED BY <1>1, <1>2, UpTo
<1> QED BY <1>3

(* And only such. *)
LEMMA NearsOne ==
  ASSUME NEW m, NEW N \in Nat, NEW h, Nears(m, h, N), NEW i, NEW M \in Nat, N <= M, Nears(m, i, M)
  PROVE  h[N] = i[N]
<1> DEFINE P == {k \in Nat : k <= N => h[k] = i[k]}
<1>1. 0 \in P
  BY DEF Nears
<1>2. ASSUME NEW k \in 0 .. N - 1, k \in P PROVE k + 1 \in P
  <2>1. h[k] = i[k]
    BY <1>2
  <2>2. h[k + 1] = Onward(h[k]) /\ i[k + 1] = Onward(i[k])
    BY DEF Nears
  <2> QED BY <2>1, <2>2
<1>3. N \in P
  <2> HIDE DEF P
  <2> QED BY <1>1, <1>2, UpTo
<1> QED BY <1>3

(* The turns of Needs, all of them. *)
NeedsTurns(m, up) ==
  /\ Needs(m) = up[Cardinality(Declared)]
  /\ up[0] = ImportsOf(m)
  /\ \A k \in Nat : up[k + 1] = Onward(up[k])

(* The recursive function of Needs is such a one. *)
LEMMA NeedsShape ==
  ASSUME NEW m
  PROVE  \E up : NeedsTurns(m, up)
<1> DEFINE Is(h) == h = [k \in Nat |-> IF k = 0 THEN ImportsOf(m)
                                       ELSE LET near == h[k - 1]
                                            IN  near \cup UNION {ImportsOf(n) : n \in near}]
           turns(k) == CHOOSE h : Nears(m, h, k)
           up == [k \in Nat |-> turns(k)[k]]
           chosen == CHOOSE h : Is(h)
<1>1. Needs(m) = chosen[Cardinality(Declared)]
  BY DEF Needs
<1>2. \A k \in Nat : Nears(m, turns(k), k)
  BY NearsExists
<1>3. up[0] = ImportsOf(m)
  BY <1>2 DEF Nears
<1>4. ASSUME NEW k \in Nat PROVE up[k + 1] = Onward(up[k])
  <2> DEFINE i == turns(k + 1)
             h == turns(k)
  <2>1. Nears(m, i, k + 1) /\ Nears(m, h, k) /\ k + 1 \in Nat
    BY <1>2
  <2>2. up[k + 1] = i[k + 1] /\ up[k] = h[k]
    OBVIOUS
  <2> HIDE DEF i, h, up
  <2>3. i[k + 1] = Onward(i[k])
    BY <2>1 DEF Nears
  <2>4. h[k] = i[k]
    BY <2>1, NearsOne
  <2> QED BY <2>2, <2>3, <2>4
<1>5. Is(up)
  <2>1. up = [k \in Nat |-> up[k]]
    OBVIOUS
  <2> HIDE DEF up
  <2>2. \A k \in Nat : up[k] = IF k = 0 THEN ImportsOf(m) ELSE Onward(up[k - 1])
    <3>1. SUFFICES ASSUME NEW k \in Nat, k # 0 PROVE up[k] = Onward(up[k - 1])
      BY <1>3
    <3>2. k - 1 \in Nat /\ (k - 1) + 1 = k
      BY <3>1
    <3> QED BY <3>2, <1>4
  <2> QED BY <2>1, <2>2 DEF Onward
<1>6. Is(chosen)
  <2> HIDE DEF up
  <2> QED BY <1>5
<1> HIDE DEF up, chosen
<1>7. chosen[0] = ImportsOf(m)
  BY <1>6
<1>8. \A k \in Nat : chosen[k + 1] = Onward(chosen[k])
  BY <1>6 DEF Onward
<1>9. NeedsTurns(m, chosen)
  BY <1>1, <1>7, <1>8 DEF NeedsTurns
<1> QED BY <1>9

(* There are finitely many declared modules, and no other imports any. *)
LEMMA DeclaredFinite ==
  ASSUME declared \in Inputs
  PROVE  IsFiniteSet(Declared) /\ \A n : n \notin Declared => ImportsOf(n) = {}
<1> DEFINE N == Len(declared)
           f == [i \in 1 .. N |-> declared[i].module]
<1>1. N \in Nat /\ DOMAIN declared = 1 .. N
  BY DeclaredType
<1>2. IsFiniteSet(1 .. N)
  BY <1>1, FS_Interval
<1>3. f \in Surjection(1 .. N, Declared)
  BY <1>1 DEF Declared, Surjection
<1>4. IsFiniteSet(Declared)
  <2> HIDE DEF f, N
  <2> QED BY <1>2, <1>3, FS_Surjection
<1>5. ASSUME NEW n, n \notin Declared PROVE ImportsOf(n) = {}
  <2>1. Declares(n) = {}
    BY <1>5 DEF Declares, Declared
  <2> QED BY <2>1 DEF ImportsOf
<1> QED BY <1>4, <1>5

(* The turns of Needs come to rest. *)
LEMMA NeedsClosed ==
  ASSUME declared \in Inputs, NEW m
  PROVE  ImportsOf(m) \subseteq Needs(m) /\ Closed(Needs(m))
<1>1. PICK up : NeedsTurns(m, up)
  BY NeedsShape
<1> DEFINE D == Declared
           N == Cardinality(D)
           P == {k \in Nat : ImportsOf(m) \subseteq up[k] /\ (Closed(up[k]) \/ Cardinality(up[k] \cap D) >= k + 1)}
<1>2. IsFiniteSet(D) /\ \A n : n \notin D => ImportsOf(n) = {}
  BY DeclaredFinite
<1>3. up[0] = ImportsOf(m) /\ \A k \in Nat : up[k + 1] = Onward(up[k])
  BY <1>1 DEF NeedsTurns
<1>4. N \in Nat
  BY <1>2, FS_CardinalityType
<1> HIDE DEF D, N
<1>5. ASSUME NEW A PROVE IsFiniteSet(A \cap D) /\ Cardinality(A \cap D) \in Nat
  <2>1. A \cap D \in SUBSET D
    OBVIOUS
  <2> QED BY <2>1, <1>2, FS_Subset, FS_CardinalityType
<1>6. ASSUME NEW A, NEW B, A \subseteq B, NEW x \in (B \cap D) \ A
      PROVE  Cardinality(B \cap D) >= Cardinality(A \cap D) + 1
  <2> DEFINE C == A \cap D
             E == B \cap D
  <2>1. IsFiniteSet(C) /\ Cardinality(C) \in Nat /\ IsFiniteSet(E) /\ Cardinality(E) \in Nat
    BY <1>5
  <2>2. x \notin C /\ C \cup {x} \in SUBSET E
    BY <1>6
  <2> HIDE DEF C, E
  <2>3. Cardinality(C \cup {x}) = Cardinality(C) + 1
    BY <2>1, <2>2, FS_AddElement
  <2>4. Cardinality(C \cup {x}) <= Cardinality(E)
    BY <2>1, <2>2, FS_Subset
  <2>5. Cardinality(E) >= Cardinality(C) + 1
    BY <2>1, <2>3, <2>4
  <2> QED BY <2>5 DEF C, E
<1>7. 0 \in P
  <2>1. SUFFICES ASSUME ~Closed(up[0]) PROVE Cardinality(up[0] \cap D) >= 0 + 1
    BY <1>3
  <2>2. PICK x \in up[0] : ~(ImportsOf(x) \subseteq up[0])
    BY <2>1 DEF Closed
  <2>3. x \in (up[0] \cap D) \ {}
    BY <2>2, <1>2
  <2>4. Cardinality(up[0] \cap D) >= Cardinality({} \cap D) + 1
    BY <2>3, <1>6
  <2>5. Cardinality({} \cap D) \in Nat /\ Cardinality(up[0] \cap D) \in Nat
    BY <1>5
  <2> QED BY <2>4, <2>5
<1>8. ASSUME NEW k \in 0 .. N - 1, k \in P PROVE k + 1 \in P
  <2> DEFINE A == up[k]
             B == up[k + 1]
  <2>1. k \in Nat /\ k + 1 \in Nat /\ B = Onward(A)
    BY <1>3
  <2>2. ImportsOf(m) \subseteq A /\ (Closed(A) \/ Cardinality(A \cap D) >= k + 1)
    BY <1>8
  <2> HIDE DEF A, B
  <2>3. A \subseteq B /\ \A x \in A : ImportsOf(x) \subseteq B
    BY <2>1 DEF Onward
  <2>4. ASSUME ~Closed(B) PROVE Cardinality(B \cap D) >= (k + 1) + 1
    <3>1. PICK x \in B : ~(ImportsOf(x) \subseteq B)
      BY <2>4 DEF Closed
    <3>2. x \in (B \cap D) \ A
      BY <3>1, <2>3, <1>2
    <3>3. ~Closed(A)
      <4>1. SUFFICES ASSUME Closed(A) PROVE FALSE
        OBVIOUS
      <4>2. B \subseteq A
        BY <4>1, <2>1 DEF Closed, Onward
      <4> QED BY <4>2, <3>2
    <3>4. Cardinality(B \cap D) >= Cardinality(A \cap D) + 1
      BY <3>2, <2>3, <1>6
    <3>5. Cardinality(A \cap D) \in Nat /\ Cardinality(B \cap D) \in Nat
      BY <1>5
    <3> QED BY <3>3, <3>4, <3>5, <2>1, <2>2
  <2>5. ImportsOf(m) \subseteq B /\ (Closed(B) \/ Cardinality(B \cap D) >= (k + 1) + 1)
    BY <2>2, <2>3, <2>4
  <2> QED BY <2>1, <2>5 DEF B
<1>9. N \in P
  <2> HIDE DEF P
  <2> QED BY <1>4, <1>7, <1>8, UpTo
<1>10. Cardinality(up[N] \cap D) <= N
  <2>1. up[N] \cap D \in SUBSET D
    OBVIOUS
  <2> QED BY <2>1, <1>2, FS_Subset DEF N
<1>11. Cardinality(up[N] \cap D) \in Nat
  BY <1>5
<1>12. Needs(m) = up[N]
  BY <1>1 DEF NeedsTurns, N, D
<1> QED BY <1>4, <1>9, <1>10, <1>11, <1>12

(* b is in whatever has a and the imports of what it has. *)
NeedOrder == {e \in Nat \X Nat : \A X : e[1] \in X /\ Closed(X) => e[2] \in X}
(* b is imported by a. *)
Import == {e \in Nat \X Nat : e[2] \in ImportsOf(e[1])}

(* That is an order, and an import goes along it. *)
LEMMA ReachOrders ==
  /\ Preorder(NeedOrder)
  /\ \A a, b \in Nat : <<a, b>> \in Import => <<a, b>> \in NeedOrder
<1>1. \A a, b \in Nat : <<a, b>> \in NeedOrder <=> \A X : a \in X /\ Closed(X) => b \in X
  BY DEF NeedOrder
<1>2. \A a, b \in Nat : <<a, b>> \in Import <=> b \in ImportsOf(a)
  BY DEF Import
<1>3. Preorder(NeedOrder)
  BY <1>1 DEF Preorder
<1> QED BY <1>1, <1>2, <1>3 DEF Closed

(* Modules that reach each other are of one component. *)
LEMMA SameComponent ==
  ASSUME declared \in Inputs, NEW m \in Nat, NEW k \in Nat, Same(NeedOrder, m, k)
  PROVE  k \in Component(m)
<1>1. \A a, b \in Nat : <<a, b>> \in NeedOrder <=> \A X : a \in X /\ Closed(X) => b \in X
  BY DEF NeedOrder
<1>2. ASSUME NEW a PROVE Closed({a} \cup Needs(a))
  BY NeedsClosed DEF Closed
<1>3. k \in {m} \cup Needs(m) /\ m \in {k} \cup Needs(k)
  BY <1>1, <1>2 DEF Same
<1> QED BY <1>3 DEF Component

-----------------------------------------------------------------------------
(* The invariant where no walk is under way. *)

(* Where makeBundles begins, nothing is inside a pair. *)
Flat(g) == [inner |-> {}, top |-> [x \in Nat |-> 0],
            rep |-> [x \in Nat |-> IF x \in Live(g) THEN g.node[x].value ELSE 0],
            rk |-> [x \in Nat |-> 0]]

(* makeBundles begins with the invariant: no pair is there. *)
LEMMA BeginSettles ==
  ASSUME IInv, EdgesAreImports, pc = "register", registered = Len(declared)
  PROVE  \E v : Settled(NeedOrder, Import, graph, v)
<1> DEFINE g == graph
           p == Pic(g, {})
           v == Flat(g)
<1>1. /\ declared \in Inputs /\ GraphOK(NodeValues, g) /\ Mapped(g, moduleMap)
      /\ \A a, b : Depends(Registered, a, b) <=> Linked(Len(declared), a, b)
  BY DEF IInv, TypeOK, GraphHolds, Registering, EdgesAreImports
<1>2. DOMAIN declared = 1 .. Len(declared)
  BY <1>1, DeclaredType
<1>3. \A a, b : Linked(Len(declared), a, b) <=> b \in ImportsOf(a)
  BY <1>2 DEF Linked, ImportsOf, Declares
<1>4. /\ \A x \in Live(g) : g.node[x].value \in Modules /\ g.node[x].value \in DOMAIN moduleMap
      /\ \A x \in Live(g) : moduleMap[g.node[x].value] = x
  BY <1>1 DEF Mapped
<1>5. ASSUME NEW x \in Live(g), NEW y \in Live(g)
      PROVE  y \in Waits(g, x) <=> g.node[y].value \in ImportsOf(g.node[x].value)
  <2>1. Depends(Registered, g.node[x].value, g.node[y].value) <=> y \in Waits(g, x)
    BY <1>4 DEF Depends, Registered
  <2> QED BY <2>1, <1>1, <1>3
<1>n. \A x \in Live(g) : g.node[x].value \in Nat /\ ~isHyperOpen(g, x) /\ ~isHyperClose(g, x)
  BY <1>4, ModulesAssumption, NoHyperModule DEF isHyperOpen, isHyperClose
<1>p. PicFacts(g, p)
  BY <1>1, PicFull
<1>v. /\ v.inner = {} /\ \A x \in Nat : v.top[x] = 0 /\ v.rk[x] = 0
      /\ \A x \in Nat : v.rep[x] = IF x \in Live(g) THEN g.node[x].value ELSE 0
  BY DEF Flat
<1>w. \A x \in Live(g) : Waits(g, x) \subseteq Live(g)
  BY <1>1, WaitsLive
<1>l. \A x \in Live(g) : x \in Nat \ {0}
  BY <1>1, LiveCells DEF GraphOK, Nil
<1> HIDE DEF g, p, v
<1>6. p.nodes = Live(g) /\ p.opens = {} /\ p.closes = {} /\ Plain(p) = Live(g)
      /\ \A x \in Live(g) : p.waits[x] = Waits(g, x) /\ p.name[x] = g.node[x].value
  BY <1>p, <1>n DEF PicFacts, Plain
<1>7. IsPicture(p)
  BY <1>6, <1>w, <1>l DEF IsPicture
<1>8. IsView(v)
  BY <1>v, <1>n DEF IsView
<1>9. InnerEdges(NeedOrder, p, v) /\ Tops(NeedOrder, p, v)
  BY <1>v, <1>6 DEF InnerEdges, Tops, Roots
<1>10. Reps(p, v)
  BY <1>v, <1>6, <1>l DEF Reps
<1>11. OuterEdges(NeedOrder, p, v)
  <2>1. SUFFICES ASSUME NEW x \in Live(g), NEW y \in Waits(g, x)
                 PROVE  <<v.rep[x], v.rep[y]>> \in NeedOrder
    BY <1>6, <1>v DEF OuterEdges, OuterEdge
  <2>2. y \in Live(g)
    BY <1>w
  <2>3. v.rep[x] = g.node[x].value /\ v.rep[y] = g.node[y].value /\ v.rep[x] \in Nat /\ v.rep[y] \in Nat
    BY <2>2, <1>v, <1>l, <1>n
  <2>4. <<v.rep[x], v.rep[y]>> \in Import
    BY <2>2, <2>3, <1>5 DEF Import
  <2> QED BY <2>3, <2>4, ReachOrders
<1>12. Covers(NeedOrder, Import, p, v)
  <2>1. SUFFICES ASSUME NEW x \in Live(g), NEW y \in Live(g), Imports(NeedOrder, Import, p, x, y)
                 PROVE  Reached(p, Up(v, x), y)
    BY <1>6 DEF Covers
  <2>2. g.node[y].value \in ImportsOf(g.node[x].value)
    BY <2>1, <1>6 DEF Imports, Import
  <2>3. y \in p.waits[x]
    BY <2>2, <1>5, <1>6
  <2>4. Leads(p, y, y)
    BY DEF Leads
  <2> QED BY <2>3, <2>4, <1>v, <1>6 DEF Reached, Up
<1>13. Lone(g, Live(g), v) /\ Headed(g, Live(g), v)
  BY <1>v DEF Lone, Headed
<1>14. Parked(g, v)
  BY <1>n DEF Parked, Blocked
<1>15. Settled(NeedOrder, Import, g, v)
  BY <1>7, <1>8, <1>9, <1>10, <1>11, <1>12, <1>13, <1>14 DEF Settled, Shape, p
<1> QED BY <1>15 DEF g

(* What is taken imports what was taken, or modules of its own component. *)
LEMMA TakenImports ==
  ASSUME IInv, pc = "solve", NEW v, Settled(NeedOrder, Import, graph, v), NEW n \in Pending(graph),
         ~isHyperOpen(graph, n), ~isHyperClose(graph, n), NEW m, m = graph.node[n].value
  PROVE  ImportsOf(m) \subseteq Component(m) \cup ToSet(moduleOrder)
<1> DEFINE g == graph
           p == Pic(g, {})
<1>1. /\ declared \in Inputs /\ GraphOK(NodeValues, g)
      /\ NodeModules(g) \cup ToSet(moduleOrder) = Mentioned
  BY DEF IInv, TypeOK, GraphHolds, EachOnce
<1>2. SUFFICES ASSUME NEW k \in ImportsOf(m), k \notin ToSet(moduleOrder) PROVE k \in Component(m)
  OBVIOUS
<1>3. n \in Live(g) /\ Waits(g, n) = {}
  BY <1>1, WaitsLive DEF Pending
<1>4. k \in NodeModules(g)
  <2>1. DOMAIN declared = 1 .. Len(declared)
    BY <1>1, DeclaredType
  <2>2. k \in Mentioned
    BY <2>1, <1>2 DEF ImportsOf, Declares, Mentioned, MentionedBy
  <2> QED BY <2>2, <1>1, <1>2
<1>5. PICK y \in Live(g) : g.node[y].value = k
  BY <1>4 DEF NodeModules
<1>6. ~isHyperOpen(g, y) /\ ~isHyperClose(g, y)
  BY <1>4, <1>5 DEF NodeModules, isHyperOpen, isHyperClose
<1>7. m \in Nat /\ k \in Nat
  <2>1. m \in NodeValues /\ k \in NodeValues
    BY <1>1, <1>3, <1>5, NodeValue
  <2> QED BY <2>1, <1>4, ModulesAssumption DEF NodeValues, NodeModules, isHyperOpen, isHyperClose
<1>p. PicFacts(g, p)
  BY <1>1, PicFull
<1>8. Held(p, v) /\ Covers(NeedOrder, Import, p, v)
  BY <1>1, SettledHeld DEF Settled
<1> HIDE DEF g, p
<1>9. n \in Plain(p) /\ y \in Plain(p) /\ p.name[n] = m /\ p.name[y] = k /\ p.waits[n] = {} /\ n \in p.nodes
  <2>1. m = g.node[n].value
    BY DEF g
  <2>2. ~isHyperOpen(g, n) /\ ~isHyperClose(g, n)
    BY DEF g
  <2> QED BY <2>1, <2>2, <1>p, <1>3, <1>5, <1>6 DEF PicFacts, Plain
<1>10. Same(NeedOrder, m, k)
  <2>1. SUFFICES ASSUME ~Same(NeedOrder, m, k) PROVE FALSE
    OBVIOUS
  <2>2. <<m, k>> \in Import
    BY <1>2, <1>7 DEF Import
  <2>3. Reached(p, Up(v, n), y)
    BY <2>1, <2>2, <1>8, <1>9 DEF Covers, Imports
  <2>4. Up(v, n) \in p.nodes /\ p.waits[Up(v, n)] # {}
    BY <2>3 DEF Reached
  <2>5. n \in v.inner /\ v.top[n] \in p.nodes
    BY <2>4, <1>9 DEF Up
  <2>6. 0 \notin p.nodes
    BY <1>1, <1>p, LiveCells DEF PicFacts, GraphOK, Nil, g
  <2> QED BY <2>5, <2>6, <1>8, <1>9 DEF Held
<1> QED BY <1>1, <1>7, <1>10, SameComponent

-----------------------------------------------------------------------------
(* The inductive invariant. *)

(* Where no walk is under way, there is a view the graph is settled in. *)
BetweenWalks == pc \in {"loop", "solve"} => \E v : Settled(NeedOrder, Import, graph, v)
(* During a walk there is one the walk goes on in. *)
DuringWalk ==
  pc = "walk" =>
    /\ solving = [open |-> solving.open, close |-> solving.close, at |-> solving.at, front |-> solving.front]
    /\ \E v : Walked(NeedOrder, Import, graph, v, solving.open, solving.close, solving.at, solving.front)
(* After it there is one the cycle can be contracted in. *)
AfterWalk == pc = "rehang" => \E v : Ready(NeedOrder, Import, graph, v, solving.open, solving.close)
(* What holds wherever solveCycle is. *)
Cycles == BetweenWalks /\ DuringWalk /\ AfterWalk

(* The inductive invariant. *)
OrderInv == IInv /\ ImportsFirst /\ EdgesAreImports /\ Cycles

(* The order is that of the input. *)
LEMMA SameReach ==
  ASSUME declared' = declared
  PROVE  NeedOrder' = NeedOrder /\ Import' = Import
BY DEF NeedOrder, Import, Closed, ImportsOf, Declares

(* Steps that take no module. *)
LEMMA SameOrder ==
  ASSUME ImportsFirst, declared' = declared, moduleOrder' = moduleOrder
  PROVE  ImportsFirst'
<1>1. \A m : Component(m)' = Component(m)
  BY DEF Component, Needs, ImportsOf, Declares, Declared
<1>2. \A m : ImportsOf(m)' = ImportsOf(m)
  BY DEF ImportsOf, Declares
<1> QED BY <1>1, <1>2 DEF ImportsFirst

(* The invariant holds at first. *)
LEMMA OrderBegins ==
  ASSUME Init
  PROVE  OrderInv
<1>1. IInv
  BY InitHolds
<1>2. ImportsFirst
  BY DEF Init, ImportsFirst
<1>3. EdgesAreImports
  <2>1. DOMAIN moduleMap = {} /\ registered = 0
    BY DEF Init
  <2> QED BY <2>1 DEF EdgesAreImports, Depends, Registered, Linked
<1>4. Cycles
  BY DEF Init, Cycles, BetweenWalks, DuringWalk, AfterWalk
<1> QED BY <1>1, <1>2, <1>3, <1>4 DEF OrderInv

(* Steps that leave the graph alone. *)
LEMMA QuietOrder ==
  ASSUME OrderInv, NoModules \/ Boundary \/ WalkOff \/ MakeBundles
  PROVE  Cycles'
<1>1. UNCHANGED <<declared, graph, solving>>
  BY DEF NoModules, Boundary, WalkOff, MakeBundles
<1>2. pc' \in {"ordered", "solve", "crashed", "built"} /\ (pc' = "solve" => pc = "loop")
  BY DEF NoModules, Boundary, WalkOff, MakeBundles
<1>3. BetweenWalks'
  <2>1. SUFFICES ASSUME pc' = "solve" PROVE \E v : Settled(NeedOrder', Import', graph', v)
    BY <1>2 DEF BetweenWalks
  <2>2. \E v : Settled(NeedOrder, Import, graph, v)
    BY <2>1, <1>2 DEF OrderInv, Cycles, BetweenWalks
  <2> QED BY <2>2, <1>1, SameReach
<1> QED BY <1>2, <1>3 DEF Cycles, DuringWalk, AfterWalk

(* The registered graph has the view of BeginSettles. *)
LEMMA BeginOrder ==
  ASSUME OrderInv, Begin
  PROVE  Cycles'
<1>1. UNCHANGED <<declared, graph>> /\ pc = "register" /\ registered = Len(declared) /\ pc' = "loop"
  BY DEF Begin
<1>2. \E v : Settled(NeedOrder, Import, graph, v)
  BY <1>1, BeginSettles DEF OrderInv
<1>3. \E v : Settled(NeedOrder', Import', graph', v)
  BY <1>1, <1>2, SameReach
<1> QED BY <1>1, <1>3 DEF Cycles, BetweenWalks, DuringWalk, AfterWalk

(* A node is taken: a hyper node, or a module all of whose imports were    *)
(* taken or are of its component.                                          *)
LEMMA TakeTopOrder ==
  ASSUME OrderInv, TakeTop
  PROVE  Cycles' /\ ImportsFirst'
<1> DEFINE n == top(graph)
           g == pop(graph, n)
           m == g.node[n].value
<1>1. /\ pc = "solve" /\ ~isCyclic(graph) /\ graph' = g
      /\ moduleOrder' = IF isHyperOpen(g, n) \/ isHyperClose(g, n) THEN moduleOrder
                        ELSE Append(moduleOrder, m)
      /\ pc' \in {"loop", "ordered"} /\ declared' = declared
  BY DEF TakeTop
<1>2. GraphOK(NodeValues, graph) /\ Live(graph) # {} /\ moduleOrder \in Seq(Modules) /\ IInv
  BY <1>1 DEF OrderInv, IInv, GraphHolds, Left, TypeOK
<1>3. n \in Pending(graph) /\ n \in Live(graph)
  <2>1. graph.pendings # Nil
    BY <1>1, <1>2, HeadsOf DEF isCyclic, empty
  <2> QED BY <2>1, <1>2, HeadsOf DEF top
<1>4. PICK v : Settled(NeedOrder, Import, graph, v)
  BY <1>1 DEF OrderInv, Cycles, BetweenWalks
<1>5. Popped(NodeValues, graph, g, n)
  BY <1>2, <1>3, PopDoes
<1>6. m = graph.node[n].value
  BY <1>2, <1>3, <1>5, PoppedTaken DEF Taken
<1>g. g = pop(graph, n)
  OBVIOUS
<1>m. m = g.node[n].value
  OBVIOUS
<1> HIDE DEF n, g, m
<1>7. \E w : Settled(NeedOrder, Import, g, w)
  <2> DEFINE w == Released(Pic(graph, {}), v, n)
  <2>1. w = Released(Pic(graph, {}), v, n)
    OBVIOUS
  <2> HIDE DEF w
  <2>2. Settled(NeedOrder, Import, g, w)
    BY <2>1, <1>2, <1>3, <1>4, <1>g, PopSettles
  <2> QED BY <2>2
<1>8. Cycles'
  <2>1. \E w : Settled(NeedOrder', Import', graph', w)
    BY <1>1, <1>7, SameReach
  <2> QED BY <2>1, <1>1 DEF Cycles, BetweenWalks, DuringWalk, AfterWalk
<1>9. ImportsFirst'
  <2>1. CASE isHyperOpen(g, n) \/ isHyperClose(g, n)
    BY <2>1, <1>1, SameOrder DEF OrderInv
  <2>2. CASE ~(isHyperOpen(g, n) \/ isHyperClose(g, n))
    <3> DEFINE N == Len(moduleOrder)
               order == Append(moduleOrder, m)
    <3>1. N \in Nat /\ DOMAIN moduleOrder = 1 .. N /\ DOMAIN order = 1 .. N + 1
          /\ order[N + 1] = m /\ \A i \in 1 .. N : order[i] = moduleOrder[i]
      BY <1>2
    <3>2. moduleOrder' = order
      BY <2>2, <1>1
    <3>n. order = Append(moduleOrder, m)
      OBVIOUS
    <3> HIDE DEF N, order
    <3>3. ImportsOf(m) \subseteq Component(m) \cup ToSet(moduleOrder)
      <4>1. ~isHyperOpen(graph, n) /\ ~isHyperClose(graph, n)
        BY <2>2, <1>6, <1>m DEF isHyperOpen, isHyperClose
      <4> QED BY <4>1, <1>1, <1>2, <1>3, <1>4, <1>6, TakenImports
    <3>4. ASSUME NEW j \in 1 .. N + 1
          PROVE  ImportsOf(order[j]) \subseteq Component(order[j]) \cup {order[k] : k \in 1 .. j - 1}
      <4>1. CASE j = N + 1
        <5>1. ToSet(moduleOrder) \subseteq {order[k] : k \in 1 .. N}
          BY <3>1 DEF ToSet
        <5>2. j - 1 = N
          BY <4>1, <3>1
        <5> QED BY <5>1, <5>2, <4>1, <3>1, <3>3
      <4>2. CASE j \in 1 .. N
        <5>1. ImportsOf(moduleOrder[j]) \subseteq
                Component(moduleOrder[j]) \cup {moduleOrder[k] : k \in 1 .. j - 1}
          BY <4>2, <3>1 DEF OrderInv, ImportsFirst
        <5>2. \A k \in 1 .. j - 1 : order[k] = moduleOrder[k]
          BY <4>2, <3>1
        <5>3. {moduleOrder[k] : k \in 1 .. j - 1} = {order[k] : k \in 1 .. j - 1}
          BY <5>2
        <5>4. order[j] = moduleOrder[j]
          BY <4>2, <3>1
        <5> QED BY <5>1, <5>3, <5>4
      <4> QED BY <4>1, <4>2, <3>1
    <3>5. \A k : Component(k)' = Component(k)
      BY <1>1 DEF Component, Needs, ImportsOf, Declares, Declared
    <3>6. \A k : ImportsOf(k)' = ImportsOf(k)
      BY <1>1 DEF ImportsOf, Declares
    <3> QED BY <3>1, <3>2, <3>4, <3>5, <3>6 DEF ImportsFirst
  <2> QED BY <2>1, <2>2
<1> QED BY <1>8, <1>9

-----------------------------------------------------------------------------
(* The steps of solveCycle keep it. *)

(* A walk begins. *)
LEMMA OpenCycleOrder ==
  ASSUME OrderInv, OpenCycle
  PROVE  Cycles'
<1> DEFINE g == graph
           a == makeNode(g, HyperOpen)
           h == makeNode(a, HyperClose)
           o == a.pendings
           c == h.pendings
           at == g.blockeds
           front == Nil
<1>1. /\ pc = "solve" /\ isCyclic(g) /\ pc' = "walk" /\ graph' = h /\ declared' = declared
      /\ solving' = [open |-> o, close |-> c, at |-> at, front |-> front]
  BY DEF OpenCycle
<1>2. GraphOK(NodeValues, g) /\ HyperOpen \in NodeValues /\ HyperClose \in NodeValues
  BY DEF OrderInv, IInv, GraphHolds, NodeValues
<1>3. PICK v : Settled(NeedOrder, Import, g, v)
  BY <1>1 DEF OrderInv, Cycles, BetweenWalks
<1>4. Pending(g) = {} /\ at # Nil
  BY <1>1, <1>2, HeadsOf DEF isCyclic, empty
<1>5. Walked(NeedOrder, Import, h, v, o, c, at, front)
  BY <1>2, <1>3, <1>4, OpenWalks
<1> HIDE DEF g, a, h, o, c, at, front
<1>6. /\ solving'.open = o /\ solving'.close = c /\ solving'.at = at /\ solving'.front = front
      /\ solving' = [open |-> solving'.open, close |-> solving'.close, at |-> solving'.at, front |-> solving'.front]
  BY <1>1
<1>7. NeedOrder' = NeedOrder /\ Import' = Import
  BY <1>1, SameReach
<1> QED BY <1>1, <1>5, <1>6, <1>7 DEF Cycles, BetweenWalks, DuringWalk, AfterWalk

(* A node is flagged. *)
LEMMA VisitOrder ==
  ASSUME OrderInv, Visit
  PROVE  Cycles'
<1> DEFINE g == graph
           n == solving.at
           h == SetFlag(g, n, TRUE)
           d == FirstOf(g, n)
           o == solving.open
           c == solving.close
           front == solving.front
<1>1. /\ pc = "walk" /\ pc' = pc /\ ~isPending(g, n) /\ ~g.node[n].withinCycle /\ graph' = h
      /\ solving' = [solving EXCEPT !.at = d] /\ declared' = declared
  BY DEF Visit, Walking, SetFlag, FirstDependee, FirstOf
<1>2. GraphOK(NodeValues, g)
  BY DEF OrderInv, IInv, GraphHolds
<1>3. /\ solving = [open |-> o, close |-> c, at |-> n, front |-> front]
      /\ \E v : Walked(NeedOrder, Import, g, v, o, c, n, front)
  BY <1>1 DEF OrderInv, Cycles, DuringWalk
<1>4. PICK v : Walked(NeedOrder, Import, g, v, o, c, n, front)
  BY <1>3
<1>h. h = SetFlag(g, n, TRUE) /\ d = FirstOf(g, n)
  OBVIOUS
<1> HIDE DEF g, n, h, d, o, c, front
<1>5. Walked(NeedOrder, Import, h, v, o, c, d, front)
  BY <1>1, <1>2, <1>4, <1>h, ReachOrders, VisitWalks
<1>6. /\ solving'.open = o /\ solving'.close = c /\ solving'.at = d /\ solving'.front = front
      /\ solving' = [open |-> solving'.open, close |-> solving'.close, at |-> solving'.at, front |-> solving'.front]
  BY <1>1, <1>3
<1>7. NeedOrder' = NeedOrder /\ Import' = Import
  BY <1>1, SameReach
<1> QED BY <1>1, <1>5, <1>6, <1>7 DEF Cycles, BetweenWalks, DuringWalk, AfterWalk

(* A node is strung. *)
LEMMA RevisitOrder ==
  ASSUME OrderInv, Revisit
  PROVE  Cycles'
<1> DEFINE g == graph
           n == solving.at
           o == solving.open
           c == solving.close
           front == solving.front
           a == attach(g, c, n)
           b == attach(a, n, o)
           e == FirstDependee(g, n)
           k == detach(b, e)
           h == SetFlag(k, n, FALSE)
           d == dependee(g, e)
           front2 == IF front = Nil THEN n ELSE front
<1>1. /\ pc = "walk" /\ pc' = pc /\ ~isPending(g, n) /\ graph' = h
      /\ front = Nil \/ n # front
      /\ solving' = [solving EXCEPT !.at = d, !.front = front2] /\ declared' = declared
  BY DEF Revisit, Walking, SetFlag
<1>2. GraphOK(NodeValues, g) /\ Clean(g, "pendings")
  BY <1>1 DEF OrderInv, IInv, GraphHolds
<1>3. /\ solving = [open |-> o, close |-> c, at |-> n, front |-> front]
      /\ \E v : Walked(NeedOrder, Import, g, v, o, c, n, front)
  BY <1>1 DEF OrderInv, Cycles, DuringWalk
<1>4. PICK v : Walked(NeedOrder, Import, g, v, o, c, n, front)
  BY <1>3
<1>a. a = attach(g, c, n) /\ b = attach(a, n, o)
  OBVIOUS
<1>e. e = FirstDependee(g, n) /\ k = detach(b, e)
  OBVIOUS
<1>h. h = SetFlag(k, n, FALSE) /\ d = dependee(g, e)
  OBVIOUS
<1>f. front2 = IF front = Nil THEN n ELSE front
  OBVIOUS
<1>r. Preorder(NeedOrder)
  BY ReachOrders
<1> HIDE DEF g, n, o, c, front, a, b, e, k, h, d, front2
<1>5. Walked(NeedOrder, Import, h, v, o, c, d, front2)
  BY <1>1, <1>2, <1>4, <1>a, <1>e, <1>h, <1>f, <1>r, RevisitWalksOn
<1>6. /\ solving'.open = o /\ solving'.close = c /\ solving'.at = d /\ solving'.front = front2
      /\ solving' = [open |-> solving'.open, close |-> solving'.close, at |-> solving'.at, front |-> solving'.front]
  BY <1>1, <1>3
<1>7. NeedOrder' = NeedOrder /\ Import' = Import
  BY <1>1, SameReach
<1> QED BY <1>1, <1>5, <1>6, <1>7 DEF Cycles, BetweenWalks, DuringWalk, AfterWalk

(* The walk came back. *)
LEMMA EndWalkOrder ==
  ASSUME OrderInv, EndWalk
  PROVE  Cycles'
<1> DEFINE g == graph
           o == solving.open
           c == solving.close
           at == solving.at
           front == solving.front
<1>1. /\ pc = "walk" /\ pc' = "rehang" /\ UNCHANGED <<graph, declared, solving>> /\ front = at
  BY DEF EndWalk, Walking
<1>2. GraphOK(NodeValues, g)
  BY DEF OrderInv, IInv, GraphHolds
<1>3. PICK v : Walked(NeedOrder, Import, g, v, o, c, at, front)
  BY <1>1 DEF OrderInv, Cycles, DuringWalk
<1> HIDE DEF g, o, c, at, front
<1>4. Ready(NeedOrder, Import, g, v, o, c)
  BY <1>1, <1>2, <1>3, ReachOrders, WalkComesBack
<1>5. NeedOrder' = NeedOrder /\ Import' = Import
  BY <1>1, SameReach
<1> QED BY <1>1, <1>4, <1>5 DEF Cycles, BetweenWalks, DuringWalk, AfterWalk, g, o, c

(* The cycle is contracted. *)
LEMMA RehangOrder ==
  ASSUME OrderInv, Rehang
  PROVE  Cycles'
<1> DEFINE g == graph
           o == solving.open
           c == solving.close
           h == attach(RehangAll(g, dependers(g, o)), c, o)
<1>1. pc = "rehang" /\ pc' = "solve" /\ graph' = h /\ declared' = declared
  BY DEF Rehang
<1>2. GraphOK(NodeValues, g) /\ Clean(g, "pendings")
  BY <1>1 DEF OrderInv, IInv, GraphHolds
<1>3. PICK v : Ready(NeedOrder, Import, g, v, o, c)
  BY <1>1 DEF OrderInv, Cycles, AfterWalk
<1>4. \E w : Settled(NeedOrder, Import, h, w)
  BY <1>2, <1>3, ReachOrders, RehangSettles
<1> HIDE DEF g, o, c, h
<1>5. NeedOrder' = NeedOrder /\ Import' = Import
  BY <1>1, SameReach
<1> QED BY <1>1, <1>4, <1>5 DEF Cycles, BetweenWalks, DuringWalk, AfterWalk

-----------------------------------------------------------------------------
(* The theorems. *)

(* Every step keeps the invariant. *)
LEMMA OrderStays ==
  ASSUME OrderInv, [Next]_vars
  PROVE  OrderInv'
<1>1. IInv'
  BY NextHolds DEF OrderInv
<1>2. declared' = declared
  BY DEF Next, Solve, Over, vars, RegisterModule, NoModules, Begin, Boundary, TakeTop, OpenCycle,
         Visit, Revisit, WalkOff, EndWalk, Rehang, MakeBundles
<1>3. CASE RegisterModule
  <2>1. EdgesAreImports'
    BY <1>3, RegisterEdges DEF OrderInv
  <2>2. moduleOrder' = moduleOrder /\ pc' = "register"
    BY <1>3 DEF RegisterModule
  <2>3. ImportsFirst'
    BY <1>2, <2>2, SameOrder DEF OrderInv
  <2>4. Cycles'
    BY <2>2 DEF Cycles, BetweenWalks, DuringWalk, AfterWalk
  <2> QED BY <1>1, <2>1, <2>3, <2>4 DEF OrderInv
<1>4. CASE NoModules \/ Begin \/ Boundary \/ Solve \/ MakeBundles
  <2>1. moduleOrder' = moduleOrder /\ pc' # "register"
    BY <1>4 DEF NoModules, Begin, Boundary, Solve, OpenCycle, Visit, Revisit, WalkOff, EndWalk, Rehang,
                MakeBundles, Walking
  <2>2. ImportsFirst'
    BY <1>2, <2>1, SameOrder DEF OrderInv
  <2>3. EdgesAreImports'
    BY <2>1 DEF EdgesAreImports
  <2>4. Cycles'
    <3>1. CASE NoModules \/ Boundary \/ WalkOff \/ MakeBundles
      BY <3>1, QuietOrder
    <3>2. CASE Begin
      BY <3>2, BeginOrder
    <3>3. CASE OpenCycle
      BY <3>3, OpenCycleOrder
    <3>4. CASE Visit
      BY <3>4, VisitOrder
    <3>5. CASE Revisit
      BY <3>5, RevisitOrder
    <3>6. CASE EndWalk
      BY <3>6, EndWalkOrder
    <3>7. CASE Rehang
      BY <3>7, RehangOrder
    <3> QED BY <1>4, <3>1, <3>2, <3>3, <3>4, <3>5, <3>6, <3>7 DEF Solve
  <2> QED BY <1>1, <2>2, <2>3, <2>4 DEF OrderInv
<1>5. CASE TakeTop
  <2>1. Cycles' /\ ImportsFirst'
    BY <1>5, TakeTopOrder
  <2>2. EdgesAreImports'
    BY <1>5 DEF TakeTop, EdgesAreImports
  <2> QED BY <1>1, <2>1, <2>2 DEF OrderInv
<1>6. CASE UNCHANGED vars
  <2>1. UNCHANGED <<declared, registered, graph, moduleMap, moduleOrder, solving, pc>>
    BY <1>6 DEF vars
  <2>2. ImportsFirst'
    BY <2>1, SameOrder DEF OrderInv
  <2>3. EdgesAreImports'
    <3>1. Registered' = Registered
      BY <2>1 DEF Registered
    <3>2. \A a, b : Linked(registered, a, b)' <=> Linked(registered, a, b)
      BY <2>1 DEF Linked
    <3>3. \A a, b : Depends(Registered', a, b) <=> Depends(Registered, a, b)
      BY <3>1
    <3>4. pc = "register" => \A a, b : Depends(Registered', a, b) <=> Linked(registered, a, b)'
      BY <3>2, <3>3 DEF OrderInv, EdgesAreImports
    <3> QED BY <3>4, <2>1 DEF EdgesAreImports, Depends, Registered
  <2>4. NeedOrder' = NeedOrder /\ Import' = Import
    BY <2>1, SameReach
  <2>5. Cycles'
    BY <2>1, <2>4 DEF OrderInv, Cycles, BetweenWalks, DuringWalk, AfterWalk
  <2> QED BY <1>1, <2>2, <2>3, <2>5 DEF OrderInv
<1>7. CASE Over
  BY <1>6, <1>7 DEF Over
<1> QED BY <1>3, <1>4, <1>5, <1>6, <1>7 DEF Next

(* The inductive invariant holds after every step: whatever cycles         *)
(* solveCycle makes into pairs, one in another, the edges that are left    *)
(* still order the modules (TGraph::solveCycle, ImportGraph::makeBundles). *)
THEOREM OrderInvariance == Spec => []OrderInv
<1>1. Init => OrderInv
  BY OrderBegins
<1>2. OrderInv /\ [Next]_vars => OrderInv'
  BY OrderStays
<1> QED BY <1>1, <1>2, PTL DEF Spec

(* When makeBundles appends a module to moduleOrder, everything the module *)
(* imports is there already, but for the modules that need it in turn      *)
(* (ImportGraph::makeBundles).                                             *)
THEOREM ImportsAlwaysFirst == Spec => []ImportsFirst
<1>1. OrderInv => ImportsFirst
  BY DEF OrderInv
<1> QED BY <1>1, OrderInvariance, PTL

=============================================================================
