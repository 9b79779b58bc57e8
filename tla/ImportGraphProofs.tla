-------------------------- MODULE ImportGraphProofs -------------------------
(***************************************************************************)
(* Theorems of ImportGraph, for every set of modules and every input: the  *)
(* lists of the graph agree after every step, and each module the input    *)
(* mentions is taken exactly once.                                         *)
(***************************************************************************)
EXTENDS ImportGraph, TopoGraphWaits

-----------------------------------------------------------------------------
(* The loops of the code, as functions from the turn to the graph. *)

(* The graph after each turn of makeDependencies. *)
MakeDependenciesTurns(s, m0, edges, after) ==
  /\ makeDependencies(s, m0, edges) = after[Len(edges)]
  /\ after[0] = s
  /\ \A k \in 1 .. Len(edges) : after[k] = makeDependency(after[k - 1], m0, edges[k])

(* The recursive function of makeDependencies is such a one. *)
LEMMA MakeDependenciesShape ==
  ASSUME NEW s, NEW m0, NEW edges, Len(edges) \in Nat
  PROVE  \E after : MakeDependenciesTurns(s, m0, edges, after)
<1> DEFINE N == Len(edges)
           Is(h, m) == h = [k \in 0 .. m |-> IF k = 0 THEN s ELSE makeDependency(h[k - 1], m0, edges[k])]
           P == {m \in Nat : \E h : Is(h, m)}
           after == CHOOSE h : Is(h, N)
<1>1. makeDependencies(s, m0, edges) = after[N]
  BY DEF makeDependencies
<1>2. 0 \in P
  <2>1. Is([k \in 0 .. 0 |-> s], 0)
    OBVIOUS
  <2> QED BY <2>1
<1>3. ASSUME NEW m \in 0 .. N - 1, m \in P PROVE m + 1 \in P
  <2>1. PICK h : Is(h, m)
    BY <1>3
  <2> DEFINE q == [k \in 0 .. m + 1 |-> IF k = m + 1 THEN makeDependency(h[m], m0, edges[m + 1]) ELSE h[k]]
  <2>2. m \in Nat /\ \A k \in 0 .. m : h[k] = IF k = 0 THEN s ELSE makeDependency(h[k - 1], m0, edges[k])
    BY <2>1
  <2>3. (\A k \in 0 .. m : q[k] = h[k]) /\ q[m + 1] = makeDependency(h[m], m0, edges[m + 1])
    BY <2>2
  <2>4. q = [k \in 0 .. m + 1 |-> q[k]]
    OBVIOUS
  <2> HIDE DEF q
  <2>5. \A k \in 0 .. m + 1 : q[k] = IF k = 0 THEN s ELSE makeDependency(q[k - 1], m0, edges[k])
    BY <2>2, <2>3
  <2>6. Is(q, m + 1)
    BY <2>4, <2>5
  <2> QED BY <2>2, <2>6
<1>4. N \in P
  <2> HIDE DEF P
  <2>1. 0 .. N \subseteq P
    BY <1>2, <1>3, UpTo
  <2> QED BY <2>1
<1>5. Is(after, N)
  BY <1>4
<1> HIDE DEF after
<1>6. after[0] = s /\ \A k \in 1 .. N : after[k] = makeDependency(after[k - 1], m0, edges[k])
  BY <1>5
<1>7. MakeDependenciesTurns(s, m0, edges, after)
  BY <1>1, <1>6 DEF MakeDependenciesTurns
<1>8. QED
  BY <1>7

(* After each turn of attachDetachDependees. *)
MoveDependeesTurns(g, n, edges, after) ==
  /\ attachDetachDependees(g, n, edges) = after[Len(edges)]
  /\ after[0] = g
  /\ \A k \in 1 .. Len(edges) : after[k] = MoveDependee(after[k - 1], n, edges[k])

(* So is that of attachDetachDependees. *)
LEMMA MoveDependeesShape ==
  ASSUME NEW g, NEW n, NEW edges, Len(edges) \in Nat
  PROVE  \E after : MoveDependeesTurns(g, n, edges, after)
<1> DEFINE N == Len(edges)
           Is(h, m) == h = [k \in 0 .. m |-> IF k = 0 THEN g ELSE MoveDependee(h[k - 1], n, edges[k])]
           P == {m \in Nat : \E h : Is(h, m)}
           after == CHOOSE h : Is(h, N)
<1>1. attachDetachDependees(g, n, edges) = after[N]
  BY DEF attachDetachDependees
<1>2. 0 \in P
  <2>1. Is([k \in 0 .. 0 |-> g], 0)
    OBVIOUS
  <2> QED BY <2>1
<1>3. ASSUME NEW m \in 0 .. N - 1, m \in P PROVE m + 1 \in P
  <2>1. PICK h : Is(h, m)
    BY <1>3
  <2> DEFINE q == [k \in 0 .. m + 1 |-> IF k = m + 1 THEN MoveDependee(h[m], n, edges[m + 1]) ELSE h[k]]
  <2>2. m \in Nat /\ \A k \in 0 .. m : h[k] = IF k = 0 THEN g ELSE MoveDependee(h[k - 1], n, edges[k])
    BY <2>1
  <2>3. (\A k \in 0 .. m : q[k] = h[k]) /\ q[m + 1] = MoveDependee(h[m], n, edges[m + 1])
    BY <2>2
  <2>4. q = [k \in 0 .. m + 1 |-> q[k]]
    OBVIOUS
  <2> HIDE DEF q
  <2>5. \A k \in 0 .. m + 1 : q[k] = IF k = 0 THEN g ELSE MoveDependee(q[k - 1], n, edges[k])
    BY <2>2, <2>3
  <2>6. Is(q, m + 1)
    BY <2>4, <2>5
  <2> QED BY <2>2, <2>6
<1>4. N \in P
  <2> HIDE DEF P
  <2>1. 0 .. N \subseteq P
    BY <1>2, <1>3, UpTo
  <2> QED BY <2>1
<1>5. Is(after, N)
  BY <1>4
<1> HIDE DEF after
<1>6. after[0] = g /\ \A k \in 1 .. N : after[k] = MoveDependee(after[k - 1], n, edges[k])
  BY <1>5
<1>7. MoveDependeesTurns(g, n, edges, after)
  BY <1>1, <1>6 DEF MoveDependeesTurns
<1>8. QED
  BY <1>7

(* After each turn of attachDetachDependers. *)
MoveDependersTurns(g, n, edges, after) ==
  /\ attachDetachDependers(g, n, edges) = after[Len(edges)]
  /\ after[0] = g
  /\ \A k \in 1 .. Len(edges) : after[k] = MoveDepender(after[k - 1], n, edges[k])

(* So is that of attachDetachDependers. *)
LEMMA MoveDependersShape ==
  ASSUME NEW g, NEW n, NEW edges, Len(edges) \in Nat
  PROVE  \E after : MoveDependersTurns(g, n, edges, after)
<1> DEFINE N == Len(edges)
           Is(h, m) == h = [k \in 0 .. m |-> IF k = 0 THEN g ELSE MoveDepender(h[k - 1], n, edges[k])]
           P == {m \in Nat : \E h : Is(h, m)}
           after == CHOOSE h : Is(h, N)
<1>1. attachDetachDependers(g, n, edges) = after[N]
  BY DEF attachDetachDependers
<1>2. 0 \in P
  <2>1. Is([k \in 0 .. 0 |-> g], 0)
    OBVIOUS
  <2> QED BY <2>1
<1>3. ASSUME NEW m \in 0 .. N - 1, m \in P PROVE m + 1 \in P
  <2>1. PICK h : Is(h, m)
    BY <1>3
  <2> DEFINE q == [k \in 0 .. m + 1 |-> IF k = m + 1 THEN MoveDepender(h[m], n, edges[m + 1]) ELSE h[k]]
  <2>2. m \in Nat /\ \A k \in 0 .. m : h[k] = IF k = 0 THEN g ELSE MoveDepender(h[k - 1], n, edges[k])
    BY <2>1
  <2>3. (\A k \in 0 .. m : q[k] = h[k]) /\ q[m + 1] = MoveDepender(h[m], n, edges[m + 1])
    BY <2>2
  <2>4. q = [k \in 0 .. m + 1 |-> q[k]]
    OBVIOUS
  <2> HIDE DEF q
  <2>5. \A k \in 0 .. m + 1 : q[k] = IF k = 0 THEN g ELSE MoveDepender(q[k - 1], n, edges[k])
    BY <2>2, <2>3
  <2>6. Is(q, m + 1)
    BY <2>4, <2>5
  <2> QED BY <2>2, <2>6
<1>4. N \in P
  <2> HIDE DEF P
  <2>1. 0 .. N \subseteq P
    BY <1>2, <1>3, UpTo
  <2> QED BY <2>1
<1>5. Is(after, N)
  BY <1>4
<1> HIDE DEF after
<1>6. after[0] = g /\ \A k \in 1 .. N : after[k] = MoveDepender(after[k - 1], n, edges[k])
  BY <1>5
<1>7. MoveDependersTurns(g, n, edges, after)
  BY <1>1, <1>6 DEF MoveDependersTurns
<1>8. QED
  BY <1>7

(* After each turn of the outer loop. *)
RehangAllTurns(g, edges, after) ==
  /\ RehangAll(g, edges) = after[Len(edges)]
  /\ after[0] = g
  /\ \A k \in 1 .. Len(edges) : after[k] = RehangNode(after[k - 1], edges[k])

(* So is that of the outer loop. *)
LEMMA RehangAllShape ==
  ASSUME NEW g, NEW edges, Len(edges) \in Nat
  PROVE  \E after : RehangAllTurns(g, edges, after)
<1> DEFINE N == Len(edges)
           Is(h, m) == h = [k \in 0 .. m |-> IF k = 0 THEN g ELSE RehangNode(h[k - 1], edges[k])]
           P == {m \in Nat : \E h : Is(h, m)}
           after == CHOOSE h : Is(h, N)
<1>1. RehangAll(g, edges) = after[N]
  BY DEF RehangAll
<1>2. 0 \in P
  <2>1. Is([k \in 0 .. 0 |-> g], 0)
    OBVIOUS
  <2> QED BY <2>1
<1>3. ASSUME NEW m \in 0 .. N - 1, m \in P PROVE m + 1 \in P
  <2>1. PICK h : Is(h, m)
    BY <1>3
  <2> DEFINE q == [k \in 0 .. m + 1 |-> IF k = m + 1 THEN RehangNode(h[m], edges[m + 1]) ELSE h[k]]
  <2>2. m \in Nat /\ \A k \in 0 .. m : h[k] = IF k = 0 THEN g ELSE RehangNode(h[k - 1], edges[k])
    BY <2>1
  <2>3. (\A k \in 0 .. m : q[k] = h[k]) /\ q[m + 1] = RehangNode(h[m], edges[m + 1])
    BY <2>2
  <2>4. q = [k \in 0 .. m + 1 |-> q[k]]
    OBVIOUS
  <2> HIDE DEF q
  <2>5. \A k \in 0 .. m + 1 : q[k] = IF k = 0 THEN g ELSE RehangNode(q[k - 1], edges[k])
    BY <2>2, <2>3
  <2>6. Is(q, m + 1)
    BY <2>4, <2>5
  <2> QED BY <2>2, <2>6
<1>4. N \in P
  <2> HIDE DEF P
  <2>1. 0 .. N \subseteq P
    BY <1>2, <1>3, UpTo
  <2> QED BY <2>1
<1>5. Is(after, N)
  BY <1>4
<1> HIDE DEF after
<1>6. after[0] = g /\ \A k \in 1 .. N : after[k] = RehangNode(after[k - 1], edges[k])
  BY <1>5
<1>7. RehangAllTurns(g, edges, after)
  BY <1>1, <1>6 DEF RehangAllTurns
<1>8. QED
  BY <1>7

-----------------------------------------------------------------------------
(* The loops of solveCycle over the edges of one node. *)

(* h is g after edges were attached and some of those in D detached.       *)
Changed(V, g, h, D) ==
  /\ Kept(V, g, h)
  /\ \A e \in DOMAIN g.edge \ D : e \in DOMAIN h.edge /\ h.edge[e] = g.edge[e]

(* To do nothing is such a change. *)
LEMMA ChangedNot ==
  ASSUME NEW V, NEW g, GraphOK(V, g), NEW D
  PROVE  Changed(V, g, g, D)
BY KeptNot DEF Changed

(* Two such changes make one. *)
LEMMA ChangedTwice ==
  ASSUME NEW V, NEW g, NEW h, NEW i, NEW D, Changed(V, g, h, D), Changed(V, h, i, D)
  PROVE  Changed(V, g, i, D)
BY KeptTwice DEF Changed

(* More edges may be detached. *)
LEMMA ChangedWider ==
  ASSUME NEW V, NEW g, NEW h, NEW D, NEW E, Changed(V, g, h, D), D \subseteq E
  PROVE  Changed(V, g, h, E)
BY DEF Changed

(* attach detaches nothing. *)
LEMMA AttachChanges ==
  ASSUME NEW V, NEW g, GraphOK(V, g), Clean(g, "pendings"), NEW l \in Live(g), NEW r \in Live(g)
  PROVE  Changed(V, g, attach(g, l, r), {})
<1> DEFINE h == attach(g, l, r)
<1>1. /\ Kept(V, g, h)
      /\ h.edge = EdgePlus(g.edge, NewEdge(g), l, r)
      /\ NewEdge(g) \in Nat \ DOMAIN g.edge
  BY AttachDoes
<1> HIDE DEF h
<1>2. Changed(V, g, h, {})
  BY <1>1 DEF Changed, EdgePlus
<1>3. QED
  BY <1>2 DEF h

(* detach detaches one edge. *)
LEMMA DetachChanges ==
  ASSUME NEW V, NEW g, GraphOK(V, g), NEW e \in DOMAIN g.edge
  PROVE  Changed(V, g, detach(g, e), {e})
<1> DEFINE h == detach(g, e)
<1>1. Kept(V, g, h) /\ h.edge = EdgeMinus(g.edge, e)
  BY DetachDoes
<1> HIDE DEF h
<1>2. Changed(V, g, h, {e})
  BY <1>1 DEF Changed, EdgeMinus, Restrict
<1>3. QED
  BY <1>2 DEF h

(* What is known after edges came and went. *)
LEMMA KeptFacts ==
  ASSUME NEW V, NEW g, NEW h, Kept(V, g, h)
  PROVE  /\ GraphOK(V, h) /\ Live(h) = Live(g) /\ SameNodes(g, h)
         /\ Clean(g, "pendings") => Clean(h, "pendings")
BY SameNodesLive DEF Kept

(* An edge that is moved. *)
LEMMA ReattachChanges ==
  ASSUME NEW V, NEW g, GraphOK(V, g), Clean(g, "pendings"), NEW l \in Live(g), NEW r \in Live(g),
         NEW e \in DOMAIN g.edge
  PROVE  Changed(V, g, detach(attach(g, l, r), e), {e})
<1> DEFINE c == attach(g, l, r)
           h == detach(c, e)
<1>1. Changed(V, g, c, {})
  BY AttachChanges
<1> HIDE DEF c
<1>2. GraphOK(V, c) /\ e \in DOMAIN c.edge
  BY <1>1, KeptFacts DEF Changed
<1>3. Changed(V, c, h, {e})
  BY <1>2, DetachChanges
<1> HIDE DEF h
<1>4. Changed(V, g, c, {e})
  BY <1>1, ChangedWider
<1>5. Changed(V, g, h, {e})
  BY <1>3, <1>4, ChangedTwice
<1>6. QED
  BY <1>5 DEF h, c

(* The ends of an edge were not erased. *)
LEMMA EdgeEnds ==
  ASSUME NEW V, NEW g, GraphOK(V, g), NEW e \in DOMAIN g.edge
  PROVE  depender(g, e) \in Live(g) /\ dependee(g, e) \in Live(g)
BY DEF GraphOK, EdgesOK

(* One turn of attachDetachDependees. *)
LEMMA MoveDependeeDoes ==
  ASSUME NEW V, NEW g, GraphOK(V, g), Clean(g, "pendings"), NEW n \in Live(g),
         NEW e \in DOMAIN g.edge, NEW D, dependee(g, e) # n => e \in D
  PROVE  Changed(V, g, MoveDependee(g, n, e), D)
<1>1. CASE dependee(g, e) = n
  BY <1>1, ChangedNot DEF MoveDependee
<1>2. CASE dependee(g, e) # n
  <2> DEFINE r == dependee(g, e)
             h == detach(attach(g, n, r), e)
  <2>1. r \in Live(g)
    BY EdgeEnds
  <2> HIDE DEF r
  <2>2. Changed(V, g, h, {e})
    BY <2>1, ReattachChanges
  <2> HIDE DEF h
  <2>3. Changed(V, g, h, D)
    BY <2>2, <1>2, ChangedWider
  <2>4. MoveDependee(g, n, e) = h
    BY <1>2 DEF MoveDependee, h, r
  <2> QED BY <2>3, <2>4
<1>3. QED
  BY <1>1, <1>2

(* One turn of attachDetachDependers. *)
LEMMA MoveDependerDoes ==
  ASSUME NEW V, NEW g, GraphOK(V, g), Clean(g, "pendings"), NEW n \in Live(g),
         NEW e \in DOMAIN g.edge, NEW D, depender(g, e) # n => e \in D
  PROVE  Changed(V, g, MoveDepender(g, n, e), D)
<1>1. CASE depender(g, e) = n
  BY <1>1, ChangedNot DEF MoveDepender
<1>2. CASE depender(g, e) # n
  <2> DEFINE l == depender(g, e)
             h == detach(attach(g, l, n), e)
  <2>1. l \in Live(g)
    BY EdgeEnds
  <2> HIDE DEF l
  <2>2. Changed(V, g, h, {e})
    BY <2>1, ReattachChanges
  <2> HIDE DEF h
  <2>3. Changed(V, g, h, D)
    BY <2>2, <1>2, ChangedWider
  <2>4. MoveDepender(g, n, e) = h
    BY <1>2 DEF MoveDepender, h, l
  <2> QED BY <2>3, <2>4
<1>3. QED
  BY <1>1, <1>2

(* The edges the loop of attachDetachDependees detaches are those of the   *)
(* list that do not already end in n.                                      *)
LEMMA MoveDependeesDoes ==
  ASSUME NEW V, NEW g, GraphOK(V, g), Clean(g, "pendings"), NEW n \in Live(g),
         NEW edges, OnceIn(edges), ToSet(edges) \subseteq DOMAIN g.edge
  PROVE  Changed(V, g, attachDetachDependees(g, n, edges),
                 {e \in ToSet(edges) : dependee(g, e) # n})
<1> DEFINE N == Len(edges)
           Gone(k) == {edges[i] : i \in 1 .. k}
           Moving(k) == {e \in Gone(k) : dependee(g, e) # n}
<1>1. edges \in Seq(Nat) /\ N \in Nat /\ DOMAIN edges = 1 .. N
      /\ \A a, b \in 1 .. N : edges[a] = edges[b] => a = b
  BY DEF OnceIn, IsInjective
<1>0. PICK after : MoveDependeesTurns(g, n, edges, after)
  <2>1. Len(edges) \in Nat
    BY <1>1
  <2> QED BY <2>1, MoveDependeesShape
<1>2. /\ attachDetachDependees(g, n, edges) = after[N]
      /\ after[0] = g
      /\ \A k \in 1 .. N : after[k] = MoveDependee(after[k - 1], n, edges[k])
  BY <1>0 DEF MoveDependeesTurns
<1> HIDE DEF N
<1> DEFINE P == {k \in 0 .. N : Changed(V, g, after[k], Moving(k))}
<1>3. 0 \in P
  <2> HIDE DEF Moving
  <2>1. Changed(V, g, g, Moving(0))
    BY ChangedNot
  <2> QED BY <2>1, <1>1, <1>2
<1>4. ASSUME NEW k \in 0 .. N - 1, k \in P PROVE k + 1 \in P
  <2> DEFINE c == after[k]
             h == after[k + 1]
             e == edges[k + 1]
  <2>1. k + 1 \in 1 .. N /\ (k + 1) - 1 = k
    BY <1>1
  <2>2. h = MoveDependee(c, n, e)
    BY <2>1, <1>2
  <2>3. Gone(k + 1) = Gone(k) \cup {e} /\ e \notin Gone(k)
    BY <2>1, <1>1
  <2>4. e \in DOMAIN g.edge
    BY <2>1, <1>1 DEF ToSet
  <2>5. Changed(V, g, c, Moving(k))
    BY <1>4
  <2>6. Moving(k) \subseteq Moving(k + 1) /\ e \notin Moving(k)
        /\ (dependee(g, e) # n => e \in Moving(k + 1))
    BY <2>3
  <2> HIDE DEF c, h, e, Gone, Moving
  <2>7. e \in DOMAIN c.edge /\ c.edge[e] = g.edge[e] /\ Kept(V, g, c)
    BY <2>4, <2>5, <2>6 DEF Changed
  <2>8. dependee(c, e) = dependee(g, e)
    BY <2>7 DEF dependee
  <2>9. GraphOK(V, c) /\ Clean(c, "pendings") /\ n \in Live(c)
    BY <2>7, KeptFacts
  <2>10. Changed(V, c, h, Moving(k + 1))
    BY <2>2, <2>6, <2>7, <2>8, <2>9, MoveDependeeDoes
  <2>11. Changed(V, g, c, Moving(k + 1))
    BY <2>5, <2>6, ChangedWider
  <2>12. Changed(V, g, h, Moving(k + 1))
    BY <2>10, <2>11, ChangedTwice
  <2> QED BY <2>1, <2>12 DEF h
<1>5. N \in P
  <2> HIDE DEF P
  <2>1. 0 .. N \subseteq P
    BY <1>1, <1>3, <1>4, UpTo
  <2> QED BY <2>1, <1>1
<1>6. Gone(N) = ToSet(edges)
  BY <1>1 DEF ToSet
<1>7. QED
  BY <1>2, <1>5, <1>6

(* The same of attachDetachDependers. *)
LEMMA MoveDependersDoes ==
  ASSUME NEW V, NEW g, GraphOK(V, g), Clean(g, "pendings"), NEW n \in Live(g),
         NEW edges, OnceIn(edges), ToSet(edges) \subseteq DOMAIN g.edge
  PROVE  Changed(V, g, attachDetachDependers(g, n, edges),
                 {e \in ToSet(edges) : depender(g, e) # n})
<1> DEFINE N == Len(edges)
           Gone(k) == {edges[i] : i \in 1 .. k}
           Moving(k) == {e \in Gone(k) : depender(g, e) # n}
<1>1. edges \in Seq(Nat) /\ N \in Nat /\ DOMAIN edges = 1 .. N
      /\ \A a, b \in 1 .. N : edges[a] = edges[b] => a = b
  BY DEF OnceIn, IsInjective
<1>0. PICK after : MoveDependersTurns(g, n, edges, after)
  <2>1. Len(edges) \in Nat
    BY <1>1
  <2> QED BY <2>1, MoveDependersShape
<1>2. /\ attachDetachDependers(g, n, edges) = after[N]
      /\ after[0] = g
      /\ \A k \in 1 .. N : after[k] = MoveDepender(after[k - 1], n, edges[k])
  BY <1>0 DEF MoveDependersTurns
<1> HIDE DEF N
<1> DEFINE P == {k \in 0 .. N : Changed(V, g, after[k], Moving(k))}
<1>3. 0 \in P
  <2> HIDE DEF Moving
  <2>1. Changed(V, g, g, Moving(0))
    BY ChangedNot
  <2> QED BY <2>1, <1>1, <1>2
<1>4. ASSUME NEW k \in 0 .. N - 1, k \in P PROVE k + 1 \in P
  <2> DEFINE c == after[k]
             h == after[k + 1]
             e == edges[k + 1]
  <2>1. k + 1 \in 1 .. N /\ (k + 1) - 1 = k
    BY <1>1
  <2>2. h = MoveDepender(c, n, e)
    BY <2>1, <1>2
  <2>3. Gone(k + 1) = Gone(k) \cup {e} /\ e \notin Gone(k)
    BY <2>1, <1>1
  <2>4. e \in DOMAIN g.edge
    BY <2>1, <1>1 DEF ToSet
  <2>5. Changed(V, g, c, Moving(k))
    BY <1>4
  <2>6. Moving(k) \subseteq Moving(k + 1) /\ e \notin Moving(k)
        /\ (depender(g, e) # n => e \in Moving(k + 1))
    BY <2>3
  <2> HIDE DEF c, h, e, Gone, Moving
  <2>7. e \in DOMAIN c.edge /\ c.edge[e] = g.edge[e] /\ Kept(V, g, c)
    BY <2>4, <2>5, <2>6 DEF Changed
  <2>8. depender(c, e) = depender(g, e)
    BY <2>7 DEF depender
  <2>9. GraphOK(V, c) /\ Clean(c, "pendings") /\ n \in Live(c)
    BY <2>7, KeptFacts
  <2>10. Changed(V, c, h, Moving(k + 1))
    BY <2>2, <2>6, <2>7, <2>8, <2>9, MoveDependerDoes
  <2>11. Changed(V, g, c, Moving(k + 1))
    BY <2>5, <2>6, ChangedWider
  <2>12. Changed(V, g, h, Moving(k + 1))
    BY <2>10, <2>11, ChangedTwice
  <2> QED BY <2>1, <2>12 DEF h
<1>5. N \in P
  <2> HIDE DEF P
  <2>1. 0 .. N \subseteq P
    BY <1>1, <1>3, <1>4, UpTo
  <2> QED BY <2>1, <1>1
<1>6. Gone(N) = ToSet(edges)
  BY <1>1 DEF ToSet
<1>7. QED
  BY <1>2, <1>5, <1>6

-----------------------------------------------------------------------------
(* The loop of solveCycle over the nodes of the cycle. *)

(* The lists of edges of a node. *)
LEMMA NodeEdges ==
  ASSUME NEW V, NEW g, GraphOK(V, g), NEW n \in Live(g)
  PROVE  /\ OnceIn(dependees(g, n)) /\ ToSet(dependees(g, n)) = OutOf(g, n)
         /\ OnceIn(dependers(g, n)) /\ ToSet(dependers(g, n)) = Into(g, n)
BY DEF GraphOK, EdgesOK

(* The edges that do not end in n. *)
NotInto(g, n) == {x \in DOMAIN g.edge : dependee(g, x) # n}

(* Hyper nodes stay hyper nodes. *)
LEMMA SameHyper ==
  ASSUME NEW V, NEW g, NEW h, Kept(V, g, h), NEW n \in Live(g)
  PROVE  /\ isHyperOpen(h, n) <=> isHyperOpen(g, n)
         /\ isHyperClose(h, n) <=> isHyperClose(g, n)
BY DEF Kept, SameNodes, Live, isHyperOpen, isHyperClose

(* The first inner loop, for a node of the cycle. *)
LEMMA OutwardsDoes ==
  ASSUME NEW V, NEW g, GraphOK(V, g), Clean(g, "pendings"),
         NEW open \in Live(g), NEW n \in Live(g)
  PROVE  Changed(V, g, attachDetachDependees(g, open, dependees(g, n)), NotInto(g, open))
<1> DEFINE s == dependees(g, n)
           h == attachDetachDependees(g, open, s)
           D == {e \in ToSet(s) : dependee(g, e) # open}
<1>1. OnceIn(s) /\ ToSet(s) \subseteq DOMAIN g.edge
  BY NodeEdges DEF OutOf
<1> HIDE DEF s
<1>2. Changed(V, g, h, D)
  BY <1>1, MoveDependeesDoes
<1>3. D \subseteq NotInto(g, open)
  BY <1>1 DEF NotInto
<1> HIDE DEF h, D
<1>4. Changed(V, g, h, NotInto(g, open))
  BY <1>2, <1>3, ChangedWider
<1>5. QED
  BY <1>4 DEF h, s

(* The second one, for a node other than the opening hyper node. *)
LEMMA InwardsDoes ==
  ASSUME NEW V, NEW g, GraphOK(V, g), Clean(g, "pendings"),
         NEW close \in Live(g), NEW n \in Live(g), NEW open, n # open
  PROVE  Changed(V, g, attachDetachDependers(g, close, dependers(g, n)), NotInto(g, open))
<1> DEFINE s == dependers(g, n)
           h == attachDetachDependers(g, close, s)
           D == {e \in ToSet(s) : depender(g, e) # close}
<1>1. OnceIn(s) /\ ToSet(s) \subseteq NotInto(g, open) /\ ToSet(s) \subseteq DOMAIN g.edge
  BY NodeEdges DEF Into, NotInto
<1> HIDE DEF s
<1>2. Changed(V, g, h, D)
  BY <1>1, MoveDependersDoes
<1>3. D \subseteq NotInto(g, open)
  BY <1>1
<1> HIDE DEF h, D
<1>4. Changed(V, g, h, NotInto(g, open))
  BY <1>2, <1>3, ChangedWider
<1>5. QED
  BY <1>4 DEF h, s

(* Such changes compose, though the edges changed in between. *)
LEMMA NotIntoTwice ==
  ASSUME NEW V, NEW g, NEW h, NEW i, NEW n,
         Changed(V, g, h, NotInto(g, n)), Changed(V, h, i, NotInto(h, n))
  PROVE  Changed(V, g, i, NotInto(g, n))
<1>1. Kept(V, g, i)
  BY KeptTwice DEF Changed
<1>2. ASSUME NEW e \in DOMAIN g.edge \ NotInto(g, n)
      PROVE  e \in DOMAIN i.edge /\ i.edge[e] = g.edge[e]
  <2>1. dependee(g, e) = n
    BY DEF NotInto
  <2>2. e \in DOMAIN h.edge /\ h.edge[e] = g.edge[e]
    BY DEF Changed
  <2>3. e \in DOMAIN h.edge \ NotInto(h, n)
    BY <2>1, <2>2 DEF NotInto, dependee
  <2> QED BY <2>2, <2>3 DEF Changed
<1>3. QED
  BY <1>1, <1>2 DEF Changed

(* What rehanging a node of the cycle detaches does not end in the opening *)
(* hyper node.                                                             *)
LEMMA RehangNodeDoes ==
  ASSUME NEW V, NEW g, GraphOK(V, g), Clean(g, "pendings"),
         solving.open \in Live(g), solving.close \in Live(g), isHyperOpen(g, solving.open),
         NEW e \in DOMAIN g.edge
  PROVE  Changed(V, g, RehangNode(g, e), NotInto(g, solving.open))
<1> DEFINE n == depender(g, e)
           open == solving.open
           h == IF isHyperClose(g, n) THEN g
                ELSE attachDetachDependees(g, open, dependees(g, n))
           i == attachDetachDependers(h, solving.close, dependers(h, n))
<1>1. n \in Live(g)
  BY EdgeEnds
<1> HIDE DEF n
<1>2. Changed(V, g, h, NotInto(g, open))
  <2>1. CASE isHyperClose(g, n)
    BY <2>1, ChangedNot
  <2>2. CASE ~isHyperClose(g, n)
    BY <2>2, <1>1, OutwardsDoes
  <2> QED BY <2>1, <2>2
<1>3. RehangNode(g, e) = IF isHyperOpen(h, n) THEN h ELSE i
  BY DEF RehangNode, n
<1> HIDE DEF h
<1>4. /\ GraphOK(V, h) /\ Clean(h, "pendings") /\ Live(h) = Live(g) /\ Kept(V, g, h)
  BY <1>2, KeptFacts DEF Changed
<1>5. CASE isHyperOpen(h, n)
  BY <1>2, <1>3, <1>5
<1>6. CASE ~isHyperOpen(h, n)
  <2>1. n # open
    BY <1>4, <1>6, SameHyper
  <2>2. Changed(V, h, i, NotInto(h, open))
    BY <2>1, <1>1, <1>4, InwardsDoes
  <2> HIDE DEF i, open
  <2>3. Changed(V, g, i, NotInto(g, open))
    BY <2>2, <1>2, NotIntoTwice
  <2> QED BY <2>3, <1>3, <1>6 DEF open
<1>7. QED
  BY <1>5, <1>6

(* The edges the loop of solveCycle runs over are still there when their   *)
(* turn comes, and the whole loop keeps the graph.                         *)
LEMMA RehangAllDoes ==
  ASSUME NEW V, NEW g, GraphOK(V, g), Clean(g, "pendings"),
         solving.open \in Live(g), solving.close \in Live(g), isHyperOpen(g, solving.open)
  PROVE  Kept(V, g, RehangAll(g, dependers(g, solving.open)))
<1> DEFINE open == solving.open
           edges == dependers(g, open)
           N == Len(edges)
           D == NotInto(g, open)
<1>1. OnceIn(edges) /\ ToSet(edges) = Into(g, open)
  BY NodeEdges
<1>2. N \in Nat /\ DOMAIN edges = 1 .. N
  BY <1>1 DEF OnceIn
<1>3. \A k \in 1 .. N : edges[k] \in DOMAIN g.edge \ D
  BY <1>1, <1>2 DEF ToSet, Into, NotInto
<1> HIDE DEF edges
<1>0. PICK after : RehangAllTurns(g, edges, after)
  <2>1. Len(edges) \in Nat
    BY <1>2
  <2> QED BY <2>1, RehangAllShape
<1>4. /\ RehangAll(g, edges) = after[N]
      /\ after[0] = g
      /\ \A k \in 1 .. N : after[k] = RehangNode(after[k - 1], edges[k])
  BY <1>0 DEF RehangAllTurns
<1> HIDE DEF N
<1> DEFINE P == {k \in 0 .. N : Changed(V, g, after[k], D)}
<1>5. 0 \in P
  <2> HIDE DEF D
  <2>1. Changed(V, g, g, D)
    BY ChangedNot
  <2> QED BY <2>1, <1>2, <1>4
<1>6. ASSUME NEW k \in 0 .. N - 1, k \in P PROVE k + 1 \in P
  <2> DEFINE c == after[k]
             h == after[k + 1]
             e == edges[k + 1]
  <2>1. k + 1 \in 1 .. N /\ (k + 1) - 1 = k
    BY <1>2
  <2>2. h = RehangNode(c, e)
    BY <2>1, <1>4
  <2>3. e \in DOMAIN g.edge \ D
    BY <2>1, <1>3
  <2>4. Changed(V, g, c, D)
    BY <1>6
  <2> HIDE DEF c, h, e
  <2>5. e \in DOMAIN c.edge /\ Kept(V, g, c)
    BY <2>3, <2>4 DEF Changed
  <2>6. GraphOK(V, c) /\ Clean(c, "pendings") /\ Live(c) = Live(g)
    BY <2>5, KeptFacts
  <2>7. isHyperOpen(c, open)
    BY <2>5, SameHyper
  <2>8. Changed(V, c, h, NotInto(c, open))
    BY <2>2, <2>5, <2>6, <2>7, RehangNodeDoes
  <2> HIDE DEF open
  <2>9. Changed(V, g, h, D)
    BY <2>4, <2>8, NotIntoTwice
  <2> QED BY <2>1, <2>9 DEF h
<1>7. N \in P
  <2> HIDE DEF P
  <2>1. 0 .. N \subseteq P
    BY <1>2, <1>5, <1>6, UpTo
  <2> QED BY <2>1, <1>2
<1>8. Kept(V, g, RehangAll(g, edges))
  BY <1>4, <1>7 DEF Changed
<1>9. QED
  BY <1>8 DEF edges

-----------------------------------------------------------------------------
(* registerAsts. *)

(* The values of the nodes. *)
NodeValues == Modules \cup {HyperOpen, HyperClose}

(* The map leads to every node, each by the module it stands for.          *)
Mapped(g, map) ==
  /\ DOMAIN map \subseteq Modules
  /\ \A m \in DOMAIN map : map[m] \in Live(g) /\ g.node[map[m]].value = m
  /\ \A n \in Live(g) : /\ g.node[n].value \in DOMAIN map
                        /\ map[g.node[n].value] = n

(* The graph and the map, while the files are registered. *)
RegOK(s) ==
  /\ s = [graph |-> s.graph, map |-> s.map]
  /\ GraphOK(NodeValues, s.graph)
  /\ Clean(s.graph, "pendings")
  /\ Mapped(s.graph, s.map)

(* Attaching leaves the map right. *)
LEMMA SameMapped ==
  ASSUME NEW g, NEW h, SameNodes(g, h), NEW map, Mapped(g, map)
  PROVE  Mapped(h, map)
<1>1. Live(h) = Live(g) /\ Live(g) \subseteq DOMAIN g.node
  BY SameNodesLive DEF Live
<1>2. \A n \in Live(g) : h.node[n].value = g.node[n].value
  BY <1>1 DEF SameNodes
<1>3. QED
  BY <1>1, <1>2 DEF Mapped

(* A module is made and emplaced. *)
LEMMA MadeMapped ==
  ASSUME NEW V, NEW g, NEW h, NEW m \in Modules, Made(V, g, h, m),
         NEW map, Mapped(g, map), m \notin DOMAIN map
  PROVE  /\ Mapped(h, Emplaced(map, m, h.pendings))
         /\ DOMAIN Emplaced(map, m, h.pendings) = DOMAIN map \cup {m}
<1> DEFINE p == h.pendings
           new == Emplaced(map, m, p)
<1>1. DOMAIN new = DOMAIN map \cup {m}
  BY DEF Emplaced
<1>2. new[m] = p
  BY DEF Emplaced
<1>3. \A k \in DOMAIN map : new[k] = map[k]
  BY DEF Emplaced
<1> HIDE DEF new
<1>4. /\ p \notin Live(g) /\ Live(h) = Live(g) \cup {p} /\ h.node[p].value = m
      /\ \A x \in Live(g) : h.node[x].value = g.node[x].value
  BY DEF Made
<1> HIDE DEF p
<1>5. \A k \in DOMAIN new : new[k] \in Live(h) /\ h.node[new[k]].value = k
  BY <1>1, <1>2, <1>3, <1>4 DEF Mapped
<1>6. \A n \in Live(h) : h.node[n].value \in DOMAIN new /\ new[h.node[n].value] = n
  BY <1>1, <1>2, <1>3, <1>4 DEF Mapped
<1>7. Mapped(h, new)
  BY <1>1, <1>5, <1>6 DEF Mapped
<1>8. QED
  BY <1>1, <1>7 DEF new, p

(* getOrMakeModule knows the module afterwards, by one node. *)
LEMMA GetOrMakeDoes ==
  ASSUME NEW s, RegOK(s), NEW m \in Modules
  PROVE  /\ RegOK(getOrMakeModule(s, m))
         /\ DOMAIN getOrMakeModule(s, m).map = DOMAIN s.map \cup {m}
<1>1. CASE m \in DOMAIN s.map
  BY <1>1 DEF getOrMakeModule
<1>2. CASE m \notin DOMAIN s.map
  <2> DEFINE h == makeNode(s.graph, m)
             map == Emplaced(s.map, m, h.pendings)
             t == [graph |-> h, map |-> map]
  <2>1. getOrMakeModule(s, m) = t
    BY <1>2 DEF getOrMakeModule
  <2>2. Made(NodeValues, s.graph, h, m)
    BY MakeNodeDoes DEF RegOK, NodeValues
  <2> HIDE DEF h
  <2>3. Mapped(h, map) /\ DOMAIN map = DOMAIN s.map \cup {m}
    BY <1>2, <2>2, MadeMapped DEF RegOK
  <2> HIDE DEF map
  <2>4. RegOK(t)
    BY <2>2, <2>3 DEF RegOK, Made
  <2> QED BY <2>1, <2>3, <2>4
<1>3. QED
  BY <1>1, <1>2

(* makeDependency knows both modules afterwards. *)
LEMMA MakeDependencyDoes ==
  ASSUME NEW s, RegOK(s), NEW lhs \in Modules, NEW rhs \in Modules
  PROVE  /\ RegOK(makeDependency(s, lhs, rhs))
         /\ DOMAIN makeDependency(s, lhs, rhs).map = DOMAIN s.map \cup {lhs, rhs}
<1> DEFINE u == getOrMakeModule(s, lhs)
           t == getOrMakeModule(u, rhs)
           h == attach(t.graph, t.map[lhs], t.map[rhs])
           v == [t EXCEPT !.graph = h]
<1>1. makeDependency(s, lhs, rhs) = v
  BY DEF makeDependency
<1>2. RegOK(u) /\ DOMAIN u.map = DOMAIN s.map \cup {lhs}
  BY GetOrMakeDoes
<1> HIDE DEF u
<1>3. RegOK(t) /\ DOMAIN t.map = DOMAIN s.map \cup {lhs, rhs}
  <2>1. RegOK(t) /\ DOMAIN t.map = DOMAIN u.map \cup {rhs}
    BY <1>2, GetOrMakeDoes
  <2> QED BY <1>2, <2>1
<1> HIDE DEF t
<1>4. t.map[lhs] \in Live(t.graph) /\ t.map[rhs] \in Live(t.graph)
  BY <1>3 DEF RegOK, Mapped
<1>5. Kept(NodeValues, t.graph, h)
  BY <1>3, <1>4, AttachChanges DEF RegOK, Changed
<1> HIDE DEF h
<1>6. GraphOK(NodeValues, h) /\ Clean(h, "pendings") /\ SameNodes(t.graph, h)
  BY <1>3, <1>5, KeptFacts DEF RegOK
<1>7. Mapped(h, t.map)
  BY <1>3, <1>6, SameMapped DEF RegOK
<1>8. v = [graph |-> h, map |-> t.map]
  BY <1>3 DEF RegOK
<1> HIDE DEF v
<1>9. RegOK(v) /\ v.map = t.map
  BY <1>6, <1>7, <1>8 DEF RegOK
<1>10. QED
  BY <1>1, <1>3, <1>9

(* The loop over the imports knows all of them afterwards. *)
LEMMA MakeDependenciesDoes ==
  ASSUME NEW s, RegOK(s), NEW m \in Modules, m \in DOMAIN s.map, NEW imports \in Seq(Modules)
  PROVE  /\ RegOK(makeDependencies(s, m, imports))
         /\ DOMAIN makeDependencies(s, m, imports).map = DOMAIN s.map \cup ToSet(imports)
<1> DEFINE N == Len(imports)
           Met(k) == {imports[i] : i \in 1 .. k}
<1>1. N \in Nat /\ DOMAIN imports = 1 .. N /\ \A k \in 1 .. N : imports[k] \in Modules
  OBVIOUS
<1>0. PICK after : MakeDependenciesTurns(s, m, imports, after)
  <2>1. Len(imports) \in Nat
    BY <1>1
  <2> QED BY <2>1, MakeDependenciesShape
<1>2. /\ makeDependencies(s, m, imports) = after[N]
      /\ after[0] = s
      /\ \A k \in 1 .. N : after[k] = makeDependency(after[k - 1], m, imports[k])
  BY <1>0 DEF MakeDependenciesTurns
<1> HIDE DEF N
<1> DEFINE P == {k \in 0 .. N : RegOK(after[k]) /\ DOMAIN after[k].map = DOMAIN s.map \cup Met(k)}
<1>3. 0 \in P
  <2>1. Met(0) = {}
    OBVIOUS
  <2> HIDE DEF Met
  <2>2. RegOK(s) /\ DOMAIN s.map = DOMAIN s.map \cup Met(0)
    BY <2>1
  <2> QED BY <2>2, <1>1, <1>2
<1>4. ASSUME NEW k \in 0 .. N - 1, k \in P PROVE k + 1 \in P
  <2> DEFINE c == after[k]
             h == after[k + 1]
             i == imports[k + 1]
  <2>1. k + 1 \in 1 .. N /\ (k + 1) - 1 = k
    BY <1>1
  <2>2. h = makeDependency(c, m, i) /\ i \in Modules
    BY <2>1, <1>1, <1>2
  <2>3. Met(k + 1) = Met(k) \cup {i}
    BY <2>1
  <2>4. RegOK(c) /\ DOMAIN c.map = DOMAIN s.map \cup Met(k)
    BY <1>4
  <2> HIDE DEF c, h, i, Met
  <2>5. RegOK(h) /\ DOMAIN h.map = DOMAIN c.map \cup {m, i}
    BY <2>2, <2>4, MakeDependencyDoes
  <2>6. DOMAIN h.map = DOMAIN s.map \cup Met(k + 1)
    BY <2>3, <2>4, <2>5
  <2> QED BY <2>1, <2>5, <2>6 DEF h
<1>5. N \in P
  <2> HIDE DEF P
  <2>1. 0 .. N \subseteq P
    BY <1>1, <1>3, <1>4, UpTo
  <2> QED BY <2>1, <1>1
<1>6. Met(N) = ToSet(imports)
  BY <1>1 DEF ToSet
<1>7. QED
  BY <1>2, <1>5, <1>6

-----------------------------------------------------------------------------
(* The inductive invariant. *)

(* The modules that wait in the graph; every one of them in one node.      *)
NodeModules(g) == {g.node[n].value : n \in Live(g)} \ {HyperOpen, HyperClose}
OneEach(g) ==
  \A m, n \in Live(g) :
    g.node[m].value = g.node[n].value /\ g.node[m].value \in Modules => m = n

(* A step that leaves the modules in the graph as they are. *)
Carried(g, h) ==
  /\ NodeModules(h) = NodeModules(g)
  /\ OneEach(g) => OneEach(h)

(* The nodes and their values stay. *)
SameLabels(g, h) ==
  /\ Live(h) = Live(g)
  /\ \A n \in Live(g) : h.node[n].value = g.node[n].value

(* Then the modules in the graph do. *)
LEMMA LabelsCarry ==
  ASSUME NEW g, NEW h, SameLabels(g, h)
  PROVE  Carried(g, h)
<1>1. NodeModules(h) = NodeModules(g)
  BY DEF SameLabels, NodeModules
<1>2. OneEach(g) => OneEach(h)
  BY DEF SameLabels, OneEach
<1>3. QED
  BY <1>1, <1>2 DEF Carried

(* Attaching and detaching is such a step. *)
LEMMA KeptLabels ==
  ASSUME NEW V, NEW g, NEW h, Kept(V, g, h)
  PROVE  SameLabels(g, h)
<1>1. Live(h) = Live(g) /\ SameNodes(g, h)
  BY KeptFacts
<1>2. QED
  BY <1>1 DEF SameLabels, SameNodes, Live

(* Writing a flag is. *)
LEMMA FlaggedLabels ==
  ASSUME NEW V, NEW g, NEW h, Flagged(V, g, h)
  PROVE  SameLabels(g, h)
BY DEF Flagged, SameLabels, Live

(* No module has the value of a hyper node. *)
LEMMA NoHyperModule ==
  HyperOpen \notin Modules /\ HyperClose \notin Modules /\ HyperOpen # HyperClose
BY ModulesAssumption DEF HyperOpen, HyperClose

(* Making a hyper node is such a step. *)
LEMMA HyperMadeCarries ==
  ASSUME NEW V, NEW g, NEW h, NEW v \in {HyperOpen, HyperClose}, Made(V, g, h, v)
  PROVE  Carried(g, h)
<1> DEFINE p == h.pendings
<1>1. /\ p \notin Live(g) /\ Live(h) = Live(g) \cup {p} /\ h.node[p].value = v
      /\ \A x \in Live(g) : h.node[x].value = g.node[x].value
  BY DEF Made
<1> HIDE DEF p
<1>2. NodeModules(h) = NodeModules(g)
  BY <1>1 DEF NodeModules
<1>3. OneEach(g) => OneEach(h)
  BY <1>1, NoHyperModule DEF OneEach
<1>4. QED
  BY <1>2, <1>3 DEF Carried

(* What TakeTop needs of a pop: a hyper node leaves the modules alone, any *)
(* other one takes its module with it.                                     *)
Taken(g, h, n) ==
  /\ h.node[n].value = g.node[n].value
  /\ OneEach(g) => OneEach(h)
  /\ ~isHyperOpen(h, n) /\ ~isHyperClose(h, n) =>
       /\ h.node[n].value \in NodeModules(g)
       /\ OneEach(g) => NodeModules(h) = NodeModules(g) \ {h.node[n].value}
  /\ isHyperOpen(h, n) \/ isHyperClose(h, n) => NodeModules(h) = NodeModules(g)

(* The value of a node is a module or that of a hyper node. *)
LEMMA NodeValue ==
  ASSUME NEW V, NEW g, GraphOK(V, g), NEW n \in Live(g)
  PROVE  g.node[n].value \in V
<1>1. n \in DOMAIN g.node /\ g.node \in Seq(CellSet(V))
  BY DEF GraphOK, EdgesOK, GraphSet, Live
<1>2. g.node[n] \in CellSet(V)
  BY <1>1
<1>3. QED
  BY <1>2 DEF CellSet

(* A pop does that. *)
LEMMA PoppedTaken ==
  ASSUME NEW g, NEW h, NEW n \in Live(g), GraphOK(NodeValues, g), Popped(NodeValues, g, h, n)
  PROVE  Taken(g, h, n)
<1>1. /\ Live(h) = Live(g) \ {n}
      /\ \A x \in Live(g) : h.node[x].value = g.node[x].value
      /\ \A x \in Live(g) : g.node[x].value \in NodeValues
  BY NodeValue DEF Popped, SameValues, Live
<1>2. OneEach(g) => OneEach(h)
  BY <1>1 DEF OneEach
<1> DEFINE v == g.node[n].value
<1>3. h.node[n].value = v
  BY <1>1
<1>4. CASE v \in Modules
  <2>1. ~isHyperOpen(h, n) /\ ~isHyperClose(h, n)
    BY <1>3, <1>4, NoHyperModule DEF isHyperOpen, isHyperClose
  <2>2. v \in NodeModules(g)
    BY <1>4, NoHyperModule DEF NodeModules
  <2>3. OneEach(g) => NodeModules(h) = NodeModules(g) \ {v}
    <3> SUFFICES ASSUME OneEach(g) PROVE NodeModules(h) = NodeModules(g) \ {v}
      OBVIOUS
    <3>1. \A x \in Live(h) : h.node[x].value # v
      BY <1>1, <1>4 DEF OneEach
    <3> QED BY <3>1, <1>1 DEF NodeModules
  <2> QED BY <2>1, <2>2, <2>3, <1>2, <1>3 DEF Taken
<1>5. CASE v \in {HyperOpen, HyperClose}
  <2>1. isHyperOpen(h, n) \/ isHyperClose(h, n)
    BY <1>3, <1>5 DEF isHyperOpen, isHyperClose
  <2>2. NodeModules(h) = NodeModules(g)
    BY <1>1, <1>5 DEF NodeModules
  <2> QED BY <2>1, <2>2, <1>2, <1>3 DEF Taken
<1>6. QED
  BY <1>1, <1>4, <1>5 DEF NodeValues

(* What the first files mention. *)
MentionedBy(k) ==
  {declared[i].module : i \in 1 .. k} \cup UNION {ToSet(declared[i].imports) : i \in 1 .. k}

(* What all of them mention. *)
Mentioned == MentionedBy(Len(declared))

(* What the variables are, as far as it is needed. *)
TypeOK ==
  /\ declared \in Inputs
  /\ registered \in 0 .. Len(declared)
  /\ pc \in Labels
  /\ moduleOrder \in Seq(Modules)

(* The graph is in order, and where the next attach may steal from         *)
(* _pendings its head is clean.                                            *)
GraphHolds ==
  /\ GraphOK(NodeValues, graph)
  /\ pc \in {"register", "walk", "rehang"} => Clean(graph, "pendings")

(* While the files are registered the map knows what they mentioned so far. *)
Registering ==
  pc = "register" =>
    /\ moduleOrder = <<>>
    /\ Mapped(graph, moduleMap)
    /\ DOMAIN moduleMap = MentionedBy(registered)

(* solveCycle's hyper nodes and the node it is at are still there. *)
SolvingOK ==
  pc \in {"walk", "rehang"} =>
    /\ {solving.open, solving.close, solving.at} \subseteq Live(graph)
    /\ isHyperOpen(graph, solving.open)

(* Each module is in the graph once, or was taken once. *)
EachOnce ==
  /\ IsInjective(moduleOrder)
  /\ pc # "register" =>
       /\ OneEach(graph)
       /\ NodeModules(graph) \cap ToSet(moduleOrder) = {}
       /\ NodeModules(graph) \cup ToSet(moduleOrder) = Mentioned

(* makeBundles goes on while there is a node. *)
Left ==
  /\ pc \in {"loop", "solve", "walk", "rehang"} => Live(graph) # {}
  /\ pc = "ordered" => Live(graph) = {}

(* The inductive invariant. *)
IInv == TypeOK /\ GraphHolds /\ Registering /\ SolvingOK /\ EachOnce /\ Left

(* An input is a sequence of declarations. *)
LEMMA DeclaredType ==
  ASSUME NEW d \in Inputs
  PROVE  /\ d \in Seq([module : Modules, imports : Seq(Modules)])
         /\ Len(d) \in Nat /\ DOMAIN d = 1 .. Len(d)
         /\ \A i \in 1 .. Len(d) : d[i].module \in Modules /\ d[i].imports \in Seq(Modules)
<1> DEFINE R == [module : Modules, imports : Seq(Modules)]
<1>1. d \in Seq(R)
  BY InputsAssumption
<1>2. \A r \in R : r.module \in Modules /\ r.imports \in Seq(Modules)
  OBVIOUS
<1> HIDE DEF R
<1>3. Len(d) \in Nat /\ DOMAIN d = 1 .. Len(d) /\ \A i \in 1 .. Len(d) : d[i] \in R
  BY <1>1
<1>4. QED
  BY <1>1, <1>2, <1>3 DEF R

(* The invariant holds at first. *)
LEMMA InitHolds ==
  ASSUME Init
  PROVE  IInv
<1>1. TypeOK
  BY DeclaredType DEF Init, TypeOK, Labels
<1>2. GraphHolds /\ Live(graph) = {}
  BY EmptyOK DEF Init, GraphHolds
<1>3. Registering
  <2>1. DOMAIN moduleMap = {} /\ MentionedBy(0) = {}
    BY DEF Init, MentionedBy
  <2>2. Mapped(graph, moduleMap)
    BY <1>2, <2>1 DEF Mapped
  <2> QED BY <2>1, <2>2 DEF Init, Registering
<1>4. SolvingOK /\ Left
  BY DEF Init, SolvingOK, Left
<1>5. EachOnce
  BY DEF Init, EachOnce, IsInjective
<1>6. QED
  BY <1>1, <1>2, <1>3, <1>4, <1>5 DEF IInv

-----------------------------------------------------------------------------
(* Each step keeps it: the steps of registerAsts and those that only move  *)
(* on.                                                                     *)

(* The steps that leave the graph alone. *)
LEMMA QuietStep ==
  ASSUME IInv, Boundary \/ EndWalk \/ WalkOff \/ MakeBundles
  PROVE  IInv'
<1>1. /\ UNCHANGED <<declared, registered, graph, moduleMap, moduleOrder, solving>>
      /\ pc # "register" /\ pc' \in Labels \ {"register", "ordered"}
      /\ pc' = "walk" => pc = "walk"
      /\ pc' = "rehang" => pc = "walk"
      /\ pc' \in {"loop", "solve"} => pc = "loop"
  BY DEF Boundary, EndWalk, WalkOff, MakeBundles, Labels, Walking
<1>2. TypeOK'
  BY <1>1 DEF IInv, TypeOK
<1>3. GraphHolds'
  BY <1>1 DEF IInv, GraphHolds
<1>4. Registering'
  BY <1>1 DEF Registering
<1>5. SolvingOK'
  BY <1>1 DEF IInv, SolvingOK
<1>6. EachOnce'
  BY <1>1 DEF IInv, EachOnce, Mentioned, MentionedBy
<1>7. Left'
  BY <1>1 DEF IInv, Left
<1>8. QED
  BY <1>2, <1>3, <1>4, <1>5, <1>6, <1>7 DEF IInv

(* When every file is registered, each module that is mentioned has a node. *)
LEMMA AllMapped ==
  ASSUME NEW V, NEW map, NEW g, GraphOK(V, g), Mapped(g, map)
  PROVE  OneEach(g) /\ NodeModules(g) = DOMAIN map /\ (DOMAIN map = {} <=> Live(g) = {})
<1>1. OneEach(g)
  BY DEF Mapped, OneEach
<1>2. NodeModules(g) = DOMAIN map
  <2>1. HyperOpen \notin DOMAIN map /\ HyperClose \notin DOMAIN map
    BY NoHyperModule DEF Mapped
  <2>2. {g.node[n].value : n \in Live(g)} = DOMAIN map
    BY DEF Mapped
  <2> QED BY <2>1, <2>2 DEF NodeModules
<1>3. DOMAIN map = {} <=> Live(g) = {}
  BY DEF Mapped
<1>4. QED
  BY <1>1, <1>2, <1>3

(* The end of registerAsts. *)
LEMMA RegisteredStep ==
  ASSUME IInv, NoModules \/ Begin
  PROVE  IInv'
<1>1. /\ UNCHANGED <<declared, registered, graph, moduleMap, moduleOrder, solving>>
      /\ pc = "register" /\ registered = Len(declared)
      /\ \/ pc' = "ordered" /\ DOMAIN moduleMap = {}
         \/ pc' = "loop" /\ DOMAIN moduleMap # {}
  BY DEF NoModules, Begin
<1>2. TypeOK'
  BY <1>1 DEF IInv, TypeOK, Labels
<1>3. GraphHolds'
  BY <1>1 DEF IInv, GraphHolds
<1>4. Registering' /\ SolvingOK'
  BY <1>1 DEF Registering, SolvingOK
<1>5. moduleOrder = <<>> /\ Mapped(graph, moduleMap) /\ DOMAIN moduleMap = MentionedBy(registered)
  BY <1>1 DEF IInv, Registering
<1>6. OneEach(graph) /\ NodeModules(graph) = DOMAIN moduleMap
      /\ (DOMAIN moduleMap = {} <=> Live(graph) = {})
  BY <1>5, AllMapped DEF IInv, GraphHolds
<1>7. EachOnce'
  <2>1. ToSet(moduleOrder) = {}
    BY <1>5 DEF ToSet
  <2>2. NodeModules(graph) = Mentioned
    BY <1>1, <1>5, <1>6 DEF Mentioned
  <2>3. Mentioned' = Mentioned
    BY <1>1 DEF Mentioned, MentionedBy
  <2> QED BY <2>1, <2>2, <2>3, <1>1, <1>6 DEF IInv, EachOnce
<1>8. Left'
  BY <1>1, <1>6 DEF Left
<1>9. QED
  BY <1>2, <1>3, <1>4, <1>7, <1>8 DEF IInv

(* A module and its imports are registered. *)
LEMMA RegisterStep ==
  ASSUME IInv, RegisterModule
  PROVE  IInv'
<1> DEFINE d == declared[registered + 1]
           s0 == [graph |-> graph, map |-> moduleMap]
           s == getOrMakeModule(s0, d.module)
           t == makeDependencies(s, d.module, d.imports)
<1>1. /\ pc = "register" /\ pc' = pc /\ registered < Len(declared) /\ registered' = registered + 1
      /\ UNCHANGED <<declared, moduleOrder, solving>>
      /\ graph' = t.graph /\ moduleMap' = t.map
  BY DEF RegisterModule
<1>2. /\ declared \in Inputs /\ registered \in 0 .. Len(declared) /\ pc \in Labels
      /\ moduleOrder \in Seq(Modules) /\ moduleOrder = <<>>
      /\ GraphOK(NodeValues, graph) /\ Clean(graph, "pendings")
      /\ Mapped(graph, moduleMap) /\ DOMAIN moduleMap = MentionedBy(registered)
  BY <1>1 DEF IInv, TypeOK, GraphHolds, Registering
<1>3. registered + 1 \in 1 .. Len(declared) /\ registered \in Nat /\ Len(declared) \in Nat
  BY <1>1, <1>2, DeclaredType
<1>4. d.module \in Modules /\ d.imports \in Seq(Modules)
  BY <1>2, <1>3, DeclaredType
<1>5. RegOK(s0) /\ s0.map = moduleMap
  BY <1>2 DEF RegOK
<1> HIDE DEF s0, d
<1>6. RegOK(s) /\ DOMAIN s.map = DOMAIN s0.map \cup {d.module}
  BY <1>4, <1>5, GetOrMakeDoes
<1> HIDE DEF s
<1>7. RegOK(t) /\ DOMAIN t.map = DOMAIN s.map \cup ToSet(d.imports)
  <2>1. d.module \in DOMAIN s.map
    BY <1>6
  <2> QED BY <2>1, <1>4, <1>6, MakeDependenciesDoes
<1> HIDE DEF t
<1>8. DOMAIN t.map = MentionedBy(registered + 1)
  <2>1. 1 .. registered + 1 = 1 .. registered \cup {registered + 1}
    BY <1>3
  <2>2. MentionedBy(registered + 1) = MentionedBy(registered) \cup {d.module} \cup ToSet(d.imports)
    BY <2>1 DEF MentionedBy, d
  <2> QED BY <2>2, <1>2, <1>5, <1>6, <1>7
<1>9. MentionedBy(registered + 1)' = MentionedBy(registered' + 1)
  BY <1>1 DEF MentionedBy
<1>10. TypeOK'
  BY <1>1, <1>2, <1>3 DEF TypeOK
<1>11. GraphHolds'
  BY <1>1, <1>7 DEF GraphHolds, RegOK
<1>12. Registering'
  <2>1. MentionedBy(registered)' = MentionedBy(registered + 1)
    BY <1>1 DEF MentionedBy
  <2> QED BY <2>1, <1>1, <1>2, <1>7, <1>8 DEF Registering, RegOK
<1>13. SolvingOK' /\ Left'
  BY <1>1 DEF SolvingOK, Left
<1>14. EachOnce'
  BY <1>1 DEF IInv, EachOnce
<1>15. QED
  BY <1>10, <1>11, <1>12, <1>13, <1>14 DEF IInv

(* A step of solveCycle: the modules in the graph stay. *)
LEMMA CarriedStep ==
  ASSUME IInv, pc \in {"solve", "walk", "rehang"}, pc' \in {"solve", "walk", "rehang"},
         UNCHANGED <<declared, registered, moduleOrder>>,
         GraphOK(NodeValues, graph'), Carried(graph, graph'), Live(graph') # {},
         pc' # "solve" => Clean(graph', "pendings") /\ SolvingOK'
  PROVE  IInv'
<1>1. TypeOK'
  BY DEF IInv, TypeOK, Labels
<1>2. GraphHolds' /\ Registering' /\ Left'
  BY DEF GraphHolds, Registering, Left
<1>3. SolvingOK'
  BY DEF SolvingOK
<1>4. EachOnce'
  <2>1. Mentioned' = Mentioned
    BY DEF Mentioned, MentionedBy
  <2>2. pc # "register"
    OBVIOUS
  <2> QED BY <2>1, <2>2 DEF IInv, EachOnce, Carried
<1>5. QED
  BY <1>1, <1>2, <1>3, <1>4 DEF IInv

-----------------------------------------------------------------------------
(* The steps of solveCycle. *)

(* The heads of the lists. *)
LEMMA HeadsOf ==
  ASSUME NEW V, NEW g, GraphOK(V, g)
  PROVE  /\ g.pendings # Nil => g.pendings \in Pending(g)
         /\ g.blockeds # Nil => g.blockeds \in Blocked(g)
         /\ g.pendings = Nil => Pending(g) = {}
         /\ g.blockeds = Nil => Blocked(g) = {}
         /\ Live(g) = Pending(g) \cup Blocked(g)
<1>1. IsChain(g.node, g["pendings"], Pending(g)) /\ IsChain(g.node, g["blockeds"], Blocked(g))
  BY DEF GraphOK, Sides
<1>2. g.pendings = g["pendings"] /\ g.blockeds = g["blockeds"]
  OBVIOUS
<1>3. /\ g["pendings"] \in Pending(g) \cup {Nil} /\ (g["pendings"] = Nil <=> Pending(g) = {})
      /\ g["blockeds"] \in Blocked(g) \cup {Nil} /\ (g["blockeds"] = Nil <=> Blocked(g) = {})
  BY <1>1, ChainEnds
<1>4. Live(g) = Pending(g) \cup Blocked(g)
  BY DEF Pending, Blocked
<1>5. QED
  BY <1>2, <1>3, <1>4

(* The hyper nodes are made. *)
LEMMA OpenCycleStep ==
  ASSUME IInv, OpenCycle
  PROVE  IInv'
<1> DEFINE a == makeNode(graph, HyperOpen)
           b == makeNode(a, HyperClose)
<1>1. /\ pc = "solve" /\ isCyclic(graph) /\ pc' = "walk" /\ graph' = b
      /\ solving' = [open |-> a.pendings, close |-> b.pendings, at |-> graph.blockeds, front |-> Nil]
      /\ UNCHANGED <<declared, registered, moduleOrder>>
  BY DEF OpenCycle
<1>2. GraphOK(NodeValues, graph) /\ HyperOpen \in NodeValues /\ HyperClose \in NodeValues
  BY DEF IInv, GraphHolds, NodeValues
<1>3. Made(NodeValues, graph, a, HyperOpen)
  BY <1>2, MakeNodeDoes
<1> HIDE DEF a
<1>4. GraphOK(NodeValues, a) /\ a.pendings \in Live(a) /\ a.node[a.pendings].value = HyperOpen
      /\ Live(graph) \subseteq Live(a)
  BY <1>3 DEF Made
<1>5. Made(NodeValues, a, b, HyperClose)
  BY <1>2, <1>4, MakeNodeDoes
<1> HIDE DEF b
<1>6. GraphOK(NodeValues, b) /\ Clean(b, "pendings") /\ b.pendings \in Live(b)
      /\ Live(a) \subseteq Live(b) /\ b.node[a.pendings].value = HyperOpen
  BY <1>4, <1>5 DEF Made
<1>7. graph.blockeds \in Live(graph)
  BY <1>1, <1>2, HeadsOf DEF isCyclic, Blocked
<1>8. Carried(graph, b)
  <2>1. Carried(graph, a)
    BY <1>3, HyperMadeCarries
  <2>2. Carried(a, b)
    BY <1>5, HyperMadeCarries
  <2> QED BY <2>1, <2>2 DEF Carried
<1>9. SolvingOK'
  <2>1. /\ a.pendings \in Live(b) /\ b.pendings \in Live(b) /\ graph.blockeds \in Live(b)
        /\ isHyperOpen(b, a.pendings)
    BY <1>4, <1>6, <1>7 DEF isHyperOpen
  <2>2. solving'.open = a.pendings /\ solving'.close = b.pendings /\ solving'.at = graph.blockeds
    BY <1>1
  <2> QED BY <2>1, <2>2, <1>1 DEF SolvingOK
<1>10. Live(graph') # {}
  BY <1>1, <1>6
<1>11. GraphOK(NodeValues, graph') /\ Carried(graph, graph') /\ Clean(graph', "pendings")
  BY <1>1, <1>6, <1>8
<1>12. pc \in {"solve", "walk", "rehang"} /\ pc' \in {"solve", "walk", "rehang"}
  BY <1>1
<1>13. QED
  BY <1>1, <1>9, <1>10, <1>11, <1>12, CarriedStep

(* A blocked node has a first dependee. *)
LEMMA FirstDependeeLive ==
  ASSUME NEW V, NEW g, GraphOK(V, g), NEW n \in Live(g), ~isPending(g, n)
  PROVE  /\ FirstDependee(g, n) \in DOMAIN g.edge
         /\ dependee(g, FirstDependee(g, n)) \in Live(g)
<1> DEFINE s == dependees(g, n)
<1>1. OnceIn(s) /\ ToSet(s) = OutOf(g, n)
  BY NodeEdges
<1>2. s # <<>>
  BY DEF isPending
<1>3. Head(s) \in ToSet(s)
  BY <1>1, <1>2, TailOnce
<1>4. Head(s) \in DOMAIN g.edge
  BY <1>1, <1>3 DEF OutOf
<1>5. QED
  BY <1>4, EdgeEnds DEF FirstDependee

(* At "walk", what the walk needs of the graph. *)
LEMMA AtWalk ==
  ASSUME IInv, pc \in {"walk", "rehang"}
  PROVE  /\ GraphOK(NodeValues, graph) /\ Clean(graph, "pendings") /\ Live(graph) # {}
         /\ solving.open \in Live(graph) /\ solving.close \in Live(graph)
         /\ solving.at \in Live(graph) /\ isHyperOpen(graph, solving.open)
BY DEF IInv, GraphHolds, SolvingOK, Left

(* solveCycle's nodes are still there afterwards. *)
LEMMA SolvingStays ==
  ASSUME NEW g, NEW h, SameLabels(g, h), NEW n \in Live(g)
  PROVE  n \in Live(h) /\ (isHyperOpen(g, n) => isHyperOpen(h, n))
BY DEF SameLabels, isHyperOpen

(* A node is flagged and left by its first edge. *)
LEMMA VisitStep ==
  ASSUME IInv, Visit
  PROVE  IInv'
<1> DEFINE n == solving.at
           h == SetFlag(graph, n, TRUE)
           e == FirstDependee(graph, n)
           r == dependee(graph, e)
<1>1. /\ pc = "walk" /\ pc' = pc /\ ~isPending(graph, n) /\ graph' = h
      /\ solving' = [solving EXCEPT !.at = r]
      /\ UNCHANGED <<declared, registered, moduleOrder>>
  BY DEF Visit, Walking, SetFlag
<1>2. /\ GraphOK(NodeValues, graph) /\ Clean(graph, "pendings") /\ Live(graph) # {}
      /\ solving.open \in Live(graph) /\ solving.close \in Live(graph)
      /\ n \in Live(graph) /\ isHyperOpen(graph, solving.open)
  BY <1>1, AtWalk
<1>3. r \in Live(graph)
  BY <1>1, <1>2, FirstDependeeLive
<1>4. Flagged(NodeValues, graph, h)
  BY <1>2, FlagDoes
<1> HIDE DEF h, r, n
<1>5. GraphOK(NodeValues, h) /\ Clean(h, "pendings") /\ SameLabels(graph, h)
  BY <1>2, <1>4, FlaggedLabels DEF Flagged
<1>6. Carried(graph, h) /\ Live(h) = Live(graph)
  BY <1>5, LabelsCarry DEF SameLabels
<1>7. SolvingOK'
  <2>1. solving'.open = solving.open /\ solving'.close = solving.close
    BY <1>1
  <2>2. solving'.at \in {r, solving.at}
    BY <1>1
  <2>3. isHyperOpen(h, solving.open)
    BY <1>2, <1>5, SolvingStays
  <2>4. {solving'.open, solving'.close, solving'.at} \subseteq Live(h)
    BY <2>1, <2>2, <1>2, <1>3, <1>6 DEF n
  <2> QED BY <2>1, <2>3, <2>4, <1>1 DEF SolvingOK
<1>8. GraphOK(NodeValues, graph') /\ Carried(graph, graph') /\ Clean(graph', "pendings")
      /\ Live(graph') # {}
  BY <1>1, <1>2, <1>5, <1>6
<1>9. pc \in {"solve", "walk", "rehang"} /\ pc' \in {"solve", "walk", "rehang"}
  BY <1>1
<1>10. QED
  BY <1>1, <1>7, <1>8, <1>9, CarriedStep

(* A node of the cycle is hung between the hyper nodes. *)
LEMMA RevisitStep ==
  ASSUME IInv, Revisit
  PROVE  IInv'
<1> DEFINE n == solving.at
           e == FirstDependee(graph, n)
           r == dependee(graph, e)
           a == attach(graph, solving.close, n)
           b == attach(a, n, solving.open)
           c == detach(b, e)
           h == SetFlag(c, n, FALSE)
<1>1. /\ pc = "walk" /\ pc' = pc /\ ~isPending(graph, n) /\ graph' = h
      /\ solving' = [solving EXCEPT !.at = r, !.front = IF @ = Nil THEN n ELSE @]
      /\ UNCHANGED <<declared, registered, moduleOrder>>
  BY DEF Revisit, Walking, SetFlag
<1>2. /\ GraphOK(NodeValues, graph) /\ Clean(graph, "pendings") /\ Live(graph) # {}
      /\ solving.open \in Live(graph) /\ solving.close \in Live(graph)
      /\ n \in Live(graph) /\ isHyperOpen(graph, solving.open)
  BY <1>1, AtWalk
<1>3. e \in DOMAIN graph.edge /\ r \in Live(graph)
  BY <1>1, <1>2, FirstDependeeLive
<1> HIDE DEF r, e
<1>4. Changed(NodeValues, graph, a, {})
  BY <1>2, AttachChanges
<1> HIDE DEF a
<1>5. GraphOK(NodeValues, a) /\ Clean(a, "pendings") /\ Live(a) = Live(graph)
      /\ Kept(NodeValues, graph, a) /\ e \in DOMAIN a.edge
  BY <1>2, <1>3, <1>4, KeptFacts DEF Changed
<1>6. Changed(NodeValues, a, c, {e})
  BY <1>2, <1>5, ReattachChanges
<1> HIDE DEF c
<1>7. GraphOK(NodeValues, c) /\ Clean(c, "pendings") /\ Live(c) = Live(graph)
      /\ SameLabels(graph, c)
  <2>1. Kept(NodeValues, a, c)
    BY <1>6 DEF Changed
  <2>2. Kept(NodeValues, graph, c)
    BY <2>1, <1>5, KeptTwice
  <2> QED BY <2>1, <2>2, <1>5, KeptFacts, KeptLabels
<1>8. Flagged(NodeValues, c, h)
  BY <1>2, <1>7, FlagDoes
<1> HIDE DEF h, n
<1>9. GraphOK(NodeValues, h) /\ Clean(h, "pendings") /\ SameLabels(graph, h)
  <2>1. SameLabels(c, h)
    BY <1>8, FlaggedLabels
  <2>2. SameLabels(graph, h)
    BY <2>1, <1>7 DEF SameLabels
  <2> QED BY <2>2, <1>7, <1>8 DEF Flagged
<1>10. Carried(graph, h) /\ Live(h) = Live(graph)
  BY <1>9, LabelsCarry DEF SameLabels
<1>11. SolvingOK'
  <2>1. solving'.open = solving.open /\ solving'.close = solving.close
    BY <1>1
  <2>2. solving'.at \in {r, solving.at}
    BY <1>1
  <2>3. isHyperOpen(h, solving.open)
    BY <1>2, <1>9, SolvingStays
  <2>4. {solving'.open, solving'.close, solving'.at} \subseteq Live(h)
    BY <2>1, <2>2, <1>2, <1>3, <1>10 DEF n
  <2> QED BY <2>1, <2>3, <2>4, <1>1 DEF SolvingOK
<1>12. GraphOK(NodeValues, graph') /\ Carried(graph, graph') /\ Clean(graph', "pendings")
      /\ Live(graph') # {}
  BY <1>1, <1>2, <1>9, <1>10
<1>13. pc \in {"solve", "walk", "rehang"} /\ pc' \in {"solve", "walk", "rehang"}
  BY <1>1
<1>14. QED
  BY <1>1, <1>11, <1>12, <1>13, CarriedStep

(* The edges of the cycle's nodes are moved to the hyper nodes. *)
LEMMA RehangStep ==
  ASSUME IInv, Rehang
  PROVE  IInv'
<1> DEFINE a == RehangAll(graph, dependers(graph, solving.open))
           h == attach(a, solving.close, solving.open)
<1>1. /\ pc = "rehang" /\ pc' = "solve" /\ graph' = h
      /\ UNCHANGED <<declared, registered, moduleOrder>>
  BY DEF Rehang
<1>2. /\ GraphOK(NodeValues, graph) /\ Clean(graph, "pendings") /\ Live(graph) # {}
      /\ solving.open \in Live(graph) /\ solving.close \in Live(graph)
      /\ isHyperOpen(graph, solving.open)
  BY <1>1, AtWalk
<1>3. Kept(NodeValues, graph, a)
  BY <1>2, RehangAllDoes
<1> HIDE DEF a
<1>4. GraphOK(NodeValues, a) /\ Clean(a, "pendings") /\ Live(a) = Live(graph)
  BY <1>2, <1>3, KeptFacts
<1>5. Kept(NodeValues, a, h)
  BY <1>2, <1>4, AttachChanges DEF Changed
<1> HIDE DEF h
<1>6. Kept(NodeValues, graph, h)
  BY <1>3, <1>5, KeptTwice
<1>7. GraphOK(NodeValues, h) /\ Live(h) = Live(graph)
  BY <1>6, KeptFacts
<1>8. Carried(graph, h)
  BY <1>6, KeptLabels, LabelsCarry
<1>9. GraphOK(NodeValues, graph') /\ Carried(graph, graph') /\ Live(graph') # {}
  BY <1>1, <1>2, <1>7, <1>8
<1>10. pc \in {"solve", "walk", "rehang"} /\ pc' \in {"solve", "walk", "rehang"} /\ pc' = "solve"
  BY <1>1
<1>11. QED
  BY <1>1, <1>9, <1>10, CarriedStep

(* A new element is appended. *)
LEMMA AppendOnce ==
  ASSUME NEW s \in Seq(Modules), IsInjective(s), NEW m \in Modules, m \notin ToSet(s)
  PROVE  /\ Append(s, m) \in Seq(Modules) /\ IsInjective(Append(s, m))
         /\ ToSet(Append(s, m)) = ToSet(s) \cup {m}
<1> DEFINE t == Append(s, m)
           N == Len(s)
<1>1. N \in Nat /\ DOMAIN s = 1 .. N /\ \A i, j \in 1 .. N : s[i] = s[j] => i = j
  BY DEF IsInjective
<1>2. t \in Seq(Modules) /\ Len(t) = N + 1 /\ t[N + 1] = m /\ \A i \in 1 .. N : t[i] = s[i]
  OBVIOUS
<1> HIDE DEF N, t
<1>3. DOMAIN t = 1 .. N + 1 /\ 1 .. N + 1 = 1 .. N \cup {N + 1}
  BY <1>1, <1>2
<1>4. \A i \in 1 .. N : s[i] \in ToSet(s)
  BY <1>1 DEF ToSet
<1>5. IsInjective(t)
  <2> SUFFICES ASSUME NEW i \in 1 .. N + 1, NEW j \in 1 .. N + 1, t[i] = t[j] PROVE i = j
    BY <1>3 DEF IsInjective
  <2>1. CASE i \in 1 .. N /\ j \in 1 .. N
    BY <2>1, <1>1, <1>2
  <2>2. CASE i = N + 1 /\ j = N + 1
    BY <2>2
  <2>3. CASE i \in 1 .. N /\ j = N + 1
    BY <2>3, <1>2, <1>4
  <2>4. CASE i = N + 1 /\ j \in 1 .. N
    BY <2>4, <1>2, <1>4
  <2> QED BY <2>1, <2>2, <2>3, <2>4, <1>3
<1>6. ToSet(t) = ToSet(s) \cup {m}
  BY <1>1, <1>2, <1>3 DEF ToSet
<1>7. QED
  BY <1>2, <1>5, <1>6 DEF t

-----------------------------------------------------------------------------
(* TakeTop, and the theorems. *)

(* A node is taken. *)
LEMMA TakeTopStep ==
  ASSUME IInv, TakeTop
  PROVE  IInv'
<1> DEFINE n == top(graph)
           g == pop(graph, n)
           hyper == isHyperOpen(g, n) \/ isHyperClose(g, n)
           v == g.node[n].value
           order == IF hyper THEN moduleOrder ELSE Append(moduleOrder, v)
           more == ~empty(g) \/ isCyclic(g)
<1>1. /\ pc = "solve" /\ ~isCyclic(graph) /\ graph' = g /\ moduleOrder' = order
      /\ pc' = IF more THEN "loop" ELSE "ordered"
      /\ UNCHANGED <<declared, registered>>
  BY DEF TakeTop
<1>2. /\ GraphOK(NodeValues, graph) /\ Live(graph) # {}
      /\ moduleOrder \in Seq(Modules) /\ IsInjective(moduleOrder)
      /\ OneEach(graph) /\ NodeModules(graph) \cap ToSet(moduleOrder) = {}
      /\ NodeModules(graph) \cup ToSet(moduleOrder) = Mentioned
  BY <1>1 DEF IInv, TypeOK, GraphHolds, Left, EachOnce
<1>3. n \in Pending(graph) /\ n \in Live(graph)
  <2>1. graph.pendings # Nil
    BY <1>1, <1>2, HeadsOf DEF isCyclic, empty
  <2> QED BY <2>1, <1>2, HeadsOf DEF top
<1>4. Popped(NodeValues, graph, g, n)
  BY <1>2, <1>3, PopDoes
<1> HIDE DEF g
<1>5. Taken(graph, g, n)
  BY <1>2, <1>3, <1>4, PoppedTaken
<1>6. GraphOK(NodeValues, g) /\ OneEach(g)
  BY <1>2, <1>4, <1>5 DEF Popped, Taken
<1>7. v \in NodeValues
  BY <1>2, <1>3, <1>5, NodeValue DEF Taken
<1>8. /\ order \in Seq(Modules) /\ IsInjective(order)
      /\ NodeModules(g) \cap ToSet(order) = {}
      /\ NodeModules(g) \cup ToSet(order) = Mentioned
  <2>1. CASE hyper
    BY <2>1, <1>2, <1>5 DEF Taken
  <2>2. CASE ~hyper
    <3>1. v \in Modules
      BY <2>2, <1>7 DEF NodeValues, isHyperOpen, isHyperClose
    <3>2. v \in NodeModules(graph) /\ NodeModules(g) = NodeModules(graph) \ {v}
      BY <2>2, <1>2, <1>5 DEF Taken
    <3>3. order = Append(moduleOrder, v)
      BY <2>2
    <3> HIDE DEF v, order
    <3>4. v \notin ToSet(moduleOrder)
      BY <3>2, <1>2
    <3>5. order \in Seq(Modules) /\ IsInjective(order) /\ ToSet(order) = ToSet(moduleOrder) \cup {v}
      BY <3>1, <3>3, <3>4, <1>2, AppendOnce
    <3> QED BY <3>2, <3>5, <1>2
  <2> QED BY <2>1, <2>2
<1>9. IF more THEN Live(g) # {} ELSE Live(g) = {}
  BY <1>6, HeadsOf DEF empty, isCyclic
<1> HIDE DEF order, more, n, v, hyper
<1>10. pc' \in {"loop", "ordered"} /\ (pc' = "loop" => Live(g) # {}) /\ (pc' = "ordered" => Live(g) = {})
  BY <1>1, <1>9
<1>11. TypeOK'
  BY <1>1, <1>8, <1>10 DEF IInv, TypeOK, Labels
<1>12. GraphHolds' /\ Registering' /\ SolvingOK'
  BY <1>1, <1>6, <1>10 DEF GraphHolds, Registering, SolvingOK
<1>13. EachOnce'
  <2>1. Mentioned' = Mentioned
    BY <1>1 DEF Mentioned, MentionedBy
  <2> QED BY <2>1, <1>1, <1>6, <1>8 DEF EachOnce
<1>14. Left'
  BY <1>1, <1>10 DEF Left
<1>15. QED
  BY <1>11, <1>12, <1>13, <1>14 DEF IInv

(* Every step keeps the invariant. *)
LEMMA NextHolds ==
  ASSUME IInv, [Next]_vars
  PROVE  IInv'
<1>1. CASE RegisterModule
  BY <1>1, RegisterStep
<1>2. CASE NoModules \/ Begin
  BY <1>2, RegisteredStep
<1>3. CASE Boundary \/ EndWalk \/ WalkOff \/ MakeBundles
  BY <1>3, QuietStep
<1>4. CASE TakeTop
  BY <1>4, TakeTopStep
<1>5. CASE OpenCycle
  BY <1>5, OpenCycleStep
<1>6. CASE Visit
  BY <1>6, VisitStep
<1>7. CASE Revisit
  BY <1>7, RevisitStep
<1>8. CASE Rehang
  BY <1>8, RehangStep
<1>9. CASE UNCHANGED vars
  BY <1>9 DEF vars, IInv, TypeOK, GraphHolds, Registering, SolvingOK, EachOnce, Left,
              Mentioned, MentionedBy
<1>10. QED
  BY <1>1, <1>2, <1>3, <1>4, <1>5, <1>6, <1>7, <1>8, <1>9 DEF Next, Solve, Over

(* The inductive invariant holds after every step. *)
THEOREM Invariance == Spec => []IInv
<1>1. Init => IInv
  BY InitHolds
<1>2. IInv /\ [Next]_vars => IInv'
  BY NextHolds
<1>3. QED
  BY <1>1, <1>2, PTL DEF Spec

(* Whatever makeDependency, pop and solveCycle attach, detach, steal and   *)
(* erase, in whatever order the cycles of the input make them: each node   *)
(* is in the list its dependees say, and an edge is in the lists of its    *)
(* two ends (TGraph).                                                      *)
THEOREM ListsAlwaysAgree == Spec => []ListsAgree
<1>1. IInv => ListsAgree
  BY OKIsWellFormed DEF IInv, GraphHolds, ListsAgree
<1>2. QED
  BY <1>1, Invariance, PTL

(* No module is taken twice, and in the end each one the input declares or *)
(* imports was.                                                            *)
MentionedOnce ==
  /\ IsInjective(moduleOrder)
  /\ pc = "ordered" => ToSet(moduleOrder) = Mentioned

(* makeBundles takes every module that is mentioned exactly once, whatever *)
(* hyper nodes came between.                                               *)
THEOREM MentionedModulesOnce == Spec => []MentionedOnce
<1>1. IInv => MentionedOnce
  <2> SUFFICES ASSUME IInv PROVE MentionedOnce
    OBVIOUS
  <2>1. pc = "ordered" => NodeModules(graph) = {}
    BY DEF IInv, Left, NodeModules
  <2> QED BY <2>1 DEF IInv, EachOnce, MentionedOnce
<1>2. QED
  BY <1>1, Invariance, PTL

(* When every import names a declared module, as FactMap::solveImports has *)
(* asserted, moduleOrder lists the declared modules, each once             *)
(* (ImportGraph::makeBundles).                                             *)
THEOREM ResolvedModulesOnce ==
  ASSUME \A input \in Inputs : Resolved(input)
  PROVE  Spec => []EveryModuleOnce
<1>1. IInv /\ MentionedOnce => EveryModuleOnce
  <2> SUFFICES ASSUME IInv, MentionedOnce PROVE EveryModuleOnce
    OBVIOUS
  <2>1. declared \in Inputs /\ DOMAIN declared = 1 .. Len(declared)
    BY DeclaredType DEF IInv, TypeOK
  <2>2. \A i \in DOMAIN declared : ToSet(declared[i].imports) \subseteq Declared
    BY <2>1 DEF Resolved, Declared
  <2>3. Mentioned = Declared
    BY <2>1, <2>2 DEF Mentioned, MentionedBy, Declared
  <2> QED BY <2>3 DEF MentionedOnce, EveryModuleOnce
<1>2. QED
  BY <1>1, Invariance, MentionedModulesOnce, PTL

=============================================================================
