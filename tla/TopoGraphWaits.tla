--------------------------- MODULE TopoGraphWaits ---------------------------
(***************************************************************************)
(* What the operations of TopoGraph mean to those who only ask which nodes *)
(* are there, what they hold and for which others they wait: the graph of  *)
(* schmit::TScheduler as sem::Context uses it.                             *)
(***************************************************************************)
EXTENDS TopoGraphProofs

(* The nodes a node depends upon. *)
Waits(g, n) == {dependee(g, e) : e \in OutOf(g, n)}

(* h is made from g: nodes that are in both hold the same. *)
Reshaped(V, g, h) ==
  /\ GraphOK(V, h)
  /\ DOMAIN g.node \subseteq DOMAIN h.node
  /\ \A x \in Live(g) \cap Live(h) : h.node[x].value = g.node[x].value

-----------------------------------------------------------------------------
(* Waiting and the lists. *)

(* A node waits for nodes that are there, and is pending when there are    *)
(* none.                                                                   *)
LEMMA WaitsLive ==
  ASSUME NEW V, NEW g, GraphOK(V, g)
  PROVE  /\ \A x : Waits(g, x) \subseteq Live(g)
         /\ \A x \in Live(g) : isPending(g, x) <=> Waits(g, x) = {}
         /\ Live(g) \subseteq DOMAIN g.node
<1>1. EdgesOK(V, g)
  BY DEF GraphOK
<1>2. \A x : Waits(g, x) \subseteq Live(g)
  BY <1>1 DEF EdgesOK, Waits, OutOf
<1>3. ASSUME NEW x \in Live(g) PROVE isPending(g, x) <=> Waits(g, x) = {}
  <2>1. dependees(g, x) \in Seq(Nat) /\ ToSet(dependees(g, x)) = OutOf(g, x)
    BY <1>1 DEF EdgesOK, OnceIn
  <2>2. dependees(g, x) = <<>> <=> OutOf(g, x) = {}
    <3>1. ToSet(<<>>) = {}
      BY DEF ToSet
    <3> QED BY <2>1, <3>1, NoneInto
  <2> QED BY <2>2 DEF isPending, Waits
<1>4. QED
  BY <1>2, <1>3 DEF Live

(* The heads of the lists are nodes of them, if there are any. *)
LEMMA Heads ==
  ASSUME NEW V, NEW g, GraphOK(V, g)
  PROVE  /\ empty(g) <=> Pending(g) = {}
         /\ g.blockeds = Nil <=> Blocked(g) = {}
         /\ ~empty(g) => top(g) \in Pending(g)
         /\ Live(g) = Pending(g) \cup Blocked(g)
         /\ Nil \notin Live(g)
<1>1. IsChain(g.node, g["pendings"], Pending(g)) /\ IsChain(g.node, g["blockeds"], Blocked(g))
  BY DEF GraphOK, Sides
<1>2. g["pendings"] = g.pendings /\ g["blockeds"] = g.blockeds
  OBVIOUS
<1>3. Live(g) = Pending(g) \cup Blocked(g)
  BY DEF Pending, Blocked
<1>4. /\ Pending(g) \subseteq DOMAIN g.node \ {Nil}
      /\ g["pendings"] \in Pending(g) \cup {Nil}
      /\ g["pendings"] = Nil <=> Pending(g) = {}
  BY <1>1, ChainEnds
<1>5. /\ Blocked(g) \subseteq DOMAIN g.node \ {Nil}
      /\ g["blockeds"] = Nil <=> Blocked(g) = {}
  BY <1>1, ChainEnds
<1>6. QED
  BY <1>2, <1>3, <1>4, <1>5 DEF empty, top

-----------------------------------------------------------------------------
(* makeNode and attach. *)

(* The new node waits for none. *)
NodeWaits(V, g, h, value) ==
  /\ Reshaped(V, g, h) /\ Clean(h, "pendings")
  /\ top(h) \notin Live(g) /\ Live(h) = Live(g) \cup {top(h)}
  /\ h.node[top(h)].value = value
  /\ Waits(h, top(h)) = {}
  /\ \A x \in Live(g) : Waits(h, x) = Waits(g, x)

(* makeNode: the cell is new or was erased, and nothing waits for it. *)
LEMMA MakeWaits ==
  ASSUME NEW V, NEW g, GraphOK(V, g), NEW value \in V
  PROVE  NodeWaits(V, g, makeNode(g, value), value)
<1> DEFINE h == makeNode(g, value)
<1>1. Made(V, g, h, value)
  BY MakeNodeDoes
<1> HIDE DEF h
<1>2. Reshaped(V, g, h) /\ top(h) \in Live(h)
  BY <1>1 DEF Made, Reshaped, Pending, top
<1>3. Waits(h, top(h)) = {}
  <2>1. isPending(h, top(h))
    BY <1>1 DEF Made, Pending, top
  <2> QED BY <2>1, <1>2, WaitsLive DEF Reshaped
<1>4. \A x : Waits(h, x) = Waits(g, x)
  <2>1. h.edge = g.edge
    BY <1>1 DEF Made
  <2> QED BY <2>1 DEF Waits, OutOf, depender, dependee
<1>5. QED
  BY <1>1, <1>2, <1>3, <1>4 DEF NodeWaits, Made, top, h

(* One more node to wait for. *)
AttachedWaits(V, g, h, l, r) ==
  /\ Reshaped(V, g, h) /\ (Clean(g, "pendings") => Clean(h, "pendings"))
  /\ Live(h) = Live(g)
  /\ \A x : Waits(h, x) = IF x = l THEN Waits(g, x) \cup {r} ELSE Waits(g, x)

(* attach: the depender waits for the dependee too. *)
LEMMA AttachWaits ==
  ASSUME NEW V, NEW g, GraphOK(V, g), NEW l \in Live(g), NEW r \in Live(g),
         isPending(g, l) => Clean(g, "pendings")
  PROVE  AttachedWaits(V, g, attach(g, l, r), l, r)
<1> DEFINE h == attach(g, l, r)
           e == NewEdge(g)
<1>1. Kept(V, g, h) /\ h.edge = EdgePlus(g.edge, e, l, r) /\ e \notin DOMAIN g.edge
  BY AttachDoes
<1> HIDE DEF h, e
<1>2. Live(h) = Live(g)
  BY <1>1, SameNodesLive DEF Kept
<1>3. DOMAIN h.edge = DOMAIN g.edge \cup {e} /\ h.edge[e] = <<l, r>>
      /\ \A x \in DOMAIN g.edge : h.edge[x] = g.edge[x]
  BY <1>1 DEF EdgePlus
<1>4. \A x \in DOMAIN h.edge : /\ depender(h, x) = IF x = e THEN l ELSE depender(g, x)
                               /\ dependee(h, x) = IF x = e THEN r ELSE dependee(g, x)
  BY <1>1, <1>3 DEF depender, dependee
<1>5. \A n : OutOf(h, n) = IF n = l THEN OutOf(g, n) \cup {e} ELSE OutOf(g, n)
  BY <1>1, <1>3, <1>4 DEF OutOf
<1>6. \A n : \A x \in OutOf(g, n) : dependee(h, x) = dependee(g, x)
  BY <1>1, <1>3, <1>4 DEF OutOf
<1>7. \A x : Waits(h, x) = IF x = l THEN Waits(g, x) \cup {r} ELSE Waits(g, x)
  <2> SUFFICES ASSUME NEW x
               PROVE  Waits(h, x) = IF x = l THEN Waits(g, x) \cup {r} ELSE Waits(g, x)
    OBVIOUS
  <2>1. CASE x # l
    BY <2>1, <1>5, <1>6 DEF Waits
  <2>2. CASE x = l
    <3>1. OutOf(h, x) = OutOf(g, x) \cup {e} /\ dependee(h, e) = r
      BY <2>2, <1>3, <1>4, <1>5
    <3>2. Waits(h, x) = {dependee(h, y) : y \in OutOf(g, x)} \cup {r}
      BY <3>1 DEF Waits
    <3>3. {dependee(h, y) : y \in OutOf(g, x)} = {dependee(g, y) : y \in OutOf(g, x)}
      BY <1>6
    <3> QED BY <2>2, <3>2, <3>3 DEF Waits
  <2> QED BY <2>1, <2>2
<1>8. Reshaped(V, g, h)
  BY <1>1 DEF Kept, SameNodes, Reshaped, Live
<1>9. QED
  BY <1>1, <1>2, <1>7, <1>8 DEF AttachedWaits, Kept, h

-----------------------------------------------------------------------------
(* detachAll and pop. *)

(* A graph without the edges into a node. *)
LEMMA LessWaits ==
  ASSUME NEW g, NEW h, NEW n, EdgesLess(g, h, Into(g, n))
  PROVE  \A x : Waits(h, x) = Waits(g, x) \ {n}
<1> SUFFICES ASSUME NEW x PROVE Waits(h, x) = Waits(g, x) \ {n}
  OBVIOUS
<1>1. \A e \in DOMAIN h.edge : e \in DOMAIN g.edge /\ depender(h, e) = depender(g, e)
                               /\ dependee(h, e) = dependee(g, e) /\ dependee(g, e) # n
  BY DEF EdgesLess, Into, depender, dependee
<1>2. \A e \in DOMAIN g.edge : dependee(g, e) # n => e \in DOMAIN h.edge
  BY DEF EdgesLess, Into
<1>3. ASSUME NEW y \in Waits(h, x) PROVE y \in Waits(g, x) \ {n}
  BY <1>1 DEF Waits, OutOf
<1>4. ASSUME NEW y \in Waits(g, x) \ {n} PROVE y \in Waits(h, x)
  <2>1. PICK e \in OutOf(g, x) : y = dependee(g, e)
    BY DEF Waits
  <2>2. e \in OutOf(h, x) /\ dependee(h, e) = y
    BY <2>1, <1>1, <1>2 DEF OutOf
  <2> QED BY <2>2 DEF Waits
<1>5. QED
  BY <1>3, <1>4

(* None waits for the node any more. *)
ReleasedWaits(V, g, h, n) ==
  /\ Reshaped(V, g, h) /\ (Clean(g, "pendings") => Clean(h, "pendings"))
  /\ Live(h) = Live(g)
  /\ \A x : Waits(h, x) = Waits(g, x) \ {n}

(* Of an erased node, detachAll finds no edges.                            *)
LEMMA DetachAllWaits ==
  ASSUME NEW V, NEW g, GraphOK(V, g), NEW n \in DOMAIN g.node
  PROVE  ReleasedWaits(V, g, detachAll(g, n), n)
<1> DEFINE h == detachAll(g, n)
<1>1. CASE n \in Live(g)
  <2>1. Kept(V, g, h) /\ EdgesLess(g, h, Into(g, n))
    BY <1>1, DetachAllDoes
  <2> HIDE DEF h
  <2>2. Live(h) = Live(g)
    BY <2>1, SameNodesLive DEF Kept
  <2>3. Reshaped(V, g, h)
    BY <2>1 DEF Kept, SameNodes, Reshaped, Live
  <2>4. \A x : Waits(h, x) = Waits(g, x) \ {n}
    BY <2>1, LessWaits
  <2> QED BY <2>1, <2>2, <2>3, <2>4 DEF ReleasedWaits, Kept, h
<1>2. CASE n \notin Live(g)
  <2>1. dependers(g, n) = <<>>
    BY <1>2 DEF GraphOK, EdgesOK
  <2>2. Len(dependers(g, n)) = 0
    BY <2>1
  <2>3. PICK after : /\ detachAll(g, n) = after[Len(dependers(g, n))]
                     /\ after[0] = g
    BY <2>2, DetachAllShape
  <2>4. h = g
    BY <2>2, <2>3
  <2>5. \A x : n \notin Waits(g, x)
    BY <1>2, WaitsLive
  <2>6. Reshaped(V, g, g)
    BY DEF Reshaped
  <2> QED BY <2>4, <2>5, <2>6 DEF ReleasedWaits
<1>3. QED
  BY <1>1, <1>2

(* A node is gone. *)
PoppedWaits(V, g, h, n) ==
  /\ Reshaped(V, g, h)
  /\ Live(h) = Live(g) \ {n}
  /\ \A x : Waits(h, x) = Waits(g, x) \ {n}

(* pop: what waited for the node does not any more. *)
LEMMA PopWaits ==
  ASSUME NEW V, NEW g, GraphOK(V, g), NEW n \in Pending(g)
  PROVE  PoppedWaits(V, g, pop(g, n), n)
<1> DEFINE h == pop(g, n)
<1>1. Popped(V, g, h, n)
  BY PopDoes
<1> HIDE DEF h
<1>2. \A x : Waits(h, x) = Waits(g, x) \ {n}
  BY <1>1, LessWaits DEF Popped
<1>3. Reshaped(V, g, h)
  BY <1>1 DEF Popped, SameValues, Reshaped, Live
<1>4. QED
  BY <1>1, <1>2, <1>3 DEF PoppedWaits, Popped, h

-----------------------------------------------------------------------------
(* forcePending. *)

(* The turns of cutAll, one after the other. *)
LEMMA CutAllShape ==
  ASSUME NEW g, NEW n, Len(dependees(g, n)) \in Nat
  PROVE  \E after : /\ cutAll(g, n) = after[Len(dependees(g, n))]
                    /\ after[0] = g
                    /\ \A k \in 1 .. Len(dependees(g, n)) :
                         after[k] = Cut(after[k - 1], dependees(g, n)[k])
<1> DEFINE edges == dependees(g, n)
           N == Len(edges)
           Is(h, m) == h = [k \in 0 .. m |-> IF k = 0 THEN g ELSE Cut(h[k - 1], edges[k])]
           P == {m \in Nat : \E h : Is(h, m)}
           after == CHOOSE h : Is(h, N)
<1>1. cutAll(g, n) = after[N]
  BY DEF cutAll
<1> HIDE DEF edges
<1>2. 0 \in P
  <2>1. Is([k \in 0 .. 0 |-> g], 0)
    OBVIOUS
  <2> QED BY <2>1
<1>3. ASSUME NEW m \in 0 .. N - 1, m \in P PROVE m + 1 \in P
  <2>1. PICK h : Is(h, m)
    BY <1>3
  <2> DEFINE q == [j \in 0 .. m + 1 |-> IF j = m + 1 THEN Cut(h[m], edges[m + 1]) ELSE h[j]]
  <2>2. m \in Nat /\ \A j \in 0 .. m :
          h[j] = IF j = 0 THEN g ELSE Cut(h[j - 1], edges[j])
    BY <2>1
  <2>3. (\A j \in 0 .. m : q[j] = h[j]) /\ q[m + 1] = Cut(h[m], edges[m + 1])
    BY <2>2
  <2>4. q = [j \in 0 .. m + 1 |-> q[j]]
    OBVIOUS
  <2> HIDE DEF q
  <2>5. \A j \in 0 .. m + 1 : q[j] = IF j = 0 THEN g ELSE Cut(q[j - 1], edges[j])
    BY <2>2, <2>3
  <2>6. Is(q, m + 1)
    BY <2>4, <2>5
  <2> QED BY <2>2, <2>6
<1>4. N \in Nat
  BY DEF edges
<1>5. N \in P
  <2> HIDE DEF P
  <2>1. 0 .. N \subseteq P
    BY <1>2, <1>3, <1>4, UpTo
  <2> QED BY <2>1, <1>4
<1>6. Is(after, N)
  BY <1>5
<1> HIDE DEF after
<1>7. after[0] = g /\ \A k \in 1 .. N : after[k] = Cut(after[k - 1], edges[k])
  BY <1>4, <1>6
<1>8. QED
  BY <1>1, <1>7 DEF edges

(* h is g without the edges D, which leave n; n is still where it was. *)
CutSoFar(V, g, h, n, D) ==
  /\ h \in GraphSet(V) /\ EdgesOK(V, h) /\ SameLinks(g, h)
  /\ EdgesLess(g, h, D)
  /\ \A m \in Live(g) \ {n} : isPending(h, m) <=> isPending(g, m)

(* All edges that leave the node are cut. *)
LEMMA CutAllDoes ==
  ASSUME NEW V, NEW g, EdgesOK(V, g), NEW n \in Live(g)
  PROVE  CutSoFar(V, g, cutAll(g, n), n, OutOf(g, n))
<1> DEFINE s == dependees(g, n)
           N == Len(s)
<1>1. OnceIn(s) /\ ToSet(s) = OutOf(g, n)
  BY DEF EdgesOK
<1>2. s \in Seq(Nat) /\ N \in Nat /\ DOMAIN s = 1 .. N
      /\ \A a, b \in 1 .. N : s[a] = s[b] => a = b
  BY <1>1 DEF OnceIn, IsInjective
<1>3. PICK after : /\ cutAll(g, n) = after[N]
                   /\ after[0] = g
                   /\ \A k \in 1 .. N : after[k] = Cut(after[k - 1], s[k])
  BY <1>2, CutAllShape
<1> HIDE DEF s, N
<1> DEFINE Done(k) == {s[i] : i \in 1 .. k}
           P == {k \in 0 .. N : CutSoFar(V, g, after[k], n, Done(k))}
<1>4. 0 \in P
  <2>1. Done(0) = {}
    OBVIOUS
  <2> HIDE DEF Done
  <2>2. CutSoFar(V, g, g, n, Done(0))
    BY <2>1 DEF CutSoFar, EdgesLess, SameLinks, EdgesOK
  <2> QED BY <2>2, <1>2, <1>3
<1>5. ASSUME NEW k \in 0 .. N - 1, k \in P PROVE k + 1 \in P
  <2> DEFINE c == after[k]
             h == after[k + 1]
             e == s[k + 1]
  <2>1. CutSoFar(V, g, c, n, Done(k))
    BY <1>5
  <2>2. k + 1 \in 1 .. N /\ (k + 1) - 1 = k
    BY <1>2
  <2>3. h = Cut(c, e)
    BY <2>2, <1>3
  <2>4. Done(k + 1) = Done(k) \cup {e} /\ e \notin Done(k)
    BY <2>2, <1>2
  <2>5. e \in DOMAIN g.edge /\ depender(g, e) = n
    BY <2>2, <1>1, <1>2 DEF ToSet, OutOf
  <2> HIDE DEF c, h, e, Done
  <2>6. e \in DOMAIN c.edge /\ depender(c, e) = n
    BY <2>1, <2>4, <2>5 DEF CutSoFar, EdgesLess, depender
  <2>7. WasCut(V, c, h, e, n)
    BY <2>1, <2>3, <2>6, CutDoes DEF CutSoFar
  <2>8. EdgesLess(g, h, Done(k + 1))
    BY <2>1, <2>4, <2>7 DEF CutSoFar, WasCut, EdgesLess, EdgeMinus, Restrict
  <2>9. SameLinks(g, h) /\ Live(c) = Live(g)
    BY <2>1, <2>7, LinksKeepLive DEF CutSoFar, WasCut, SameLinks
  <2>10. CutSoFar(V, g, h, n, Done(k + 1))
    BY <2>1, <2>7, <2>8, <2>9 DEF CutSoFar, WasCut
  <2> QED BY <2>2, <2>10 DEF h
<1>6. N \in P
  <2> HIDE DEF P
  <2>1. 0 .. N \subseteq P
    BY <1>2, <1>4, <1>5, UpTo
  <2> QED BY <2>1, <1>2
<1>7. Done(N) = OutOf(g, n)
  BY <1>1, <1>2 DEF ToSet
<1>8. QED
  BY <1>3, <1>6, <1>7

(* The node waits for none, and is stolen from _blockeds, whose head is    *)
(* always clean.                                                           *)
ForcedWaits(V, g, h, n) ==
  /\ Reshaped(V, g, h) /\ Clean(h, "pendings")
  /\ Live(h) = Live(g)
  /\ \A x : Waits(h, x) = IF x = n THEN {} ELSE Waits(g, x)

(* forcePending: the node waits for nothing. *)
LEMMA ForcePendingWaits ==
  ASSUME NEW V, NEW g, GraphOK(V, g), NEW n \in Blocked(g)
  PROVE  ForcedWaits(V, g, forcePending(g, n), n)
<1> DEFINE c == cutAll(g, n)
           h == forcePending(g, n)
           P == Pending(g)
           B == Blocked(g)
<1>1. n \in Live(g) /\ EdgesOK(V, g) /\ Sides(g, P, B) /\ P \cap B = {}
  BY DEF Blocked, Pending, GraphOK
<1>2. CutSoFar(V, g, c, n, OutOf(g, n))
  BY <1>1, CutAllDoes
<1>3. h = steal(c, "blockeds", "pendings", n)
  BY DEF forcePending
<1> HIDE DEF c, h
<1>4. \A x : OutOf(c, x) = IF x = n THEN {} ELSE OutOf(g, x)
  BY <1>2 DEF CutSoFar, EdgesLess, OutOf, depender
<1>5. Live(c) = Live(g)
  BY <1>2, LinksKeepLive DEF CutSoFar
<1>6. isPending(c, n)
  <2>1. dependees(c, n) \in Seq(Nat) /\ ToSet(dependees(c, n)) = {}
    BY <1>1, <1>2, <1>4, <1>5 DEF CutSoFar, EdgesOK, OnceIn
  <2> QED BY <2>1, NoneInto DEF isPending
<1>7. Pending(c) = P \cup {n} /\ Blocked(c) = B \ {n}
  BY <1>1, <1>2, <1>5, <1>6 DEF CutSoFar, Pending, Blocked
<1> HIDE DEF P, B
<1>8. Sides(c, P, B) /\ SameNodes(g, c)
  BY <1>1, <1>2, LinkedSides DEF CutSoFar
<1>9. Moved(V, c, h, "blockeds", "pendings", n, B, P)
  <2>1. c \in GraphSet(V) /\ B \cap P = {} /\ n \in B
    BY <1>1, <1>2 DEF CutSoFar, B
  <2>2. "pendings" \in Lists /\ "blockeds" \in Lists /\ "pendings" # "blockeds"
    BY DEF Lists
  <2>3. /\ IsChain(c.node, c["pendings"], P)
        /\ IsChain(c.node, c["blockeds"], B)
        /\ Clean(c, "blockeds")
    BY <1>8 DEF Sides
  <2> QED BY <2>1, <2>2, <2>3, <1>3, StealMoves
<1>10. h \in GraphSet(V) /\ Relinked(c, h)
  BY <1>9 DEF Moved
<1>11. EdgesOK(V, h) /\ Live(h) = Live(c) /\ Pending(h) = Pending(c) /\ Blocked(h) = Blocked(c)
  BY <1>2, <1>10, RelinkedKeeps DEF CutSoFar
<1>12. Sides(h, Pending(h), Blocked(h)) /\ Clean(h, "pendings")
  BY <1>7, <1>9, <1>11 DEF Moved, Sides
<1>13. Reshaped(V, g, h)
  <2>1. DOMAIN h.node = DOMAIN g.node
    BY <1>8, <1>10 DEF Relinked, SameNodes
  <2>2. \A x \in DOMAIN g.node : h.node[x].value = g.node[x].value
    BY <1>8, <1>10 DEF Relinked, SameNodes, SameCell
  <2> QED BY <2>1, <2>2, <1>11, <1>12 DEF Reshaped, GraphOK, Live
<1>14. \A x : Waits(h, x) = IF x = n THEN {} ELSE Waits(g, x)
  <2> SUFFICES ASSUME NEW x PROVE Waits(h, x) = IF x = n THEN {} ELSE Waits(g, x)
    OBVIOUS
  <2>1. h.edge = c.edge
    BY <1>10 DEF Relinked
  <2>2. OutOf(h, x) = OutOf(c, x)
    BY <2>1 DEF OutOf, depender
  <2>3. \A e \in OutOf(c, x) : dependee(h, e) = dependee(g, e)
    BY <2>1, <1>2 DEF CutSoFar, EdgesLess, OutOf, dependee
  <2>4. CASE x = n
    BY <2>4, <2>2, <1>4 DEF Waits
  <2>5. CASE x # n
    BY <2>5, <2>2, <2>3, <1>4 DEF Waits
  <2> QED BY <2>4, <2>5
<1>15. QED
  BY <1>5, <1>11, <1>12, <1>13, <1>14 DEF ForcedWaits, h

-----------------------------------------------------------------------------
(* The head of _pendings when it is made to wait. *)

(* attach leaves the heads and the values as steal does. *)
LEMMA AttachHeads ==
  ASSUME NEW g, NEW l, NEW r, NEW b, b = IF isPending(g, l) THEN steal(g, "pendings", "blockeds", l) ELSE g,
         NEW V, b \in GraphSet(V)
  PROVE  /\ attach(g, l, r).pendings = b["pendings"] /\ attach(g, l, r).blockeds = b["blockeds"]
         /\ attach(g, l, r).recycled = b.recycled
         /\ DOMAIN attach(g, l, r).node = DOMAIN b.node
         /\ \A x \in DOMAIN b.node : attach(g, l, r).node[x].value = b.node[x].value
<1> DEFINE e == NewEdge(g)
           E == EdgePlus(b.edge, e, l, r)
           N == [b.node EXCEPT ![l].dependees = <<e>> \o dependees(b, l)]
           M == [N EXCEPT ![r].dependers = <<e>> \o dependers(b, r)]
           h == attach(g, l, r)
<1>0. h = Rewire(b, E, l, <<e>> \o dependees(b, l), r, <<e>> \o dependers(b, r))
  BY DEF attach, Rewire, SetEdges, SetOut, SetInto, EdgePlus, dependees, dependers
<1>1. h = [[[b EXCEPT !.edge = E] EXCEPT !.node = N] EXCEPT !.node = M]
  <2> HIDE DEF h, E
  <2> QED BY <1>0 DEF Rewire, SetEdges, SetOut, SetInto, GraphSet
<1>2. DOMAIN N = DOMAIN b.node /\ DOMAIN M = DOMAIN b.node
  OBVIOUS
<1>3. \A x \in DOMAIN b.node : b.node[x] \in CellSet(V)
  BY DEF GraphSet
<1>4. \A x \in DOMAIN b.node : "value" \in DOMAIN b.node[x]
  BY <1>3 DEF CellSet
<1>5. \A x \in DOMAIN b.node : N[x].value = b.node[x].value /\ DOMAIN N[x] = DOMAIN b.node[x]
  BY <1>4
<1> HIDE DEF N
<1>6. \A x \in DOMAIN b.node : M[x].value = b.node[x].value
  BY <1>2, <1>4, <1>5
<1> HIDE DEF M, E, h
<1>7. h.node = M /\ h.recycled = b.recycled /\ h.pendings = b.pendings /\ h.blockeds = b.blockeds
  BY <1>1 DEF GraphSet
<1>8. b.pendings = b["pendings"] /\ b.blockeds = b["blockeds"]
  OBVIOUS
<1>9. QED
  BY <1>2, <1>6, <1>7, <1>8 DEF h


(* A new node that waits for itself: the head of _pendings is what it was, *)
(* and clean from now on.                                                  *)
LockWaits(V, g, h, value) ==
  /\ Reshaped(V, g, h) /\ Clean(h, "pendings") /\ top(h) = top(g)
  /\ h.blockeds \notin Live(g) /\ Live(h) = Live(g) \cup {h.blockeds}
  /\ h.node[h.blockeds].value = value
  /\ Waits(h, h.blockeds) = {h.blockeds}
  /\ \A x \in Live(g) : Waits(h, x) = Waits(g, x)

(* makeLock: the new node waits for itself, and _pendings has its head     *)
(* again.                                                                  *)
LEMMA MakeLockWaits ==
  ASSUME NEW V, NEW g, GraphOK(V, g), NEW value \in V, NEW h, NEW i,
         h = makeNode(g, value), i = attach(h, top(h), top(h))
  PROVE  LockWaits(V, g, i, value)
<1> DEFINE k == top(h)
           b == steal(h, "pendings", "blockeds", k)
<1>1. NodeWaits(V, g, h, value)
  BY MakeWaits
<1>2. GraphOK(V, h) /\ Clean(h, "pendings") /\ k \in Live(h)
  BY <1>1 DEF NodeWaits, Reshaped
<1>3. AttachedWaits(V, h, i, k, k)
  BY <1>2, AttachWaits
<1>4. h["pendings"] = k /\ h.node[k].next = g["pendings"] /\ h.node[k].prev = Nil /\ isPending(h, k)
      /\ g["pendings"] = top(g)
  <2>1. EdgesOK(V, g) /\ g["pendings"] \in DOMAIN g.node \cup {Nil}
    <3>1. EdgesOK(V, g) /\ IsChain(g.node, g["pendings"], Pending(g))
      BY DEF GraphOK, Sides
    <3> QED BY <3>1, ChainEnds
  <2>2. CellsMade(V, g, h, value, FreshCell(g))
    BY <2>1, MakeCells
  <2>3. h["pendings"] = k /\ g["pendings"] = top(g)
    BY DEF top
  <2>4. k = FreshCell(g) /\ h.node[k] = NewCell(value, g["pendings"])
    BY <2>2, <2>3 DEF CellsMade
  <2> HIDE DEF k
  <2> QED BY <2>3, <2>4 DEF NewCell, isPending, dependees
<1>5. Stolen(V, h, b, "pendings", "blockeds", k, g["pendings"], Nil, h["blockeds"])
  <2>1. /\ IsChain(h.node, h["pendings"], Pending(h)) /\ IsChain(h.node, h["blockeds"], Blocked(h))
        /\ h \in GraphSet(V)
    BY <1>2 DEF GraphOK, EdgesOK, Sides
  <2>2. Around(h.node, h["pendings"], Pending(h), k) /\ k \in DOMAIN h.node
    BY <1>2, <1>4, <2>1, ChainAt DEF Pending, Live
  <2>3. g["pendings"] \in DOMAIN h.node \cup {Nil} /\ h["blockeds"] \in DOMAIN h.node \cup {Nil}
    BY <2>1, <2>2, <1>4, ChainEnds DEF Around
  <2>4. "pendings" \in Lists /\ "blockeds" \in Lists /\ "pendings" # "blockeds"
    BY DEF Lists
  <2> HIDE DEF k, b
  <2>5. Stolen(V, h, steal(h, "pendings", "blockeds", k), "pendings", "blockeds", k,
                  h.node[k].next, h.node[k].prev, h["blockeds"])
    BY <2>1, <2>2, <2>3, <2>4, <1>4, StealDoes
  <2> QED BY <2>5, <1>4 DEF b
<1>6. i.pendings = b["pendings"] /\ i.blockeds = b["blockeds"]
  <2>1. b \in GraphSet(V) /\ b = IF isPending(h, k) THEN steal(h, "pendings", "blockeds", k) ELSE h
    BY <1>4, <1>5 DEF Stolen
  <2> HIDE DEF b, k
  <2>2. i = attach(h, k, k)
    BY DEF k
  <2> QED BY <2>1, <2>2, AttachHeads
<1>7. i.pendings = top(g) /\ i.blockeds = k
  BY <1>4, <1>5, <1>6 DEF Stolen
<1>8. Reshaped(V, g, i)
  BY <1>1, <1>3 DEF NodeWaits, AttachedWaits, Reshaped
<1>9. \A x \in Live(g) : x # k
  BY <1>1 DEF NodeWaits
<1>10. Live(i) = Live(g) \cup {k} /\ k \notin Live(g) /\ i.node[k].value = value
       /\ Waits(i, k) = {k} /\ \A x \in Live(g) : Waits(i, x) = Waits(g, x)
  BY <1>1, <1>3, <1>9 DEF NodeWaits, AttachedWaits, Reshaped
<1>11. QED
  <2>1. top(i) = top(g)
    BY <1>7 DEF top
  <2> HIDE DEF k
  <2> QED BY <1>2, <1>3, <1>7, <1>8, <1>10, <2>1 DEF LockWaits, AttachedWaits

(* h is g with other links and edges. *)
SameContents(g, h) ==
  /\ top(h) = top(g)
  /\ Live(h) = Live(g)
  /\ \A x \in DOMAIN g.node : h.node[x].value = g.node[x].value

(* Writing the _next of what is no cell does nothing. *)
LEMMA SetNextNowhere ==
  ASSUME NEW V, NEW g \in GraphSet(V), NEW n, n \notin DOMAIN g.node, NEW p
  PROVE  SetNext(g, n, p) = g
<1> DEFINE s == [g.node EXCEPT ![n] = [g.node[n] EXCEPT !.next = p]]
<1>1. s = g.node
  <2>1. g.node \in Seq(CellSet(V))
    BY DEF GraphSet
  <2>2. g.node = [x \in DOMAIN g.node |-> g.node[x]]
    BY <2>1
  <2> QED BY <2>2
<1>2. SetNext(g, n, p) = [g EXCEPT !.node = s]
  BY DEF SetNext
<1> HIDE DEF s
<1>3. QED
  BY <1>1, <1>2 DEF GraphSet

(* Where the head of _pendings has a stale _prev, it stays the head when   *)
(* it is made to wait: the lists break, and nothing else is lost.          *)
LEMMA AttachDirty ==
  ASSUME NEW V, NEW g, GraphOK(V, g), NEW r, ~empty(g), ~Clean(g, "pendings")
  PROVE  SameContents(g, attach(g, top(g), r))
<1> DEFINE n == top(g)
           next == g.node[n].next
           prev == g.node[n].prev
           first == g["blockeds"]
           g1 == LinkPrev(g, next, prev)
           g2 == SetNext(g1, prev, next)
           g3 == LinkPrev(g2, g2["blockeds"], n)
           g4 == SetPrev(g3, n, Nil)
           g5 == SetNext(g4, n, g3["blockeds"])
           b == SetHead(g5, "blockeds", n)
           h == attach(g, n, r)
           Tame(i) == /\ i \in GraphSet(V) /\ Relinked(g, i)
                      /\ i["pendings"] = g["pendings"] /\ i["blockeds"] = g["blockeds"]
<1>0. "pendings" \in Lists /\ "blockeds" \in Lists /\ "pendings" # "blockeds"
  BY DEF Lists
<1>1. /\ IsChain(g.node, g["pendings"], Pending(g)) /\ IsChain(g.node, g["blockeds"], Blocked(g))
      /\ g \in GraphSet(V) /\ g["pendings"] = n
  BY DEF GraphOK, EdgesOK, Sides, top
<1>2. n \in Pending(g) /\ isPending(g, n) /\ n \in DOMAIN g.node /\ n \in Nat
  BY Heads, LiveCells DEF Pending, GraphOK
<1>3. next \in DOMAIN g.node \cup {Nil} /\ first \in DOMAIN g.node \cup {Nil}
  BY <1>1, <1>2, ChainAt, ChainEnds DEF Around
<1>4. prev \in Nat /\ prev # Nil /\ next \in Nat /\ first \in Nat
  <2>1. g.node[n] \in CellSet(V) /\ g["blockeds"] \in Nat
    BY <1>0, <1>1, <1>2, HeadType DEF GraphSet
  <2> QED BY <2>1, <1>1 DEF CellSet, Clean
<1>5. steal(g, "pendings", "blockeds", n) = b
  BY <1>4 DEF steal, SetPrev, SetNext, SetHead
<1> HIDE DEF n, next, prev, first, h
<1>6. Tame(g1)
  <2>1. PrevSetIn(V, g, g1, next, prev)
    BY <1>1, <1>3, <1>4, LinkPrevDoes
  <2> QED BY <2>1, <1>0 DEF PrevSetIn
<1> HIDE DEF g1
<1>7. Tame(g2)
  <2>1. CASE prev \in DOMAIN g1.node
    <3>1. NextSetIn(V, g1, g2, prev, next)
      BY <2>1, <1>4, <1>6, SetNextDoes
    <3> QED BY <3>1, <1>0, <1>6, RelinkedChain DEF NextSetIn
  <2>2. CASE prev \notin DOMAIN g1.node
    <3>1. g2 = g1
      BY <2>2, <1>6, SetNextNowhere
    <3> QED BY <3>1, <1>6
  <2> QED BY <2>1, <2>2
<1> HIDE DEF g2
<1>8. Tame(g3)
  <2>1. g2["blockeds"] \in DOMAIN g2.node \cup {Nil}
    BY <1>3, <1>7 DEF Relinked, first
  <2>2. PrevSetIn(V, g2, g3, g2["blockeds"], n)
    BY <2>1, <1>2, <1>7, LinkPrevDoes
  <2> QED BY <2>2, <1>0, <1>7, RelinkedChain DEF PrevSetIn
<1> HIDE DEF g3
<1>9. Tame(g4)
  <2>1. n \in DOMAIN g3.node /\ Nil \in Nat
    BY <1>2, <1>8 DEF Relinked, Nil
  <2>2. PrevSetIn(V, g3, g4, n, Nil)
    BY <2>1, <1>8, SetPrevDoes
  <2> QED BY <2>2, <1>0, <1>8, RelinkedChain DEF PrevSetIn
<1> HIDE DEF g4
<1>10. Tame(g5)
  <2>1. n \in DOMAIN g4.node /\ g3["blockeds"] \in Nat
    BY <1>2, <1>4, <1>8, <1>9 DEF Relinked, first
  <2>2. NextSetIn(V, g4, g5, n, g3["blockeds"])
    BY <2>1, <1>9, SetNextDoes
  <2> QED BY <2>2, <1>0, <1>9, RelinkedChain DEF NextSetIn
<1> HIDE DEF g5
<1>11. b \in GraphSet(V) /\ Relinked(g, b) /\ b["pendings"] = g["pendings"]
  <2>1. HeadSetIn(V, g5, b, "blockeds", n)
    BY <1>0, <1>2, <1>10, SetHeadDoes
  <2> QED BY <2>1, <1>0, <1>10, RelinkedChain DEF HeadSetIn
<1>12. /\ h.pendings = b["pendings"] /\ h.recycled = b.recycled /\ DOMAIN h.node = DOMAIN b.node
       /\ \A x \in DOMAIN b.node : h.node[x].value = b.node[x].value
  <2>1. b = IF isPending(g, n) THEN steal(g, "pendings", "blockeds", n) ELSE g
    BY <1>2, <1>5
  <2> HIDE DEF b
  <2> QED BY <2>1, <1>11, AttachHeads DEF h
<1>13. top(h) = top(g)
  BY <1>1, <1>11, <1>12 DEF top
<1>14. Live(h) = Live(g) /\ \A x \in DOMAIN g.node : h.node[x].value = g.node[x].value
  BY <1>11, <1>12 DEF Relinked, SameCell, Live
<1>15. QED
  BY <1>13, <1>14 DEF SameContents, h, n

=============================================================================
