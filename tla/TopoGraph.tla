----------------------------- MODULE TopoGraph -----------------------------
(***************************************************************************)
(* topo::TGraph, the dependency graph behind sem::ImportGraph and schmit:: *)
(* Scheduler.  A node without dependees is in the list _pendings, any      *)
(* other one is in _blockeds.  Nodes move from one list to the other, so   *)
(* these lists are kept cell by cell: what steal and erase do depends on   *)
(* the _next and _prev of a cell, and pop_front leaves a stale _prev       *)
(* behind.  The edge lists of a node are never stolen from: sequences,     *)
(* front first.  The memory of an erased node stays readable, until the    *)
(* pool makes a new node of it, the last recycled one first.               *)
(***************************************************************************)
EXTENDS Integers, Sequences, FiniteSets, SequencesExt, Functions

Nil == 0      \* nullptr; the cells are numbered from 1

EmptyGraph ==
  [node     |-> <<>>,    \* the cells the pool has made so far
   edge     |-> <<>>,    \* edge -> <<_dependerNode, _dependeeNode>>
   pendings |-> Nil,     \* the heads of the lists
   blockeds |-> Nil,
   recycled |-> <<>>]    \* the cells the pool got back, last one first

dependees(g, n) == g.node[n].dependees
dependers(g, n) == g.node[n].dependers
depender(g, e) == g.edge[e][1]
dependee(g, e) == g.edge[e][2]

isPending(g, n) == dependees(g, n) = <<>>
empty(g) == g.pendings = Nil
isCyclic(g) == empty(g) /\ g.blockeds # Nil
top(g) == g.pendings

-----------------------------------------------------------------------------
(* list::TList and list::steal *)

LinkPrev(g, n, prev) == IF n = Nil THEN g ELSE [g EXCEPT !.node[n].prev = prev]

(* Slip: the cell behind the stolen one keeps its _prev. *)
StealUnlinked(g, from, to, n) ==
  LET next == g.node[n].next
      prev == g.node[n].prev
      cut  == IF prev = Nil
              THEN [g EXCEPT ![from] = g.node[g[from]].next]
              ELSE [g EXCEPT !.node[prev].next = next]
      link == LinkPrev(cut, cut[to], n)
  IN  [link EXCEPT !.node[n].prev = Nil, !.node[n].next = link[to], ![to] = n]

(* steal(to, from, n): the cell moves to the front of the other list.  A   *)
(* cell with a _prev is never taken for the head.                          *)
steal(g, from, to, n) ==
  LET next == g.node[n].next
      prev == g.node[n].prev
      next_linked == LinkPrev(g, next, prev)
      cut  == IF prev = Nil
              THEN [next_linked EXCEPT ![from] = g.node[g[from]].next]
              ELSE [next_linked EXCEPT !.node[prev].next = next]
      link == LinkPrev(cut, cut[to], n)
  IN  [link EXCEPT !.node[n].prev = Nil, !.node[n].next = link[to], ![to] = n]

(* _pendings.erase(n); the head is popped without a look at its _prev. *)
erase(g, n) ==
  LET next == g.node[n].next
      prev == g.node[n].prev
      cut  == IF g.pendings = n
              THEN [g EXCEPT !.pendings = next]
              ELSE LinkPrev([g EXCEPT !.node[prev].next = next], next, prev)
  IN  [cut EXCEPT !.recycled = <<n>> \o @]

-----------------------------------------------------------------------------
(* A cell of the pool becomes the head of _pendings. *)
makeNode(g, value) ==
  LET n == IF g.recycled = <<>> THEN Len(g.node) + 1 ELSE Head(g.recycled)
      link == LinkPrev(g, g.pendings, n)
      cell == [value |-> value, withinCycle |-> FALSE,
               dependees |-> <<>>, dependers |-> <<>>,
               next |-> g.pendings, prev |-> Nil]
  IN  [link EXCEPT
         !.node = IF n > Len(@) THEN Append(@, cell) ELSE [@ EXCEPT ![n] = cell],
         !.recycled = IF @ = <<>> THEN @ ELSE Tail(@),
         !.pendings = n]

(* The number of the next edge: the list of the edges itself is not read.  *)
NewEdge(g) == CHOOSE e \in 1 .. Cardinality(DOMAIN g.edge) + 1 : e \notin DOMAIN g.edge

(* lhs depends upon rhs *)
attach(g, lhs, rhs) ==
  LET blocked == IF isPending(g, lhs) THEN steal(g, "pendings", "blockeds", lhs)
                                      ELSE g
      e == NewEdge(g)
  IN  [blocked EXCEPT
         !.edge = [x \in DOMAIN @ \cup {e} |-> IF x = e THEN <<lhs, rhs>> ELSE @[x]],
         !.node[lhs].dependees = <<e>> \o @,
         !.node[rhs].dependers = <<e>> \o @]

Without(edges, e) == RemoveAt(edges, CHOOSE i \in DOMAIN edges : edges[i] = e)

(* TEdge::detach, and the edge is erased *)
Cut(g, e) ==
  [g EXCEPT !.edge = Restrict(@, DOMAIN @ \ {e}),
            !.node[depender(g, e)].dependees = Without(@, e),
            !.node[dependee(g, e)].dependers = Without(@, e)]

detach(g, e) ==
  LET lhs == depender(g, e)
      cut == Cut(g, e)
  IN  IF isPending(cut, lhs) THEN steal(cut, "blockeds", "pendings", lhs) ELSE cut

(* The loops over the edges of a node; after[k] is the graph after k turns. *)
detachAll(g, n) ==
  LET edges == dependers(g, n)
      after[k \in 0 .. Len(edges)] ==
        IF k = 0 THEN g ELSE detach(after[k - 1], edges[k])
  IN  after[Len(edges)]

cutAll(g, n) ==
  LET edges == dependees(g, n)
      after[k \in 0 .. Len(edges)] ==
        IF k = 0 THEN g ELSE Cut(after[k - 1], edges[k])
  IN  after[Len(edges)]

(* Slip: the node is not moved. *)
ForcePendingStays(g, n) == cutAll(g, n)

(* Whatever the node depends upon, it is moved. *)
forcePending(g, n) == steal(cutAll(g, n), "blockeds", "pendings", n)

pop(g, n) == erase(detachAll(g, n), n)

-----------------------------------------------------------------------------
(* The cells of a list, in at most as many hops as there are cells. *)
Reach(g, head) ==
  LET hop[k \in 0 .. Len(g.node)] ==
        IF k = 0 THEN head
        ELSE IF hop[k - 1] = Nil THEN Nil ELSE g.node[hop[k - 1]].next
  IN  {hop[k] : k \in 0 .. Len(g.node)} \ {Nil}

Live(g) == DOMAIN g.node \ ToSet(g.recycled)

(* The lists hold what their names say, and the lists of edges agree.      *)
WellFormed(g) ==
  /\ Reach(g, g.pendings) = {n \in Live(g) : isPending(g, n)}
  /\ Reach(g, g.blockeds) = {n \in Live(g) : ~isPending(g, n)}
  /\ \A n \in Live(g) :
       /\ ToSet(dependees(g, n)) = {e \in DOMAIN g.edge : depender(g, e) = n}
       /\ ToSet(dependers(g, n)) = {e \in DOMAIN g.edge : dependee(g, e) = n}

=============================================================================
