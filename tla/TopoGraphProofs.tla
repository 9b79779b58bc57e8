--------------------------- MODULE TopoGraphProofs --------------------------
(***************************************************************************)
(* What the operations of TopoGraph do to a graph whose lists and edges    *)
(* agree, for graphs of every size.  GraphOK is what they keep; it gives   *)
(* WellFormed.  A lemma that ends in Does says what one operation does, by *)
(* a predicate that relates the graph before it to the one after it: later *)
(* proofs use the predicate and never expand the operation again.          *)
(***************************************************************************)
EXTENDS TopoGraph, SequenceTheorems, FiniteSetTheorems, TLAPS

-----------------------------------------------------------------------------
(* Cells and graphs, and what writing one field of one cell does. *)

(* The cells whose values are in V. *)
CellSet(V) == [value : V, withinCycle : BOOLEAN, dependees : Seq(Nat), dependers : Seq(Nat),
            next : Nat, prev : Nat]
EdgeSet == UNION {[D -> Nat \X Nat] : D \in SUBSET Nat}
GraphSet(V) == [node : Seq(CellSet(V)), edge : EdgeSet, pendings : Nat, blockeds : Nat, recycled : Seq(Nat)]

(* Two cells that differ in their links at most. *)
SameCell(c, d) ==
  /\ d.value = c.value /\ d.withinCycle = c.withinCycle
  /\ d.dependees = c.dependees /\ d.dependers = c.dependers

(* h is g but for the links of its cells and the heads of its lists. *)
Relinked(g, h) ==
  /\ h.edge = g.edge /\ h.recycled = g.recycled
  /\ DOMAIN h.node = DOMAIN g.node
  /\ \A x \in DOMAIN g.node : SameCell(g.node[x], h.node[x])

(* Replacing an element of a sequence. *)
LEMMA PutCell ==
  ASSUME NEW C, NEW s \in Seq(C), NEW n \in DOMAIN s, NEW c \in C
  PROVE  /\ [s EXCEPT ![n] = c] \in Seq(C)
         /\ DOMAIN [s EXCEPT ![n] = c] = DOMAIN s
         /\ [s EXCEPT ![n] = c][n] = c
         /\ \A x \in DOMAIN s \ {n} : [s EXCEPT ![n] = c][x] = s[x]
OBVIOUS

(* Replacing the _prev of a cell. *)
LEMMA PutPrev ==
  ASSUME NEW V, NEW c \in CellSet(V), NEW p \in Nat
  PROVE  /\ [c EXCEPT !.prev = p] \in CellSet(V)
         /\ SameCell(c, [c EXCEPT !.prev = p])
         /\ [c EXCEPT !.prev = p].next = c.next
         /\ [c EXCEPT !.prev = p].prev = p
BY DEF CellSet, SameCell

(* Replacing the cells of a graph. *)
LEMMA PutNode ==
  ASSUME NEW V, NEW g \in GraphSet(V), NEW s \in Seq(CellSet(V))
  PROVE  /\ [g EXCEPT !.node = s] \in GraphSet(V)
         /\ [g EXCEPT !.node = s].node = s
         /\ [g EXCEPT !.node = s].edge = g.edge
         /\ [g EXCEPT !.node = s].pendings = g.pendings
         /\ [g EXCEPT !.node = s].blockeds = g.blockeds
         /\ [g EXCEPT !.node = s].recycled = g.recycled
BY DEF GraphSet

(* Writing the _prev of a cell changes nothing else. *)
LEMMA PrevSet ==
  ASSUME NEW V, NEW g \in GraphSet(V), NEW n \in DOMAIN g.node, NEW p \in Nat
  PROVE  LET h == [g EXCEPT !.node[n].prev = p] IN
         /\ h \in GraphSet(V) /\ Relinked(g, h)
         /\ h.pendings = g.pendings /\ h.blockeds = g.blockeds
         /\ h.node[n].prev = p /\ h.node[n].next = g.node[n].next
         /\ \A x \in DOMAIN g.node \ {n} : h.node[x] = g.node[x]
<1> DEFINE c == [g.node[n] EXCEPT !.prev = p]
           s == [g.node EXCEPT ![n] = c]
           h == [g EXCEPT !.node = s]
<1>1. g.node \in Seq(CellSet(V)) /\ g.node[n] \in CellSet(V)
  BY DEF GraphSet
<1>2. c \in CellSet(V) /\ SameCell(g.node[n], c) /\ c.next = g.node[n].next /\ c.prev = p
  BY <1>1, PutPrev
<1> HIDE DEF c
<1>3. /\ s \in Seq(CellSet(V)) /\ DOMAIN s = DOMAIN g.node /\ s[n] = c
      /\ \A x \in DOMAIN g.node \ {n} : s[x] = g.node[x]
  BY <1>1, <1>2, PutCell
<1> HIDE DEF s
<1>4. h \in GraphSet(V) /\ h.node = s /\ h.edge = g.edge /\ h.pendings = g.pendings
      /\ h.blockeds = g.blockeds /\ h.recycled = g.recycled
  BY <1>3, PutNode
<1>5. [g EXCEPT !.node[n].prev = p] = h
  BY DEF h, s, c
<1> HIDE DEF h
<1>6. \A x \in DOMAIN g.node : SameCell(g.node[x], h.node[x])
  BY <1>2, <1>3, <1>4 DEF SameCell
<1>7. QED
  BY <1>2, <1>3, <1>4, <1>5, <1>6 DEF Relinked

(* The two lists that are kept cell by cell. *)
Lists == {"pendings", "blockeds"}

(* Writing the head of a list changes nothing else. *)
LEMMA HeadSet ==
  ASSUME NEW V, NEW g \in GraphSet(V), NEW l \in Lists, NEW p \in Nat
  PROVE  LET h == [g EXCEPT ![l] = p] IN
         /\ h \in GraphSet(V) /\ Relinked(g, h) /\ h.node = g.node
         /\ h[l] = p
         /\ \A k \in Lists \ {l} : h[k] = g[k]
<1>1. CASE l = "pendings"
  BY <1>1 DEF GraphSet, Lists, Relinked, SameCell
<1>2. CASE l = "blockeds"
  BY <1>2 DEF GraphSet, Lists, Relinked, SameCell
<1> QED BY <1>1, <1>2 DEF Lists

(* The head of a list is a cell or Nil, a number. *)
LEMMA HeadType ==
  ASSUME NEW V, NEW g \in GraphSet(V), NEW l \in Lists
  PROVE  g[l] \in Nat
BY DEF GraphSet, Lists

(* LinkPrev writes the _prev of a cell, if there is one. *)
LEMMA PrevLinked ==
  ASSUME NEW V, NEW g \in GraphSet(V), NEW n \in DOMAIN g.node \cup {Nil}, NEW p \in Nat
  PROVE  LET h == LinkPrev(g, n, p) IN
         /\ h \in GraphSet(V) /\ Relinked(g, h)
         /\ \A l \in Lists : h[l] = g[l]
         /\ \A x \in DOMAIN g.node :
              /\ h.node[x].next = g.node[x].next
              /\ h.node[x].prev = IF x = n THEN p ELSE g.node[x].prev
<1>0. Nil \notin DOMAIN g.node
  BY DEF GraphSet, Nil
<1>1. CASE n = Nil
  BY <1>0, <1>1 DEF LinkPrev, Relinked, SameCell
<1>2. CASE n # Nil
  <2> DEFINE h == [g EXCEPT !.node[n].prev = p]
  <2>1. n \in DOMAIN g.node
    BY <1>2
  <2>2. /\ h \in GraphSet(V) /\ Relinked(g, h)
         /\ h.pendings = g.pendings /\ h.blockeds = g.blockeds
         /\ h.node[n].prev = p /\ h.node[n].next = g.node[n].next
         /\ \A x \in DOMAIN g.node \ {n} : h.node[x] = g.node[x]
    BY <2>1, PrevSet
  <2>3. LinkPrev(g, n, p) = h
    BY <1>2 DEF LinkPrev
  <2> HIDE DEF h
  <2>4. \A l \in Lists : h[l] = g[l]
    BY <2>2 DEF Lists
  <2>5. \A x \in DOMAIN g.node :
              /\ h.node[x].next = g.node[x].next
              /\ h.node[x].prev = IF x = n THEN p ELSE g.node[x].prev
    BY <2>2
  <2> QED BY <2>2, <2>3, <2>4, <2>5
<1> QED BY <1>1, <1>2

-----------------------------------------------------------------------------
(* The cells of a list, as a chain: a rank r numbers the cells of S from   *)
(* the head on.  Induction over the ranks goes through the least element   *)
(* of a set.                                                               *)

(* A set of numbers that is not empty has a least one. *)
LEMMA LeastNatural ==
  ASSUME NEW T, T \subseteq Nat, T # {}
  PROVE  \E x \in T : \A y \in T : x <= y
<1> DEFINE Below == {0 .. x : x \in T}
<1>1. /\ IsWellFoundedOn(StrictSubsetOrdering(Nat), FiniteSubsetsOf(Nat))
  BY FS_StrictSubsetOrderingWellFounded
<1>2. Below \subseteq FiniteSubsetsOf(Nat) /\ Below # {}
  <2>1. ASSUME NEW x \in T PROVE 0 .. x \in FiniteSubsetsOf(Nat)
    <3>1. IsFiniteSet(0 .. x)
      BY FS_Interval
    <3>2. QED
      BY <3>1 DEF FiniteSubsetsOf
  <2>2. QED
    BY <2>1
<1>3. PICK B \in Below : \A C \in Below : ~(<<C, B>> \in StrictSubsetOrdering(Nat))
  BY <1>1, <1>2, WFMin
<1>4. PICK x \in T : B = 0 .. x
  OBVIOUS
<1>5. ASSUME NEW y \in T, y < x PROVE FALSE
  <2>1. 0 .. y \in Below
    OBVIOUS
  <2>2. 0 .. y \subseteq 0 .. x /\ 0 .. y # 0 .. x /\ 0 .. y \in SUBSET Nat /\ 0 .. x \in SUBSET Nat
    BY <1>5
  <2>3. <<0 .. y, B>> \in StrictSubsetOrdering(Nat)
    BY <2>2, <1>4 DEF StrictSubsetOrdering
  <2>4. QED
    BY <2>1, <2>3, <1>3
<1>6. QED
  BY <1>5

(* From head on, _next leads through the cells of S, each once and r       *)
(* counts them; _prev leads back, but from the head, whose _prev may be    *)
(* stale.                                                                  *)
Chain(c, head, S, r) ==
  /\ S \subseteq DOMAIN c \ {Nil}
  /\ r \in [S -> Nat \ {0}]
  /\ \A m, n \in S : r[m] = r[n] => m = n
  /\ IF S = {} THEN head = Nil ELSE head \in S /\ r[head] = 1
  /\ \A n \in S :
       /\ \/ c[n].next = Nil
          \/ c[n].next \in S /\ r[c[n].next] = r[n] + 1 /\ c[c[n].next].prev = n
       /\ n # head => c[n].prev \in S /\ c[c[n].prev].next = n

(* The cells of S make a list from head on. *)
IsChain(c, head, S) == \E r \in [S -> Nat \ {0}] : Chain(c, head, S, r)

(* A list is what the links of its cells make of it. *)
LEMMA ChainSame ==
  ASSUME NEW c, NEW head, NEW S, IsChain(c, head, S), NEW d, S \subseteq DOMAIN d,
         \A x \in S : d[x].next = c[x].next /\ d[x].prev = c[x].prev
  PROVE  IsChain(d, head, S)
<1>1. PICK r \in [S -> Nat \ {0}] : Chain(c, head, S, r)
  BY DEF IsChain
<1>2. Chain(d, head, S, r)
  BY <1>1 DEF Chain
<1>3. QED
  BY <1>2 DEF IsChain

(* A cell is pushed in front of a list. *)
LEMMA ChainPush ==
  ASSUME NEW c, NEW head, NEW S, IsChain(c, head, S),
         NEW n, n \notin S, n # Nil, NEW d, S \cup {n} \subseteq DOMAIN d,
         d[n].next = head,
         \A x \in S : /\ d[x].next = c[x].next
                      /\ d[x].prev = IF x = head THEN n ELSE c[x].prev
  PROVE  IsChain(d, n, S \cup {n})
<1>1. PICK r \in [S -> Nat \ {0}] : Chain(c, head, S, r)
  BY DEF IsChain
<1> DEFINE q == [m \in S \cup {n} |-> IF m = n THEN 1 ELSE r[m] + 1]
<1>2. q \in [S \cup {n} -> Nat \ {0}]
  OBVIOUS
<1>3. \A m \in S : q[m] = r[m] + 1 /\ q[m] # 1 /\ r[m] \in Nat \ {0}
  OBVIOUS
<1>4. q[n] = 1
  OBVIOUS
<1> HIDE DEF q
<1>5. \A x, y \in S \cup {n} : q[x] = q[y] => x = y
  BY <1>1, <1>3, <1>4 DEF Chain
<1>6. ASSUME NEW x \in S \cup {n}
      PROVE  \/ d[x].next = Nil
             \/ d[x].next \in S \cup {n} /\ q[d[x].next] = q[x] + 1 /\ d[d[x].next].prev = x
  <2>1. CASE x = n
    <3>1. CASE S = {}
      BY <3>1, <2>1, <1>1 DEF Chain
    <3>2. CASE S # {}
      BY <3>2, <2>1, <1>1, <1>3, <1>4 DEF Chain
    <3> QED BY <3>1, <3>2
  <2>2. CASE x \in S /\ c[x].next # Nil
    <3>1. c[x].next \in S /\ r[c[x].next] = r[x] + 1 /\ c[c[x].next].prev = x
      BY <2>2, <1>1 DEF Chain
    <3>2. c[x].next # head
      BY <3>1, <2>2, <1>1, <1>3 DEF Chain
    <3> QED BY <3>1, <3>2, <2>2, <1>3
  <2>3. CASE x \in S /\ c[x].next = Nil
    BY <2>3
  <2> QED BY <2>1, <2>2, <2>3
<1>7. ASSUME NEW x \in S \cup {n}, x # n
      PROVE  d[x].prev \in S \cup {n} /\ d[d[x].prev].next = x
  <2>1. CASE x = head
    BY <1>7, <2>1, <1>1 DEF Chain
  <2>2. CASE x # head
    BY <1>7, <2>2, <1>1 DEF Chain
  <2> QED BY <2>1, <2>2
<1>8. Chain(d, n, S \cup {n}, q)
  <2>1. S \cup {n} \subseteq DOMAIN d \ {Nil}
    BY <1>1 DEF Chain
  <2>2. IF S \cup {n} = {} THEN n = Nil ELSE n \in S \cup {n} /\ q[n] = 1
    BY <1>4
  <2> QED BY <2>1, <2>2, <1>2, <1>5, <1>6, <1>7 DEF Chain
<1>9. QED
  BY <1>2, <1>8 DEF IsChain

(* A list of more than its head has a second element. *)
LEMMA ChainSecond ==
  ASSUME NEW c, NEW head, NEW S, NEW r, Chain(c, head, S, r), NEW x \in S, x # head
  PROVE  c[head].next # Nil
<1> DEFINE T == {r[m] : m \in S \ {head}}
<1>1. T \subseteq Nat /\ T # {}
  BY DEF Chain
<1>2. PICK m \in S \ {head} : \A y \in S \ {head} : r[m] <= r[y]
  <2>1. PICK t \in T : \A y \in T : t <= y
    BY <1>1, LeastNatural
  <2>2. PICK m \in S \ {head} : t = r[m]
    OBVIOUS
  <2> QED BY <2>1, <2>2
<1>3. c[m].prev \in S /\ c[c[m].prev].next = m
  BY DEF Chain
<1>4. m # Nil /\ c[m].prev # m
  BY <1>3 DEF Chain
<1>5. r[m] = r[c[m].prev] + 1
  BY <1>3, <1>4 DEF Chain
<1>6. c[m].prev = head
  <2>1. r[c[m].prev] \in Nat /\ r[m] \in Nat
    BY <1>3 DEF Chain
  <2>2. QED
    BY <1>2, <1>3, <1>5, <2>1
<1>7. QED
  BY <1>3, <1>4, <1>6

(* d is c but for n, which its neighbours no longer know; first is the head *)
(* that is left, whatever its _prev. *)
Unlinked(c, d, head, first, S, n) ==
  /\ S \ {n} \subseteq DOMAIN d
  /\ first = IF head = n THEN c[n].next ELSE head
  /\ \A x \in S \ {n} :
       /\ d[x].next = IF c[x].next = n THEN c[n].next ELSE c[x].next
       /\ x # first =>
            d[x].prev = IF x = c[n].next THEN c[n].prev ELSE c[x].prev

(* A list without one of its cells is a list. *)
LEMMA ChainDrop ==
  ASSUME NEW c, NEW head, NEW S, IsChain(c, head, S), NEW n \in S,
         NEW d, NEW first, Unlinked(c, d, head, first, S, n)
  PROVE  IsChain(d, first, S \ {n})
<1>0. /\ S \ {n} \subseteq DOMAIN d
      /\ first = IF head = n THEN c[n].next ELSE head
      /\ \A x \in S \ {n} :
           /\ d[x].next = IF c[x].next = n THEN c[n].next ELSE c[x].next
           /\ x # first =>
                d[x].prev = IF x = c[n].next THEN c[n].prev ELSE c[x].prev
  BY DEF Unlinked
<1>1. PICK r \in [S -> Nat \ {0}] : Chain(c, head, S, r)
  BY DEF IsChain
<1> DEFINE q == [m \in S \ {n} |-> IF r[m] > r[n] THEN r[m] - 1 ELSE r[m]]
<1>2. \A m \in S : r[m] \in Nat \ {0} /\ (m # n => r[m] # r[n])
  BY <1>0, <1>1 DEF Chain
<1>3. q \in [S \ {n} -> Nat \ {0}]
  BY <1>0, <1>2
<1>4. \A m \in S \ {n} : q[m] = IF r[m] > r[n] THEN r[m] - 1 ELSE r[m]
  OBVIOUS
<1> HIDE DEF q
<1>5. \A x, y \in S \ {n} : q[x] = q[y] => x = y
  <2> SUFFICES ASSUME NEW x \in S \ {n}, NEW y \in S \ {n}, q[x] = q[y] PROVE x = y
    OBVIOUS
  <2>1. r[x] = r[y]
    BY <1>0, <1>2, <1>4
  <2> QED BY <2>1, <1>1 DEF Chain
<1>6. IF S \ {n} = {} THEN first = Nil ELSE first \in S \ {n} /\ q[first] = 1
  <2>1. CASE head = n /\ c[n].next = Nil
    <3>1. S \ {n} = {}
      BY <1>0, <2>1, <1>1, ChainSecond
    <3> QED BY <1>0, <3>1, <2>1
  <2>2. CASE head = n /\ c[n].next # Nil
    <3>1. c[n].next \in S /\ r[n] = 1 /\ r[c[n].next] = 2
      BY <1>0, <2>2, <1>1 DEF Chain
    <3> QED BY <1>0, <3>1, <2>2, <1>4
  <2>3. CASE head # n
    <3>1. head \in S /\ r[head] = 1
      BY <1>0, <1>1 DEF Chain
    <3> QED BY <1>0, <3>1, <2>3, <1>2, <1>4
  <2> QED BY <2>1, <2>2, <2>3
<1>7. ASSUME NEW x \in S \ {n}
      PROVE  \/ d[x].next = Nil
             \/ d[x].next \in S \ {n} /\ q[d[x].next] = q[x] + 1 /\ d[d[x].next].prev = x
  <2>1. CASE c[x].next = n /\ c[n].next # Nil
    <3>1. r[n] = r[x] + 1 /\ c[n].prev = x
      BY <1>0, <2>1, <1>1 DEF Chain
    <3>2. c[n].next \in S /\ r[c[n].next] = r[n] + 1
      BY <1>0, <2>1, <1>1 DEF Chain
    <3>3. head # n /\ c[n].next # head /\ c[n].next # n
      BY <1>0, <3>1, <3>2, <1>1, <1>2 DEF Chain
    <3>4. q[c[n].next] = q[x] + 1
      BY <1>0, <3>1, <3>2, <3>3, <1>2, <1>4
    <3>5. d[c[n].next].prev = x
      BY <1>0, <3>1, <3>2, <3>3
    <3> QED BY <1>0, <2>1, <3>2, <3>3, <3>4, <3>5
  <2>2. CASE c[x].next = n /\ c[n].next = Nil
    BY <1>0, <2>2
  <2>3. CASE c[x].next # n /\ c[x].next # Nil
    <3> DEFINE y == c[x].next
    <3>1. y \in S \ {n} /\ r[y] = r[x] + 1 /\ c[y].prev = x
      BY <1>0, <2>3, <1>1 DEF Chain
    <3>2. y # head
      BY <1>0, <3>1, <1>1, <1>2 DEF Chain
    <3>3. y # c[n].next
      BY <1>0, <3>1, <1>1 DEF Chain
    <3>4. d[x].next = y
      BY <1>0, <2>3
    <3> HIDE DEF y
    <3>5. y # first
      BY <1>0, <3>2, <3>3
    <3>6. q[y] = q[x] + 1
      BY <1>0, <3>1, <1>2, <1>4
    <3> QED BY <1>0, <3>1, <3>3, <3>4, <3>5, <3>6
  <2>4. CASE c[x].next = Nil
    <3>1. n # Nil
      BY <1>0, <1>1 DEF Chain
    <3> QED BY <1>0, <2>4, <3>1
  <2> QED BY <2>1, <2>2, <2>3, <2>4
<1>8. ASSUME NEW x \in S \ {n}, x # first
      PROVE  d[x].prev \in S \ {n} /\ d[d[x].prev].next = x
  <2>1. x # head
    BY <1>0, <1>8
  <2>2. c[x].prev \in S /\ c[c[x].prev].next = x /\ x # Nil
    BY <1>0, <2>1, <1>1 DEF Chain
  <2>3. CASE x = c[n].next
    <3>1. head # n
      BY <1>0, <2>3, <1>8
    <3>2. c[n].prev \in S /\ c[c[n].prev].next = n /\ n # Nil
      BY <1>0, <3>1, <1>1 DEF Chain
    <3>3. c[n].prev # n
      BY <1>0, <3>2, <1>1, <1>2 DEF Chain
    <3> QED BY <1>0, <3>2, <3>3, <2>3, <1>8
  <2>4. CASE x # c[n].next
    <3>1. c[x].prev # n
      BY <1>0, <2>2, <2>4
    <3> QED BY <1>0, <3>1, <2>2, <2>4, <1>8
  <2> QED BY <2>3, <2>4
<1>9. Chain(d, first, S \ {n}, q)
  BY <1>0, <1>1, <1>3, <1>5, <1>6, <1>7, <1>8 DEF Chain
<1>10. QED
  BY <1>0, <1>3, <1>9 DEF IsChain

-----------------------------------------------------------------------------
(* A chain is what Reach finds, hop by hop. *)

(* Induction up to N, for a set of numbers. *)
LEMMA UpTo ==
  ASSUME NEW N \in Nat, NEW P, 0 \in P, \A k \in 0 .. N - 1 : k \in P => k + 1 \in P
  PROVE  0 .. N \subseteq P
<1> DEFINE T == {k \in 0 .. N : k \notin P}
<1> SUFFICES ASSUME T # {} PROVE FALSE
  OBVIOUS
<1>1. T \subseteq Nat
  OBVIOUS
<1>2. PICK k \in T : \A y \in T : k <= y
  BY <1>1, LeastNatural
<1>3. k - 1 \in 0 .. N - 1 /\ k - 1 \notin T
  BY <1>2
<1>4. QED
  BY <1>2, <1>3

(* No cell of a list has a rank beyond the number of the cells. *)
LEMMA ChainRank ==
  ASSUME NEW L \in Nat, NEW c, DOMAIN c = 1 .. L, NEW head, NEW S, NEW r, Chain(c, head, S, r),
         NEW n \in S
  PROVE  r[n] \in 1 .. L
<1> DEFINE P == {k \in Nat : k < r[n] => \E m \in S : r[m] = r[n] - k}
<1>1. S \subseteq 1 .. L /\ \A m \in S : r[m] \in Nat \ {0}
  BY DEF Chain
<1>2. \A k \in 0 .. r[n] - 1 : k \in P => k + 1 \in P
  <2> SUFFICES ASSUME NEW k \in 0 .. r[n] - 1, k \in P, k + 1 < r[n]
               PROVE  \E m \in S : r[m] = r[n] - (k + 1)
    OBVIOUS
  <2>1. PICK m \in S : r[m] = r[n] - k
    BY <1>1
  <2>2. m # head
    BY <2>1, <1>1 DEF Chain
  <2>3. c[m].prev \in S /\ c[c[m].prev].next = m /\ m # Nil
    BY <2>2 DEF Chain
  <2>4. r[m] = r[c[m].prev] + 1
    BY <2>3 DEF Chain
  <2>5. r[n] \in Nat /\ k \in Nat /\ r[c[m].prev] \in Nat
    BY <2>3, <1>1
  <2>6. r[c[m].prev] = r[n] - (k + 1)
    BY <2>1, <2>4, <2>5
  <2>7. QED
    BY <2>3, <2>6
<1>3. 0 .. r[n] \subseteq P
  <2>1. 0 \in P
    BY <1>1
  <2> HIDE DEF P
  <2>2. QED
    BY <2>1, <1>1, <1>2, UpTo
<1>4. \A k \in 1 .. r[n] : \E m \in S : r[m] = k
  <2> SUFFICES ASSUME NEW k \in 1 .. r[n] PROVE \E m \in S : r[m] = k
    OBVIOUS
  <2>1. r[n] - k \in 0 .. r[n] /\ r[n] - k < r[n] /\ r[n] - (r[n] - k) = k
    BY <1>1
  <2>2. r[n] - k \in P
    BY <2>1, <1>3
  <2> QED BY <2>1, <2>2
<1> DEFINE f == [k \in 1 .. r[n] |-> CHOOSE m \in S : r[m] = k]
<1>5. \A k \in 1 .. r[n] : f[k] \in 1 .. L /\ r[f[k]] = k
  BY <1>1, <1>4
<1>6. f \in Injection(1 .. r[n], 1 .. L)
  <2>1. f \in [1 .. r[n] -> 1 .. L]
    BY <1>5
  <2>2. \A a, b \in 1 .. r[n] : f[a] = f[b] => a = b
    BY <1>5
  <2> HIDE DEF f
  <2> QED BY <2>1, <2>2 DEF Injection, IsInjective
<1>7. IsFiniteSet(1 .. L) /\ Cardinality(1 .. L) = L /\ Cardinality(1 .. r[n]) = r[n]
  BY <1>1, FS_Interval
<1>8. r[n] <= L
  BY <1>6, <1>7, FS_Injection
<1>9. QED
  BY <1>1, <1>8

(* The hops of Reach, one after the other. *)
LEMMA HopShape ==
  ASSUME NEW g, NEW head, Len(g.node) \in Nat
  PROVE \E hop : /\ Reach(g, head) = {hop[k] : k \in 0 .. Len(g.node)} \ {Nil}
                 /\ hop[0] = head
                 /\ \A k \in 1 .. Len(g.node) :
                      hop[k] = IF hop[k - 1] = Nil THEN Nil ELSE g.node[hop[k - 1]].next
<1> DEFINE Step(x, k) == IF x = Nil THEN Nil ELSE g.node[x].next
           Is(h, N) == h = [k \in 0 .. N |-> IF k = 0 THEN head ELSE Step(h[k - 1], k)]
           N == Len(g.node)
           hop == CHOOSE h : Is(h, N)
<1>1. Reach(g, head) = {hop[k] : k \in 0 .. N} \ {Nil}
  BY DEF Reach
<1> HIDE DEF Step, N
<1>2. ASSUME NEW k \in Nat, NEW h, Is(h, k) PROVE \E q : Is(q, k + 1)
  <2> DEFINE q == [j \in 0 .. k + 1 |-> IF j = k + 1 THEN Step(h[k], k + 1) ELSE h[j]]
  <2>1. \A j \in 0 .. k : q[j] = h[j] /\ (j # 0 => h[j] = Step(h[j - 1], j)) /\ h[0] = head
    BY <1>2
  <2>2. q[k + 1] = Step(h[k], k + 1)
    OBVIOUS
  <2>3. q = [j \in 0 .. k + 1 |-> q[j]]
    OBVIOUS
  <2> HIDE DEF q
  <2>4. \A j \in 0 .. k + 1 : q[j] = IF j = 0 THEN head ELSE Step(q[j - 1], j)
    BY <2>1, <2>2
  <2>5. q = [j \in 0 .. k + 1 |-> IF j = 0 THEN head ELSE Step(q[j - 1], j)]
    BY <2>3, <2>4
  <2> QED BY <2>5
<1>3. \E h : Is(h, N)
  <2> DEFINE P == {k \in Nat : \E h : Is(h, k)}
  <2>1. 0 \in P
    <3>1. Is([k \in 0 .. 0 |-> head], 0)
      OBVIOUS
    <3> QED BY <3>1
  <2>2. \A k \in 0 .. N - 1 : k \in P => k + 1 \in P
    <3> HIDE DEF Is
    <3>1. ASSUME NEW k \in 0 .. N - 1, k \in P PROVE k + 1 \in P
      <4>1. PICK h : Is(h, k)
        BY <3>1
      <4>2. k \in Nat /\ k + 1 \in Nat
        BY <3>1
      <4>3. \E q : Is(q, k + 1)
        BY <4>1, <4>2, <1>2
      <4> QED BY <4>2, <4>3
    <3> QED BY <3>1
  <2>3. N \in Nat
    BY DEF N
  <2> HIDE DEF P
  <2>4. 0 .. N \subseteq P
    BY <2>1, <2>2, <2>3, UpTo
  <2>5. N \in P
    BY <2>3, <2>4
  <2> QED BY <2>5 DEF P
<1>4. Is(hop, N)
  BY <1>3
<1> HIDE DEF hop
<1>5. hop[0] = head /\ \A k \in 1 .. N : hop[k] = Step(hop[k - 1], k)
  <2>1. N \in Nat
    BY DEF N
  <2> QED BY <1>4, <2>1
<1>6. QED
  BY <1>1, <1>5 DEF Step, N

(* Reach finds the cells of a list and no other. *)
LEMMA ReachIs ==
  ASSUME NEW g, NEW L \in Nat, Len(g.node) = L, DOMAIN g.node = 1 .. L,
         NEW head, NEW S, IsChain(g.node, head, S)
  PROVE  Reach(g, head) = S
<1> DEFINE c == g.node
<1>1. PICK r \in [S -> Nat \ {0}] : Chain(c, head, S, r)
  BY DEF IsChain
<1>2. PICK hop : /\ Reach(g, head) = {hop[k] : k \in 0 .. L} \ {Nil}
                 /\ hop[0] = head
                 /\ \A k \in 1 .. L : hop[k] = IF hop[k - 1] = Nil THEN Nil ELSE c[hop[k - 1]].next
  BY HopShape
<1>3. S \subseteq 1 .. L \ {Nil}
  BY <1>1 DEF Chain
<1> HIDE DEF c
<1>4. \A k \in 0 .. L : hop[k] \in S \cup {Nil}
  <2> DEFINE P == {k \in 0 .. L : hop[k] \in S \cup {Nil}}
  <2>1. 0 \in P
    BY <1>1, <1>2 DEF Chain
  <2>2. ASSUME NEW k \in 0 .. L - 1, k \in P PROVE k + 1 \in P
    <3>1. k + 1 \in 1 .. L /\ (k + 1) - 1 = k
      OBVIOUS
    <3>2. hop[k + 1] = IF hop[k] = Nil THEN Nil ELSE c[hop[k]].next
      BY <3>1, <1>2
    <3>3. hop[k] # Nil => c[hop[k]].next \in S \cup {Nil}
      BY <2>2, <1>1 DEF Chain
    <3> QED BY <3>1, <3>2, <3>3
  <2> HIDE DEF P
  <2>3. 0 .. L \subseteq P
    BY <2>1, <2>2, UpTo
  <2> QED BY <2>3 DEF P
<1>5. \A n \in S : r[n] \in 1 .. L
  BY <1>1, ChainRank DEF c
<1>6. \A k \in 0 .. L : \A n \in S : r[n] = k + 1 => hop[k] = n
  <2> DEFINE P == {k \in 0 .. L : \A n \in S : r[n] = k + 1 => hop[k] = n}
  <2>1. 0 \in P
    <3> SUFFICES ASSUME NEW n \in S, r[n] = 1 PROVE hop[0] = n
      OBVIOUS
    <3>1. head \in S /\ r[head] = 1
      BY <1>1 DEF Chain
    <3> QED BY <3>1, <1>1, <1>2 DEF Chain
  <2>2. ASSUME NEW k \in 0 .. L - 1, k \in P PROVE k + 1 \in P
    <3> SUFFICES ASSUME NEW n \in S, r[n] = k + 2 PROVE hop[k + 1] = n
      OBVIOUS
    <3>1. n # head
      BY <1>1 DEF Chain
    <3>2. c[n].prev \in S /\ c[c[n].prev].next = n /\ n # Nil /\ c[n].prev # Nil
      BY <3>1, <1>1, <1>3 DEF Chain
    <3>3. r[n] = r[c[n].prev] + 1
      BY <3>2, <1>1 DEF Chain
    <3>4. r[c[n].prev] = k + 1
      BY <3>2, <3>3, <1>5
    <3>5. hop[k] = c[n].prev
      BY <3>2, <3>4, <2>2
    <3>6. k + 1 \in 1 .. L /\ (k + 1) - 1 = k
      OBVIOUS
    <3>7. hop[k + 1] = IF hop[k] = Nil THEN Nil ELSE c[hop[k]].next
      BY <3>6, <1>2
    <3> QED BY <3>2, <3>5, <3>7
  <2> HIDE DEF P
  <2>3. 0 .. L \subseteq P
    BY <2>1, <2>2, UpTo
  <2> QED BY <2>3 DEF P
<1>7. S \subseteq Reach(g, head)
  <2> SUFFICES ASSUME NEW n \in S PROVE n \in Reach(g, head)
    OBVIOUS
  <2>1. r[n] - 1 \in 0 .. L /\ r[n] = (r[n] - 1) + 1
    BY <1>5
  <2>2. hop[r[n] - 1] = n
    BY <2>1, <1>6
  <2> QED BY <2>1, <2>2, <1>2, <1>3
<1>8. QED
  BY <1>2, <1>4, <1>7

-----------------------------------------------------------------------------
(* steal, write by write. *)

(* The writes steal is made of. *)
SetPrev(g, n, p) == [g EXCEPT !.node[n].prev = p]
SetNext(g, n, p) == [g EXCEPT !.node[n].next = p]
SetHead(g, l, p) == [g EXCEPT ![l] = p]

(* h is g but for the _prev, the _next of a cell, or the head of a list. *)
PrevSetIn(V, g, h, n, p) ==
  /\ h \in GraphSet(V) /\ Relinked(g, h)
  /\ \A l \in Lists : h[l] = g[l]
  /\ \A x \in DOMAIN g.node :
       /\ h.node[x].next = g.node[x].next
       /\ h.node[x].prev = IF x = n THEN p ELSE g.node[x].prev
NextSetIn(V, g, h, n, p) ==
  /\ h \in GraphSet(V) /\ Relinked(g, h)
  /\ \A l \in Lists : h[l] = g[l]
  /\ \A x \in DOMAIN g.node :
       /\ h.node[x].next = IF x = n THEN p ELSE g.node[x].next
       /\ h.node[x].prev = g.node[x].prev
HeadSetIn(V, g, h, l, p) ==
  /\ h \in GraphSet(V) /\ Relinked(g, h) /\ h.node = g.node
  /\ \A k \in Lists : h[k] = IF k = l THEN p ELSE g[k]

(* Writing a _prev does that. *)
LEMMA SetPrevDoes ==
  ASSUME NEW V, NEW g \in GraphSet(V), NEW n \in DOMAIN g.node, NEW p \in Nat
  PROVE  PrevSetIn(V, g, SetPrev(g, n, p), n, p)
<1> DEFINE h == [g EXCEPT !.node[n].prev = p]
<1>1. /\ h \in GraphSet(V) /\ Relinked(g, h)
         /\ h.pendings = g.pendings /\ h.blockeds = g.blockeds
         /\ h.node[n].prev = p /\ h.node[n].next = g.node[n].next
         /\ \A x \in DOMAIN g.node \ {n} : h.node[x] = g.node[x]
  BY PrevSet
<1>2. SetPrev(g, n, p) = h
  BY DEF SetPrev
<1> HIDE DEF h
<1>3. \A l \in Lists : h[l] = g[l]
  BY <1>1 DEF Lists
<1>4. QED
  BY <1>1, <1>2, <1>3 DEF PrevSetIn

(* Writing a _next does that. *)
LEMMA SetNextDoes ==
  ASSUME NEW V, NEW g \in GraphSet(V), NEW n \in DOMAIN g.node, NEW p \in Nat
  PROVE  NextSetIn(V, g, SetNext(g, n, p), n, p)
<1> DEFINE c == [g.node[n] EXCEPT !.next = p]
           s == [g.node EXCEPT ![n] = c]
           h == [g EXCEPT !.node = s]
<1>1. g.node \in Seq(CellSet(V)) /\ g.node[n] \in CellSet(V)
  BY DEF GraphSet
<1>2. c \in CellSet(V) /\ SameCell(g.node[n], c) /\ c.next = p /\ c.prev = g.node[n].prev
  BY <1>1 DEF CellSet, SameCell
<1> HIDE DEF c
<1>3. /\ s \in Seq(CellSet(V)) /\ DOMAIN s = DOMAIN g.node /\ s[n] = c
      /\ \A x \in DOMAIN g.node \ {n} : s[x] = g.node[x]
  BY <1>1, <1>2, PutCell
<1> HIDE DEF s
<1>4. h \in GraphSet(V) /\ h.node = s /\ h.edge = g.edge /\ h.pendings = g.pendings
      /\ h.blockeds = g.blockeds /\ h.recycled = g.recycled
  BY <1>3, PutNode
<1>5. SetNext(g, n, p) = h
  BY DEF SetNext, h, s, c
<1> HIDE DEF h
<1>6. \A x \in DOMAIN g.node : SameCell(g.node[x], h.node[x])
  BY <1>2, <1>3, <1>4 DEF SameCell
<1>7. \A l \in Lists : h[l] = g[l]
  BY <1>4 DEF Lists
<1>8. \A x \in DOMAIN g.node :
              /\ h.node[x].next = IF x = n THEN p ELSE g.node[x].next
              /\ h.node[x].prev = g.node[x].prev
  BY <1>2, <1>3, <1>4
<1>9. QED
  BY <1>3, <1>4, <1>5, <1>6, <1>7, <1>8 DEF Relinked, NextSetIn

(* Writing a head does that. *)
LEMMA SetHeadDoes ==
  ASSUME NEW V, NEW g \in GraphSet(V), NEW l \in Lists, NEW p \in Nat
  PROVE  HeadSetIn(V, g, SetHead(g, l, p), l, p)
BY HeadSet DEF SetHead, HeadSetIn

(* LinkPrev does that, and nothing where there is no cell. *)
LEMMA LinkPrevDoes ==
  ASSUME NEW V, NEW g \in GraphSet(V), NEW n \in DOMAIN g.node \cup {Nil}, NEW p \in Nat
  PROVE  PrevSetIn(V, g, LinkPrev(g, n, p), n, p)
BY PrevLinked DEF PrevSetIn

(* Writes of links compose. *)
LEMMA RelinkedChain ==
  ASSUME NEW g, NEW h, NEW i, Relinked(g, h), Relinked(h, i)
  PROVE  Relinked(g, i)
BY DEF Relinked, SameCell

(* steal, with what it reads given: the neighbours of the cell and the     *)
(* heads of the lists. *)
StealSteps(g, from, to, n, next, prev) ==
  LET g1 == LinkPrev(g, next, prev)
      g2 == IF prev = Nil THEN SetHead(g1, from, next) ELSE SetNext(g1, prev, next)
      g3 == LinkPrev(g2, g2[to], n)
      g4 == SetPrev(g3, n, Nil)
      g5 == SetNext(g4, n, g3[to])
  IN  SetHead(g5, to, n)

(* h is g after a cell between next and prev went to the front of a list. *)
Stolen(V, g, h, from, to, n, next, prev, first) ==
  /\ h \in GraphSet(V) /\ Relinked(g, h)
  /\ h[from] = IF prev = Nil THEN next ELSE g[from]
  /\ h[to] = n
  /\ h.node[n].next = first /\ h.node[n].prev = Nil
  /\ \A x \in DOMAIN g.node \ {n} :
       /\ h.node[x].next = IF x = prev THEN next ELSE g.node[x].next
       /\ h.node[x].prev = IF x = first THEN n
                           ELSE IF x = next THEN prev ELSE g.node[x].prev

(* What these writes come to. *)
LEMMA StealStepsDo ==
  ASSUME NEW V, NEW g \in GraphSet(V), NEW from \in Lists, NEW to \in Lists, from # to,
         NEW D, D = DOMAIN g.node, D \subseteq Nat \ {Nil}, Nil \in Nat,
         NEW n \in D, NEW next \in D \cup {Nil}, NEW prev \in D \cup {Nil},
         NEW first \in D \cup {Nil}, g[to] = first
  PROVE  Stolen(V, g, StealSteps(g, from, to, n, next, prev), from, to, n, next, prev, first)
<1> DEFINE g1 == LinkPrev(g, next, prev)
           g2 == IF prev = Nil THEN SetHead(g1, from, next) ELSE SetNext(g1, prev, next)
           g3 == LinkPrev(g2, g2[to], n)
           g4 == SetPrev(g3, n, Nil)
           g5 == SetNext(g4, n, g3[to])
           h == SetHead(g5, to, n)
<1>1. StealSteps(g, from, to, n, next, prev) = h
  BY DEF StealSteps
<1>0. next \in Nat /\ prev \in Nat /\ n \in Nat
  OBVIOUS
<1>2. PrevSetIn(V, g, g1, next, prev)
  BY <1>0, LinkPrevDoes
<1> HIDE DEF g1
<1>3. /\ g2 \in GraphSet(V) /\ Relinked(g, g2) /\ DOMAIN g2.node = D
      /\ g2[from] = IF prev = Nil THEN next ELSE g[from]
      /\ g2[to] = first
      /\ \A x \in D :
           /\ g2.node[x].next = IF x = prev THEN next ELSE g.node[x].next
           /\ g2.node[x].prev = IF x = next THEN prev ELSE g.node[x].prev
  <2>0. g1 \in GraphSet(V) /\ Relinked(g, g1) /\ DOMAIN g1.node = D
    BY <1>2 DEF PrevSetIn, Relinked
  <2>1. CASE prev = Nil
    <3>1. HeadSetIn(V, g1, g2, from, next)
      BY <2>0, <2>1, <1>0, SetHeadDoes
    <3> HIDE DEF g2
    <3>2. Relinked(g, g2)
      BY <3>1, <2>0, RelinkedChain DEF HeadSetIn
    <3>3. g2[from] = next /\ g2[to] = first
      BY <3>1, <1>2 DEF HeadSetIn, PrevSetIn
    <3>4. \A x \in D : /\ g2.node[x].next = g.node[x].next
                       /\ g2.node[x].prev = IF x = next THEN prev ELSE g.node[x].prev
      BY <3>1, <1>2 DEF HeadSetIn, PrevSetIn
    <3> QED BY <2>1, <3>1, <3>2, <3>3, <3>4 DEF HeadSetIn, Relinked
  <2>2. CASE prev # Nil
    <3>1. NextSetIn(V, g1, g2, prev, next)
      BY <2>0, <2>2, <1>0, SetNextDoes
    <3> HIDE DEF g2
    <3>2. Relinked(g, g2)
      BY <3>1, <2>0, RelinkedChain DEF NextSetIn
    <3>3. g2[from] = g[from] /\ g2[to] = first
      BY <3>1, <1>2 DEF NextSetIn, PrevSetIn
    <3>4. \A x \in D : /\ g2.node[x].next = IF x = prev THEN next ELSE g.node[x].next
                       /\ g2.node[x].prev = IF x = next THEN prev ELSE g.node[x].prev
      BY <3>1, <1>2, <2>0 DEF NextSetIn, PrevSetIn
    <3> QED BY <2>2, <3>1, <3>2, <3>3, <3>4 DEF NextSetIn, Relinked
  <2> QED BY <2>1, <2>2
<1> HIDE DEF g2
<1>4. PrevSetIn(V, g2, g3, first, n)
  BY <1>0, <1>3, LinkPrevDoes
<1> HIDE DEF g3
<1>5. g3 \in GraphSet(V) /\ DOMAIN g3.node = D /\ g3[to] = first /\ first \in Nat
  BY <1>3, <1>4 DEF PrevSetIn, Relinked
<1>6. PrevSetIn(V, g3, g4, n, Nil)
  BY <1>5, SetPrevDoes
<1> HIDE DEF g4
<1>7. g4 \in GraphSet(V) /\ DOMAIN g4.node = D
  BY <1>5, <1>6 DEF PrevSetIn, Relinked
<1>8. NextSetIn(V, g4, g5, n, first)
  BY <1>5, <1>7, SetNextDoes
<1> HIDE DEF g5
<1>9. g5 \in GraphSet(V) /\ DOMAIN g5.node = D
  BY <1>7, <1>8 DEF NextSetIn, Relinked
<1>10. HeadSetIn(V, g5, h, to, n)
  BY <1>0, <1>9, SetHeadDoes
<1> HIDE DEF h
<1>11. Relinked(g, h)
  <2>1. Relinked(g2, g3) /\ Relinked(g3, g4) /\ Relinked(g4, g5) /\ Relinked(g5, h)
    BY <1>4, <1>6, <1>8, <1>10 DEF PrevSetIn, NextSetIn, HeadSetIn
  <2> QED BY <2>1, <1>3, RelinkedChain
<1>12. /\ h[from] = IF prev = Nil THEN next ELSE g[from]
       /\ h[to] = n
  BY <1>3, <1>4, <1>6, <1>8, <1>10 DEF PrevSetIn, NextSetIn, HeadSetIn
<1>13. \A x \in D :
         /\ h.node[x].next = IF x = n THEN first ELSE g2.node[x].next
         /\ h.node[x].prev = IF x = n THEN Nil ELSE IF x = first THEN n ELSE g2.node[x].prev
  <2>1. \A x \in D : h.node[x] = g5.node[x]
    BY <1>10 DEF HeadSetIn
  <2>2. \A x \in D : /\ g5.node[x].next = IF x = n THEN first ELSE g4.node[x].next
                     /\ g5.node[x].prev = g4.node[x].prev
    BY <1>7, <1>8 DEF NextSetIn
  <2>3. \A x \in D : /\ g4.node[x].next = g3.node[x].next
                     /\ g4.node[x].prev = IF x = n THEN Nil ELSE g3.node[x].prev
    BY <1>5, <1>6 DEF PrevSetIn
  <2>4. \A x \in D : /\ g3.node[x].next = g2.node[x].next
                     /\ g3.node[x].prev = IF x = first THEN n ELSE g2.node[x].prev
    BY <1>3, <1>4 DEF PrevSetIn
  <2> QED BY <2>1, <2>2, <2>3, <2>4
<1>14. h \in GraphSet(V)
  BY <1>10 DEF HeadSetIn
<1>15. QED
  BY <1>1, <1>3, <1>11, <1>12, <1>13, <1>14 DEF Stolen

(* steal makes these writes. *)
LEMMA StealDoes ==
  ASSUME NEW V, NEW g \in GraphSet(V), NEW from \in Lists, NEW to \in Lists, from # to,
         NEW n \in DOMAIN g.node,
         g.node[n].next \in DOMAIN g.node \cup {Nil},
         g.node[n].prev \in DOMAIN g.node \cup {Nil},
         g[to] \in DOMAIN g.node \cup {Nil},
         g.node[n].prev = Nil => g[from] = n
  PROVE  Stolen(V, g, steal(g, from, to, n), from, to, n,
                g.node[n].next, g.node[n].prev, g[to])
<1> DEFINE next == g.node[n].next
           prev == g.node[n].prev
           D == DOMAIN g.node
<1>1. D \subseteq Nat \ {Nil} /\ Nil \in Nat
  <2>1. D = 1 .. Len(g.node) /\ Len(g.node) \in Nat
    BY DEF GraphSet
  <2> QED BY <2>1 DEF Nil
<1>2. steal(g, from, to, n) = StealSteps(g, from, to, n, next, prev)
  <2>1. CASE prev = Nil
    <3>1. g.node[g[from]].next = next
      BY <2>1
    <3> QED BY <2>1, <3>1 DEF steal, StealSteps, SetPrev, SetNext, SetHead
  <2>2. CASE prev # Nil
    BY <2>2 DEF steal, StealSteps, SetPrev, SetNext, SetHead
  <2> QED BY <2>1, <2>2
<1>3. next \in D \cup {Nil} /\ prev \in D \cup {Nil} /\ n \in D /\ g[to] \in D \cup {Nil}
  OBVIOUS
<1> HIDE DEF next, prev
<1>4. Stolen(V, g, StealSteps(g, from, to, n, next, prev), from, to, n, next, prev, g[to])
  <2> DEFINE first == g[to]
  <2> HIDE DEF first
  <2>1. first \in D \cup {Nil}
    BY <1>3 DEF first
  <2>2. Stolen(V, g, StealSteps(g, from, to, n, next, prev), from, to, n, next, prev, first)
    BY <1>1, <1>3, <2>1, StealStepsDo DEF first
  <2> QED BY <2>2 DEF first
<1>5. QED
  BY <1>2, <1>4 DEF next, prev

-----------------------------------------------------------------------------
(* A cell moves from one list to the other. *)

(* The head of a list has no _prev: true unless it became the head by a    *)
(* pop_front.                                                              *)
Clean(g, l) == g[l] # Nil => g.node[g[l]].prev = Nil

(* What the cells around n are. *)
Around(c, head, S, n) ==
  /\ S \subseteq DOMAIN c \ {Nil}
  /\ head \in S
  /\ c[n].next \in S \cup {Nil} /\ c[n].next # n /\ c[n].next # head
  /\ c[n].next # Nil => c[c[n].next].prev = n
  /\ n # head => c[n].prev \in S /\ c[c[n].prev].next = n
  /\ \A x \in S : c[x].next = n => n # head /\ c[n].prev = x

(* The links around a cell of a list. *)
LEMMA ChainAt ==
  ASSUME NEW c, NEW head, NEW S, IsChain(c, head, S), NEW n \in S
  PROVE  Around(c, head, S, n)
<1>1. PICK r \in [S -> Nat \ {0}] : Chain(c, head, S, r)
  BY DEF IsChain
<1>2. S \subseteq DOMAIN c \ {Nil} /\ head \in S /\ r[head] = 1
  BY <1>1 DEF Chain
<1>3. \A x \in S : /\ c[x].next = Nil \/ c[x].next \in S
                   /\ c[x].next # Nil => r[c[x].next] = r[x] + 1 /\ c[c[x].next].prev = x
  BY <1>1 DEF Chain
<1>4. \A x \in S : c[x].next # x /\ c[x].next # head
  <2> SUFFICES ASSUME NEW x \in S PROVE c[x].next # x /\ c[x].next # head
    OBVIOUS
  <2>1. r[x] \in Nat \ {0} /\ x # Nil
    BY <1>2
  <2> QED BY <2>1, <1>2, <1>3
<1>5. n # head => c[n].prev \in S /\ c[c[n].prev].next = n
  BY <1>1 DEF Chain
<1>6. \A x \in S : c[x].next = n => n # head /\ c[n].prev = x
  BY <1>2, <1>3, <1>4
<1>7. QED
  BY <1>2, <1>3, <1>4, <1>5, <1>6 DEF Around

(* The head of a list is one of its cells, or there is none. *)
LEMMA ChainEnds ==
  ASSUME NEW c, NEW head, NEW S, IsChain(c, head, S)
  PROVE  /\ S \subseteq DOMAIN c \ {Nil}
         /\ head \in S \cup {Nil}
         /\ head = Nil <=> S = {}
BY DEF IsChain, Chain

(* h is g but for n, which moved from the cells S of a list to the cells T *)
(* of another. *)
Moved(V, g, h, from, to, n, S, T) ==
  /\ h \in GraphSet(V) /\ Relinked(g, h)
  /\ IsChain(h.node, h[from], S \ {n})
  /\ IsChain(h.node, h[to], T \cup {n})
  /\ Clean(h, from) /\ Clean(h, to)

(* steal moves a cell from a list with a clean head to the other list.     *)
(* With a stale _prev at the head the wrong cells would be linked.         *)
LEMMA StealMoves ==
  ASSUME NEW V, NEW g \in GraphSet(V), NEW from \in Lists, NEW to \in Lists, from # to,
         NEW S, NEW T, S \cap T = {},
         IsChain(g.node, g[from], S), IsChain(g.node, g[to], T),
         NEW n \in S, Clean(g, from)
  PROVE  Moved(V, g, steal(g, from, to, n), from, to, n, S, T)
<1> DEFINE c == g.node
           head == g[from]
           first == g[to]
           next == c[n].next
           prev == c[n].prev
           h == steal(g, from, to, n)
           d == h.node
<1>1. /\ S \subseteq DOMAIN c \ {Nil}
      /\ head \in S
      /\ next \in S \cup {Nil} /\ next # n /\ next # head
      /\ n # head => prev \in S /\ c[prev].next = n
      /\ \A x \in S : c[x].next = n => n # head /\ prev = x
  <2>1. Around(c, head, S, n)
    BY ChainAt
  <2> QED BY <2>1 DEF Around
<1>2. T \subseteq DOMAIN c \ {Nil} /\ first \in T \cup {Nil}
  BY ChainEnds
<1>3. n = head <=> prev = Nil
  <2>1. n = head => prev = Nil
    BY <1>1 DEF Clean
  <2>2. n # head => prev # Nil
    BY <1>1
  <2> QED BY <2>1, <2>2
<1>4. Stolen(V, g, h, from, to, n, next, prev, first)
  <2>1. /\ n \in DOMAIN g.node
        /\ g.node[n].next \in DOMAIN g.node \cup {Nil}
        /\ g.node[n].prev \in DOMAIN g.node \cup {Nil}
        /\ g[to] \in DOMAIN g.node \cup {Nil}
        /\ g.node[n].prev = Nil => g[from] = n
    BY <1>1, <1>2, <1>3
  <2> QED BY <2>1, StealDoes
<1> HIDE DEF h, next, prev
<1>5. IsChain(d, h[from], S \ {n})
  <2>1. h[from] = IF head = n THEN next ELSE head
    BY <1>3, <1>4 DEF Stolen
  <2>2. DOMAIN d = DOMAIN c
    BY <1>4 DEF Stolen, Relinked
  <2>3. \A x \in S \ {n} : d[x].next = IF c[x].next = n THEN next ELSE c[x].next
    <3>1. \A x \in S \ {n} : d[x].next = IF x = prev THEN next ELSE c[x].next
      BY <1>1, <1>4 DEF Stolen
    <3>2. \A x \in S \ {n} : x = prev <=> c[x].next = n
      BY <1>1, <1>3
    <3> QED BY <3>1, <3>2
  <2>4. \A x \in S \ {n} : d[x].prev = IF x = next THEN prev ELSE c[x].prev
    <3>1. \A x \in S \ {n} : d[x].prev = IF x = first THEN n
                             ELSE IF x = next THEN prev ELSE c[x].prev
      BY <1>1, <1>4 DEF Stolen
    <3> QED BY <3>1, <1>1, <1>2
  <2>5. IsChain(c, head, S) /\ S \ {n} \subseteq DOMAIN d
    BY <1>1, <2>2
  <2>6. next = c[n].next /\ prev = c[n].prev
    BY DEF next, prev
  <2> DEFINE f == h[from]
  <2> HIDE DEF c, d, head, f
  <2>7. f = IF head = n THEN next ELSE head
    BY <2>1 DEF f
  <2>8. Unlinked(c, d, head, f, S, n)
    BY <2>3, <2>4, <2>5, <2>6, <2>7 DEF Unlinked
  <2>9. IsChain(d, f, S \ {n})
    BY <2>5, <2>8, ChainDrop
  <2> QED BY <2>9 DEF f
<1>6. IsChain(d, h[to], T \cup {n})
  <2>1. h[to] = n /\ d[n].next = first
    BY <1>4 DEF Stolen
  <2>2. DOMAIN d = DOMAIN c
    BY <1>4 DEF Stolen, Relinked
  <2>3. T \subseteq DOMAIN c \ {n}
    BY <1>2
  <2>4. \A x \in T : /\ d[x].next = c[x].next
                     /\ d[x].prev = IF x = first THEN n ELSE c[x].prev
    <3>1. \A x \in T : /\ d[x].next = IF x = prev THEN next ELSE c[x].next
                       /\ d[x].prev = IF x = first THEN n
                             ELSE IF x = next THEN prev ELSE c[x].prev
      BY <2>3, <1>4 DEF Stolen
    <3>2. \A x \in T : x # prev /\ x # next
      BY <1>1, <1>2, <1>3
    <3> QED BY <3>1, <3>2
  <2>5. IsChain(c, first, T) /\ T \cup {n} \subseteq DOMAIN d /\ n \notin T /\ n # Nil
    BY <1>1, <1>2, <2>2
  <2> HIDE DEF c, d, first
  <2>6. IsChain(d, n, T \cup {n})
    BY <2>1, <2>4, <2>5, ChainPush
  <2> QED BY <2>1, <2>6
<1>7. Clean(h, from)
  <2>1. CASE head = n
    <3>1. h[from] = next
      BY <2>1, <1>3, <1>4 DEF Stolen
    <3>2. next # Nil => d[next].prev = prev
      <4>1. next # Nil => next \in DOMAIN c \ {n} /\ next # first
        BY <1>1, <1>2
      <4> QED BY <4>1, <1>4 DEF Stolen
    <3> QED BY <2>1, <3>1, <3>2, <1>3 DEF Clean
  <2>2. CASE head # n
    <3>1. h[from] = head
      BY <2>2, <1>3, <1>4 DEF Stolen
    <3>2. c[head].prev = Nil /\ head \in DOMAIN c \ {n} /\ head # first /\ head # next
      BY <2>2, <1>1, <1>2 DEF Clean
    <3>3. d[head].prev = c[head].prev
      BY <3>2, <1>4 DEF Stolen
    <3> QED BY <3>1, <3>2, <3>3 DEF Clean
  <2> QED BY <2>1, <2>2
<1>8. Clean(h, to)
  BY <1>4 DEF Stolen, Clean
<1>9. QED
  BY <1>4, <1>5, <1>6, <1>7, <1>8 DEF Stolen, Moved, h

-----------------------------------------------------------------------------
(* The sequences of edges: an edge is in one of them once. *)

(* A sequence of numbers without repetition. *)
OnceIn(s) == s \in Seq(Nat) /\ IsInjective(s)

(* w is s without its i-th element. *)
Shortened(T, s, w, i) ==
  /\ w \in Seq(T)
  /\ Len(w) = Len(s) - 1
  /\ \A j \in 1 .. Len(s) - 1 : w[j] = IF j < i THEN s[j] ELSE s[j + 1]

(* What RemoveAt leaves. *)
LEMMA RemoveAtDoes ==
  ASSUME NEW T, NEW s \in Seq(T), NEW i \in 1 .. Len(s)
  PROVE  Shortened(T, s, RemoveAt(s, i), i)
<1> DEFINE a == SubSeq(s, 1, i - 1)
           b == SubSeq(s, i + 1, Len(s))
<1>1. /\ a \in Seq(T) /\ Len(a) = i - 1
      /\ \A j \in 1 .. i - 1 : a[j] = s[j]
  <2>1. \A j \in 1 .. i - 1 : s[j] \in T
    OBVIOUS
  <2>2. 1 \in Int /\ i - 1 \in Int /\ i \in Nat \ {0}
    OBVIOUS
  <2>3. /\ SubSeq(s, 1, i - 1) \in Seq(T)
        /\ Len(SubSeq(s, 1, i - 1)) = IF 1 <= i - 1 THEN (i - 1) - 1 + 1 ELSE 0
        /\ \A j \in 1 .. (i - 1) - 1 + 1 : SubSeq(s, 1, i - 1)[j] = s[1 + j - 1]
    BY <2>1, <2>2, SubSeqProperties
  <2> HIDE DEF a
  <2>4. \A j \in 1 .. i - 1 : j \in 1 .. (i - 1) - 1 + 1 /\ 1 + j - 1 = j
    OBVIOUS
  <2> QED BY <2>2, <2>3, <2>4 DEF a
<1>2. /\ b \in Seq(T) /\ Len(b) = Len(s) - i
      /\ \A j \in 1 .. Len(s) - i : b[j] = s[i + j]
  <2>1. \A j \in i + 1 .. Len(s) : s[j] \in T
    OBVIOUS
  <2>2. i + 1 \in Int /\ Len(s) \in Int /\ i \in Nat \ {0} /\ i <= Len(s)
    OBVIOUS
  <2>3. /\ SubSeq(s, i + 1, Len(s)) \in Seq(T)
        /\ Len(SubSeq(s, i + 1, Len(s))) = IF i + 1 <= Len(s) THEN Len(s) - (i + 1) + 1 ELSE 0
        /\ \A j \in 1 .. Len(s) - (i + 1) + 1 : SubSeq(s, i + 1, Len(s))[j] = s[i + 1 + j - 1]
    BY <2>1, <2>2, SubSeqProperties
  <2> HIDE DEF b
  <2>4. \A j \in 1 .. Len(s) - i : j \in 1 .. Len(s) - (i + 1) + 1 /\ i + 1 + j - 1 = i + j
    BY <2>2
  <2> QED BY <2>2, <2>3, <2>4 DEF b
<1>3. RemoveAt(s, i) = a \o b
  BY DEF RemoveAt
<1> HIDE DEF a, b
<1>4. /\ a \o b \in Seq(T)
      /\ Len(a \o b) = Len(a) + Len(b)
      /\ \A j \in 1 .. Len(a) + Len(b) :
           (a \o b)[j] = IF j <= Len(a) THEN a[j] ELSE b[j - Len(a)]
  BY <1>1, <1>2, ConcatProperties
<1> DEFINE c == a \o b
<1> HIDE DEF c
<1>5. c \in Seq(T) /\ Len(c) = Len(s) - 1
  BY <1>1, <1>2, <1>4 DEF c
<1>6. \A j \in 1 .. Len(s) - 1 : c[j] = IF j < i THEN s[j] ELSE s[j + 1]
  <2> SUFFICES ASSUME NEW j \in 1 .. Len(s) - 1 PROVE c[j] = IF j < i THEN s[j] ELSE s[j + 1]
    OBVIOUS
  <2>1. c[j] = IF j <= i - 1 THEN a[j] ELSE b[j - (i - 1)]
    BY <1>1, <1>2, <1>4 DEF c
  <2>2. CASE j < i
    BY <2>1, <2>2, <1>1
  <2>3. CASE ~(j < i)
    <3>1. j - (i - 1) \in 1 .. Len(s) - i /\ i + (j - (i - 1)) = j + 1
      BY <2>3
    <3> QED BY <2>1, <2>3, <3>1, <1>2
  <2> QED BY <2>2, <2>3
<1>7. QED
  BY <1>3, <1>5, <1>6 DEF c, Shortened

(* Without takes the edge out and leaves the others. *)
LEMMA WithoutDoes ==
  ASSUME NEW s, OnceIn(s), NEW e \in ToSet(s)
  PROVE  OnceIn(Without(s, e)) /\ ToSet(Without(s, e)) = ToSet(s) \ {e}
<1> DEFINE i == CHOOSE i \in DOMAIN s : s[i] = e
           w == Without(s, e)
<1>1. s \in Seq(Nat) /\ \A a, b \in 1 .. Len(s) : s[a] = s[b] => a = b
  BY DEF OnceIn, IsInjective
<1>2. i \in 1 .. Len(s) /\ s[i] = e
  BY <1>1 DEF ToSet
<1>3. w = RemoveAt(s, i)
  BY DEF Without
<1> HIDE DEF i
<1>4. /\ w \in Seq(Nat) /\ Len(w) = Len(s) - 1
      /\ \A j \in 1 .. Len(s) - 1 : w[j] = IF j < i THEN s[j] ELSE s[j + 1]
  <2>1. Shortened(Nat, s, w, i)
    BY <1>1, <1>2, <1>3, RemoveAtDoes
  <2> HIDE DEF w
  <2> QED BY <2>1 DEF Shortened
<1> HIDE DEF w
<1>5. DOMAIN w = 1 .. Len(s) - 1 /\ DOMAIN s = 1 .. Len(s) /\ Len(s) \in Nat
  BY <1>1, <1>4
<1>6. IsInjective(w)
  <2> SUFFICES ASSUME NEW a \in 1 .. Len(s) - 1, NEW b \in 1 .. Len(s) - 1, w[a] = w[b]
               PROVE  a = b
    BY <1>5 DEF IsInjective
  <2>1. w[a] = s[IF a < i THEN a ELSE a + 1] /\ w[b] = s[IF b < i THEN b ELSE b + 1]
    BY <1>4
  <2> DEFINE p == IF a < i THEN a ELSE a + 1
             q == IF b < i THEN b ELSE b + 1
  <2>2. p \in 1 .. Len(s) /\ q \in 1 .. Len(s)
    BY <1>2, <1>5
  <2>3. s[p] = s[q]
    BY <2>1
  <2> HIDE DEF p, q
  <2>4. p = q
    BY <2>2, <2>3, <1>1
  <2> QED BY <2>4, <1>2, <1>5 DEF p, q
<1>7. ToSet(w) \subseteq ToSet(s) \ {e}
  <2> SUFFICES ASSUME NEW j \in 1 .. Len(s) - 1 PROVE w[j] \in ToSet(s) \ {e}
    BY <1>5 DEF ToSet
  <2> DEFINE k == IF j < i THEN j ELSE j + 1
  <2>1. k \in 1 .. Len(s) /\ k # i /\ w[j] = s[k]
    BY <1>2, <1>4, <1>5
  <2> QED BY <2>1, <1>1, <1>2, <1>5 DEF ToSet
<1>8. ToSet(s) \ {e} \subseteq ToSet(w)
  <2> SUFFICES ASSUME NEW k \in 1 .. Len(s), s[k] # e PROVE s[k] \in ToSet(w)
    BY <1>5 DEF ToSet
  <2> DEFINE j == IF k < i THEN k ELSE k - 1
  <2>1. j \in 1 .. Len(s) - 1 /\ w[j] = s[k]
    <3>1. k # i
      BY <1>2
    <3>2. CASE k < i
      BY <3>2, <1>2, <1>4, <1>5
    <3>3. CASE k > i
      <4>1. k - 1 \in 1 .. Len(s) - 1 /\ ~(k - 1 < i) /\ (k - 1) + 1 = k /\ ~(k < i)
        BY <3>3, <1>2, <1>5
      <4>2. w[k - 1] = s[(k - 1) + 1]
        BY <4>1, <1>4
      <4> QED BY <4>1, <4>2
    <3> QED BY <3>1, <3>2, <3>3, <1>2, <1>5
  <2> QED BY <2>1, <1>5 DEF ToSet
<1>9. QED
  BY <1>4, <1>6, <1>7, <1>8 DEF OnceIn, w

(* An edge that is new goes to the front. *)
LEMMA PutFirst ==
  ASSUME NEW s, OnceIn(s), NEW e \in Nat, e \notin ToSet(s)
  PROVE  OnceIn(<<e>> \o s) /\ ToSet(<<e>> \o s) = ToSet(s) \cup {e} /\ <<e>> \o s # <<>>
<1> DEFINE t == <<e>> \o s
<1>1. s \in Seq(Nat) /\ (\A a, b \in 1 .. Len(s) : s[a] = s[b] => a = b) /\ Len(s) \in Nat
      /\ DOMAIN s = 1 .. Len(s)
  BY DEF OnceIn, IsInjective
<1>2. t \in Seq(Nat) /\ Len(t) = Len(s) + 1 /\ t[1] = e
      /\ \A j \in 1 .. Len(s) : t[j + 1] = s[j]
  <2>1. <<e>> \in Seq(Nat) /\ Len(<<e>>) = 1 /\ <<e>>[1] = e
    OBVIOUS
  <2> DEFINE o == <<e>>
  <2> HIDE DEF o
  <2>2. /\ o \o s \in Seq(Nat)
        /\ Len(o \o s) = Len(o) + Len(s)
        /\ \A i \in 1 .. Len(o) + Len(s) :
             (o \o s)[i] = IF i <= Len(o) THEN o[i] ELSE s[i - Len(o)]
    BY <2>1, <1>1, ConcatProperties DEF o
  <2> DEFINE u == o \o s
  <2> HIDE DEF u
  <2>3. u \in Seq(Nat) /\ Len(u) = Len(s) + 1
        /\ \A i \in 1 .. Len(s) + 1 : u[i] = IF i <= 1 THEN e ELSE s[i - 1]
    BY <2>1, <2>2, <1>1 DEF o, u
  <2>4. u[1] = e
    BY <2>3, <1>1
  <2>5. \A j \in 1 .. Len(s) : u[j + 1] = s[j]
    <3> SUFFICES ASSUME NEW j \in 1 .. Len(s) PROVE u[j + 1] = s[j]
      OBVIOUS
    <3>1. j + 1 \in 1 .. Len(s) + 1 /\ ~(j + 1 <= 1) /\ (j + 1) - 1 = j
      BY <1>1
    <3> QED BY <3>1, <2>3
  <2> QED BY <2>3, <2>4, <2>5 DEF u, o
<1> HIDE DEF t
<1>3. DOMAIN t = 1 .. Len(s) + 1
  BY <1>2
<1>4. \A j \in 2 .. Len(s) + 1 : j - 1 \in 1 .. Len(s) /\ t[j] = s[j - 1]
  <2> SUFFICES ASSUME NEW j \in 2 .. Len(s) + 1 PROVE j - 1 \in 1 .. Len(s) /\ t[j] = s[j - 1]
    OBVIOUS
  <2>1. j - 1 \in 1 .. Len(s) /\ (j - 1) + 1 = j
    BY <1>1
  <2> QED BY <2>1, <1>2
<1>5. \A j \in 1 .. Len(s) : s[j] # e
  BY <1>1 DEF ToSet
<1>6. IsInjective(t)
  <2> SUFFICES ASSUME NEW a \in 1 .. Len(s) + 1, NEW b \in 1 .. Len(s) + 1, t[a] = t[b]
               PROVE  a = b
    BY <1>3 DEF IsInjective
  <2>1. CASE a = 1 \/ b = 1
    BY <2>1, <1>2, <1>4, <1>5, <1>1
  <2>2. CASE a # 1 /\ b # 1
    <3>1. s[a - 1] = s[b - 1] /\ a - 1 \in 1 .. Len(s) /\ b - 1 \in 1 .. Len(s)
      BY <2>2, <1>4, <1>1
    <3>2. a - 1 = b - 1
      BY <3>1, <1>1
    <3> QED BY <3>2
  <2> QED BY <2>1, <2>2
<1>7. ToSet(t) = ToSet(s) \cup {e}
  <2>1. ToSet(t) \subseteq ToSet(s) \cup {e}
    <3> SUFFICES ASSUME NEW j \in 1 .. Len(s) + 1 PROVE t[j] \in ToSet(s) \cup {e}
      BY <1>3 DEF ToSet
    <3>1. CASE j = 1
      BY <3>1, <1>2
    <3>2. CASE j # 1
      <4>1. j \in 2 .. Len(s) + 1
        BY <3>2, <1>1
      <4>2. j - 1 \in DOMAIN s /\ t[j] = s[j - 1]
        BY <4>1, <1>1, <1>4
      <4> QED BY <4>2 DEF ToSet
    <3> QED BY <3>1, <3>2
  <2>2. e \in ToSet(t)
    BY <1>1, <1>2, <1>3 DEF ToSet
  <2>3. ToSet(s) \subseteq ToSet(t)
    <3> SUFFICES ASSUME NEW j \in 1 .. Len(s) PROVE s[j] \in ToSet(t)
      BY <1>1 DEF ToSet
    <3>1. j + 1 \in DOMAIN t /\ t[j + 1] = s[j]
      BY <1>1, <1>2, <1>3
    <3> QED BY <3>1 DEF ToSet
  <2> QED BY <2>1, <2>2, <2>3
<1>8. t # <<>>
  BY <1>1, <1>2
<1>9. QED
  BY <1>2, <1>6, <1>7, <1>8 DEF OnceIn, t

-----------------------------------------------------------------------------
(* Writing the edges of a graph and the lists of two nodes at once. *)

(* h is g but for its edges: out and in are the lists of edges, edge what   *)
(* the edges are.                                                          *)
SameLinks(g, h) ==
  /\ h.recycled = g.recycled
  /\ h.pendings = g.pendings /\ h.blockeds = g.blockeds
  /\ DOMAIN h.node = DOMAIN g.node
  /\ \A x \in DOMAIN g.node :
       /\ h.node[x].value = g.node[x].value
       /\ h.node[x].withinCycle = g.node[x].withinCycle
       /\ h.node[x].next = g.node[x].next
       /\ h.node[x].prev = g.node[x].prev

(* Writes of the edges and of the lists of edges. *)
SetOut(g, n, s) == [g EXCEPT !.node[n].dependees = s]
SetInto(g, n, s) == [g EXCEPT !.node[n].dependers = s]
SetEdges(g, E) == [g EXCEPT !.edge = E]

(* h is g but for the dependees of n, the dependers of n, or the edges. *)
OutSetIn(V, g, h, n, s) ==
  /\ h \in GraphSet(V) /\ SameLinks(g, h) /\ h.edge = g.edge
  /\ \A x \in DOMAIN g.node :
       /\ dependees(h, x) = IF x = n THEN s ELSE dependees(g, x)
       /\ dependers(h, x) = dependers(g, x)
IntoSetIn(V, g, h, n, s) ==
  /\ h \in GraphSet(V) /\ SameLinks(g, h) /\ h.edge = g.edge
  /\ \A x \in DOMAIN g.node :
       /\ dependees(h, x) = dependees(g, x)
       /\ dependers(h, x) = IF x = n THEN s ELSE dependers(g, x)
EdgesSetIn(V, g, h, E) ==
  /\ h \in GraphSet(V) /\ SameLinks(g, h) /\ h.edge = E /\ h.node = g.node

(* Writing the dependees of a node does that. *)
LEMMA SetOutDoes ==
  ASSUME NEW V, NEW g \in GraphSet(V), NEW n \in DOMAIN g.node, NEW s \in Seq(Nat)
  PROVE  OutSetIn(V, g, SetOut(g, n, s), n, s)
<1> DEFINE c == [g.node[n] EXCEPT !.dependees = s]
           q == [g.node EXCEPT ![n] = c]
           h == [g EXCEPT !.node = q]
<1>1. g.node \in Seq(CellSet(V)) /\ g.node[n] \in CellSet(V)
  BY DEF GraphSet
<1>2. c \in CellSet(V) /\ c.next = g.node[n].next /\ c.prev = g.node[n].prev
      /\ c.value = g.node[n].value /\ c.withinCycle = g.node[n].withinCycle
      /\ c.dependees = s /\ c.dependers = g.node[n].dependers
  BY <1>1 DEF CellSet
<1> HIDE DEF c
<1>3. /\ q \in Seq(CellSet(V)) /\ DOMAIN q = DOMAIN g.node /\ q[n] = c
      /\ \A x \in DOMAIN g.node \ {n} : q[x] = g.node[x]
  BY <1>1, <1>2, PutCell
<1> HIDE DEF q
<1>4. h \in GraphSet(V) /\ h.node = q /\ h.edge = g.edge /\ h.pendings = g.pendings
      /\ h.blockeds = g.blockeds /\ h.recycled = g.recycled
  BY <1>3, PutNode
<1>5. SetOut(g, n, s) = h
  BY DEF SetOut, h, q, c
<1> HIDE DEF h
<1>6. SameLinks(g, h)
  BY <1>2, <1>3, <1>4 DEF SameLinks
<1>7. \A x \in DOMAIN g.node :
       /\ dependees(h, x) = IF x = n THEN s ELSE dependees(g, x)
       /\ dependers(h, x) = dependers(g, x)
  BY <1>2, <1>3, <1>4 DEF dependees, dependers
<1>8. QED
  BY <1>4, <1>5, <1>6, <1>7 DEF OutSetIn

(* Writing the dependers of a node does that. *)
LEMMA SetIntoDoes ==
  ASSUME NEW V, NEW g \in GraphSet(V), NEW n \in DOMAIN g.node, NEW s \in Seq(Nat)
  PROVE  IntoSetIn(V, g, SetInto(g, n, s), n, s)
<1> DEFINE c == [g.node[n] EXCEPT !.dependers = s]
           q == [g.node EXCEPT ![n] = c]
           h == [g EXCEPT !.node = q]
<1>1. g.node \in Seq(CellSet(V)) /\ g.node[n] \in CellSet(V)
  BY DEF GraphSet
<1>2. c \in CellSet(V) /\ c.next = g.node[n].next /\ c.prev = g.node[n].prev
      /\ c.value = g.node[n].value /\ c.withinCycle = g.node[n].withinCycle
      /\ c.dependers = s /\ c.dependees = g.node[n].dependees
  BY <1>1 DEF CellSet
<1> HIDE DEF c
<1>3. /\ q \in Seq(CellSet(V)) /\ DOMAIN q = DOMAIN g.node /\ q[n] = c
      /\ \A x \in DOMAIN g.node \ {n} : q[x] = g.node[x]
  BY <1>1, <1>2, PutCell
<1> HIDE DEF q
<1>4. h \in GraphSet(V) /\ h.node = q /\ h.edge = g.edge /\ h.pendings = g.pendings
      /\ h.blockeds = g.blockeds /\ h.recycled = g.recycled
  BY <1>3, PutNode
<1>5. SetInto(g, n, s) = h
  BY DEF SetInto, h, q, c
<1> HIDE DEF h
<1>6. SameLinks(g, h)
  BY <1>2, <1>3, <1>4 DEF SameLinks
<1>7. \A x \in DOMAIN g.node :
       /\ dependees(h, x) = dependees(g, x)
       /\ dependers(h, x) = IF x = n THEN s ELSE dependers(g, x)
  BY <1>2, <1>3, <1>4 DEF dependees, dependers
<1>8. QED
  BY <1>4, <1>5, <1>6, <1>7 DEF IntoSetIn

(* Writing the edges does that. *)
LEMMA SetEdgesDoes ==
  ASSUME NEW V, NEW g \in GraphSet(V), NEW E \in EdgeSet
  PROVE  EdgesSetIn(V, g, SetEdges(g, E), E)
<1> DEFINE h == [g EXCEPT !.edge = E]
<1>1. h \in GraphSet(V) /\ h.node = g.node /\ h.edge = E /\ h.pendings = g.pendings
      /\ h.blockeds = g.blockeds /\ h.recycled = g.recycled
  BY DEF GraphSet
<1>2. SetEdges(g, E) = h
  BY DEF SetEdges
<1> HIDE DEF h
<1>3. QED
  BY <1>1, <1>2 DEF EdgesSetIn, SameLinks

(* The edges, the dependees of l and the dependers of r, all at once.      *)
Rewire(g, E, l, out, r, in) == SetInto(SetOut(SetEdges(g, E), l, out), r, in)

(* h is g after all three. *)
Rewired(V, g, h, E, l, out, r, in) ==
  /\ h \in GraphSet(V) /\ SameLinks(g, h) /\ h.edge = E
  /\ \A x \in DOMAIN g.node :
       /\ dependees(h, x) = IF x = l THEN out ELSE dependees(g, x)
       /\ dependers(h, x) = IF x = r THEN in ELSE dependers(g, x)

(* Rewire does that, when both nodes are the same one too. *)
LEMMA RewireDoes ==
  ASSUME NEW V, NEW g \in GraphSet(V), NEW E \in EdgeSet,
         NEW l \in DOMAIN g.node, NEW out \in Seq(Nat),
         NEW r \in DOMAIN g.node, NEW in \in Seq(Nat)
  PROVE  Rewired(V, g, Rewire(g, E, l, out, r, in), E, l, out, r, in)
<1> DEFINE g1 == SetEdges(g, E)
           g2 == SetOut(g1, l, out)
           h == SetInto(g2, r, in)
<1>1. EdgesSetIn(V, g, g1, E)
  BY SetEdgesDoes
<1> HIDE DEF g1
<1>2. OutSetIn(V, g1, g2, l, out)
  <2>1. g1 \in GraphSet(V) /\ l \in DOMAIN g1.node
    BY <1>1 DEF EdgesSetIn
  <2> QED BY <2>1, SetOutDoes
<1> HIDE DEF g2
<1>3. IntoSetIn(V, g2, h, r, in)
  <2>1. g2 \in GraphSet(V) /\ r \in DOMAIN g2.node
    BY <1>1, <1>2 DEF EdgesSetIn, OutSetIn, SameLinks
  <2> QED BY <2>1, SetIntoDoes
<1> HIDE DEF h
<1>4. SameLinks(g, h)
  <2>1. SameLinks(g, g1) /\ SameLinks(g1, g2) /\ SameLinks(g2, h)
    BY <1>1, <1>2, <1>3 DEF EdgesSetIn, OutSetIn, IntoSetIn
  <2> QED BY <2>1 DEF SameLinks
<1>5. DOMAIN g1.node = DOMAIN g.node /\ DOMAIN g2.node = DOMAIN g.node
  BY <1>1, <1>2 DEF EdgesSetIn, OutSetIn, SameLinks
<1>6. \A x \in DOMAIN g.node : dependees(g1, x) = dependees(g, x) /\ dependers(g1, x) = dependers(g, x)
  BY <1>1 DEF EdgesSetIn, dependees, dependers
<1>7. \A x \in DOMAIN g.node :
       /\ dependees(h, x) = IF x = l THEN out ELSE dependees(g, x)
       /\ dependers(h, x) = IF x = r THEN in ELSE dependers(g, x)
  BY <1>2, <1>3, <1>5, <1>6 DEF OutSetIn, IntoSetIn
<1>8. h \in GraphSet(V) /\ h.edge = E
  BY <1>1, <1>2, <1>3 DEF EdgesSetIn, OutSetIn, IntoSetIn
<1>9. QED
  BY <1>4, <1>7, <1>8 DEF Rewired, Rewire, h, g2, g1

-----------------------------------------------------------------------------
(* The edges and the lists of edges agree; the nodes without dependees. *)

(* The edges that leave a node, and those that end in it. *)
OutOf(g, n) == {e \in DOMAIN g.edge : depender(g, e) = n}
Into(g, n) == {e \in DOMAIN g.edge : dependee(g, e) = n}

(* The lists of edges of each node hold the edges it is an end of, once    *)
(* each; the ends of an edge are nodes that were not erased; no cell is    *)
(* recycled twice, and nothing depends on the node it held.                *)
EdgesOK(V, g) ==
  /\ g \in GraphSet(V)
  /\ IsInjective(g.recycled) /\ ToSet(g.recycled) \subseteq DOMAIN g.node
  /\ IsFiniteSet(DOMAIN g.edge)
  /\ \A e \in DOMAIN g.edge : depender(g, e) \in Live(g) /\ dependee(g, e) \in Live(g)
  /\ \A n \in Live(g) :
       /\ OnceIn(dependees(g, n)) /\ ToSet(dependees(g, n)) = OutOf(g, n)
       /\ OnceIn(dependers(g, n)) /\ ToSet(dependers(g, n)) = Into(g, n)
  /\ \A n \in DOMAIN g.node \ Live(g) : dependers(g, n) = <<>>

(* The nodes the two lists should hold. *)
Pending(g) == {n \in Live(g) : isPending(g, n)}
Blocked(g) == {n \in Live(g) : ~isPending(g, n)}

(* Nothing is erased by writing links or edges. *)
LEMMA LinksKeepLive ==
  ASSUME NEW g, NEW h, SameLinks(g, h)
  PROVE  Live(h) = Live(g)
BY DEF SameLinks, Live

(* Writing links leaves the edges alone. *)
LEMMA RelinkedKeeps ==
  ASSUME NEW V, NEW g, EdgesOK(V, g), NEW h \in GraphSet(V), Relinked(g, h)
  PROVE  EdgesOK(V, h) /\ Live(h) = Live(g) /\ Pending(h) = Pending(g) /\ Blocked(h) = Blocked(g)
<1>1. Live(h) = Live(g) /\ Live(g) \subseteq DOMAIN g.node
  BY DEF Relinked, Live
<1>2. \A n \in Live(g) : dependees(h, n) = dependees(g, n) /\ dependers(h, n) = dependers(g, n)
  BY <1>1 DEF Relinked, SameCell, dependees, dependers
<1>3. \A n \in Live(g) : isPending(h, n) <=> isPending(g, n)
  BY <1>2 DEF isPending
<1>4. h.edge = g.edge /\ h.recycled = g.recycled /\ DOMAIN h.node = DOMAIN g.node
  BY DEF Relinked
<1>5. \A n : OutOf(h, n) = OutOf(g, n) /\ Into(h, n) = Into(g, n)
  BY <1>4 DEF OutOf, Into, depender, dependee
<1>6. \A e \in DOMAIN h.edge : depender(h, e) \in Live(h) /\ dependee(h, e) \in Live(h)
  BY <1>1, <1>4 DEF EdgesOK, depender, dependee
<1>7. \A n \in DOMAIN h.node \ Live(h) : dependers(h, n) = <<>>
  BY <1>1, <1>4 DEF EdgesOK, Relinked, SameCell, dependers
<1>8. EdgesOK(V, h)
  BY <1>1, <1>2, <1>4, <1>5, <1>6, <1>7 DEF EdgesOK
<1>9. QED
  BY <1>1, <1>3, <1>8 DEF Pending, Blocked

(* The edges are pairs of numbers. *)
LEMMA EdgeFields ==
  ASSUME NEW V, NEW g \in GraphSet(V)
  PROVE  /\ DOMAIN g.edge \subseteq Nat
         /\ \A e \in DOMAIN g.edge : g.edge[e] \in Nat \X Nat
<1>1. g.edge \in EdgeSet
  BY DEF GraphSet
<1>2. PICK D \in SUBSET Nat : g.edge \in [D -> Nat \X Nat]
  BY <1>1 DEF EdgeSet
<1>3. QED
  BY <1>2

(* A function from numbers to such pairs is a set of edges. *)
LEMMA IsEdgeSet ==
  ASSUME NEW D \in SUBSET Nat, NEW E \in [D -> Nat \X Nat]
  PROVE  E \in EdgeSet
BY DEF EdgeSet

(* The edges and a new one. *)
EdgePlus(E, e, l, r) == [x \in DOMAIN E \cup {e} |-> IF x = e THEN <<l, r>> ELSE E[x]]

(* A new edge, in the lists of both ends, keeps the edges in order. *)
LEMMA AttachKeeps ==
  ASSUME NEW V, NEW g, EdgesOK(V, g), NEW l \in Live(g), NEW r \in Live(g),
         NEW e \in Nat, e \notin DOMAIN g.edge, NEW h,
         Rewired(V, g, h, EdgePlus(g.edge, e, l, r), l, <<e>> \o dependees(g, l),
                 r, <<e>> \o dependers(g, r))
  PROVE  /\ EdgesOK(V, h)
         /\ Live(h) = Live(g)
         /\ Pending(h) = Pending(g) \ {l}
         /\ Blocked(h) = Blocked(g) \cup {l}
<1> DEFINE E == EdgePlus(g.edge, e, l, r)
           out == <<e>> \o dependees(g, l)
           in == <<e>> \o dependers(g, r)
<1>1. SameLinks(g, h) /\ h \in GraphSet(V) /\ h.edge = E
  BY DEF Rewired
<1>2. Live(h) = Live(g) /\ Live(g) \subseteq DOMAIN g.node
  BY <1>1, LinksKeepLive DEF Live
<1>3. e \notin ToSet(dependees(g, l)) /\ e \notin ToSet(dependers(g, r))
  BY DEF EdgesOK, OutOf, Into
<1>4. OnceIn(out) /\ ToSet(out) = ToSet(dependees(g, l)) \cup {e} /\ out # <<>>
  <2>1. OnceIn(dependees(g, l))
    BY DEF EdgesOK
  <2> QED BY <2>1, <1>3, PutFirst
<1>5. OnceIn(in) /\ ToSet(in) = ToSet(dependers(g, r)) \cup {e}
  <2>1. OnceIn(dependers(g, r))
    BY DEF EdgesOK
  <2> QED BY <2>1, <1>3, PutFirst
<1>6. \A x \in DOMAIN g.node :
       /\ dependees(h, x) = IF x = l THEN out ELSE dependees(g, x)
       /\ dependers(h, x) = IF x = r THEN in ELSE dependers(g, x)
  BY DEF Rewired
<1> HIDE DEF out, in
<1>7. DOMAIN E = DOMAIN g.edge \cup {e} /\ E[e] = <<l, r>> /\ \A x \in DOMAIN g.edge : E[x] = g.edge[x]
  BY DEF EdgePlus
<1> HIDE DEF E
<1>8. \A x \in DOMAIN h.edge : /\ depender(h, x) = IF x = e THEN l ELSE depender(g, x)
                               /\ dependee(h, x) = IF x = e THEN r ELSE dependee(g, x)
  BY <1>1, <1>7 DEF depender, dependee
<1>9. \A n : /\ OutOf(h, n) = IF n = l THEN OutOf(g, n) \cup {e} ELSE OutOf(g, n)
             /\ Into(h, n) = IF n = r THEN Into(g, n) \cup {e} ELSE Into(g, n)
  BY <1>1, <1>7, <1>8 DEF OutOf, Into
<1>10. \A n \in Live(h) :
       /\ OnceIn(dependees(h, n)) /\ ToSet(dependees(h, n)) = OutOf(h, n)
       /\ OnceIn(dependers(h, n)) /\ ToSet(dependers(h, n)) = Into(h, n)
  <2> SUFFICES ASSUME NEW n \in Live(g)
               PROVE  /\ OnceIn(dependees(h, n)) /\ ToSet(dependees(h, n)) = OutOf(h, n)
                      /\ OnceIn(dependers(h, n)) /\ ToSet(dependers(h, n)) = Into(h, n)
    BY <1>2
  <2>1. n \in DOMAIN g.node
    BY <1>2
  <2>2. /\ OnceIn(dependees(g, n)) /\ ToSet(dependees(g, n)) = OutOf(g, n)
        /\ OnceIn(dependers(g, n)) /\ ToSet(dependers(g, n)) = Into(g, n)
    BY DEF EdgesOK
  <2>3. OnceIn(dependees(h, n)) /\ ToSet(dependees(h, n)) = OutOf(h, n)
    BY <2>1, <2>2, <1>4, <1>6, <1>9
  <2>4. OnceIn(dependers(h, n)) /\ ToSet(dependers(h, n)) = Into(h, n)
    BY <2>1, <2>2, <1>5, <1>6, <1>9
  <2> QED BY <2>3, <2>4
<1>11. \A x \in DOMAIN h.edge : depender(h, x) \in Live(h) /\ dependee(h, x) \in Live(h)
  BY <1>1, <1>2, <1>7, <1>8 DEF EdgesOK
<1>12. IsFiniteSet(DOMAIN h.edge)
  BY <1>1, <1>7, FS_AddElement DEF EdgesOK
<1>13. IsInjective(h.recycled) /\ ToSet(h.recycled) \subseteq DOMAIN h.node
  BY <1>1 DEF EdgesOK, SameLinks
<1>0. \A n \in DOMAIN h.node \ Live(h) : dependers(h, n) = <<>>
  BY <1>1, <1>2, <1>6 DEF EdgesOK, SameLinks
<1>14. EdgesOK(V, h)
  BY <1>0, <1>1, <1>10, <1>11, <1>12, <1>13 DEF EdgesOK
<1>15. \A n \in Live(g) : isPending(h, n) <=> n # l /\ isPending(g, n)
  BY <1>2, <1>4, <1>6 DEF isPending
<1>16. QED
  BY <1>2, <1>14, <1>15 DEF Pending, Blocked

(* So does taking an edge out, from the lists of both ends. *)
LEMMA CutKeeps ==
  ASSUME NEW V, NEW g, EdgesOK(V, g), NEW e \in DOMAIN g.edge, NEW l, NEW r,
         l = depender(g, e), r = dependee(g, e), NEW h,
         Rewired(V, g, h, Restrict(g.edge, DOMAIN g.edge \ {e}), l, Without(dependees(g, l), e),
                 r, Without(dependers(g, r), e))
  PROVE  /\ EdgesOK(V, h)
         /\ Live(h) = Live(g)
         /\ \A n \in Live(g) \ {l} : isPending(h, n) <=> isPending(g, n)
         /\ h.edge = Restrict(g.edge, DOMAIN g.edge \ {e})
         /\ l \in Live(g) /\ r \in Live(g) /\ ~isPending(g, l)
<1> DEFINE E == Restrict(g.edge, DOMAIN g.edge \ {e})
           out == Without(dependees(g, l), e)
           in == Without(dependers(g, r), e)
<1>1. SameLinks(g, h) /\ h \in GraphSet(V) /\ h.edge = E
  BY DEF Rewired
<1>2. Live(h) = Live(g) /\ Live(g) \subseteq DOMAIN g.node
  BY <1>1, LinksKeepLive DEF Live
<1>0. l \in Live(g) /\ r \in Live(g)
  BY DEF EdgesOK
<1>3. e \in ToSet(dependees(g, l)) /\ e \in ToSet(dependers(g, r))
  BY <1>0 DEF EdgesOK, OutOf, Into
<1>4. OnceIn(out) /\ ToSet(out) = ToSet(dependees(g, l)) \ {e}
  <2>1. OnceIn(dependees(g, l))
    BY <1>0 DEF EdgesOK
  <2> QED BY <2>1, <1>3, WithoutDoes
<1>5. OnceIn(in) /\ ToSet(in) = ToSet(dependers(g, r)) \ {e}
  <2>1. OnceIn(dependers(g, r))
    BY <1>0 DEF EdgesOK
  <2> QED BY <2>1, <1>3, WithoutDoes
<1>6. \A x \in DOMAIN g.node :
       /\ dependees(h, x) = IF x = l THEN out ELSE dependees(g, x)
       /\ dependers(h, x) = IF x = r THEN in ELSE dependers(g, x)
  BY DEF Rewired
<1> HIDE DEF out, in
<1>7. DOMAIN E = DOMAIN g.edge \ {e} /\ \A x \in DOMAIN g.edge \ {e} : E[x] = g.edge[x]
  BY DEF Restrict
<1> HIDE DEF E
<1>8. \A x \in DOMAIN h.edge : depender(h, x) = depender(g, x) /\ dependee(h, x) = dependee(g, x)
  BY <1>1, <1>7 DEF depender, dependee
<1>9. \A n : /\ OutOf(h, n) = OutOf(g, n) \ {e}
             /\ Into(h, n) = Into(g, n) \ {e}
  BY <1>1, <1>7, <1>8 DEF OutOf, Into
<1>10. \A n \in Live(h) :
       /\ OnceIn(dependees(h, n)) /\ ToSet(dependees(h, n)) = OutOf(h, n)
       /\ OnceIn(dependers(h, n)) /\ ToSet(dependers(h, n)) = Into(h, n)
  <2> SUFFICES ASSUME NEW n \in Live(g)
               PROVE  /\ OnceIn(dependees(h, n)) /\ ToSet(dependees(h, n)) = OutOf(h, n)
                      /\ OnceIn(dependers(h, n)) /\ ToSet(dependers(h, n)) = Into(h, n)
    BY <1>2
  <2>1. n \in DOMAIN g.node
    BY <1>2
  <2>2. /\ OnceIn(dependees(g, n)) /\ ToSet(dependees(g, n)) = OutOf(g, n)
        /\ OnceIn(dependers(g, n)) /\ ToSet(dependers(g, n)) = Into(g, n)
    BY DEF EdgesOK
  <2>5. (n # l => e \notin OutOf(g, n)) /\ (n # r => e \notin Into(g, n))
    BY DEF OutOf, Into
  <2>3. OnceIn(dependees(h, n)) /\ ToSet(dependees(h, n)) = OutOf(h, n)
    <3>1. CASE n = l
      BY <3>1, <2>1, <2>2, <1>4, <1>6, <1>9
    <3>2. CASE n # l
      <4>1. OutOf(h, n) = OutOf(g, n)
        BY <3>2, <2>5, <1>9
      <4> QED BY <4>1, <3>2, <2>1, <2>2, <1>6
    <3> QED BY <3>1, <3>2
  <2>4. OnceIn(dependers(h, n)) /\ ToSet(dependers(h, n)) = Into(h, n)
    <3>1. CASE n = r
      BY <3>1, <2>1, <2>2, <1>5, <1>6, <1>9
    <3>2. CASE n # r
      <4>1. Into(h, n) = Into(g, n)
        BY <3>2, <2>5, <1>9
      <4> QED BY <4>1, <3>2, <2>1, <2>2, <1>6
    <3> QED BY <3>1, <3>2
  <2> QED BY <2>3, <2>4
<1>11. \A x \in DOMAIN h.edge : depender(h, x) \in Live(h) /\ dependee(h, x) \in Live(h)
  BY <1>1, <1>2, <1>7, <1>8 DEF EdgesOK
<1>12. IsFiniteSet(DOMAIN h.edge)
  <2>1. DOMAIN h.edge \in SUBSET (DOMAIN g.edge)
    BY <1>1, <1>7
  <2> QED BY <2>1, FS_Subset DEF EdgesOK
<1>13. IsInjective(h.recycled) /\ ToSet(h.recycled) \subseteq DOMAIN h.node
  BY <1>1 DEF EdgesOK, SameLinks
<1>18. \A n \in DOMAIN h.node \ Live(h) : dependers(h, n) = <<>>
  BY <1>0, <1>1, <1>2, <1>6 DEF EdgesOK, SameLinks
<1>14. EdgesOK(V, h)
  BY <1>1, <1>10, <1>11, <1>12, <1>13, <1>18 DEF EdgesOK
<1>15. \A n \in Live(g) \ {l} : isPending(h, n) <=> isPending(g, n)
  BY <1>2, <1>6 DEF isPending
<1>16. ~isPending(g, l)
  BY <1>3 DEF isPending, ToSet
<1>17. QED
  BY <1>0, <1>1, <1>2, <1>14, <1>15, <1>16 DEF E

-----------------------------------------------------------------------------
(* The invariant of a graph, and attach. *)

(* The lists hold the cells P and B, and the head of _blockeds is clean. *)
Sides(g, P, B) ==
  /\ IsChain(g.node, g["pendings"], P)
  /\ IsChain(g.node, g["blockeds"], B)
  /\ Clean(g, "blockeds")

(* The invariant of a graph. *)
GraphOK(V, g) == EdgesOK(V, g) /\ Sides(g, Pending(g), Blocked(g))

(* The nodes of h are those of g, with their values and flags. *)
SameNodes(g, h) ==
  /\ h.recycled = g.recycled
  /\ DOMAIN h.node = DOMAIN g.node
  /\ \A x \in DOMAIN g.node :
       /\ h.node[x].value = g.node[x].value
       /\ h.node[x].withinCycle = g.node[x].withinCycle

(* h is g after edges came or went: no node was made or erased, and a      *)
(* clean head of _pendings stayed clean.                                   *)
Kept(V, g, h) ==
  /\ GraphOK(V, h)
  /\ SameNodes(g, h)
  /\ Clean(g, "pendings") => Clean(h, "pendings")

(* No node is erased then. *)
LEMMA SameNodesLive ==
  ASSUME NEW g, NEW h, SameNodes(g, h)
  PROVE  Live(h) = Live(g)
BY DEF SameNodes, Live

(* Writing edges leaves the lists of nodes alone. *)
LEMMA LinkedSides ==
  ASSUME NEW g, NEW h, SameLinks(g, h), NEW P, NEW B, Sides(g, P, B)
  PROVE  Sides(h, P, B) /\ (Clean(g, "pendings") => Clean(h, "pendings")) /\ SameNodes(g, h)
<1>1. /\ DOMAIN h.node = DOMAIN g.node
      /\ \A x \in DOMAIN g.node :
           h.node[x].next = g.node[x].next /\ h.node[x].prev = g.node[x].prev
      /\ h["pendings"] = g["pendings"] /\ h["blockeds"] = g["blockeds"]
  BY DEF SameLinks
<1>2. P \subseteq DOMAIN g.node /\ B \subseteq DOMAIN g.node
      /\ g["blockeds"] \in B \cup {Nil} /\ g["pendings"] \in P \cup {Nil}
  BY ChainEnds DEF Sides
<1>3. IsChain(h.node, h["pendings"], P)
  <2>1. P \subseteq DOMAIN h.node /\ IsChain(g.node, g["pendings"], P)
    BY <1>1, <1>2 DEF Sides
  <2>2. \A x \in P : h.node[x].next = g.node[x].next /\ h.node[x].prev = g.node[x].prev
    BY <1>1, <1>2
  <2> QED BY <2>1, <2>2, <1>1, ChainSame
<1>4. IsChain(h.node, h["blockeds"], B)
  <2>1. B \subseteq DOMAIN h.node /\ IsChain(g.node, g["blockeds"], B)
    BY <1>1, <1>2 DEF Sides
  <2>2. \A x \in B : h.node[x].next = g.node[x].next /\ h.node[x].prev = g.node[x].prev
    BY <1>1, <1>2
  <2> QED BY <2>1, <2>2, <1>1, ChainSame
<1>5. Clean(h, "blockeds") /\ (Clean(g, "pendings") => Clean(h, "pendings"))
  <2>1. Clean(g, "blockeds")
    BY DEF Sides
  <2> QED BY <2>1, <1>1, <1>2 DEF Clean
<1>6. SameNodes(g, h)
  BY DEF SameLinks, SameNodes
<1>7. QED
  BY <1>3, <1>4, <1>5, <1>6 DEF Sides

(* The number of a new edge is not one of the edges. *)
LEMMA NewEdgeDoes ==
  ASSUME NEW g, IsFiniteSet(DOMAIN g.edge)
  PROVE  NewEdge(g) \in Nat /\ NewEdge(g) \notin DOMAIN g.edge
<1> DEFINE N == Cardinality(DOMAIN g.edge)
<1>1. N \in Nat
  BY FS_CardinalityType
<1>2. \E e \in 1 .. N + 1 : e \notin DOMAIN g.edge
  <2> SUFFICES ASSUME 1 .. N + 1 \in SUBSET (DOMAIN g.edge) PROVE FALSE
    OBVIOUS
  <2>1. Cardinality(1 .. N + 1) <= N
    BY FS_Subset
  <2>2. Cardinality(1 .. N + 1) = N + 1
    BY <1>1, FS_Interval
  <2> QED BY <1>1, <2>1, <2>2
<1> HIDE DEF N
<1>3. NewEdge(g) \in 1 .. N + 1 /\ NewEdge(g) \notin DOMAIN g.edge
  BY <1>2 DEF NewEdge, N
<1>4. QED
  BY <1>1, <1>3

(* The edges and a new one are edges. *)
LEMMA EdgePlusType ==
  ASSUME NEW V, NEW g \in GraphSet(V), NEW e \in Nat, NEW l \in Nat, NEW r \in Nat
  PROVE  EdgePlus(g.edge, e, l, r) \in EdgeSet
<1> DEFINE D == DOMAIN g.edge \cup {e}
<1>1. D \in SUBSET Nat /\ \A x \in DOMAIN g.edge : g.edge[x] \in Nat \X Nat
  BY EdgeFields
<1>2. EdgePlus(g.edge, e, l, r) \in [D -> Nat \X Nat]
  BY <1>1 DEF EdgePlus
<1>3. QED
  BY <1>1, <1>2, IsEdgeSet

(* So are the edges without one. *)
LEMMA EdgeMinusType ==
  ASSUME NEW V, NEW g \in GraphSet(V), NEW e
  PROVE  Restrict(g.edge, DOMAIN g.edge \ {e}) \in EdgeSet
<1> DEFINE D == DOMAIN g.edge \ {e}
<1>1. D \in SUBSET Nat /\ \A x \in DOMAIN g.edge : g.edge[x] \in Nat \X Nat
  BY EdgeFields
<1>2. Restrict(g.edge, D) \in [D -> Nat \X Nat]
  BY <1>1 DEF Restrict
<1>3. QED
  BY <1>1, <1>2, IsEdgeSet

(* A node that was not erased is a cell with two lists of edges. *)
LEMMA LiveCells ==
  ASSUME NEW V, NEW g, EdgesOK(V, g), NEW n \in Live(g)
  PROVE  /\ n \in DOMAIN g.node /\ n \in Nat /\ n # Nil
         /\ dependees(g, n) \in Seq(Nat) /\ dependers(g, n) \in Seq(Nat)
<1>1. n \in DOMAIN g.node /\ g.node \in Seq(CellSet(V))
  BY DEF Live, EdgesOK, GraphSet
<1>2. n \in Nat /\ n # Nil
  BY <1>1 DEF Nil
<1>3. dependees(g, n) \in Seq(Nat) /\ dependers(g, n) \in Seq(Nat)
  BY DEF EdgesOK, OnceIn
<1>4. QED
  BY <1>1, <1>2, <1>3

(* The node stolen by attach, if it is. *)
LEMMA BlockKeeps ==
  ASSUME NEW V, NEW g, GraphOK(V, g), NEW l \in Live(g),
         isPending(g, l) => Clean(g, "pendings"), NEW b,
         b = IF isPending(g, l) THEN steal(g, "pendings", "blockeds", l) ELSE g
  PROVE  /\ b \in GraphSet(V) /\ EdgesOK(V, b) /\ Live(b) = Live(g)
         /\ Pending(b) = Pending(g) /\ Blocked(b) = Blocked(g) /\ b.edge = g.edge
         /\ SameNodes(g, b)
         /\ Sides(b, Pending(g) \ {l}, Blocked(g) \cup {l})
         /\ Clean(g, "pendings") => Clean(b, "pendings")
<1>1. CASE ~isPending(g, l)
  <2>1. b = g
    BY <1>1
  <2>2. Pending(g) \ {l} = Pending(g) /\ Blocked(g) \cup {l} = Blocked(g)
    BY <1>1 DEF Pending, Blocked
  <2>3. g \in GraphSet(V) /\ EdgesOK(V, g)
    BY DEF GraphOK, EdgesOK
  <2>4. SameNodes(g, g)
    BY DEF SameNodes
  <2> QED BY <2>1, <2>2, <2>3, <2>4 DEF GraphOK
<1>2. CASE isPending(g, l)
  <2>1. Moved(V, g, b, "pendings", "blockeds", l, Pending(g), Blocked(g))
    <3>1. g \in GraphSet(V) /\ l \in Pending(g) /\ Pending(g) \cap Blocked(g) = {}
      BY <1>2 DEF GraphOK, EdgesOK, Pending, Blocked
    <3>2. "pendings" \in Lists /\ "blockeds" \in Lists /\ "pendings" # "blockeds"
      BY DEF Lists
    <3>3. /\ IsChain(g.node, g["pendings"], Pending(g))
          /\ IsChain(g.node, g["blockeds"], Blocked(g))
          /\ Clean(g, "pendings")
      BY <1>2 DEF GraphOK, Sides
    <3>4. b = steal(g, "pendings", "blockeds", l)
      BY <1>2
    <3> QED BY <3>1, <3>2, <3>3, <3>4, StealMoves
  <2>2. b \in GraphSet(V) /\ Relinked(g, b)
    BY <2>1 DEF Moved
  <2>3. EdgesOK(V, b) /\ Live(b) = Live(g) /\ Pending(b) = Pending(g) /\ Blocked(b) = Blocked(g)
    BY <2>2, RelinkedKeeps DEF GraphOK
  <2>4. Sides(b, Pending(g) \ {l}, Blocked(g) \cup {l}) /\ Clean(b, "pendings")
    BY <2>1 DEF Moved, Sides
  <2>5. b.edge = g.edge /\ SameNodes(g, b)
    BY <2>2 DEF Relinked, SameNodes, SameCell
  <2> QED BY <2>2, <2>3, <2>4, <2>5
<1>3. QED
  BY <1>1, <1>2

(* attach keeps the invariant: the depender is stolen from _pendings if it *)
(* was there, which needs the head of _pendings clean.                     *)
LEMMA AttachDoes ==
  ASSUME NEW V, NEW g, GraphOK(V, g), NEW l \in Live(g), NEW r \in Live(g),
         isPending(g, l) => Clean(g, "pendings")
  PROVE  /\ Kept(V, g, attach(g, l, r))
         /\ attach(g, l, r).edge = EdgePlus(g.edge, NewEdge(g), l, r)
         /\ NewEdge(g) \in Nat \ DOMAIN g.edge
<1> DEFINE b == IF isPending(g, l) THEN steal(g, "pendings", "blockeds", l) ELSE g
           e == NewEdge(g)
           E == EdgePlus(g.edge, e, l, r)
           h == attach(g, l, r)
<1>1. /\ b \in GraphSet(V) /\ EdgesOK(V, b) /\ Live(b) = Live(g)
      /\ Pending(b) = Pending(g) /\ Blocked(b) = Blocked(g) /\ b.edge = g.edge
      /\ SameNodes(g, b)
      /\ Sides(b, Pending(g) \ {l}, Blocked(g) \cup {l})
      /\ Clean(g, "pendings") => Clean(b, "pendings")
  BY BlockKeeps
<1>2. e \in Nat /\ e \notin DOMAIN g.edge
  BY NewEdgeDoes DEF GraphOK, EdgesOK
<1>3. h = Rewire(b, EdgePlus(b.edge, e, l, r), l, <<e>> \o dependees(b, l), r, <<e>> \o dependers(b, r))
  BY DEF attach, Rewire, SetEdges, SetOut, SetInto, EdgePlus, dependees, dependers
<1> HIDE DEF b, e, h
<1>4. Rewired(V, b, h, EdgePlus(b.edge, e, l, r), l, <<e>> \o dependees(b, l), r, <<e>> \o dependers(b, r))
  <2> DEFINE out == <<e>> \o dependees(b, l)
             in == <<e>> \o dependers(b, r)
  <2>1. /\ l \in DOMAIN b.node /\ l \in Nat /\ r \in DOMAIN b.node /\ r \in Nat
        /\ dependees(b, l) \in Seq(Nat) /\ dependers(b, r) \in Seq(Nat)
    BY <1>1, LiveCells
  <2>2. EdgePlus(b.edge, e, l, r) \in EdgeSet
    BY <2>1, <1>1, <1>2, EdgePlusType
  <2>3. out \in Seq(Nat) /\ in \in Seq(Nat)
    BY <2>1, <1>2
  <2> HIDE DEF out, in
  <2>4. Rewired(V, b, Rewire(b, EdgePlus(b.edge, e, l, r), l, out, r, in),
                EdgePlus(b.edge, e, l, r), l, out, r, in)
    BY <1>1, <2>1, <2>2, <2>3, RewireDoes
  <2> QED BY <2>4, <1>3 DEF out, in
<1>5. /\ EdgesOK(V, h)
      /\ Live(h) = Live(b)
      /\ Pending(h) = Pending(b) \ {l}
      /\ Blocked(h) = Blocked(b) \cup {l}
  BY <1>1, <1>2, <1>4, AttachKeeps
<1>6. SameLinks(b, h) /\ h.edge = E
  BY <1>1, <1>4 DEF Rewired
<1>7. /\ Sides(h, Pending(g) \ {l}, Blocked(g) \cup {l})
      /\ Clean(b, "pendings") => Clean(h, "pendings")
      /\ SameNodes(b, h)
  BY <1>1, <1>6, LinkedSides
<1>8. SameNodes(g, h)
  BY <1>1, <1>7 DEF SameNodes
<1>9. GraphOK(V, h)
  BY <1>1, <1>5, <1>7 DEF GraphOK
<1>10. QED
  BY <1>1, <1>2, <1>6, <1>7, <1>8, <1>9 DEF Kept, h, e

-----------------------------------------------------------------------------
(* detach. *)

(* The edges without one. *)
EdgeMinus(E, e) == Restrict(E, DOMAIN E \ {e})

(* h is g without the edge e, whose _dependerNode l is still where it was. *)
WasCut(V, g, h, e, l) ==
  /\ h \in GraphSet(V) /\ EdgesOK(V, h) /\ SameLinks(g, h)
  /\ h.edge = EdgeMinus(g.edge, e)
  /\ l \in Live(g) /\ ~isPending(g, l)
  /\ \A n \in Live(g) \ {l} : isPending(h, n) <=> isPending(g, n)

(* Cut takes the edge out of the edges and of the lists of its ends. *)
LEMMA CutDoes ==
  ASSUME NEW V, NEW g, EdgesOK(V, g), NEW e \in DOMAIN g.edge
  PROVE  WasCut(V, g, Cut(g, e), e, depender(g, e))
<1> DEFINE l == depender(g, e)
           r == dependee(g, e)
           h == Cut(g, e)
           E == Restrict(g.edge, DOMAIN g.edge \ {e})
           out == Without(dependees(g, l), e)
           in == Without(dependers(g, r), e)
<1>1. h = Rewire(g, E, l, out, r, in)
  BY DEF Cut, Rewire, SetEdges, SetOut, SetInto, dependees, dependers
<1>2. l \in Live(g) /\ r \in Live(g) /\ g \in GraphSet(V)
  BY DEF EdgesOK
<1> HIDE DEF l, r, h
<1>3. l \in DOMAIN g.node /\ r \in DOMAIN g.node
  BY <1>2, LiveCells
<1>4. E \in EdgeSet
  BY <1>2, EdgeMinusType
<1>5. e \in ToSet(dependees(g, l)) /\ e \in ToSet(dependers(g, r))
  BY <1>2 DEF EdgesOK, OutOf, Into, l, r
<1>6. OnceIn(out) /\ OnceIn(in)
  <2>1. OnceIn(dependees(g, l)) /\ OnceIn(dependers(g, r))
    BY <1>2 DEF EdgesOK
  <2> QED BY <2>1, <1>5, WithoutDoes
<1>7. Rewired(V, g, h, E, l, out, r, in)
  <2>1. out \in Seq(Nat) /\ in \in Seq(Nat)
    BY <1>6 DEF OnceIn
  <2> HIDE DEF out, in, E
  <2> QED BY <2>1, <1>1, <1>2, <1>3, <1>4, RewireDoes
<1>8. /\ EdgesOK(V, h)
      /\ Live(h) = Live(g)
      /\ \A n \in Live(g) \ {l} : isPending(h, n) <=> isPending(g, n)
      /\ h.edge = Restrict(g.edge, DOMAIN g.edge \ {e})
      /\ l \in Live(g) /\ r \in Live(g) /\ ~isPending(g, l)
  BY <1>7, CutKeeps DEF l, r
<1>9. h \in GraphSet(V) /\ SameLinks(g, h)
  BY <1>7 DEF Rewired
<1>10. QED
  BY <1>8, <1>9 DEF WasCut, EdgeMinus, h, l

(* detach keeps the invariant: the depender is stolen from _blockeds when  *)
(* its last dependee went, whose head is always clean.                     *)
LEMMA DetachDoes ==
  ASSUME NEW V, NEW g, GraphOK(V, g), NEW e \in DOMAIN g.edge
  PROVE  /\ Kept(V, g, detach(g, e))
         /\ detach(g, e).edge = EdgeMinus(g.edge, e)
<1> DEFINE l == depender(g, e)
           c == Cut(g, e)
           h == detach(g, e)
           P == Pending(g)
           B == Blocked(g)
<1>1. WasCut(V, g, c, e, l)
  BY CutDoes DEF GraphOK
<1>2. h = IF isPending(c, l) THEN steal(c, "blockeds", "pendings", l) ELSE c
  BY DEF detach
<1> SUFFICES Kept(V, g, h) /\ h.edge = EdgeMinus(g.edge, e)
  OBVIOUS
<1> HIDE DEF l, c, h
<1>3. /\ Sides(c, P, B)
      /\ Clean(g, "pendings") => Clean(c, "pendings")
      /\ SameNodes(g, c)
  <2>1. SameLinks(g, c) /\ Sides(g, P, B)
    BY <1>1 DEF WasCut, GraphOK
  <2> HIDE DEF P, B
  <2> QED BY <2>1, LinkedSides
<1>4. Live(c) = Live(g) /\ l \in B /\ P \cap B = {}
  BY <1>1, <1>3, SameNodesLive DEF WasCut, Blocked, Pending
<1>5. CASE ~isPending(c, l)
  <2>1. Pending(c) = P /\ Blocked(c) = B
    BY <1>1, <1>4, <1>5 DEF WasCut, Pending, Blocked
  <2>2. h = c
    BY <1>2, <1>5
  <2> HIDE DEF P, B
  <2> QED BY <2>1, <2>2, <1>1, <1>3 DEF WasCut, Kept, GraphOK
<1>6. CASE isPending(c, l)
  <2>1. Pending(c) = P \cup {l} /\ Blocked(c) = B \ {l}
    BY <1>1, <1>4, <1>6 DEF WasCut, Pending, Blocked
  <2>2. h = steal(c, "blockeds", "pendings", l)
    BY <1>2, <1>6
  <2> HIDE DEF P, B
  <2>3. Moved(V, c, h, "blockeds", "pendings", l, B, P)
    <3>1. c \in GraphSet(V) /\ B \cap P = {} /\ l \in B
      BY <1>1, <1>4 DEF WasCut
    <3>2. "pendings" \in Lists /\ "blockeds" \in Lists /\ "pendings" # "blockeds"
      BY DEF Lists
    <3>3. /\ IsChain(c.node, c["pendings"], P)
          /\ IsChain(c.node, c["blockeds"], B)
          /\ Clean(c, "blockeds")
      BY <1>3 DEF Sides
    <3> QED BY <3>1, <3>2, <3>3, <2>2, StealMoves
  <2>4. h \in GraphSet(V) /\ Relinked(c, h)
    BY <2>3 DEF Moved
  <2>5. EdgesOK(V, h) /\ Live(h) = Live(c) /\ Pending(h) = Pending(c) /\ Blocked(h) = Blocked(c)
    BY <2>4, <1>1, RelinkedKeeps DEF WasCut
  <2>6. Sides(h, Pending(h), Blocked(h)) /\ Clean(h, "pendings")
    BY <2>1, <2>3, <2>5 DEF Moved, Sides
  <2>7. SameNodes(g, h)
    <3>1. SameNodes(c, h)
      BY <2>4 DEF Relinked, SameNodes, SameCell
    <3> QED BY <3>1, <1>3 DEF SameNodes
  <2>8. h.edge = EdgeMinus(g.edge, e)
    BY <2>4, <1>1 DEF Relinked, WasCut
  <2> QED BY <2>5, <2>6, <2>7, <2>8 DEF Kept, GraphOK
<1>7. QED
  BY <1>5, <1>6

-----------------------------------------------------------------------------
(* The loop of detachAll. *)

(* Two such steps make one. *)
LEMMA KeptTwice ==
  ASSUME NEW V, NEW g, NEW h, NEW i, Kept(V, g, h), Kept(V, h, i)
  PROVE  Kept(V, g, i)
BY DEF Kept, SameNodes

(* To do nothing is one. *)
LEMMA KeptNot ==
  ASSUME NEW V, NEW g, GraphOK(V, g)
  PROVE  Kept(V, g, g)
BY DEF Kept, SameNodes

(* The turns of detachAll, one after the other. *)
LEMMA DetachAllShape ==
  ASSUME NEW g, NEW n, Len(dependers(g, n)) \in Nat
  PROVE  \E after : /\ detachAll(g, n) = after[Len(dependers(g, n))]
                    /\ after[0] = g
                    /\ \A k \in 1 .. Len(dependers(g, n)) :
                         after[k] = detach(after[k - 1], dependers(g, n)[k])
<1> DEFINE edges == dependers(g, n)
           N == Len(edges)
           Is(h, m) == h = [k \in 0 .. m |-> IF k = 0 THEN g ELSE detach(h[k - 1], edges[k])]
           P == {m \in Nat : \E h : Is(h, m)}
           after == CHOOSE h : Is(h, N)
<1>1. detachAll(g, n) = after[N]
  BY DEF detachAll
<1> HIDE DEF edges
<1>2. 0 \in P
  <2>1. Is([k \in 0 .. 0 |-> g], 0)
    OBVIOUS
  <2> QED BY <2>1
<1>3. ASSUME NEW m \in 0 .. N - 1, m \in P PROVE m + 1 \in P
  <2>1. PICK h : Is(h, m)
    BY <1>3
  <2> DEFINE q == [j \in 0 .. m + 1 |-> IF j = m + 1 THEN detach(h[m], edges[m + 1]) ELSE h[j]]
  <2>2. m \in Nat /\ \A j \in 0 .. m :
          h[j] = IF j = 0 THEN g ELSE detach(h[j - 1], edges[j])
    BY <2>1
  <2>3. (\A j \in 0 .. m : q[j] = h[j]) /\ q[m + 1] = detach(h[m], edges[m + 1])
    BY <2>2
  <2>4. q = [j \in 0 .. m + 1 |-> q[j]]
    OBVIOUS
  <2> HIDE DEF q
  <2>5. \A j \in 0 .. m + 1 : q[j] = IF j = 0 THEN g ELSE detach(q[j - 1], edges[j])
    BY <2>2, <2>3
  <2>6. Is(q, m + 1)
    BY <2>4, <2>5
  <2> QED BY <2>2, <2>6
<1>4. N \in Nat
  BY DEF edges
<1>5. N \in P
  <2> HIDE DEF P
  <2>1. 0 .. N \subseteq P
    BY <1>2, <1>3, <1>4, UpTo
  <2> QED BY <2>1, <1>4
<1>6. Is(after, N)
  BY <1>5
<1> HIDE DEF after
<1>7. after[0] = g /\ \A k \in 1 .. N : after[k] = detach(after[k - 1], edges[k])
  BY <1>4, <1>6
<1>8. QED
  BY <1>1, <1>7 DEF edges

(* h has the edges of g but for those in D. *)
EdgesLess(g, h, D) ==
  /\ DOMAIN h.edge = DOMAIN g.edge \ D
  /\ \A e \in DOMAIN h.edge : h.edge[e] = g.edge[e]

(* All edges that end in the node are detached, each while it is still     *)
(* there.                                                                  *)
LEMMA DetachAllDoes ==
  ASSUME NEW V, NEW g, GraphOK(V, g), NEW n \in Live(g)
  PROVE  Kept(V, g, detachAll(g, n)) /\ EdgesLess(g, detachAll(g, n), Into(g, n))
<1> DEFINE s == dependers(g, n)
           N == Len(s)
<1>1. OnceIn(s) /\ ToSet(s) = Into(g, n)
  BY DEF GraphOK, EdgesOK
<1>2. s \in Seq(Nat) /\ N \in Nat /\ DOMAIN s = 1 .. N
      /\ \A a, b \in 1 .. N : s[a] = s[b] => a = b
  BY <1>1 DEF OnceIn, IsInjective
<1>3. PICK after : /\ detachAll(g, n) = after[N]
                   /\ after[0] = g
                   /\ \A k \in 1 .. N : after[k] = detach(after[k - 1], s[k])
  BY <1>2, DetachAllShape
<1> HIDE DEF s, N
<1> DEFINE Done(k) == {s[i] : i \in 1 .. k}
           P == {k \in 0 .. N : Kept(V, g, after[k]) /\ EdgesLess(g, after[k], Done(k))}
<1>4. 0 \in P
  <2>1. Done(0) = {}
    OBVIOUS
  <2> HIDE DEF Done
  <2>2. EdgesLess(g, g, Done(0))
    BY <2>1 DEF EdgesLess
  <2> QED BY <2>2, <1>2, <1>3, KeptNot
<1>5. ASSUME NEW k \in 0 .. N - 1, k \in P PROVE k + 1 \in P
  <2> DEFINE c == after[k]
             h == after[k + 1]
             e == s[k + 1]
  <2>1. Kept(V, g, c) /\ EdgesLess(g, c, Done(k)) /\ GraphOK(V, c)
    BY <1>5 DEF Kept
  <2>2. k + 1 \in 1 .. N /\ (k + 1) - 1 = k
    BY <1>2
  <2>3. h = detach(c, e)
    BY <2>2, <1>3
  <2>4. Done(k + 1) = Done(k) \cup {e} /\ e \notin Done(k)
    BY <2>2, <1>2
  <2>5. e \in DOMAIN g.edge
    BY <2>2, <1>1, <1>2 DEF ToSet, Into
  <2> HIDE DEF c, h, e, Done
  <2>6. e \in DOMAIN c.edge
    BY <2>1, <2>4, <2>5 DEF EdgesLess
  <2>7. Kept(V, c, h) /\ h.edge = EdgeMinus(c.edge, e)
    BY <2>1, <2>3, <2>6, DetachDoes
  <2>8. EdgesLess(g, h, Done(k + 1))
    BY <2>1, <2>4, <2>7 DEF EdgesLess, EdgeMinus, Restrict
  <2>9. Kept(V, g, h)
    BY <2>1, <2>7, KeptTwice
  <2> QED BY <2>2, <2>8, <2>9 DEF h
<1>6. N \in P
  <2> HIDE DEF P
  <2>1. 0 .. N \subseteq P
    BY <1>2, <1>4, <1>5, UpTo
  <2> QED BY <2>1, <1>2
<1>7. Done(N) = Into(g, n)
  BY <1>1, <1>2 DEF ToSet
<1>8. QED
  BY <1>3, <1>6, <1>7

-----------------------------------------------------------------------------
(* erase. *)

(* The pool gets a cell back. *)
SetRecycled(g, s) == [g EXCEPT !.recycled = s]
RecycledSetIn(V, g, h, s) ==
  /\ h \in GraphSet(V) /\ h.recycled = s
  /\ h.node = g.node /\ h.edge = g.edge
  /\ h["pendings"] = g["pendings"] /\ h["blockeds"] = g["blockeds"]

(* Recycling changes nothing else. *)
LEMMA SetRecycledDoes ==
  ASSUME NEW V, NEW g \in GraphSet(V), NEW s \in Seq(Nat)
  PROVE  RecycledSetIn(V, g, SetRecycled(g, s), s)
BY DEF GraphSet, SetRecycled, RecycledSetIn

(* The values and flags of h are those of g. *)
SameValues(g, h) ==
  /\ DOMAIN h.node = DOMAIN g.node
  /\ \A x \in DOMAIN g.node :
       /\ h.node[x].value = g.node[x].value
       /\ h.node[x].withinCycle = g.node[x].withinCycle

(* A node without edges is no longer in the lists, nor among the live ones. *)
Erased(V, g, h, n) ==
  /\ GraphOK(V, h)
  /\ Live(h) = Live(g) \ {n}
  /\ h.edge = g.edge
  /\ SameValues(g, h)
  /\ \A x \in Live(h) : dependees(h, x) = dependees(g, x) /\ dependers(h, x) = dependers(g, x)

(* The list of the pendings without n. *)
PopList(g, n) ==
  LET next == g.node[n].next
      prev == g.node[n].prev
  IN  IF g.pendings = n THEN SetHead(g, "pendings", next)
      ELSE LinkPrev(SetNext(g, prev, next), next, prev)

(* The list is the same without n: erase asks for the head by its place,   *)
(* so a stale _prev does no harm here.                                     *)
LEMMA PopListDoes ==
  ASSUME NEW V, NEW g \in GraphSet(V), NEW P, NEW B, P \cap B = {}, Sides(g, P, B),
         NEW n \in P
  PROVE  /\ PopList(g, n) \in GraphSet(V) /\ Relinked(g, PopList(g, n))
         /\ Sides(PopList(g, n), P \ {n}, B)
<1> DEFINE c == g.node
           head == g["pendings"]
           next == c[n].next
           prev == c[n].prev
           h == PopList(g, n)
           d == h.node
           D == DOMAIN g.node
<1>1. /\ P \subseteq D \ {Nil}
      /\ head \in P
      /\ next \in P \cup {Nil} /\ next # n /\ next # head
      /\ n # head => prev \in P /\ c[prev].next = n
      /\ \A x \in P : c[x].next = n => n # head /\ prev = x
  <2>1. Around(c, head, P, n)
    BY ChainAt DEF Sides
  <2> QED BY <2>1 DEF Around
<1>2. B \subseteq D \ {Nil} /\ g["blockeds"] \in B \cup {Nil}
  BY ChainEnds DEF Sides
<1>3. D \subseteq Nat /\ Nil \in Nat
  BY DEF GraphSet, Nil
<1>4. head = g.pendings
  OBVIOUS
<1> SUFFICES h \in GraphSet(V) /\ Relinked(g, h) /\ Sides(h, P \ {n}, B)
  OBVIOUS
<1>5. h = IF head = n THEN SetHead(g, "pendings", next)
          ELSE LinkPrev(SetNext(g, prev, next), next, prev)
  BY DEF PopList
<1> HIDE DEF h, next, prev, head
<1>6. /\ h \in GraphSet(V) /\ Relinked(g, h)
      /\ h["pendings"] = IF head = n THEN next ELSE head
      /\ h["blockeds"] = g["blockeds"]
      /\ \A x \in D : head = n => d[x] = c[x]
      /\ head # n => \A x \in D : /\ d[x].next = IF x = prev THEN next ELSE c[x].next
                                  /\ d[x].prev = IF x = next THEN prev ELSE c[x].prev
  <2>0. "pendings" \in Lists /\ "blockeds" \in Lists /\ "pendings" # "blockeds"
    BY DEF Lists
  <2>1. CASE head = n
    <3>1. h = SetHead(g, "pendings", next) /\ next \in Nat
      BY <2>1, <1>1, <1>3, <1>5
    <3>2. HeadSetIn(V, g, h, "pendings", next)
      BY <2>0, <3>1, SetHeadDoes
    <3> QED BY <2>0, <2>1, <3>2 DEF HeadSetIn
  <2>2. CASE head # n
    <3> DEFINE g1 == SetNext(g, prev, next)
    <3>1. h = LinkPrev(g1, next, prev) /\ prev \in D /\ prev \in Nat /\ next \in Nat /\ next \in D \cup {Nil}
      BY <2>2, <1>1, <1>3, <1>5
    <3>2. NextSetIn(V, g, g1, prev, next)
      BY <3>1, SetNextDoes
    <3> HIDE DEF g1
    <3>3. g1 \in GraphSet(V) /\ DOMAIN g1.node = D /\ Relinked(g, g1)
      BY <3>2 DEF NextSetIn, Relinked
    <3>4. PrevSetIn(V, g1, h, next, prev)
      BY <3>1, <3>3, LinkPrevDoes
    <3>5. Relinked(g, h)
      BY <3>3, <3>4, RelinkedChain DEF PrevSetIn
    <3>6. h["pendings"] = head /\ h["blockeds"] = g["blockeds"]
      BY <2>0, <3>2, <3>4 DEF NextSetIn, PrevSetIn, head
    <3>7. \A x \in D : /\ d[x].next = IF x = prev THEN next ELSE c[x].next
                       /\ d[x].prev = IF x = next THEN prev ELSE c[x].prev
      BY <3>2, <3>3, <3>4 DEF NextSetIn, PrevSetIn
    <3>8. h \in GraphSet(V)
      BY <3>4 DEF PrevSetIn
    <3> QED BY <2>2, <3>5, <3>6, <3>7, <3>8
  <2> QED BY <2>1, <2>2
<1>7. DOMAIN d = D
  BY <1>6 DEF Relinked
<1>8. IsChain(d, h["pendings"], P \ {n})
  <2>1. P \ {n} \subseteq DOMAIN d
    BY <1>1, <1>7
  <2>2. \A x \in P \ {n} : d[x].next = IF c[x].next = n THEN next ELSE c[x].next
    <3>1. CASE head = n
      BY <3>1, <1>1, <1>6
    <3>2. CASE head # n
      <4>1. \A x \in P \ {n} : x = prev <=> c[x].next = n
        BY <3>2, <1>1
      <4> QED BY <4>1, <3>2, <1>1, <1>6
    <3> QED BY <3>1, <3>2
  <2>3. \A x \in P \ {n} : x # h["pendings"] => d[x].prev = IF x = next THEN prev ELSE c[x].prev
    BY <1>1, <1>6
  <2>4. IsChain(c, head, P)
    BY DEF Sides, head
  <2>5. next = c[n].next /\ prev = c[n].prev
    BY DEF next, prev
  <2> DEFINE f == h["pendings"]
  <2>6. f = IF head = n THEN next ELSE head
    BY <1>6
  <2>7. \A x \in P \ {n} : x # f => d[x].prev = IF x = next THEN prev ELSE c[x].prev
    BY <2>3
  <2> HIDE DEF c, d, f
  <2>8. Unlinked(c, d, head, f, P, n)
    BY <2>1, <2>2, <2>5, <2>6, <2>7 DEF Unlinked
  <2>9. IsChain(d, f, P \ {n})
    BY <2>4, <2>8, ChainDrop
  <2> QED BY <2>9 DEF f
<1>9. \A x \in B : d[x].next = c[x].next /\ d[x].prev = c[x].prev
  <2>1. CASE head = n
    BY <2>1, <1>2, <1>6
  <2>2. CASE head # n
    <3>1. \A x \in B : x # prev /\ x # next
      BY <2>2, <1>1, <1>2
    <3> QED BY <2>2, <3>1, <1>2, <1>6
  <2> QED BY <2>1, <2>2
<1>10. IsChain(d, h["blockeds"], B)
  <2>1. B \subseteq DOMAIN d /\ IsChain(c, g["blockeds"], B)
    BY <1>2, <1>7 DEF Sides
  <2> HIDE DEF c, d
  <2>2. IsChain(d, g["blockeds"], B)
    BY <2>1, <1>9, ChainSame
  <2> QED BY <2>2, <1>6
<1>11. Clean(h, "blockeds")
  <2>1. Clean(g, "blockeds")
    BY DEF Sides
  <2> QED BY <2>1, <1>2, <1>6, <1>9 DEF Clean
<1>12. QED
  BY <1>6, <1>8, <1>10, <1>11 DEF Sides

(* A list of edges that holds none is empty. *)
LEMMA NoneInto ==
  ASSUME NEW s \in Seq(Nat), ToSet(s) = {}
  PROVE  s = <<>>
<1>1. s # <<>> => s[1] \in ToSet(s)
  BY DEF ToSet
<1>2. QED
  BY <1>1

(* erase keeps the invariant, for a pending node nothing depends upon. *)
LEMMA EraseDoes ==
  ASSUME NEW V, NEW g, GraphOK(V, g), NEW n \in Pending(g), Into(g, n) = {}
  PROVE  Erased(V, g, erase(g, n), n)
<1> DEFINE c == PopList(g, n)
           h == erase(g, n)
<1>1. h = SetRecycled(c, <<n>> \o c.recycled)
  BY DEF erase, PopList, SetHead, SetNext, SetRecycled
<1>2. Pending(g) \cap Blocked(g) = {} /\ g \in GraphSet(V) /\ EdgesOK(V, g) /\ n \in Live(g)
  BY DEF Pending, Blocked, GraphOK, EdgesOK
<1>3. /\ c \in GraphSet(V) /\ Relinked(g, c)
      /\ Sides(c, Pending(g) \ {n}, Blocked(g))
  BY <1>2, PopListDoes DEF GraphOK
<1> HIDE DEF c, h
<1>4. EdgesOK(V, c) /\ Live(c) = Live(g) /\ Pending(c) = Pending(g) /\ Blocked(c) = Blocked(g)
  BY <1>2, <1>3, RelinkedKeeps
<1>5. c.recycled = g.recycled /\ c.edge = g.edge
  BY <1>3 DEF Relinked
<1>6. OnceIn(c.recycled) /\ n \in Nat /\ n \notin ToSet(c.recycled)
  <2>1. c.recycled \in Seq(Nat) /\ IsInjective(c.recycled)
    BY <1>3, <1>4 DEF EdgesOK, GraphSet
  <2>2. n \in Nat
    BY <1>2, LiveCells
  <2> QED BY <2>1, <2>2, <1>2, <1>5 DEF OnceIn, Live
<1>7. OnceIn(<<n>> \o c.recycled) /\ ToSet(<<n>> \o c.recycled) = ToSet(c.recycled) \cup {n}
  BY <1>6, PutFirst
<1>8. RecycledSetIn(V, c, h, <<n>> \o c.recycled)
  <2>1. <<n>> \o c.recycled \in Seq(Nat)
    BY <1>7 DEF OnceIn
  <2> QED BY <2>1, <1>1, <1>3, SetRecycledDoes
<1>9. Live(h) = Live(c) \ {n}
  BY <1>7, <1>8 DEF RecycledSetIn, Live
<1>10. \A x : /\ dependees(h, x) = dependees(c, x) /\ dependers(h, x) = dependers(c, x)
              /\ OutOf(h, x) = OutOf(c, x) /\ Into(h, x) = Into(c, x)
              /\ depender(h, x) = depender(c, x) /\ dependee(h, x) = dependee(c, x)
              /\ isPending(h, x) <=> isPending(c, x)
  BY <1>8 DEF RecycledSetIn, dependees, dependers, OutOf, Into, depender, dependee, isPending
<1>11. Into(c, n) = {} /\ OutOf(c, n) = {}
  <2>1. Into(c, n) = Into(g, n)
    BY <1>5 DEF Into, dependee
  <2>2. n \in Pending(c) /\ n \in Live(c)
    BY <1>2, <1>4
  <2>3. dependees(c, n) = <<>>
    BY <2>2 DEF Pending, isPending
  <2>4. OutOf(c, n) = ToSet(dependees(c, n))
    BY <2>2, <1>4 DEF EdgesOK
  <2>5. ToSet(<<>>) = {}
    BY DEF ToSet
  <2> QED BY <2>1, <2>3, <2>4, <2>5
<1>12. EdgesOK(V, h)
  <2>1. h \in GraphSet(V) /\ h.edge = c.edge /\ h.node = c.node /\ h.recycled = <<n>> \o c.recycled
    BY <1>8 DEF RecycledSetIn
  <2>2. \A e \in DOMAIN h.edge : depender(h, e) \in Live(h) /\ dependee(h, e) \in Live(h)
    BY <2>1, <1>4, <1>9, <1>10, <1>11 DEF EdgesOK, OutOf, Into
  <2>3. \A x \in Live(h) :
       /\ OnceIn(dependees(h, x)) /\ ToSet(dependees(h, x)) = OutOf(h, x)
       /\ OnceIn(dependers(h, x)) /\ ToSet(dependers(h, x)) = Into(h, x)
    BY <1>4, <1>9, <1>10 DEF EdgesOK
  <2>4. IsInjective(h.recycled) /\ ToSet(h.recycled) \subseteq DOMAIN h.node
    <3>1. ToSet(c.recycled) \subseteq DOMAIN c.node /\ n \in DOMAIN c.node
      BY <1>2, <1>4 DEF EdgesOK, Live
    <3> QED BY <3>1, <2>1, <1>7 DEF OnceIn
  <2>5. IsFiniteSet(DOMAIN h.edge)
    BY <2>1, <1>4 DEF EdgesOK
  <2>6. dependers(h, n) = <<>>
    <3>1. dependers(c, n) \in Seq(Nat) /\ ToSet(dependers(c, n)) = {}
      BY <1>2, <1>4, <1>11 DEF EdgesOK, OnceIn
    <3> QED BY <3>1, <1>10, NoneInto
  <2>7. \A x \in DOMAIN h.node \ Live(h) : dependers(h, x) = <<>>
    BY <2>1, <2>6, <1>4, <1>9, <1>10 DEF EdgesOK
  <2> QED BY <2>1, <2>2, <2>3, <2>4, <2>5, <2>7 DEF EdgesOK
<1>13. Pending(h) = Pending(g) \ {n} /\ Blocked(h) = Blocked(g)
  <2>1. Pending(h) = Pending(c) \ {n} /\ Blocked(h) = Blocked(c) \ {n}
    BY <1>9, <1>10 DEF Pending, Blocked
  <2> QED BY <2>1, <1>2, <1>4
<1>14. Sides(h, Pending(h), Blocked(h))
  BY <1>3, <1>8, <1>13 DEF Sides, Clean, RecycledSetIn
<1>15. SameValues(g, h)
  BY <1>3, <1>8 DEF SameValues, Relinked, SameCell, RecycledSetIn
<1>16. \A x \in Live(h) : dependees(h, x) = dependees(g, x) /\ dependers(h, x) = dependers(g, x)
  <2>1. \A x \in Live(h) : x \in DOMAIN g.node
    BY <1>4, <1>9 DEF Live
  <2> QED BY <2>1, <1>3, <1>10 DEF Relinked, SameCell, dependees, dependers
<1>17. QED
  BY <1>4, <1>5, <1>8, <1>9, <1>12, <1>14, <1>15, <1>16 DEF Erased, GraphOK, RecycledSetIn, h

-----------------------------------------------------------------------------
(* pop, and the flag of a node. *)

(* A node is gone, with the edges that came into it.                       *)
Popped(V, g, h, n) ==
  /\ GraphOK(V, h)
  /\ Live(h) = Live(g) \ {n}
  /\ EdgesLess(g, h, Into(g, n))
  /\ SameValues(g, h)

(* pop keeps the invariant, for any pending node. *)
LEMMA PopDoes ==
  ASSUME NEW V, NEW g, GraphOK(V, g), NEW n \in Pending(g)
  PROVE  Popped(V, g, pop(g, n), n)
<1> DEFINE c == detachAll(g, n)
           h == pop(g, n)
<1>1. n \in Live(g) /\ h = erase(c, n)
  BY DEF Pending, pop
<1>2. Kept(V, g, c) /\ EdgesLess(g, c, Into(g, n))
  BY <1>1, DetachAllDoes
<1> HIDE DEF c, h
<1>3. GraphOK(V, c) /\ EdgesOK(V, c) /\ SameNodes(g, c) /\ Live(c) = Live(g) /\ EdgesOK(V, g)
  BY <1>2, SameNodesLive DEF Kept, GraphOK
<1>4. Into(c, n) = {}
  BY <1>2 DEF EdgesLess, Into, dependee
<1>5. n \in Pending(c)
  <2>1. OutOf(c, n) \subseteq OutOf(g, n)
    BY <1>2 DEF EdgesLess, OutOf, depender
  <2>2. OutOf(g, n) = ToSet(<<>>)
    BY <1>1, <1>3 DEF Pending, isPending, EdgesOK
  <2>3. ToSet(<<>>) = {}
    BY DEF ToSet
  <2>4. dependees(c, n) \in Seq(Nat) /\ ToSet(dependees(c, n)) = OutOf(c, n)
    BY <1>1, <1>3 DEF EdgesOK, OnceIn
  <2>5. dependees(c, n) = <<>>
    BY <2>1, <2>2, <2>3, <2>4, NoneInto
  <2> QED BY <2>5, <1>1, <1>3 DEF Pending, isPending
<1>6. Erased(V, c, h, n)
  BY <1>1, <1>3, <1>4, <1>5, EraseDoes
<1>7. EdgesLess(g, h, Into(g, n))
  BY <1>2, <1>6 DEF Erased, EdgesLess
<1>8. QED
  BY <1>3, <1>6, <1>7 DEF Erased, Popped, SameNodes, SameValues, h

(* Writing the cells of a graph. *)
SetNode(g, s) == [g EXCEPT !.node = s]
NodesSetIn(V, g, h, s) ==
  /\ h \in GraphSet(V) /\ h.node = s /\ h.edge = g.edge /\ h.recycled = g.recycled
  /\ h["pendings"] = g["pendings"] /\ h["blockeds"] = g["blockeds"]

(* Writing the cells changes nothing else. *)
LEMMA SetNodeDoes ==
  ASSUME NEW V, NEW g \in GraphSet(V), NEW s \in Seq(CellSet(V))
  PROVE  NodesSetIn(V, g, SetNode(g, s), s)
BY DEF GraphSet, SetNode, NodesSetIn

(* Writing the flag of a node. *)
SetFlag(g, n, b) == [g EXCEPT !.node[n].withinCycle = b]

(* h is g but for the flag of a node. *)
Flagged(V, g, h) ==
  /\ GraphOK(V, h)
  /\ h.edge = g.edge
  /\ h.recycled = g.recycled
  /\ DOMAIN h.node = DOMAIN g.node
  /\ \A x \in DOMAIN g.node : /\ h.node[x].value = g.node[x].value
                              /\ dependees(h, x) = dependees(g, x)
                              /\ dependers(h, x) = dependers(g, x)
  /\ Live(h) = Live(g)
  /\ Clean(g, "pendings") => Clean(h, "pendings")

(* The flag of a node may be written at any time. *)
LEMMA FlagDoes ==
  ASSUME NEW V, NEW g, GraphOK(V, g), NEW n \in Live(g), NEW b \in BOOLEAN
  PROVE  Flagged(V, g, SetFlag(g, n, b))
<1> DEFINE c == [g.node[n] EXCEPT !.withinCycle = b]
           q == [g.node EXCEPT ![n] = c]
           h == SetNode(g, q)
<1>1. g \in GraphSet(V) /\ EdgesOK(V, g) /\ Sides(g, Pending(g), Blocked(g))
  BY DEF GraphOK, EdgesOK
<1>2. n \in DOMAIN g.node /\ g.node \in Seq(CellSet(V)) /\ g.node[n] \in CellSet(V)
  BY <1>1, LiveCells DEF GraphSet
<1>3. /\ c \in CellSet(V) /\ c.value = g.node[n].value /\ c.next = g.node[n].next
      /\ c.prev = g.node[n].prev /\ c.dependees = g.node[n].dependees
      /\ c.dependers = g.node[n].dependers
  BY <1>2 DEF CellSet
<1>4. SetFlag(g, n, b) = h
  BY DEF SetFlag, SetNode, h, q, c
<1> HIDE DEF c
<1>5. /\ q \in Seq(CellSet(V)) /\ DOMAIN q = DOMAIN g.node
      /\ q[n] = c /\ \A x \in DOMAIN g.node \ {n} : q[x] = g.node[x]
  BY <1>2, <1>3, PutCell
<1> HIDE DEF q
<1>6. NodesSetIn(V, g, h, q)
  BY <1>1, <1>5, SetNodeDoes
<1> HIDE DEF h
<1>7. /\ DOMAIN h.node = DOMAIN g.node
      /\ \A x \in DOMAIN g.node :
           /\ h.node[x].value = g.node[x].value
           /\ h.node[x].next = g.node[x].next /\ h.node[x].prev = g.node[x].prev
           /\ dependees(h, x) = dependees(g, x) /\ dependers(h, x) = dependers(g, x)
  BY <1>3, <1>5, <1>6 DEF NodesSetIn, dependees, dependers
<1>8. /\ h \in GraphSet(V) /\ h.edge = g.edge /\ h.recycled = g.recycled
      /\ h["pendings"] = g["pendings"] /\ h["blockeds"] = g["blockeds"]
  BY <1>6 DEF NodesSetIn
<1>9. Live(h) = Live(g) /\ Live(g) \subseteq DOMAIN g.node
  BY <1>7, <1>8 DEF Live
<1>10. Pending(h) = Pending(g) /\ Blocked(h) = Blocked(g)
  BY <1>7, <1>9 DEF Pending, Blocked, isPending
<1>11. EdgesOK(V, h)
  <2>1. \A x : /\ OutOf(h, x) = OutOf(g, x) /\ Into(h, x) = Into(g, x)
               /\ depender(h, x) = depender(g, x) /\ dependee(h, x) = dependee(g, x)
    BY <1>8 DEF OutOf, Into, depender, dependee
  <2>2. \A x \in Live(h) :
       /\ OnceIn(dependees(h, x)) /\ ToSet(dependees(h, x)) = OutOf(h, x)
       /\ OnceIn(dependers(h, x)) /\ ToSet(dependers(h, x)) = Into(h, x)
    <3> SUFFICES ASSUME NEW x \in Live(h)
                 PROVE  /\ OnceIn(dependees(h, x)) /\ ToSet(dependees(h, x)) = OutOf(h, x)
                        /\ OnceIn(dependers(h, x)) /\ ToSet(dependers(h, x)) = Into(h, x)
      OBVIOUS
    <3>1. dependees(h, x) = dependees(g, x) /\ dependers(h, x) = dependers(g, x) /\ x \in Live(g)
      BY <1>7, <1>9
    <3>2. /\ OnceIn(dependees(g, x)) /\ ToSet(dependees(g, x)) = OutOf(g, x)
          /\ OnceIn(dependers(g, x)) /\ ToSet(dependers(g, x)) = Into(g, x)
      BY <3>1, <1>1 DEF EdgesOK
    <3> QED BY <3>1, <3>2, <2>1
  <2>3. \A e \in DOMAIN h.edge : depender(h, e) \in Live(h) /\ dependee(h, e) \in Live(h)
    BY <2>1, <1>1, <1>8, <1>9 DEF EdgesOK
  <2>4. IsInjective(h.recycled) /\ ToSet(h.recycled) \subseteq DOMAIN h.node /\ IsFiniteSet(DOMAIN h.edge)
    BY <1>1, <1>7, <1>8 DEF EdgesOK
  <2>5. \A x \in DOMAIN h.node \ Live(h) : dependers(h, x) = <<>>
    BY <1>1, <1>7, <1>9 DEF EdgesOK
  <2> QED BY <2>2, <2>3, <2>4, <2>5, <1>8 DEF EdgesOK
<1>12. Sides(h, Pending(g), Blocked(g)) /\ (Clean(g, "pendings") => Clean(h, "pendings"))
  <2>1. /\ IsChain(g.node, g["pendings"], Pending(g)) /\ IsChain(g.node, g["blockeds"], Blocked(g))
        /\ Clean(g, "blockeds")
    BY <1>1 DEF Sides
  <2>2. Pending(g) \subseteq DOMAIN g.node /\ Blocked(g) \subseteq DOMAIN g.node
        /\ g["pendings"] \in Pending(g) \cup {Nil} /\ g["blockeds"] \in Blocked(g) \cup {Nil}
    BY <2>1, ChainEnds
  <2>3. IsChain(h.node, g["pendings"], Pending(g))
    <3>1. Pending(g) \subseteq DOMAIN h.node
          /\ \A x \in Pending(g) : h.node[x].next = g.node[x].next /\ h.node[x].prev = g.node[x].prev
      BY <2>2, <1>7
    <3> QED BY <3>1, <2>1, ChainSame
  <2>4. IsChain(h.node, g["blockeds"], Blocked(g))
    <3>1. Blocked(g) \subseteq DOMAIN h.node
          /\ \A x \in Blocked(g) : h.node[x].next = g.node[x].next /\ h.node[x].prev = g.node[x].prev
      BY <2>2, <1>7
    <3> QED BY <3>1, <2>1, ChainSame
  <2>5. Clean(h, "blockeds") /\ (Clean(g, "pendings") => Clean(h, "pendings"))
    BY <2>1, <2>2, <1>7, <1>8 DEF Clean
  <2> QED BY <2>3, <2>4, <2>5, <1>8 DEF Sides
<1>13. QED
  BY <1>4, <1>7, <1>8, <1>9, <1>10, <1>11, <1>12 DEF Flagged, GraphOK

-----------------------------------------------------------------------------
(* makeNode: the cell the pool gives. *)

(* The cell the pool gives next, and what is left of what it got back.     *)
FreshCell(g) == IF g.recycled = <<>> THEN Len(g.node) + 1 ELSE Head(g.recycled)
Recycled(g) == IF g.recycled = <<>> THEN <<>> ELSE Tail(g.recycled)

(* A cell at the end of the memory or in place of a recycled one. *)
PutAt(s, n, c) == IF n > Len(s) THEN Append(s, c) ELSE [s EXCEPT ![n] = c]
NewCell(value, next) == [value |-> value, withinCycle |-> FALSE,
               dependees |-> <<>>, dependers |-> <<>>,
               next |-> next, prev |-> Nil]

(* The tail of a sequence without repetition. *)
LEMMA TailOnce ==
  ASSUME NEW s, OnceIn(s), s # <<>>
  PROVE  /\ Head(s) \in ToSet(s)
         /\ OnceIn(Tail(s)) /\ ToSet(Tail(s)) = ToSet(s) \ {Head(s)}
<1>1. s \in Seq(Nat) /\ (\A a, b \in 1 .. Len(s) : s[a] = s[b] => a = b) /\ Len(s) \in Nat
      /\ DOMAIN s = 1 .. Len(s) /\ Len(s) # 0
  BY DEF OnceIn, IsInjective
<1> DEFINE t == Tail(s)
<1>2. /\ Head(s) = s[1] /\ t \in Seq(Nat) /\ Len(t) = Len(s) - 1
      /\ \A i \in 1 .. Len(s) - 1 : t[i] = s[i + 1]
  BY <1>1
<1> HIDE DEF t
<1>3. DOMAIN t = 1 .. Len(s) - 1
  BY <1>2
<1>4. IsInjective(t)
  <2> SUFFICES ASSUME NEW a \in 1 .. Len(s) - 1, NEW b \in 1 .. Len(s) - 1, t[a] = t[b] PROVE a = b
    BY <1>3 DEF IsInjective
  <2>1. a + 1 \in 1 .. Len(s) /\ b + 1 \in 1 .. Len(s) /\ s[a + 1] = s[b + 1]
    BY <1>1, <1>2
  <2> QED BY <2>1, <1>1
<1>5. ToSet(t) = ToSet(s) \ {s[1]}
  <2>1. ASSUME NEW x \in ToSet(t) PROVE x \in ToSet(s) /\ x # s[1]
    <3>1. PICK i \in 1 .. Len(s) - 1 : x = t[i]
      BY <1>3 DEF ToSet
    <3>2. i + 1 \in 1 .. Len(s) /\ x = s[i + 1] /\ i + 1 # 1 /\ 1 \in 1 .. Len(s)
      BY <3>1, <1>1, <1>2
    <3>3. s[i + 1] # s[1]
      BY <3>2, <1>1
    <3> QED BY <3>2, <3>3, <1>1 DEF ToSet
  <2>2. ASSUME NEW x \in ToSet(s), x # s[1] PROVE x \in ToSet(t)
    <3>1. PICK i \in 1 .. Len(s) : x = s[i]
      BY <1>1 DEF ToSet
    <3>2. i # 1
      BY <3>1, <2>2
    <3>3. i - 1 \in 1 .. Len(s) - 1 /\ (i - 1) + 1 = i
      BY <3>2, <1>1
    <3>4. t[i - 1] = s[i]
      BY <3>3, <1>2
    <3> QED BY <3>1, <3>3, <3>4, <1>3 DEF ToSet
  <2> QED BY <2>1, <2>2
<1>6. s[1] \in ToSet(s)
  BY <1>1 DEF ToSet
<1>7. QED
  BY <1>2, <1>4, <1>5, <1>6 DEF OnceIn, t

(* The cell the pool gives was erased or never used. *)
LEMMA FreshIs ==
  ASSUME NEW V, NEW g, EdgesOK(V, g)
  PROVE  /\ FreshCell(g) \in Nat \ {Nil} /\ FreshCell(g) \notin Live(g)
         /\ FreshCell(g) \in 1 .. Len(g.node) + 1
         /\ OnceIn(Recycled(g))
         /\ (DOMAIN g.node \cup {FreshCell(g)}) \ ToSet(Recycled(g)) = Live(g) \cup {FreshCell(g)}
         /\ ToSet(Recycled(g)) \subseteq DOMAIN g.node
<1> DEFINE s == g.recycled
           L == Len(g.node)
<1>1. OnceIn(s) /\ ToSet(s) \subseteq DOMAIN g.node /\ DOMAIN g.node = 1 .. L /\ L \in Nat
  BY DEF EdgesOK, GraphSet, OnceIn
<1>2. CASE s = <<>>
  <2>1. OnceIn(<<>>) /\ ToSet(<<>>) = {}
    BY DEF OnceIn, ToSet, IsInjective
  <2>2. FreshCell(g) = L + 1 /\ Recycled(g) = <<>> /\ L + 1 \notin DOMAIN g.node
    BY <1>1, <1>2 DEF FreshCell, Recycled
  <2> QED BY <1>1, <1>2, <2>1, <2>2 DEF Live, Nil
<1>3. CASE s # <<>>
  <2>1. Head(s) \in ToSet(s) /\ OnceIn(Tail(s)) /\ ToSet(Tail(s)) = ToSet(s) \ {Head(s)}
    BY <1>1, <1>3, TailOnce
  <2>2. FreshCell(g) = Head(s) /\ Recycled(g) = Tail(s)
    BY <1>3 DEF FreshCell, Recycled
  <2>3. Head(s) \in 1 .. L
    BY <2>1, <1>1
  <2>4. Head(s) \in Nat \ {Nil} /\ Head(s) \in 1 .. L + 1
    BY <2>3, <1>1 DEF Nil
  <2> QED BY <1>1, <2>1, <2>2, <2>3, <2>4 DEF Live
<1>4. QED
  BY <1>2, <1>3

(* w is s with c at n, which may be its first free place.                  *)
PutIn(C, s, n, c, w) ==
  /\ w \in Seq(C)
  /\ DOMAIN w = DOMAIN s \cup {n}
  /\ w[n] = c
  /\ \A x \in DOMAIN s \ {n} : w[x] = s[x]

(* PutAt does that. *)
LEMMA PutAtDoes ==
  ASSUME NEW C, NEW s \in Seq(C), NEW n \in 1 .. Len(s) + 1, NEW c \in C
  PROVE  PutIn(C, s, n, c, PutAt(s, n, c))
<1>1. CASE n > Len(s)
  <2> DEFINE w == Append(s, c)
             N == Len(s)
  <2>1. n = N + 1 /\ DOMAIN s = 1 .. N /\ N \in Nat
    BY <1>1
  <2>2. w \in Seq(C) /\ Len(w) = N + 1 /\ w[N + 1] = c /\ \A x \in 1 .. N : w[x] = s[x]
    OBVIOUS
  <2>4. PutAt(s, n, c) = w
    BY <1>1 DEF PutAt
  <2> HIDE DEF w, N
  <2>3. DOMAIN w = 1 .. N + 1
    BY <2>2
  <2>5. 1 .. N + 1 = 1 .. N \cup {n}
    BY <2>1
  <2>6. DOMAIN w = DOMAIN s \cup {n} /\ w[n] = c
    BY <2>1, <2>2, <2>3, <2>5
  <2>7. \A x \in DOMAIN s \ {n} : w[x] = s[x]
    BY <2>1, <2>2
  <2>8. PutIn(C, s, n, c, w)
    BY <2>2, <2>6, <2>7 DEF PutIn
  <2> QED BY <2>4, <2>8
<1>2. CASE ~(n > Len(s))
  <2>1. n \in DOMAIN s /\ PutAt(s, n, c) = [s EXCEPT ![n] = c]
    BY <1>2 DEF PutAt
  <2> DEFINE w == [s EXCEPT ![n] = c]
  <2>2. w \in Seq(C) /\ DOMAIN w = DOMAIN s /\ w[n] = c /\ \A x \in DOMAIN s \ {n} : w[x] = s[x]
    BY <2>1, PutCell
  <2> HIDE DEF w
  <2>3. PutIn(C, s, n, c, w)
    BY <2>1, <2>2 DEF PutIn
  <2> QED BY <2>1, <2>3 DEF w
<1>3. QED
  BY <1>1, <1>2

(* The new cell is a cell. *)
LEMMA NewCellType ==
  ASSUME NEW V, NEW value \in V, NEW next \in Nat
  PROVE  NewCell(value, next) \in CellSet(V)
BY DEF NewCell, CellSet, Nil

(* makeNode, step by step. *)
MakeSteps(g, value) ==
  LET n == FreshCell(g)
      link == LinkPrev(g, g.pendings, n)
      s == PutAt(link.node, n, NewCell(value, g.pendings))
  IN  SetRecycled(SetHead(SetNode(link, s), "pendings", n), Recycled(link))

(* makeNode makes these steps. *)
LEMMA MakeIsSteps ==
  ASSUME NEW V, NEW g \in GraphSet(V), NEW value
  PROVE  makeNode(g, value) = MakeSteps(g, value)
BY DEF makeNode, MakeSteps, FreshCell, PutAt, NewCell, SetRecycled, SetHead, SetNode, Recycled

-----------------------------------------------------------------------------
(* makeNode, and what follows for WellFormed. *)

(* A node n of the given value came to the front of the pendings.          *)
Made(V, g, h, value) ==
  /\ GraphOK(V, h)
  /\ Clean(h, "pendings")
  /\ h.pendings \notin Live(g)
  /\ h.pendings \in Pending(h)
  /\ Live(h) = Live(g) \cup {h.pendings}
  /\ DOMAIN g.node \subseteq DOMAIN h.node
  /\ h.node[h.pendings].value = value
  /\ h.edge = g.edge
  /\ h["blockeds"] = g["blockeds"]
  /\ \A x \in Live(g) : /\ h.node[x].value = g.node[x].value
                        /\ isPending(h, x) <=> isPending(g, x)

(* What makeNode does to the cells. *)
CellsMade(V, g, h, value, n) ==
  /\ h \in GraphSet(V) /\ h.edge = g.edge /\ h.recycled = Recycled(g)
  /\ h["pendings"] = n /\ h["blockeds"] = g["blockeds"]
  /\ DOMAIN h.node = DOMAIN g.node \cup {n}
  /\ h.node[n] = NewCell(value, g["pendings"])
  /\ \A x \in DOMAIN g.node \ {n} :
       /\ SameCell(g.node[x], h.node[x])
       /\ h.node[x].next = g.node[x].next
       /\ h.node[x].prev = IF x = g["pendings"] THEN n ELSE g.node[x].prev

(* makeNode writes one cell, and the _prev of the head before it. *)
LEMMA MakeCells ==
  ASSUME NEW V, NEW g, EdgesOK(V, g), NEW value \in V, g["pendings"] \in DOMAIN g.node \cup {Nil}
  PROVE  CellsMade(V, g, makeNode(g, value), value, FreshCell(g))
<1> DEFINE n == FreshCell(g)
           p == g["pendings"]
           link == LinkPrev(g, p, n)
           s == PutAt(link.node, n, NewCell(value, p))
           a == SetNode(link, s)
           b == SetHead(a, "pendings", n)
           h == SetRecycled(b, Recycled(link))
<1>1. g \in GraphSet(V) /\ g["pendings"] = g.pendings
  BY DEF EdgesOK
<1>2. makeNode(g, value) = h
  <2>1. MakeSteps(g, value) = h
    BY <1>1 DEF MakeSteps
  <2> QED BY <2>1, <1>1, MakeIsSteps
<1>3. n \in Nat \ {Nil} /\ n \in 1 .. Len(g.node) + 1 /\ OnceIn(Recycled(g))
  BY FreshIs
<1>4. DOMAIN g.node = 1 .. Len(g.node) /\ Len(g.node) \in Nat /\ p \in Nat
  BY <1>1, HeadType DEF GraphSet, Lists
<1> HIDE DEF n, p
<1>5. PrevSetIn(V, g, link, p, n)
  <2>1. p \in DOMAIN g.node \cup {Nil} /\ n \in Nat
    BY <1>3 DEF p
  <2> QED BY <2>1, <1>1, LinkPrevDoes
<1> HIDE DEF link
<1>6. link \in GraphSet(V) /\ Relinked(g, link) /\ DOMAIN link.node = DOMAIN g.node
      /\ link.node \in Seq(CellSet(V)) /\ link.recycled = g.recycled /\ link.edge = g.edge
  BY <1>5 DEF PrevSetIn, Relinked, GraphSet
<1>7. Len(link.node) = Len(g.node)
  <2>1. DOMAIN link.node = 1 .. Len(link.node) /\ Len(link.node) \in Nat
    BY <1>6
  <2> QED BY <2>1, <1>4, <1>6
<1>8. NewCell(value, p) \in CellSet(V)
  BY <1>4, NewCellType
<1>9. PutIn(CellSet(V), link.node, n, NewCell(value, p), s)
  <2>1. n \in 1 .. Len(link.node) + 1
    BY <1>3, <1>7
  <2> DEFINE c == NewCell(value, p)
             C == CellSet(V)
             q == link.node
  <2>2. c \in C /\ q \in Seq(C) /\ n \in 1 .. Len(q) + 1
    BY <2>1, <1>6, <1>8
  <2>3. s = PutAt(q, n, c)
    BY DEF s
  <2> HIDE DEF c, C, q, s
  <2>4. PutIn(C, q, n, c, s)
    BY <2>2, <2>3, PutAtDoes
  <2> QED BY <2>4 DEF c, C, q
<1> HIDE DEF s
<1>10. NodesSetIn(V, link, a, s)
  <2>1. s \in Seq(CellSet(V))
    BY <1>9 DEF PutIn
  <2> QED BY <2>1, <1>6, SetNodeDoes
<1> HIDE DEF a
<1>11. HeadSetIn(V, a, b, "pendings", n)
  <2>1. a \in GraphSet(V) /\ "pendings" \in Lists /\ n \in Nat
    BY <1>3, <1>10 DEF NodesSetIn, Lists
  <2> QED BY <2>1, SetHeadDoes
<1> HIDE DEF b
<1>12. Recycled(link) = Recycled(g)
  BY <1>6 DEF Recycled
<1>13. RecycledSetIn(V, b, h, Recycled(g))
  <2>1. b \in GraphSet(V) /\ Recycled(g) \in Seq(Nat)
    BY <1>3, <1>11 DEF HeadSetIn, OnceIn
  <2> QED BY <2>1, <1>12, SetRecycledDoes
<1> HIDE DEF h
<1>14. h \in GraphSet(V) /\ h.edge = g.edge /\ h.recycled = Recycled(g)
       /\ h.node = s /\ h["pendings"] = n /\ h["blockeds"] = g["blockeds"]
  <2>1. "pendings" \in Lists /\ "blockeds" \in Lists /\ "pendings" # "blockeds"
    BY DEF Lists
  <2>2. h \in GraphSet(V) /\ h.edge = b.edge /\ h.recycled = Recycled(g)
        /\ h.node = b.node /\ h["pendings"] = b["pendings"] /\ h["blockeds"] = b["blockeds"]
    BY <1>13 DEF RecycledSetIn
  <2>3. b.edge = a.edge /\ b.node = a.node /\ b["pendings"] = n /\ b["blockeds"] = a["blockeds"]
    BY <2>1, <1>11 DEF HeadSetIn, Relinked
  <2>4. a.edge = link.edge /\ a.node = s /\ a["blockeds"] = link["blockeds"]
    BY <1>10 DEF NodesSetIn
  <2>5. link["blockeds"] = g["blockeds"]
    BY <2>1, <1>5 DEF PrevSetIn
  <2> QED BY <2>2, <2>3, <2>4, <2>5, <1>6
<1>15. DOMAIN s = DOMAIN g.node \cup {n} /\ s[n] = NewCell(value, p)
       /\ \A x \in DOMAIN g.node \ {n} : s[x] = link.node[x]
  BY <1>6, <1>9 DEF PutIn
<1>16. \A x \in DOMAIN g.node \ {n} :
       /\ SameCell(g.node[x], h.node[x])
       /\ h.node[x].next = g.node[x].next
       /\ h.node[x].prev = IF x = p THEN n ELSE g.node[x].prev
  BY <1>5, <1>6, <1>14, <1>15 DEF PrevSetIn, Relinked
<1>17. CellsMade(V, g, h, value, n)
  BY <1>14, <1>15, <1>16 DEF CellsMade, p
<1>18. QED
  BY <1>2, <1>17 DEF n

(* makeNode keeps the invariant and leaves a clean head behind. *)
LEMMA MakeNodeDoes ==
  ASSUME NEW V, NEW g, GraphOK(V, g), NEW value \in V
  PROVE  Made(V, g, makeNode(g, value), value)
<1> DEFINE n == FreshCell(g)
           h == makeNode(g, value)
<1>1. EdgesOK(V, g) /\ Sides(g, Pending(g), Blocked(g))
  BY DEF GraphOK
<1>2. /\ n \in Nat \ {Nil} /\ n \notin Live(g)
      /\ OnceIn(Recycled(g))
      /\ (DOMAIN g.node \cup {n}) \ ToSet(Recycled(g)) = Live(g) \cup {n}
      /\ ToSet(Recycled(g)) \subseteq DOMAIN g.node
  BY <1>1, FreshIs
<1>3. /\ IsChain(g.node, g["pendings"], Pending(g)) /\ IsChain(g.node, g["blockeds"], Blocked(g))
      /\ Clean(g, "blockeds")
  BY <1>1 DEF Sides
<1>4. Pending(g) \subseteq DOMAIN g.node /\ Blocked(g) \subseteq DOMAIN g.node
        /\ g["pendings"] \in Pending(g) \cup {Nil} /\ g["blockeds"] \in Blocked(g) \cup {Nil}
  BY <1>3, ChainEnds
<1>5. CellsMade(V, g, h, value, n)
  BY <1>1, <1>4, MakeCells
<1> HIDE DEF n, h
<1>6. /\ h \in GraphSet(V) /\ h.edge = g.edge /\ h.recycled = Recycled(g)
      /\ h["pendings"] = n /\ h["blockeds"] = g["blockeds"]
      /\ DOMAIN h.node = DOMAIN g.node \cup {n}
      /\ h.node[n] = NewCell(value, g["pendings"])
  BY <1>5 DEF CellsMade
<1>7. /\ dependees(h, n) = <<>> /\ dependers(h, n) = <<>> /\ h.node[n].value = value
      /\ h.node[n].next = g["pendings"] /\ h.node[n].prev = Nil
  BY <1>6 DEF NewCell, dependees, dependers
<1>8. Live(h) = Live(g) \cup {n} /\ Live(g) \subseteq DOMAIN g.node \ {n}
  BY <1>2, <1>6 DEF Live
<1>9. \A x \in Live(g) :
        /\ h.node[x].value = g.node[x].value
        /\ dependees(h, x) = dependees(g, x) /\ dependers(h, x) = dependers(g, x)
        /\ h.node[x].next = g.node[x].next
        /\ h.node[x].prev = IF x = g["pendings"] THEN n ELSE g.node[x].prev
  BY <1>5, <1>8 DEF CellsMade, SameCell, dependees, dependers
<1>10. Pending(h) = Pending(g) \cup {n} /\ Blocked(h) = Blocked(g)
  BY <1>7, <1>8, <1>9 DEF Pending, Blocked, isPending
<1>11. EdgesOK(V, h)
  <2>1. \A x : /\ OutOf(h, x) = OutOf(g, x) /\ Into(h, x) = Into(g, x)
               /\ depender(h, x) = depender(g, x) /\ dependee(h, x) = dependee(g, x)
    BY <1>6 DEF OutOf, Into, depender, dependee
  <2>2. \A x \in Live(g) :
       /\ OnceIn(dependees(h, x)) /\ ToSet(dependees(h, x)) = OutOf(h, x)
       /\ OnceIn(dependers(h, x)) /\ ToSet(dependers(h, x)) = Into(h, x)
    BY <2>1, <1>1, <1>9 DEF EdgesOK
  <2>3. \A e \in DOMAIN h.edge : depender(h, e) \in Live(g) /\ dependee(h, e) \in Live(g)
    BY <2>1, <1>1, <1>6 DEF EdgesOK
  <2>4. OutOf(h, n) = {} /\ Into(h, n) = {}
    BY <2>3, <1>2 DEF OutOf, Into
  <2>5. OnceIn(<<>>) /\ ToSet(<<>>) = {}
    BY DEF OnceIn, ToSet, IsInjective
  <2>6. \A x \in Live(h) :
       /\ OnceIn(dependees(h, x)) /\ ToSet(dependees(h, x)) = OutOf(h, x)
       /\ OnceIn(dependers(h, x)) /\ ToSet(dependers(h, x)) = Into(h, x)
    <3> SUFFICES ASSUME NEW x \in Live(h)
                 PROVE  /\ OnceIn(dependees(h, x)) /\ ToSet(dependees(h, x)) = OutOf(h, x)
                        /\ OnceIn(dependers(h, x)) /\ ToSet(dependers(h, x)) = Into(h, x)
      OBVIOUS
    <3>1. CASE x = n
      BY <3>1, <2>4, <2>5, <1>7
    <3>2. CASE x \in Live(g)
      BY <3>2, <2>2
    <3> QED BY <3>1, <3>2, <1>8
  <2>7. IsInjective(h.recycled) /\ ToSet(h.recycled) \subseteq DOMAIN h.node /\ IsFiniteSet(DOMAIN h.edge)
    BY <1>1, <1>2, <1>6 DEF EdgesOK, OnceIn
  <2>8. \A e \in DOMAIN h.edge : depender(h, e) \in Live(h) /\ dependee(h, e) \in Live(h)
    BY <2>3, <1>8
  <2>9. \A x \in DOMAIN h.node \ Live(h) : x \in DOMAIN g.node \ Live(g) /\ x # n
    BY <1>6, <1>8
  <2>10. \A x \in DOMAIN h.node \ Live(h) : dependers(h, x) = <<>>
    BY <2>9, <1>1, <1>5 DEF EdgesOK, CellsMade, SameCell, dependers
  <2> QED BY <2>6, <2>7, <2>8, <2>10, <1>6 DEF EdgesOK
<1>12. Sides(h, Pending(h), Blocked(h)) /\ Clean(h, "pendings")
  <2>1. Pending(g) \subseteq Live(g) /\ Blocked(g) \subseteq Live(g) /\ Pending(g) \cap Blocked(g) = {}
    BY DEF Pending, Blocked
  <2>2. IsChain(h.node, n, Pending(g) \cup {n})
    <3>1. n \notin Pending(g) /\ n # Nil /\ Pending(g) \cup {n} \subseteq DOMAIN h.node
      BY <1>2, <1>4, <1>6, <2>1
    <3>2. \A x \in Pending(g) : /\ h.node[x].next = g.node[x].next
                                /\ h.node[x].prev = IF x = g["pendings"] THEN n ELSE g.node[x].prev
      BY <2>1, <1>9
    <3> DEFINE c == g.node
               d == h.node
               S == Pending(g)
               p == g["pendings"]
    <3>3. /\ IsChain(c, p, S) /\ n \notin S /\ n # Nil /\ S \cup {n} \subseteq DOMAIN d /\ d[n].next = p
          /\ \A x \in S : d[x].next = c[x].next /\ d[x].prev = IF x = p THEN n ELSE c[x].prev
      BY <1>3, <1>7, <3>1, <3>2
    <3> HIDE DEF c, d, S, p
    <3>4. IsChain(d, n, S \cup {n})
      BY <3>3, ChainPush
    <3> QED BY <3>4 DEF d, S
  <2>3. IsChain(h.node, g["blockeds"], Blocked(g))
    <3>1. Blocked(g) \subseteq DOMAIN h.node
      BY <1>4, <1>6
    <3>2. g["pendings"] \notin Blocked(g)
      <4>1. Nil \notin Blocked(g)
        BY <1>3, ChainEnds
      <4> QED BY <4>1, <1>4, <2>1
    <3>3. \A x \in Blocked(g) : h.node[x].next = g.node[x].next /\ h.node[x].prev = g.node[x].prev
      BY <2>1, <3>2, <1>9
    <3> QED BY <3>1, <3>3, <1>3, ChainSame
  <2>4. Clean(h, "pendings")
    BY <1>6, <1>7 DEF Clean
  <2>5. Clean(h, "blockeds")
    <3>1. g["blockeds"] # Nil => g["blockeds"] \in Live(g) /\ g["blockeds"] # g["pendings"]
      <4>1. Nil \notin Blocked(g)
        BY <1>3, ChainEnds
      <4> QED BY <4>1, <1>4, <2>1
    <3> QED BY <3>1, <1>3, <1>6, <1>9 DEF Clean
  <2> QED BY <2>2, <2>3, <2>4, <2>5, <1>6, <1>10 DEF Sides
<1>13. h.pendings = n
  <2>1. h.pendings = h["pendings"]
    OBVIOUS
  <2> QED BY <2>1, <1>6
<1>14. QED
  BY <1>2, <1>6, <1>7, <1>8, <1>9, <1>10, <1>11, <1>12, <1>13 DEF Made, GraphOK, isPending, h

(* WellFormed, by the chains. *)
LEMMA OKIsWellFormed ==
  ASSUME NEW V, NEW g, GraphOK(V, g)
  PROVE  WellFormed(g)
<1>1. EdgesOK(V, g) /\ g \in GraphSet(V) /\ Sides(g, Pending(g), Blocked(g))
  BY DEF GraphOK, EdgesOK
<1> DEFINE L == Len(g.node)
<1>2. L \in Nat /\ DOMAIN g.node = 1 .. L
  BY <1>1 DEF GraphSet
<1>3. IsChain(g.node, g.pendings, Pending(g)) /\ IsChain(g.node, g.blockeds, Blocked(g))
  <2>1. g.pendings = g["pendings"] /\ g.blockeds = g["blockeds"]
    OBVIOUS
  <2> QED BY <1>1 DEF Sides
<1>4. Reach(g, g.pendings) = Pending(g)
  BY <1>2, <1>3, ReachIs
<1>5. Reach(g, g.blockeds) = Blocked(g)
  BY <1>2, <1>3, ReachIs
<1>6. \A n \in Live(g) :
       /\ ToSet(dependees(g, n)) = {e \in DOMAIN g.edge : depender(g, e) = n}
       /\ ToSet(dependers(g, n)) = {e \in DOMAIN g.edge : dependee(g, e) = n}
  BY <1>1 DEF EdgesOK, OutOf, Into
<1>7. QED
  BY <1>4, <1>5, <1>6 DEF WellFormed, Pending, Blocked

(* The graph without nodes. *)
LEMMA EmptyOK ==
  ASSUME NEW V
  PROVE  GraphOK(V, EmptyGraph) /\ Clean(EmptyGraph, "pendings") /\ Live(EmptyGraph) = {}
<1> DEFINE g == EmptyGraph
<1>1. g.node = <<>> /\ g.edge = <<>> /\ g.pendings = Nil /\ g.blockeds = Nil /\ g.recycled = <<>>
      /\ g["pendings"] = Nil /\ g["blockeds"] = Nil
  BY DEF EmptyGraph
<1>2. Live(g) = {}
  BY <1>1 DEF Live
<1>3. <<>> \in EdgeSet /\ DOMAIN <<>> = {}
  <2>1. <<>> \in [{} -> Nat \X Nat]
    OBVIOUS
  <2> QED BY <2>1, IsEdgeSet
<1>4. g \in GraphSet(V)
  BY <1>3 DEF GraphSet, EmptyGraph, Nil
<1>5. ToSet(<<>>) = {} /\ IsInjective(<<>>) /\ IsFiniteSet({})
  BY FS_EmptySet DEF ToSet, IsInjective
<1>6. EdgesOK(V, g)
  BY <1>1, <1>2, <1>3, <1>4, <1>5 DEF EdgesOK
<1>7. Pending(g) = {} /\ Blocked(g) = {}
  BY <1>2 DEF Pending, Blocked
<1>8. IsChain(<<>>, Nil, {})
  <2> DEFINE r == [x \in {} |-> 1]
  <2>1. r \in [{} -> Nat \ {0}]
    OBVIOUS
  <2>2. Chain(<<>>, Nil, {}, r)
    BY <2>1 DEF Chain
  <2> QED BY <2>1, <2>2 DEF IsChain
<1>9. QED
  BY <1>1, <1>2, <1>6, <1>7, <1>8 DEF GraphOK, Sides, Clean

(* Every operation of TGraph on nodes and edges that are there leaves the  *)
(* lists in agreement; only attach asks for more, a clean head of          *)
(* _pendings when it steals from there.                                    *)
THEOREM OperationsKeepTheLists ==
  ASSUME NEW V, NEW g, GraphOK(V, g)
  PROVE  /\ WellFormed(g)
         /\ \A v \in V : GraphOK(V, makeNode(g, v)) /\ WellFormed(makeNode(g, v))
         /\ \A l, r \in Live(g) : (isPending(g, l) => Clean(g, "pendings")) =>
              GraphOK(V, attach(g, l, r)) /\ WellFormed(attach(g, l, r))
         /\ \A e \in DOMAIN g.edge : GraphOK(V, detach(g, e)) /\ WellFormed(detach(g, e))
         /\ \A n \in Pending(g) : GraphOK(V, pop(g, n)) /\ WellFormed(pop(g, n))
<1>1. ASSUME NEW v \in V PROVE GraphOK(V, makeNode(g, v))
  BY MakeNodeDoes DEF Made
<1>2. ASSUME NEW l \in Live(g), NEW r \in Live(g), isPending(g, l) => Clean(g, "pendings")
      PROVE  GraphOK(V, attach(g, l, r))
  BY <1>2, AttachDoes DEF Kept
<1>3. ASSUME NEW e \in DOMAIN g.edge PROVE GraphOK(V, detach(g, e))
  BY DetachDoes DEF Kept
<1>4. ASSUME NEW n \in Pending(g) PROVE GraphOK(V, pop(g, n))
  BY PopDoes DEF Popped
<1>5. QED
  BY <1>1, <1>2, <1>3, <1>4, OKIsWellFormed

=============================================================================
