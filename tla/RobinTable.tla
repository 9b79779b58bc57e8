----------------------------- MODULE RobinTable -----------------------------
(***************************************************************************)
(* robin::TMap over robin::TTable: an open-addressing table in which a     *)
(* bucket knows how far its element is from its home (dib), and an element *)
(* that is far takes the place of one that is near.  The buffers are the   *)
(* one in the table and, on demand, heaps twice as large each; a rehash    *)
(* moves the elements from one buffer to another and leaves the first one  *)
(* behind.                                                                 *)
(*                                                                         *)
(* An operation runs to its end without another in between.  Here it is a  *)
(* function from a table to a table:                                       *)
(*   buffers  the buckets of each buffer made so far (buffer::Manager)     *)
(*   index    the buffer in use (_bufferManager._index)                    *)
(*   begin    _beginPtr as a place, End for _endPtr                        *)
(*   size     _size                                                        *)
(*   lost     history: a shrink ran into a growth, which may lose elements *)
(***************************************************************************)
EXTENDS Integers, Sequences, FiniteSets, SequencesExt, FiniteSetsExt

CONSTANTS
    Keys,
    Values,
    Default,            \* Value{}
    Hash,               \* the hash of a key
    STACK_SIZE,         \* the capacity of the first buffer
    LOAD_FACTOR_LEVEL,  \* full at 1 - 1 / 2^LOAD_FACTOR_LEVEL
    DibRange            \* the number of values of _dib, 2^8 in the code

\* An empty table that is full would be rehashed for ever.
SizeAssumption == (STACK_SIZE - 1) * 2^LOAD_FACTOR_LEVEL >= STACK_SIZE

VARIABLE table

EMPTY  == 0
FILLED == 1

End == -1
\* A bucket chosen by the pseudo-random _xorShifter, to be settled by Settled.
Random == -2

\* What a bucket held before it was emptied is left out: it is compared only
\* where _dib has come back to zero, which is past every place of the key.
NoKey  == "no key"
Bucket == [dib |-> EMPTY, key |-> NoKey, val |-> Default]

Element(key, val) == [key |-> key, val |-> val]

NewBuffer(capacity) == [i \in 0..(capacity - 1) |-> Bucket]

Capacity(t) == STACK_SIZE * 2^t.index
Buckets(t)  == t.buffers[t.index + 1]
Filled(t)   == {i \in DOMAIN Buckets(t) : Buckets(t)[i].dib # EMPTY}

Home(t, key)  == Hash[key] % Capacity(t)
After(t, i)   == (i + 1) % Capacity(t)

Put(t, i, dib, e) == [t EXCEPT !.buffers[t.index + 1][i] = [dib |-> dib, key |-> e.key, val |-> e.val]]

\* TManager::makeNext goes to the last heap, after making one if needed.
MakeNext(t) ==
    LET heaps == Len(t.buffers) - 1
    IN  IF t.index < heaps THEN [t EXCEPT !.index = heaps]
        ELSE [t EXCEPT !.index = heaps + 1,
                       !.buffers = Append(@, NewBuffer(STACK_SIZE * 2^(heaps + 1)))]

\* init.
InitTable(t) == [t EXCEPT !.buffers[t.index + 1] = NewBuffer(Capacity(t)), !.begin = End, !.size = 0]

IsOverloaded(t, size) ==
    size * 2^LOAD_FACTOR_LEVEL > Capacity(t) * 2^LOAD_FACTOR_LEVEL - Capacity(t)

RECURSIVE Emplace(_, _), Scan(_, _, _, _), Further(_, _, _, _), Rehash(_, _)

\* emplace: the element starts at its home.
Emplace(t, e) == Scan(t, e, FILLED, Home(t, e.key))

\* The element that has come to bucket i, dib from its home.
Scan(t, e, dib, i) ==
    LET b == Buckets(t)[i]
    IN  CASE dib < b.dib -> Further(t, e, dib, i)
          [] b.dib = EMPTY ->
                IF IsOverloaded(t, t.size + 1) THEN Emplace(Rehash(MakeNext(t), t.index), e)
                ELSE [Put(t, i, dib, e) EXCEPT !.size = t.size + 1,
                                               !.begin = IF t.begin = End THEN i ELSE t.begin]
          [] b.dib # EMPTY /\ dib > b.dib -> Further(Put(t, i, dib, e), Element(b.key, b.val), b.dib, i)
          [] b.dib # EMPTY /\ dib = b.dib /\ b.key = e.key -> Put(t, i, dib, e)
          [] OTHER -> Further(t, e, dib, i)

\* One bucket further, unless _dib comes back to zero.
Further(t, e, dib, i) ==
    LET next == (dib + 1) % DibRange
    IN  IF next = 0 THEN Emplace(Rehash(MakeNext(t), t.index), e)
        ELSE Scan(t, e, next, After(t, i))

\* rehash: from the buffer with this index to the one in use.
Rehash(t, index) ==
    LET Move(u, i) ==
            LET b     == u.buffers[index + 1][i]
                moved == Emplace(u, Element(b.key, b.val))
            IN  IF b.dib = EMPTY THEN u
                ELSE [moved EXCEPT !.buffers[index + 1][i] = Bucket]
        places == [i \in 1..(STACK_SIZE * 2^index) |-> i - 1]
    IN  [FoldLeft(Move, InitTable(t), places) EXCEPT !.begin = Random]

\* makePrev, while there is one, and rehash.  Where _dib comes back to zero on
\* the way, emplace makes the last heap the one in use again: when it is the
\* buffer the elements come from, those that are still in it are gone.
Shrunk(t) ==
    LET shrunk == Rehash([t EXCEPT !.index = @ - 1], t.index)
    IN  [shrunk EXCEPT !.lost = shrunk.index >= t.index]

RECURSIVE Close(_, _)

(* Slip: the element after the hole moves even when it is at home. *)
CloseAlways(t, hole) ==
    LET i == After(t, hole)
        b == Buckets(t)[i]
    IN  IF b.dib > EMPTY THEN Close(Put(t, hole, b.dib, Element(b.key, b.val)), i)
        ELSE [t |-> t, hole |-> hole]

\* The elements after the hole that are not at home come one bucket nearer.
Close(t, hole) ==
    LET i == After(t, hole)
        b == Buckets(t)[i]
    IN  IF b.dib > FILLED THEN Close(Put(t, hole, b.dib - 1, Element(b.key, b.val)), i)
        ELSE [t |-> t, hole |-> hole]

\* shiftBuckets: the bucket that is empty in the end may be the one begin is at.
ShiftBuckets(t, i) ==
    LET closed == Close(t, i)
        u == [closed.t EXCEPT !.buffers[t.index + 1][closed.hole] = Bucket, !.size = @ - 1]
    IN  IF closed.hole # u.begin THEN u
        ELSE IF u.size = 0 THEN [u EXCEPT !.begin = End]
        ELSE IF u.size * 2 < Capacity(u) \div 2 /\ u.index > 0 THEN Shrunk(u)
        ELSE u

RECURSIVE Probe(_, _, _, _)

\* The walk of erase and tFind: where it ends and how far that is.
Probe(t, key, dib, i) ==
    LET b == Buckets(t)[i]
    IN  IF dib < b.dib \/ (dib = b.dib /\ b.key # key)
        THEN Probe(t, key, (dib + 1) % DibRange, After(t, i))
        ELSE [at |-> i, found |-> dib = b.dib]

Find(t, key) ==
    LET probe == Probe(t, key, FILLED, Home(t, key))
    IN  IF probe.found THEN probe.at ELSE End

Erase(t, key) == IF Find(t, key) = End THEN t ELSE ShiftBuckets(t, Find(t, key))

\* clear: the first buffer is used again as the last rehash left it.
Cleared(t) ==
    [t EXCEPT !.buffers[t.index + 1] = NewBuffer(Capacity(t)),
              !.begin = End, !.size = 0, !.index = 0]

(* Slip: the value is made anew. *)
SubscriptAnew(t, key) == Emplace(t, Element(key, Default))

\* TMap::operator[], which makes the value if there is none.
Subscript(t, key) == IF Find(t, key) # End THEN t ELSE Emplace(t, Element(key, Default))

-----------------------------------------------------------------------------
(* The operations.                                                         *)

\* The table becomes t, with a begin that the _xorShifter comes to.
Becomes(t) ==
    IF t.begin # Random THEN table' = t
    ELSE \E i \in Filled(t) : table' = [t EXCEPT !.begin = i]

Init == table = [buffers |-> <<NewBuffer(STACK_SIZE)>>, index |-> 0, begin |-> End, size |-> 0,
                 lost |-> FALSE]

EmplaceKey(k, v) == Becomes(Emplace(table, Element(k, v)))
SubscriptKey(k)  == Becomes(Subscript(table, k))
EraseKey(k)      == Becomes(Erase(table, k))
\* erase of an iterator that was found before.
EraseAt(k)       == Find(table, k) # End /\ Becomes(ShiftBuckets(table, Find(table, k)))
Clear            == Becomes(Cleared(table))

\* A table that may have lost elements is not followed any further.
Next ==
    \/ ~table.lost /\ \E k \in Keys, v \in Values : EmplaceKey(k, v)
    \/ ~table.lost /\ \E k \in Keys : SubscriptKey(k) \/ EraseKey(k) \/ EraseAt(k)
    \/ ~table.lost /\ Clear
    \/ table.lost /\ UNCHANGED table

Spec == Init /\ [][Next]_table

-----------------------------------------------------------------------------
(* Properties.                                                             *)

\* What the table holds, as a map.
Content(t) ==
    [k \in {Buckets(t)[i].key : i \in Filled(t)} |->
        Buckets(t)[CHOOSE i \in Filled(t) : Buckets(t)[i].key = k].val]

With(map, k, v)   == [x \in DOMAIN map \cup {k} |-> IF x = k THEN v ELSE map[x]]
Without(map, k)   == [x \in DOMAIN map \ {k} |-> map[x]]

(* Every call leaves what a map would hold: through displacements, growth  *)
(* to several buffers in one call, buffers that are used again, and the    *)
(* wrap-around of _dib while a table grows (emplace, erase, clear,         *)
(* operator[]).  Where it wraps while a table shrinks, elements may be     *)
(* lost (table.hpp:275-277 into :69-73); the ones that stay are as before. *)
CallsKeepTheirPromise ==
    [][LET old == Content(table)
           new == Content(table')
       IN  /\ \A k \in Keys, v \in Values : EmplaceKey(k, v) => new = With(old, k, v)
           /\ \A k \in Keys :
                 /\ SubscriptKey(k) => new = IF k \in DOMAIN old THEN old ELSE With(old, k, Default)
                 /\ EraseKey(k) \/ EraseAt(k) =>
                        IF table'.lost THEN IsRestriction(new, Without(old, k))
                        ELSE new = Without(old, k)
           /\ Clear => new = <<>>]_table

(* A key is found where it is and only then, each key is in one bucket,    *)
(* size() counts them, and begin() of a table that holds something is a    *)
(* bucket of the buffer in use, filled or emptied by erase (tFind against  *)
(* emplace, rehash and shiftBuckets).  Not said of a table that has lost   *)
(* elements.                                                               *)
FindsWhatItHolds ==
    ~table.lost =>
        /\ table.size = Cardinality(Filled(table))
        /\ table.size > 0 => table.begin \in DOMAIN Buckets(table)
        /\ Cardinality(DOMAIN Content(table)) = table.size
        /\ \A k \in Keys :
              IF k \in DOMAIN Content(table)
              THEN Find(table, k) \in Filled(table) /\ Buckets(table)[Find(table, k)].key = k
              ELSE Find(table, k) = End
=============================================================================
