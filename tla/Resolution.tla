----------------------------- MODULE Resolution -----------------------------
(***************************************************************************)
(* What sem::Context promises the code that binds and checks a bundle: a   *)
(* name is bound to an identifier whose definition was met, may be bound   *)
(* again to another one, and is settled once it has been read.             *)
(***************************************************************************)
CONSTANTS Names, Ids, None

VARIABLES
  known,     \* the identifiers whose definitions were met
  bound,     \* what each name is bound to, or None
  read       \* the names that were read

vars == <<known, bound, read>>

Init == known = {} /\ bound = [n \in Names |-> None] /\ read = {}

Notify(id) == known' = known \cup {id} /\ UNCHANGED <<bound, read>>

Bind(n) ==
  /\ n \notin read
  /\ \E id \in known : bound' = [bound EXCEPT ![n] = id]
  /\ UNCHANGED <<known, read>>

Read(n) ==
  /\ bound[n] # None
  /\ read' = read \cup {n}
  /\ UNCHANGED <<known, bound>>

(* The context goes on to the next bundle.  It remembers the definitions,   *)
(* and some of the names are the same node there.                          *)
Restart ==
  /\ \E same \in SUBSET Names :
       bound' = [n \in Names |-> IF n \in same THEN bound[n] ELSE None]
  /\ read' = {}
  /\ UNCHANGED known

Next ==
  \/ \E id \in Ids : Notify(id)
  \/ \E n \in Names : Bind(n) \/ Read(n)
  \/ Restart

Spec == Init /\ [][Next]_vars

=============================================================================
