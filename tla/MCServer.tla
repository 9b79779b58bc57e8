------------------------------ MODULE MCServer ------------------------------
(***************************************************************************)
(* Two clients, two paths and two sources.  Nothing tells the clients, the *)
(* paths and the sources apart, and every property checked is a safety     *)
(* one, so that states that differ by their names only are the same.       *)
(***************************************************************************)
EXTENDS Server, TLC

Symmetry ==
  Permutations(Clients) \cup Permutations(Paths) \cup Permutations(Sources)

=============================================================================
