--------------------------- MODULE MCImportGraph ---------------------------
(* Small instances of ImportGraph: which modules are declared, in which    *)
(* order, by how many files, and what they import.                         *)
EXTENDS ImportGraph

CONSTANTS
  MaxDeclared,     \* bound: how many declarations the files hold
  MaxImports       \* bound: how many imports a declaration has

ImportLists == UNION {[1 .. k -> Modules] : k \in 0 .. MaxImports}
Declarations == [module : Modules, imports : ImportLists]

(* One input stands for those with other names: the modules are mentioned  *)
(* in increasing order, or the count of the names so far gets stuck at -9. *)
Named(known, m) == IF m = known + 1 THEN m ELSE IF m <= known THEN known ELSE -9
NamedBy(known, d) == FoldLeft(Named, Named(known, d.module), d.imports)
Canonical(input) == FoldLeft(NamedBy, 0, input) >= 0

(* An import that names no module ends the process before: the inputs are  *)
(* Resolved.                                                               *)
AllInputs ==
  {input \in UNION {[1 .. n -> Declarations] : n \in 0 .. MaxDeclared} :
     Resolved(input) /\ Canonical(input)}

=============================================================================
