------------------------------ MODULE Database ------------------------------
(***************************************************************************)
(* db::Database over its in-memory sqlite connection: the tables Files and *)
(* Units and the transaction around the statements that change both.  The  *)
(* identifiers are hashes of the path and of the source, so a path stands  *)
(* for its file and a source for its unit.                                 *)
(*                                                                         *)
(* Any statement may fail, ROLLBACK too.  fault names the one that does    *)
(* ("none" when all of them work), and end what becomes of the transaction *)
(* it is in: sqlite undoes it, as it does when memory or space runs out;   *)
(* it is kept, for the caller to roll back; or it is stuck, when it is     *)
(* kept and the ROLLBACK of the caller fails as well.                      *)
(***************************************************************************)
CONSTANTS
  Paths,     \* the paths of the files the clients register
  Sources    \* the contents they can have

None == "none"

Faults ==
  {None, "hasFile", "hasUnit", "begin", "file", "unit", "commit",
   "clean", "select"}

Ends == {"undone", "kept", "stuck"}

NoFiles == [p \in Paths |-> None]

(* The schema: each file has a unit, and the units are a set of sources.   *)
(* before is what ROLLBACK goes back to.                                   *)
EmptyTables == [files |-> NoFiles, units |-> {}]
Empty == [now |-> EmptyTables, open |-> FALSE, before |-> EmptyTables]

DatabaseType ==
  LET Tables == [files : [Paths -> Sources \cup {None}], units : SUBSET Sources]
  IN  [now : Tables, open : BOOLEAN, before : Tables]

(* What a member of Database gives back: the database and SQLITE_OK or not. *)
Result(d, ok) == [db |-> d, ok |-> ok]

-----------------------------------------------------------------------------
(* The statements. *)

(* Slip: the transaction does not know what it started from. *)
BeginBlank(d) == [d EXCEPT !.open = TRUE]

transactionBegin(d) == [d EXCEPT !.open = TRUE, !.before = d.now]

transactionCommit(d) == [d EXCEPT !.open = FALSE, !.before = EmptyTables]

(* Slip: what the transaction did stays. *)
RollbackKeeps(d) == IF d.open THEN transactionCommit(d) ELSE d

(* ROLLBACK without a transaction is an error and changes nothing. *)
transactionRollback(d) ==
  IF d.open
  THEN [d EXCEPT !.now = d.before, !.open = FALSE, !.before = EmptyTables]
  ELSE d

(* A statement that failed. *)
Broken(d, end) == IF end = "undone" THEN transactionRollback(d) ELSE d

(* The same, where the caller rolls back what sqlite kept.                 *)
Undone(d, end) == IF end = "stuck" THEN d ELSE transactionRollback(Broken(d, end))

hasFile(d, p) == d.now.files[p] # None
hasUnit(d, s) == s \in d.now.units

Registered(d) == {p \in Paths : hasFile(d, p)}

(* The files of some tables that have no unit.                             *)
Dangling(t) == {p \in Paths : t.files[p] # None /\ t.files[p] \notin t.units}

(* updateFile and the INSERT of a file; insertUnit. *)
SetFile(d, p, s) == [d EXCEPT !.now.files[p] = s]
AddUnit(d, s) == [d EXCEPT !.now.units = @ \cup {s}]

-----------------------------------------------------------------------------
(* The operations. *)

(* The file and the unit change together; a transaction is not begun inside *)
(* another one.  One that cannot be committed is left open, and so is one   *)
(* that cannot be rolled back, whatever was done in it.                     *)
InTransaction(d, p, s, fault, end) ==
  LET begun == transactionBegin(d)
      filed == SetFile(begun, p, s)
      united == AddUnit(filed, s)
  IN  CASE d.open \/ fault = "begin" -> Result(d, FALSE)
        [] ~d.open /\ fault = "file" -> Result(Undone(begun, end), FALSE)
        [] ~d.open /\ fault = "unit" -> Result(Undone(filed, end), FALSE)
        [] ~d.open /\ fault = "commit" -> Result(Broken(united, end), FALSE)
        [] OTHER -> Result(transactionCommit(united), TRUE)

updateFileAndInsertUnit(d, p, s, fault, end) ==
  InTransaction(d, p, s, fault, end)

insertFileAndUnit(d, p, s, fault, end) ==
  InTransaction(d, p, s, fault, end)

insertFile(d, p, s, fault, end) ==
  IF fault = "file"
  THEN Result(Broken(d, end), FALSE)
  ELSE Result(SetFile(d, p, s), TRUE)

(* Slip: the join is the wrong way round. *)
CleanUsed(d, fault, end) ==
  IF fault = "clean"
  THEN Result(Broken(d, end), FALSE)
  ELSE Result([d EXCEPT !.now.units =
                 {s \in @ : \A p \in Paths : d.now.files[p] # s}], TRUE)

(* Units no file refers to are deleted. *)
clean(d, fault, end) ==
  IF fault = "clean"
  THEN Result(Broken(d, end), FALSE)
  ELSE Result([d EXCEPT !.now.units =
                 {s \in @ : \E p \in Paths : d.now.files[p] = s}], TRUE)

(* Slip: only the files that share their unit are found. *)
SelectShared(d) ==
  {<<p, d.now.files[p]>> : p \in
    {q \in Registered(d) :
      \E r \in Paths \ {q} : d.now.files[r] = d.now.files[q]}}

(* The inner join of the files with their units. *)
selectUnitIdsPathsSources(d) ==
  {<<p, d.now.files[p]>> : p \in {q \in Paths : d.now.files[q] \in d.now.units}}

=============================================================================
