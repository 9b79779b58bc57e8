---------------------------- MODULE MCSequential ----------------------------
(***************************************************************************)
(* Three components that run one call after the other and share nothing:   *)
(* the emission of wasm modules built by hand, the objects and the archive *)
(* gen makes of whole programs, and the hash table.  A behaviour is about  *)
(* one of them, and the variables of the others stay as they are.          *)
(***************************************************************************)
EXTENDS GenInputs, WasmInputs

VARIABLES
    about,                                        \* the component
    built, tree, object, little, phase, size, written,  \* the variables of Emission
    table                                         \* the one of RobinTable

E == INSTANCE Emission WITH program <- built, Modules <- MCModules

\* Four keys that share a home until the capacity is 16, and one beside it.
MCKeys == {"a", "b", "c", "d", "e"}
MCHash == [a |-> 0, b |-> 8, c |-> 16, d |-> 24, e |-> 1]

R == INSTANCE RobinTable WITH
        Keys <- MCKeys, Hash <- MCHash, Values <- {2}, Default <- 1,
        STACK_SIZE <- 4, LOAD_FACTOR_LEVEL <- 1, DibRange <- 3

ASSUME TableSize == R!SizeAssumption

emissionVars == <<built, tree, object, little, phase, size, written>>

EmissionUnused ==
    /\ built = <<>> /\ tree = <<>> /\ object = FALSE /\ little = FALSE
    /\ phase = "unused" /\ size = 0 /\ written = <<>>

GenUnused ==
    /\ workers = {} /\ program = <<>> /\ next = 0 /\ bundle = <<>> /\ todo = <<>>
    /\ module = <<>> /\ start = <<>> /\ locals = <<>> /\ done = <<>> /\ asWsm = <<>>
    /\ objects = <<>> /\ archive = NoArchive

MCInit ==
    \/ about = "emission" /\ E!Init /\ GenUnused /\ R!Init
    \/ about = "gen" /\ Init /\ EmissionUnused /\ R!Init
    \/ about = "robin" /\ R!Init /\ GenUnused /\ EmissionUnused

MCNext ==
    /\ UNCHANGED about
    /\ \/ about = "emission" /\ E!Next /\ UNCHANGED <<vars, table>>
       \/ about = "gen" /\ Next /\ UNCHANGED <<emissionVars, table>>
       \/ about = "robin" /\ R!Next /\ UNCHANGED <<vars, emissionVars>>

MCSpec == MCInit /\ [][MCNext]_<<vars, emissionVars, table, about>>

-----------------------------------------------------------------------------
(* The properties of Emission and RobinTable, under their names.           *)

\* What emit writes reads back as the module that was built (wsm/emit.hpp).
ReadsBack == E!ReadsBack

\* What emit writes fills the buffer that emitSize measured, as long as no
\* relocation is 128 bytes or more into its section (emit.hpp:317).
SizeIsMeasured == E!SizeIsMeasured

\* The relocations of an object lead the linker to its calls (emit.hpp).
RelocationsPatchCalls == E!RelocationsPatchCalls

\* A key is found where it is, and only then (robin/table.hpp).
FindsWhatItHolds == R!FindsWhatItHolds

\* Every call leaves what a map would hold (robin/table.hpp).
CallsKeepTheirPromise == R!CallsKeepTheirPromise
=============================================================================
