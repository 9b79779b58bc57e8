# Verification of dmit

dmit is a compiler for a small language that runs as a server: a client registers
source files, which the server keeps in an in-memory sqlite database, and asks it to
compile all of them. Compilation runs on a pool of threads. This directory holds TLA+ modules
of its concurrent and stateful core and of the algorithms of its front end, back end and
hash table, TLC configurations that check them on small instances, and proofs for TLAPS. `PROJECT.json`
lists components, runs, mutants, findings, hazards and theorems, and says for each
definition which lines of the source it models. Paths below are relative to the
repository; `inc` stands for `lib/include`.

## Inventory

| component | state | operations | interacts with |
|---|---|---|---|
| Thread pool (`inc/dmit/com/parallel_for.hpp`) | `_todo`, `_done`, `_exit`, `_job`, two condition variables | `notify_and_wait`, `processFunction`, the destructor, `TParallelFor::run` | runs every job of `make` on the workers |
| Server (`src/dmit_server.cpp`, `inc/dmit/drv/server_*.hpp`) | the database, `isStopping` | `addFile`, `databaseGet`, `databaseClean`, `make`, `stop`, `replyWith` | clients over a REQ/REP socket; calls the database and the compiler |
| Client (`src/dmit_client.cpp`, `inc/dmit/drv/client_*.hpp`) | one query | sends it and blocks for the reply | the server |
| Database (`lib/src/dmit/db`) | tables Files and Units, the transaction | `hasFile`, `hasUnit`, `insertFile`, `insertFileAndUnit`, `updateFileAndInsertUnit`, `clean`, `selectUnitIdsPathsSources` | sqlite, of which any statement may fail |
| Dependency graph (`inc/topo`, `inc/list`, `inc/pool`) | lists of pending and blocked nodes, edges, recycled cells | `makeNode`, `attach`, `detach`, `pop`, `solveCycle`, `forcePending` | used by the import graph and the scheduler |
| Import graph (`lib/src/dmit/sem/import_graph.cpp`) | `_topoGraph`, `_moduleMap` | `registerAsts`, `makeBundles` | gives the order and the offsets to the bundles |
| Bundles (`lib/src/dmit/sem/bundle.cpp`) | one node pool per thread | `make`, `makeView` | reads the order and the FactMap; gives trees to the analysis |
| FactMap (`lib/src/dmit/sem/fact_map.cpp`) | module id to tree, chains of equal ids | `solveImports`, `emplace` | gives imports their ids before the import graph is built |
| Analyzer (`inc/dmit/sem/analyzer.hpp`) | `_interfaceAtomCount` | task 0 registers interfaces, task k analyses bundle k | pool, InterfaceMap, Contexts |
| InterfaceMap (`lib/src/dmit/sem/interface_map.cpp`) | `_asSimpleMap`, a node pool | `registerBundle`, `getView` | written by task 0, read by the other tasks |
| bind and check (`lib/src/dmit/sem/bind.cpp`, `check.cpp`) | statuses in the tree, the static lock of integer literals | visits of a bundle | Context |
| Context and scheduler (`lib/src/dmit/sem/context.cpp`, `inc/schmit`) | facts, events, locks, coroutines | `makeTask`, `notifyEvent`, `run`, `attach`, `pop` | one per worker; a graph of tasks |
| robin table (`inc/robin`) | buckets with distances, the buffers, `_beginPtr` | `emplace`, `erase`, `find`, `clear`, `operator[]` | every map above |
| Lexer (`lib/src/dmit/lex`) | the tokens, the depth of comments, the mark of character data | the nodes of the machine, `matchKeywords` | gives tokens to the parser; used for one file after the other |
| Parser (`lib/src/dmit/prs`) | the tree, the set of errors, a stack per rule | combinators and the wrappers of the rules | gives the tree to the AST builder |
| AST builder (`lib/src/dmit/ast/state.cpp`) | the node pool | one `make` per kind of node | `FromPathAndSource` composes the three |
| Wasm writer (`inc/dmit/wsm`) | where it writes, the offsets of relocations | `emitSize`, `emit`, for files and objects | called by `gen` |
| Code generation (`lib/src/dmit/gen`) | a wasm pool per worker, `_asWsm` in the AST, the archive | `Scribe`, `Bematist`, `make`, `makeArchive` | a job of the pool, on the bundles that were analysed |
| Utilities | none that is shared | AST copies, hashes, MessagePack, formatting, logging | calls only |

What is hard in this system, and what makes each part correct:

* *Pool*: workers and the main thread meet on atomics that are only partly under the
  mutexes. Every task is run exactly once, within its job; a call returns when, and only
  when, its job is over; the destructor returns; and tasks begin in increasing order,
  which the Analyzer needs in order not to spin forever.
* *Server and database*: a statement may fail between two that belong together, a
  commit may fail, a reply may be lost. A registered file keeps its unit, a failed query
  changes nothing, what was acknowledged stays.
* *Graph*: intrusive lists of which cells are moved, erased while they are iterated over
  and reused. A node is in the list its state says, cycles are found and contracted, and
  modules come after what they import.
* *Analysis*: tasks read what task 0 is still writing, and contexts outlive tasks. A view
  is complete before it is read, a name is bound to the right tree, and all tasks end.
* *Scheduler*: coroutines, locks and events as nodes of the same graph. Everything that
  can run does, and what waits for ever is reported.
* *Front end*: a machine that looks ahead, rules that fail after they have written, and a
  tree that is read from its end. The tokens are the lexemes of the text; the tree is
  well formed whatever alternatives were given up; errors are there exactly when the text
  is wrong; the AST is the program; and nothing of one file reaches the next.
* *Back end*: two passes that must agree, numbers that are known before what they number
  is written, offsets that are only known after. What is written is the module, it fits
  the buffer, relocations point to calls, and the linked objects compute the program.
* *Hash table*: displaced elements, a distance of eight bits, buffers that grow and shrink.
  It holds what a map would.

The list of hazards, with the lines where they bite, is in `PROJECT.json`.

## Modules

| module | models | extends or instantiates |
|---|---|---|
| `ParallelFor` | the contract of the pool, as its callers see it | - |
| `ThreadPool` | the pool, an access to an atomic per step | `ParallelFor`, by refinement |
| `ThreadPoolProofs` | theorems about it | `ThreadPool` |
| `Database` | the tables, the transaction and the members of `db::Database`, as operators | - |
| `Server` | clients, the server loop and its five handlers | `Database` |
| `ServerProofs` | theorems about it | `Server` |
| `TopoGraph` | `topo::TGraph` on `TList`, as operators on one record | - |
| `TopoGraphProofs` | theorems about the operators, for any graph | `TopoGraph` |
| `TopoGraphWaits` | lemmas: what each operator does to who waits for whom | `TopoGraphProofs` |
| `ImportGraph` | registration, `makeBundles`, `solveCycle`, `bundle::make` | `TopoGraph` |
| `ImportGraphProofs` | theorems about it | `ImportGraph`, `TopoGraphWaits` |
| `ImportOrderProofs` | theorems about the order of the modules | `ImportGraphProofs` |
| `Analyzer` | the semantic analysis of a make request | `ParallelFor`, as its environment |
| `AnalyzerProofs` | theorems about it | `Analyzer` |
| `Resolution` | what the Context promises to who binds and who reads names | - |
| `Context` | `sem::Context` and `schmit::TScheduler`, with bind and check as its users | `TopoGraph`; `Resolution`, by refinement |
| `ContextProofs` | theorems about it | `Context`, `TopoGraphWaits` |
| `Lexer` | the machine, as a table of gotos, a goto per step; keywords | - |
| `Parser` | the grammar as data, and what each combinator and wrapper does | - |
| `Ast` | the builder, over a reader of the parse tree | - |
| `FrontEnd` | `FromPathAndSource`: files through lexer, parser and builder | the three above |
| `Leb128` | the variable-length numbers | - |
| `Wasm` | the nodes of a wasm module | - |
| `WasmEmit` | the emitter: every section, instruction and symbol | `Wasm`, `Leb128` |
| `WasmFormat` | the binary format and that of objects as data, and a reader, as a reference | - |
| `Emission` | measure, allocate, write, on one module | `WasmEmit`, `WasmFormat` |
| `Gen` | code generation on several workers, and the archive | `WasmEmit`, `WasmFormat` |
| `RobinTable` | `robin::TTable` and `robin::TMap` | - |
| `GenInputs`, `WasmInputs` | the programs for `Gen`, the modules for `Emission` | `Gen`; `WasmEmit` |
| `MCThreadPool`, `MCServer`, `MCImportGraph`, `MCAnalyzer`, `MCFrontEnd` | instances for TLC | the modules they are named for |
| `MCSequential` | one instance of three components that share nothing | `Emission`, `Gen`, `RobinTable` |

`Analyzer` is composed with the pool through its contract: it calls the actions
`Submit`, `Begin`, `End` and `Return` of `ParallelFor`, and `ThreadPool` is shown to
implement that same module. It calls `Submit` and not `SubmitSpoilt`: all that is said of the
analysis is said of a job that found nothing left of the one before, which `make` does not ensure.

Operators named "Slip" in their comment are plausible mistakes. No specification uses
them; each is what `PROJECT.json` puts in the place of the right definition to see that a
property notices.

### ThreadPool

A worker's program counter is in `pc` and goes through `lock` (the predicate of the wait
and the test of `_exit`, under `_mutex_todo`), `waiting`, `take` (the `fetch_sub`),
`restore` (the `fetch_add` after one too many), `taken`, `run`, `finish` (the decrement of `_done`)
and `notify`. The main thread's is in `main`. Each critical section of `_mutex_todo`
holds one access to what it protects, so it is one step and the mutex has no variable;
`_mutex_done` is taken by the main thread only. Waits may wake up spuriously. Memory is
sequentially consistent. `ran`, the tasks that are over, is a history variable.

A task that was taken is run from `Load`, which reads `_job`, to `Run`; `mine` is the job it
was read from. The three stores of `notify_and_wait` are `Submit` (`_job`), `Reset` (`_done`) and `Post`
(`_todo`), and workers move between them.

Nothing holds a call back until the workers have left the job before, and `make` posts its
jobs one behind the other (server_make.hpp:58, 88, 101, 116). A worker that is between the
`fetch_sub` that found nothing and the `fetch_add` that repairs it (parallel_for.hpp:117)
when the next `_todo` is stored gives that job a task too many: `run` is called with -1, `_done`
counts it, and `notify_and_wait` returns while a task of the job is missing. All of this
is in `Spec`, and `MCThreadPoolDone` shows it with one worker and two jobs of one task. What can be said
nevertheless is said with two history variables:

* `surplus` is how many tasks too many the job has, what it found left of the one before when
  `_todo` was stored: workers about to repair, workers still in a task, and what these took
  off the new `_done`. `DoneCounts` says that this difference never grows, and
  `ReturnIsComplete` that a call returns with no more tasks missing than that; with none when
  it found nothing.
* `spoilt` says that the job found something. `IndexInJob` and `NoTaskTwice` say of a spoilt job only that
  no number is negative, and `ParallelFor` has a phase for it in which nothing is
  promised. The first job with tasks is never spoilt.

### Server and Database

A handler is one step: the server handles one query at a time and nobody else sees its
database. Inside, each statement of the handler may fail, and an error may end the
transaction or not, as sqlite leaves open; the ROLLBACK of the caller may fail as well
(`Ends`). Then the transaction stays open with what was done in it: database.cpp:180-183,
192-195, 229-232 and 241-244 return with a file that has no unit. This can be one file only,
since no other transaction begins before that one ends; `NoDanglingFile` and
`MakeSeesEveryFile` say so, and that when no transaction is open there is none. A `make` whose sources hit
an assertion of the compiler takes the server down (context.cpp:84, map.hpp:119). A file stands for the hash of its path and a
unit for the hash of its source. Lost replies leave the client blocked. `latest` and
`compiled` are history.

`OkIsRegistered` says what an OK means: the source is registered now, unless both the
path and the source were known before. That exception is what the code does: of the four
cases of `addFile` (server_add_file.hpp:95) the one where both are known has no branch, so
a file that is sent again with a source some file had before keeps its old source although
the client is told OK.

### TopoGraph and ImportGraph

The two node lists are kept pointer by pointer because `steal` trusts `_prev`, which
`pop_front` does not maintain, and because an erased node is still read. A turn of a loop
is a step of `ImportGraph`. `built` is what `bundle::make` takes from the order, `stale`
is history: some call of `solveCycle` began with a flagged node.

Two properties have an exception in them that is what the code does. `ComponentsUnlessStale`:
`solveCycle` leaves `_withinCycle` set on nodes of its walk (the reset at graph.hpp:201 is
commented out), so that when 1 and 2 import each other, 3 and 4 import each other and 4
imports 1, the cycle of 3 and 4 can be split over two bundles. `BundlesAreBuilt`:
`bundle::make` (bundle.cpp:62) starts at the number of the bundle instead of its offset,
so it is right up to and with the first bundle of more than one module, and later ones are
made of the wrong modules.

### Analyzer

`Agenda` is what a task visits, in order, in one turn of its loop: task 0 takes a bundle a
turn, the others wait for the bundles before their own and then take a module a turn. The
place of a worker is its `task`, the `turn` it is in, and how much of it was `visited`. Emplacing a view is two steps,
since a table that is being changed cannot be read. A module has an exported and a hidden
definition and uses both definitions of each module it imports; `bound` tells which tree
such a use points into, and `facts` is each worker's `_factMap`, which lives as long as
the request. The coroutines of one worker are run to their end inside a task and appear
only in that a use that has to wait is bound by `notifyEvent`; `Context` has the rest.

### Context

One context on one thread. `context` holds its members, with the graph of the scheduler
as a record of `TopoGraph`, and the names of the bundle its closures write to. `at` tells
which code runs: the interface maker (`interface`), the loop of `Context::run` (`flush`),
`nextCoroutine` (`next`), the coroutine of bind or of check; `waiting` is the name check
was suspended for. Each `makeTask`, `notifyEvent`, `vIndex` and each turn of the
scheduler is a step. A bundle is any order of names and definitions: which identifiers a
name is tried with, and when, is left open, since scopes and hashes only decide that. A
deferred task has no suspension point and is one step, `RunTask`.

When the node in front of check is popped, check becomes the first one with a stale
`_prev`. If it then begins to wait, the `steal` that should move it to the blocked nodes
leaves it at the head of the pending ones, and it is resumed without its lock being
released. This only happens after check was resumed by the loop of `Context::run`, when
every task that could run has run, so the name it waits for is one that cannot be
resolved: `std::get` throws (`thrown`) where the message and the abort of `Context::run`
were meant (`aborted`). `ListsAgree` leaves exactly this case out, and
`FailsOnlyUnresolved` holds for both ends.

`Forget` renumbers the cells once all of them are recycled; nothing points to a cell then.

`HeldCellsAreTheirs` has three parts: the first pending node, which `vIndex` makes wait, is
the check that called it (`TopIsCheck`); a lock in the unlock set that is still in the graph
has its name bound (`UnlockedIsBound`); and events of the map are in the graph and were not
popped (`EventsAreLive`).

### Lexer, Parser, Ast and FrontEnd

A file is a sequence of bytes, each the character itself. `Gotos` is the machine: for each
node the gotos that are tried, in order, and a step of the thread takes one; the nodes that
push a token are steps too. `_id`, the hash of the mark that opens character data, is the
mark itself. `OffsetAt` wraps at 2^16, which stands for 2^32, far beyond any instance.

`Grammar` is a record of rules, each with a combinator, the hook that wraps it (check of a
token, recoverable, writer of a node) and what it writes. `Parse` is one step: nobody sees
a parser between two tokens. The tree is a sequence that is cut to its former length when a
rule fails, and the counts of children are those of the stack the code keeps.

`Ast` goes over the tree backwards as the builder does; an assertion of the code is a node
`Asserted`, an element of a range that nobody wrote a `Stray`.

`FrontEnd` composes them and keeps the state of lexer and parser from file to file. Its
references are written from the language, not from the code: the longest match at each
place for tokens (`LexemeAt`), the grammar without recovery for the errors (`Strict`), and
for the AST the words of the text: each name, literal and operator is in it once and in order
(`Lexemes`, `Words`). Behaviours of the code that the references follow:

* A mark of character data that is never closed moves the head beyond the source, and the
  offset of the last token is a negative number cut to 32 bits.
* The quote that closes character data belongs to no token, so a keyword glued to it is an
  identifier; `'#none'` is a mark as any other; `**/` ends no comment; a line comment needs
  its newline; an empty source gives one `UNKNOWN`.
* Decimal literals, the unary minus and an assignment to something that is no identifier
  pass the parser, but the builder has no case for them. Texts with errors are built too.

`Strict` is the grammar as `Grammar` has it, without the rules that recover. One thing in it is not what the
parser does: `func f();` is a function (prs/state.cpp:310), and test/data/gen/moduleA.in:7 has one, but
the rule that skips a broken scope (:295) takes the `;` first and leaves an error.
`DeclarationsAreAllowed` says that a program of the grammar has no error, and
`MCFrontEndDeclared` shows that this one has. `ErrorsAreExact` and `FirstErrorIsFarthest` leave out texts in which
a function is declared only (`Declares`), but for the half that a text without errors is a program.

### Leb128, Wasm, WasmEmit, WasmFormat and Emission

`WasmEmit` is the emitter as functions from a writer to a writer: a writer that measures
only counts, one that writes has the bytes and the offsets of relocations. `Emission` is
the three calls of `gen::make`, with the lists of the module turned round by each visit as
`TVisitor` does. Floating point numbers are their bytes, on hosts of both byte orders.

**Deviations** of the emitter from the format, which `WasmFormat` reads as they are or the
instances leave out:

* `br_table` writes its labels before its opcode (`ReadsBack` leaves such functions out);
  `table.copy` its source first; a table its limits before
  its type; a global import its mutability before its type; a data segment no length.
* `i32.const` is written as unsigned: 64 to 127, 8192 and so on are read back negative, and
  a negative one takes ten bytes in the array of five of an object. Left out.
* A block without a type writes 0x40 and then takes the value of an empty option, which
  throws. A block of a function type writes the index in the node pool. Globals write
  their count twice and have no case for their instructions. Left out, but the second:
  the types come first in the pool there.
* The saturating conversions write nothing.
* An offset of a relocation of 128 or more is measured as one byte, since `Bematist::diff` is 0, and
  written as more. `gen::make` allocates what was measured (emitter.cpp:512-516) and writes
  past it. `SizeIsMeasured` leaves such objects out, and says of all others that the size is exact.

### Gen

A worker takes a bundle and visits its tree; `todo` is what is left of the visit and each
item a step, so the workers interleave between any two nodes. What they share is the tree of
interfaces: `_asWsm` of an imported function is written there. Two workers that import the
same function write it at the same time (emitter.cpp:302), a data race; the instances have two
workers where no function has two importers, and one worker where functions have.

Only `i64` and `+` exist in the emitter; everything else asserts. An expression statement
leaves its value on the stack and `return` emits nothing, so the programs are assignments
and one `return` at the end. Calls to a function that is not exported, or not yet finished
(a recursion), get no relocation and are right only because nothing moves functions within
an object. `ObjectsKeepTheMeaning` links the objects, runs them, and compares with the
meaning of the program, to `Depth` nested calls.

### RobinTable

Each call is one step, since the table belongs to one thread or is not read meanwhile
(`MCAnalyzerKeys` is about the one where that fails). Buckets hold distance, key and value;
buffers are the first and the ones twice as large each. The pseudo-random bucket from which
a rehash looks for the first element is any bucket (`Becomes`).

`begin()` may be an empty bucket, once the element it pointed to was erased, although a
comment speaks of updating it (table.hpp:263-279); `FindsWhatItHolds` only asks that it is a bucket of
the buffer in use, so it does not hold the code to that comment.

When the distance wraps while the table shrinks (table.hpp:275-277 into :69-73), the next
buffer can be the one that is being emptied, and elements are lost; in the code this takes 256
keys that collide. The instance, whose distance has three values, gets there. `lost` marks the table
from then on: `CallsKeepTheirPromise` says that what is left is right, and nothing is said of what comes
behind. A wrap inside the rehash of a growth would be handled as any other, but needs
more keys than the instance has. A rehash of an empty table that counts as full would never
end: `SizeAssumption`, which `MCSequential` evaluates.

## Runs

| run | instance | shows |
|---|---|---|
| `MCThreadPool` | 2 workers, jobs of 2, 0, 2 and 2 tasks | the invariants, the refinement, that jobs and the destructor end |
| `MCThreadPoolReturn` | 2 workers, 1 job of 1 | **violation**: the only notification is lost, the call never returns |
| `MCThreadPoolDone` | 1 worker, 2 jobs of 1 | **violation**: `_done` is 0 before the job's task is over |
| `MCServer` | 2 clients, 2 paths, 2 sources, 3 faults | files keep their units but for one of a transaction that is stuck, make sees all others, failed queries change nothing, OK means registered but in one case |
| `MCImportGraph` | up to 3 declarations of up to 3 modules, 2 imports each | lists agree, imports first, each module once, components as long as no flag is stale, bundles right up to the first large one, all loops end |
| `MCAnalyzer` | 3 threads or 1, 3 bundles, 4 modules, 2 requests | views are ready, exports bound to the right trees, analyses end |
| `MCAnalyzerKeys` | 2 threads, 1 bundle of 2 modules | **violation**: a view is looked up before it is registered |
| `MCAnalyzerLiterals` | 2 threads, 3 bundles | **violation**: a scheduler is used by another thread |
| `MCContext` | 2 names, one a literal, 2 identifiers, 2 runs, 2 occurrences of a name | the scheduler's lists and events stay right, runs end, and end with all names bound unless one cannot be, and names are settled once read |
| `MCFrontEnd` | 8 programs with any token left out or replaced by any of 18, all pairs of bytes, comments to 6 bytes, data to 7, numbers to 5, pairs of files | tokens, tree, errors and AST are those of the text; every file is done |
| `MCFrontEndDeclared` | the 8 programs | **violation**: a function that is declared only is an error |
| `MCSequential` | one of: a module for every instruction and kind of section and symbol, as file and as object; 4 programs on two workers, 2 more on one; 5 keys of which 4 collide, a first buffer of 4, a distance of 3 values | the bytes are the module, their number is measured, relocations point to calls; the linked objects compute the program, the archive is filled; the table holds what a map would |

Bounds. Two workers and a job of two tasks let a task be taken, running or over
while the other worker over-decrements; the second job with tasks can be spoilt by the first, and
the third by what the second left, while the job without tasks takes the early return. Two paths that can share a source are what
`clean` and the four cases of `addFile` tell apart. A statement that fails with its
ROLLBACK counts as two faults, so that three let another one fail, or end the transaction,
while that one is stuck. States of `MCServer` that differ by names only are looked at once. With three modules there are
two cycles through one module, self imports, repeated imports, repeated declarations
and a module that is imported by a cycle and outside of it; inputs that differ in names
only are looked at once. With four modules a stale flag splits a component although no
module imports itself.
In the analysis a third bundle is needed for a task that is two bundles ahead of task 0,
and a second request for a counter that is not reset.
Two names let check wait for one while tasks of the other run, two identifiers let a name
be bound again by a second candidate, a second occurrence meets a name that is
locked or bound, and a second run meets the facts and the literal of the first one.

The programs of `MCFrontEnd` have every rule of the grammar between them, and one wrong
token makes each of them fail at each of its tokens, and be skipped or given up. Six bytes are enough to open a
comment, nest one and close both. `WasmInputs` has lists of no, one and more elements,
numbers of one and more bytes, and enough instructions before a call that its offset needs
two bytes. Five keys make the first buffer grow twice and shrink again, and a distance of
three values wraps while the table grows and while it shrinks.

`MCAnalyzer` leaves out exactly what the two violations next to it show: with more than
one thread it looks at imports of earlier bundles and at literals in one bundle, and the
emplace is atomic with respect to readers.

Deadlock is checked except in the runs of the server, where a server that stopped, and
clients that wait for it, are a legal end. Where the system really ends, the other modules have a
step that stutters.

Fairness. `ThreadPool` assumes that each thread that can go on does (the operating
system's scheduler) and that a task ends; a spurious wake-up is never assumed, since
nothing causes one. `Analyzer` assumes the same of its workers and of the main thread,
and `ImportGraph` and `Context` that their single thread runs. In these three the formula is written out
with what enables a step, which is equivalent to weak fairness and far cheaper for TLC. So it is in
`FrontEnd`, whose single thread never waits and only stutters once it is done.
`Server` has no liveness property: clients have no timeout and the server may stop.

## Proofs

`ThreadPoolProofs` proves, for every finite set of workers and every sequence of jobs
and every behaviour of `Spec`: `TypeCorrect`, `IndexCorrect`, `OnceCorrect`,
`DoneCorrect`, `ReturnCorrect` and `Refinement`. The assumptions are those named in
`ThreadPool`; none is about when jobs are posted.

None of these invariants is inductive but `DoneCounts`. `IInv` adds what makes them so, for all jobs:

* `TodoCounts`: `_todo` is short by at most one for each worker that is about to repair it.
* `NothingLost`: each number of a task of the job from `_todo` upwards is over or in the hands of a worker that
  runs it for this job. A call returns when `_done` is 0, so that by `DoneCounts` what is left
  in `_todo` and in hands is the surplus, and by `NothingLost` nothing else is missing (`MissingIsLeft`).
* `ClosedIsDone`, `DoneBounded`, `OpenHasJob`: what `_done` is before and between the stores of
  `notify_and_wait`.

and for jobs that are not spoilt:

* `CleanCounts`: no worker repairs while tasks are left, and otherwise `_todo` is short by exactly
  the workers that do.
* `CleanPost`: such a job left nothing that can reach `_todo` before the next is posted.
* `TakenIndex`, `RanTaken`: what a worker holds and what is over was taken. With `NoTaskTwice` this
  makes the set of tasks that are over exactly what `_todo` and the workers leave.

There is one lemma for each action, and actions that only move a program counter share
`MainMoves` and `WorkerMoves`. The sizes of sets of workers are handled by `WorkerSet`,
`OneMore` and `OneLess`. The refinement maps a `fetch_sub` that finds a task to `Begin`,
the end of a task to `End`, and every other step of a worker to a stutter; the store of `_todo` is
`Submit` or `SubmitSpoilt`. That the first job is not spoilt is `FirstIsClean`.

`ServerProofs` proves, for any clients, paths, sources and number of faults and every
behaviour of `Spec`: `TypeCorrect`, `NoDanglingCorrect`, `KoCorrect`, `AckedCorrect`,
`OkCorrect` and `MakeCorrect`. The assumptions are `FaultsAssumption` and `SourcesAssumption`.

A file without its unit is there in the middle of a transaction, and stays when the ROLLBACK fails;
a later ROLLBACK, which any failing statement can cause, brings back the tables the transaction
started from. The inductive part is `Sound`: what can be brought back is consistent, so are the tables
when no transaction is open, and at most one file has no unit when one is (`OneTorn`). A clean between a
commit that failed and the ROLLBACK is the case that needs it. Each operation of
`Database` is shown to be `Orderly`, that is: it leaves a sound database, a failure
changes the tables only when a transaction was or stays open, and no file is
lost unless a transaction was open. `AnswerGood` turns this into what a handler promises
once its reply is sent or lost, and there is one lemma for each handler. The theorems
about KO answers and registered files follow from the same step lemma, `NextGood`.
`OkCorrect` needs what each branch of `addFile` leaves in the tables (`AddResultSets`).

The type invariants are inductive by themselves and proved (`TypeCorrect` in both modules);
they are in no run.

### The lists of the graph

`TopoGraphProofs` is about the operators of `TopoGraph` on any graph with any values.
`OperationsKeepTheLists` says that `makeNode`, `attach`, `detach` and `pop`, called on what
they may be called on, take a graph of which the lists agree to another one. `WellFormed`
is not what is kept: whether a list survives a `steal` depends on the order of its cells and
on `_prev`. What is kept is `GraphOK`, in two parts:

* `EdgesOK`: the cells have their types; an edge is once in the list of each of its ends and
  nowhere else; both ends are live; the recycled cells are distinct cells.
* `Sides`: `_pendings` is a chain of the live nodes without dependees, `_blockeds` of the
  others. A chain has ranks (`Chain`): each cell but the head has a `_prev` of the chain, whose
  `_next` it is, the rank grows by one along `_next`, and the last one has none. The ranks
  replace induction: a cell moves by a change of ranks.

A chain says nothing of the `_prev` of its head, since `pop_front` does not maintain it. So
`attach` of a pending node, which steals it, is right when that head is `Clean`, and only
then: this is the hypothesis of the theorem. In the import graph it holds because
nothing was popped yet when modules are registered, and `_pendings` was empty when a cycle's hyper
nodes were made. In the scheduler it does not, which is
the exception in `Context`'s `ListsAgree`. What happens then is `AttachDirty`: `steal` leaves
the node where it was, at the head, and the lists break.

The loops over edges, `detachAll` and `cutAll`, are recursive functions. What they compute
is found by an induction over the set of the turns they are right for (`UpTo`), which needs
no theorem of the library: each loop is shown to be a function `after` with `after[k]` made of
`after[k - 1]`, and then each turn keeps what the next one needs (the edges that are left are those
not detached yet, `EdgesLess`). A lemma that says what an operation does says it by one
predicate (`Moved`, `Rewired`, `WasCut`, `Popped`, `Made`, `Kept`), which its users expand only where they
need to.

`ImportGraphProofs` proves, for any set of modules, any inputs and every behaviour of `Spec`,
crashed ones and ones with stale flags included: `Invariance`, `ListsAlwaysAgree`,
`MentionedModulesOnce` and, for inputs of which every import names a declared module, `ResolvedModulesOnce`,
which is `EveryModuleOnce`. That hypothesis is what `FactMap::solveImports` asserts before the
import graph is built, and what `AllInputs` of `MCImportGraph` have. `IInv` is

* `GraphHolds`: `GraphOK`, and the head of `_pendings` is clean while modules are registered
  or a cycle is solved;
* `Registering`: each entry of `_moduleMap` is the live node of its module, and what was
  registered is in it;
* `SolvingOK`: during `solveCycle` both hyper nodes are live, distinct, and the node the
  walk is at is live;
* `EachOnce`: no module is in two live nodes, none is both taken and live, and the two together
  are those the declarations registered so far mention (`MentionedBy`);
* `Left`: nothing is live once the loop has ended.

The lemma that is hardest to see is the one about `Rehang`: `solveCycle` iterates over edges
it captured before, while it detaches and attaches. No edge is read after it was detached:
the captured edges all end in the opening hyper node, and a turn detaches only edges that do not
(`NotInto`, `Changed`).

### The order of the modules

`ImportOrderProofs` proves `ImportsAlwaysFirst`, that is `Spec => []ImportsFirst`, for any set of
modules, any inputs and every behaviour of `Spec`, crashed ones and ones with stale flags
included. A cycle of imports is broken by taking edges out of the graph, and the pair of hyper nodes put in
their place can itself be broken by the next cycle; what has to be shown is that the edges
that are left still order the modules. The inductive invariant `OrderInv` says so without
naming the history that led there:

* A picture `p` of the graph (`Pic`) is its nodes, which of them open and close a pair, what each waits for, and
  its module. A view `v` of a picture says which nodes are inside a pair, which
  outermost opening node is around each, and a rank. The invariant is that a view exists.
* `NeedOrder` is the least order that has the imports. `Shape`: an edge follows that order; the nodes in a
  pair need each other; an edge inside a pair stays inside it and falls in rank; from outside an
  edge ends outside, or at the closing node of an outermost pair.
* `Covers`: what a module imports and does not need it in turn is waited for by the module or by the
  outermost pair around it, at once or along closing nodes (`Leads`). So a node that
  waits for nothing has all such imports taken (`TakeTopOrder`).
* During a walk of `solveCycle` `Covers` does not hold: `Revisit` detaches the edge it went along. `CoversBut`
  excepts what was torn between the front and where the walk is, and `Going` keeps what makes
  the walk end at its front: the path it went follows needs (`Along`), and inside a pair it rises
  to the opening node (`Climbs`). When it comes back, all it tore lies on a ring of needs
  (`RingCloses`), which `Covers` does not speak of, so `Covers` holds again.
* `Rehang` is a contraction of the picture (`RehangContracts`): the loops over captured edges do to it, turn by turn, what
  `Contracted` says at once, and a contraction keeps `Shape` and `Covers` for the view with the new pair
  around the nodes of the ring (`HungShape`, `HungCovers`).
* The walk takes the first edge of a node and not any, so the graph must say which is first:
  `Lone` and `Headed` say where an opening node comes first, and `Parked` that the walk begins at an opening node
  whenever one is blocked that no stale flag marks. Without `Parked` a walk could begin inside a pair and
  leave it half torn.

The steps that change nothing but flags or links are `Alike` and keep all of it. That the
members of a ring are in one `Component` as the module `ImportGraph` defines it, by
`Cardinality(Declared)` turns of `Needs`, is `NeedsTurns`: the turns come to rest, by counting
what each adds.

### Analysis

`AnalyzerProofs` proves, for any number of threads, bundles, modules, imports and make
requests, and every behaviour of `UnlockedSpec`, of which those of `Spec` are some:

| theorem | under | says |
|---|---|---|
| `CountsAgree` | - | `IInv`: tasks, places and counts agree |
| `ViewsReadyCorrect` | `Ordered` | `ViewsReady` |
| `ExportsBoundCorrect` | `Ordered`, `Partitioned` | `ExportsBound` |
| `AbortsAreRaces` | - | an assert fails only while task 0 registers, or in a worker that looks for a module no bundle before its own has |
| `KeysFoundAlone` | `Ordered`, `OneThread` | no assert fails |

`Ordered`: a bundle imports from the bundles before it, or from any with one thread.
`Partitioned`: no module is in two bundles. Both are facts of the instance, hold in all
`CleanInstances` of `MCAnalyzer`, and are what `ImportGraph` is to provide; what it does provide is the
subject of `ImportsFirst`, which is proved, and `BundlesAreBuilt`, which is not. `AbortsAreRaces` needs neither: the
trace of `MCAnalyzerKeys`, a bundle of modules that import each other on two threads, is its second case
(`LooksAhead`). `MCAnalyzerKeys` also shows why `OneThread` cannot be
dropped from the last theorem.

The inductive invariant is `TypeOK`, `TasksAgree` (the tasks of the contract of the pool are
those of the workers), `PlacesOK` (a worker is within its agenda), `Counts` (a bundle that is
counted is registered, and the worker of task 0 has emplaced and identified what it went by)
and `Waited` (who is past its wait waited). `ViewsReady` follows: with several threads from
`Waited`, with one because task 0 is begun first and is over. `ExportsBound` needs `Settles`
besides: a Context keeps the facts of the bundles it analysed before, so each import must have
overwritten what the next module uses, and what is bound by a later notification must
be of the same bundle. The lemmas about one step have one part for each kind of visit.

### The scheduler

`ContextProofs` proves, for any names, literals and candidates, any number of runs and every
behaviour of `Context`'s `Spec`: `Invariance`, `ListsAlwaysAgree`, `HeldCellsAlwaysTheirs`,
`FailsRightly`, `RunsEndClean` and `Implements`, that is all its properties but `RunEnds`.
The assumptions are those of `Context`: `LiteralsAssumption`, `BoundsAssumption`,
`IdsAssumption` (an identifier is two words of 64 bits, so there are finitely many) and
`NoneAssumption` (the value that stands for no name and no fact is none).

The properties are far from inductive: whether a task waits for what will wake it is not
visible in the lists. `IInv` is `GoodNow \/ BrokenNow`. It speaks of the graph by
`Waits(g, x)`, the nodes x waits for; `TopoGraphWaits` says what each operator of `TopoGraph` does to it.
The parts of `Good`:

* `Core`: the graph is in order (`GraphOK`); the lock of a locked name is live, its own, and waits for itself
  only (`NamesOK`, `LocksOK`); a task waits at most for the event of its identifier, which waits for the lock
  of the task's name until that fact is known or the name is bound, and for nothing afterwards (`TaskOK`);
  what is in the unlock set is the lock of a bound name, or was erased (`UnlocksOK`).
* `Fresh`, while names are visited: no held cell was erased, and events are those of waiting
  tasks. It is what makes `getOrMakeEvent` safe, and is lost once the scheduler runs: then only
  check makes a node, the lock of a name that was not met, before bind began and while
  nothing is held (`CheckHolds`).
* `Answered`: a candidate that was asked for and is known has bound its name, or has a task.
  While names are visited this is true of those that are not known as well.
* `CheckOK`: while a task can still bind its name, check waits for a lock that waits for
  itself. This is why check reads no name a later task binds again, and why `EndRun` finds the
  loop `isCyclic` looks for only when a name has no known candidate.
* `BindOK`: as long as bind has not begun, there are only the locks of names check has read.
* `VisitedOK`, `ReadOK` and `AtOK` tie this to the history and to the code that runs.

`Broken` is the exception of `ListsAgree`: check was resumed by a second turn of
`Context::run`, reads a name that is locked, and is made to wait while the head of
`_pendings`, itself, has a stale `_prev`. No candidate of that name is known
(`ReadBreaks`, by `Answered` and `CheckOK`), check is still on top, and the only step is the one that throws
(`BrokenStays`).

Steps after which less is waited for, which are those of the scheduler, are all of one
shape, `Thin`: they keep `Core` by one lemma (`ThinKeeps`) and `Good` by another
(`ThinGood`). A visit is a sequence of `makeTask`, each of which keeps `Core` and `Fresh`
(`MakeTaskDoes`). The refinement maps a visit and `RunTask` to `Bind` or a stutter,
`Define` to `Notify`, check's reads to `Read`, a new bundle to `Restart`; that a task
which binds has a name that was not read is `ReadOK`.

### What is model-checked only

* The liveness properties (liveness under fairness is out of the prover's reach).
* `ComponentsUnlessStale` and `BundlesAreBuilt`: they speak of where the bundles begin and end, which is
  a matter of the order in the list `_pendings`; `OrderInv` says what waits for what and
  not which of two nodes that wait for nothing is taken first.
* `Lexer`, `Parser`, `Ast`, `FrontEnd`, `WasmEmit`, `Emission`, `Gen` and `RobinTable`: the
  grammar, the emitter and code generation are recursive over data, and induction over data is
  out of its reach: what they compute is compared with a reference on bounded inputs.

## Not modelled

The FactMap, planned below. Copies of trees, hashes, MessagePack, formatting, logging and
sockets: conversions and thin wrappers. Malformed queries. Weak memory. The stacks of
coroutines and the switch between them. The section of globals. The iterator of the hash
table beyond `begin()`. `PROJECT.json` names each component with its status.

## Plan

In order; the parts above the line are done.

1. `ParallelFor`, `ThreadPool` and its proofs: the ground everything else runs on.
2. `Database`, `Server` and their proofs: the state that survives a request.
3. `TopoGraph`, `ImportGraph`: order and grouping of the modules.
4. `Analyzer`: the composition of the three on several threads.
5. `Resolution`, `Context`: the scheduler of one worker.

6. `Lexer`, `Parser`, `Ast`, `FrontEnd`: from a text to its tree.
7. `Leb128`, `Wasm`, `WasmEmit`, `Emission`, `Gen`: from a tree to an archive of objects.
8. `RobinTable`: the map everything else stands on.

---

9. `FactMap`: resolution of imports along parents, chains of equal ids, the counts
   `makeView` trusts; to be composed with `ImportGraph` as the source of its inputs.
10. Proofs: that a bundle is taken without interruption, from the order in `_pendings`; the invariants of the
   lexer's state and of `RobinTable`.
11. `CriticalSection` with `ConcurrentCounter` and `TConcurrentQueue`; pools and stacks;
   deep and shallow copies of trees.
