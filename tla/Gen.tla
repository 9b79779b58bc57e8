--------------------------------- MODULE Gen ---------------------------------
(***************************************************************************)
(* gen::EmitterNew: the workers of a parallel loop make one wasm object    *)
(* per bundle (gen::make), and makeArchive puts the objects one after the  *)
(* other.  A worker goes through the AST of its bundle (Scribe), numbers   *)
(* the functions (Bematist) and writes the object (WasmEmit).              *)
(*                                                                         *)
(* The AST of a bundle belongs to the worker; the AST of the interfaces,   *)
(* through which the functions of other bundles are reached, is one for    *)
(* all of them.  gen::make keeps what it makes of such a function, its     *)
(* import, in the node itself (_asWsm), and comes back for it.             *)
(*                                                                         *)
(* The visit of the tree is the list of what is left to visit (todo); an   *)
(* item carries _wsmFuncIdx of the stack frame it is visited in.           *)
(***************************************************************************)
EXTENDS WasmEmit, WasmFormat, FiniteSets

CONSTANTS
    Jobs,    \* [workers, program]: the threads of the loop, and the bundles
    Inputs,  \* the arguments exported functions are tried with
    Depth    \* how many calls inside each other are followed

\* A function: its name stands for its UniqueId, args and lets for its
\* variables.  "add" is the name with the UniqueId K_FUNC_ADD_I64.
Definition(name, role, args, body) ==
    [k |-> "DEF_FUNCTION", name |-> name, role |-> role, args |-> args, body |-> body]
DclVariable(var)     == [k |-> "DCL_VARIABLE", var |-> var]
LitInteger(value)    == [k |-> "LIT_INTEGER", value |-> value]
Identifier(var)      == [k |-> "IDENTIFIER", var |-> var]
Pattern(var)         == [k |-> "PATTERN", var |-> var]
ExpBinop(op, lhs, rhs) == [k |-> "EXP_BINOP", op |-> op, lhs |-> lhs, rhs |-> rhs]
FunCall(callee, arguments) == [k |-> "FUN_CALL", callee |-> callee, arguments |-> arguments]
StmReturn(expression) == [k |-> "STM_RETURN", expression |-> expression]

VARIABLES
    workers,  \* the threads of the loop
    program,  \* the bundles
    next,     \* the number of the next bundle to hand out
    bundle,   \* for each worker the bundle it works on, 0 for none
    todo,     \* what is left to visit
    module,   \* the wasm module under construction
    start,    \* how many imports the pool of the worker had before the module
    locals,   \* _asWsm of the variables of the bundle: the number of the local
    done,     \* WASMED functions of the bundle: _asWsm, the place in _funcs
    asWsm,    \* _asWsm of the functions of the interfaces: a place in a pool
    objects,  \* for each bundle its object, <<>> before
    archive   \* the size and the members of the archive, once it is made

vars == <<workers, program, next, bundle, todo, module, start, locals, done, asWsm, objects, archive>>

Bundles == DOMAIN program

\* The function with this name, and whether it is reached through an interface.
FunctionOf(name) ==
    LET all == {b \in Bundles : \E i \in DOMAIN program[b] : program[b][i].name = name}
        b   == CHOOSE b \in all : TRUE
    IN  program[b][CHOOSE i \in DOMAIN program[b] : program[b][i].name = name]
IsInterface(b, name) == \A i \in DOMAIN program[b] : program[b][i].name # name

\* fmt::asString of a UniqueId: bytes, different for different functions.
Names == <<"add", "f", "g", "h", "k">>
AsBytes(name) == <<95, 64 + CHOOSE i \in DOMAIN Names : Names[i] = name>>

Visit(node, fn) == [do |-> "visit", node |-> node, fn |-> fn]
VisitAll(nodes, fn) == [i \in DOMAIN nodes |-> Visit(nodes[i], fn)]

NoArchive == [total |-> 0, members |-> <<>>]

Init ==
    /\ \E job \in Jobs : workers = job.workers /\ program = job.program
    /\ next = 1
    /\ bundle = [w \in workers |-> 0]
    /\ todo = [w \in workers |-> <<>>]
    /\ module = [w \in workers |-> EmptyModule]
    /\ start = [w \in workers |-> 0]
    /\ locals = [w \in workers |-> <<>>]
    /\ done = [w \in workers |-> <<>>]
    /\ asWsm = <<>>
    /\ objects = [b \in Bundles |-> <<>>]
    /\ archive = NoArchive

-----------------------------------------------------------------------------
(* The visits.                                                             *)

Rest(w) == Tail(todo[w])

\* _wsmPool.grow of the body of the function of the frame.
Grow(m, fn, inst) == [m EXCEPT !.funcs[fn].body = <<inst>> \o @]

\* EmitterNew::run takes a bundle, and the constructor of Scribe makes an
\* empty module in the pool of the worker.
Take(w) ==
    /\ bundle[w] = 0
    /\ next \in Bundles
    /\ next' = next + 1
    /\ bundle' = [bundle EXCEPT ![w] = next]
    /\ start' = [start EXCEPT ![w] = @ + Len(module[w].imports)]
    /\ module' = [module EXCEPT ![w] = EmptyModule]
    /\ locals' = [locals EXCEPT ![w] = <<>>]
    /\ done' = [done EXCEPT ![w] = <<>>]
    /\ todo' = [todo EXCEPT ![w] = VisitAll(program[next], 0)]
    /\ UNCHANGED <<workers, program, asWsm, objects, archive>>

\* The item the worker visits, when it is a node of this kind.
Visiting(w, k) == todo[w] # <<>> /\ Head(todo[w]).do = "visit" /\ Head(todo[w]).node.k = k

\* LIT_INTEGER, IDENTIFIER and PATTERN: one instruction.
VisitLeaf(w) ==
    /\ \/ Visiting(w, "LIT_INTEGER")
       \/ Visiting(w, "IDENTIFIER")
       \/ Visiting(w, "PATTERN")
    /\ LET item == Head(todo[w])
           inst == CASE item.node.k = "LIT_INTEGER" -> ConstI64(item.node.value)
                     [] item.node.k = "IDENTIFIER" -> Indexed("LOCAL_GET", locals[w][item.node.var])
                     [] item.node.k = "PATTERN" -> Indexed("LOCAL_SET", locals[w][item.node.var])
       IN  module' = [module EXCEPT ![w] = Grow(@, item.fn, inst)]
    /\ todo' = [todo EXCEPT ![w] = Rest(w)]
    /\ UNCHANGED <<workers, program, next, bundle, start, locals, done, asWsm, objects, archive>>

\* DCL_VARIABLE: a local with the next number.
VisitDclVariable(w) ==
    /\ Visiting(w, "DCL_VARIABLE")
    /\ LET item == Head(todo[w])
           id   == module[w].funcs[item.fn].localsSize
       IN  /\ locals' = [locals EXCEPT ![w] = (item.node.var :> id) @@ @]
           /\ module' = [module EXCEPT ![w].funcs[item.fn].locals = <<Local("I64", id)>> \o @,
                                       ![w].funcs[item.fn].localsSize = id + 1]
    /\ todo' = [todo EXCEPT ![w] = Rest(w)]
    /\ UNCHANGED <<workers, program, next, bundle, start, done, asWsm, objects, archive>>

\* The visit of the function and the call, each at its turn.
CallOf(name, fn) == <<[do |-> "define", name |-> name, fn |-> fn],
                      [do |-> "call", name |-> name, fn |-> fn]>>

(* Slip: the left side first, as it is read. *)
BinopLeftFirst(b, node, fn) ==
    VisitAll(<<node.lhs, node.rhs>>, fn)
    \o (IF node.op = "+" /\ IsInterface(b, "add") THEN CallOf("add", fn) ELSE <<>>)

\* EXP_BINOP: the right side, the left side, then the function the operator is
\* BOUND to when that is one of an interface.
Binop(b, node, fn) ==
    VisitAll(<<node.rhs, node.lhs>>, fn)
    \o (IF node.op = "+" /\ IsInterface(b, "add") THEN CallOf("add", fn) ELSE <<>>)

\* EXP_BINOP, FUN_CALL, STM_RETURN: what is below is visited.
VisitBranch(w) ==
    /\ \/ Visiting(w, "EXP_BINOP")
       \/ Visiting(w, "FUN_CALL")
       \/ Visiting(w, "STM_RETURN")
    /\ LET node  == Head(todo[w]).node
           fn    == Head(todo[w]).fn
           below == CASE node.k = "EXP_BINOP" -> Binop(bundle[w], node, fn)
                      [] node.k = "FUN_CALL" ->
                            VisitAll(node.arguments, fn) \o CallOf(node.callee, fn)
                      [] node.k = "STM_RETURN" -> <<Visit(node.expression, fn)>>
       IN  todo' = [todo EXCEPT ![w] = below \o Rest(w)]
    /\ UNCHANGED <<workers, program, next, bundle, module, start, locals, done, asWsm, objects, archive>>

\* The function the worker comes to, as a definition or through a call.
Comes(w, name) ==
    /\ todo[w] # <<>>
    /\ \/ Head(todo[w]).do = "visit" /\ Head(todo[w]).node.k = "DEF_FUNCTION"
          /\ Head(todo[w]).node.name = name
       \/ Head(todo[w]).do = "define" /\ Head(todo[w]).name = name

\* makeTypeFunc: a type per function, all of them i64.
MakeTypeFunc(m, name) ==
    TypeFunc([i \in DOMAIN FunctionOf(name).args |-> "I64"], <<"I64">>,
             Len(m.types), Len(m.types))

\* makeSymbolObject: the module with the symbol; its number counts from 1.
MakeSymbolObject(m, name, func, flags) ==
    [m EXCEPT !.symbols =
        Append(@, Symbol(flags, func, IF flags = SymbolFlag.UNDEFINED THEN <<>> ELSE <<AsBytes(name)>>))]

\* DEF_FUNCTION that is already WASMED.
SkipFunction(w, name) ==
    /\ Comes(w, name)
    /\ name \in DOMAIN done[w]
    /\ todo' = [todo EXCEPT ![w] = Rest(w)]
    /\ UNCHANGED <<workers, program, next, bundle, module, start, locals, done, asWsm, objects, archive>>

\* DEF_FUNCTION of an interface: a new import each time, and the node that all
\* workers share says which.
ImportFunction(w, name) ==
    /\ Comes(w, name)
    /\ IsInterface(bundle[w], name)
    /\ LET m    == module[w]
           at   == Len(m.imports) + 1
           type == MakeTypeFunc(m, name)
           with == [m EXCEPT !.types = Append(@, type),
                             !.imports = Append(@, Import(<<>>, AsBytes(name), type, at - 1,
                                                          Len(m.symbols) + 1))]
       IN  /\ module' = [module EXCEPT ![w] =
                            MakeSymbolObject(with, name, ImportAt(at), SymbolFlag.UNDEFINED)]
           /\ asWsm' = (name :> (start[w] + at)) @@ asWsm
    /\ todo' = [todo EXCEPT ![w] = Rest(w)]
    /\ UNCHANGED <<workers, program, next, bundle, start, locals, done, objects, archive>>

\* DEF_FUNCTION of the bundle, up to its body.
EnterFunction(w, name) ==
    /\ Comes(w, name)
    /\ ~IsInterface(bundle[w], name)
    /\ name \notin DOMAIN done[w]
    /\ LET m    == module[w]
           at   == Len(m.funcs) + 1
           type == MakeTypeFunc(m, name)
           f    == FunctionOf(name)
           dcls == [i \in DOMAIN f.args |-> Visit(DclVariable(f.args[i]), at)]
       IN  /\ module' = [module EXCEPT ![w].types = Append(@, type),
                                       ![w].funcs = Append(@, Function(type, <<>>, 0, <<>>, 0, 0))]
           /\ done' = [done EXCEPT ![w] = (name :> at) @@ @]
           /\ todo' = [todo EXCEPT ![w] =
                          dcls \o <<[do |-> "body", name |-> name, fn |-> at]>>
                          \o (IF name = "add" THEN <<>> ELSE VisitAll(f.body, at))
                          \o <<[do |-> "leave", name |-> name, fn |-> at]>> \o Rest(w)]
    /\ UNCHANGED <<workers, program, next, bundle, start, locals, asWsm, objects, archive>>

\* makeAddI64: the last argument, the one before it, and the sum.
MakeAddI64(f) ==
    [f EXCEPT !.body = <<Numeric("I64", "ADD", ""), Indexed("LOCAL_GET", f.locals[2].id),
                         Indexed("LOCAL_GET", f.locals[1].id)>>,
              !.locals = <<>>]

\* Between the arguments and the body the list of locals is made anew.
EnterBody(w) ==
    /\ todo[w] # <<>> /\ Head(todo[w]).do = "body"
    /\ LET item == Head(todo[w])
       IN  module' = [module EXCEPT ![w].funcs[item.fn] =
                         IF item.name = "add" THEN MakeAddI64(@) ELSE [@ EXCEPT !.locals = <<>>]]
    /\ todo' = [todo EXCEPT ![w] = Rest(w)]
    /\ UNCHANGED <<workers, program, next, bundle, start, locals, done, asWsm, objects, archive>>

\* The end of DEF_FUNCTION: the arguments are no locals, and an exported
\* function gets its export and its symbol.
LeaveFunction(w) ==
    /\ todo[w] # <<>> /\ Head(todo[w]).do = "leave"
    /\ LET item == Head(todo[w])
           f    == FunctionOf(item.name)
           m    == [module[w] EXCEPT !.funcs[item.fn].localsSize = @ - Len(f.args)]
           with == [m EXCEPT !.exports = Append(@, Export(AsBytes(item.name), RefFunc(FuncAt(item.fn)))),
                             !.funcs[item.fn].symbol = Len(m.symbols) + 1]
       IN  module' = [module EXCEPT ![w] =
                         IF f.role = "EXPORTED"
                         THEN MakeSymbolObject(with, item.name, FuncAt(item.fn), SymbolFlag.VISIBILITY_HIDDEN)
                         ELSE m]
    /\ todo' = [todo EXCEPT ![w] = Rest(w)]
    /\ UNCHANGED <<workers, program, next, bundle, start, locals, done, asWsm, objects, archive>>

\* What _asWsm leads to in the pool of the worker: a place in _imports, which
\* is none of its own when another worker wrote it.
Callee(w, name) ==
    IF IsInterface(bundle[w], name) THEN ImportAt(asWsm[name] - start[w]) ELSE FuncAt(done[w][name])

\* _symbol of that node.  A node that was never made is uninitialized memory.
SymbolRead(w, func) ==
    IF func.at \in DOMAIN module[w][func.in]
    THEN {module[w][func.in][func.at].symbol}
    ELSE 0..Len(module[w].symbols)

\* INST_CALL, with a relocation when the function has a symbol by now.
MakeCall(w) ==
    /\ todo[w] # <<>> /\ Head(todo[w]).do = "call"
    /\ LET item == Head(todo[w])
           func == Callee(w, item.name)
       IN  \E symbol \in SymbolRead(w, func) :
              LET reloc == IF symbol = 0 THEN NoRelocation
                           ELSE Relocation("FUNCTION_INDEX_LEB", symbol - 1, 0)
                  m     == Grow(module[w], item.fn, Call(func, reloc))
              IN  module' = [module EXCEPT ![w] =
                                IF symbol = 0 THEN m ELSE [m EXCEPT !.relocSizeCode = @ + 1]]
    /\ todo' = [todo EXCEPT ![w] = Rest(w)]
    /\ UNCHANGED <<workers, program, next, bundle, start, locals, done, asWsm, objects, archive>>

-----------------------------------------------------------------------------
(* The object and the archive.                                             *)

\* Bematist: imports, then functions.
Numbered(m) ==
    [m EXCEPT !.imports = [i \in DOMAIN @ |-> [@[i] EXCEPT !.id = i - 1]],
              !.funcs   = [i \in DOMAIN @ |-> [@[i] EXCEPT !.id = Len(m.imports) + i - 1]]]

\* The end of gen::make: the module is numbered, measured and written.
WriteObject(w) ==
    /\ bundle[w] # 0
    /\ todo[w] = <<>>
    /\ objects' = [objects EXCEPT ![bundle[w]] = Emit(Numbered(module[w]), TRUE, TRUE).bytes]
    /\ bundle' = [bundle EXCEPT ![w] = 0]
    /\ UNCHANGED <<workers, program, next, todo, module, start, locals, done, asWsm, archive>>

K_HEADER_SIZE == 77
MagicSize     == 8

(* Slip: the padding as for a member without a name. *)
PaddingAsUsual(size) == size % 2

\* An odd header and an even object leave the next member at an odd place.
Padding(size) == IF size % 2 = 0 THEN 1 ELSE 0

\* makeArchive: first the size of the buffer, then the members.
MakeArchive ==
    /\ \A b \in Bundles : objects[b] # <<>>
    /\ archive = NoArchive
    /\ LET TotalSize(sum, object) == sum + Len(object) + Padding(Len(object))
           Member(members, object) ==
               LET last   == Last(members)
                   header == last.end
                   data   == header + K_HEADER_SIZE
               IN  Append(members, [header |-> header, data |-> data, size |-> Len(object),
                                    end |-> data + Len(object) + Padding(Len(object))])
           magic == [header |-> 0, data |-> 0, size |-> 0, end |-> MagicSize]
       IN  archive' = [total |-> FoldLeft(TotalSize, MagicSize + K_HEADER_SIZE * Len(objects), objects),
                       members |-> Tail(FoldLeft(Member, <<magic>>, objects))]
    /\ UNCHANGED <<workers, program, next, bundle, todo, module, start, locals, done, asWsm, objects>>

FunctionNames == UNION {{program[b][i].name : i \in DOMAIN program[b]} : b \in Bundles}

\* A turn of a worker.
Work(w) ==
    \/ Take(w)
    \/ VisitLeaf(w)
    \/ VisitDclVariable(w)
    \/ VisitBranch(w)
    \/ \E name \in FunctionNames :
          SkipFunction(w, name) \/ ImportFunction(w, name) \/ EnterFunction(w, name)
    \/ EnterBody(w)
    \/ LeaveFunction(w)
    \/ MakeCall(w)
    \/ WriteObject(w)

\* The archive is made: the only state in which nothing is left to do.
Finished == archive # NoArchive /\ UNCHANGED vars

Next == (\E w \in workers : Work(w)) \/ MakeArchive \/ Finished

Spec == Init /\ [][Next]_vars

-----------------------------------------------------------------------------
(* What a program means: the value of a function for its arguments, with   *)
(* at most depth calls inside each other (0 is what lies deeper).          *)

RECURSIVE Value(_, _, _)
RECURSIVE ValueOf(_, _, _)

\* An expression under the values env of the variables.
ValueOf(e, env, depth) ==
    CASE e.k = "LIT_INTEGER" -> e.value
      [] e.k = "IDENTIFIER"  -> env[e.var]
      [] e.k = "EXP_BINOP"   -> ValueOf(e.lhs, env, depth) + ValueOf(e.rhs, env, depth)
      [] e.k = "FUN_CALL"    ->
            Value(e.callee, [i \in DOMAIN e.arguments |-> ValueOf(e.arguments[i], env, depth)], depth - 1)

Value(name, args, depth) ==
    IF name = "add" THEN args[1] + args[2]
    ELSE IF depth = 0 THEN 0
    ELSE LET f == FunctionOf(name)
             Do(s, stm) ==
                 CASE stm.k = "DCL_VARIABLE" -> [s EXCEPT !.env = (stm.var :> 0) @@ @]
                   [] stm.k = "EXP_BINOP" ->
                         [s EXCEPT !.env = (stm.lhs.var :> ValueOf(stm.rhs, s.env, depth)) @@ @]
                   [] stm.k = "STM_RETURN" -> [s EXCEPT !.result = ValueOf(stm.expression, s.env, depth)]
             env0 == [v \in {f.args[i] : i \in DOMAIN f.args} |->
                        args[CHOOSE i \in DOMAIN f.args : f.args[i] = v]]
         IN  FoldLeft(Do, [env |-> env0, result |-> 0], f.body).result

-----------------------------------------------------------------------------
(* What an object means once it is linked.  The linker patches a call that *)
(* has a relocation; the number it writes stands for the symbol here.      *)

LinkBase == 1000

\* The bytes of an object with the entries of its reloc section applied to the code,
\* whose first byte is at base.
Patched(b, base, entries) ==
    LET Patch(bytes, entry) ==
            LET at == base + entry.offset
            IN  SubSeq(bytes, 1, at - 1) \o ObjLeb(LinkBase + entry.index) \o SubSeq(bytes, at + 5, Len(bytes))
    IN  FoldLeft(Patch, b, entries)

PatchedCode(b, relocs) == Patched(b, Sections(b)[relocs.target + 1].from, relocs.entries)

Link(b) ==
    ReadModule(PatchedCode(b, RelocsOf(b, RelocCode))) @@ [symbols |-> SymbolsOf(b, Linking).symbols]

NameOf(bytes) == CHOOSE name \in FunctionNames : AsBytes(name) = bytes

\* How many arguments the function with this number takes.
Takes(obj, n) ==
    LET type == IF n < Len(obj.imports) THEN obj.imports[n + 1][3][2]
                ELSE obj.funcs[n - Len(obj.imports) + 1]
    IN  Len(obj.types[type + 1][2][1])

RECURSIVE Run(_, _, _, _)

\* A call on the stack of values.  One that was patched goes to the function of
\* its symbol, one that was not can only go to a function of the object.
CallOn(obj, s, n, depth) ==
    LET target  == IF n >= LinkBase THEN FunctionNumber(obj.symbols[n - LinkBase + 1]) ELSE n
        imports == Len(obj.imports)
        known   == target < imports + Len(obj.funcs) /\ (n >= LinkBase \/ target >= imports)
        arity   == IF known THEN Takes(obj, target) ELSE 0
        left    == Len(s.stack) - arity
        args    == SubSeq(s.stack, left + 1, Len(s.stack))
        value   == IF target < imports THEN Value(NameOf(obj.imports[target + 1][2]), args, depth - 1)
                   ELSE Run(obj, target - imports + 1, args, depth - 1)
    IN  IF ~known \/ left < 0 THEN [s EXCEPT !.valid = FALSE]
        ELSE [s EXCEPT !.stack = Append(SubSeq(@, 1, left), value)]

\* An instruction on the stack and the locals.
Execute(obj, s, inst, depth) ==
    LET top == Last(s.stack)
    IN  CASE ~s.valid -> s
          [] inst[1] = "CONST_I64" -> [s EXCEPT !.stack = Append(@, inst[2][1])]
          [] inst[1] = "LOCAL_GET" /\ inst[2][1] < Len(s.locals) ->
                [s EXCEPT !.stack = Append(@, s.locals[inst[2][1] + 1])]
          [] inst[1] = "LOCAL_SET" /\ inst[2][1] < Len(s.locals) /\ s.stack # <<>> ->
                [s EXCEPT !.stack = Front(@), !.locals[inst[2][1] + 1] = top]
          [] inst[1] = "NUMERIC" /\ inst[2] = <<"I64", "ADD", "">> /\ Len(s.stack) >= 2 ->
                [s EXCEPT !.stack = Append(Front(Front(@)), top + Last(Front(@)))]
          [] inst[1] = "CALL" -> CallOn(obj, s, inst[2][1], depth)
          [] OTHER -> [s EXCEPT !.valid = FALSE]

Invalid == -1

\* The value the code at this place leaves on the stack, Invalid when it is not
\* exactly one.
Run(obj, at, args, depth) ==
    IF depth = 0 THEN 0
    ELSE LET f == obj.code[at].content
             Do(s, inst) == Execute(obj, s, inst, depth)
             s0 == [stack |-> <<>>, locals |-> args \o [i \in DOMAIN f[1] |-> 0], valid |-> TRUE]
             s  == FoldLeft(Do, s0, f[2])
         IN  IF s.valid /\ Len(s.stack) = 1 THEN s.stack[1] ELSE Invalid

Exported(b) == {i \in DOMAIN program[b] : program[b][i].role = "EXPORTED"}

ArgsFor(n) == {SubSeq(input, 1, n) : input \in Inputs}

\* The code of an exported function in the object.
PlaceOf(obj, name) ==
    LET e == CHOOSE i \in DOMAIN obj.exports : obj.exports[i][1] = AsBytes(name)
    IN  obj.exports[e][3] - Len(obj.imports) + 1

-----------------------------------------------------------------------------
(* Properties.                                                             *)

KeepsTheMeaning(obj, b) ==
    /\ Len(obj.exports) = Cardinality(Exported(b))
    /\ \A i \in Exported(b) :
          LET f == program[b][i]
          IN  \A args \in ArgsFor(Len(f.args)) :
                  Run(obj, PlaceOf(obj, f.name), args, Depth) = Value(f.name, args, Depth)

(* The objects of the archive do what the bundles say: an exported         *)
(* function is found under its name, and the code that the linker makes of *)
(* it gives for its arguments the value that the source gives, through     *)
(* calls of the bundle itself and of other bundles (Scribe, Bematist and   *)
(* TEmitter together).                                                     *)
ObjectsKeepTheMeaning ==
    archive # NoArchive => \A b \in Bundles : KeepsTheMeaning(Link(objects[b]), b)

(* A member of the archive starts at an even place, where ar looks for it, *)
(* right after the one before, and the last one ends with the buffer that  *)
(* was allocated (makeArchive).                                            *)
ArchiveIsFilled ==
    archive # NoArchive =>
        /\ \A i \in DOMAIN archive.members :
              /\ archive.members[i].header % 2 = 0
              /\ archive.members[i].size = Len(objects[i])
              /\ i > 1 => archive.members[i].header
                            = archive.members[i - 1].data + archive.members[i - 1].size
                              + (IF archive.members[i - 1].size % 2 = 0 THEN 1 ELSE 0)
        /\ Last(archive.members).end = archive.total
=============================================================================
