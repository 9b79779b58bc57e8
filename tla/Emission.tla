------------------------------ MODULE Emission ------------------------------
(***************************************************************************)
(* A module of wasm nodes is measured, a buffer of that size is allocated, *)
(* and the module is written into it (wsm::emitSize and wsm::emit, called  *)
(* one after the other by gen::make and by the tests).                     *)
(***************************************************************************)
EXTENDS WasmEmit, WasmFormat

CONSTANT Modules  \* the modules that are written

VARIABLES
    program,  \* the module as it was built
    tree,     \* its nodes now: writing turns the links of the lists around
    object,   \* IS_OBJECT
    little,   \* the host is little-endian
    phase,    \* "built", "measured", "written"
    size,     \* what emitSize returned
    written   \* the writer after emit

vars == <<program, tree, object, little, phase, size, written>>

-----------------------------------------------------------------------------
(* The operations.                                                         *)

RECURSIVE TurnInst(_)
TurnList(list) == Reverse([i \in DOMAIN list |-> TurnInst(list[i])])
TurnInst(inst) ==
    CASE inst.k \in {"BLOCK", "LOOP"} -> [inst EXCEPT !.list = TurnList(@)]
      [] inst.k = "IF" -> [inst EXCEPT !.then = TurnList(@), !.else = TurnList(@)]
      [] OTHER -> inst

\* The tree after TScribe went through it.
Turned(m) ==
    LET Function1(f) == [f EXCEPT !.locals = Reverse(@), !.body = TurnList(@)]
        Data1(d) == IF d.mode.k = "DATA_PASSIVE" THEN d ELSE [d EXCEPT !.mode.offset = TurnList(@)]
    IN  [m EXCEPT !.funcs = [i \in DOMAIN @ |-> Function1(@[i])],
                  !.datas = [i \in DOMAIN @ |-> Data1(@[i])]]

Init ==
    /\ program \in Modules
    /\ tree = program
    /\ object \in BOOLEAN
    /\ little \in BOOLEAN
    /\ phase = "built"
    /\ size = 0
    /\ written = NewWriter(FALSE, object, little)

\* emitSize: a Bematist goes through the module.
Measure ==
    /\ phase = "built"
    /\ size' = EmitSize(tree, object)
    /\ phase' = "measured"
    /\ UNCHANGED <<program, tree, object, little, written>>

\* emit: a TScribe writes it.
Write ==
    /\ phase = "measured"
    /\ written' = Emit(tree, object, little)
    /\ tree' = Turned(tree)
    /\ phase' = "written"
    /\ UNCHANGED <<program, object, little, size>>

\* The only state in which nothing is left to do.
Finished == phase = "written" /\ UNCHANGED vars

Next == Measure \/ Write \/ Finished

Spec == Init /\ [][Next]_vars

-----------------------------------------------------------------------------
(* What a reader of the format has to find, from the program alone.  A     *)
(* function is known by its place: imported functions first, in order.     *)

FuncImports(m, upTo) ==
    {i \in 1..upTo : i \in DOMAIN m.imports /\ m.imports[i].descriptor.k = "TYPE_FUNC"}

Number(m, func) ==
    IF func.in = "imports" THEN Cardinality(FuncImports(m, func.at - 1))
    ELSE Cardinality(FuncImports(m, Len(m.imports))) + func.at - 1

RECURSIVE Meant(_, _)
MeantList(m, list) == Reverse([i \in DOMAIN list |-> Meant(m, list[i])])
MeantType(type) == IF type.k = "TYPE_VAL" THEN type.type ELSE type.id
Meant(m, i) ==
    CASE i.k \in {"MEM_SIZE", "MEM_GROW", "MEM_FILL"} -> <<i.k, <<0>>>>
      [] i.k = "MEM_COPY" -> <<i.k, <<0, 0>>>>
      [] i.k \in {"BLOCK", "LOOP"} -> <<i.k, <<MeantType(i.type), MeantList(m, i.list)>>>>
      [] i.k = "IF" ->
            <<i.k, <<MeantType(i.type), MeantList(m, i.then), MeantList(m, i.else)>>>>
      [] i.k \in {"CALL", "REF_FUNC"} -> <<i.k, <<Number(m, i.func)>>>>
      [] i.k = "NUMERIC" -> <<i.k, <<i.type, i.op, i.suffix>>>>
      [] i.k = "MEMORY" -> <<i.k, <<i.type, i.op, i.align, i.offset>>>>
      [] i.k \in {"CONST_I32", "CONST_I64"} -> <<i.k, <<i.value>>>>
      [] i.k = "CONST_F" -> <<i.type, i.bytes>>
      [] i.k = "SELECT" -> <<i.k, i.valTypes>>
      [] i.k = "REF_NULL" -> <<i.k, <<i.refType>>>>
      [] i.k = "CALL_INDIRECT" -> <<i.k, <<i.type.id, i.table>>>>
      [] i.k = "TABLE_COPY" -> <<i.k, <<i.srce, i.dest>>>>
      [] OTHER -> IF "index" \in DOMAIN i THEN <<i.k, <<i.index>>>> ELSE <<i.k, <<>>>>

MeantLimits(l) == <<Len(l.max), <<l.min>> \o l.max>>

MeantImport(i) ==
    LET d == i.descriptor
        desc == CASE d.k = "TYPE_FUNC"  -> <<0, d.id>>
                  [] d.k = "TYPE_TABLE" -> <<1, <<MeantLimits(d.limits), d.refType>>>>
                  [] d.k = "TYPE_MEM"   -> <<2, MeantLimits(d.limits)>>
                  [] OTHER -> <<3, <<IF d.k = "TYPE_GLOBAL_VAR" THEN 1 ELSE 0, d.valType>>>>
    IN  <<i.module, i.name, desc>>

MeantExport(m, e) ==
    LET d == e.descriptor
    IN  CASE d.k = "REF_FUNC"  -> <<e.name, 0, Number(m, d.func)>>
          [] d.k = "TABLE_GET" -> <<e.name, 1, d.index>>
          [] d.k = "MEM"       -> <<e.name, 2, m.imports[d.import.at].id>>
          [] OTHER             -> <<e.name, 3, d.index>>

MeantCode(m, f) ==
    LET locals == Reverse(f.locals)
    IN  [content |-> <<[i \in DOMAIN locals |-> <<1, locals[i].type>>], MeantList(m, f.body)>>,
         fits |-> TRUE]

MeantData(m, d) ==
    LET offset == MeantList(m, d.mode.offset)
    IN  CASE d.mode.k = "DATA_PASSIVE" -> <<1, <<d.init>>>>
          [] d.mode.k # "DATA_PASSIVE" /\ d.mode.memory = 0 -> <<0, <<offset, d.init>>>>
          [] OTHER -> <<2, <<d.mode.memory, offset, d.init>>>>

MeantModule(m) ==
    [types   |-> [i \in DOMAIN m.types |-> <<\h60, <<m.types[i].domain, m.types[i].codomain>>>>],
     imports |-> [i \in DOMAIN m.imports |-> MeantImport(m.imports[i])],
     funcs   |-> [i \in DOMAIN m.funcs |-> m.funcs[i].type.id],
     tables  |-> [i \in DOMAIN m.tables |-> <<MeantLimits(m.tables[i].limits), m.tables[i].refType>>],
     mems    |-> [i \in DOMAIN m.mems |-> MeantLimits(m.mems[i].limits)],
     exports |-> [i \in DOMAIN m.exports |-> MeantExport(m, m.exports[i])],
     start   |-> [i \in DOMAIN m.start |-> Number(m, m.start[i])],
     count   |-> Len(m.datas),
     code    |-> [i \in DOMAIN m.funcs |-> MeantCode(m, m.funcs[i])],
     datas   |-> [i \in DOMAIN m.datas |-> MeantData(m, m.datas[i])]]

RECURSIVE HasBrTable(_)
HasBrTable(list) ==
    \E i \in DOMAIN list : \/ list[i].k = "BR_TABLE"
                            \/ (list[i].k \in {"BLOCK", "LOOP"} /\ HasBrTable(list[i].list))
                            \/ (list[i].k = "IF" /\ HasBrTable(list[i].then \o list[i].else))

Ordered(ids) ==  \* sections other than custom ones, in the order of the format
    LET rank == <<1, 2, 3, 4, 5, 7, 8, 12, 10, 11>>
        Rank(id) == CHOOSE r \in DOMAIN rank : rank[r] = id
        known == SelectSeq(ids, LAMBDA id : id # 0)
    IN  \A i \in 1..(Len(known) - 1) : Rank(known[i]) < Rank(known[i + 1])

-----------------------------------------------------------------------------
(* Properties.                                                             *)

IsReadAs(found, meant) ==
    /\ found.header = <<0, 97, 115, 109, 1, 0, 0, 0>>
    /\ found.fits
    /\ Ordered(found.ids)
    /\ \A part \in DOMAIN meant : found[part] = meant[part]

(* What is written reads back as the module that was built, whatever the   *)
(* host and the mode: every section is as long as its size says, is where  *)
(* the format wants it, and holds the nodes in program order, although the *)
(* lists of the pool are linked from the last node to the first (emit.hpp, *)
(* TVisitor with REVERSE_LIST).  Not said of a module with a br_table,     *)
(* whose labels are written before its opcode.                             *)
ReadsBack ==
    phase = "written" /\ (\A i \in DOMAIN program.funcs : ~HasBrTable(program.funcs[i].body)) =>
        IsReadAs(ReadModule(written.bytes), MeantModule(program))

(* The buffer is what is written into it, byte for byte, for a module and   *)
(* for an object whose relocations are all in the first 128 bytes of their *)
(* section.  Bematist::diff is 0 (emit.hpp:317), so that an offset of 128  *)
(* or more is measured as one byte and written as more: behind that, gen's *)
(* make, which allocates emitSize bytes (emitter.cpp:512-516), writes past *)
(* its buffer.                                                             *)
SizeIsMeasured ==
    phase = "written" /\ (object => \A i \in DOMAIN written.relocs : written.relocs[i].offset < 128) =>
        Len(written.bytes) = size

\* The calls of the program in program order: a relocation is asked for when
\* its type is not NONE.
RECURSIVE CallsIn(_)
CallsOf(list) == FlattenSeq(Reverse([i \in DOMAIN list |-> CallsIn(list[i])]))
CallsIn(inst) ==
    CASE inst.k = "CALL" -> <<inst>>
      [] inst.k \in {"BLOCK", "LOOP"} -> CallsOf(inst.list)
      [] inst.k = "IF" -> CallsOf(inst.then) \o CallsOf(inst.else)
      [] OTHER -> <<>>

\* The place at points to a call of callee, and the symbol names the same.
PatchesCall(b, at, symbol, number, callee) ==
    /\ b[at - 1] = 16
    /\ number.at = at + 5
    /\ number.v = Number(program, callee)
    /\ FunctionNumber(symbol) = number.v

PatchesCalls(b, all, code, symbols, calls) ==
    /\ all[code.target + 1].id = 10
    /\ Len(code.entries) = Len(calls)
    /\ \A i \in DOMAIN code.entries :
          LET at == all[code.target + 1].from + code.entries[i].offset
          IN  PatchesCall(b, at, symbols[code.entries[i].index + 1], ReadU(b, at), calls[i].func)

RelocationsFit(b, all, data, linking) ==
    /\ linking.version = 2 /\ linking.kind = 8 /\ linking.fits
    /\ data.fits /\ RelocsOf(b, RelocCode).fits
    /\ all[data.target + 1].id = 11

(* The linker finds what it needs in an object: reloc.CODE and reloc.DATA  *)
(* name the sections of code and of data by their numbers, there is one    *)
(* entry for each call that asks for one, it points at the five bytes of   *)
(* the callee's number, right after the opcode, and the symbol it names is *)
(* a symbol of that same callee.                                           *)
RelocationsPatchCalls ==
    phase = "written" /\ object =>
        LET b     == written.bytes
            calls == SelectSeq(FlattenSeq([i \in DOMAIN program.funcs |->
                                              CallsOf(program.funcs[i].body)]),
                               LAMBDA c : c.reloc.type # "NONE")
        IN  /\ RelocationsFit(b, Sections(b), RelocsOf(b, RelocData), SymbolsOf(b, Linking))
            /\ PatchesCalls(b, Sections(b), RelocsOf(b, RelocCode), SymbolsOf(b, Linking).symbols, calls)
=============================================================================
