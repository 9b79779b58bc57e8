------------------------------ MODULE WasmEmit ------------------------------
(***************************************************************************)
(* wsm::TEmitter: a module of Wasm written as bytes, either for good       *)
(* (TScribe) or to learn the size of the buffer to allocate (Bematist).    *)
(*                                                                         *)
(* What only writes bytes is an operator whose value is those bytes.  What *)
(* reads the writer or the emitter takes the writer w and returns it:      *)
(*   bytes    what is written, of which Bematist keeps the length only;    *)
(*   section  the length at _writerSection, where relocations count from;  *)
(*   relocs   _relocOrderedCode;                                           *)
(*   measure  the writer is Bematist;    object   IS_OBJECT;               *)
(*   little   the host is little-endian.                                   *)
(***************************************************************************)
EXTENDS Wasm, Leb128, SequencesExt

NewWriter(measure, object, little) ==
    [bytes |-> <<>>, section |-> 0, relocs |-> <<>>,
     measure |-> measure, object |-> object, little |-> little]

Put(w, bytes) == [w EXCEPT !.bytes = @ \o bytes]

\* Bematist::diff is 0.
Diff(w, from) == IF w.measure THEN 0 ELSE Len(w.bytes) - from

(* Slip: Bematist does not know of the padding. *)
IndexUnpadded(w, n) == IF w.object /\ ~w.measure THEN ObjLeb(n) ELSE Uleb(n)

\* Leb128<IS_OBJECT>.
Index(w, n) == IF w.object THEN ObjLeb(n) ELSE Uleb(n)

\* REVERSE_LIST: TScribe turns the links around first, so it writes the node
\* grown first first.  Bematist takes them as they are.
ListOrder(w, list) == IF w.measure THEN list ELSE Reverse(list)

\* TFixUpSize around Body: room for the size, then the size written there.
\* Bematist writes it with a fork of its own, which changes nothing.
Sized(w, Body(_)) ==
    LET from == Len(w.bytes)
        done == Body(Put(w, ObjLeb(0)))
    IN  IF w.measure THEN done
        ELSE [done EXCEPT !.bytes =
                 SubSeq(@, 1, from) \o ObjLeb(Diff(done, from) - K_LEB128_OBJ_SIZE)
                 \o SubSeq(@, from + K_LEB128_OBJ_SIZE + 1, Len(@))]

\* emitRangeWithSize of nodes that only write bytes.
Ranged(nodes, Bytes(_)) == Uleb(Len(nodes)) \o FlattenSeq([i \in DOMAIN nodes |-> Bytes(nodes[i])])

-----------------------------------------------------------------------------
(* Types, names, imports and exports.                                      *)

ValTypeBytes(type) ==
    <<CASE type = "I32" -> \h7F [] type = "F32" -> \h7D
        [] type = "I64" -> \h7E [] type = "F64" -> \h7C
        [] type = "REF_FUNC" -> \h70 [] type = "REF_EXTERN" -> \h6F>>

TypeResult(valTypes) == Ranged(valTypes, ValTypeBytes)

TypeFuncBytes(type) == <<\h60>> \o TypeResult(type.domain) \o TypeResult(type.codomain)

WriteLimits(limits) ==
    IF limits.max = <<>>
    THEN <<0>> \o Uleb(limits.min)
    ELSE <<1>> \o Uleb(limits.min) \o Uleb(limits.max[1])

TypeTableBytes(type) == WriteLimits(type.limits) \o ValTypeBytes(type.refType)
TypeMemBytes(type)   == WriteLimits(type.limits)

NameBytes(name) == Uleb(Len(name)) \o name

ImportDescriptorBytes(desc) ==
    CASE desc.k = "TYPE_FUNC"         -> <<0>> \o Uleb(desc.id)
      [] desc.k = "TYPE_TABLE"        -> <<1>> \o TypeTableBytes(desc)
      [] desc.k = "TYPE_MEM"          -> <<2>> \o WriteLimits(desc.limits)
      [] desc.k = "TYPE_GLOBAL_CONST" -> <<3, 0>> \o ValTypeBytes(desc.valType)
      [] desc.k = "TYPE_GLOBAL_VAR"   -> <<3, 1>> \o ValTypeBytes(desc.valType)

ImportBytes(import) ==
    NameBytes(import.module) \o NameBytes(import.name) \o ImportDescriptorBytes(import.descriptor)

\* A memory is exported through a VIndex, which has a number when it is an
\* import.
ExportDescriptorBytes(m, desc) ==
    CASE desc.k = "REF_FUNC"   -> <<0>> \o Uleb(IdOf(m, desc.func))
      [] desc.k = "TABLE_GET"  -> <<1>> \o Uleb(desc.index)
      [] desc.k = "MEM"        -> <<2>> \o Uleb(IdOf(m, desc.import))
      [] desc.k = "GLOBAL_GET" -> <<3>> \o Uleb(desc.index)

ExportBytes(m, export) == NameBytes(export.name) \o ExportDescriptorBytes(m, export.descriptor)

-----------------------------------------------------------------------------
(* Numeric and memory instructions: an operation without a byte writes     *)
(* none.                                                                   *)

I32Compare ==
    [EQZ |-> \h45, EQ |-> \h46, NE |-> \h47, LT_S |-> \h48, LT_U |-> \h49, GT_S |-> \h4A,
     GT_U |-> \h4B, LE_S |-> \h4C, LE_U |-> \h4D, GE_S |-> \h4E, GE_U |-> \h4F]

I32Arithmetic ==
    [CLZ |-> \h67, CTZ |-> \h68, POPCNT |-> \h69, ADD |-> \h6A, SUB |-> \h6B, MUL |-> \h6C,
     DIV_S |-> \h6D, DIV_U |-> \h6E, REM_S |-> \h6F, REM_U |-> \h70, AND |-> \h71, OR |-> \h72,
     XOR |-> \h73, SHL |-> \h74, SHR_S |-> \h75, SHR_U |-> \h76, ROTL |-> \h77, ROTR |-> \h78,
     WRAP_I64 |-> \hA7, REINTERPRET |-> \hBC, EXTEND_8_S |-> \hC0, EXTEND_16_S |-> \hC1]

I64Compare ==
    [EQZ |-> \h50, EQ |-> \h51, NE |-> \h52, LT_S |-> \h53, LT_U |-> \h54, GT_S |-> \h55,
     GT_U |-> \h56, LE_S |-> \h57, LE_U |-> \h58, GE_S |-> \h59, GE_U |-> \h5A]

I64Arithmetic ==
    [CLZ |-> \h79, CTZ |-> \h7A, POPCNT |-> \h7B, ADD |-> \h7C, SUB |-> \h7D, MUL |-> \h7E,
     DIV_S |-> \h7F, DIV_U |-> \h80, REM_S |-> \h81, REM_U |-> \h82, AND |-> \h83, OR |-> \h84,
     XOR |-> \h85, SHL |-> \h86, SHR_S |-> \h87, SHR_U |-> \h88, ROTL |-> \h89, ROTR |-> \h8A,
     EXTEND_I32_S |-> \hAC, EXTEND_I32_U |-> \hAD, REINTERPRET |-> \hBD,
     EXTEND_8_S |-> \hC2, EXTEND_16_S |-> \hC3, EXTEND_32_S |-> \hC4]

F32Code ==
    [EQ |-> \h5B, NE |-> \h5C, LT |-> \h5D, GT |-> \h5E, LE |-> \h5F, GE |-> \h60,
     ABS |-> \h8B, NEG |-> \h8C, CEIL |-> \h8D, FLOOR |-> \h8E, TRUNC |-> \h8F,
     NEAREST |-> \h90, SQRT |-> \h91, ADD |-> \h92, SUB |-> \h93, MUL |-> \h94, DIV |-> \h95,
     MIN |-> \h96, MAX |-> \h97, COPYSIGN |-> \h98, DEMOTE_F64 |-> \hB6, REINTERPRET |-> \hBE]

F64Code ==
    [EQ |-> \h61, NE |-> \h62, LT |-> \h63, GT |-> \h64, LE |-> \h65, GE |-> \h66,
     ABS |-> \h99, NEG |-> \h9A, CEIL |-> \h9B, FLOOR |-> \h9C, TRUNC |-> \h9D,
     NEAREST |-> \h9E, SQRT |-> \h9F, ADD |-> \hA0, SUB |-> \hA1, MUL |-> \hA2, DIV |-> \hA3,
     MIN |-> \hA4, MAX |-> \hA5, COPYSIGN |-> \hA6, PROMOTE_F32 |-> \hBB, REINTERPRET |-> \hBF]

\* The conversions that depend on _suffix.
Converted ==
    [I32 |-> [TRUNC_S |-> [F32 |-> \hA8, F64 |-> \hAA], TRUNC_U |-> [F32 |-> \hA9, F64 |-> \hAB]],
     I64 |-> [TRUNC_S |-> [F32 |-> \hAE, F64 |-> \hB0], TRUNC_U |-> [F32 |-> \hAF, F64 |-> \hB1]],
     F32 |-> [CONVERT_S |-> [I32 |-> \hB2, I64 |-> \hB4], CONVERT_U |-> [I32 |-> \hB3, I64 |-> \hB5]],
     F64 |-> [CONVERT_S |-> [I32 |-> \hB7, I64 |-> \hB9], CONVERT_U |-> [I32 |-> \hB8, I64 |-> \hBA]]]

NumericCode ==
    [I32 |-> I32Compare @@ I32Arithmetic, I64 |-> I64Compare @@ I64Arithmetic,
     F32 |-> F32Code, F64 |-> F64Code]

NumericBytes(inst) ==
    LET code      == NumericCode[inst.type]
        converted == Converted[inst.type]
    IN  IF inst.op \in DOMAIN code THEN <<code[inst.op]>>
        ELSE IF inst.op \in DOMAIN converted /\ inst.suffix \in DOMAIN converted[inst.op]
             THEN <<converted[inst.op][inst.suffix]>>
             ELSE <<>>

MemoryCode ==
    [I32 |-> [LOAD |-> \h28, LOAD_8_S |-> \h2C, LOAD_8_U |-> \h2D, LOAD_16_S |-> \h2E,
              LOAD_16_U |-> \h2F, STORE |-> \h36, STORE_8 |-> \h3A, STORE_16 |-> \h3B],
     I64 |-> [LOAD |-> \h29, LOAD_8_S |-> \h30, LOAD_8_U |-> \h31, LOAD_16_S |-> \h32,
              LOAD_16_U |-> \h33, LOAD_32_S |-> \h34, LOAD_32_U |-> \h35, STORE |-> \h37,
              STORE_8 |-> \h3C, STORE_16 |-> \h3D, STORE_32 |-> \h3E],
     F32 |-> [LOAD |-> \h2A, STORE |-> \h38],
     F64 |-> [LOAD |-> \h2B, STORE |-> \h39]]

Memarg(inst) == Uleb(inst.align) \o Uleb(inst.offset)

MemoryBytes(inst) ==
    LET code == MemoryCode[inst.type]
    IN  (IF inst.op \in DOMAIN code THEN <<code[inst.op]>> ELSE <<>>) \o Memarg(inst)

-----------------------------------------------------------------------------
(* The other instructions.                                                 *)

SimpleCode ==
    [UNREACHABLE |-> <<\h00>>, NOP |-> <<\h01>>, RETURN |-> <<\h0F>>, REF_IS_NULL |-> <<\hD1>>,
     DROP |-> <<\h1A>>, MEM_SIZE |-> <<\h3F, 0>>, MEM_GROW |-> <<\h40, 0>>,
     MEM_COPY |-> <<\hFC, 10, 0, 0>>, MEM_FILL |-> <<\hFC, 11, 0>>]

\* INST_LOCAL_* and the labels of branches: the number is never padded.
ShortCode ==
    [LOCAL_GET |-> <<\h20>>, LOCAL_SET |-> <<\h21>>, LOCAL_TEE |-> <<\h22>>,
     BR |-> <<\h0C>>, BR_IF |-> <<\h0D>>]

\* INST_GLOBAL_* and INST_TABLE_*: a Leb128<IS_OBJECT>.
IndexedCode ==
    [GLOBAL_GET |-> <<\h23>>, GLOBAL_SET |-> <<\h24>>, TABLE_GET |-> <<\h25>>,
     TABLE_SET |-> <<\h26>>, TABLE_GROW |-> <<\hFC, 15>>, TABLE_SIZE |-> <<\hFC, 16>>,
     TABLE_FILL |-> <<\hFC, 17>>]

BrTableBytes(inst) == Ranged(inst.labels, Uleb) \o <<\h0E>> \o Uleb(inst.label)

SelectBytes(inst) ==
    IF inst.valTypes = <<>> THEN <<\h1B>> ELSE <<\h1C>> \o Ranged(inst.valTypes, ValTypeBytes)

\* writeF32 and writeF64: the bytes in memory, from the first one up on a
\* little-endian host and from the last one down on a big-endian one.
InMemory(w, bytes) == IF w.little THEN bytes ELSE Reverse(bytes)
FloatBytes(w, inst) ==
    LET memory == InMemory(w, inst.bytes)
    IN  <<IF inst.type = "F32" THEN \h43 ELSE \h44>>
        \o (IF w.little THEN memory ELSE Reverse(memory))

ConstI32Bytes(w, inst) ==
    <<\h41>> \o (IF w.object THEN Padded(LebOfI32(inst.value)) ELSE LebOfI32(inst.value))

\* INST_CALL_INDIRECT, INST_REF_FUNC, INST_REF_NULL and INST_TABLE_COPY.
ReferenceBytes(w, m, inst) ==
    CASE inst.k = "CALL_INDIRECT" -> <<\h11>> \o Index(w, inst.type.id) \o Index(w, inst.table)
      [] inst.k = "REF_FUNC"      -> <<\hD2>> \o Index(w, IdOf(m, inst.func))
      [] inst.k = "REF_NULL"      -> <<\hD0>> \o ValTypeBytes(inst.refType)
      [] inst.k = "TABLE_COPY"    -> <<\hFC, 14>> \o Uleb(inst.srce) \o Uleb(inst.dest)

FlatBytes(w, m, inst) ==
    CASE inst.k \in DOMAIN SimpleCode  -> SimpleCode[inst.k]
      [] inst.k \in DOMAIN ShortCode   -> ShortCode[inst.k] \o Uleb(inst.index)
      [] inst.k \in DOMAIN IndexedCode -> IndexedCode[inst.k] \o Index(w, inst.index)
      [] inst.k = "NUMERIC"   -> NumericBytes(inst)
      [] inst.k = "MEMORY"    -> MemoryBytes(inst)
      [] inst.k = "CONST_I32" -> ConstI32Bytes(w, inst)
      [] inst.k = "CONST_I64" -> <<\h42>> \o Sleb(inst.value)
      [] inst.k = "CONST_F"   -> FloatBytes(w, inst)
      [] inst.k = "SELECT"    -> SelectBytes(inst)
      [] inst.k = "BR_TABLE"  -> BrTableBytes(inst)
      [] OTHER                -> ReferenceBytes(w, m, inst)

(* Slip: the relocation is taken before the byte of the instruction. *)
EmitCallEarly(w, m, inst) ==
    LET op    == Put(w, <<\h10>>)
        reloc == inst.reloc @@ [offset |-> Diff(w, w.section)]
        noted == IF w.object /\ inst.reloc.type # "NONE"
                 THEN [op EXCEPT !.relocs = Append(@, reloc)] ELSE op
    IN  Put(noted, Index(w, IdOf(m, inst.func)))

\* INST_CALL: where the number of the function starts is what the linker
\* patches.
EmitCall(w, m, inst) ==
    LET op    == Put(w, <<\h10>>)
        reloc == inst.reloc @@ [offset |-> Diff(op, op.section)]
        noted == IF w.object /\ inst.reloc.type # "NONE"
                 THEN [op EXCEPT !.relocs = Append(@, reloc)] ELSE op
    IN  Put(noted, Index(w, IdOf(m, inst.func)))

\* TBlockTypeEmitter: of a function type the place in the pool is written.  A
\* block without a type throws at option.value() and is not modelled.
BlockTypeBytes(type) == IF type.k = "TYPE_VAL" THEN ValTypeBytes(type.type) ELSE Uleb(type.at)

RECURSIVE EmitInst(_, _, _)
RECURSIVE EmitAll(_, _, _)

EmitAll(w, m, insts) ==
    IF insts = <<>> THEN w ELSE EmitAll(EmitInst(w, m, Head(insts)), m, Tail(insts))

EmitList(w, m, list) == EmitAll(w, m, ListOrder(w, list))
EmitListWithSentinel(w, m, list) == Put(EmitList(w, m, list), <<\h0B>>)

EmitBlock(w, m, inst) ==
    EmitListWithSentinel(Put(w, <<IF inst.k = "BLOCK" THEN \h02 ELSE \h03>>
                                \o BlockTypeBytes(inst.type)),
                         m, inst.list)

EmitIf(w, m, inst) ==
    LET then == EmitList(Put(w, <<\h04>> \o BlockTypeBytes(inst.type)), m, inst.then)
        else == IF inst.else = <<>> THEN then ELSE EmitList(Put(then, <<\h05>>), m, inst.else)
    IN  Put(else, <<\h0B>>)

EmitInst(w, m, inst) ==
    CASE inst.k \in {"BLOCK", "LOOP"} -> EmitBlock(w, m, inst)
      [] inst.k = "IF"                -> EmitIf(w, m, inst)
      [] inst.k = "CALL"              -> EmitCall(w, m, inst)
      [] OTHER                        -> Put(w, FlatBytes(w, m, inst))

\* LOCAL: one entry per local.
LocalBytes(local) == <<1>> \o ValTypeBytes(local.type)

EmitFunction(w, m, function) ==
    LET locals == ListOrder(w, function.locals)
    IN  EmitListWithSentinel(
            Put(w, Uleb(function.localsSize)
                   \o FlattenSeq([i \in DOMAIN locals |-> LocalBytes(locals[i])])),
            m, function.body)

-----------------------------------------------------------------------------
(* Data, symbols and relocations.                                          *)

DataFlags(mode) ==
    IF mode.k = "DATA_PASSIVE" THEN 1 ELSE IF mode.memory # 0 THEN 2 ELSE 0

EmitData(w, m, data) ==
    LET flags  == DataFlags(data.mode)
        memory == IF flags = 2 THEN Uleb(data.mode.memory) ELSE <<>>
        start  == Put(w, <<flags>> \o memory)
    IN  Put(IF flags = 1 THEN start ELSE EmitListWithSentinel(start, m, data.mode.offset),
            data.init)

\* _isCurrentSymbolDefined is _flags ^ UNDEFINED: only UNDEFINED alone makes it
\* false.
SymbolDataBytes(symbol) ==
    NameBytes(symbol.name)
    \o (IF symbol.flags = SymbolFlag.UNDEFINED THEN <<>>
        ELSE Uleb(symbol.index) \o Uleb(symbol.offset) \o Uleb(symbol.size))

SymbolObjectBytes(m, symbol) ==
    Uleb(IdOf(m, symbol.func)) \o (IF symbol.name = <<>> THEN <<>> ELSE NameBytes(symbol.name[1]))

SymbolBytes(m, symbol) ==
    <<IF symbol.k = "FUNCTION" THEN 0 ELSE 1>> \o Uleb(symbol.flags)
    \o (IF symbol.k = "FUNCTION" THEN SymbolObjectBytes(m, symbol) ELSE SymbolDataBytes(symbol))

WithAddend == {"FUNCTION_OFFSET_I32", "SECTION_OFFSET_I32", "MEMORY_ADDR_SLEB",
               "MEMORY_ADDR_LEB", "MEMORY_ADDR_I32"}

RelocationBytes(reloc) ==
    <<RelocationType[reloc.type]>> \o Uleb(reloc.offset) \o Uleb(reloc.index)
    \o (IF reloc.type \in WithAddend THEN Uleb(reloc.addend) ELSE <<>>)

-----------------------------------------------------------------------------
(* MODULE: the sections, in order.                                         *)

SectionId ==
    [CUSTOM |-> 0, TYPE |-> 1, IMPORT |-> 2, FUNCTION |-> 3, TABLE |-> 4, MEMORY |-> 5,
     GLOBAL |-> 6, EXPORT |-> 7, START |-> 8, ELEMENT |-> 9, CODE |-> 10, DATA |-> 11,
     DATA_COUNT |-> 12]

K_MAGIC   == <<\h00, \h61, \h73, \h6D>>
K_VERSION == <<1, 0, 0, 0>>
K_SYMBOL_TABLE == 8
K_LINK_VERSION == 2
K_RELOC_SECTION_OFFSET == 4

Linking   == <<108, 105, 110, 107, 105, 110, 103>>            \* "linking"
RelocCode == <<114, 101, 108, 111, 99, 46, 67, 79, 68, 69>>   \* "reloc.CODE"
RelocData == <<114, 101, 108, 111, 99, 46, 68, 65, 84, 65>>   \* "reloc.DATA"

\* A section that is written when it has something in it.
Section(w, present, id, Body(_)) == IF present THEN Sized(Put(w, <<SectionId[id]>>), Body) ELSE w

\* A section of bytes only.
Plain(w, present, id, bytes) == LET Body(v) == Put(v, bytes) IN Section(w, present, id, Body)

TypeToStart(w, m) ==
    LET TypeIndex(f)  == Index(w, f.type.id)
        Exported(e)   == ExportBytes(m, e)
        types   == Plain(w, m.types # <<>>, "TYPE", Ranged(m.types, TypeFuncBytes))
        imports == Plain(types, m.imports # <<>>, "IMPORT", Ranged(m.imports, ImportBytes))
        funcs   == Plain(imports, m.funcs # <<>>, "FUNCTION", Ranged(m.funcs, TypeIndex))
        tables  == Plain(funcs, m.tables # <<>>, "TABLE", Ranged(m.tables, TypeTableBytes))
        mems    == Plain(tables, m.mems # <<>>, "MEMORY", Ranged(m.mems, TypeMemBytes))
        exports == Plain(mems, m.exports # <<>>, "EXPORT", Ranged(m.exports, Exported))
    IN  IF m.start = <<>> THEN exports
        ELSE Plain(exports, TRUE, "START", Index(w, IdOf(m, m.start[1])))

EmitCode(w, m) ==
    LET Function1(v, f) == LET Body(u) == EmitFunction(u, m, f) IN Sized(v, Body)
        Body(v) == FoldLeft(Function1, Put([v EXCEPT !.section = Len(v.bytes)], Uleb(Len(m.funcs))),
                            m.funcs)
    IN  Section(w, w.object \/ m.funcs # <<>>, "CODE", Body)

EmitDatas(w, m) ==
    LET Data1(v, d) == EmitData(v, m, d)
        Body(v) == FoldLeft(Data1, Put([v EXCEPT !.section = Len(v.bytes)], Uleb(Len(m.datas))),
                            m.datas)
    IN  Section(w, w.object \/ m.datas # <<>>, "DATA", Body)

EmitLinking(w, m) ==
    LET Table(v) == Put(v, Ranged(m.symbols, LAMBDA s : SymbolBytes(m, s)))
        Body(v)  == Sized(Put(v, NameBytes(Linking) \o Uleb(K_LINK_VERSION) \o <<K_SYMBOL_TABLE>>),
                          Table)
    IN  Section(w, w.object, "CUSTOM", Body)

\* count is the sectionCount before the section.  The number written is what
\* the module says, the entries are the ones the calls left.
EmitReloc(w, name, count, size, relocs) ==
    Plain(w, w.object, "CUSTOM",
          NameBytes(name) \o Uleb(count + 1 - K_RELOC_SECTION_OFFSET) \o Uleb(size)
          \o FlattenSeq([i \in DOMAIN relocs |-> RelocationBytes(relocs[i])]))

\* sectionCount at the end of the section "linking".
SectionCount(m) ==
    Cardinality({s \in {"types", "imports", "funcs", "tables", "mems", "exports", "start"} :
                    m[s] # <<>>})
    + (IF m.datas = <<>> THEN 0 ELSE 1) + 3

EmitModule(w, m) ==
    LET head    == TypeToStart(Put(w, K_MAGIC \o K_VERSION), m)
        count   == Plain(head, m.datas # <<>>, "DATA_COUNT", Uleb(Len(m.datas)))
        code    == EmitCode(count, m)
        datas   == EmitDatas(code, m)
        linking == EmitLinking(datas, m)
        reloc   == EmitReloc(linking, RelocCode, SectionCount(m), m.relocSizeCode, linking.relocs)
    IN  EmitReloc(reloc, RelocData, SectionCount(m) + 1, m.relocSizeData, <<>>)

\* emitSize and emit.
EmitSize(m, object)     == Len(EmitModule(NewWriter(TRUE, object, TRUE), m).bytes)
Emit(m, object, little) == EmitModule(NewWriter(FALSE, object, little), m)
=============================================================================
