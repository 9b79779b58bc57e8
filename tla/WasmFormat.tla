----------------------------- MODULE WasmFormat -----------------------------
(***************************************************************************)
(* The WebAssembly binary format and the sections a linker reads in an     *)
(* object, written from the format and not from the emitter: the reference *)
(* the emitter is checked against.  The format is data (FuncType, Import,  *)
(* Instructions, ...), and Read reads a thing of a given format.           *)
(*                                                                         *)
(* It follows the emitter where that one leaves the format, in four        *)
(* things: the type of a table has its limits first, the type of a global  *)
(* its mutability, table.copy its source, and the bytes of a data segment  *)
(* have no length in front of them, so that a section holds one segment.   *)
(***************************************************************************)
EXTENDS Integers, Sequences, SequencesExt

\* What was read, and the place after it.
Got(v, at) == [v |-> v, at |-> at]

\* A byte that is not there reads as -1, which no format accepts.
Byte(b, at) == IF at \in DOMAIN b THEN b[at] ELSE -1

\* An unsigned and a signed LEB128 number; five groups are the longest.
Groups(b, at) ==
    LET last == {k \in 0..4 : Byte(b, at + k) \in 0..127
                              /\ \A j \in 0..(k - 1) : Byte(b, at + j) >= 128}
    IN  IF last = {} THEN 1 ELSE 1 + (CHOOSE k \in last : TRUE)

ReadU(b, at) ==
    LET n == Groups(b, at)
        value[k \in 0..n] ==
            IF k = n THEN 0 ELSE (Byte(b, at + k) % 128) + 128 * (value[k + 1] % 2^23)
    IN  Got(value[0], at + n)

ReadS(b, at) ==
    LET n == Groups(b, at)
        value[k \in 0..n] ==
            IF k = n THEN IF (Byte(b, at + n - 1) % 128) >= 64 THEN -1 ELSE 0
            ELSE (Byte(b, at + k) % 128) + 128 * value[k + 1]
    IN  Got(value[0], at + n)

-----------------------------------------------------------------------------
(* What can be read.                                                       *)

Unsigned   == [k |-> "unsigned"]
Signed     == [k |-> "signed"]
Octet      == [k |-> "octet"]
Type       == [k |-> "type"]
BlockType  == [k |-> "block type"]
Expression == [k |-> "expression"]   \* up to and including an end or an else
Else       == [k |-> "else"]         \* an expression, if an else is in front
Remaining       == [k |-> "rest"]         \* all bytes that are left

Tuple(parts) == [k |-> "tuple", parts |-> parts]
Vector(of)   == [k |-> "vector", of |-> of]   \* a number, and as many of these
WithSize(of)    == [k |-> "sized", of |-> of]    \* a size in bytes, and this
Tagged(cases) == [k |-> "tagged", cases |-> cases]  \* a byte says what follows
\* Flags, of which one says that what follows is not defined in this object.
Flagged(defined, undefined) == [k |-> "flagged", defined |-> defined, undefined |-> undefined]

NameText     == Vector(Octet)
FuncType == Tagged(\h60 :> Tuple(<<Vector(Type), Vector(Type)>>))
LimitsType  == Tagged(0 :> Tuple(<<Unsigned>>) @@ 1 :> Tuple(<<Unsigned, Unsigned>>))
Table    == Tuple(<<LimitsType, Type>>)
ImportEntry  == Tuple(<<NameText, NameText, Tagged(0 :> Unsigned @@ 1 :> Table @@ 2 :> LimitsType
                                       @@ 3 :> Tuple(<<Octet, Type>>))>>)
ExportEntry  == Tuple(<<NameText, Octet, Unsigned>>)
Code     == WithSize(Tuple(<<Vector(Tuple(<<Unsigned, Type>>)), Expression>>))
Segment  == Tagged(0 :> Tuple(<<Expression, Remaining>>) @@ 1 :> Tuple(<<Remaining>>)
                   @@ 2 :> Tuple(<<Unsigned, Expression, Remaining>>))
SymbolInfo ==
    Tagged(0 :> Flagged(Tuple(<<Unsigned, NameText>>), Tuple(<<Unsigned>>))
           @@ 1 :> Flagged(Tuple(<<NameText, Unsigned, Unsigned, Unsigned>>), Tuple(<<NameText>>)))
\* An entry of type R_WASM_FUNCTION_INDEX_LEB and the others without addend.
RelocationEntry == Tuple(<<Octet, Unsigned, Unsigned>>)

TypeNames == [i \in \h6F..\h7F |->
    CASE i = \h7F -> "I32" [] i = \h7E -> "I64" [] i = \h7D -> "F32" [] i = \h7C -> "F64"
      [] i = \h70 -> "REF_FUNC" [] i = \h6F -> "REF_EXTERN" [] OTHER -> "?"]

-----------------------------------------------------------------------------
(* Instructions, read as <<name, operands>>.  The numeric ones are in the  *)
(* order of the format, from 0x45 on.                                      *)

Of(type, names) == [i \in DOMAIN names |-> <<type, names[i], "">>]

IntTests == <<"EQZ", "EQ", "NE", "LT_S", "LT_U", "GT_S", "GT_U", "LE_S", "LE_U", "GE_S", "GE_U">>
FloatTests == <<"EQ", "NE", "LT", "GT", "LE", "GE">>
IntOps == <<"CLZ", "CTZ", "POPCNT", "ADD", "SUB", "MUL", "DIV_S", "DIV_U", "REM_S", "REM_U",
            "AND", "OR", "XOR", "SHL", "SHR_S", "SHR_U", "ROTL", "ROTR">>
FloatOps == <<"ABS", "NEG", "CEIL", "FLOOR", "TRUNC", "NEAREST", "SQRT", "ADD", "SUB", "MUL",
              "DIV", "MIN", "MAX", "COPYSIGN">>
Conversions ==
    <<<<"I32", "WRAP_I64", "">>, <<"I32", "TRUNC_S", "F32">>, <<"I32", "TRUNC_U", "F32">>,
      <<"I32", "TRUNC_S", "F64">>, <<"I32", "TRUNC_U", "F64">>, <<"I64", "EXTEND_I32_S", "">>,
      <<"I64", "EXTEND_I32_U", "">>, <<"I64", "TRUNC_S", "F32">>, <<"I64", "TRUNC_U", "F32">>,
      <<"I64", "TRUNC_S", "F64">>, <<"I64", "TRUNC_U", "F64">>, <<"F32", "CONVERT_S", "I32">>,
      <<"F32", "CONVERT_U", "I32">>, <<"F32", "CONVERT_S", "I64">>, <<"F32", "CONVERT_U", "I64">>,
      <<"F32", "DEMOTE_F64", "">>, <<"F64", "CONVERT_S", "I32">>, <<"F64", "CONVERT_U", "I32">>,
      <<"F64", "CONVERT_S", "I64">>, <<"F64", "CONVERT_U", "I64">>, <<"F64", "PROMOTE_F32", "">>,
      <<"I32", "REINTERPRET", "">>, <<"I64", "REINTERPRET", "">>, <<"F32", "REINTERPRET", "">>,
      <<"F64", "REINTERPRET", "">>, <<"I32", "EXTEND_8_S", "">>, <<"I32", "EXTEND_16_S", "">>,
      <<"I64", "EXTEND_8_S", "">>, <<"I64", "EXTEND_16_S", "">>, <<"I64", "EXTEND_32_S", "">>>>

NumericOrder ==
    Of("I32", IntTests) \o Of("I64", IntTests) \o Of("F32", FloatTests) \o Of("F64", FloatTests)
    \o Of("I32", IntOps) \o Of("I64", IntOps) \o Of("F32", FloatOps) \o Of("F64", FloatOps)
    \o Conversions

\* The memory instructions, from 0x28 on.
MemoryOrder ==
    <<<<"I32", "LOAD">>, <<"I64", "LOAD">>, <<"F32", "LOAD">>, <<"F64", "LOAD">>,
      <<"I32", "LOAD_8_S">>, <<"I32", "LOAD_8_U">>, <<"I32", "LOAD_16_S">>, <<"I32", "LOAD_16_U">>,
      <<"I64", "LOAD_8_S">>, <<"I64", "LOAD_8_U">>, <<"I64", "LOAD_16_S">>, <<"I64", "LOAD_16_U">>,
      <<"I64", "LOAD_32_S">>, <<"I64", "LOAD_32_U">>, <<"I32", "STORE">>, <<"I64", "STORE">>,
      <<"F32", "STORE">>, <<"F64", "STORE">>, <<"I32", "STORE_8">>, <<"I32", "STORE_16">>,
      <<"I64", "STORE_8">>, <<"I64", "STORE_16">>, <<"I64", "STORE_32">>>>

\* Instructions with nothing after the opcode, one number, or two.
Bare   == \h00 :> "UNREACHABLE" @@ \h01 :> "NOP" @@ \h0F :> "RETURN" @@ \h1A :> "DROP"
          @@ \h1B :> "SELECT" @@ \hD1 :> "REF_IS_NULL"
Single == \h0C :> "BR" @@ \h0D :> "BR_IF" @@ \h10 :> "CALL" @@ \h20 :> "LOCAL_GET"
          @@ \h21 :> "LOCAL_SET" @@ \h22 :> "LOCAL_TEE" @@ \h23 :> "GLOBAL_GET"
          @@ \h24 :> "GLOBAL_SET" @@ \h25 :> "TABLE_GET" @@ \h26 :> "TABLE_SET"
          @@ \h3F :> "MEM_SIZE" @@ \h40 :> "MEM_GROW" @@ \hD2 :> "REF_FUNC"
Long   == 10 :> <<"MEM_COPY", 2>> @@ 11 :> <<"MEM_FILL", 1>> @@ 14 :> <<"TABLE_COPY", 2>>
          @@ 15 :> <<"TABLE_GROW", 1>> @@ 16 :> <<"TABLE_SIZE", 1>> @@ 17 :> <<"TABLE_FILL", 1>>

\* An instruction: its name, the operands its opcode implies, and those after it.
Instruction(name, implied, operands) == [name |-> name, implied |-> implied, operands |-> operands]
Plainly(name, operands) == Instruction(name, <<>>, operands)

Numbers(n) == Tuple([i \in 1..n |-> Unsigned])
Octets(n)  == Tuple([i \in 1..n |-> Octet])

\* The instructions by their opcodes; 256 stands for the prefix 0xFC.
Instructions ==
    [op \in DOMAIN Bare |-> Plainly(Bare[op], Numbers(0))]
    @@ [op \in DOMAIN Single |-> Plainly(Single[op], Numbers(1))]
    @@ [op \in {256 + code : code \in DOMAIN Long} |-> Plainly(Long[op - 256][1], Numbers(Long[op - 256][2]))]
    @@ \h02 :> Plainly("BLOCK", Tuple(<<BlockType, Expression>>))
    @@ \h03 :> Plainly("LOOP", Tuple(<<BlockType, Expression>>))
    @@ \h04 :> Plainly("IF", Tuple(<<BlockType, Expression, Else>>))
    @@ \h11 :> Plainly("CALL_INDIRECT", Numbers(2))
    @@ \h1C :> Plainly("SELECT", Vector(Type))
    @@ \hD0 :> Plainly("REF_NULL", Tuple(<<Type>>))
    @@ \h41 :> Plainly("CONST_I32", Tuple(<<Signed>>))
    @@ \h42 :> Plainly("CONST_I64", Tuple(<<Signed>>))
    @@ \h43 :> Plainly("F32", Octets(4))
    @@ \h44 :> Plainly("F64", Octets(8))
    @@ [op \in \h45..\hC4 |-> Instruction("NUMERIC", NumericOrder[op - \h44], Numbers(0))]
    @@ [op \in \h28..\h3E |-> Instruction("MEMORY", MemoryOrder[op - \h27], Numbers(2))]

Opcode(b, at) == IF Byte(b, at) = \hFC THEN 256 + Byte(b, at + 1) ELSE Byte(b, at)

-----------------------------------------------------------------------------
(* The reader.                                                             *)

RECURSIVE Read(_, _, _)

\* The parts, one after the other.
ReadAll(b, at, parts) ==
    LET upTo[i \in 0..Len(parts)] ==
            IF i = 0 THEN Got(<<>>, at)
            ELSE LET before == upTo[i - 1]
                     part   == Read(b, before.at, parts[i])
                 IN  Got(Append(before.v, part.v), part.at)
    IN  upTo[Len(parts)]

ReadInst(b, at) ==
    LET op   == Opcode(b, at)
        inst == Instructions[op]
        operands == Read(b, at + (IF op < 256 THEN 1 ELSE 2), inst.operands)
    IN  IF op \in DOMAIN Instructions
        THEN Got(<<inst.name, inst.implied \o operands.v>>, operands.at)
        ELSE Got(<<"?", <<op>>>>, at + 1)

ReadExpression(b, at) ==
    IF Byte(b, at) \in {-1, \h05, \h0B} THEN Got(<<>>, at + 1)
    ELSE LET first == ReadInst(b, at)
             rest  == Read(b, first.at, Expression)
         IN  Got(<<first.v>> \o rest.v, rest.at)

\* No vector is longer than the file it is in.
ReadVector(b, at, of) ==
    LET n == ReadU(b, at)
    IN  ReadAll(b, n.at, [i \in 1..(IF n.v > Len(b) THEN 0 ELSE n.v) |-> of])

\* fits says whether it ends where its size says.
ReadSized(b, at, of) ==
    LET size == ReadU(b, at)
        all  == Read(b, size.at, of)
    IN  Got([content |-> all.v, fits |-> all.at = size.at + size.v], all.at)

ReadFlagged(b, at, what) ==
    LET flags == ReadU(b, at)
        rest  == Read(b, flags.at, IF (flags.v \div 16) % 2 = 1 THEN what.undefined ELSE what.defined)
    IN  Got(<<flags.v, rest.v>>, rest.at)

Read(b, at, what) ==
    LET byte == Byte(b, at)
    IN  CASE what.k = "unsigned"   -> ReadU(b, at)
          [] what.k = "signed"     -> ReadS(b, at)
          [] what.k = "octet"      -> Got(byte, at + 1)
          [] what.k = "type"       -> Got(IF byte \in DOMAIN TypeNames THEN TypeNames[byte] ELSE "?", at + 1)
          [] what.k = "block type" -> Read(b, at, IF byte >= \h40 THEN Type ELSE Unsigned)
          [] what.k = "expression" -> ReadExpression(b, at)
          [] what.k = "else"       -> IF Byte(b, at - 1) = \h05 THEN Read(b, at, Expression) ELSE Got(<<>>, at)
          [] what.k = "rest"       -> Got(SubSeq(b, at, Len(b)), Len(b) + 1)
          [] what.k = "tuple"      -> ReadAll(b, at, what.parts)
          [] what.k = "vector"     -> ReadVector(b, at, what.of)
          [] what.k = "sized"      -> ReadSized(b, at, what.of)
          [] what.k = "flagged"    -> ReadFlagged(b, at, what)
          [] what.k = "tagged"     ->
                ReadAll(b, at, IF byte \in DOMAIN what.cases THEN <<Octet, what.cases[byte]>> ELSE <<Octet>>)

-----------------------------------------------------------------------------
(* Sections.                                                               *)

\* The sections: their number, their first byte and the byte after the last.
RECURSIVE ReadSections(_, _)
ReadSections(b, at) ==
    IF at > Len(b) THEN <<>>
    ELSE LET size == ReadU(b, at + 1)
         IN  <<[id |-> b[at], from |-> size.at, end |-> size.at + size.v]>>
             \o (IF size.at + size.v > Len(b) + 1 THEN <<>> ELSE ReadSections(b, size.at + size.v))

Sections(b) == ReadSections(b, 9)

\* What is in the only section of all, none when there is no section.
ContentOf(b, all, what, none) ==
    IF all = <<>> THEN none ELSE Read(SubSeq(b, 1, all[1].end - 1), all[1].from, what).v

InSection(b, id, what, none) ==
    ContentOf(b, SelectSeq(Sections(b), LAMBDA s : s.id = id), what, none)

CustomSection(b, name) ==
    SelectSeq(Sections(b), LAMBDA s : s.id = 0 /\ Read(b, s.from, NameText).v = name)[1]

\* A reloc section: the section it is about, counted from 0, and its entries.
Relocs(got, end) ==
    LET Entry(e) == [type |-> e[1], offset |-> e[2], index |-> e[3]]
    IN  [target  |-> got.v[2],
         entries |-> [i \in DOMAIN got.v[3] |-> Entry(got.v[3][i])],
         fits    |-> got.at = end]

RelocsIn(b, s) == Relocs(Read(b, s.from, Tuple(<<NameText, Unsigned, Vector(RelocationEntry)>>)), s.end)
RelocsOf(b, name) == RelocsIn(b, CustomSection(b, name))

\* A linking section with a table of symbols.
Symbols(got, end) ==
    [version |-> got.v[2], kind |-> got.v[3], symbols |-> got.v[4].content,
     fits |-> got.at = end /\ got.v[4].fits]

SymbolsIn(b, s) ==
    Symbols(Read(b, s.from, Tuple(<<NameText, Unsigned, Octet, WithSize(Vector(SymbolInfo))>>)), s.end)
SymbolsOf(b, name) == SymbolsIn(b, CustomSection(b, name))

\* The function a symbol of a function names.
FunctionNumber(symbol) == symbol[2][2][1]

ReadModule(b) ==
    LET all == Sections(b)
    IN  [header  |-> SubSeq(b, 1, 8),
         ids     |-> [i \in DOMAIN all |-> all[i].id],
         fits    |-> IF all = <<>> THEN Len(b) = 8 ELSE all[Len(all)].end = Len(b) + 1,
         types   |-> InSection(b, 1, Vector(FuncType), <<>>),
         imports |-> InSection(b, 2, Vector(ImportEntry), <<>>),
         funcs   |-> InSection(b, 3, Vector(Unsigned), <<>>),
         tables  |-> InSection(b, 4, Vector(Table), <<>>),
         mems    |-> InSection(b, 5, Vector(LimitsType), <<>>),
         exports |-> InSection(b, 7, Vector(ExportEntry), <<>>),
         start   |-> InSection(b, 8, Tuple(<<Unsigned>>), <<>>),
         count   |-> InSection(b, 12, Unsigned, 0),
         code    |-> InSection(b, 10, Vector(Code), <<>>),
         datas   |-> InSection(b, 11, Vector(Segment), <<>>)]
=============================================================================
