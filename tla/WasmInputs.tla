----------------------------- MODULE WasmInputs -----------------------------
(* The modules of wasm that Emission is checked with.                      *)
EXTENDS WasmEmit, WasmFormat

\* Types: the pool of the module starts with them.
TypeUnary  == TypeFunc(<<"I64">>, <<"I64">>, 0, 0)
TypeBinary == TypeFunc(<<"I32", "F64">>, <<"REF_FUNC">>, 1, 1)

Name(n)   == <<97, n>>
Called(s) == Relocation("FUNCTION_INDEX_LEB", s, 0)

\* Every instruction of the emitter that the format has at its place.
Numerics == {Numeric(NumericOrder[i][1], NumericOrder[i][2], NumericOrder[i][3]) :
                i \in DOMAIN NumericOrder}
Memories == {Memory(MemoryOrder[i][1], MemoryOrder[i][2], 3, 200) : i \in DOMAIN MemoryOrder}
Simples  == {Simple(k) : k \in DOMAIN SimpleCode}
NumberedInsts == {Indexed(k, n) : k \in DOMAIN ShortCode \cup DOMAIN IndexedCode, n \in {1, 300}}
Consts   == {ConstI64(n) : n \in {0, 63, 64, 127, 128, 8192, 2147483647, -1, -64, -65, -129, -8193}}
            \cup {ConstI32(n) : n \in {0, 1, 63, 63 * 128}}  \* see "Deviations" in the README
            \cup {ConstF("F32", <<1, 2, 3, 4>>), ConstF("F64", <<1, 2, 3, 4, 5, 6, 7, 8>>)}
References == {CallIndirect(TypeBinary, 1), RefFunc(FuncAt(1)), RefNull("REF_FUNC"),
               RefNull("REF_EXTERN"), TableCopy(1, 2), Select(<<>>), Select(<<"F32">>)}
Blocks == {Block(k, t, <<Simple("NOP"), Simple("DROP")>>) : k \in {"BLOCK", "LOOP"},
                                                           t \in {BlockVal("I64"), TypeBinary}}
          \cup {If(BlockVal("F32"), <<Simple("NOP"), Simple("DROP")>>, else) :
                  else \in {<<>>, <<Block("LOOP", BlockVal("I32"), <<Indexed("BR", 1), Simple("NOP")>>)>>}}

Insts == Numerics \cup Memories \cup Simples \cup NumberedInsts \cup Consts \cup References \cup Blocks

\* One function with the instruction between two others.
WithInst(inst) ==
    [EmptyModule EXCEPT
        !.types = <<TypeUnary, TypeBinary>>,
        !.funcs = <<Function(TypeUnary, <<Local("F32", 2), Local("I64", 1)>>, 2,
                             <<Indexed("LOCAL_GET", 0), inst, Simple("NOP")>>, 0, 0)>>]

FuncImport(n) == Import(<<109>>, Name(n), TypeBinary, n, n + 1)

\* Imports, exports and calls.  n instructions come before the last call.
Linked(n, start, datas) ==
    [EmptyModule EXCEPT
        !.types = <<TypeUnary, TypeBinary>>,
        !.imports = <<FuncImport(0), FuncImport(1)>>,
        !.funcs = <<Function(TypeUnary, <<>>, 0,
                             <<Call(ImportAt(2), Called(1))>> \o [i \in 1..n |-> ConstI64(-65)]
                             \o <<If(BlockVal("I64"), <<Call(FuncAt(1), NoRelocation), Call(FuncAt(2), Called(2))>>,
                                            <<Call(ImportAt(1), Called(0))>>)>>, 2, 0),
                    Function(TypeBinary, <<Local("I32", 2)>>, 1, <<Call(ImportAt(1), Called(0))>>, 3, 3)>>,
        !.exports = <<Export(Name(7), RefFunc(FuncAt(2)))>>,
        !.start = start,
        !.datas = datas,
        !.symbols = <<Symbol(SymbolFlag.UNDEFINED, ImportAt(1), <<>>),
                      Symbol(SymbolFlag.UNDEFINED, ImportAt(2), <<>>),
                      Symbol(SymbolFlag.VISIBILITY_HIDDEN, FuncAt(2), <<Name(7)>>),
                      DataSymbol(SymbolFlag.EXPORTED, Name(8), 1, 2, 300),
                      DataSymbol(SymbolFlag.UNDEFINED, Name(9), 0, 0, 0)>>,
        !.relocSizeCode = 4]

\* Everything that is not a function.
Furnished ==
    [EmptyModule EXCEPT
        !.types = <<TypeUnary>>,
        !.imports = <<Import(<<>>, Name(0), TypeTable(Limits(1, <<>>), "REF_EXTERN"), 0, 0),
                      Import(<<>>, Name(1), TypeMem(Limits(1, <<300>>)), 1, 0),
                      Import(<<>>, Name(2), TypeGlobal(TRUE, "F64"), 2, 0),
                      Import(<<>>, Name(3), TypeGlobal(FALSE, "I32"), 3, 0),
                      Import(<<>>, Name(4), TypeUnary, 0, 0)>>,
        !.tables = <<TypeTable(Limits(0, <<9>>), "REF_FUNC"), TypeTable(Limits(129, <<>>), "REF_FUNC")>>,
        !.mems = <<TypeMem(Limits(1, <<>>)), TypeMem(Limits(1, <<2>>))>>,
        !.exports = <<Export(Name(5), Indexed("TABLE_GET", 1)), Export(Name(6), Indexed("GLOBAL_GET", 0)),
                      Export(Name(7), [k |-> "MEM", import |-> ImportAt(2)]),
                      Export(Name(8), RefFunc(ImportAt(5)))>>]

DataModes == {Passive, Active(0, <<Simple("NOP"), ConstI32(5)>>), Active(1, <<Simple("NOP"), ConstI32(5)>>)}

MCModules ==
    {EmptyModule, Furnished}
    \cup {WithInst(inst) : inst \in Insts \cup {BrTable(<<1, 200>>, 3)}}
    \cup {Linked(n, start, datas) : n \in {0, 1, 60}, start \in {<<>>, <<FuncAt(1)>>},
                                    datas \in {<<>>} \cup {<<Data(<<1, 2>>, mode)>> : mode \in DataModes}}
=============================================================================
