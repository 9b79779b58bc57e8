-------------------------------- MODULE Wasm --------------------------------
(***************************************************************************)
(* The nodes of a wasm module (dmit/wsm/wasm.hpp) as nested records: a     *)
(* TIndex is the node it points to, a TRange a sequence, and a TList a     *)
(* sequence in the order of its links, in which the node grown last is the *)
(* first.  A function, an import and a type carry the number (_id) that    *)
(* others are written with.                                                *)
(***************************************************************************)
EXTENDS Integers, Sequences

None == [k |-> "NONE"]

NumType == {"I32", "F32", "I64", "F64"}
RefType == {"REF_EXTERN", "REF_FUNC"}
ValType == NumType \cup RefType

\* at is the place of the node in its pool.
TypeFunc(domain, codomain, id, at) ==
    [k |-> "TYPE_FUNC", domain |-> domain, codomain |-> codomain, id |-> id, at |-> at]

\* TYPE_LIMITS and TYPE_MEM; max is a sequence with at most one number.
Limits(min, max) == [min |-> min, max |-> max]

TypeTable(limits, refType) == [k |-> "TYPE_TABLE", limits |-> limits, refType |-> refType]
TypeMem(limits)            == [k |-> "TYPE_MEM", limits |-> limits]
TypeGlobal(isVar, valType) ==
    [k |-> IF isVar THEN "TYPE_GLOBAL_VAR" ELSE "TYPE_GLOBAL_CONST", valType |-> valType]

\* RelocationType, without NONE = -1.
RelocationType ==
    [FUNCTION_INDEX_LEB  |-> 0, TABLE_INDEX_SLEB   |-> 1, TABLE_INDEX_I32 |-> 2,
     MEMORY_ADDR_LEB     |-> 3, MEMORY_ADDR_SLEB   |-> 4, MEMORY_ADDR_I32 |-> 5,
     TYPE_INDEX_LEB      |-> 6, GLOBAL_INDEX_LEB   |-> 7,
     FUNCTION_OFFSET_I32 |-> 8, SECTION_OFFSET_I32 |-> 9,
     EVENT_INDEX_LEB     |-> 10, GLOBAL_INDEX_I32  |-> 11]

Relocation(type, index, addend) == [type |-> type, index |-> index, addend |-> addend]
NoRelocation == Relocation("NONE", 0, 0)

-----------------------------------------------------------------------------
(* Instructions.                                                           *)

Simple(k) == [k |-> k]  \* RETURN, NOP, DROP, UNREACHABLE, REF_IS_NULL, MEM_SIZE ...

\* INST_I32, INST_I64, INST_F32, INST_F64 and INST_MEM_*.
Numeric(type, op, suffix) == [k |-> "NUMERIC", type |-> type, op |-> op, suffix |-> suffix]
Memory(type, op, align, offset) ==
    [k |-> "MEMORY", type |-> type, op |-> op, align |-> align, offset |-> offset]

\* The relocation of an INST_CONST_I32 is never written: it is left out.
ConstI32(value) == [k |-> "CONST_I32", value |-> value]
ConstI64(value) == [k |-> "CONST_I64", value |-> value]
\* bytes is the number as IEEE 754 bytes, least significant first.
ConstF(type, bytes) == [k |-> "CONST_F", type |-> type, bytes |-> bytes]

\* INST_LOCAL_*, INST_GLOBAL_*, INST_TABLE_*, INST_BR and INST_BR_IF: a number.
Indexed(k, index) == [k |-> k, index |-> index]
TableCopy(srce, dest) == [k |-> "TABLE_COPY", srce |-> srce, dest |-> dest]

\* A block type is a function type, a value type or nothing.
BlockVal(type) == [k |-> "TYPE_VAL", type |-> type]
Block(k, type, list) == [k |-> k, type |-> type, list |-> list]  \* BLOCK and LOOP
If(type, then, else) == [k |-> "IF", type |-> type, then |-> then, else |-> else]
BrTable(labels, label) == [k |-> "BR_TABLE", labels |-> labels, label |-> label]

\* func is where the called function is: in _imports or in _funcs.
Call(func, reloc) == [k |-> "CALL", func |-> func, reloc |-> reloc]
CallIndirect(type, table) == [k |-> "CALL_INDIRECT", type |-> type, table |-> table]
RefFunc(func)     == [k |-> "REF_FUNC", func |-> func]
RefNull(refType)  == [k |-> "REF_NULL", refType |-> refType]
Select(valTypes)  == [k |-> "SELECT", valTypes |-> valTypes]

ImportAt(i) == [in |-> "imports", at |-> i]
FuncAt(i)   == [in |-> "funcs", at |-> i]

-----------------------------------------------------------------------------
(* What a module is made of.                                               *)

Local(type, id) == [type |-> type, id |-> id]

Function(type, locals, localsSize, body, id, symbol) ==
    [type |-> type, locals |-> locals, localsSize |-> localsSize, body |-> body,
     id |-> id, symbol |-> symbol]

Import(module, name, descriptor, id, symbol) ==
    [module |-> module, name |-> name, descriptor |-> descriptor, id |-> id,
     symbol |-> symbol]

Export(name, descriptor) == [name |-> name, descriptor |-> descriptor]

SymbolFlag == [BINDING_WEAK |-> 1, BINDING_LOCAL |-> 2, VISIBILITY_HIDDEN |-> 4,
               UNDEFINED |-> 16, EXPORTED |-> 32, EXPLICIT_NAME |-> 64, NO_STRIP |-> 128]

\* SymbolKind::FUNCTION with a SYMBOL_OBJECT, whose name is a sequence of at
\* most one name, and SymbolKind::DATA with a SYMBOL_DATA.
Symbol(flags, func, name) ==
    [k |-> "FUNCTION", flags |-> flags, func |-> func, name |-> name]
DataSymbol(flags, name, index, offset, size) ==
    [k |-> "DATA", flags |-> flags, name |-> name, index |-> index,
     offset |-> offset, size |-> size]

\* _mode is DATA_PASSIVE, or DATA_ACTIVE with a memory and an offset.
Data(init, mode) == [init |-> init, mode |-> mode]
Passive == [k |-> "DATA_PASSIVE"]
Active(memory, offset) == [k |-> "DATA_ACTIVE", memory |-> memory, offset |-> offset]

EmptyModule ==
    [types |-> <<>>, funcs |-> <<>>, tables |-> <<>>, mems |-> <<>>, datas |-> <<>>,
     imports |-> <<>>, exports |-> <<>>, start |-> <<>>, symbols |-> <<>>,
     relocSizeCode |-> 0, relocSizeData |-> 0]

\* v_index::makeId.  Of a node that was never made some number is read: 0 is
\* the one of memory that was never written.
IdOf(m, func) == IF func.at \in DOMAIN m[func.in] THEN m[func.in][func.at].id ELSE 0
=============================================================================
