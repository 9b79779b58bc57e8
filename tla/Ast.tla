-------------------------------- MODULE Ast ---------------------------------
(***************************************************************************)
(* The builder of the abstract syntax tree (ast::state::Builder), which    *)
(* reads the tree of the parser from its end to its beginning.             *)
(*                                                                         *)
(* An AST node is a record with its kind k and one field per child; a      *)
(* child is a node, a sequence of nodes (a range of the node pool) or None *)
(* (an empty option).  Where the builder asserts, the node is Asserted,    *)
(* and a range that is not filled exactly holds Stray.                     *)
(***************************************************************************)
EXTENDS Naturals, Sequences, SequencesExt

None     == [k |-> "NONE"]
Asserted == [k |-> "ASSERT"]
Stray    == [k |-> "STRAY"]

-----------------------------------------------------------------------------
(* prs::Reader: the subtree that ends at head, inside the nodes after tail. *)

TreeReader(tree) == [head |-> Len(tree) - 1, tail |-> 1]

Look(tree, r) == tree[r.head]

Before(tree, r) == r.head - tree[r.head].size - 1

AdvanceTree(tree, r) == [r EXCEPT !.head = Before(tree, r)]

IsValid(r) == r.head > r.tail

IsValidNext(tree, r) == Before(tree, r) > r.tail

SubReader(tree, r) == [head |-> r.head - 1, tail |-> Before(tree, r)]

ReaderSize(tree, r) == tree[r.head + 1].childCount

\* The readers a loop of advance goes through, the last subtree first.
RECURSIVE Backward(_, _)
Backward(tree, r) ==
    IF IsValid(r) THEN <<r>> \o Backward(tree, AdvanceTree(tree, r)) ELSE <<>>

\* A range of size nodes filled from its end.
Fill(size, items) == IF Len(items) = size THEN Reverse(items) ELSE <<Stray>>

-----------------------------------------------------------------------------
(* Expressions and scopes.                                                 *)

MakeLexeme(tree, r) == [k |-> "LEXEME", index |-> Look(tree, r).start]

MakeIdentifier(tree, r) ==
    IF Look(tree, r).kind = "IDENTIFIER"
    THEN [k |-> "IDENTIFIER", lexeme |-> MakeLexeme(tree, r), status |-> "ASTED"]
    ELSE Asserted

MakeInteger(tree, r) == [k |-> "LIT_INTEGER", lexeme |-> MakeLexeme(tree, r)]

MakePattern(tree, r) ==
    IF Look(tree, r).kind = "IDENTIFIER"
    THEN [k |-> "PATTERN", variable |-> MakeIdentifier(tree, r)]
    ELSE Asserted

MakeType(tree, r) == [k |-> "TYPE", name |-> MakeIdentifier(tree, r)]

(* Slip: variable and type are swapped. *)
MakeTypeClaimSwapped(tree, r) ==
    LET next == AdvanceTree(tree, r)
    IN  IF IsValid(next)
        THEN [k |-> "TYPE_CLAIM", variable |-> MakeIdentifier(tree, r),
              type |-> MakeType(tree, next)]
        ELSE Asserted

\* The type stands behind the variable and is read first.
MakeTypeClaim(tree, r) ==
    LET next == AdvanceTree(tree, r)
    IN  IF IsValid(next)
        THEN [k |-> "TYPE_CLAIM", variable |-> MakeIdentifier(tree, next),
              type |-> MakeType(tree, r)]
        ELSE Asserted

MakeDclVariable(tree, r) ==
    [k |-> "DCL_VARIABLE", typeClaim |-> MakeTypeClaim(tree, r), status |-> "ASTED"]

RECURSIVE MakeExpression(_, _)
RECURSIVE MakeBinop(_, _)

MakeBinop(tree, r) ==
    LET op  == AdvanceTree(tree, r)
        lhs == AdvanceTree(tree, op)
    IN  IF IsValid(op) /\ IsValid(lhs)
        THEN [k        |-> "EXP_BINOP",
              rhs      |-> MakeExpression(tree, r),
              operator |-> MakeLexeme(tree, op),
              lhs      |-> IF IsValidNext(tree, lhs) THEN MakeBinop(tree, lhs)
                                                     ELSE MakeExpression(tree, lhs),
              status   |-> "ASTED"]
        ELSE Asserted

MakeAssignment(tree, r) ==
    LET op  == AdvanceTree(tree, r)
        lhs == AdvanceTree(tree, op)
    IN  IF IsValid(op) /\ IsValid(lhs)
        THEN [k |-> "EXP_BINOP", rhs |-> MakeExpression(tree, r),
              operator |-> MakeLexeme(tree, op), lhs |-> MakePattern(tree, lhs),
              status |-> "ASTED"]
        ELSE Asserted

\* The callee is the first child, every other one an argument.
MakeFunctionCall(tree, r) ==
    LET back == Backward(tree, r)
        args == SubSeq(back, 1, Len(back) - 1)
    IN  [k         |-> "FUN_CALL",
         arguments |-> Fill(ReaderSize(tree, r) - 1,
                            [i \in DOMAIN args |->
                                [k |-> "ANY", value |-> MakeExpression(tree, args[i])]]),
         callee    |-> MakeIdentifier(tree, Last(back))]

MakeExpression(tree, r) ==
    LET kind == Look(tree, r).kind
    IN  CASE kind = "IDENTIFIER"  -> MakeIdentifier(tree, r)
          [] kind = "LIT_INTEGER" -> MakeInteger(tree, r)
          [] kind = "EXP_BINOP"   -> MakeBinop(tree, SubReader(tree, r))
          [] kind = "EXP_ASSIGN"  -> MakeAssignment(tree, SubReader(tree, r))
          [] kind = "FUN_CALL"    -> MakeFunctionCall(tree, SubReader(tree, r))
          [] OTHER                -> Asserted

IsExpression(kind) ==
    kind \in {"FUN_CALL", "EXP_BINOP", "EXP_ASSIGN", "LIT_INTEGER", "IDENTIFIER"}

RECURSIVE MakeScope(_, _)

MakeScopeVariant(tree, r) ==
    LET kind == Look(tree, r).kind
    IN  [k     |-> "ANY",
         value |->
            CASE kind = "SCOPE"        -> MakeScope(tree, r)
              [] kind = "DCL_VARIABLE" -> MakeDclVariable(tree, SubReader(tree, r))
              [] kind = "STM_RETURN"   ->
                    [k |-> "STM_RETURN",
                     expression |-> MakeExpression(tree, SubReader(tree, r))]
              [] IsExpression(kind)    -> MakeExpression(tree, r)
              [] OTHER                 -> Asserted]

MakeScope(tree, sup) ==
    LET r    == SubReader(tree, sup)
        back == Backward(tree, r)
    IN  [k        |-> "SCOPE",
         variants |-> Fill(ReaderSize(tree, r),
                           [i \in DOMAIN back |-> MakeScopeVariant(tree, back[i])])]

-----------------------------------------------------------------------------
(* Definitions, imports and modules.                                       *)

\* Arguments and members: two identifiers each, so every other reader is the
\* end of one; Make is what is made of it.
Claims(tree, r, Make(_)) ==
    LET back == Backward(tree, r)
    IN  Fill(ReaderSize(tree, r) \div 2,
             [i \in 1..((Len(back) + 1) \div 2) |-> Make(back[2 * i - 1])])

MakeArguments(tree, sup) ==
    Claims(tree, SubReader(tree, sup), LAMBDA r : MakeDclVariable(tree, r))

MakeMembers(tree, sup) ==
    Claims(tree, SubReader(tree, sup), LAMBDA r : MakeTypeClaim(tree, r))

MakeClass(tree, sup) ==
    LET members == SubReader(tree, sup)
        name    == AdvanceTree(tree, members)
    IN  [k |-> "DEF_CLASS", members |-> MakeMembers(tree, members),
         name |-> MakeIdentifier(tree, name), status |-> "ASTED"]

MakeFunction(tree, sup) ==
    LET body       == SubReader(tree, sup)
        hasBody    == Look(tree, body).kind = "SCOPE"
        type       == IF hasBody THEN AdvanceTree(tree, body) ELSE body
        hasType    == Look(tree, type).kind = "IDENTIFIER"
        arguments  == IF hasType THEN AdvanceTree(tree, type) ELSE type
        name       == AdvanceTree(tree, arguments)
    IN  [k          |-> "DEF_FUNCTION",
         body       |-> IF hasBody THEN MakeScope(tree, body) ELSE None,
         returnType |-> IF hasType THEN MakeType(tree, type) ELSE None,
         arguments  |-> MakeArguments(tree, arguments),
         name       |-> MakeIdentifier(tree, name),
         status     |-> "ASTED"]

MakeImport(tree, sup) ==
    [k |-> "DCL_IMPORT", path |-> MakeExpression(tree, SubReader(tree, sup)),
     status |-> "ASTED"]

\* A definition with a child before the class or the function is exported.
MakeDefinition(tree, sup) ==
    LET r == SubReader(tree, sup)
    IN  [k     |-> "DEFINITION",
         value |-> CASE Look(tree, r).kind = "DEF_CLASS"    -> MakeClass(tree, r)
                     [] Look(tree, r).kind = "DEF_FUNCTION" -> MakeFunction(tree, r)
                     [] OTHER                               -> Asserted,
         role  |-> IF IsValidNext(tree, r) THEN "EXPORTED" ELSE "LOCAL"]

OfKind(tree, back, kinds) ==
    SelectSeq(back, LAMBDA r : Look(tree, r).kind \in kinds)

ModuleElements == {"IDENTIFIER", "EXP_BINOP", "DEFINITION", "DCL_IMPORT", "MODULE"}

\* Definitions and imports are kept in the order they are read, the last one
\* first; the modules in the order of the source.
RECURSIVE MakeModule(_, _)
MakeModule(tree, r) ==
    LET back        == Backward(tree, r)
        paths       == OfKind(tree, back, {"IDENTIFIER", "EXP_BINOP"})
        definitions == OfKind(tree, back, {"DEFINITION"})
        imports     == OfKind(tree, back, {"DCL_IMPORT"})
        modules     == Reverse(OfKind(tree, back, {"MODULE"}))
    IN  IF \E i \in DOMAIN back : Look(tree, back[i]).kind \notin ModuleElements
        THEN Asserted
        ELSE [k           |-> "MODULE",
              path        |-> IF paths = <<>> THEN None
                                              ELSE MakeExpression(tree, Last(paths)),
              definitions |-> [i \in DOMAIN definitions |->
                                  MakeDefinition(tree, definitions[i])],
              imports     |-> [i \in DOMAIN imports |-> MakeImport(tree, imports[i])],
              modules     |-> [i \in DOMAIN modules |->
                                  MakeModule(tree, SubReader(tree, modules[i]))],
              status      |-> "ASTED"]

BuildAst(tree) == MakeModule(tree, TreeReader(tree))
=============================================================================
