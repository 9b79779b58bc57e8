------------------------------ MODULE FrontEnd ------------------------------
(***************************************************************************)
(* From bytes to an abstract syntax tree (ast::FromPathAndSource): one     *)
(* thread lexes a file, parses its tokens, builds its tree and clears the  *)
(* lexer and the parser, then takes the next file.  The builder of the     *)
(* tree gets what the parser wrote, whether or not the parser noted        *)
(* errors.                                                                 *)
(***************************************************************************)
EXTENDS Lexer, Parser, Ast

VARIABLES
    prs,      \* prs::State: the tree and the errors
    ast,      \* the tree the file became
    step      \* what the thread does next

vars == <<lexer, prs, ast, step>>

Init ==
    /\ InitLexer
    /\ prs = ClearState
    /\ ast = None
    /\ step = "lex"

Scan ==
    /\ step = "lex"
    /\ LexerStep
    /\ step' = IF node' = "lexed" THEN "parse" ELSE "lex"
    /\ UNCHANGED <<prs, ast>>

\* The reader of tokens begins after START_OF_INPUT.
ToParse == Tail(tokens)

Parse ==
    /\ step = "parse"
    /\ prs' = Build(prs, ToParse)
    /\ step' = "build"
    /\ UNCHANGED <<lexer, ast>>

MakeAst ==
    /\ step = "build"
    /\ ast' = BuildAst(prs.tree)
    /\ step' = "clear"
    /\ UNCHANGED <<lexer, prs>>

Clear ==
    /\ step = "clear"
    /\ ClearTokens
    /\ prs' = ClearState
    /\ ast' = None
    /\ step' = IF sources' = <<>> THEN "done" ELSE "lex"

\* After the last file nothing is left to do.
Finished == step = "done" /\ UNCHANGED vars

Next == Scan \/ Parse \/ MakeAst \/ Clear \/ Finished

Spec == Init /\ [][Next]_vars

\* Nothing the thread calls waits: it goes on until the last file is done.
\* (Every action but Finished changes the state, so this is WF_vars(Next).)
Fairness == []<><<TRUE>>_vars \/ <>[](step = "done")
FairSpec == Spec /\ Fairness

-----------------------------------------------------------------------------
(* What the parser should have found: the grammar read without the rules   *)
(* that recover from errors, and without a tree.  far is the last place    *)
(* where a token was missed.                                               *)

Later(a, b) == IF a > b THEN a ELSE b

RECURSIVE Strict(_, _, _, _)
RECURSIVE StrictSeq(_, _, _, _)
RECURSIVE StrictAlt(_, _, _, _)
RECURSIVE StrictRep(_, _, _, _)

Tried(ok, pos, far) == [ok |-> ok, pos |-> pos, far |-> far]

StrictRule(n) ==
    IF Grammar[n].hook = "recoverable" THEN Grammar[n].p.ps[1] ELSE Grammar[n].p

StrictSeq(toks, ps, pos, far) ==
    IF ps = <<>>
    THEN Tried(TRUE, pos, far)
    ELSE LET first == Strict(toks, Head(ps), pos, far)
         IN  IF first.ok THEN StrictSeq(toks, Tail(ps), first.pos, first.far) ELSE first

StrictAlt(toks, ps, pos, far) ==
    IF ps = <<>>
    THEN Tried(FALSE, pos, far)
    ELSE LET first == Strict(toks, Head(ps), pos, far)
         IN  IF first.ok THEN first ELSE StrictAlt(toks, Tail(ps), pos, first.far)

StrictRep(toks, p, pos, far) ==
    LET first == Strict(toks, p, pos, far)
    IN  IF ~IsEoi(toks, pos) /\ first.ok
        THEN StrictRep(toks, p, first.pos, first.far)
        ELSE Tried(TRUE, pos, IF IsEoi(toks, pos) THEN far ELSE first.far)

Strict(toks, p, pos, far) ==
    CASE p.op \in {"tok", "check", "leaf"} ->
            IF toks[pos] = p.t THEN Tried(TRUE, Advance(toks, pos), far)
                               ELSE Tried(FALSE, pos, Later(far, pos))
      [] p.op = "the" -> Strict(toks, StrictRule(p.n), pos, far)
      [] p.op = "seq" -> StrictSeq(toks, p.ps, pos, far)
      [] p.op = "alt" -> StrictAlt(toks, p.ps, pos, far)
      [] p.op = "rep" -> StrictRep(toks, p.p, pos, far)
      [] p.op = "opt" -> LET first == Strict(toks, p.p, pos, far)
                         IN  IF first.ok THEN first ELSE Tried(TRUE, pos, first.far)

\* Root modules recover as well, and are read as raw ones here.
Read(toks) ==
    Strict(toks, the("rootModule"), SkipBlanks(toks, 1), 1)

InLanguage(toks) == IsEoi(toks, Read(toks).pos)

\* A function that is declared only: its head, and a semicolon for its body.
Declares(toks) ==
    \E p \in DOMAIN toks :
        LET opening == StrictSeq(toks, SubSeq(Grammar["rawFunction"].p.ps, 1, 4), p, p)
        IN  opening.ok /\ toks[opening.pos] = "SEMI_COLON"

Clean == \A i \in DOMAIN prs.errs : prs.errs[i].errors = {}

-----------------------------------------------------------------------------
(* Properties.                                                             *)

\* Every file is lexed to its end: no node of the machine comes back to itself
\* without a byte in between, even where one reads ahead and starts anew from
\* a quote it has already read (lex/node.hpp, TNode<Token::QUOTE_SIMPLE>).
EveryFileIsDone == <>(sources = <<>>)

\* The last nodes of the subtrees below node i, found by their sizes.
ChildrenOf(tree, i) ==
    LET back == Backward(tree, [head |-> i - 1, tail |-> i - tree[i].size - 1])
    IN  [j \in DOMAIN back |-> back[j].head]

Parsed == step = "build"

CountsAreRight ==
    \A i \in DOMAIN prs.tree :
        prs.tree[i].childCount = Len(ChildrenOf(prs.tree, i))

SpansAreNested ==
    \A i \in DOMAIN prs.tree :
        LET kids == ChildrenOf(prs.tree, i)
        IN  \A j \in DOMAIN kids :
                /\ prs.tree[kids[j]].start <= prs.tree[i].start
                /\ prs.tree[kids[j]].stop >= prs.tree[i].stop
                /\ j > 1 => prs.tree[kids[j]].stop >= prs.tree[kids[j - 1]].start

\* tree::writer::Close: alternatives that fail leave nodes behind and go on
\* counting, and still the count of every node is the number of its children,
\* one node, the root, holds all the others, and in a program without errors
\* every node covers its children, in order.
TreeIsWellFormed ==
    Parsed =>
        /\ CountsAreRight
        /\ Last(prs.tree).size = Len(prs.tree) - 2
        /\ Clean => SpansAreNested

\* error::token_check and error::recoverable: the errors of alternatives that
\* were given up are taken back, the ones of the input are not: there is an
\* error exactly when the tokens are not a program of the grammar, but for
\* functions that are declared only (see DeclarationsAreAllowed).
ErrorsAreExact ==
    Parsed =>
        /\ Clean => InLanguage(ToParse)
        /\ InLanguage(ToParse) /\ ~Declares(ToParse) => Clean

\* The same without the exception: a program of the grammar has no error.  A
\* function may be declared without a body (prs/state.cpp:310), as the program
\* of a test does (test/data/gen/moduleA.in:7).  The run that checks this shows
\* that skpScope (:295) takes the semicolon first, as a body that went wrong.
DeclarationsAreAllowed ==
    Parsed /\ InLanguage(ToParse) => Clean

\* error::Set::push keeps the errors nearest to the end: the first error that
\* is reported is at the first token with which the input cannot go on, where
\* no function is declared only.
FirstErrorIsFarthest ==
    Parsed /\ ~Clean /\ ~Declares(ToParse) =>
        LET firsts == {i \in DOMAIN prs.errs : prs.errs[i].errors # {}}
            first  == CHOOSE i \in firsts : \A j \in firsts : i <= j
        IN  prs.errs[first].offset = Offset(ToParse, Read(ToParse).far)

\* What the builder of the AST has no case for: a sign, a decimal, and an
\* assignment to something else than a variable.
IsSupported(tree) ==
    \A i \in DOMAIN tree :
        /\ tree[i].kind \notin {"EXP_OPPOSE", "LIT_DECIMAL"}
        /\ tree[i].kind = "EXP_ASSIGN" =>
            tree[Last(ChildrenOf(tree, i))].kind = "IDENTIFIER"

\* The lexemes of an AST in the order of the source: what stands on the left
\* of an operator comes before it, a variable before its type.
RECURSIVE Lexemes(_)
LexemesOfAll(nodes) == FlattenSeq([i \in DOMAIN nodes |-> Lexemes(nodes[i])])
Lexemes(n) ==
    CASE n.k = "LEXEME"       -> <<n.index>>
      [] n.k \in {"IDENTIFIER", "LIT_INTEGER"} -> Lexemes(n.lexeme)
      [] n.k = "PATTERN"      -> Lexemes(n.variable)
      [] n.k = "TYPE"         -> Lexemes(n.name)
      [] n.k = "TYPE_CLAIM"   -> Lexemes(n.variable) \o Lexemes(n.type)
      [] n.k = "DCL_VARIABLE" -> Lexemes(n.typeClaim)
      [] n.k = "EXP_BINOP"    -> Lexemes(n.lhs) \o Lexemes(n.operator) \o Lexemes(n.rhs)
      [] n.k = "FUN_CALL"     -> Lexemes(n.callee) \o LexemesOfAll(n.arguments)
      [] n.k = "ANY"          -> Lexemes(n.value)
      [] n.k = "STM_RETURN"   -> Lexemes(n.expression)
      [] n.k = "SCOPE"        -> LexemesOfAll(n.variants)
      [] n.k = "DEF_CLASS"    -> Lexemes(n.name) \o LexemesOfAll(n.members)
      [] n.k = "DEF_FUNCTION" -> Lexemes(n.name) \o LexemesOfAll(n.arguments)
                                    \o Lexemes(n.returnType) \o Lexemes(n.body)
      [] n.k = "DEFINITION"   -> Lexemes(n.value)
      [] n.k = "DCL_IMPORT"   -> Lexemes(n.path)
      [] n.k = "NONE"         -> <<>>
      [] OTHER                -> <<0>>

\* The parts of a module are kept apart: its path, imports, definitions and
\* modules, each of which is a run of lexemes.
RECURSIVE Runs(_)
Runs(m) ==
    <<Lexemes(m.path)>> \o [i \in DOMAIN m.imports |-> Lexemes(m.imports[i])]
        \o [i \in DOMAIN m.definitions |-> Lexemes(m.definitions[i])]
        \o FlattenSeq([i \in DOMAIN m.modules |-> Runs(m.modules[i])])

Operator == {"DOT", "STAR", "SLASH", "PERCENT", "PLUS", "MINUS", "KET_LEFT", "KET_RIGHT",
             "KET_LEFT_EQUAL", "KET_RIGHT_EQUAL", "EQUAL", "PLUS_EQUAL", "MINUS_EQUAL",
             "STAR_EQUAL", "SLASH_EQUAL", "PERCENT_EQUAL"}

\* A plus sign in front of an atom has no node.
IsSign(toks, p) ==
    /\ toks[p] = "PLUS"
    /\ \A q \in 1..(p - 1) :
        Advance(toks, q) = p => toks[q] \notin {"IDENTIFIER", "LIT_INTEGER", "PAR_RIGHT"}

Words(toks) ==
    {Offset(toks, p) : p \in {q \in DOMAIN toks :
        \/ toks[q] \in {"IDENTIFIER", "LIT_INTEGER"}
        \/ toks[q] \in Operator /\ ~IsSign(toks, q)}}

\* ast::state::Builder: every name, literal and operator of a program without
\* errors is in the AST exactly once, in the order of the source, and no
\* reader goes past the subtree it was made for.
AstHoldsTheProgram ==
    step = "clear" /\ Clean /\ IsSupported(prs.tree) =>
        LET runs == Runs(ast)
            all  == FlattenSeq(runs)
        IN  /\ ToSet(all) = Words(ToParse)
            /\ IsInjective(all)
            /\ \A i \in DOMAIN runs : \A j \in 1..(Len(runs[i]) - 1) :
                runs[i][j] > runs[i][j + 1]
=============================================================================
