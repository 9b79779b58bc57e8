------------------------------- MODULE Parser -------------------------------
(***************************************************************************)
(* The parser of dmit (prs::state::Builder): combinators over the tokens   *)
(* of the lexer, a tree written in post-order while they run, and the sets *)
(* of errors kept by distance to the end of the input.                     *)
(*                                                                         *)
(* A parser is a function with side effects: when an alternative fails,    *)
(* the reader goes back, but what the alternative wrote does not, unless a *)
(* tree writer on the way cuts it off.  Run keeps that: it returns the     *)
(* state m of the builder in both cases.                                   *)
(*                                                                         *)
(*   pos     the place of the reader (lex::Reader::_head)                  *)
(*   m.tree  the nodes, in post-order (prs::state::Tree)                   *)
(*   m.kids  Stack::_childCount of the innermost open tree writer          *)
(*   m.kind  State::_treeNodeKindOpt                                       *)
(*   m.errs  the sets of errors (error::SetOfSet)                          *)
(***************************************************************************)
EXTENDS Naturals, Sequences, TLC, SequencesExt

-----------------------------------------------------------------------------
(* The reader of tokens.  Every sequence of tokens ends with END_OF_INPUT, *)
(* and the START_OF_INPUT the reader begins after is left out.             *)

Blank == {"WHITESPACE", "COMMENT"}

SkipBlanks(toks, p) ==
    CHOOSE q \in p..Len(toks) :
        /\ toks[q] \notin Blank
        /\ \A i \in p..(q - 1) : toks[i] \in Blank

Advance(toks, p) == SkipBlanks(toks, p + 1)

IsEoi(toks, p) == p = Len(toks)

Offset(toks, p) == Len(toks) - p

-----------------------------------------------------------------------------
(* The tree and the errors.                                                *)

EndOfTree == [kind |-> "END_OF_TREE", size |-> 0, childCount |-> 0,
              start |-> 0, stop |-> 0]

AddNode(tree, kind, first, childCount, start, stop) ==
    Append(tree, [kind |-> kind, size |-> Len(tree) - first,
                  childCount |-> childCount, start |-> start, stop |-> stop])

\* A node of variadic arity is left out when it would have one child.  The
\* comparison is one of unsigned numbers: without a child, size - 1 is the
\* largest of them and the node is written.
AddNodeVariadic(tree, kind, first, childCount, start, stop) ==
    LET size == Len(tree) - first
    IN  IF size = 0 \/ Last(tree).size < size - 1
        THEN AddNode(tree, kind, first, childCount, start, stop)
        ELSE tree

NoOffset == 1000000 \* the largest uint32_t: further than any token

NoErrors == [offset |-> NoOffset, errors |-> {}]

\* error::Set::push: only the errors nearest to the end of the input stay.
Push(errs, error, offset) ==
    LET set == Last(errs)
    IN  IF offset < set.offset
        THEN ReplaceAt(errs, Len(errs), [offset |-> offset, errors |-> {error}])
        ELSE ReplaceAt(errs, Len(errs), [set EXCEPT !.errors = @ \cup {error}])

IsPushed(errs, offset) == offset <= Last(errs).offset

CleanUp(errs) == ReplaceAt(errs, Len(errs), NoErrors)

Recover(errs) == Append(errs, NoErrors)

-----------------------------------------------------------------------------
(* Parsers as data.                                                        *)

tok(t)  == [op |-> "tok", t |-> t]
seq(ps) == [op |-> "seq", ps |-> ps]
alt(ps) == [op |-> "alt", ps |-> ps]
rep(p)  == [op |-> "rep", p |-> p]
opt(p)  == [op |-> "opt", p |-> p]
skp(ts) == [op |-> "skp", ts |-> ts]
the(n)  == [op |-> "the", n |-> n]

\* makeParserToken and makeParserTokenUnary: a token that is checked, and one
\* that is a leaf of the tree as well.
check(t) == [op |-> "check", t |-> t]
leaf(t)  == [op |-> "leaf", t |-> t]

\* makeParser, makeParserRecoverable, makeParserUnary and makeParserVariadic.
plain(p)          == [hook |-> "plain", kind |-> "", p |-> p]
recoverable(p)    == [hook |-> "recoverable", kind |-> "", p |-> p]
unary(kind, p)    == [hook |-> "unary", kind |-> kind, p |-> p]
variadic(kind, p) == [hook |-> "variadic", kind |-> kind, p |-> p]

identifier == leaf("IDENTIFIER")

ListOf(p) == opt(seq(<<p, rep(seq(<<check("COMMA"), p>>))>>))

ExpressionRules ==
    [opPath       |-> unary("EXP_OPERATOR", check("DOT")),
     path         |-> variadic("EXP_BINOP",
                        seq(<<identifier, rep(seq(<<the("opPath"), the("path")>>))>>)),
     posAtom      |-> plain(seq(<<opt(check("PLUS")),
                        alt(<<the("path"), leaf("LIT_INTEGER"), leaf("LIT_DECIMAL"),
                              seq(<<check("PAR_LEFT"), the("expression"),
                                    check("PAR_RIGHT")>>)>>)>>)),
     negAtom      |-> unary("EXP_OPPOSE", seq(<<check("MINUS"), the("posAtom")>>)),
     atom         |-> plain(alt(<<the("posAtom"), the("negAtom")>>)),
     opProduct    |-> unary("EXP_OPERATOR",
                        alt(<<check("STAR"), check("SLASH"), check("PERCENT")>>)),
     product      |-> variadic("EXP_BINOP",
                        seq(<<the("atom"), rep(seq(<<the("opProduct"), the("atom")>>))>>)),
     opSum        |-> unary("EXP_OPERATOR", alt(<<check("PLUS"), check("MINUS")>>)),
     sum          |-> variadic("EXP_BINOP",
                        seq(<<the("product"), rep(seq(<<the("opSum"), the("product")>>))>>)),
     opComparison |-> unary("EXP_OPERATOR",
                        alt(<<check("KET_LEFT"), check("KET_RIGHT"),
                              check("KET_LEFT_EQUAL"), check("KET_RIGHT_EQUAL")>>)),
     comparison   |-> variadic("EXP_BINOP",
                        seq(<<the("sum"), opt(seq(<<the("opComparison"), the("sum")>>))>>)),
     opAssign     |-> unary("EXP_OPERATOR",
                        alt(<<check("EQUAL"), check("PLUS_EQUAL"), check("MINUS_EQUAL"),
                              check("STAR_EQUAL"), check("SLASH_EQUAL"),
                              check("PERCENT_EQUAL")>>)),
     assignment   |-> variadic("EXP_ASSIGN",
                        seq(<<the("comparison"),
                              opt(seq(<<the("opAssign"), the("assignment")>>))>>)),
     funCall      |-> unary("FUN_CALL",
                        seq(<<identifier, check("PAR_LEFT"), ListOf(the("expression")),
                              check("PAR_RIGHT")>>)),
     expression   |-> plain(alt(<<the("funCall"), the("assignment")>>))]

Keyword == {"FUNC", "CLASS", "MODULE", "EXPORT", "IMPORT"}

ScopeRules ==
    [stmReturn    |-> unary("STM_RETURN", seq(<<check("RETURN"), the("expression")>>)),
     typeClaim    |-> plain(seq(<<identifier, check("COLON"), identifier>>)),
     dclVariable  |-> unary("DCL_VARIABLE", seq(<<check("LET"), the("typeClaim")>>)),
     rawScopeElem |-> plain(seq(<<alt(<<the("dclVariable"), the("stmReturn"),
                                        the("expression"), seq(<<>>)>>),
                                  check("SEMI_COLON")>>)),
     skpScopeElem |-> plain(seq(<<skp(Keyword \cup {"SEMI_COLON", "BRA_LEFT", "BRA_RIGHT"}),
                                  opt(tok("SEMI_COLON"))>>)),
     rcvScopeElem |-> recoverable(alt(<<the("rawScopeElem"), the("skpScopeElem")>>)),
     rawScope     |-> unary("SCOPE",
                        seq(<<check("BRA_LEFT"),
                              rep(alt(<<the("rcvScopeElem"), the("rawScope")>>)),
                              check("BRA_RIGHT")>>)),
     skpScope     |-> plain(skp(Keyword)),
     rcvScope     |-> recoverable(alt(<<the("rawScope"), the("skpScope")>>)),
     scope        |-> variadic("SCOPE", the("rcvScope"))]

FunctionRules ==
    [funArguments |-> unary("FUN_ARGUMENTS",
                        seq(<<check("PAR_LEFT"), ListOf(the("typeClaim")),
                              check("PAR_RIGHT")>>)),
     rawFunction  |-> unary("DEF_FUNCTION",
                        seq(<<check("FUNC"), identifier, the("funArguments"),
                              opt(seq(<<check("MINUS_KET_RIGHT"), identifier>>)),
                              alt(<<the("scope"), check("SEMI_COLON")>>)>>)),
     skpFunction  |-> plain(seq(<<opt(tok("FUNC")),
                                  skp(Keyword \cup {"BRA_RIGHT", "SEMI_COLON"}),
                                  opt(alt(<<tok("SEMI_COLON"), tok("BRA_RIGHT")>>))>>)),
     rcvFunction  |-> recoverable(alt(<<the("rawFunction"), the("skpFunction")>>))]

ClassRules ==
    [clsMembers   |-> unary("CLS_MEMBERS",
                        seq(<<check("BRA_LEFT"),
                              rep(seq(<<the("typeClaim"), check("SEMI_COLON")>>)),
                              check("BRA_RIGHT")>>)),
     rawClass     |-> unary("DEF_CLASS",
                        seq(<<check("CLASS"), identifier, the("clsMembers")>>)),
     skpClass     |-> plain(seq(<<opt(tok("CLASS")), skp(Keyword \cup {"BRA_RIGHT"}),
                                  opt(tok("BRA_RIGHT"))>>)),
     rcvClass     |-> recoverable(alt(<<the("rawClass"), the("skpClass")>>))]

DefinitionRules ==
    [rawExport     |-> unary("DCL_EXPORT", check("EXPORT")),
     rawDefinition |-> unary("DEFINITION",
                         seq(<<opt(the("rawExport")),
                               alt(<<the("rcvFunction"), the("rcvClass")>>)>>)),
     skpDefinition |-> plain(seq(<<opt(tok("EXPORT")), skp(Keyword \cup {"BRA_RIGHT"}),
                                   opt(tok("BRA_RIGHT"))>>)),
     rcvDefinition |-> recoverable(alt(<<the("rawDefinition"), the("skpDefinition")>>))]

ModuleRules ==
    LET elements == rep(alt(<<the("rcvDefinition"), the("rcvImport"), the("rawModule")>>))
        stop     == Keyword \cup {"SEMI_COLON", "BRA_RIGHT"}
    IN  [rawImport  |-> unary("DCL_IMPORT",
                          seq(<<check("IMPORT"), the("path"), check("SEMI_COLON")>>)),
         skpImport  |-> plain(seq(<<opt(tok("IMPORT")), skp(stop),
                                    opt(tok("SEMI_COLON"))>>)),
         rcvImport  |-> recoverable(alt(<<the("rawImport"), the("skpImport")>>)),
         rawModule  |-> unary("MODULE",
                          seq(<<check("MODULE"), the("path"),
                                alt(<<seq(<<check("SEMI_COLON"), elements>>),
                                      seq(<<check("BRA_LEFT"), elements,
                                            check("BRA_RIGHT")>>)>>)>>)),
         skpModule  |-> plain(seq(<<opt(tok("MODULE")), skp(stop),
                                    opt(alt(<<tok("SEMI_COLON"), tok("BRA_RIGHT")>>))>>)),
         rcvModule  |-> recoverable(alt(<<the("rawModule"), the("skpModule")>>)),
         rootModule |-> unary("MODULE",
                          rep(alt(<<the("rcvDefinition"), the("rcvImport"),
                                    the("rcvModule")>>)))]

Grammar ==
    ExpressionRules @@ ScopeRules @@ FunctionRules @@ ClassRules @@ DefinitionRules
        @@ ModuleRules
-----------------------------------------------------------------------------
(* Running a parser.  Done is what a parser returns: whether it succeeded, *)
(* where the reader is, and the state it leaves.                           *)

Done(ok, pos, m) == [ok |-> ok, pos |-> pos, m |-> m]

\* The combinator tok.
RunTok(toks, t, pos, m) ==
    IF toks[pos] = t THEN Done(TRUE, Advance(toks, pos), m) ELSE Done(FALSE, pos, m)

(* Slip: a token that is there clears errors it did not push. *)
RunCheckForgets(toks, t, pos, m) ==
    LET opened == [m EXCEPT !.errs = IF IsPushed(@, Offset(toks, pos))
                                     THEN Push(@, <<t, toks[pos], m.kind>>, Offset(toks, pos))
                                     ELSE @]
        result == RunTok(toks, t, pos, opened)
    IN  IF result.ok THEN [result EXCEPT !.m.errs = CleanUp(@)] ELSE result

\* error::token_check::Open and Close around tok: the error is noted before
\* the token is looked at and taken back when the token is there.
RunCheck(toks, t, pos, m) ==
    LET pushed == IsPushed(m.errs, Offset(toks, pos))
        opened == IF pushed
                  THEN [m EXCEPT !.errs = Push(@, <<t, toks[pos], m.kind>>, Offset(toks, pos))]
                  ELSE m
        result == RunTok(toks, t, pos, opened)
    IN  IF result.ok /\ pushed THEN [result EXCEPT !.m.errs = CleanUp(@)] ELSE result

(* Slip: nothing is ever recovered. *)
CloseRecoverableNever(toks, pos, result) == result

\* error::recoverable::Close.
CloseRecoverable(toks, pos, result) ==
    IF result.ok /\ Last(result.m.errs).offset <= Offset(toks, pos)
    THEN [result EXCEPT !.m.errs = Recover(@)]
    ELSE result

\* tree::writer::Open: the nodes below are counted from zero.
OpenWriter(kind, m) == [m EXCEPT !.kids = 0, !.kind = kind]

(* Slip: the nodes of a parser that failed stay. *)
CloseWriterKeeps(toks, arity, kind, pos, m, result) ==
    [result EXCEPT
        !.m.tree = IF ~result.ok
                   THEN @
                   ELSE IF arity = "unary"
                        THEN AddNode(@, kind, Len(m.tree), result.m.kids,
                                     Offset(toks, pos), Offset(toks, result.pos))
                        ELSE AddNodeVariadic(@, kind, Len(m.tree), result.m.kids,
                                             Offset(toks, pos), Offset(toks, result.pos)),
        !.m.kids = IF result.ok THEN m.kids + 1 ELSE m.kids,
        !.m.kind = m.kind]

\* tree::writer::Close: the nodes written since Open become the children of a
\* new one, or are cut off when the parser failed.
CloseWriter(toks, arity, kind, pos, m, result) ==
    LET add(tree) == IF arity = "unary"
                     THEN AddNode(tree, kind, Len(m.tree), result.m.kids,
                                  Offset(toks, pos), Offset(toks, result.pos))
                     ELSE AddNodeVariadic(tree, kind, Len(m.tree), result.m.kids,
                                          Offset(toks, pos), Offset(toks, result.pos))
    IN  [result EXCEPT
            !.m.tree = IF result.ok THEN add(@) ELSE SubSeq(@, 1, Len(m.tree)),
            !.m.kids = IF result.ok THEN m.kids + 1 ELSE m.kids,
            !.m.kind = m.kind]

\* The combinator skp: over at least one token, up to one of ts.
RunSkp(toks, ts, pos, m) ==
    IF IsEoi(toks, pos) \/ toks[pos] \in ts
    THEN Done(FALSE, pos, m)
    ELSE LET stops == {q \in (pos + 1)..Len(toks) :
                          \/ IsEoi(toks, q)
                          \/ toks[q] \in ts}
         IN  Done(TRUE, CHOOSE q \in stops : \A r \in stops : q <= r, m)

RECURSIVE Run(_, _, _, _)
RECURSIVE RunSeq(_, _, _, _)
RECURSIVE RunAlt(_, _, _, _)
RECURSIVE RunRep(_, _, _, _)

\* A parser of the pool: TParser::operator() with its pipelines.
RunRule(toks, rule, pos, m) ==
    CASE rule.hook = "plain" -> Run(toks, rule.p, pos, m)
      [] rule.hook = "recoverable" ->
            CloseRecoverable(toks, pos, Run(toks, rule.p, pos, m))
      [] OTHER ->
            CloseWriter(toks, rule.hook, rule.kind, pos, m,
                        Run(toks, rule.p, pos, OpenWriter(rule.kind, m)))

\* A leaf opens the writer, then the check, and closes them in that order.
RunLeaf(toks, t, pos, m) ==
    CloseWriter(toks, "unary", t, pos, m, RunCheck(toks, t, pos, OpenWriter(t, m)))

RunSeq(toks, ps, pos, m) ==
    IF ps = <<>>
    THEN Done(TRUE, pos, m)
    ELSE LET first == Run(toks, Head(ps), pos, m)
         IN  IF first.ok THEN RunSeq(toks, Tail(ps), first.pos, first.m) ELSE first

RunAlt(toks, ps, pos, m) ==
    IF ps = <<>>
    THEN Done(FALSE, pos, m)
    ELSE LET first == Run(toks, Head(ps), pos, m)
         IN  IF first.ok THEN first ELSE RunAlt(toks, Tail(ps), pos, first.m)

RunRep(toks, p, pos, m) ==
    IF IsEoi(toks, pos)
    THEN Done(TRUE, pos, m)
    ELSE LET first == Run(toks, p, pos, m)
         IN  IF first.ok THEN RunRep(toks, p, first.pos, first.m) ELSE Done(TRUE, pos, first.m)

Run(toks, p, pos, m) ==
    CASE p.op = "tok"   -> RunTok(toks, p.t, pos, m)
      [] p.op = "check" -> RunCheck(toks, p.t, pos, m)
      [] p.op = "leaf"  -> RunLeaf(toks, p.t, pos, m)
      [] p.op = "the"   -> RunRule(toks, Grammar[p.n], pos, m)
      [] p.op = "seq"   -> RunSeq(toks, p.ps, pos, m)
      [] p.op = "alt"   -> RunAlt(toks, p.ps, pos, m)
      [] p.op = "rep"   -> RunRep(toks, p.p, pos, m)
      [] p.op = "opt"   -> LET first == Run(toks, p.p, pos, m)
                           IN  IF first.ok THEN first ELSE Done(TRUE, pos, first.m)
      [] p.op = "skp"   -> RunSkp(toks, p.ts, pos, m)

-----------------------------------------------------------------------------
(* The builder.  _tree and _errors outlive a call; clear empties them.     *)

ClearState == [tree |-> <<EndOfTree>>, errs |-> <<NoErrors>>]

Build(state, toks) ==
    LET start  == SkipBlanks(toks, 1)
        result == RunRule(toks, Grammar["rootModule"], start,
                          [tree |-> state.tree, kids |-> 0, kind |-> "", errs |-> state.errs])
    IN  [tree |-> result.m.tree,
         errs |-> IF result.ok /\ IsEoi(toks, result.pos)
                  THEN CleanUp(result.m.errs)
                  ELSE result.m.errs]
=============================================================================
