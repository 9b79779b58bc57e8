----------------------------- MODULE MCFrontEnd -----------------------------
EXTENDS FrontEnd

i  == "IDENTIFIER"
n  == "LIT_INTEGER"
bl == "BRA_LEFT"
br == "BRA_RIGHT"
pl == "PAR_LEFT"
pr == "PAR_RIGHT"
sc == "SEMI_COLON"
cn == "COLON"

\* func i() {}
Empty == <<"FUNC", i, pl, pr, bl, br>>

\* func i(i:i, i:i) -> i { return i + i * n; }
Sum == <<"FUNC", i, pl, i, cn, i, "COMMA", i, cn, i, pr, "MINUS_KET_RIGHT", i, bl,
         "RETURN", i, "PLUS", i, "STAR", n, sc, br>>

\* func i() { let i:i; i = i; i(i, +n); {} }
Body == <<"FUNC", i, pl, pr, bl, "LET", i, cn, i, sc, i, "EQUAL", i, sc,
          i, pl, i, "COMMA", "PLUS", n, pr, sc, bl, br, br>>

\* func i() { i += (i < i) - n - i.i; }
Nested == <<"FUNC", i, pl, pr, bl, i, "PLUS_EQUAL", pl, i, "KET_LEFT", i, pr, "MINUS", n,
            "MINUS", i, "DOT", i, sc, br>>

\* export class i { i:i; i:i; } class i {}
Classes == <<"EXPORT", "CLASS", i, bl, i, cn, i, sc, i, cn, i, sc, br, "CLASS", i, bl, br>>

\* module i.i; import i; export func i() {}
Flat == <<"MODULE", i, "DOT", i, sc, "IMPORT", i, sc, "EXPORT", "FUNC", i, pl, pr, bl, br>>

\* module i { class i {} module i; } import i.i.i;
Tree == <<"MODULE", i, bl, "CLASS", i, bl, br, "MODULE", i, sc, br,
          "IMPORT", i, "DOT", i, "DOT", i, sc>>

\* module i; export func i(i:i) -> i; func i() {}
Declared == <<"MODULE", i, sc, "EXPORT", "FUNC", i, pl, i, cn, i, pr, "MINUS_KET_RIGHT", i,
              sc, "FUNC", i, pl, pr, bl, br>>

Programs == {Empty, Sum, Body, Nested, Classes, Flat, Tree, Declared}

\* The tokens an edit puts into a program.
Typed == {i, n, bl, br, pl, pr, sc, "COMMA", "DOT", "PLUS", "EQUAL", "FUNC", "CLASS",
          "EXPORT", "IMPORT", "MODULE", "RETURN", "WHITESPACE"}

Deleted(s) == {RemoveAt(s, p) : p \in DOMAIN s}
Replaced(s) == {ReplaceAt(s, p, t) : p \in DOMAIN s, t \in Typed}
Inserted(s) == {InsertAt(s, p, t) : p \in 1..(Len(s) + 1), t \in Typed}

Short == UNION {[1..l -> Typed] : l \in 0..2}

Edited == Programs \cup Short \cup UNION {Deleted(s) \cup Replaced(s) \cup Inserted(s) : s \in Programs}

-----------------------------------------------------------------------------
(* The bytes of these tokens, and files that are about the lexer.          *)

Spelling ==
    [IDENTIFIER |-> <<"a">>, LIT_INTEGER |-> <<"1">>, BRA_LEFT |-> <<"{">>, BRA_RIGHT |-> <<"}">>,
     PAR_LEFT |-> <<"(">>, PAR_RIGHT |-> <<")">>, SEMI_COLON |-> <<";">>, COLON |-> <<":">>,
     COMMA |-> <<",">>, DOT |-> <<".">>, PLUS |-> <<"+">>, MINUS |-> <<"-">>, STAR |-> <<"*">>,
     EQUAL |-> <<"=">>, PLUS_EQUAL |-> <<"+", "=">>, KET_LEFT |-> <<"<">>,
     MINUS_KET_RIGHT |-> <<"-", ">">>, WHITESPACE |-> <<"\n">>, FUNC |-> <<"f", "u", "n", "c">>,
     CLASS |-> <<"c", "l", "a", "s", "s">>,
     EXPORT |-> <<"e", "x", "p", "o", "r", "t">>, IMPORT |-> <<"i", "m", "p", "o", "r", "t">>,
     RETURN |-> <<"r", "e", "t", "u", "r", "n">>]
    @@ ("LET" :> <<"l", "e", "t">>) @@ ("MODULE" :> <<"m", "o", "d", "u", "l", "e">>)

\* Only these tokens make no longer one with what stands beside them.
Alone == {bl, br, pl, pr, sc, "COMMA", "WHITESPACE"}

Spelled(s) ==
    FlattenSeq([p \in DOMAIN s |->
        IF p > 1 /\ s[p] \notin Alone /\ s[p - 1] \notin Alone
        THEN <<" ">> \o Spelling[s[p]] ELSE Spelling[s[p]]])

MCAlpha == {"_", "a", "c", "d", "e", "f", "h", "i", "l", "m", "n", "o", "p", "r", "s", "t", "u", "w", "x"}
MCDigit == {"0", "1"}
MCOther == {" ", "\n", "(", ")", ";", ".", ",", "=", ":", "{", "}", "+", "-", "<", ">", "*", "/",
            "%", "!", "?", "~", "^", "|", "&", "[", "]", "\"", "'", "#"}

Upto(l, bytes) == UNION {[1..k -> bytes] : k \in 0..l}

\* Every two bytes, and the operators of three.
Anything == Upto(2, (MCOther \cup {"a", "1"}))
            \cup {<<a, a, b>> : a \in {"<", ">"}, b \in {"=", "<", ">", "a"}}
Comments == Upto(6, {"/", "*", "a"}) \cup {<<"/", "/">> \o s : s \in Upto(2, {"/", "\n", "a"})}
Texts    == Upto(7, {"'", "a"}) \cup Upto(3, {"\"", "a"})
Numbers  == Upto(5, {"1", ".", "e", "+"})
Keywords == {<<"i", "f">>, <<"e", "l", "s", "e">>, <<"w", "h", "i", "l", "e">>}
            \cup {Spelling[t] : t \in {"FUNC", "LET", "CLASS", "EXPORT", "IMPORT", "MODULE", "RETURN"}}
Wordlike == UNION {{k \o s : s \in {<<>>, <<"a">>, <<" ">>, <<"1">>}} : k \in Keywords}
            \cup {Front(k) : k \in Keywords}
            \cup {<<"'", "a", "'", "'", "a", "'">> \o k : k \in Keywords}
NoneOf   == {<<"'", "#", "n", "o", "n", "e", "'">> \o s : s \in {<<>>, <<"a">>, <<"'">>}}

\* Files that leave something open, and what may come after them.
Open  == {<<"/", "*", "/", "*">>, <<"'", "a", "'">>, <<"'", "a">>, <<"/", "/">>}
After == {<<"*", "/", "a">>, <<"/", "*", "*", "/">>, <<"'", "a", "'", "'", "a", "'">>, <<"i", "f">>}

MCSources ==
    {<<Spelled(s)>> : s \in Edited}
    \cup {<<s>> : s \in Anything \cup Comments \cup Texts \cup Numbers \cup Wordlike \cup NoneOf}
    \cup {<<s, t>> : s \in Open \cup {Spelled(Body), <<"{">>}, t \in After \cup {Spelled(Empty)}}

\* Programs of the grammar, one of which declares a function.
MCDeclared == {<<Spelled(s)>> : s \in Programs}
=============================================================================
