-------------------------------- MODULE Lexer --------------------------------
(***************************************************************************)
(* The lexer of dmit (lex::state::Builder): a machine of nodes over the    *)
(* bytes of a source.  A token has no text, only the offset, counted from  *)
(* the end of the source, of the byte after its last one.  The builder is  *)
(* used for one source after the other (clearState in between).            *)
(*                                                                         *)
(* A node is a match and its gotos, the first of which accepts the byte    *)
(* at the head is taken; SLASH_STAR, STAR_SLASH and QUOTE_SIMPLE are nodes *)
(* with code of their own.  FrontEnd takes the steps.                      *)
(***************************************************************************)
EXTENDS Integers, Sequences, SequencesExt, FiniteSetsExt, TLC

CONSTANTS
    Alpha,   \* the letters and "_"
    Digit,   \* the digits
    Other,   \* the other bytes
    Sources  \* sequences of sources, each one a sequence of bytes

Bytes == Alpha \cup Digit \cup Other

VARIABLES
    sources,  \* the sources that are still to be lexed, the first one now
    head,     \* src::Reader::_head
    node,     \* the node the machine is in, or one of Outside
    count,    \* State::_count, the open comments
    id,       \* State::_id, the delimiter of the data being read
    tokens,   \* State::_tokens
    offsets   \* State::_offsets

lexer == <<sources, head, node, count, id, tokens, offsets>>

source == Head(sources)
Size   == Len(source)

\* src::Reader over positions from 1 on.
HasByte == head <= Size
LookByte    == source[head]

\* An offset is a uint32_t: past the end it is the largest.
Wrap        == 2^16 \* stands for 2^32
OffsetAt(h) == (Size + 1 - h) % Wrap

-----------------------------------------------------------------------------
(* The nodes.                                                              *)

Space == {" ", "\n"}

\* The operators of one byte.
Simple == <<
    <<"(", "PAR_LEFT">>, <<")", "PAR_RIGHT">>, <<";", "SEMI_COLON">>, <<".", "DOT">>,
    <<",", "COMMA">>, <<"=", "EQUAL">>, <<":", "COLON">>, <<"{", "BRA_LEFT">>,
    <<"}", "BRA_RIGHT">>, <<"+", "PLUS">>, <<"-", "MINUS">>, <<"<", "KET_LEFT">>,
    <<">", "KET_RIGHT">>, <<"*", "STAR">>, <<"/", "SLASH">>, <<"%", "PERCENT">>,
    <<"!", "BANG">>, <<"?", "QUESTION">>, <<"~", "TILDE">>, <<"^", "CARET">>, <<"|", "PIPE">>,
    <<"&", "AMPERSAND">>, <<"[", "SQR_LEFT">>, <<"]", "SQR_RIGHT">>, <<"\"", "QUOTE_DOUBLE">>,
    <<"'", "QUOTE_SIMPLE">> >>

\* The operators of one more byte than another, and the starts of comments.
Begun ==
    [PLUS  |-> << <<"=", "PLUS_EQUAL">> >>,
     STAR  |-> << <<"=", "STAR_EQUAL">>, <<"/", "STAR_SLASH">> >>,
     SLASH |-> << <<"/", "COMMENT_LINE">>, <<"=", "SLASH_EQUAL">>, <<"*", "SLASH_STAR">> >>]

Longer ==
    Begun @@ ("PERCENT" :> << <<"=", "PERCENT_EQUAL">> >>) @@ ("CARET" :> << <<"=", "CARET_EQUAL">> >>)
    @@ ("MINUS" :> << <<">", "MINUS_KET_RIGHT">>, <<"=", "MINUS_EQUAL">> >>)
    @@ ("KET_LEFT" :> << <<"=", "KET_LEFT_EQUAL">>, <<"<", "KET_LEFT_BIS">> >>)
    @@ ("KET_LEFT_BIS" :> << <<"=", "KET_LEFT_BIS_EQUAL">> >>)
    @@ ("KET_RIGHT" :> << <<"=", "KET_RIGHT_EQUAL">>, <<">", "KET_RIGHT_BIS">> >>)
    @@ ("KET_RIGHT_BIS" :> << <<"=", "KET_RIGHT_BIS_EQUAL">> >>)
    @@ ("BANG" :> << <<"=", "BANG_EQUAL">> >>) @@ ("EQUAL" :> << <<"=", "EQUAL_BIS">> >>)
    @@ ("PIPE" :> << <<"|", "PIPE_BIS">>, <<"=", "PIPE_EQUAL">> >>)
    @@ ("COLON" :> << <<":", "COLON_BIS">> >>)
    @@ ("AMPERSAND" :> << <<"&", "AMPERSAND_BIS">>, <<"=", "AMPERSAND_EQUAL">> >>)

Goto(bytes, to) == <<bytes, to>>
ByByte(pairs)   == [i \in DOMAIN pairs |-> Goto({pairs[i][1]}, pairs[i][2])]

Initial == <<Goto(Space, "WHITESPACE"), Goto(Alpha, "IDENTIFIER"), Goto(Digit, "NUMBER")>>
           \o ByByte(Simple)

\* Nodes that are no token when nothing follows.
Inner ==
    [QUOTE_DOUBLE  |-> <<Goto({"\""}, "DATA"), Goto(Bytes, "QUOTE_DOUBLE")>>,
     COMMENT_LINE  |-> <<Goto({"\n"}, "COMMENT"), Goto(Bytes, "COMMENT_LINE")>>,
     BLOCK_COMMENT |-> <<Goto({"/"}, "COMMENT_SLASH"), Goto({"*"}, "COMMENT_STAR"),
                         Goto(Bytes, "BLOCK_COMMENT")>>,
     BLOCK_DATA    |-> <<Goto({"'"}, "QUOTE_SIMPLE"), Goto(Bytes, "BLOCK_DATA")>>,
     COMMENT_SLASH |-> <<Goto({"*"}, "SLASH_STAR"), Goto(Bytes, "BLOCK_COMMENT")>>,
     COMMENT_STAR  |-> <<Goto({"/"}, "STAR_SLASH"), Goto(Bytes, "BLOCK_COMMENT")>>,
     DECIMAL_1     |-> <<Goto({"+", "-"}, "DECIMAL_2"), Goto(Digit, "DECIMAL_3")>>,
     DECIMAL_2     |-> <<Goto(Digit, "DECIMAL_3")>>,
     INITIAL       |-> Initial]

\* Nodes that are a token when nothing follows, operators apart.
Outer ==
    [WHITESPACE |-> <<Goto(Space, "WHITESPACE")>>,
     IDENTIFIER |-> <<Goto(Alpha \cup Digit, "IDENTIFIER")>>,
     DOT        |-> <<Goto(Digit, "DECIMAL_0")>>,
     NUMBER     |-> <<Goto(Digit, "NUMBER"), Goto({"."}, "DECIMAL_0")>>,
     DECIMAL_0  |-> <<Goto(Digit, "DECIMAL_0"), Goto({"e"}, "DECIMAL_1")>>,
     DECIMAL_3  |-> <<Goto(Digit, "DECIMAL_3")>>]

Gotos(n) ==
    IF n \in DOMAIN Inner THEN Inner[n]
    ELSE IF n \in DOMAIN Outer THEN Outer[n]
    ELSE IF n \in DOMAIN Longer THEN ByByte(Longer[n])
    ELSE <<>>

Match(n) ==
    CASE n \in DOMAIN Inner -> "UNKNOWN"
      [] n = "NUMBER" -> "LIT_INTEGER"
      [] n \in {"DECIMAL_0", "DECIMAL_3"} -> "LIT_DECIMAL"
      [] OTHER -> n

Outside  == {"begin", "end", "lexed", "idle"}
WithCode == {"SLASH_STAR", "STAR_SLASH", "QUOTE_SIMPLE"}

-----------------------------------------------------------------------------
(* The steps.                                                              *)

PushToken(token, offset) ==
    /\ tokens' = Append(tokens, token)
    /\ offsets' = Append(offsets, offset)

\* UniqueId{"#none"}; the hash of a text stands for the text.
NoId == <<"#", "n", "o", "n", "e">>

InitLexer ==
    /\ sources \in Sources
    /\ head = 1
    /\ node = "begin"
    /\ count = 0
    /\ id = NoId
    /\ tokens = <<>>
    /\ offsets = <<>>

\* Builder::operator() up to the machine.
Begin ==
    /\ node = "begin"
    /\ node' = "INITIAL"
    /\ head' = 1
    /\ id' = NoId
    /\ PushToken("START_OF_INPUT", Size)
    /\ UNCHANGED <<sources, count>>

\* A node with gotos, the end of the source.
PushLast ==
    /\ Gotos(node) # <<>>
    /\ ~HasByte
    /\ PushToken(Match(node), OffsetAt(head))
    /\ node' = "end"
    /\ UNCHANGED <<sources, head, count, id>>

\* The first goto that accepts the byte.
Accepting == {i \in DOMAIN Gotos(node) : LookByte \in Gotos(node)[i][1]}

TakeGoto ==
    /\ Gotos(node) # <<>>
    /\ HasByte
    /\ Accepting # {}
    /\ node' = Gotos(node)[Min(Accepting)][2]
    /\ head' = head + 1
    /\ UNCHANGED <<sources, count, id, tokens, offsets>>

\* No goto accepts the byte, or there are none: the node is a token, and an
\* unknown token takes the byte along.
PushMatch ==
    /\ node \notin Outside \cup WithCode
    /\ Gotos(node) = <<>> \/ (HasByte /\ Accepting = {})
    /\ head' = IF Match(node) = "UNKNOWN" THEN head + 1 ELSE head
    /\ PushToken(Match(node), OffsetAt(head'))
    /\ node' = IF head' <= Size THEN "INITIAL" ELSE "end"
    /\ UNCHANGED <<sources, count, id>>

SlashStar ==
    /\ node = "SLASH_STAR"
    /\ count' = count + 1
    /\ node' = "BLOCK_COMMENT"
    /\ UNCHANGED <<sources, head, id, tokens, offsets>>

(* Slip: the first end of a comment ends them all. *)
StarSlashFlat ==
    /\ node = "STAR_SLASH"
    /\ count' = 0
    /\ PushToken("COMMENT", OffsetAt(head)) /\ node' = IF HasByte THEN "INITIAL" ELSE "end"
    /\ UNCHANGED <<sources, head, id>>

\* The end of a comment: of the innermost one.
StarSlash ==
    /\ node = "STAR_SLASH"
    /\ count' = IF count = 0 THEN 0 ELSE count - 1
    /\ IF count' > 0
       THEN node' = "BLOCK_COMMENT" /\ UNCHANGED <<tokens, offsets>>
       ELSE PushToken("COMMENT", OffsetAt(head)) /\ node' = IF HasByte THEN "INITIAL" ELSE "end"
    /\ UNCHANGED <<sources, head, id>>

\* The place of the next quote from here on, one past the end if there is none.
NextQuote == Min({i \in head..Size : source[i] = "'"} \cup {Size + 1})

(* Slip: after another delimiter the data is read from the quote before it. *)
QuoteSimpleAgain ==
    /\ node = "QUOTE_SIMPLE"
    /\ LET quote == NextQuote
           text  == SubSeq(source, head, quote - 1)
           Move(to, next) == head' = to /\ node' = IF to <= Size THEN next ELSE "end"
       IN  \/ /\ quote <= Size /\ id = text
              /\ PushToken("DATA", OffsetAt(quote))
              /\ id' = NoId
              /\ Move(quote + 1, "INITIAL")
           \/ /\ ~(quote <= Size /\ id = text)
              /\ id' = IF id = NoId THEN text ELSE id
              /\ Move(IF id = NoId THEN quote + 1 ELSE head - 1, "BLOCK_DATA")
              /\ IF head' <= Size THEN UNCHANGED <<tokens, offsets>>
                 ELSE PushToken("UNKNOWN", OffsetAt(head'))
    /\ UNCHANGED <<sources, count>>

\* After a quote: the text up to the next one is a delimiter, the first one or
\* the one that ends the data.
QuoteSimple ==
    /\ node = "QUOTE_SIMPLE"
    /\ LET quote == NextQuote
           text  == SubSeq(source, head, quote - 1)
           Move(to, next) == head' = to /\ node' = IF to <= Size THEN next ELSE "end"
       IN  \/ /\ quote <= Size /\ id = text
              /\ PushToken("DATA", OffsetAt(quote))
              /\ id' = NoId
              /\ Move(quote + 1, "INITIAL")
           \/ /\ ~(quote <= Size /\ id = text)
              /\ id' = IF id = NoId THEN text ELSE id
              /\ Move(IF id = NoId THEN quote + 1 ELSE quote, "BLOCK_DATA")
              /\ IF head' <= Size THEN UNCHANGED <<tokens, offsets>>
                 ELSE PushToken("UNKNOWN", OffsetAt(head'))
    /\ UNCHANGED <<sources, count>>

-----------------------------------------------------------------------------
(* The keywords.                                                           *)

KEYWORDS == <<
    <<"i", "f">>,
    <<"e", "l", "s", "e">>,
    <<"l", "e", "t">>,
    <<"f", "u", "n", "c">>,
    <<"c", "l", "a", "s", "s">>,
    <<"w", "h", "i", "l", "e">>,
    <<"e", "x", "p", "o", "r", "t">>,
    <<"i", "m", "p", "o", "r", "t">>,
    <<"m", "o", "d", "u", "l", "e">>,
    <<"r", "e", "t", "u", "r", "n">> >>

\* Token::IF and the values of the enumeration after it.
KeywordTokens == <<"IF", "ELSE", "LET", "FUNC", "CLASS", "WHILE", "EXPORT", "IMPORT", "MODULE", "RETURN">>

\* The bytes between two offsets.
TextAt(offset, next) == SubSeq(source, Size - offset + 1, Size - next)

\* matchKeywords: the text of an identifier starts where the token before ends.
MatchKeywords(toks, offs) ==
    [i \in DOMAIN toks |->
        IF i = 1 \/ toks[i] # "IDENTIFIER" THEN toks[i]
        ELSE LET spelled == {k \in DOMAIN KEYWORDS : KEYWORDS[k] = TextAt(offs[i - 1], offs[i])}
             IN  IF spelled = {} THEN toks[i] ELSE KeywordTokens[Min(spelled)]]

\* Builder::operator() after the machine.
End ==
    /\ node = "end"
    /\ tokens' = MatchKeywords(Append(tokens, "END_OF_INPUT"), Append(offsets, 0))
    /\ offsets' = Append(offsets, 0)
    /\ count' = 0
    /\ node' = "lexed"
    /\ UNCHANGED <<sources, head, id>>

\* clearState, and the next source if there is one.
ClearTokens ==
    /\ node = "lexed"
    /\ sources' = Tail(sources)
    /\ tokens' = <<>>
    /\ offsets' = <<>>
    /\ node' = IF Len(sources) > 1 THEN "begin" ELSE "idle"
    /\ UNCHANGED <<head, count, id>>

LexerStep ==
    \/ Begin
    \/ PushLast
    \/ TakeGoto
    \/ PushMatch
    \/ SlashStar
    \/ StarSlash
    \/ QuoteSimple
    \/ End

-----------------------------------------------------------------------------
(* What the tokens of a source are, without the machine.                   *)

\* test/data/lex/operator.in.
Operators == <<
    "+", "-", "*", "/", "=", "{", "<", "(", "[", "}", ">", ")", "]", "!", "?", "~", ":", ";", "^",
    "->", ">=", "<=", "<<", ">>", "!=", "==", "||", "&&", "::", "+=", "-=", "*=", "/=", "%=", "&=",
    "|=", "^=", "<<=", ">>=", ".", ",", "%", "&", "|" >>
OperatorTokens == <<
    "PLUS", "MINUS", "STAR", "SLASH", "EQUAL", "BRA_LEFT", "KET_LEFT", "PAR_LEFT", "SQR_LEFT",
    "BRA_RIGHT", "KET_RIGHT", "PAR_RIGHT", "SQR_RIGHT", "BANG", "QUESTION", "TILDE", "COLON",
    "SEMI_COLON", "CARET", "MINUS_KET_RIGHT", "KET_RIGHT_EQUAL", "KET_LEFT_EQUAL", "KET_LEFT_BIS",
    "KET_RIGHT_BIS", "BANG_EQUAL", "EQUAL_BIS", "PIPE_BIS", "AMPERSAND_BIS", "COLON_BIS",
    "PLUS_EQUAL", "MINUS_EQUAL", "STAR_EQUAL", "SLASH_EQUAL", "PERCENT_EQUAL", "AMPERSAND_EQUAL",
    "PIPE_EQUAL", "CARET_EQUAL", "KET_LEFT_BIS_EQUAL", "KET_RIGHT_BIS_EQUAL", "DOT", "COMMA",
    "PERCENT", "AMPERSAND", "PIPE" >>

\* The bytes from p to q as one string.
TextOf(p, q) == FoldLeft(LAMBDA s, byte : s \o byte, "", SubSeq(source, p, q))

\* The last place of the run of these bytes that begins at p, p - 1 if none.
RunFrom(p, bytes) == Min({q \in p..Size : source[q] \notin bytes} \cup {Size + 1}) - 1

\* The first place from p on of a byte, 0 if there is none.
Find(p, byte) ==
    LET places == {q \in p..Size : source[q] = byte}
    IN  IF places = {} THEN 0 ELSE Min(places)

Lexeme(token, last) == [token |-> token, last |-> last]

\* A lexeme that the source does not end; nothing comes after it.
Unended == Lexeme("UNKNOWN", Size)

EndedAt(token, q) == IF q = 0 THEN Unended ELSE Lexeme(token, q)

\* The exponent, if any, of the decimal from p to q.
WithExponent(q) ==
    IF q = Size \/ source[q + 1] # "e" THEN Lexeme("LIT_DECIMAL", q)
    ELSE LET sign   == IF q + 2 <= Size /\ source[q + 2] \in {"+", "-"} THEN q + 2 ELSE q + 1
             digits == RunFrom(sign + 1, Digit)
         IN  IF digits > sign THEN Lexeme("LIT_DECIMAL", digits)
             ELSE Lexeme("UNKNOWN", Min({sign + 1, Size})) \* with the byte in its place

Number(p) ==
    LET digits == RunFrom(p, Digit)
    IN  IF digits < Size /\ source[digits + 1] = "." THEN WithExponent(RunFrom(digits + 2, Digit))
        ELSE Lexeme("LIT_INTEGER", digits)

RECURSIVE CommentEnd(_, _)
\* The place where depth open comments end, 0 if they do not.  A star or slash
\* makes a pair with whatever follows: "**/" ends nothing.
CommentEnd(p, depth) ==
    CASE p >= Size                                -> 0
      [] p < Size /\ source[p] \notin {"/", "*"}  -> CommentEnd(p + 1, depth)
      [] p < Size /\ TextOf(p, p + 1) = "/*"      -> CommentEnd(p + 2, depth + 1)
      [] p < Size /\ TextOf(p, p + 1) = "*/"      ->
            IF depth = 1 THEN p + 1 ELSE CommentEnd(p + 2, depth - 1)
      [] OTHER                                    -> CommentEnd(p + 2, depth)

\* Data is 'id' bytes 'id', and without the last quote; 'text' that is the
\* text of NoId is data of its own.
Data(p) ==
    LET close == Find(p + 1, "'")
        text  == SubSeq(source, p + 1, close - 1)
        Pairs == {q \in close + 1 .. Size :
                    source[q] = "'" /\ Find(q + 1, "'") > 0
                    /\ SubSeq(source, q + 1, Find(q + 1, "'") - 1) = text}
    IN  CASE close = 0    -> Lexeme("UNKNOWN", Size + 1) \* the head runs past the end
          [] close > 0 /\ text = NoId -> Lexeme("DATA", close - 1)
          [] close > 0 /\ text # NoId /\ Pairs = {} -> Unended
          [] OTHER        -> Lexeme("DATA", Find(Min(Pairs) + 1, "'") - 1)

\* The longest operator.
OperatorAt(p) ==
    LET these == {i \in DOMAIN Operators :
                    \E q \in p..Min({p + 2, Size}) : TextOf(p, q) = Operators[i]}
        i     == CHOOSE i \in these : \A j \in these : Len(Operators[j]) <= Len(Operators[i])
    IN  IF these = {} THEN Lexeme("UNKNOWN", p)
        ELSE Lexeme(OperatorTokens[i], p + Len(Operators[i]) - 1)

\* The lexeme that begins at p.  Only the empty source ends before one.
LexemeAt(p) ==
    LET byte == source[p]
        pair == TextOf(p, Min({p + 1, Size}))
    IN  IF p > Size THEN Unended ELSE
        CASE byte \in Space -> Lexeme("WHITESPACE", RunFrom(p, Space))
          [] byte \in Alpha -> Lexeme("IDENTIFIER", RunFrom(p, Alpha \cup Digit))
          [] byte \in Digit -> Number(p)
          [] byte = "." /\ p < Size /\ source[p + 1] \in Digit -> WithExponent(RunFrom(p + 1, Digit))
          [] byte = "\"" -> EndedAt("DATA", Find(p + 1, "\""))
          [] byte = "'" -> Data(p)
          [] pair = "//" -> EndedAt("COMMENT", Find(p + 2, "\n"))
          [] pair = "/*" -> EndedAt("COMMENT", CommentEnd(p + 2, 1))
          [] pair = "*/" -> Lexeme("COMMENT", p + 1)
          [] OTHER -> OperatorAt(p)

\* The first byte of a token: the quote at the end of data belongs to none.
FirstOf(i) ==
    LET after == Size - offsets[i - 1] + 1
    IN  IF tokens[i - 1] = "DATA" /\ after <= Size /\ source[after] = "'" THEN after + 1 ELSE after

\* A word is a keyword unless it is glued to data.
WithKeyword(i, lexeme) ==
    LET p    == FirstOf(i)
        text == SubSeq(source, p, lexeme.last)
    IN  IF lexeme.token = "IDENTIFIER" /\ Contains(KEYWORDS, text) /\ p = Size - offsets[i - 1] + 1
        THEN CHOOSE t \in ToSet(KeywordTokens) : \E k \in DOMAIN KEYWORDS : KEYWORDS[k] = text /\ KeywordTokens[k] = t
        ELSE lexeme.token

-----------------------------------------------------------------------------
(* Properties.                                                             *)

(* The tokens of a source are its longest lexemes, from its first byte to  *)
(* its last, whatever was lexed before it: comments nest, data ends with   *)
(* the delimiter it begins with, and what never ends is one unknown token  *)
(* (lex/machine.hpp, lex/node.hpp).                                        *)
TokensAreTheLexemes ==
    node = "lexed" =>
        /\ Head(tokens) = "START_OF_INPUT" /\ Last(tokens) = "END_OF_INPUT"
        /\ \A i \in 2..(Len(tokens) - 1) :
              LET lexeme == LexemeAt(FirstOf(i))
              IN  /\ tokens[i] = WithKeyword(i, lexeme)
                  /\ offsets[i] = (Size - lexeme.last) % Wrap
        /\ LET last == Len(tokens) - 1
           IN  \/ offsets[last] \in {0, Wrap - 1}
               \/ tokens[last] = "DATA" /\ offsets[last] = 1
=============================================================================
