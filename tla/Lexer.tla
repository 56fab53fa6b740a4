------------------------------- MODULE Lexer -------------------------------
(***************************************************************************)
(* lexer.go: the finite state machine that cuts a stream of runes into     *)
(* tokens.  A rune is a one-character string, a text a sequence of runes.  *)
(*                                                                         *)
(* lexer is the struct Lexer without its streams; stream is what is left   *)
(* of the stream being read (NoStream is nil).  Every function of the Go   *)
(* code that changes the struct is an operator from lexers to lexers, and  *)
(* a failed one leaves err set.  prevrune and preBuiltin are read in one     *)
(* state only and forgotten outside it.  written and cut are history: the  *)
(* lexemes that the input since the last Reset was made of, and whether    *)
(* the input before that broke off without a blank.                        *)
(***************************************************************************)
EXTENDS Integers, Sequences, SequencesExt

CONSTANTS
    Lexemes,        \* records [runes, tokens, class]: a spelling and what it means
    Between,        \* texts that may stand between two lexemes
    Touching,       \* pairs of classes of which nothing need stand between
    Endings,        \* texts that may end an input
    MaxLexemes

Empty    == <<>>
NoStream == <<"nil">>
NoRune   == "none"
Backtick == "backtick"   \* a grave accent, which no string may hold

VARIABLES lexer, stream, written, cut

vars == <<lexer, stream, written, cut>>

-----------------------------------------------------------------------------
(* The regular expressions, as predicates on texts. *)

Digits    == {"0", "1"}
Operators == {"+", "-", "*", "<", ">", "=", "!", "&", "|"}
Braces    == {"(", ")", "[", "]", "{", "}"}
Blanks    == {" ", "\t", "\r", "\n"}

\* What neither the first nor a later rune of a symbol may be.
NotInSymbols == Braces \cup {"'", "#", ":", ";", "\\", "~", "@", "^", "|", "\"", "%", ","}

BuiltinOps ==
    {<<r>> : r \in (Operators \ {"&", "|"})}
    \cup {<<"+", "+">>, <<"-", "-">>, <<"+", "=">>, <<"-", "=">>, <<"=", "=">>, <<":", "=">>,
          <<"<", "=">>, <<">", "=">>, <<"<", "-">>, <<"-", ">">>, <<"*", "=">>, <<"/", "=">>,
          <<"*", "*">>, <<"!", "=">>, <<"<", "!">>, <<"&", "&">>, <<"|", "|">>}

Unsigned(s)  == IF s # Empty /\ s[1] = "-" THEN Tail(s) ELSE s
AllDigits(s) == \A i \in DOMAIN s : s[i] \in Digits
IsDigits(s)  == s # Empty /\ AllDigits(s)

IsDecimal(s) == IsDigits(Unsigned(s))

\* Digits with a point among or behind them.
HasPoint(s) ==
    \E i \in 2..Len(s) : /\ s[i] = "."
                         /\ IsDigits(SubSeq(s, 1, i - 1))
                         /\ AllDigits(SubSeq(s, i + 1, Len(s)))

IsExponent(s) ==
    IsDigits(IF s # Empty /\ s[1] \in {"-", "+"} THEN Tail(s) ELSE s)

IsFloat(s) ==
    LET u == Unsigned(s)
    IN \/ HasPoint(u)
       \/ u # Empty /\ u[1] = "." /\ IsDigits(Tail(u))
       \/ \E i \in 2..Len(u) :
             LET mantissa == SubSeq(u, 1, i - 1)
             IN /\ u[i] \in {"e", "E"}
                /\ IsDigits(mantissa) \/ HasPoint(mantissa)
                /\ IsExponent(SubSeq(u, i + 1, Len(u)))

IsSymbol(s) ==
    LET body == IF s # Empty /\ s[1] \in {"#", "?"} THEN Tail(s) ELSE s
    IN /\ body # Empty
       /\ body[1] \notin NotInSymbols \cup Digits \cup {"?", "&"}
       /\ \A i \in 2..Len(body) : body[i] \notin NotInSymbols \cup {"&", "*", "-"}

\* Names joined by points, or a point alone.
IsDotSymbol(s) ==
    \/ s = <<".">>
    \/ /\ \E i \in DOMAIN s : s[i] = "."
       /\ s[Len(s)] # "."
       /\ \A i \in DOMAIN s :
             IF s[i] = "." THEN TRUE
             ELSE /\ s[i] \notin NotInSymbols
                  /\ IF i = 1 \/ s[i - 1] = "." THEN s[i] \notin Digits
                     ELSE s[i] \notin {"*", "+", "-"}
       /\ \A i \in 1..(Len(s) - 1) : ~(s[i] = "." /\ s[i + 1] = ".")

IsChar(s) ==
    Len(s) \in {3, 4} /\ s[1] = "'" /\ s[Len(s)] = "'" /\ (Len(s) = 4 => s[2] = "\\")

sliceBoundLiteralBeforeColon(s) == IsDecimal(s)

-----------------------------------------------------------------------------
(* Atoms *)

Token(typ, str) == [typ |-> typ, str |-> str]
NoToken         == Token("Empty", Empty)

\* EscapeChar: the rune that follows a backslash, decoded; only those that
\* stand for themselves are told apart from the ones that are refused.
Escapable     == {"\\", "\"", "'", "#"}
EscapeChar(r) == r

\* What a word means, NoToken when it means nothing.  A colon at its end
\* is taken off first, and only a symbol remembers it.
DecodeAtom(word) ==
    LET endColon == word[Len(word)] = ":"
        atom     == IF endColon THEN SubSeq(word, 1, Len(word) - 1) ELSE word
    IN CASE atom = <<"t", "r", "u", "e">> -> Token("Bool", atom)
         [] IsDecimal(atom)               -> Token("Decimal", atom)
         [] IsFloat(atom)                 -> Token("Float", atom)
         [] IsDotSymbol(atom)             -> Token("DotSymbol", atom)
         [] atom \in BuiltinOps           -> Token("Symbol", atom)
         [] IsSymbol(atom)                -> Token(IF endColon THEN "SymbolColon" ELSE "Symbol", atom)
         [] IsChar(atom)                  -> Token("Char", SubSeq(atom, Len(atom) - 1, Len(atom) - 1))
         [] OTHER                         -> IF endColon THEN Token("ColonOperator", <<":">>)
                                             ELSE NoToken

AppendToken(lx, typ, str) == [lx EXCEPT !.tokens = Append(@, Token(typ, str))]
WriteRunes(lx, runes)     == [lx EXCEPT !.buffer = @ \o runes]
Go(lx, state)             == [lx EXCEPT !.state = state]
Fail(lx)                  == [lx EXCEPT !.err = TRUE]

dumpBuffer(lx) ==
    IF lx.buffer = Empty THEN lx
    ELSE LET tok == DecodeAtom(lx.buffer)
         IN IF tok = NoToken THEN Fail(lx)
            ELSE [lx EXCEPT !.buffer = Empty, !.tokens = Append(@, tok)]

\* dumpComment, dumpString and dumpBacktickString.
dumpAs(lx, typ) == [AppendToken(lx, typ, lx.buffer) EXCEPT !.buffer = Empty]

-----------------------------------------------------------------------------
(* LexNextRune, one operator for each state.  One that ends in "goto top"  *)
(* leaves the rune to the state it has changed to.                         *)

GotoTop(lx) == [lx EXCEPT !.again = TRUE]

canStartSignedNumberAfter ==
    (Blanks \cup Operators \cup {NoRune, "(", "[", "{", ",", ";", ":", "/"})

\* Is the buffer a number that ends in e, so that the sign belongs to it?
InExponent(lx, r) ==
    /\ r \in {"+", "-"}
    /\ lx.prior \in {"e", "E"}
    /\ Len(lx.buffer) > 1
    /\ LET withoutE == SubSeq(lx.buffer, 1, Len(lx.buffer) - 1)
       IN IsDecimal(withoutE) \/ IsFloat(withoutE)

\* A rune that ends the word before it, once that word is a token.
AfterWord(lx, r) ==
    CASE r \in Operators -> [lx EXCEPT !.state = "BuiltinOperator",
                                       !.preBuiltin = lx.prior, !.prevrune = r]
      [] r = ";"         -> AppendToken(lx, "Semicolon", <<r>>)
      [] r = ","         -> AppendToken(lx, "Comma", <<r>>)
      [] r \in Braces    -> AppendToken(lx, "Brace", <<r>>)
      [] r \in Blanks    -> [lx EXCEPT !.linenum = @ + IF r = "\n" THEN 1 ELSE 0]

\* A rune that no word may run into: it opens something of its own.
Opening(lx, r) ==
    CASE r = Backtick -> AppendToken(Go(lx, "BacktickString"), "BeginBacktickString", Empty)
      [] r = "\""     -> Go(lx, "StrLit")
      [] r = "'"      -> WriteRunes(Go(lx, "RuneLit"), <<r>>)
      [] r = "%"      -> AppendToken(lx, "Quote", Empty)
      [] r = "^"      -> AppendToken(lx, "Caret", Empty)
      [] r = "~"      -> Go(lx, "Unquote")

LexNormal(lx, r) ==
    CASE InExponent(lx, r) -> WriteRunes(lx, <<r>>)
      [] r \in Operators \cup {";", ","} \cup Braces \cup Blanks /\ ~InExponent(lx, r) ->
            LET word == dumpBuffer(lx) IN IF word.err THEN word ELSE AfterWord(word, r)
      [] r \in {Backtick, "\"", "'", "%", "^", "~"} ->
            IF lx.buffer # Empty THEN Fail(lx) ELSE Opening(lx, r)
      [] r = "/" -> Go(lx, "FirstFwdSlash")
      [] r = ":" -> Go(lx, "FreshAssignOrColon")
      [] OTHER   -> WriteRunes(lx, <<r>>)

LexBuiltinOperator(lx, r) ==
    LET atom   == <<lx.prevrune, r>>
        normal == [lx EXCEPT !.state = "Normal", !.prevrune = NoRune, !.preBuiltin = NoRune]
    IN CASE /\ lx.prevrune = "-" /\ lx.preBuiltin \in canStartSignedNumberAfter
            /\ IsDecimal(atom) \/ IsFloat(atom)
              -> WriteRunes(normal, atom)
         [] atom \in BuiltinOps -> AppendToken(normal, "Symbol", atom)
         [] OTHER -> GotoTop(AppendToken(normal, "Symbol", <<lx.prevrune>>))

LexFirstFwdSlash(lx, r) ==
    LET word == dumpBuffer(lx)
    IN IF word.err THEN word
       ELSE CASE r = "/" -> WriteRunes(Go(word, "CommentLine"), <<"/", "/">>)
              [] r = "*" -> AppendToken(WriteRunes(Go(word, "CommentBlock"), <<"/", "*">>),
                                        "BeginBlockComment", Empty)
              [] OTHER   -> GotoTop([word EXCEPT !.state = "BuiltinOperator", !.prevrune = "/"])

LexFreshAssignOrColon(lx, r) ==
    LET assign == r = "="
        bound  == ~assign /\ sliceBoundLiteralBeforeColon(lx.buffer)
        word   == dumpBuffer(Go(IF assign \/ bound THEN lx ELSE WriteRunes(lx, <<":">>), "Normal"))
    IN CASE word.err -> word
         [] ~word.err /\ assign -> AppendToken(word, "FreshAssign", <<":", "=">>)
         [] ~word.err /\ bound  -> GotoTop(AppendToken(word, "ColonOperator", <<":">>))
         [] OTHER               -> GotoTop(word)

LexCommentLine(lx, r) ==
    IF r = "\n" THEN Go(dumpAs(lx, "Comment"), "Normal") ELSE WriteRunes(lx, <<r>>)

\* Every line of a block comment is a token, so that the parser can ask for more.
LexCommentBlock(lx, r) ==
    CASE r = "\n" -> dumpAs(WriteRunes(lx, <<r>>), "Comment")
      [] r = "*"  -> Go(lx, "CommentBlockAsterisk")
      [] OTHER    -> WriteRunes(lx, <<r>>)

LexCommentBlockAsterisk(lx, r) ==
    IF r = "/"
    THEN Go(AppendToken(dumpAs(WriteRunes(lx, <<"*", "/">>), "Comment"), "EndBlockComment", Empty),
            "Normal")
    ELSE WriteRunes(Go(lx, "CommentBlock"), <<"*", r>>)

\* Between double or single quotes; closing is what the quote that ends it does.
LexQuoted(lx, r, quote, escaped, closing) ==
    CASE r = "\\"  -> Go(lx, escaped)
      [] r = quote -> Go(closing, "Normal")
      [] OTHER     -> WriteRunes(lx, <<r>>)

LexStrLit(lx, r) == LexQuoted(lx, r, "\"", "StrEscaped", dumpAs(lx, "String"))

\* The error of the last dumpBuffer is not looked at.
LexRuneLit(lx, r) ==
    LexQuoted(lx, r, "'", "RuneEscaped",
              LET d == WriteRunes(lx, <<r>>)
              IN IF DecodeAtom(d.buffer) = NoToken THEN d ELSE dumpBuffer(d))

LexEscaped(lx, r, back) ==
    IF r \notin Escapable THEN Fail(lx) ELSE Go(WriteRunes(lx, <<EscapeChar(r)>>), back)

LexBacktickString(lx, r) ==
    IF r = Backtick THEN Go(dumpAs(lx, "BacktickString"), "Normal") ELSE WriteRunes(lx, <<r>>)

\* Any rune but @ goes to the buffer, a bracket or a blank too.
LexUnquote(lx, r) ==
    Go(IF r = "@" THEN AppendToken(lx, "TildeAt", Empty)
       ELSE WriteRunes(AppendToken(lx, "Tilde", Empty), <<r>>), "Normal")

LexInState(lx, r) ==
    CASE lx.state = "Normal"               -> LexNormal(lx, r)
      [] lx.state = "BuiltinOperator"      -> LexBuiltinOperator(lx, r)
      [] lx.state = "FirstFwdSlash"        -> LexFirstFwdSlash(lx, r)
      [] lx.state = "FreshAssignOrColon"   -> LexFreshAssignOrColon(lx, r)
      [] lx.state = "CommentLine"          -> LexCommentLine(lx, r)
      [] lx.state = "CommentBlock"         -> LexCommentBlock(lx, r)
      [] lx.state = "CommentBlockAsterisk" -> LexCommentBlockAsterisk(lx, r)
      [] lx.state = "StrLit"               -> LexStrLit(lx, r)
      [] lx.state = "StrEscaped"           -> LexEscaped(lx, r, "StrLit")
      [] lx.state = "RuneLit"              -> LexRuneLit(lx, r)
      [] lx.state = "RuneEscaped"          -> LexEscaped(lx, r, "RuneLit")
      [] lx.state = "BacktickString"       -> LexBacktickString(lx, r)
      [] lx.state = "Unquote"              -> LexUnquote(lx, r)

\* A slash that turns out to be an operator takes the longest way: three
\* states look at one rune.  prior is what twoback finds at the next rune.
LexNextRune(lx, r) ==
    LET Turn(l, n) == IF l.again THEN LexInState([l EXCEPT !.again = FALSE], r) ELSE l
    IN [FoldLeft(Turn, GotoTop(lx), <<1, 2, 3>>) EXCEPT !.prior = r]

-----------------------------------------------------------------------------
(* The lexer and those who feed it. *)

\* NewLexer.
Fresh == [state |-> "Normal", buffer |-> Empty, tokens |-> Empty, prior |-> NoRune,
          prevrune |-> NoRune, preBuiltin |-> NoRune, linenum |-> 1,
          again |-> FALSE, err |-> FALSE]

\* Mutant of ResetLexer: what was read of an abandoned input stays.
ResetLexerKeepsState(lx) == [lx EXCEPT !.tokens = Empty, !.err = FALSE]

\* Reset leaves the look-back ring as it was.
ResetLexer(lx) == [Fresh EXCEPT !.prior = lx.prior]

Exhausted == stream \in {Empty, NoStream}

\* One turn of the loop in PeekNextToken.
ReadRune ==
    /\ ~Exhausted /\ ~lexer.err
    /\ lexer'  = LexNextRune(lexer, Head(stream))
    /\ stream' = Tail(stream)
    /\ UNCHANGED <<written, cut>>

\* AddNextStream, by callers that wait until the input they gave is read: the
\* next lexeme, with or without something before it.
AddNextStream(lexeme, between) ==
    /\ Exhausted /\ ~lexer.err
    /\ Len(written) < MaxLexemes
    /\ (written # Empty /\ between = Empty) => <<Last(written).class, lexeme.class>> \in Touching
    /\ stream'  = between \o lexeme.runes
    /\ written' = Append(written, lexeme)
    /\ UNCHANGED <<lexer, cut>>

\* ResetAddNewInput: the input before has come to its end, or it is given up
\* where it was read to, after an error in it or because nobody continued it.
ResetAddNewInput(lexeme, ending) ==
    /\ written # Empty
    /\ Exhausted \/ ending = Empty
    /\ LET before == FoldLeft(LexNextRune, lexer, ending)
       IN /\ lexer' = ResetLexer(before)
          /\ cut'   = (before.prior \notin Blanks)
    /\ stream'  = lexeme.runes
    /\ written' = <<lexeme>>

Init ==
    /\ lexer = Fresh
    /\ stream = NoStream
    /\ written = Empty
    /\ cut = FALSE

Next ==
    \/ ReadRune
    \/ \E l \in Lexemes :
          \/ \E between \in Between : AddNextStream(l, between)
          \/ \E ending \in Endings : ResetAddNewInput(l, ending)

Spec == Init /\ [][Next]_vars

-----------------------------------------------------------------------------
(* Properties *)

Meant == FlattenSeq([i \in DOMAIN written |-> written[i].tokens])

\* What the lexer has read, with what it would make of its buffer if a blank
\* came now, is what was written.
HasRead(meant) ==
    LET lx == LexNextRune(lexer, " ")
    IN ~lx.err /\ lx.tokens = meant /\ lx.state = "Normal" /\ lx.buffer = Empty

\* The lexemes written since the last Reset are the tokens read, whatever
\* stands between them and wherever the input before that was given up
\* (lexer_test.go:232: "our lexer should lex without needing space between
\* builtin operators", lexer_test.go:247: "our lexer should recognize negative
\* floating point and negative integers").
ReadsBackAlways == Exhausted => HasRead(Meant)

\* The same but for a negative number at the start of an input, whose sign is
\* taken for an operator when the input before it broke off in a word.
ReadsBack == ~(cut /\ written[1].class = "negative") => ReadsBackAlways
=============================================================================
