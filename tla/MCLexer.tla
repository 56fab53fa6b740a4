------------------------------ MODULE MCLexer ------------------------------
(***************************************************************************)
(* Lexemes for Lexer: their spelling, their tokens, and which of them may  *)
(* stand next to each other with nothing in between.                       *)
(***************************************************************************)
EXTENDS Integers, Sequences

CONSTANT MaxLexemes

VARIABLES lexer, stream, written, cut

T(typ, str)            == [typ |-> typ, str |-> str]
L(class, runes, tokens) == [class |-> class, runes |-> runes, tokens |-> tokens]

BT == "backtick"

\* Words, which a blank, a bracket or an operator ends.
Words == {
    L("word", <<"a">>,                     <<T("Symbol", <<"a">>)>>),
    L("word", <<"a", ".", "e">>,           <<T("DotSymbol", <<"a", ".", "e">>)>>),
    L("number", <<"1">>,                   <<T("Decimal", <<"1">>)>>),
    L("number", <<"1", "e", "-", "1">>,    <<T("Float", <<"1", "e", "-", "1">>)>>),
    L("negative", <<"-", "1", ".">>,       <<T("Float", <<"-", "1", ".">>)>>),
    L("key", <<"a", ":">>,                 <<T("SymbolColon", <<"a">>)>>),
    L("bound", <<"1", ":">>,               <<T("Decimal", <<"1">>), T("ColonOperator", <<":">>)>>) }

Signs == {
    L("sign", <<"-">>,                     <<T("Symbol", <<"-">>)>>),
    L("sign", <<"/">>,                     <<T("Symbol", <<"/">>)>>),
    L("sign", <<"<", "=">>,                <<T("Symbol", <<"<", "=">>)>>),
    L("sign", <<":", "=">>,                <<T("FreshAssign", <<":", "=">>)>>) }

Delimiters == {
    L("opening", <<"(">>,                  <<T("Brace", <<"(">>)>>),
    L("closing", <<"]">>,                  <<T("Brace", <<"]">>)>>),
    L("opening", <<",">>,                  <<T("Comma", <<",">>)>>) }

Quoted == {
    L("quoted", <<"\"", "/", "\\", "\"", "\"">>, <<T("String", <<"/", "\"">>)>>),
    L("quoted", <<"'", "\\", "'", "'">>,         <<T("Char", <<"'">>)>>),
    L("quoted", <<BT, "\n", "\"", BT>>, <<T("BeginBacktickString", <<>>), T("BacktickString", <<"\n", "\"">>)>>) }

Wrappers == {
    L("prefix", <<"%">>,                   <<T("Quote", <<>>)>>),
    L("prefix", <<"^">>,                   <<T("Caret", <<>>)>>),
    L("word", <<"~", "a">>,                <<T("Tilde", <<>>), T("Symbol", <<"a">>)>>),
    L("prefix", <<"~", "@">>,              <<T("TildeAt", <<>>)>>) }

Comments == {
    L("comment", <<"/", "/", "\"", "\n">>, <<T("Comment", <<"/", "/", "\"">>)>>),
    L("comment", <<"/", "*", "*", "a", "\n", "*", "/">>,
      <<T("BeginBlockComment", <<>>), T("Comment", <<"/", "*", "*", "a", "\n">>),
        T("Comment", <<"*", "/">>), T("EndBlockComment", <<>>)>>) }

MCLexemes == Words \cup Signs \cup Delimiters \cup Quoted \cup Wrappers \cup Comments

\* A comment and quoted text end by themselves, brackets and signs end a word,
\* and a prefix is for what follows it.
MCTouching ==
    LET words == {"word", "number", "key"}
        selfEnding == {"opening", "closing", "quoted", "comment"}
    IN (selfEnding \X (selfEnding \cup words \cup {"prefix", "bound"}))
       \cup ((words \cup {"negative"}) \X {"opening", "closing", "comment"})
       \cup (({"word", "number"}) \X {"sign"}) \cup ({"sign"} \X {"word", "opening"})
       \cup ({"opening"} \X {"negative"})
       \cup ({"prefix"} \X (words \cup {"opening", "prefix", "quoted"}))

MCBetween == {<<>>, <<" ">>, <<"\n">>}

MCEndings == {<<>>, <<"\n">>}

INSTANCE Lexer WITH Lexemes <- MCLexemes, Between <- MCBetween, Touching <- MCTouching,
                    Endings <- MCEndings
=============================================================================
