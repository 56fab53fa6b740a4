------------------------------- MODULE MCPratt -------------------------------
(***************************************************************************)
(* Streams for Pratt: every sequence of a few tokens over an alphabet with *)
(* one operator of each power and associativity, and loops, selectors and  *)
(* statements that need more of them.                                      *)
(***************************************************************************)
EXTENDS Integers, Sequences, SequencesExt

CONSTANT MaxTokens

VARIABLES p, stack, ret, xs, status, stream, careless

MCArrays == [t \in {"[]", "[b]", "[b-c]", "[b:]", "[:b-c]", "[::]", "[b b]"} |->
    CASE t = "[]"     -> <<>>
      [] t = "[b]"    -> <<"b">>
      [] t = "[b-c]"  -> <<"b", "-", "c">>
      [] t = "[b:]"   -> <<"l:">>
      [] t = "[:b-c]" -> <<":", "b", "-", "c">>
      [] t = "[::]"   -> <<":", "l:">>
      [] t = "[b b]"  -> <<"b", "b">>]

Alphabet == {"a", "-", "*", "**", "and", "==", "=", "++", "not", ",", "[b]", ".k"}

Others == {"if", "else", "{x}", "a", "break", ";", "'c'", "-"}

Headers == {<<"a">>, <<"a", ";", "a", "-", "b", ";", "a", "++">>, <<";", ";">>, <<>>, <<";">>,
            <<"a", ":=", "range", "b">>, <<"a", ",", "b", "=", "range", "b", "-", "c">>,
            <<"a", "=", "range">>, <<"1", "=", "range", "a">>, <<"range", "a">>, <<"a", "b">>,
            <<"a", "=", "b">>}

Loops == {label \o <<"for">> \o h \o <<body>> \o rest :
            label \in {<<>>, <<"l:">>}, h \in Headers, body \in {"{}", "{x}"},
            rest \in {<<>>, <<";">>, <<"b">>, <<"-", "a">>}}
         \cup {<<"for", "a">>, <<"l:", "for">>, <<"a", ";", "continue", "b", "{x}">>}

Selections == {<<"a", sel, op, "b", sel>> : sel \in DOMAIN MCArrays, op \in {"*", "=", ","}}

\* Longer expressions of binary operators.
Binary3 == {<<"a", x, "a", y, "a", z, "a">> :
              x \in {"+", "**", "or", "<", ":=", ","}, y \in {"-", "**", "and", "==", "=", "mod"},
              z \in {"+", "**", "or", "<", ":=", ","}}

MCStreams ==
    Binary3 \cup SeqOf(Alphabet, MaxTokens) \cup SeqOf(Others, MaxTokens) \cup Loops \cup Selections

INSTANCE Pratt WITH Streams <- MCStreams, Arrays <- MCArrays
=============================================================================
