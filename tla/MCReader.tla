------------------------------ MODULE MCReader ------------------------------
(***************************************************************************)
(* Lines for Reader: pieces of lists, arrays, hashes, infix blocks, quoted *)
(* text and comments, so that every bracket is opened, closed and left     *)
(* open on some line, and every lookahead meets the end of one.            *)
(***************************************************************************)
EXTENDS Integers, Sequences

CONSTANT MaxLines

VARIABLES tokens, stack, ret, sendMe, status, stopped, driver, result, typed

Single == {<<t>> : t \in {"(", ")", "[", "]", "{", "}", "a", "k:", "string", ":", "%", "+", "Inf",
                          "\\", ",", "comment", "bad", "for", "backtick", "quote", "cut"}}

Pieces == {
    <<>>, <<"(", "a">>, <<"a", ")">>, <<"\\", "a">>, <<"\\", "a", ")">>, <<"[", "a", ",">>,
    <<"{", "k:">>, <<"k:", "a">>, <<"k:", "for", "a">>, <<"{", "string">>, <<"string", ":", "a", "}">>,
    <<"backtick", "raw">>, <<"raw">>, <<"raw", ":">>, <<"{", "+">>, <<"{", "comment">>,
    <<"/*", "comment", "*/">>, <<"/*", "comment">>, <<"comment", "*/">>, <<"a", ";", "(">>,
    <<"%", "[">>, <<"+", "Inf", "}">>,
    <<"a", "quote", ":", "a">>, <<"{", "quote">> }

MCLines == Single \cup Pieces

INSTANCE Reader WITH Lines <- MCLines
=============================================================================
