----------------------------- MODULE MCBuiltins -----------------------------
(***************************************************************************)
(* Integers of four bits, chars of three, floats with a mantissa of two    *)
(* bits and one bit behind the point: every integer meets every other, and *)
(* 5 and 7 are rounded.                                                    *)
(***************************************************************************)
EXTENDS Builtins

MCIntegers ==
    {Int64(x) : x \in -8..7} \cup {Uint64(x) : x \in 0..15} \cup {Char(x) : x \in -4..3}

MCValue ==
    {Int64(x) : x \in {-8, -7, -5, -1, 0, 1, 2, 3, 5, 7}}
    \cup {Char(x) : x \in {-4, 0, 1, 3}} \cup {Uint64(0), Uint64(1), Uint64(15)}
    \cup {<<"float", x>> : x \in {-8, -1, 0, 1, 2, 3, 8, 16}} \cup {NaN, Inf(1), Inf(-1)}
    \cup {<<"bool", 0>>, <<"bool", 1>>, <<"str", 0>>, <<"str", 1>>, Null, <<"sentinel", 1>>}
    \cup {<<"hash", 0>>, <<"pointer", 0>>, <<"pointer", 1>>, Time(1), Time(2), Time(3)}
    \cup {<<"array", <<>>>>, <<"array", <<Int64(1)>>>>, <<"array", <<Int64(1), Int64(2)>>>>,
          <<"array", <<<<"float", 3>>>>>>, <<"array", <<<<"str", 0>>>>>>}
    \cup {<<"pair", Int64(1), Null>>, <<"pair", Int64(1), <<"pair", Int64(2), Null>>>>,
          <<"pair", Int64(1), Int64(3)>>, <<"pair", Char(1), Char(2)>>}

MCSampleDate ==
    {Date(y, m, d) : y \in {1970, 1989, 1990, 2000, 2089, 2090, 2100, 2261, 3000},
                     m \in {1, 2, 12}, d \in {1, 28, 29, 31}}

MCIntegralPairs == MCIntegers \X MCIntegers

MCYear == 1970..2199

\* The names are interchangeable.
NameSymmetry == Permutations(Plain)
=============================================================================
