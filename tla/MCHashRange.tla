---------------------------- MODULE MCHashRange -----------------------------
(***************************************************************************)
(* A symbol and an integer that has its number; and an array of an array   *)
(* of the integer, which HashSet unwraps once and every lookup of what it  *)
(* lists once more, so that no lookup finds it.  JSON reads the integer    *)
(* back as the symbol, and the array as a symbol of its own, which can be  *)
(* found.  The value stored does not matter to the loop: there is one.     *)
(***************************************************************************)
EXTENDS HashRange

MCKey == {"int", "a", "arr", "nest", "brackets"}

MCHashCode == [k \in MCKey |-> IF k \in {"int", "a"} THEN 1 ELSE 2]

MCElem == [k \in MCKey |-> CASE k = "arr" -> "int" [] k = "nest" -> "arr" [] OTHER -> k]

MCEqual == {<<k, k>> : k \in MCKey}

MCName == [k \in {"int", "a", "arr", "brackets"} |->
    CASE k = "int" -> "a" [] k = "arr" -> "brackets" [] OTHER -> k]
MCRank == [k \in MCKey |-> IF k = "a" THEN 0 ELSE 1]
MCReread == [v \in {1} |-> v]

MCAccepts == MCKey \X {1}
=============================================================================
