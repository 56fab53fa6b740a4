----------------------------- MODULE MCSexpHash -----------------------------
(***************************************************************************)
(* Keys that make the buckets of SexpHash collide in every way the code    *)
(* can: the integer 34 and the character '"' with its value (one code,     *)
(* equal), the symbol with that number (same code, different), a second    *)
(* symbol, the array of the integer, and an array with NaN (not equal to   *)
(* itself).  In JSON the integer is the text "34", which comes back as the *)
(* symbol digits; the character's text is no JSON, and the array with NaN  *)
(* is never found by the encoder.  The float 3.0 comes back as the int 3.  *)
(***************************************************************************)
EXTENDS SexpHash

MCKey == {"int", "char", "sym", "sym2", "digits", "arr1", "nan"}

MCHashCode == [k \in MCKey |->
    CASE k \in {"int", "char", "sym"} -> 1
      [] k = "sym2" -> 2
      [] OTHER -> 3]

MCElem == [k \in MCKey |-> IF k = "arr1" THEN "int" ELSE k]

MCEqual == {<<k, k>> : k \in MCKey \ {"nan"}}
           \cup {<<"int", "char">>, <<"char", "int">>}

MCName == [k \in {"int", "sym", "sym2", "digits"} |-> IF k = "int" THEN "digits" ELSE k]
MCRank == [k \in MCKey |-> CASE k = "sym" -> 1 [] k = "sym2" -> 2 [] OTHER -> 0]
MCReread == [v \in {"3", "3.0"} |-> "3"]

\* A record whose type declares an integer field sym and a float field sym2,
\* and no other; what is not a symbol is not checked.
MCAccepts ==
    {p \in MCKey \X {"3", "3.0"} :
        CASE p[1] = "sym" -> p[2] = "3" [] p[1] = "sym2" -> p[2] = "3.0"
          [] OTHER -> p[1] # "digits"}
=============================================================================
