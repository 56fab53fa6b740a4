---------------------------- MODULE MCHashAlias -----------------------------
(***************************************************************************)
(* Two hashes over an integer, the symbol with that number (one bucket)    *)
(* and another symbol.  The hashes are alike, so that it does not matter   *)
(* which one is compared with SexpHash.                                    *)
(***************************************************************************)
EXTENDS HashAlias

MCKey == {"int", "a", "b"}
MCHashCode == [k \in MCKey |-> IF k = "b" THEN 2 ELSE 1]
MCElem == [k \in MCKey |-> k]
MCEqual == {<<k, k>> : k \in MCKey}

CONSTANTS p, q
=============================================================================
