------------------------------ MODULE MCScopes ------------------------------
(***************************************************************************)
(* One symbol is enough: which scopes bind one symbol has no influence on  *)
(* the search for another.                                                 *)
(***************************************************************************)
EXTENDS Scopes
=============================================================================
