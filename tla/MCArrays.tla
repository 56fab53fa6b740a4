------------------------------ MODULE MCArrays ------------------------------
\* Variables and elements are interchangeable.
EXTENDS Arrays, TLC

Symmetry == Permutations(Var) \cup Permutations(Elem)
=============================================================================
