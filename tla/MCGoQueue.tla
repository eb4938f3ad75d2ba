----------------------------- MODULE MCGoQueue -----------------------------
\* GoQueue for TLC: the clients are interchangeable.
EXTENDS GoQueue

Symmetry == Permutations(Name)
=============================================================================
