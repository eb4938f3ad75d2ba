---------------------------- MODULE MCGoSubRace ----------------------------
\* GoSubRace for TLC: clients and maps are interchangeable.
EXTENDS GoSubRace, TLC

Symmetry == Permutations(Client) \cup Permutations(Map)
=============================================================================
