------------------------------- MODULE MCSchema -------------------------------
EXTENDS Schema, TLC

CONSTANTS p1, p2

Symmetry == Permutations(Processes)
=============================================================================
