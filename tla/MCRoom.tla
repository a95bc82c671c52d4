------------------------------- MODULE MCRoom -------------------------------
EXTENDS Room, TLC

Symmetry == Permutations(Users)
=============================================================================
