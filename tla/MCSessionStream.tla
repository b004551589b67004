-------------------------- MODULE MCSessionStream --------------------------
EXTENDS SessionStream, TLC
Symmetry == Permutations(Macs)
=============================================================================
