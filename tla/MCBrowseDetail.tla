---------------------------- MODULE MCBrowseDetail ----------------------------
EXTENDS BrowseDetail, TLC
CONSTANTS a, b
Symmetry == Permutations(DialogEndpoints)
===============================================================================
