--------------------------- MODULE MCCopperClaims ---------------------------
EXTENDS CopperClaims, TLC

Symmetry == Permutations(Controllers)
=============================================================================
