---------------------------- MODULE MCCopperAudit ----------------------------
EXTENDS CopperAudit, TLC

Symmetry == Permutations(Controllers)

\* Sound when not every controller is promotable
PolicySymmetry == Permutations(Promotable)
=============================================================================
