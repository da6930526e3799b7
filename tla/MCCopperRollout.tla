--------------------------- MODULE MCCopperRollout ---------------------------
\* Two controllers and no symmetry, since two of the properties are liveness
EXTENDS CopperRollout
=============================================================================
