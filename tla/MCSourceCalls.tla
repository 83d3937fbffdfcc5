---------------------------- MODULE MCSourceCalls ----------------------------
EXTENDS SourceCalls, TLC

CONSTANTS c1, c2

Symmetry == Permutations({c1, c2})
=============================================================================
