---------------------------- MODULE MCEnrollment ----------------------------
EXTENDS Enrollment, TLC

Symmetry == Permutations(Nodes) \cup Permutations(Tokens)
=============================================================================
