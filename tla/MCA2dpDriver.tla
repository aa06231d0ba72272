---------------------------- MODULE MCA2dpDriver ----------------------------
EXTENDS A2dpDriver, TLC
HandleSymmetry == Permutations(Handles)
=============================================================================
