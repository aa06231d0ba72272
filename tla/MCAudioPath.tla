---------------------------- MODULE MCAudioPath ----------------------------
EXTENDS AudioPath, TLC
HandleSymmetry == Permutations(Handles)
=============================================================================
