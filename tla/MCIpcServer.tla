---------------------------- MODULE MCIpcServer ----------------------------
EXTENDS IpcServer, TLC
StopperSymmetry == Permutations(Stoppers)
=============================================================================
