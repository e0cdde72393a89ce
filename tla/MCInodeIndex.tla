---------------------------- MODULE MCInodeIndex ----------------------------
EXTENDS InodeIndex, TLC

MCSymmetry == Permutations(Files)
=============================================================================
