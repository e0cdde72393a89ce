---------------------------- MODULE MCInodeCache ----------------------------
EXTENDS InodeCache, TLC

MCSymmetry == Permutations(Threads) \union Permutations(Names)
=============================================================================
