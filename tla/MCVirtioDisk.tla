---------------------------- MODULE MCVirtioDisk ----------------------------
EXTENDS VirtioDisk, TLC

MCSymmetry == Permutations(Threads) \union Permutations(Vals)
=============================================================================
