----------------------------- MODULE MCConsole -----------------------------
EXTENDS Console, TLC

ReaderSymmetry == Permutations(Readers)
=============================================================================
