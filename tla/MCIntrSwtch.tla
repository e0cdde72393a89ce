---------------------------- MODULE MCIntrSwtch ----------------------------
EXTENDS IntrSwtch, TLC

MCSymmetry == Permutations(CPUs) \union Permutations(Threads)
=============================================================================
