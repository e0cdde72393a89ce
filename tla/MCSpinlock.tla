----------------------------- MODULE MCSpinlock -----------------------------
EXTENDS Spinlock, TLC

HartSymmetry == Permutations(CPUs)
=============================================================================
