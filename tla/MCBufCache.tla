----------------------------- MODULE MCBufCache -----------------------------
(* BufCache for TLC.  Threads are interchangeable, and so are blocks. *)
EXTENDS BufCache, TLC

UserSymmetry == Permutations(Threads) \union Permutations(Blocks)
=============================================================================
