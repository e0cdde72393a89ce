------------------------------- MODULE MCProc -------------------------------
(* Proc for TLC.  Harts are interchangeable: no action tells them apart. *)
EXTENDS Proc, TLC

HartSymmetry == Permutations(CPUs)
=============================================================================
