-------------------------------- MODULE Cpu --------------------------------
(***************************************************************************)
(* The interrupt state of a hart: the SIE bit of sstatus, and the depth    *)
(* and the state to go back to that push_off and pop_off keep in its cpu_t *)
(* (src/kernel/lib/type.h).  Modules Spinlock and IntrSwtch follow it, one *)
(* through the lock operations and one through swtch.                      *)
(***************************************************************************)

CONSTANT CPUs                   \* harts

VARIABLES intr, noff, origin    \* sstatus.SIE; cpu_t.noff and cpu_t.origin

=============================================================================
