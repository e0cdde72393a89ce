---------------------------- MODULE MCSleepLock ----------------------------
(* SleepLock for TLC; the constants are given in the .cfg files. *)
EXTENDS SleepLock
=============================================================================
