CONSTANTS
  NPROC = 3
  CPUs = {c1, c2}
  Chans = {slk}
  slk = slk
  NoCPU = NoCPU
  NoProc = NoProc
  NoChan = NoChan
SPECIFICATION FairSpec
INVARIANTS LockTypeOK MutualExclusion NoLostWakeup OneHartPerProcess NoSpinlockAcrossSwtch
PROPERTIES ImplementsAbsLock
