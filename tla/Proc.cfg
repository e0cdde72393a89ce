CONSTANTS
  NPROC = 3
  CPUs = {c1, c2}
  Chans = {0, 1, 2}
  NoCPU = NoCPU
  NoProc = NoProc
  NoChan = NoChan
SPECIFICATION Spec
INVARIANTS TypeOK NoLostChildWakeup ParentAlive
PROPERTIES ZombieOnlyReaped
SYMMETRY HartSymmetry
CHECK_DEADLOCK FALSE
