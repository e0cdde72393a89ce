CONSTANTS
  CPUs = {c1, c2}
  Threads = {t1, t2, t3}
  NoThread = NoThread
  MaxNest = 2
SPECIFICATION SwSpec
INVARIANTS NoffFollowsLocks
SYMMETRY MCSymmetry
CHECK_DEADLOCK FALSE
