CONSTANTS
  CPUs = {c1, c2}
  NLocks = 2
  NoCPU = NoCPU
SPECIFICATION Spec
INVARIANTS TypeOK MutualExclusion NoAssertionFails InterruptsOffWhileHolding RestoresX
SYMMETRY HartSymmetry
