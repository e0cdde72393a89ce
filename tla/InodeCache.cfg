CONSTANTS
  Threads = {t1, t2}
  Names = {n1, n2}
  NInum = 2
  NSlot = 2
  MaxLink = 2
  None = None
SPECIFICATION Spec
INVARIANTS RefsExact SlotKeepsInode
SYMMETRY MCSymmetry
