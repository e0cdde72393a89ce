CONSTANTS
  VIRTIO_NUM = 8
  Threads = {t1, t2, t3, t4}
  NoBuf = NoBuf
  Vals = {v1, v2}
  Stale = Stale
SPECIFICATION Spec
INVARIANTS RequestsAccounted TransferDone DescWakeupNotLost
SYMMETRY MCSymmetry
CHECK_DEADLOCK FALSE
