CONSTANTS
  Threads = {t1, t2, t3}
  Blocks = {b1, b2, b3}
  NBuf = 2
  MaxVer = 1
  Unused = Unused
  None = None
SPECIFICATION Spec
INVARIANTS TypeOK RefCountsUsers OneBufferPerBlock UsersKeepTheirBlock CacheCoherent
SYMMETRY UserSymmetry
