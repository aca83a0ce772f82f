SPECIFICATION Spec
CONSTANTS
  Threads = {t1, t2}
  Macs = {1, 2}
  NPorts = 2
  RtHash <- MCRtHash
  LsbHash <- MCLsbHash
INVARIANT TypeOK
PROPERTY FoundDst
PROPERTY FoundShared
SYMMETRY ThreadSymmetry
