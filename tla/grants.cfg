SPECIFICATION FairSpec
CONSTANTS
  RingPages = 2
  NSlots = 4
  TxBase = 2
  NRefs = 16
  Elsewhere = {1, 2, 6}
  MaxVifs = 2
  MaxAttach = 2
  LostCommits = {FALSE}
INVARIANT TypeOK
INVARIANT RingShared
INVARIANT BuffersShared
INVARIANT GrantsBalanced
PROPERTY SetupEnds
CHECK_DEADLOCK FALSE
