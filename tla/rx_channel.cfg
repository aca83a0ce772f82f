SPECIFICATION Spec
CONSTANTS
  N = 3
  SeqMod = 5
  MaxRegs = 1
  EarlyTraffic = TRUE
  TxTraffic = TRUE
  Senders = {s1, s2}
INVARIANT TypeOK
INVARIANT RegionOrder
PROPERTY ChannelSpec
SYMMETRY SenderSymmetry
CHECK_DEADLOCK FALSE
