SPECIFICATION FairSpec
CONSTANTS
  N = 5
  MaxPkts = 10
  MaxRegs = 1
  AttachEvent = 0
  RxTraffic = FALSE
  GuestCPUs = 1
INVARIANT TypeOK
INVARIANT LengthLap
INVARIANT SingleCredit
PROPERTY ReclaimCompleted
PROPERTY TxRoom
PROPERTY TxForwarded
CHECK_DEADLOCK FALSE
