SPECIFICATION Spec
CONSTANTS
  N = 3
  MaxPkts = 4
  MaxRegs = 1
  AttachEvent = 0
  RxTraffic = FALSE
  GuestCPUs = 1
INVARIANT PayloadIntact
CHECK_DEADLOCK FALSE
