SPECIFICATION Spec
CONSTANTS
  N = 5
  MaxPkts = 7
  MaxRegs = 1
  AttachEvent = 0
  RxTraffic = FALSE
  GuestCPUs = 1
INVARIANT LengthFifo
CHECK_DEADLOCK FALSE
