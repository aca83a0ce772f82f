SPECIFICATION Spec
CONSTANTS
  N = 3
  MaxPkts = 5
  MaxRegs = 1
  AttachEvent = 0
  RxTraffic = TRUE
  GuestCPUs = 1
INVARIANT LengthLap
CHECK_DEADLOCK FALSE
