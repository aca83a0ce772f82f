SPECIFICATION Spec
CONSTANTS
  N = 3
  MaxPkts = 4
  MaxRegs = 2
  AttachEvent = 1
  RxTraffic = TRUE
  GuestCPUs = 2
INVARIANT KickAnswered
INVARIANT FlagExclusion
CHECK_DEADLOCK FALSE
