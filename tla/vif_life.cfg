SPECIFICATION FairSpec
CONSTANTS
  MaxRegs = 2
INVARIANT TypeOK
INVARIANT IrqPaired
INVARIANT NotifyBound
PROPERTY KickServed
PROPERTY RxPermission
PROPERTY StopEnds
CHECK_DEADLOCK FALSE
