SPECIFICATION FairSpec
CONSTANTS
  N = 3
  SeqMod = 1
  MaxRegs = 1
  EarlyTraffic = FALSE
  TxTraffic = TRUE
  Senders = {s1, s2}
INVARIANT RxKickAnswered
PROPERTY RxRearmed
PROPERTY TailPublished
PROPERTY RxImported
CHECK_DEADLOCK FALSE
