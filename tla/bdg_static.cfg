SPECIFICATION Spec
CONSTANTS
  NBridges = 1
  NHash = 2
  Macs = {1, 2, 3}
  Ips = {1}
  MacHash <- MCMacHash
  IpHash <- MCIpHash
  Lines <- MCLines
  NPorts = 3
  MaxIoctls = 3
INVARIANT TypeOK
INVARIANT IpNamed
INVARIANT ListComplete
INVARIANT EntrySaid
CHECK_DEADLOCK FALSE
