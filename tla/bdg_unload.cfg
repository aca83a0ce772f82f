SPECIFICATION Spec
CONSTANTS
  NBridges = 2
  NHash = 2
  Macs = {1, 2, 3}
  Ips = {1}
  MacHash <- MCMacHash
  IpHash <- MCIpHash
  Lines <- MCLines
  NPorts = 3
  MaxIoctls = 3
INVARIANT FnPresent
CHECK_DEADLOCK FALSE
