SPECIFICATION MCSpec
CONSTANTS
  Lrn = {0, 1, 2}
  InitServers = {0, 1}
  None = None
  Requests <- MCRequests
  Slot = 4
  Calm = 1
  Skew = 1
  MaxDown = 1
  DHCP <- MCDHCP
  VIP = "10.71.255.6"
  Setters = {1}
  MaxEvent = 1
  MaxRound = 2
INVARIANTS EtcdTypeOK RestartsApart
PROPERTIES RemovesOnlyLeft MembersConverge AddressesConverge
CHECK_DEADLOCK FALSE
