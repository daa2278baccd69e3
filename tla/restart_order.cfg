SPECIFICATION MCSpec
CONSTANTS
  Lrn = {1, 2, 10}
  InitServers = {1, 2, 10}
  None = None
  Requests <- All
  Slot = 4
  Calm = 1
  Skew = 1
  MaxDown = 1
  DHCP <- MCDHCP
  VIP = "10.71.255.6"
  Setters = {}
  MaxEvent = 0
  MaxRound = 1
INVARIANT RestartsApart
CHECK_DEADLOCK FALSE
