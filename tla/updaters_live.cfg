SPECIFICATION MCFairSpec
CONSTANTS
  b1 = b1
  b2 = b2
  Lrn = {b1, b2}
  Version = {1, 2}
  FinalStep = 1
  InitServers = {b1}
  InitVersion = 1
  UpdaterHosts = {b1}
  MaxRecover = 0
  MaxLate = 1
  MaxPublish = 1
  MaxFault = 1
  MaxTimeout = 1
  MaxMember = 1
PROPERTIES
  EveryReleaseIsRequested
  EventuallySettles
CHECK_DEADLOCK FALSE
