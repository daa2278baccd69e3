SPECIFICATION MCSpec
CONSTANTS
  b1 = b1
  b2 = b2
  Lrn = {b1, b2}
  Version = {1, 2}
  FinalStep = 1
  InitServers = {b1}
  InitVersion = 1
  UpdaterHosts = {b1, b2}
  MaxRecover = 1
  MaxLate = 1
  MaxPublish = 2
  MaxFault = 1
  MaxTimeout = 1
  MaxMember = 0
INVARIANTS
  UpdatersTypeOK
  NoDowngrade
PROPERTIES
  HaltsUntilRecovered
  NoPreemption
CHECK_DEADLOCK FALSE
