SPECIFICATION MCFairSpec
CONSTANTS
  b1 = b1
  b2 = b2
  Lrn = {b1, b2}
  Version = {1, 2}
  FinalStep = 2
  StopVaultStep = 6
  UpdateVaultStep = 7
  StopCKEStep = 8
  UpdateCKEStep = 9
  PromptReports = FALSE
  InitServers = {b1, b2}
  InitVersion = 1
  UpdaterHosts = {b1}
  MaxFault = 1
PROPERTIES
  EveryRoundEnds
  WorkersSpec
  UpdatersSpec
CHECK_DEADLOCK FALSE
