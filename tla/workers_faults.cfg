SPECIFICATION MCSpec
CONSTANTS
  b1 = b1
  b2 = b2
  Lrn = {b1, b2}
  Version = {1, 2}
  FinalStep = 3
  StopVaultStep = 1
  UpdateVaultStep = 2
  StopCKEStep = 6
  UpdateCKEStep = 7
  PromptReports = FALSE
  InitServers = {b1, b2}
  InitVersion = 1
  MaxStart = 1
  MaxStop = 1
  MaxFail = 2
  MaxCrash = 1
SYMMETRY Symmetry
VIEW View
INVARIANTS
  WorkersTypeOK
  BarrierOrder
  CompleteMeansAllSteps
  VaultStoppedInStep
CHECK_DEADLOCK FALSE
