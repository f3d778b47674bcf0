SPECIFICATION ProgressSpec
CONSTANTS
  MaxAttempts = 2
  MaxLosses = 3
  MaxFailures = 5
  VsLevels = {l1, l2}
  VsStreams = 2
  PaJobs = {1, 2}
  PaAttempts = 2
  PaWorkers = {a, b}
  PaDeaths = 1
  NtEvents = {1, 2}
  NtPasses = {p, q}
  NtAttempts = 1
  NtDeaths = 1
  PcShares <- MCShares
  PcCloses = 1
INVARIANTS DisconnectedHasNoStream FillsReachTheirLevel ClosedRowIsFlat
PROPERTIES LossesAreRepaired SilencesAreNoticed  AllFlatPositionsClose
CHECK_DEADLOCK FALSE
