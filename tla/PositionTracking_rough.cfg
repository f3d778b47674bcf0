SPECIFICATION Spec
CONSTANTS
  Close <- MCClose2
  Original = 3
  Deliveries <- MCAnyOrder
  Addressed = {TRUE, FALSE}
  Faults = {"fetch", "cancel", "sync", "place"}
  ManualCuts = {1}
  MaxManual = 1
  MaxLosses = 2
  MaxInbox = 3
INVARIANT LevelAppliedOnce
CHECK_DEADLOCK FALSE
