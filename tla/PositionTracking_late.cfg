SPECIFICATION Spec
CONSTANTS
  Close <- MCClose3
  Original = 4
  Deliveries <- MCAnyOrder
  Addressed = {TRUE}
  Faults = {}
  ManualCuts = {}
  MaxManual = 1
  MaxLosses = 0
  MaxInbox = 3
INVARIANT ClosedIsFlat
CHECK_DEADLOCK FALSE
