SPECIFICATION FairSpec
CONSTANTS
  Close <- MCSingle
  Original = 3
  Deliveries <- MCAnyOrder
  Addressed = {TRUE, FALSE}
  Faults = {}
  ManualCuts = {1}
  MaxManual = 2
  MaxLosses = 3
  MaxInbox = 3
INVARIANTS ClosedIsFlat OpenIsProtected
PROPERTY ReconnectingEnds
CHECK_DEADLOCK FALSE
