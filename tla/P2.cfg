SPECIFICATION FairSpec
CONSTANTS
  MaxProc = 9
  MaxSlices = 1
  ClockLoop = 2
  Incarnations = 4
INVARIANTS
  TestPasses
PROPERTIES
  Finishes
CHECK_DEADLOCK FALSE
