SPECIFICATION Spec
CONSTANTS
  MaxProc = 20
  MaxSlices = 2
  ClockLoop = 2
  Incarnations = 4
PROPERTIES
  CreateReports
CHECK_DEADLOCK FALSE
