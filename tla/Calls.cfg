SPECIFICATION CallsSpec
CONSTANTS
  Proc = {1, 2}
  Device <- Disk1
  Request = {"put", "get"}
  Block = {0, 2, 6}
  MaxCyl = 3
  MaxHead = 2
  MaxSect = 1
  MaxBlock = 4
  Val = {v1, v2}
  None = None
  NumFrames = 1
  Failures = TRUE
  Deaths = TRUE
  Length <- Lengths
  MaxLength = 2
  Char = {"a", "b"}
  Junk <- Junks
  Room = 3
INVARIANTS
  DeviceSafe
  LineRead
  PrinterStops
PROPERTIES
  ImplementsBlockStore
SYMMETRY Symmetric
CHECK_DEADLOCK FALSE
