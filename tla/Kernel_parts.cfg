SPECIFICATION PartsSpec
CONSTANTS
  Procs = {"a", "b"}
  NoProc = "NULL"
  Slice = 2
  MaxClock = 4
  Codes = {0, 1, 2, 3, 4, 8, 12}
  Numbers = {0, 1, 2, 8, 9, 18, 19}
  Lines = {1, 2, 3}
  MaxPc = 2
INVARIANTS
  ListsSound
  Due
  Restarts
  ChargedRight
PROPERTIES
  ImplementsLists
  ReadingsAgree
CHECK_DEADLOCK FALSE
