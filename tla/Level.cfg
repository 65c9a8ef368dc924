SPECIFICATION FairSpec
CONSTANTS
  MaxUProcs = 2
  Menu <- Mixed
  Disks = {2}
  Units = {3}
  MaxCalls = 1
INVARIANTS
  NoCircularWait
  HeldByOne
PROPERTIES
  Halts
