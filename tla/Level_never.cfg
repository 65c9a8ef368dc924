SPECIFICATION FairSpec
CONSTANTS
  MaxUProcs = 2
  Menu <- Readers
  Disks = {3}
  Units = {3}
  MaxCalls = 1
PROPERTIES
  TestTerminates
