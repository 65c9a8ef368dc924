SPECIFICATION ServicesSpec
CONSTANTS
  Proc = {"p1", "p2", "p3"}
  Daemon = "daemon"
  Adl = "adl"
  NumDesc = 3
  Seconds <- Delays
  Second = 2
  Width = 16
  Start = 0
  Horizon = 5
  MaxUProcs = 3
  PoolSize = 4
  MaxSupports = 4
  None = None
INVARIANTS
  SleepersListed
  TestIsLast
  ExclusiveOnDeath
PROPERTIES
  ImplementsAlarms
  SleeperWakes
CHECK_DEADLOCK FALSE
