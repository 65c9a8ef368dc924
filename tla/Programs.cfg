SPECIFICATION SpecPrograms
CONSTANTS
  Mixes <- Together
  Line <- Lines
  NumFrames = 2
  Capacity = 25
  MaxBlock = 64
  Unready <- OnTerminals
INVARIANTS
  TestsPass
  ResultsTrue
PROPERTIES
  AllEnd
CHECK_DEADLOCK FALSE
