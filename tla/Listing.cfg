SPECIFICATION FairSpec
CONSTANTS
  Files <- ThreeFiles
  Home <- TwoBoxes
  Boxes = 2
  Binary <- OneBinary
  Adapters <- EveryAdapter
  PageSize = 1
  MaxClock = 5
  MaxRuns = 2
  TextOrder <- FromEight
INVARIANTS
  Complete
  MarkSafe
PROPERTIES
  Stops
CHECK_DEADLOCK FALSE
