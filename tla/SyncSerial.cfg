SPECIFICATION Spec
CONSTANTS
  NoFile = NoFile
  NoRow = NoRow
  f1 = f1
  f2 = f2
  r1 = r1
  r2 = r2
  s1 = s1
  s2 = s2
  l1 = l1
  l2 = l2
  Files <- OneFile
  Rows <- TwoRows
  Syncs <- OneSync
  Loads <- OneLoad
  MaxRetries = 1
  MaxClock = 1
  Faults <- AllFaults
  MaxFaults = 1
  Actors <- EveryActor
  YieldsChanges = TRUE
  GivesToken = FALSE
  CursorMode = "always"
  EagerLoads = TRUE
SYMMETRY Slots
INVARIANTS
  OneRowPerFile
PROPERTIES
  TokenNeverRegresses
CHECK_DEADLOCK FALSE
