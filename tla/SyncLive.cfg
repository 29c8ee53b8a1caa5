SPECIFICATION FairSpec
CONSTANTS
  NoFile = NoFile
  NoRow = NoRow
  f1 = f1
  f2 = f2
  r1 = r1
  r2 = r2
  s1 = s1
  s2 = s2
  l1 = l1
  l2 = l2
  Files <- OneFile
  Rows <- OneRow
  Syncs <- TwoSyncs
  Loads <- OneLoad
  MaxRetries = 0
  MaxClock = 1
  Faults <- OnlyCrash
  MaxFaults = 1
  Actors <- BeatOnly
  YieldsChanges = TRUE
  GivesToken = FALSE
  CursorMode = "always"
  EagerLoads = TRUE
PROPERTIES
  CatchesUp
CHECK_DEADLOCK FALSE
