SPECIFICATION FairSpec
CONSTANTS
  j1 = j1
  j2 = j2
  source = source
  NoJob = NoJob
  Jobs <- TwoJobs
  Sources <- OneSource
  Source <- SameSource
  Faults <- AllFaults
  MaxFaults = 1
  Requests <- AllRequests
  Attended <- OneJob
CHECK_DEADLOCK FALSE
INVARIANTS
  LogOnce
  Catalogued
PROPERTIES
  DeleteIsFinal
  JobEnds
