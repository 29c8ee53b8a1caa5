SPECIFICATION FairSpec
CONSTANTS
  a = a  b = b  c = c  d = d
  alice = alice  bob = bob  alices = alices  bobs = bobs
  p1 = p1  q1 = q1  q2 = q2
  None = None
  Requests <- FourRequests
  Sessions <- TwoSessions
  Users <- TwoUsers
  Queries <- TwoQueries
  Processes <- OneProcess
  Session <- SessionOf
  Owner <- OwnerOf
  Query <- QueryOf
  Streams <- OnlyB
  Process <- ProcessOf
  Followed <- OnlyB
  Past <- Before
  Similar <- Alike
  MaxTurns = 3
  MaxTokens = 7
  AnswerSize = 2
  Trigger = 2
  Faults <- AllFaults
  MaxFaults = 1
CHECK_DEADLOCK FALSE
INVARIANTS
  ServedOwn
  InOrder
  SummaryFresh
  NoPartialAnswer
PROPERTIES
  Ends
