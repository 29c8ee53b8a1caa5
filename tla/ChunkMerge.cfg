SPECIFICATION FairMergeSpec
CONSTANTS
  N = 5
  Texts <- MCTexts
  MaxSeg = 5
  ChunkSize = 4
  Overlap = 2
CHECK_DEADLOCK FALSE
INVARIANTS
  Bounded
  Covered
  Slides
PROPERTIES
  Terminates
