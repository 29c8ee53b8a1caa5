SPECIFICATION FairSpec
CONSTANTS
  Chars <- Sizes
  Rule = 4
  MinPage = 5
  MinArticle = 10
  MinLine = 8
  Near <- NoneClose
  ChunkSize = 3
  Overlap = 1
  MinChunk = 4
  Headings <- Titles
  Jobs <- TwoJobs
  Searches <- TwoSearches
  Removals <- OneRemoval
  Indexers <- FourIndexers
  Uses <- OwnIndexer
  Path <- Temporary
  Loads <- EveryLoad
  EmbedBatch = 2
  UpsertBatch = 2
  MaxRetries = 1
  MaxFaults = 2
INVARIANTS
  Whole
PROPERTIES
  Kept
  Ends
CHECK_DEADLOCK FALSE
