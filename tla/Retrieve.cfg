SPECIFICATION FairSpec
CONSTANTS
  d1 = d1
  d2 = d2
  d3 = d3
  w1 = w1
  c1 = c1
  NoHead = NoHead
  Points <- MCPoints
  TextLength <- MCTextLength
  Own <- MCOwn
  Matching <- MCMatching
  Keyword <- MCKeyword
  Pages <- MCPages
  Snippets <- MCSnippets
  MaxExtra = 1
  TopDense = 3
  TopSparse = 1
  SubQueries = 2
  TopK = 2
  MaxText = 6
  MaxRetries = 1
  Crag = TRUE
  WebFallback = FALSE
  CodeFallback = TRUE
CHECK_DEADLOCK FALSE
INVARIANTS
  Consecutive
  Fitting
  Partition
  ContextSound
  CitedOnce
PROPERTIES
  NeverEmptied
  Terminates
