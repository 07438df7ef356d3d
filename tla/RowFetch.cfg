SPECIFICATION FetchSpec
CONSTANTS
  NumRows = 4
  TLimit = 1
  MaxTime = 6
  MaxId = 5
  MaxBatch = 2
PROPERTIES RepliesCorrect
CHECK_DEADLOCK FALSE
