SPECIFICATION Spec
CONSTANTS
  d1 = d1
  d2 = d2
  b1 = b1
  b2 = b2
  Docs = {d1, d2}
  Batches = {b1, b2}
  Plans <- PairOrAgain
  Workers = {w1, w2}
  None = None
  MaxConcurrent = 1
  ChunkCap = 1
  Windows = 2
INVARIANTS ResultsExact TokensReturned CompletedIsIndexed RetryLeavesNoDuplicates
CHECK_DEADLOCK FALSE
PROPERTY WaitReturns
