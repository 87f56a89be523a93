CONSTANTS
  Shares <- ThreeShares
  Candidates <- FoundBlock
  BufferSize = 2
  ImportSize = 2
  RetryCount = 1
  BreakerLimit = 2
  MaxUnreported = 1
  MaxImports = 2
SPECIFICATION FairSpec
INVARIANT TypeOK
INVARIANT Accounted
INVARIANT SuccessIsTrue
PROPERTY Settled
CHECK_DEADLOCK FALSE
