CONSTANTS
  Shares <- ThreeShares
  Candidates <- FoundBlock
  BufferSize = 2
  ImportSize = 2
  RetryCount = 1
  BreakerLimit = 2
  MaxUnreported = 0
  MaxImports = 1
SPECIFICATION Spec
INVARIANT ImportStoresFile
CHECK_DEADLOCK FALSE
