SPECIFICATION FairSpec
CONSTANTS
  pool = pool
  miner = miner
  payments = payments
  request1 = request1
  request2 = request2
  request3 = request3
  request4 = request4
  Addresses = {pool, miner}
  Threads = {payments, request1, request2, request3, request4}
  Payer = payments
  Work <- MCWork
  PoolSize = 3
  None = None
  MaxCrashes = 1
INVARIANT TypeOK
INVARIANT JournalMatches
PROPERTY AddsAtomically
PROPERTY Settles
CHECK_DEADLOCK FALSE
