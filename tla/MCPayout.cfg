CONSTANTS
  p1 = p1
  p2 = p2
  miner = miner
  recipient = recipient
  None = None
  Pools = {p1}
  Blocks = {1, 2}
  BlockPool <- OnePool
  BlockHeight <- Ascending
  Accounts = {miner, recipient}
  AccountPool <- AccountsOfOnePool
  Recipients = {recipient}
  Reward <- Rewards
  MinPayment = 2
  MinerMinimums = {0, 3}
  AdminAmounts <- Corrections
  MinConfirmations = 5
  FinalDepth = 4
  PageSize = 1
  RetryCount = 1
  MaxLag = 0
  MaxHeight = 6
  MaxFaults = 3
  MaxOutside = 1
SPECIFICATION FairSpec
INVARIANT TypeOK
INVARIANT CreditedOnce
INVARIANT EarnedFromConfirmed
INVARIANT VerdictsAreFinal
INVARIANT TransfersBooked
INVARIANT NeverOverpaid
PROPERTY StatusIsFinal
PROPERTY LedgerSpec
PROPERTY BlocksDecided
PROPERTY BalancesPaidOut
