CONSTANTS
  p1 = p1
  p2 = p2
  miner = miner
  recipient = recipient
  None = None
  Pools = {p1}
  Blocks = {1, 2}
  BlockPool <- OnePool
  BlockHeight <- Ascending
  Accounts = {miner, recipient}
  AccountPool <- AccountsOfOnePool
  Recipients = {recipient}
  Reward <- Rewards
  MinPayment = 2
  MinerMinimums = {0, 3}
  AdminAmounts <- Corrections
  MinConfirmations = 2
  FinalDepth = 2
  PageSize = 1
  RetryCount = 1
  MaxLag = 1
  MaxHeight = 3
  MaxFaults = 0
  MaxOutside = 0
SPECIFICATION Spec
INVARIANT ConfirmedIsMature
