CONSTANTS
  alice = alice
  bob = bob
  None = None
  Shares = {1, 2, 3, 4, 5}
  Created <- Dates
  Score <- Scores
  Miner <- Finders
  Miners = {alice, bob}
  Blocks = {1, 2, 3}
  BlockCreated <- BlockDates
  BlockReward <- LeftForMiners
  Window = 3
  PageSize = 2
  MaxFaults = 1
SPECIFICATION FairSpec
INVARIANT TypeOK
INVARIANT CountedOnce
INVARIANT NoGap
INVARIANT RewardsAddUp
INVARIANT RewardsAreDue
INVARIANT LaterWindowsWhole
PROPERTY BlocksPaid
CHECK_DEADLOCK FALSE
