CONSTANTS
  c1 = c1
  c2 = c2
  alice = alice
  bob = bob
  None = None
  Clients = {c1, c2}
  Miners = {alice, bob}
  Jobs = {1, 2}
  Height <- Heights
  MaxBlockBacklog = 1
  Target <- Targets
  JobDifficulty <- Told
  One = 2
  PortDifficulty = 7
  Difficulties = {7, 8}
  Texts = {1, 3}
  ToLower <- LowerCase
  Nonces = {1}
  HexToByteArray <- Bytes
  Proves <- HashOf
  NonceMax = 1
  Tasks = {1, 2}
  MaxSubscriptions = 2
  MaxAuthorizations = 2
SPECIFICATION Spec
INVARIANT TypeOK
INVARIANT NonceCountsOnce
INVARIANT CreditIsProven
INVARIANT CountsForSender
INVARIANT BlocksRecorded
SYMMETRY Symmetric
CHECK_DEADLOCK FALSE
