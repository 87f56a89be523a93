CONSTANTS
  c1 = c1
  c2 = c2
  alice = alice
  bob = bob
  None = None
  Clients = {c1}
  Miners = {alice}
  Jobs = {1}
  Height <- Heights
  MaxBlockBacklog = 1
  Target <- Targets
  JobDifficulty <- Told
  One = 2
  PortDifficulty = 7
  Difficulties = {7}
  Texts = {1, 2, 4}
  ToLower <- LowerCase
  Nonces = {1, 4}
  HexToByteArray <- Bytes
  Proves <- HashOf
  NonceMax = 1
  Tasks = {1, 2, 3}
  MaxSubscriptions = 1
  MaxAuthorizations = 1
SPECIFICATION Spec
INVARIANT RepeatsRejected
CHECK_DEADLOCK FALSE
