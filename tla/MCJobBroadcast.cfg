SPECIFICATION FairSpec
CONSTANTS
  Clients = {c1}
  MaxJob = 2
  Difficulties = {2, 3}
  PortDifficulty = 2
  None = None
  Tasks = {1, 2}
  MaxRequests = 3
  MaxSilent = 1
INVARIANT TypeOK
INVARIANT NoJobMissed
INVARIANT DifficultyTold
PROPERTY JobsArrive
CHECK_DEADLOCK FALSE
