SPECIFICATION FairSpec
CONSTANTS
  r1 = r1
  r2 = r2
  p1 = p1
  p2 = p2
  Relays = {r1, r2}
  Processors = {p1, p2}
  Unreadable <- MCUnreadable
  HighWaterMark <- MCHighWaterMark
  None = None
  MaxShares = 2
  MaxFaults = 1
INVARIANT TypeOK
INVARIANT Accounted
PROPERTY ImplementsChannel
PROPERTY GetsThrough
PROPERTY Reconnects
CHECK_DEADLOCK FALSE
