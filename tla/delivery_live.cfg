CONSTANTS
  r1 = r1
  r2 = r2
  r3 = r3
  r4 = r4
  NoLine = NoLine
  Reading <- FourReadings
  Poison <- NoPoison
  NumPublishers = 1
  SendQueSz = 2
  PostMax = 0
  SendAtOnce = 1
  Threshold = 1
  MaxResets = 0
SPECIFICATION FairSpec
INVARIANT QueBounded
PROPERTIES QueuedIsDelivered KeepsContract
