CONSTANTS
  r1 = r1
  r2 = r2
  r3 = r3
  r4 = r4
  NoLine = NoLine
  Reading <- FourReadings
  Poison <- OnePoison
  NumPublishers = 2
  SendQueSz = 65535
  PostMax = 2
  SendAtOnce = 2
  Threshold = 1
  MaxResets = 0
SPECIFICATION Spec
SYMMETRY ReadingSymmetry
INVARIANTS TypeOK FirstLosesNothing NothingResent
