CONSTANTS
  r1 = r1
  r2 = r2
  r3 = r3
  r4 = r4
  NoLine = NoLine
  Reading <- FourReadings
  Poison <- NoPoison
  NumPublishers = 2
  SendQueSz = 1
  PostMax = 3
  SendAtOnce = 1
  Threshold = 1
  MaxResets = 2
SPECIFICATION Spec
SYMMETRY ReadingSymmetry
INVARIANTS Backed NoDuplicates
PROPERTIES KeepsOrder LossOnlyInWindow ReturnsOnlyByReset
