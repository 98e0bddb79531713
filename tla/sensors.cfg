CONSTANTS
  a = a
  b = b
  c = c
  Calculated = Calculated
  Vars <- MixedVars
  Pin <- MixedPin
  ToAverage <- MixedToAverage
  Commanded <- MixedCommanded
SPECIFICATION FairSpec
INVARIANTS TypeOK OffIsForgotten NoColdMeasurement
PROPERTIES PowerCutWhenDone NothingLeftOn AskedInFull UpdateEnds
