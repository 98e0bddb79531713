SPECIFICATION FairSpec
CONSTANTS
  Kinds <- MCKinds
  NistTries = 2
  TestUpdates = 2
INVARIANTS TypeOK CallsAreBounded OffAfterCycle JoinsAwake FailedSetupIsRetried
PROPERTY CycleEnds
