CONSTANTS
  Modes <- AnyMode
  Interval = 6
  Day = 24
  SendEveryX = 2
  SendOffset = 2
  BatteryLevels <- AnyBattery
  PassMax = 1
  TestMax = 1
  MaxDrift = 1
  MaxPresses = 1
  MaxFailed = 2
SPECIFICATION FairSpec
INVARIANTS TypeOK BacklogBounded
PROPERTIES PostSwallowsNoReading PostsRecur
