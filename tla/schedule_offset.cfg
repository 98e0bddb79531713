CONSTANTS
  Modes <- Reliably
  Interval = 3
  Day = 12
  SendEveryX = 2
  SendOffset = 7
  BatteryLevels <- GoodBattery
  PassMax = 1
  TestMax = 1
  MaxDrift = 0
  MaxPresses = 0
  MaxFailed = 0
SPECIFICATION FairSpec
PROPERTY PostsRecur
