CONSTANTS
  Modes <- Reliably
  Interval = 3
  Day = 6
  SendEveryX = 2
  SendOffset = 1
  BatteryLevels <- WeakBattery
  PassMax = 1
  TestMax = 0
  MaxDrift = 0
  MaxPresses = 0
  MaxFailed = 1
  Reading <- MCReadings
  Poison <- NoPoison
  NoLine = NoLine
  NumPublishers = 1
  SendQueSz = 65535
  PostMax = 0
  SendAtOnce = 1
  Threshold = 5
  MaxResets = 1
  MaxQueued = 3
SPECIFICATION StationSpec
INVARIANTS FileBounded
PROPERTIES CardArrives DrivesQueue
