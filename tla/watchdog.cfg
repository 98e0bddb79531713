SPECIFICATION Spec
CONSTANTS
  Boards <- MCBoards
  Interval = 30
  UIntMax = 300
INVARIANTS TypeOK HangIsCaught ForcedInTime
PROPERTY NoEarlyReset
