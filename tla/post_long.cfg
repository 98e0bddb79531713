CONSTANTS
  NumVars = 3
  Records <- Three
  Widths <- NarrowOrWide
  LineMax = 13
  LoggerTimeZone <- EST
SPECIFICATION Spec
INVARIANT StoredIsTheReading
