CONSTANTS
  NumVars = 3
  Records <- OneToFour
  Widths <- NarrowOrWide
  LineMax = 17
  LoggerTimeZone <- EST
SPECIFICATION Spec
INVARIANTS TypeOK LengthsAgree StoredIsTheReading AcceptedIsStored EveryLineIsRead
