CONSTANTS
  Device = {d1, d2}
  Func <- VacuumFunc
  Monitor <- Vacuum3
  FrameHasField = FALSE
  Overlap <- InTimeOnly
  DevicesFirst = TRUE
  None = None
  Garbled = Garbled
  MaxLine = 3
  Budget <- Lossy
SPECIFICATION FairSpec
INVARIANTS TypeOK NoUndef OneOutstanding ReadingsRight ReportComplete InTimeInv
PROPERTIES StopsAndWaits ReportedUndisturbed
CHECK_DEADLOCK FALSE
