CONSTANTS
  Device = {d1, d2}
  Func <- CoolerFunc
  Monitor <- Cooler2
  FrameHasField = TRUE
  Overlap <- InTimeOnly
  DevicesFirst = TRUE
  None = None
  Garbled = Garbled
  MaxLine = 3
  Budget <- OneLost
SPECIFICATION FairSpec
PROPERTY ReportedForever
CHECK_DEADLOCK FALSE
