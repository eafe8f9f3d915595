CONSTANTS
  Device = {d1, d2}
  Func <- CoolerFunc
  Monitor <- Cooler2
  FrameHasField = TRUE
  Overlap <- UploadOutlasts
  DevicesFirst = TRUE
  None = None
  Garbled = Garbled
  MaxLine = 3
  Budget <- NoFaults
SPECIFICATION FairSpec
PROPERTY ReportedForever
CHECK_DEADLOCK FALSE
