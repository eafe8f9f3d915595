CONSTANTS
  Device = {d1, d2}
  Func <- CoolerFunc
  Monitor <- Cooler2
  FrameHasField = TRUE
  Overlap <- Busy
  DevicesFirst = FALSE
  None = None
  Garbled = Garbled
  MaxLine = 2
  Budget <- Noisy
SPECIFICATION FairSpec
INVARIANT ListIsOneSweep
PROPERTY StopEnds
CHECK_DEADLOCK FALSE
