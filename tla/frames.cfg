SPECIFICATION Spec
CONSTANTS
  Devices <- MCDevices
  Fields <- MCFields
  WRITE = 22
  PRES = 11
  Tenths <- MCTenths
  Texts <- MCTexts
  Settings <- MCSettings
  IntSettings <- MCIntSettings
  Stray <- MCStray
  StrayByte <- MCStrayByte
  Capacity = 52
  ReadSizes = {1, 9}
  MaxNoise = 2
  MsgSize = 30
  MaxExchanges = 2
  Unset = Unset
  None = None
INVARIANTS
  TypeOK
  FitsMessage
  Heard
  StoredAsSaid
  LogCurrent
CHECK_DEADLOCK FALSE
