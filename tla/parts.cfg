SPECIFICATION PartsSpec
CONSTANTS
  Caller = {c1, c2}
  Made = {"uploadTemperature", "uploadVacuum", "sendOT2CutImage", "sendLogMsg"}
  MaxCalls = 2
  Nothing = Nothing
  Writer = {w1, w2}
  LastDay = 5
  DayOfMonth <- MCDayOfMonth
  Silence = 3
  Never = Never
  Delay = {1, 4}
  Errors <- MCErrors
  Drift <- MCDrift
  Period = 60
  Limit = 3
  MaxFail = 2
  MaxPeriods = 4
  MaxLate = 1
  NoReply = NoReply
  Slots = 2
  Texts <- MCTexts
  Numbers <- MCNumbers
  MaxSaid = 3
  Sweep = 2
  Cycle = 10
  Beat = 15
  Slack = 1
  Exchange = 1
  MaxUpload = 11
  MaxWrites = 1
  Jumps <- MCJumps
  MaxSteps = 1
  Proc = {p1, p2}
  Files <- MCFiles
  MaxStarts = 2
  Missing = Missing
INVARIANTS
  ReturnsClean
  GlobalHeld
  WholeLines
  InFileOfItsDay
  OwnAnswer
  ValidIsCounted
  ReadBack
  OneService
  ServesTheFile
PROPERTIES
  SyncIsAccurate
  AlarmIsTrue
  DeadIsReported
  SignalEnds
CHECK_DEADLOCK FALSE
