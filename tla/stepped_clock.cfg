SPECIFICATION BeatSpec
CONSTANTS
  Sweep = 2
  Cycle = 20
  Beat = 30
  Slack = 1
  Exchange = 2
  MaxUpload = 22
  MaxWrites = 0
  Jumps = {7}
  MaxSteps = 1
INVARIANT NoFalseAlarm
CHECK_DEADLOCK FALSE
