SPECIFICATION ClockSpec
CONSTANTS
  Delay = {1}
  Errors = {0}
  Drift = {0}
  Period = 60
  Limit = 3
  MaxFail = 2
  MaxPeriods = 4
  MaxLate = 0
  NoReply = NoReply
INVARIANT ValidIsRecent
CHECK_DEADLOCK FALSE
