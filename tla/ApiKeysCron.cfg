CONSTANTS
  Key = {k1}
  Title <- MCTitle
  Worker = {w1}
  Request = {r1}
  Hours <- MCHours
  Delta <- MCDelta
  Limit <- MCLimit
  MaxTime = 2
  MaxUsed = 1
  MaxLimit = 1
  MaxOp = 1
SPECIFICATION CronSpec
PROPERTIES ExpiredKeyIsDisabled
CHECK_DEADLOCK FALSE
