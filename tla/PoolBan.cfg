CONSTANTS
  Account <- MCAccount
  Serving <- MCAccount
  Request = {}
  Admin = {k1}
  Attempts = 2
  Short = 1
  Minute = 1
  Hour = 1
  MaxTime = 0
  MaxJob = 1
SPECIFICATION Spec
INVARIANT InfoClearsBan
CHECK_DEADLOCK FALSE
