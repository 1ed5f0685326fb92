CONSTANTS
  Account <- MCAccount
  Serving <- MCAccount
  Request = {m1}
  Admin = {k1}
  Attempts = 2
  Short = 1
  Minute = 1
  Hour = 1
  MaxTime = 1
  MaxJob = 2

  Slots = 3
  Owner <- MCOwner
  Picker = {c1, c2, c3}
  Wrap = 5

  PoolAccount = {a1, a2}
  Warming = {a1}
  Caller = {r1, r2}
  NoBackend = NoBackend
  Threshold = 2
  MaxTrouble = 2

  Asker = {q1, q2}
  Renewer = {b1}
  Clerk = {k1}
  MaxIssue = 2

  Login = {l1, l2}
  Tab = {t1, t2}
  Poller = {p1, p2}
  Pasted = {"id", "other"}
  MaxRecord = 3
SPECIFICATION AccountsSpec
INVARIANTS AccountsTypeOK PoolFollowsConfig PassedOverForATurn LoadIsExact PoolIsEnabled TokenIsKept SignInIsExact
PROPERTIES CoolingLastResort
CHECK_DEADLOCK FALSE
