CONSTANTS
  Key = {k1}
  Title <- MCTitle
  Worker = {w1, w2}
  Request = {r1, r2}
  Hours <- MCHours
  Delta <- MCDelta
  Limit <- MCLimit
  MaxTime = 1
  MaxUsed = 3
  MaxLimit = 2
  MaxOp = 2
SPECIFICATION Spec
INVARIANTS TypeOK OvershootIsBounded UsageIsNotLost
PROPERTIES DeletedStaysDeleted TimeLeftIsKept UnlimitedIsAsked
SYMMETRY MCSymmetry
CHECK_DEADLOCK FALSE
