CONSTANTS
  Share <- MCShare
  Counter <- MCCounter
  MaxSplitEdit = 1

  Piece <- MCPiece
  MaxEvent = 4
  MaxHold = 2

  Said <- MCSaid
  Id = {c1, c2}
  Body = 3
  MaxTold = 7
  Limits = {12}
  HardTarget = 8
  MinRecent = 2
  MinField = 1
  MaxTurn = 4

  MaxUses = {0, 1, 2, 9}
  maxWebSearchRounds = 3
  MaxUse = 2

  Client = {u1}
  MaxResp = 4
  MaxPart = 3
  maxResponsesHistoryDepth = 1
  MaxRespMishap = 1

  CacheAccount = {g1}
  Asking = {q1, q2}
  CachePrompt <- MCCachePrompt
  Extra = {0, 2}
  MinCacheable = 2
  Brief = 1
  Lasting = 2
  MaxHour = 2
SPECIFICATION RequestsSpec
INVARIANTS RequestsTypeOK AnsweredAndBookedOnce AskedAsShared
INVARIANTS TextIsWhole NoNameInHalves CallsAreWhole KiroAccepts ResultsReachKiro FitsTheModel
INVARIANTS SearchLoopIsExact HistoryIsWhole StreamIsTheObject UsageIsPlausible
CHECK_DEADLOCK FALSE
