SPECIFICATION Spec
CONSTANTS
  MaxTimerNum = 2
  INVALID_ID = 65535
  Types = {"UPDATE_RETRY"}
  CloneInfos = {i1, i2}
  RetryTimes = 2
  MaxRequests = 4
INVARIANTS
  TypeOK
  OneHeavyEngine
  QuietWhenIdle
  ForceReleaseIsFinal
  RetriesBounded
  UpdateNotForgotten
  ToldOnce
  SuccessIsReal
PROPERTIES
  ClearedVersionStaysAway
  UpdateEnds
CHECK_DEADLOCK FALSE
