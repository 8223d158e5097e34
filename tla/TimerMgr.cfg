SPECIFICATION Spec
CONSTANTS
  MaxTimerNum = 2
  INVALID_ID = 65535
  Types = {a, b}
  Delays = {1, 2}
  MaxTime = 4
INVARIANTS
  TypeOK
  IdsMatchQueue
  QueueSorted
  NeverOversleeps
  QuietOnceStopped
PROPERTIES
  TimersGoOff
  StopReturns
  ImplementsTimerSpec
