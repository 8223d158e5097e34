SPECIFICATION Spec
CONSTANTS
  Macs = {m1}
  Callbacks = {c1}
  MaxChanges = 3
  MaxEngines = 1
INVARIANTS
  FacadeFollowsDevice
CHECK_DEADLOCK FALSE
