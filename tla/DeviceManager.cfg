SPECIFICATION Spec
CONSTANTS
  Macs = {m1, m2}
  Callbacks = {c1}
  MaxChanges = 5
  MaxEngines = 0
INVARIANTS
  ActiveDeviceChosen
CHECK_DEADLOCK FALSE
