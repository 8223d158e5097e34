SPECIFICATION Spec
CONSTANTS
  Macs = {m1}
  Callbacks = {c1}
  MaxChanges = 3
  MaxEngines = 1
INVARIANTS
  TypeOK
  OneSession
  FacadeInStep
  CommandsReachSession
  CallbackCarriedOver
  OtherInStep
PROPERTIES
  DetectionAnswered
  ProcessEnds
CHECK_DEADLOCK FALSE
