SPECIFICATION Spec
CONSTANTS
  s1 = s1
  s2 = s2
  Slots <- TwoSlots
  SetupTime = 4
  TurnTime = 2
  Continues = 2
  StopTime = 3
  Grace = 10
INVARIANTS
  TypeOK
  OneControl
PROPERTIES
  HardwareHasOneUser
  ControlReturns
