SPECIFICATION Spec
CONSTANTS
  s1 = s1
  s2 = s2
  s3 = s3
  Slots <- ThreeSlots
  QueueLen = 2
  ReadGap = 1
  StopTime = 1
  Grace = 3
  Patient = TRUE
INVARIANTS
  OneVoiceOnceBothPlayed
PROPERTIES
  KindsTakeTurns
