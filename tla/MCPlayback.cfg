SPECIFICATION Spec
CONSTANTS
  s1 = s1
  s2 = s2
  s3 = s3
  Slots <- TwoSlots
  QueueLen = 2
  ReadGap = 1
  StopTime = 1
  Grace = 3
  Patient = FALSE
INVARIANTS
  TypeOK
  GraceMeansSilence
  ClearBitStopsSound
PROPERTIES
  ProcessReturns
  ClearLeadsToSilence
