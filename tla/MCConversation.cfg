SPECIFICATION Spec
CONSTANTS
  Utterances = 3
  Parts = 2
  QueueLen = 2
CONSTRAINT Defined
INVARIANTS
  TypeOK
  BufferHeals
  SpoilsAtMostOne
  SaidInOrder
  PlaysTheSong
