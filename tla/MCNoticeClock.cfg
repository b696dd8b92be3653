SPECIFICATION Spec
CONSTANTS
  Hours = 2
  Mins = 2
  Secs = 5
  Grace = 1
  Announce = 1
INVARIANTS
  TypeOK
  RingsOnce
  RingsAsSet
  RingsInItsMinute
