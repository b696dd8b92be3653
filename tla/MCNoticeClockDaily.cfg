SPECIFICATION Spec
CONSTANTS
  Hours = 2
  Mins = 1
  Secs = 5
  Grace = 1
  Announce = 1
PROPERTIES
  RingsEveryDay
