CONSTANTS
  Songs = 3
  Volume = 55
  Pending = 2
SPECIFICATION Spec
INVARIANTS TypeOK NowPlaying
PROPERTIES MusicGoesOn
