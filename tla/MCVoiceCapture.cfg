SPECIFICATION Spec
CONSTANTS
  QueueLen = 3
  NumChunks = 3
INVARIANTS
  TypeOK
  PostsOnlyFreshAudio
  DelayFollowsReading
PROPERTIES
  RecordingEnds
  QueueDrains
