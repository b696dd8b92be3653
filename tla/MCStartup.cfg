CONSTANTS
  ESP_MAXIMUM_RETRY = 1
  Networks = 2
  Troubles = 1
  Presses = 2
SPECIFICATION Spec
INVARIANTS TypeOK PressDecides GroupAlive CredentialsBelong WaitHasCause
PROPERTIES BootEnds
CHECK_DEADLOCK FALSE
