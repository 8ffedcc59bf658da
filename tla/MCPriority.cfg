CONSTANTS
  Workers = {w1, w2, w3}
  NoClosure = NoClosure
  MaxFollowUps = 3
  MainPrograms <- PoolLives
  Clients = {}
SPECIFICATION Spec
INVARIANT TypeOK
INVARIANT StopDrains
PROPERTY WaitForIdleReturnsIdle
PROPERTY Termination
CHECK_DEADLOCK FALSE
PROPERTY WorkQueueRefined
