CONSTANTS
  Workers = {w1, w2}
  NoClosure = NoClosure
  MaxFollowUps = 3
  MainPrograms <- CoreRunOnly
  Clients = {c1}
SPECIFICATION Spec
PROPERTY WorkQueueRefined
CHECK_DEADLOCK FALSE
