SPECIFICATION Spec
CONSTANTS
  IndexLimit = 1
  ServerHalf = 1
  IndexMod = 2
  MaxFaults = 1
  Disturbances <- Endings
  Background <- NoWork
  Node = {n1, n2, n3}
  Nil = Nil
  MaxRetry = 2
  MaxSn = 3
  MboxSize = 1
  Queued <- CommandsQueued
  Queries <- CommandsAsked
SYMMETRY Blocks
CONSTRAINT Explored
INVARIANTS TypeOK ListIsLive CommandsStayQueued RetryBound
PROPERTIES DataAfterAuth AckedNotSentAgain
