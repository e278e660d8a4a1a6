SPECIFICATION Spec
CONSTANTS
  Links <- TwoLinks
  Frames = 3
  BodySize = 4
  MaxChunk = 13
  BufSize = 14
  MailSlots = 2
  MaxCuts = 1
INVARIANTS TypeOK HandledInOrder NothingMissed
PROPERTY FreshFrameIsHandled
CHECK_DEADLOCK FALSE
