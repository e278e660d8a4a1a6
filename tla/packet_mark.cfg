SPECIFICATION Spec
CONSTANTS
  Ids <- TwoIds
  Handled <- OneHandled
  MaxTotal = 3
  Sizes <- SmallOrLarge
  HeadSize = 2
  BufSize = 8
  MarkBits = 4
  Messages = 2
  MaxEvents = 1
  Events <- Repeated
INVARIANT MarkIsReceived
CHECK_DEADLOCK FALSE
