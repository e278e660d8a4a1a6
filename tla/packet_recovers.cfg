SPECIFICATION Spec
CONSTANTS
  Ids <- TwoIds
  Handled <- OneHandled
  MaxTotal = 4
  Sizes <- SmallOrLarge
  HeadSize = 2
  BufSize = 8
  MarkBits = 4
  Messages = 3
  MaxEvents = 3
  Events <- AnyEvent
INVARIANTS TypeOK HandedIsUnmixed
PROPERTY IntactIsHanded
CHECK_DEADLOCK FALSE
