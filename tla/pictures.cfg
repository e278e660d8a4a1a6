SPECIFICATION FairSpec
CONSTANTS
  n1 = n1
  n2 = n2
  Node = {n1, n2}
  Nil = Nil
  Sectors = 3
  Layouts <- TwoPictures
  MaxPics = 2
  PerSector = 1
  MaxSn = 3
  MaxEvents = 1
  Events <- AllEvents
INVARIANTS TypeOK MarkedIsReceived WaitingIsCounted
PROPERTIES AllReachableSent
CHECK_DEADLOCK FALSE
