SPECIFICATION Spec
CONSTANTS
  SectorSlots = 2
  Sectors = 2
  Sizes <- OneSlot
  IdMod = 16
  BitAnd <- AndOfBits
  CountMod = 16
  TornSize = 3
  MaxRetry = 2
  MaxPuts = 6
  MaxEvents = 1
  Events <- RestartKinds
INVARIANT ReportedIsReceived
CHECK_DEADLOCK FALSE
