SPECIFICATION FairSpec
CONSTANTS
  SectorSlots = 2
  Sectors = 2
  Sizes <- OneSlot
  IdMod = 16
  BitAnd <- AndOfBits
  CountMod = 16
  TornSize = 3
  MaxRetry = 2
  MaxPuts = 6
  MaxEvents = 2
  Events <- OfflineKinds
INVARIANTS TypeOK NoneForgotten ValidIsComplete NewestIsCurrent ReportedIsReceived
PROPERTIES AllReported Delivers OldestFirst
CHECK_DEADLOCK FALSE
