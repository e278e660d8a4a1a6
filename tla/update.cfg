SPECIFICATION FairSpec
CONSTANTS
  old = old
  new = new
  newer = newer
  other = other
  NoFile = NoFile
  Files <- AllFiles
  Factory = old
  Foreign <- OtherProduct
  MaxTotal = 3
  Total <- Totals
  Plan <- Campaigns
  MaxEvents = 6
  Events <- PowerCuts
INVARIANTS TypeOK InstalledIsWhole
PROPERTIES UpToDateIsWhole UpToDateIsInstalled UpdateCompletes
CHECK_DEADLOCK FALSE
