SPECIFICATION LinkFairSpec
CONSTANTS
  IndexLimit = 3
  ServerHalf = 1
  IndexMod = 4
  MaxFaults = 4
  Disturbances <- AnyDisturbance
  Background <- AllWork
INVARIANTS LinkTypeOK ConnectedIsOpen PowerCutDisconnected
PROPERTIES  Reconnects
