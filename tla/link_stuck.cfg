SPECIFICATION LinkFairSpec
CONSTANTS
  IndexLimit = 3
  ServerHalf = 1
  IndexMod = 4
  MaxFaults = 2
  Disturbances <- AuxAndClose
  Background <- ShortMessages
PROPERTY SocketProcReturns
