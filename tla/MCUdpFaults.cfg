CONSTANTS
  Sectors = 8
  RdSize = 2
  WrSize = 4
  NoSector = 15
  AtaFails = TRUE
  Requests <- MCRequests
  MaxOps = 1
  PieceSize = 6
  Window = 2
  Retry = 2
  MaxTrouble = 0
  Endless = TRUE
  Restarts = TRUE
SPECIFICATION FairSpec
PROPERTIES ContentKept OperationsEnd
CHECK_DEADLOCK FALSE
