CONSTANTS
  Sectors = 8
  RdSize = 2
  WrSize = 4
  NoSector = 15
  AtaFails = TRUE
  Requests <- MCRequests
  MaxOps = 3
  PieceSize = 6
  Window = 2
  Retry = 5
  MaxTrouble = 3
  Endless = FALSE
  Restarts = FALSE
SPECIFICATION Spec
INVARIANTS ReadBufferFresh
CHECK_DEADLOCK FALSE
