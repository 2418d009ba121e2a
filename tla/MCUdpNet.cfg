CONSTANTS
  Sectors = 8
  RdSize = 2
  WrSize = 4
  NoSector = 15
  AtaFails = FALSE
  Requests <- MCRequests
  MaxOps = 3
  PieceSize = 6
  Window = 2
  Retry = 7
  MaxTrouble = 4
  Endless = FALSE
  Restarts = FALSE
SPECIFICATION Spec
INVARIANTS TypeOK CountersRight ReadBufferFresh ReadsFresh OkMeansStored RidesOutTrouble
CHECK_DEADLOCK FALSE
