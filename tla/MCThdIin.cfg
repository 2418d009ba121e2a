CONSTANTS
  TotalSectors = 5
  NumSectors = 2
SPECIFICATION FairSpec
INVARIANTS
  TypeOK
  MutualExclusion
  SemaphoresBinary
  NoUseAfterFree
PROPERTIES
  HeldDataStable
  NoRepeatedJob
  ReadReturns
  CloseEnds
  ImplementsReader
