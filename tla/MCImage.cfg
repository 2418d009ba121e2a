CONSTANTS
  NoOffset = 1000
  U32 = 100000
  Sector = 4
  HddSector = 2
  Num = 2
  Inputs <- MCInputs
  Faults <- MCFaults
  Others <- MCOthers
SPECIFICATION CompareSpec
INVARIANTS TypeOK CacheRight CopyRight DumpRight CompareRight
CHECK_DEADLOCK FALSE
