CONSTANTS
  NoOffset = 1000
  U32 = 100000
  Sector = 4
  HddSector = 2
  Num = 2
  Inputs <- MCFillInputs
  Faults <- MCNoFaults
  Others <- MCOthers
SPECIFICATION CompareSpec
INVARIANTS CopyRight
CHECK_DEADLOCK FALSE
