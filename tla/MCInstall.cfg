CONSTANTS
  Chunks = 8
  LastPart = TRUE
  Slice2 = 4
  SizeClasses = 2
  ChunkMB = 128
  Names = {"a", "b"}
  Prefixes = {"PP"}
  Size <- MCSize
  Formats = {"plain", "2slice"}
  Commands = {"install", "modify"}
  ReadsFail = FALSE
  Broken = Broken
SPECIFICATION GamesSpec
INVARIANTS TypeOK TableGood ImageFits CopiedWhole
PROPERTIES OkMeansDone CopiesToFreeSpace KeepsGames
CHECK_DEADLOCK FALSE
