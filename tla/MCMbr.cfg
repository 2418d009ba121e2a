CONSTANTS
  Chunks = 7
  LastPart = TRUE
  Slice2 = 4
  SizeClasses = 3
  ChunkMB = 128
  Names = {"a", "b"}
  Prefixes = {"PP"}
  Size <- MCSizeFits
  Formats = {"2slice"}
  Commands = {"install", "mbr"}
  ReadsFail = FALSE
  Broken = Broken
SPECIFICATION GamesSpec
PROPERTIES KeepsGames
CHECK_DEADLOCK FALSE
