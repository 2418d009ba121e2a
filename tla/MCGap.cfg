CONSTANTS
  Chunks = 6
  LastPart = TRUE
  Slice2 = 100
  SizeClasses = 3
  ChunkMB = 128
  Names = {"a", "b"}
  Prefixes = {"PP", "__"}
  Size <- MCSize
  Formats = {"plain"}
  Commands = {"install", "delete"}
  ReadsFail = FALSE
  Broken = Broken
SPECIFICATION GamesSpec
PROPERTIES InterruptibleCopy
CHECK_DEADLOCK FALSE
