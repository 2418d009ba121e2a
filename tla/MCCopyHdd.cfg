CONSTANTS
  Chunks = 5
  LastPart = TRUE
  Slice2 = 100
  SizeClasses = 100
  ChunkMB = 128
  Names = {"a", "b", "c"}
  Prefixes = {"PP", "__"}
  Size <- MCSize
  Formats = {"plain"}
  Commands = {"install", "delete"}
  ReadsFail = FALSE
  Broken = Broken
  Source <- MCSource
  Skipped <- MCSkipped
SPECIFICATION CopySpec
PROPERTIES OkMeansDone InterruptibleCopy KeepsGames CopyRight FlagsObeyed SpaceEnough
CHECK_DEADLOCK FALSE
