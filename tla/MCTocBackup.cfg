CONSTANTS
  Chunks = 6
  LastPart = TRUE
  Slice2 = 100
  SizeClasses = 3
  ChunkMB = 128
  Names = {"a"}
  Prefixes = {"PP", "__"}
  Size <- MCSize
  Formats = {"plain", "toxic"}
  Commands = {"install", "modify", "header", "mbr"}
  ReadsFail = TRUE
  Broken = Broken
  BackupReadsFail = FALSE
  MaxBackups = 1
SPECIFICATION BackupSpec
INVARIANTS TableGood
PROPERTIES RestoreRight KeepsGamesUntil
CHECK_DEADLOCK FALSE
