CONSTANTS
  AddrMod = 8
  Byte <- MCByte
  Elfs <- MCElfs
  Kinds = {"plain", "paged"}
  WordSize = 4
  SizeMod = 16
  ReadBacks <- MCReadBacks
  PlainStart = 1
  PlainSize = 6
  PageSize = 2
  NumPages = 4
SPECIFICATION FairSpec
INVARIANTS
  TypeOK
  LoadedImage
PROPERTIES
  ImplementsFlatMemory
  LoadIsBounded
  LoadingEnds
