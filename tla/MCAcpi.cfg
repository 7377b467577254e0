SPECIFICATION AcpiSpec
CONSTANTS
  Firmwares <- MCFirmwares
  Signature <- MCSignature
  RootHeader = 3
  MadtHeader = 2
  Word = 64
  Byte = 4
  MaxIoapics = 2
  MaxIsos = 2
INVARIANTS
  ReadsInside
  FindsEntries
PROPERTIES
  WalksEnd
CHECK_DEADLOCK FALSE
