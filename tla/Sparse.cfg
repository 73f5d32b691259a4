SPECIFICATION Spec
CONSTANTS
  Images <- AllImages
  HeadSize = 3
  ChunkHead = 3
  FillSize = 2
  Sector = 2
  Low = 4
  High = 8
  Half = 128
  Pieces <- MCPieces
  Headroom = 8
  MaxImages = 2
INVARIANTS TypeOK ImageIsWritten OnlyItsData InStep RestFits
PROPERTIES CallReturns
CHECK_DEADLOCK FALSE
