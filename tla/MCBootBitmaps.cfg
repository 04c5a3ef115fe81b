SPECIFICATION Spec
CONSTANTS
  R = 4
  PageSize = 2
  BitsPerByte = 2
  NRegions = 2
  Span <- MCSpan
  Text <- MCText
  Data <- MCData
  RootTable = 42
  Fdt <- MCFdt
  Byte = 4
  CellBytes = 2
  MaxRegions = 2
  Blobs <- MCBlobs
  Magic = 1
  RamBits <- MCRamBits
INVARIANT
  BitmapsReachable
