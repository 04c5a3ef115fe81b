SPECIFICATION Spec
CONSTANTS
  PageSize = 2
  BitsPerByte = 2
  NRegions = 3
  Span <- MCSpan
  Reserved <- MCReserved
  KernelBase = 1000
  HighMapped <- MCHighMapped
  RamBits <- MCRamBits
  StaleSize = {0, 1}
  Owner = {c1, c2}
  Addr <- MCAddr
INVARIANTS
  TypeOK
  OnePageOneOwner
  HeldAvoidsBitmaps
  HeldAvoidsReserved
  
PROPERTY
  ImplementsPageOwner
