SPECIFICATION Spec
CONSTANTS
  R = 4
  PageSize = 2
  RootTable = 36
  Ram = {37, 38, 39, 40, 41, 42, 43, 44, 45, 46}
  StaleRow <- MCZeroRow
  Attr <- MCAttr
  Requests <- MCRequests
  MaxMaps = 6
INVARIANTS
  NoStrayMapping
  AllMappedWhenDone
  PagesHaveOneUse
PROPERTIES
  MappingsStay
  MapEnds
