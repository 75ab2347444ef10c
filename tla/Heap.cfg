SPECIFICATION Spec
CONSTANTS
  PAGESIZE = 32
  NPages = 9
  Sizes = {1, 60}
  MaxLive = 3
  MULTIPLE = 2
  HOMEPG_MULTIPLE = 3
  SIZE_MOD = 4096
INVARIANTS
  TypeOK
  DriverIsContent
  FreeListExact
  Accounted
  Coalesced
  IdlePagesReturned
  PayloadsIntact
PROPERTY KeepsPromise
