\* A request whose block is as large as an extension of the heap.
SPECIFICATION Spec
CONSTANTS
  PAGESIZE = 32
  NPages = 9
  Sizes = {1, 40}
  MaxLive = 3
  MULTIPLE = 2
  HOMEPG_MULTIPLE = 3
  SIZE_MOD = 4096
INVARIANTS
  DriverIsContent
