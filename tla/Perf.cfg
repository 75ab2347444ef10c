SPECIFICATION Spec
CONSTANTS
  SIDE = 1
  LARGE = 4
  LARGE_SIDE = 2
  ODD_DIM = 3
  Versions <- MCVersions
  test_dim <- MCtest_dim
  Images <- MCImages
  Drawings <- MCDrawings
  UINT = 16
  kbest = 2
  maxsamples = 3
  EPSILON = 100
  Costs = {1, 100}
  Starts <- MCStarts
  TICK = 5
  Ticks <- MCTicks
  cyc_per_tick = 6
INVARIANTS
  TypeOK
  AgreesWithNaive
  KeepsSmallest
  OnlyRightIsTimed
  BestIsFastest
PROPERTIES
  Ends
CHECK_DEADLOCK FALSE
