SPECIFICATION FairSpec
CONSTANTS
  s1 = s1
  s2 = s2
  alice = alice
  bob = bob
  carol = carol
  Server = {s1, s2}
  Client = {c1, c2, c3}
  Name = {alice, bob, carol}
  None = None
  MaxRequests = 3
  Requests <- MCRequests
INVARIANTS
  TypeOK
  MutualWhenFree
PROPERTIES
  ServesAtomically
  AnsweredUnlessCircle
CHECK_DEADLOCK FALSE
