\* Three connections share one container.
SPECIFICATION FairSpec
CONSTANTS
  c1 = c1
  c2 = c2
  c3 = c3
  Conn = {c1, c2, c3}
  ContainerLimit = 1
  MaxRequests = 3
INVARIANTS ContainersAccounted
PROPERTIES WaiterServed
