\* Three tasks compete for two container permits and one process permit, so that a
\* waiter can be aborted before, while and after it is handed the permit.
SPECIFICATION Spec
CONSTANTS
  c1 = c1
  c2 = c2
  c3 = c3
  Client = {c1, c2, c3}
  ContainerLimit = 2
  ProcessLimit = 1
  MaxId = 3
SYMMETRY ClientSymmetry
INVARIANTS ContainerConservation ProcessConservation GaugesExact UniqueNames
PROPERTIES ContainerPoolSpec ProcessPoolSpec
