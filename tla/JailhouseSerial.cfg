SPECIFICATION Spec
CONSTANTS
  c1 = c1
  c2 = c2
  Containers = {c1, c2}
  Ids = {c1, c2}
  IdOf <- OwnId
  Bundles <- TwoSizes
  Faults <- SerialFaults
  MaxProcs = 1
  Ram0 = 1
  InitFile <- SmallPool
SYMMETRY SwapContainers
INVARIANTS
  NoSharedResources
  FreeIsUnused
  PoolSurvives
  DeleteFreesSection
  SectionsInv
  ExclusiveInv
  CellsInv
PROPERTIES
  StartsLoaded
