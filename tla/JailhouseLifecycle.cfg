SPECIFICATION FairSpec
CONSTANTS
  c1 = c1
  c2 = c2
  Containers = {c1}
  Ids = {c1}
  IdOf <- OwnId
  Bundles <- AllBundles
  Faults <- TeardownFaults
  MaxProcs = 1
  Ram0 = 1
  InitFile <- SmallPool
INVARIANTS
  TypeOK
  RuncKeepsItsContainers
PROPERTIES
  GuestLifecycle
  TeardownRemovesCell
