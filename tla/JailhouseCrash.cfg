SPECIFICATION Spec
CONSTANTS
  c1 = c1
  c2 = c2
  Containers = {c1, c2}
  Ids = {c1, c2}
  IdOf <- OwnId
  Bundles <- Networked
  Faults <- CrashFaults
  MaxProcs = 1
  Ram0 = 1
  InitFile <- SplitPool
SYMMETRY SwapContainers
INVARIANTS
  StaleDirNeverFound
  PoolExclusive
