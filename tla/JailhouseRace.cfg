SPECIFICATION Spec
CONSTANTS
  c1 = c1
  c2 = c2
  Containers = {c1, c2}
  Ids = {c1, c2}
  IdOf <- OwnId
  Bundles <- NoRpus
  Faults <- NoFaults
  MaxProcs = 2
  Ram0 = 1
  InitFile <- LargePool
INVARIANTS
  FreeIsUnused
