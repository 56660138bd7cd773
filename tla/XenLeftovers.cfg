SPECIFICATION Spec
CONSTANTS
  c1 = c1
  c2 = c2
  Containers = {c1, c2}
  Ids = {c1, c2}
  IdOf <- OwnId
  Bundles <- TwoCpus
  Faults <- LeftoverFaults
  MaxProcs = 1
  NCpus = 4
SYMMETRY SwapContainers
INVARIANTS
  RootIsClone
  CpusExclusive
  RootInv
  CpuInv
