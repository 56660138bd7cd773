SPECIFICATION Spec
CONSTANTS
  c1 = c1
  c2 = c2
  Containers = {c1, c2}
  Ids = {c1, c2}
  IdOf <- OwnId
  Bundles <- TwoCpus
  Faults <- Offline
  MaxProcs = 1
  NCpus = 4
SYMMETRY SwapContainers
INVARIANTS
  CpusExclusive
