SPECIFICATION Spec
CONSTANTS
  c1 = c1
  c2 = c2
  Containers = {c1}
  Ids = {c1}
  IdOf <- OwnId
  Bundles <- JustVolume
  Faults <- RebootFault
  MaxProcs = 1
  Matches <- OwnMatches
  TakesXml = TRUE
  Irqs = {}
  Fixed = {}
  Cpus = {0, 1}
  Home <- AllCpus
INVARIANTS
  RootIsClone
