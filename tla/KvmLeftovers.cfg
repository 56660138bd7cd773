SPECIFICATION Spec
CONSTANTS
  c1 = c1
  c2 = c2
  Containers = {c1}
  Ids = {c1}
  IdOf <- OwnId
  Bundles <- TwoKinds
  Faults <- AllFaults
  MaxProcs = 1
  Matches <- OwnMatches
  TakesXml = TRUE
  Irqs = {"nic"}
  Fixed = {}
  Cpus = {0}
  Home <- AllCpus
INVARIANTS
  RunsConfined
  EngineSeesGuest
  ConfineInv
