SPECIFICATION Spec
CONSTANTS
  c1 = c1
  c2 = c2
  Containers = {c1, c2}
  Ids = {c1, c2}
  IdOf <- OwnId
  Bundles <- JustSimple
  Faults <- NoFaults
  MaxProcs = 1
  Matches <- PrefixMatches
  TakesXml = TRUE
  Irqs = {}
  Fixed = {}
  Cpus = {0, 1}
  Home <- AllCpus
INVARIANTS
  RunsConfined
