SPECIFICATION FairSpec
CONSTANTS
  c1 = c1
  c2 = c2
  Containers = {c1}
  Ids = {c1}
  IdOf <- OwnId
  Bundles <- AllBundles
  Faults <- TidyFaults
  MaxProcs = 1
  Matches <- OwnMatches
  TakesXml = TRUE
  Irqs = {"nic", "timer"}
  Fixed = {"timer"}
  Cpus = {0, 1}
  Home <- AllCpus
INVARIANTS
  TypeOK
  RootIsClone
  DeleteLeavesNothing
  IrqsRestored
  IrqsSteered
  TidyInv
  HomeInv
PROPERTIES
  GuestLifecycle
  TeardownRemovesAll
