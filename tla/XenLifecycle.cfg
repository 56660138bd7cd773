SPECIFICATION FairSpec
CONSTANTS
  c1 = c1
  c2 = c2
  Containers = {c1}
  Ids = {c1}
  IdOf <- OwnId
  Bundles <- AllBundles
  Faults <- TidyFaults
  MaxProcs = 1
  NCpus = 2
INVARIANTS
  TypeOK
  NoLeakedVolume
  DeleteRemovesGuest
  DeleteEndsCaronte
  TidyInv
PROPERTIES
  GuestLifecycle
  TeardownRemovesAll
