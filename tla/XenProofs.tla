------------------------------ MODULE XenProofs ------------------------------
(***************************************************************************)
(* Proofs about Xen that hold whatever fails: the variables keep their     *)
(* types and each command goes through its own labels (TypeInvariant); a   *)
(* domain has as its root disk a whole copy of the root file system        *)
(* (RootsAreClones); and, for one command at a time and as long as         *)
(* xl vcpu-list shows every CPU of a guest, guests share no pinned CPU     *)
(* (CpusApart).                                                            *)
(*                                                                         *)
(* The argument: a step of c touches only what belongs to c and its id     *)
(* (Frame), so that only what the invariant says of c is shown anew, for   *)
(* each action.                                                            *)
(***************************************************************************)
EXTENDS XenInv, FiniteSetTheorems, TLAPS

TypeInv == TypeOK /\ FlowInv

\* The parts of TypeOK.
FrontTypes ==
  /\ bundle \in [Containers -> Bundles \cup {NoBundle}]
  /\ status \in [Containers -> Statuses]
  /\ verb \in [Containers -> Verbs \cup {"none"}]
  /\ pc \in [Containers -> Labels]
  /\ crundir \in SUBSET Ids
  /\ files \in [Ids -> SUBSET FileNames]
  /\ runc \in SUBSET Containers

VolumeTypes == lv \in [Ids -> VolumeStates] /\ mounted \in SUBSET Ids

Configs == [lvm : BOOLEAN, cpus : SUBSET Cpus]

DomTypes ==
  /\ cfg \in [Ids -> Configs]
  /\ dom \in [Ids -> DomStates]
  /\ conf \in [Ids -> Configs]
  /\ caronte \in SUBSET Containers
  /\ pidref \in [Ids -> SUBSET Containers]

\* What a step of c leaves as it is.
Frame(c) ==
  /\ \A d \in Containers \ {c} :
       /\ bundle'[d] = bundle[d] /\ status'[d] = status[d]
       /\ verb'[d] = verb[d] /\ pc'[d] = pc[d]
       /\ (d \in runc' <=> d \in runc) /\ (d \in caronte' => d \in caronte)
  /\ \A i \in Ids \ {IdOf[c]} :
       /\ (i \in crundir' <=> i \in crundir) /\ (i \in mounted' <=> i \in mounted)
       /\ files'[i] = files[i] /\ lv'[i] = lv[i] /\ pidref'[i] = pidref[i]
       /\ cfg'[i] = cfg[i] /\ dom'[i] = dom[i] /\ conf'[i] = conf[i]

\* The sets of labels and of values are enumerations: always expanded.
USE DEF Before, Configured, Provisioning, Storing, Creating, Stopping, Removing,
        Labels, FrontLabels, VolumeLabels, XenLabels, Verbs, Statuses, FileNames,
        DomStates, VolumeStates

USE IdOfAssumption

LEMMA TypeParts ==
  TypeInv <=> FrontTypes /\ VolumeTypes /\ DomTypes /\ FlowInv
  BY DEF TypeInv, TypeOK, FrontTypes, VolumeTypes, DomTypes, Configs

LEMMA TypePartsNext ==
  ASSUME FrontTypes', VolumeTypes', DomTypes', FlowInv'
  PROVE  TypeInv'
  BY DEF TypeInv, TypeOK, FrontTypes, VolumeTypes, DomTypes, Configs

-----------------------------------------------------------------------------
(* The CPUs that config_generate chooses.                                  *)

\* The CPUs that config_generate may write into config.cfg.
Chosen(c, cpus) ==
  cpus = {} \/ \E free \in FreeCpus : cpus = PinTo(free, bundle[c].cpus)

LEMMA FreeAreCpus ==
  ASSUME NEW free \in FreeCpus
  PROVE  free \subseteq Cpus
<1>1. PICK all \in IF Fault("lscpu") THEN {Cpus, {}} ELSE {Cpus},
           shown \in {f \in [Live -> SUBSET Cpus] : \A i \in Live : f[i] \in Listings(i)} :
        free = all \ UNION {shown[i] : i \in Live}
  BY DEF FreeCpus
<1> QED BY <1>1

LEMMA PinnedAreFree ==
  ASSUME NEW free, NEW n
  PROVE  PinTo(free, n) \subseteq free
  BY DEF PinTo

LEMMA ChosenAreCpus ==
  ASSUME NEW c \in Containers, NEW cpus, Chosen(c, cpus)
  PROVE  cpus \subseteq Cpus
  BY FreeAreCpus, PinnedAreFree DEF Chosen

\* xl vcpu-list shows each CPU of a guest that has no vCPU offline.
LEMMA ListsAll ==
  ASSUME NEW j \in Live, Shown(conf[j].cpus), NEW listed \in Listings(j)
  PROVE  conf[j].cpus \subseteq listed
<1> DEFINE pinned == conf[j].cpus
<1>1. CASE pinned = {} \/ listed = pinned
  BY <1>1
<1>2. CASE pinned # {} /\ listed # pinned
  <2>1. listed \subseteq pinned /\ listed # {} /\ Fault("vcpu_offline")
    BY <1>2 DEF Listings
  <2>2. \A x, y \in pinned : x = y
    BY <2>1 DEF Shown, Fault
  <2> QED BY <2>1, <2>2
<1> QED BY <1>1, <1>2

\* Then cpuconf gives out no CPU that a guest is pinned to.
LEMMA ChosenAreUnused ==
  ASSUME ShownInv, NEW c \in Containers, NEW cpus, Chosen(c, cpus)
  PROVE  \A j \in Live : cpus \cap conf[j].cpus = {}
<1>1. CASE cpus = {}
  BY <1>1
<1>2. CASE cpus # {}
  <2>1. PICK free \in FreeCpus : cpus = PinTo(free, bundle[c].cpus)
    BY <1>2 DEF Chosen
  <2>2. PICK all \in IF Fault("lscpu") THEN {Cpus, {}} ELSE {Cpus},
             shown \in {f \in [Live -> SUBSET Cpus] : \A i \in Live : f[i] \in Listings(i)} :
          free = all \ UNION {shown[i] : i \in Live}
    BY DEF FreeCpus
  <2>3. ASSUME NEW j \in Live PROVE conf[j].cpus \subseteq shown[j]
    BY ListsAll DEF ShownInv, Live
  <2>4. cpus \subseteq free
    BY <2>1, PinnedAreFree
  <2> QED BY <2>2, <2>3, <2>4
<1> QED BY <1>1, <1>2

\* A guest that asks for one CPU is pinned to no more.
LEMMA PinnedToOne ==
  ASSUME NEW free \in FreeCpus, NEW n \in {0, 1}
  PROVE  \A x, y \in PinTo(free, n) : x = y
<1>1. IsFiniteSet(free) /\ free \subseteq Int
  <2>1. NCpus \in Int /\ IsFiniteSet(0 .. NCpus)
    BY NCpusAssumption, FS_Interval
  <2>2. free \in SUBSET (0 .. NCpus)
    BY FreeAreCpus DEF Cpus
  <2>3. IsFiniteSet(free)
    BY <2>1, <2>2, FS_Subset
  <2> QED BY <2>1, <2>2, <2>3
<1>2. ASSUME NEW x \in PinTo(free, n), NEW y \in PinTo(free, n), x < y
      PROVE  FALSE
  <2> DEFINE above == {z \in free : z > x}
  <2>1. x \in free /\ y \in free /\ Cardinality(above) < n
    BY <1>2, <1>1 DEF PinTo
  <2>2. IsFiniteSet(above) /\ Cardinality(above) \in Nat
    BY <1>1, FS_Subset, FS_CardinalityType
  <2>3. Cardinality(above) = 0
    BY <2>1, <2>2
  <2>4. above = {}
    BY <2>2, <2>3, FS_EmptySet
  <2> QED BY <1>1, <1>2, <2>1, <2>4
<1>3. ASSUME NEW x \in PinTo(free, n), NEW y \in PinTo(free, n), x # y
      PROVE  x < y \/ y < x
  <2>1. x \in Int /\ y \in Int
    BY <1>1, PinnedAreFree
  <2> QED BY <1>3, <2>1
<1> QED BY <1>2, <1>3

LEMMA ChosenAreShown ==
  ASSUME NoneOffline, NEW c \in Containers, bundle[c] \in Bundles,
         NEW cpus, Chosen(c, cpus)
  PROVE  Shown(cpus)
  BY PinnedToOne DEF Chosen, Shown, NoneOffline

LEMMA Generates ==
  ASSUME NEW c \in Containers, GenerateConfig(c)
  PROVE  /\ pc[c] = "config_generate"
         /\ \/ \E cpus : Chosen(c, cpus) /\ WriteConfig(c, cpus)
            \/ ReturnErr(c, "config_generate") /\ UNCHANGED <<files, cfg>>
         /\ UNCHANGED <<bundle, status, verb, crundir, runc,
                        dom, conf, lv, mounted, caronte, pidref>>
  BY DEF GenerateConfig, Chosen

LEMMA ConfigTyped ==
  /\ NoCfg \in Configs
  /\ \A lvm \in BOOLEAN, cpus \in SUBSET Cpus : [lvm |-> lvm, cpus |-> cpus] \in Configs
  BY DEF NoCfg, Configs

\* What config.cfg says of the disk is what the file disk says.
Written(c) ==
  /\ \/ /\ pc' = [pc EXCEPT ![c] = "createguest"]
        /\ \E k \in Configs :
             /\ cfg' = [cfg EXCEPT ![IdOf[c]] = k]
             /\ k.lvm => "disk" \in files'[IdOf[c]]
             /\ Chosen(c, k.cpus)
     \/ pc' = [pc EXCEPT ![c] = "err"] /\ UNCHANGED cfg
  /\ pc[c] = "config_generate"
  /\ UNCHANGED <<bundle, status, verb, crundir, runc,
                 dom, conf, lv, mounted, caronte, pidref>>

LEMMA Writes ==
  ASSUME NEW c \in Containers, FrontTypes, DomTypes, GenerateConfig(c)
  PROVE  Written(c)
<1>1. CASE ReturnErr(c, "config_generate") /\ UNCHANGED cfg
  BY <1>1, Generates DEF Written, ReturnErr, AfterErr, Goto
<1>2. ASSUME NEW cpus, Chosen(c, cpus), WriteConfig(c, cpus),
             ReturnOk(c, "config_generate")
      PROVE  \E k \in Configs :
               /\ cfg' = [cfg EXCEPT ![IdOf[c]] = k]
               /\ k.lvm => "disk" \in files'[IdOf[c]]
               /\ Chosen(c, k.cpus)
  <2> DEFINE lvm == bundle[c].disk = "lvm"
             k == [lvm |-> lvm, cpus |-> cpus]
  <2>1. CASE cfg' = [cfg EXCEPT ![IdOf[c]] = NoCfg]
    BY <2>1, ConfigTyped DEF NoCfg, Chosen
  <2>2. CASE /\ Put(IdOf[c], {"console"} \cup PlannedVolume(bundle[c]) \cup {"config"})
             /\ cfg' = [cfg EXCEPT ![IdOf[c]] = k]
    <3>1. k \in Configs
      <4>1. lvm \in BOOLEAN
        BY Zenon
      <4> QED BY <1>2, <4>1, ConfigTyped, ChosenAreCpus
    <3>2. k.cpus = cpus /\ k.lvm = lvm
      OBVIOUS
    <3>3. lvm => "disk" \in files'[IdOf[c]]
      BY <2>2 DEF Put, PlannedVolume, FrontTypes
    <3> HIDE DEF lvm, k
    <3> QED BY <1>2, <2>2, <3>1, <3>2, <3>3
  <2>3. /\ "createguest" # "err"
        /\ ~(ReturnErr(c, "config_generate") /\ ReturnOk(c, "config_generate"))
    BY DEF FrontTypes, ReturnOk, AfterOk, ReturnErr, AfterErr, Goto
  <2> QED BY <1>2, <2>1, <2>2, <2>3 DEF WriteConfig
<1>3. ASSUME NEW cpus, WriteConfig(c, cpus)
      PROVE  \/ ReturnErr(c, "config_generate") /\ UNCHANGED cfg
             \/ ReturnOk(c, "config_generate")
  BY <1>3 DEF WriteConfig
<1>4. ReturnOk(c, "config_generate") => pc' = [pc EXCEPT ![c] = "createguest"]
  BY DEF ReturnOk, AfterOk, Goto
<1> QED BY <1>1, <1>2, <1>3, <1>4, Generates DEF Written

-----------------------------------------------------------------------------
(* Types and labels.                                                       *)

LEMMA FrontFlow ==
  ASSUME NEW c \in Containers, FrontTypes, FlowInv, UNCHANGED backVars,
         Invoke(c) \/ Exit(c) \/ DecideCreate(c) \/ DecideExisting(c) \/
           MakeDir(c) \/ State(c)
  PROVE  FrontTypes' /\ FlowInv'
<1> USE DEF FrontTypes, FlowInv, VerbInv, Goto, backVars, volVars, domVars
<1>1. CASE Invoke(c)
    BY <1>1 DEF Invoke, Allowed
<1>2. CASE Exit(c)
    BY <1>2 DEF Exit
<1>3. CASE DecideCreate(c)
    BY <1>3 DEF DecideCreate
<1>4. CASE DecideExisting(c)
    BY <1>4 DEF DecideExisting, RuncExisting, FirstCall
<1>5. CASE MakeDir(c)
    BY <1>5 DEF MakeDir
<1>6. CASE State(c)
    BY <1>6 DEF State
<1> QED BY <1>1, <1>2, <1>3, <1>4, <1>5, <1>6

LEMMA CreateFlow ==
  ASSUME NEW c \in Containers, FrontTypes, FlowInv,
         ClearStaleDir(c) \/ GenerateConfig(c) \/ CreateVolume(c) \/
           CreateDomain(c) \/ SpawnCaronte(c) \/ StoreInfo(c) \/
           StartGuest(c)
  PROVE  FrontTypes' /\ FlowInv'
<1> USE DEF FrontTypes, FlowInv, VerbInv, Goto
<1>1. CASE ClearStaleDir(c)
    BY <1>1 DEF ClearStaleDir, RemoveAll, RemoveTree, domVars
<1>2. CASE GenerateConfig(c)
    BY <1>2, Generates DEF WriteConfig, PlannedVolume, Put, ReturnOk,
     AfterOk, ReturnErr, AfterErr
<1>3. CASE CreateVolume(c)
    BY <1>3 DEF CreateVolume, Provision, domVars, ReturnErr, AfterErr
<1>4. CASE CreateDomain(c)
    BY <1>4 DEF CreateDomain, ReturnErr, AfterErr
<1>5. CASE SpawnCaronte(c)
    BY <1>5 DEF SpawnCaronte, ReturnOk, AfterOk, ReturnErr, AfterErr
<1>6. CASE StoreInfo(c)
    BY <1>6 DEF StoreInfo, Store, Put, ReturnOk, AfterOk
<1>7. CASE StartGuest(c)
    BY <1>7 DEF StartGuest, SetDomain, ReturnOk, AfterOk, ReturnErr, AfterErr
<1> QED BY <1>1, <1>2, <1>3, <1>4, <1>5, <1>6, <1>7

LEMMA PopulateFlow ==
  ASSUME NEW c \in Containers, FrontTypes, FlowInv, UNCHANGED domVars,
         MountVolume(c) \/ CopyRootfs(c) \/ UmountVolume(c) \/ UndoMount(c)
           \/ UndoVolume(c, Disks)
  PROVE  FrontTypes' /\ FlowInv'
<1> USE DEF FrontTypes, FlowInv, VerbInv, Goto, domVars
<1>1. CASE MountVolume(c)
    BY <1>1 DEF MountVolume, Provision
<1>2. CASE CopyRootfs(c)
    BY <1>2 DEF CopyRootfs, Provision
<1>3. CASE UmountVolume(c)
    BY <1>3 DEF UmountVolume, Provision
<1>4. CASE UndoMount(c)
    BY <1>4 DEF UndoMount, Provision
<1>5. CASE UndoVolume(c, Disks)
    BY <1>5 DEF UndoVolume, Provision, InUse, ReturnErr, AfterErr
<1> QED BY <1>1, <1>2, <1>3, <1>4, <1>5

LEMMA TeardownFlow ==
  ASSUME NEW c \in Containers, FrontTypes, FlowInv,
         StopGuest(c) \/ DestroyDomain(c) \/ TakeVolume(c) \/
           SignalCaronte(c) \/ RemoveRunDir(c) \/ Cleanup(c) \/ Crash(c)
  PROVE  FrontTypes' /\ FlowInv'
<1> USE DEF FrontTypes, FlowInv, VerbInv, Goto
<1>1. CASE StopGuest(c)
    BY <1>1 DEF StopGuest, SetDomain, ReturnOk, AfterOk, ReturnErr, AfterErr
<1>2. CASE DestroyDomain(c)
    BY <1>2 DEF DestroyDomain
<1>3. CASE TakeVolume(c)
    BY <1>3 DEF TakeVolume, RemoveVolume, InUse, domVars
<1>4. CASE SignalCaronte(c)
    BY <1>4 DEF SignalCaronte
<1>5. CASE RemoveRunDir(c)
    BY <1>5 DEF RemoveRunDir, RemoveAll, RemoveTree, domVars, ReturnOk, AfterOk
<1>6. CASE Cleanup(c)
    BY <1>6 DEF Cleanup, RemoveAll, RemoveTree, domVars, ReturnOk, AfterOk
<1>7. CASE Crash(c)
    BY <1>7 DEF Crash, CrashFrontend, backVars, volVars, domVars
<1> QED BY <1>1, <1>2, <1>3, <1>4, <1>5, <1>6, <1>7

LEMMA FrontTyped ==
  ASSUME NEW c \in Containers, FrontTypes, VolumeTypes, DomTypes, UNCHANGED
         backVars,
         Invoke(c) \/ Exit(c) \/ DecideCreate(c) \/ DecideExisting(c) \/
           MakeDir(c) \/ State(c)
  PROVE  VolumeTypes' /\ DomTypes'
<1> USE ConfigTyped DEF VolumeTypes, DomTypes, backVars, volVars, domVars
<1>1. CASE Invoke(c)
    BY <1>1 DEF Invoke, Allowed
<1>2. CASE Exit(c)
    BY <1>2 DEF Exit
<1>3. CASE DecideCreate(c)
    BY <1>3 DEF DecideCreate
<1>4. CASE DecideExisting(c)
    BY <1>4 DEF DecideExisting, RuncExisting, FirstCall
<1>5. CASE MakeDir(c)
    BY <1>5 DEF MakeDir
<1>6. CASE State(c)
    BY <1>6 DEF State
<1> QED BY <1>1, <1>2, <1>3, <1>4, <1>5, <1>6

LEMMA CreateTyped ==
  ASSUME NEW c \in Containers, FrontTypes, VolumeTypes, DomTypes,
         ClearStaleDir(c) \/ GenerateConfig(c) \/ CreateVolume(c) \/
           CreateDomain(c) \/ SpawnCaronte(c) \/ StoreInfo(c) \/
           StartGuest(c)
  PROVE  VolumeTypes' /\ DomTypes'
<1> USE ConfigTyped DEF VolumeTypes, DomTypes
<1>1. CASE ClearStaleDir(c)
    BY <1>1 DEF ClearStaleDir, RemoveAll, RemoveTree, domVars
<1>2. CASE GenerateConfig(c)
    <2>1. Written(c)
      BY <1>2, Writes
    <2> QED BY <2>1 DEF Written
<1>3. CASE CreateVolume(c)
    BY <1>3 DEF CreateVolume, Provision, domVars, ReturnErr, AfterErr
<1>4. CASE CreateDomain(c)
    BY <1>4 DEF CreateDomain, ReturnErr, AfterErr
<1>5. CASE SpawnCaronte(c)
    BY <1>5 DEF SpawnCaronte, ReturnOk, AfterOk, ReturnErr, AfterErr
<1>6. CASE StoreInfo(c)
    BY <1>6 DEF StoreInfo, Store, Put, ReturnOk, AfterOk
<1>7. CASE StartGuest(c)
    BY <1>7 DEF StartGuest, SetDomain, ReturnOk, AfterOk, ReturnErr, AfterErr
<1> QED BY <1>1, <1>2, <1>3, <1>4, <1>5, <1>6, <1>7

LEMMA PopulateTyped ==
  ASSUME NEW c \in Containers, FrontTypes, VolumeTypes, DomTypes, UNCHANGED domVars,
         MountVolume(c) \/ CopyRootfs(c) \/ UmountVolume(c) \/ UndoMount(c)
           \/ UndoVolume(c, Disks)
  PROVE  VolumeTypes' /\ DomTypes'
<1> USE ConfigTyped DEF VolumeTypes, DomTypes, domVars
<1>1. CASE MountVolume(c)
    BY <1>1 DEF MountVolume, Provision
<1>2. CASE CopyRootfs(c)
    BY <1>2 DEF CopyRootfs, Provision
<1>3. CASE UmountVolume(c)
    BY <1>3 DEF UmountVolume, Provision
<1>4. CASE UndoMount(c)
    BY <1>4 DEF UndoMount, Provision
<1>5. CASE UndoVolume(c, Disks)
    BY <1>5 DEF UndoVolume, Provision, InUse, ReturnErr, AfterErr
<1> QED BY <1>1, <1>2, <1>3, <1>4, <1>5

LEMMA TeardownTyped ==
  ASSUME NEW c \in Containers, FrontTypes, VolumeTypes, DomTypes,
         StopGuest(c) \/ DestroyDomain(c) \/ TakeVolume(c) \/
           SignalCaronte(c) \/ RemoveRunDir(c) \/ Cleanup(c) \/ Crash(c)
  PROVE  VolumeTypes' /\ DomTypes'
<1> USE ConfigTyped DEF VolumeTypes, DomTypes
<1>1. CASE StopGuest(c)
    BY <1>1 DEF StopGuest, SetDomain, ReturnOk, AfterOk, ReturnErr, AfterErr
<1>2. CASE DestroyDomain(c)
    BY <1>2 DEF DestroyDomain
<1>3. CASE TakeVolume(c)
    BY <1>3 DEF TakeVolume, RemoveVolume, InUse, domVars
<1>4. CASE SignalCaronte(c)
    BY <1>4 DEF SignalCaronte
<1>5. CASE RemoveRunDir(c)
    BY <1>5 DEF RemoveRunDir, RemoveAll, RemoveTree, domVars, ReturnOk, AfterOk
<1>6. CASE Cleanup(c)
    BY <1>6 DEF Cleanup, RemoveAll, RemoveTree, domVars, ReturnOk, AfterOk
<1>7. CASE Crash(c)
    BY <1>7 DEF Crash, CrashFrontend, backVars, volVars, domVars
<1> QED BY <1>1, <1>2, <1>3, <1>4, <1>5, <1>6, <1>7

-----------------------------------------------------------------------------
(* What a step of c leaves of the others.                                  *)

LEMMA FrontFrame ==
  ASSUME NEW c \in Containers, FrontTypes, VolumeTypes, DomTypes, UNCHANGED
         backVars,
         Invoke(c) \/ Exit(c) \/ DecideCreate(c) \/ DecideExisting(c) \/
           MakeDir(c) \/ State(c)
  PROVE  Frame(c)
<1> USE DEF FrontTypes, VolumeTypes, DomTypes, Frame, Goto, backVars, volVars, domVars
<1>1. CASE Invoke(c)
    BY <1>1 DEF Invoke, Allowed
<1>2. CASE Exit(c)
    BY <1>2 DEF Exit
<1>3. CASE DecideCreate(c)
    BY <1>3 DEF DecideCreate
<1>4. CASE DecideExisting(c)
    BY <1>4 DEF DecideExisting, RuncExisting, FirstCall
<1>5. CASE MakeDir(c)
    BY <1>5 DEF MakeDir
<1>6. CASE State(c)
    BY <1>6 DEF State
<1> QED BY <1>1, <1>2, <1>3, <1>4, <1>5, <1>6

LEMMA CreateFrame ==
  ASSUME NEW c \in Containers, FrontTypes, VolumeTypes, DomTypes,
         ClearStaleDir(c) \/ GenerateConfig(c) \/ CreateVolume(c) \/
           CreateDomain(c) \/ SpawnCaronte(c) \/ StoreInfo(c) \/
           StartGuest(c)
  PROVE  Frame(c)
<1> USE DEF FrontTypes, VolumeTypes, DomTypes, Frame, Goto
<1>1. CASE ClearStaleDir(c)
    BY <1>1 DEF ClearStaleDir, RemoveAll, RemoveTree, domVars
<1>2. CASE GenerateConfig(c)
    BY <1>2, Generates DEF WriteConfig, PlannedVolume, Put, ReturnOk,
     AfterOk, ReturnErr, AfterErr
<1>3. CASE CreateVolume(c)
    BY <1>3 DEF CreateVolume, Provision, domVars, ReturnErr, AfterErr
<1>4. CASE CreateDomain(c)
    BY <1>4 DEF CreateDomain, ReturnErr, AfterErr
<1>5. CASE SpawnCaronte(c)
    BY <1>5 DEF SpawnCaronte, ReturnOk, AfterOk, ReturnErr, AfterErr
<1>6. CASE StoreInfo(c)
    BY <1>6 DEF StoreInfo, Store, Put, ReturnOk, AfterOk
<1>7. CASE StartGuest(c)
    BY <1>7 DEF StartGuest, SetDomain, ReturnOk, AfterOk, ReturnErr, AfterErr
<1> QED BY <1>1, <1>2, <1>3, <1>4, <1>5, <1>6, <1>7

LEMMA PopulateFrame ==
  ASSUME NEW c \in Containers, FrontTypes, VolumeTypes, DomTypes, UNCHANGED domVars,
         MountVolume(c) \/ CopyRootfs(c) \/ UmountVolume(c) \/ UndoMount(c)
           \/ UndoVolume(c, Disks)
  PROVE  Frame(c)
<1> USE DEF FrontTypes, VolumeTypes, DomTypes, Frame, Goto, domVars
<1>1. CASE MountVolume(c)
    BY <1>1 DEF MountVolume, Provision
<1>2. CASE CopyRootfs(c)
    BY <1>2 DEF CopyRootfs, Provision
<1>3. CASE UmountVolume(c)
    BY <1>3 DEF UmountVolume, Provision
<1>4. CASE UndoMount(c)
    BY <1>4 DEF UndoMount, Provision
<1>5. CASE UndoVolume(c, Disks)
    BY <1>5 DEF UndoVolume, Provision, InUse, ReturnErr, AfterErr
<1> QED BY <1>1, <1>2, <1>3, <1>4, <1>5

LEMMA TeardownFrame ==
  ASSUME NEW c \in Containers, FrontTypes, VolumeTypes, DomTypes,
         StopGuest(c) \/ DestroyDomain(c) \/ TakeVolume(c) \/
           SignalCaronte(c) \/ RemoveRunDir(c) \/ Cleanup(c) \/ Crash(c)
  PROVE  Frame(c)
<1> USE DEF FrontTypes, VolumeTypes, DomTypes, Frame, Goto
<1>1. CASE StopGuest(c)
    BY <1>1 DEF StopGuest, SetDomain, ReturnOk, AfterOk, ReturnErr, AfterErr
<1>2. CASE DestroyDomain(c)
    BY <1>2 DEF DestroyDomain
<1>3. CASE TakeVolume(c)
    BY <1>3 DEF TakeVolume, RemoveVolume, InUse, domVars
<1>4. CASE SignalCaronte(c)
    BY <1>4 DEF SignalCaronte
<1>5. CASE RemoveRunDir(c)
    BY <1>5 DEF RemoveRunDir, RemoveAll, RemoveTree, domVars, ReturnOk, AfterOk
<1>6. CASE Cleanup(c)
    BY <1>6 DEF Cleanup, RemoveAll, RemoveTree, domVars, ReturnOk, AfterOk
<1>7. CASE Crash(c)
    BY <1>7 DEF Crash, CrashFrontend, backVars, volVars, domVars
<1> QED BY <1>1, <1>2, <1>3, <1>4, <1>5, <1>6, <1>7

LEMMA ContainerStep ==
  ASSUME NEW c \in Containers, FrontTypes, VolumeTypes, DomTypes, FlowInv,
         \/ (Invoke(c) \/ Front(c)) /\ UNCHANGED backVars
         \/ CreateStep(c) \/ TeardownStep(c) \/ Crash(c)
  PROVE  FrontTypes' /\ VolumeTypes' /\ DomTypes' /\ FlowInv' /\ Frame(c)
<1>1. CASE (Invoke(c) \/ Front(c)) /\ UNCHANGED backVars
  BY <1>1, FrontFlow, FrontTyped, FrontFrame DEF Front
<1>2. CASE CreateStep(c)
  <2>1. CASE ProvisionLvmRoot(c)
    BY <2>1, PopulateFlow, PopulateTyped, PopulateFrame DEF ProvisionLvmRoot, Populate
  <2> QED BY <1>2, <2>1, CreateFlow, CreateTyped, CreateFrame DEF CreateStep
<1>3. CASE TeardownStep(c) \/ Crash(c)
  BY <1>3, TeardownFlow, TeardownTyped, TeardownFrame DEF TeardownStep
<1> QED BY <1>1, <1>2, <1>3

-----------------------------------------------------------------------------
(* TypeInv is an inductive invariant.                                      *)

LEMMA InitTyped == Init => TypeInv
  BY DEF Init, FrontInit, VolumesInit, TypeInv, TypeOK, FlowInv, VerbInv, NoCfg

LEMMA NextTyped == TypeInv /\ [Next]_vars => TypeInv'
<1> SUFFICES ASSUME FrontTypes, VolumeTypes, DomTypes, FlowInv, [Next]_vars
             PROVE  FrontTypes' /\ VolumeTypes' /\ DomTypes' /\ FlowInv'
  BY TypeParts, TypePartsNext
<1>1. CASE UNCHANGED vars
  BY <1>1 DEF vars, feVars, backVars, volVars, domVars, FrontTypes, VolumeTypes,
     DomTypes, FlowInv, VerbInv
<1>2. ASSUME NEW c \in Containers,
             \/ (Invoke(c) \/ Front(c)) /\ UNCHANGED backVars
             \/ CreateStep(c) \/ TeardownStep(c) \/ Crash(c)
      PROVE  FrontTypes' /\ VolumeTypes' /\ DomTypes' /\ FlowInv'
  BY <1>2, ContainerStep
<1>3. ASSUME NEW i \in Ids, PowerOff(i)
      PROVE  FrontTypes' /\ VolumeTypes' /\ DomTypes' /\ FlowInv'
  BY <1>3 DEF PowerOff, feVars, FrontTypes, VolumeTypes, DomTypes, FlowInv, VerbInv,
     Configs, NoCfg
<1>4. CASE Reboot
  BY <1>4 DEF Reboot, RebootFrontend, FrontTypes, VolumeTypes, DomTypes, FlowInv,
     VerbInv, Configs, NoCfg
<1> QED BY <1>1, <1>2, <1>3, <1>4 DEF Next

\* The variables keep their types, and commands their labels.
THEOREM TypeInvariant == Spec => []TypeInv
<1>1. Init => TypeInv
  BY InitTyped
<1>2. TypeInv /\ [Next]_vars => TypeInv'
  BY NextTyped
<1> QED BY <1>1, <1>2, PTL DEF Spec

\* The variables keep their types, whatever the environment does.
THEOREM XenTypeCorrect == Spec => []TypeOK
<1>1. TypeInv => TypeOK
  BY DEF TypeInv
<1> QED BY <1>1, TypeInvariant, PTL

-----------------------------------------------------------------------------
(* Root disks: RootInv is an inductive invariant.                          *)

LEMMA FrontDisk ==
  ASSUME NEW c \in Containers, FrontTypes, VolumeTypes, DomTypes, VerbInv(c),
         DiskInv(c), UNCHANGED backVars,
         Invoke(c) \/ Exit(c) \/ DecideCreate(c) \/ DecideExisting(c) \/
           MakeDir(c) \/ State(c)
  PROVE  DiskInv(c)'
<1> USE DEF FrontTypes, VolumeTypes, DomTypes, NoCfg, VerbInv, DiskInv, Disks, Live,
    Goto, backVars, volVars, domVars
<1>1. CASE Invoke(c)
    BY <1>1 DEF Invoke, Allowed
<1>2. CASE Exit(c)
    BY <1>2 DEF Exit
<1>3. CASE DecideCreate(c)
    BY <1>3 DEF DecideCreate
<1>4. CASE DecideExisting(c)
    BY <1>4 DEF DecideExisting, RuncExisting, FirstCall
<1>5. CASE MakeDir(c)
    BY <1>5 DEF MakeDir
<1>6. CASE State(c)
    BY <1>6 DEF State
<1> QED BY <1>1, <1>2, <1>3, <1>4, <1>5, <1>6

LEMMA CreateDisk ==
  ASSUME NEW c \in Containers, FrontTypes, VolumeTypes, DomTypes, VerbInv(c),
         DiskInv(c),
         ClearStaleDir(c) \/ GenerateConfig(c) \/ CreateVolume(c) \/
           CreateDomain(c) \/ SpawnCaronte(c) \/ StoreInfo(c) \/
           StartGuest(c)
  PROVE  DiskInv(c)'
<1> USE DEF FrontTypes, VolumeTypes, DomTypes, NoCfg, VerbInv, DiskInv, Disks, Live,
    Goto
<1>1. CASE ClearStaleDir(c)
    BY <1>1 DEF ClearStaleDir, RemoveAll, RemoveTree, domVars
<1>2. CASE GenerateConfig(c)
    <2>1. Written(c)
      BY <1>2, Writes
    <2> QED BY <2>1 DEF Written
<1>3. CASE CreateVolume(c)
    BY <1>3 DEF CreateVolume, Provision, domVars, ReturnErr, AfterErr
<1>4. CASE CreateDomain(c)
    BY <1>4 DEF CreateDomain, ReturnErr, AfterErr
<1>5. CASE SpawnCaronte(c)
    BY <1>5 DEF SpawnCaronte, ReturnOk, AfterOk, ReturnErr, AfterErr
<1>6. CASE StoreInfo(c)
    BY <1>6 DEF StoreInfo, Store, Put, ReturnOk, AfterOk
<1>7. CASE StartGuest(c)
    BY <1>7 DEF StartGuest, SetDomain, ReturnOk, AfterOk, ReturnErr, AfterErr
<1> QED BY <1>1, <1>2, <1>3, <1>4, <1>5, <1>6, <1>7

LEMMA PopulateDisk ==
  ASSUME NEW c \in Containers, FrontTypes, VolumeTypes, DomTypes, VerbInv(c),
         DiskInv(c), UNCHANGED domVars,
         MountVolume(c) \/ CopyRootfs(c) \/ UmountVolume(c) \/ UndoMount(c)
           \/ UndoVolume(c, Disks)
  PROVE  DiskInv(c)'
<1> USE DEF FrontTypes, VolumeTypes, DomTypes, NoCfg, VerbInv, DiskInv, Disks, Live,
    Goto, domVars
<1>1. CASE MountVolume(c)
    BY <1>1 DEF MountVolume, Provision
<1>2. CASE CopyRootfs(c)
    BY <1>2 DEF CopyRootfs, Provision
<1>3. CASE UmountVolume(c)
    BY <1>3 DEF UmountVolume, Provision
<1>4. CASE UndoMount(c)
    BY <1>4 DEF UndoMount, Provision
<1>5. CASE UndoVolume(c, Disks)
    BY <1>5 DEF UndoVolume, Provision, InUse, ReturnErr, AfterErr
<1> QED BY <1>1, <1>2, <1>3, <1>4, <1>5

LEMMA TeardownDisk ==
  ASSUME NEW c \in Containers, FrontTypes, VolumeTypes, DomTypes, VerbInv(c),
         DiskInv(c),
         StopGuest(c) \/ DestroyDomain(c) \/ TakeVolume(c) \/
           SignalCaronte(c) \/ RemoveRunDir(c) \/ Cleanup(c) \/ Crash(c)
  PROVE  DiskInv(c)'
<1> USE DEF FrontTypes, VolumeTypes, DomTypes, NoCfg, VerbInv, DiskInv, Disks, Live,
    Goto
<1>1. CASE StopGuest(c)
    BY <1>1 DEF StopGuest, SetDomain, ReturnOk, AfterOk, ReturnErr, AfterErr
<1>2. CASE DestroyDomain(c)
    BY <1>2 DEF DestroyDomain
<1>3. CASE TakeVolume(c)
    BY <1>3 DEF TakeVolume, RemoveVolume, InUse, domVars
<1>4. CASE SignalCaronte(c)
    BY <1>4 DEF SignalCaronte
<1>5. CASE RemoveRunDir(c)
    BY <1>5 DEF RemoveRunDir, RemoveAll, RemoveTree, domVars, ReturnOk, AfterOk
<1>6. CASE Cleanup(c)
    BY <1>6 DEF Cleanup, RemoveAll, RemoveTree, domVars, ReturnOk, AfterOk
<1>7. CASE Crash(c)
    BY <1>7 DEF Crash, CrashFrontend, backVars, volVars, domVars
<1> QED BY <1>1, <1>2, <1>3, <1>4, <1>5, <1>6, <1>7

LEMMA ContainerDisk ==
  ASSUME NEW c \in Containers, FrontTypes, VolumeTypes, DomTypes, FlowInv,
         DiskInv(c),
         \/ (Invoke(c) \/ Front(c)) /\ UNCHANGED backVars
         \/ CreateStep(c) \/ TeardownStep(c) \/ Crash(c)
  PROVE  DiskInv(c)'
<1>0. VerbInv(c)
  BY DEF FlowInv
<1>1. CASE (Invoke(c) \/ Front(c)) /\ UNCHANGED backVars
  BY <1>0, <1>1, FrontDisk DEF Front
<1>2. CASE CreateStep(c)
  <2>1. CASE ProvisionLvmRoot(c)
    BY <1>0, <2>1, PopulateDisk DEF ProvisionLvmRoot, Populate
  <2> QED BY <1>0, <1>2, <2>1, CreateDisk DEF CreateStep
<1>3. CASE TeardownStep(c) \/ Crash(c)
  BY <1>0, <1>3, TeardownDisk DEF TeardownStep
<1> QED BY <1>1, <1>2, <1>3

\* A domain is built only by the create of its own container.
LEMMA ContainerNames ==
  ASSUME NEW c \in Containers, Frame(c), NamesInv
  PROVE  NamesInv'
  BY DEF Frame, NamesInv, Live

LEMMA KeptRoot ==
  ASSUME NEW c \in Containers, IdOfInjective, RootInv, Frame(c), DiskInv(c)'
  PROVE  RootInv'
<1>1. ASSUME NEW d \in Containers, d # c PROVE DiskInv(d)'
  <2>1. IdOf[d] # IdOf[c] /\ IdOf[d] \in Ids
    BY <1>1 DEF IdOfInjective
  <2> QED BY <1>1, <2>1 DEF RootInv, DiskInv, Frame, Disks, Live
<1> QED BY <1>1, ContainerNames DEF RootInv

LEMMA NextRoot ==
  ASSUME IdOfInjective
  PROVE  TypeInv /\ RootInv /\ [Next]_vars => RootInv'
<1> SUFFICES ASSUME FrontTypes, VolumeTypes, DomTypes, FlowInv, RootInv, [Next]_vars
             PROVE  RootInv'
  BY TypeParts
<1>1. CASE UNCHANGED vars
  BY <1>1 DEF vars, feVars, backVars, volVars, domVars, RootInv, NamesInv, DiskInv,
     Disks, Live
<1>2. ASSUME NEW c \in Containers,
             \/ (Invoke(c) \/ Front(c)) /\ UNCHANGED backVars
             \/ CreateStep(c) \/ TeardownStep(c) \/ Crash(c)
      PROVE  RootInv'
  BY <1>2, ContainerStep, ContainerDisk, KeptRoot DEF RootInv
<1>3. ASSUME NEW i \in Ids, PowerOff(i)
      PROVE  RootInv'
  BY <1>3 DEF PowerOff, feVars, DomTypes, NoCfg, RootInv, NamesInv, DiskInv, Disks, Live
<1>4. CASE Reboot
  BY <1>4 DEF Reboot, RebootFrontend, RootInv, NamesInv, DiskInv, Disks, Live
<1> QED BY <1>1, <1>2, <1>3, <1>4 DEF Next

\* A volume that is some domain's disk, or that a create has yet to finish, is
\* in the state in which the create, its undo and every teardown count on it.
THEOREM RootInvariant ==
  ASSUME IdOfInjective
  PROVE  Spec => []RootInv
<1>1. Init => RootInv
  BY DEF Init, FrontInit, VolumesInit, RootInv, NamesInv, DiskInv, Disks, Live
<1>2. TypeInv /\ RootInv /\ [Next]_vars => RootInv'
  BY NextRoot
<1> QED BY <1>1, <1>2, TypeInvariant, PTL DEF Spec

\* Whatever fails, crashes or restarts, and however the commands of several
\* containers interleave, a domain boots from a whole copy of the root file
\* system (provision_lvm_root), which dom0 has not mounted and which no undo
\* or teardown takes from under it.
THEOREM RootsAreClones ==
  ASSUME IdOfInjective
  PROVE  Spec => []RootIsClone
<1>1. TypeInv /\ RootInv => RootIsClone
  BY DEF TypeInv, TypeOK, RootInv, NamesInv, DiskInv, RootIsClone, Disks, Live
<1> QED BY <1>1, RootInvariant, TypeInvariant, PTL

-----------------------------------------------------------------------------
(* Pinned CPUs, for one command at a time: CpuInv is inductive.            *)

\* The CPUs of config.cfg are those of no guest, and shown for one that has them.
CpusOf(c) ==
  /\ pc[c] \in Configured => \A j \in Live : cfg[IdOf[c]].cpus \cap conf[j].cpus = {}
  /\ Shown(cfg[IdOf[c]].cpus) /\ Shown(conf[IdOf[c]].cpus)

LEMMA NoneShown == Shown({})
  BY DEF Shown

LEMMA FrontCpus ==
  ASSUME NEW c \in Containers, FrontTypes, VolumeTypes, DomTypes, VerbInv(c),
         CpusExclusive, CpusOf(c), UNCHANGED backVars,
         Invoke(c) \/ Exit(c) \/ DecideCreate(c) \/ DecideExisting(c) \/
           MakeDir(c) \/ State(c)
  PROVE  CpusExclusive' /\ CpusOf(c)'
<1> USE NoneShown DEF FrontTypes, VolumeTypes, DomTypes, NoCfg, VerbInv, CpusExclusive, CpusOf,
    Live, Goto, backVars, volVars, domVars
<1>1. CASE Invoke(c)
    BY <1>1 DEF Invoke, Allowed
<1>2. CASE Exit(c)
    BY <1>2 DEF Exit
<1>3. CASE DecideCreate(c)
    BY <1>3 DEF DecideCreate
<1>4. CASE DecideExisting(c)
    BY <1>4 DEF DecideExisting, RuncExisting, FirstCall
<1>5. CASE MakeDir(c)
    BY <1>5 DEF MakeDir
<1>6. CASE State(c)
    BY <1>6 DEF State
<1> QED BY <1>1, <1>2, <1>3, <1>4, <1>5, <1>6

LEMMA CreateCpus ==
  ASSUME NEW c \in Containers, FrontTypes, VolumeTypes, DomTypes, VerbInv(c),
         CpusExclusive, CpusOf(c), NoneOffline, ShownInv,
         ClearStaleDir(c) \/ GenerateConfig(c) \/ CreateVolume(c) \/
           CreateDomain(c) \/ SpawnCaronte(c) \/ StoreInfo(c) \/
           StartGuest(c)
  PROVE  CpusExclusive' /\ CpusOf(c)'
<1> USE NoneShown DEF FrontTypes, VolumeTypes, DomTypes, NoCfg, VerbInv, CpusExclusive, CpusOf,
    Live, Goto
<1>1. CASE ClearStaleDir(c)
    BY <1>1 DEF ClearStaleDir, RemoveAll, RemoveTree, domVars
<1>2. CASE GenerateConfig(c)
    <2>1. Written(c)
      BY <1>2, Writes
    <2>2. ASSUME NEW k \in Configs, Chosen(c, k.cpus)
          PROVE  Shown(k.cpus) /\ \A j \in Live : k.cpus \cap conf[j].cpus = {}
      BY <1>2, <2>2, Generates, ChosenAreShown, ChosenAreUnused
    <2> QED BY <2>1, <2>2 DEF Written
<1>3. CASE CreateVolume(c)
    BY <1>3 DEF CreateVolume, Provision, domVars, ReturnErr, AfterErr
<1>4. CASE CreateDomain(c)
    BY <1>4 DEF CreateDomain, ReturnErr, AfterErr
<1>5. CASE SpawnCaronte(c)
    BY <1>5 DEF SpawnCaronte, ReturnOk, AfterOk, ReturnErr, AfterErr
<1>6. CASE StoreInfo(c)
    BY <1>6 DEF StoreInfo, Store, Put, ReturnOk, AfterOk
<1>7. CASE StartGuest(c)
    BY <1>7 DEF StartGuest, SetDomain, ReturnOk, AfterOk, ReturnErr, AfterErr
<1> QED BY <1>1, <1>2, <1>3, <1>4, <1>5, <1>6, <1>7

LEMMA PopulateCpus ==
  ASSUME NEW c \in Containers, FrontTypes, VolumeTypes, DomTypes, VerbInv(c),
         CpusExclusive, CpusOf(c), UNCHANGED domVars,
         MountVolume(c) \/ CopyRootfs(c) \/ UmountVolume(c) \/ UndoMount(c)
           \/ UndoVolume(c, Disks)
  PROVE  CpusExclusive' /\ CpusOf(c)'
<1> USE NoneShown DEF FrontTypes, VolumeTypes, DomTypes, NoCfg, VerbInv, CpusExclusive, CpusOf,
    Live, Goto, domVars
<1>1. CASE MountVolume(c)
    BY <1>1 DEF MountVolume, Provision
<1>2. CASE CopyRootfs(c)
    BY <1>2 DEF CopyRootfs, Provision
<1>3. CASE UmountVolume(c)
    BY <1>3 DEF UmountVolume, Provision
<1>4. CASE UndoMount(c)
    BY <1>4 DEF UndoMount, Provision
<1>5. CASE UndoVolume(c, Disks)
    BY <1>5 DEF UndoVolume, Provision, InUse, ReturnErr, AfterErr
<1> QED BY <1>1, <1>2, <1>3, <1>4, <1>5

LEMMA TeardownCpus ==
  ASSUME NEW c \in Containers, FrontTypes, VolumeTypes, DomTypes, VerbInv(c),
         CpusExclusive, CpusOf(c),
         StopGuest(c) \/ DestroyDomain(c) \/ TakeVolume(c) \/
           SignalCaronte(c) \/ RemoveRunDir(c) \/ Cleanup(c) \/ Crash(c)
  PROVE  CpusExclusive' /\ CpusOf(c)'
<1> USE NoneShown DEF FrontTypes, VolumeTypes, DomTypes, NoCfg, VerbInv, CpusExclusive, CpusOf,
    Live, Goto
<1>1. CASE StopGuest(c)
    BY <1>1 DEF StopGuest, SetDomain, ReturnOk, AfterOk, ReturnErr, AfterErr
<1>2. CASE DestroyDomain(c)
  <2>1. CASE UNCHANGED <<dom, conf>>
    BY <1>2, <2>1 DEF DestroyDomain
  <2>2. CASE /\ dom' = [dom EXCEPT ![IdOf[c]] = "none"]
             /\ conf' = [conf EXCEPT ![IdOf[c]] = NoCfg]
    BY <1>2, <2>2 DEF DestroyDomain
  <2> QED BY <1>2, <2>1, <2>2 DEF DestroyDomain
<1>3. CASE TakeVolume(c)
    BY <1>3 DEF TakeVolume, RemoveVolume, InUse, domVars
<1>4. CASE SignalCaronte(c)
    BY <1>4 DEF SignalCaronte
<1>5. CASE RemoveRunDir(c)
    BY <1>5 DEF RemoveRunDir, RemoveAll, RemoveTree, domVars, ReturnOk, AfterOk
<1>6. CASE Cleanup(c)
    BY <1>6 DEF Cleanup, RemoveAll, RemoveTree, domVars, ReturnOk, AfterOk
<1>7. CASE Crash(c)
    BY <1>7 DEF Crash, CrashFrontend, backVars, volVars, domVars
<1> QED BY <1>1, <1>2, <1>3, <1>4, <1>5, <1>6, <1>7

LEMMA ContainerCpus ==
  ASSUME NEW c \in Containers, FrontTypes, VolumeTypes, DomTypes, VerbInv(c),
         CpusExclusive, CpusOf(c), NoneOffline, ShownInv,
         \/ (Invoke(c) \/ Front(c)) /\ UNCHANGED backVars
         \/ CreateStep(c) \/ TeardownStep(c) \/ Crash(c)
  PROVE  CpusExclusive' /\ CpusOf(c)'
<1>1. CASE (Invoke(c) \/ Front(c)) /\ UNCHANGED backVars
  BY <1>1, FrontCpus DEF Front
<1>2. CASE CreateStep(c)
  <2>1. CASE ProvisionLvmRoot(c)
    BY <2>1, PopulateCpus DEF ProvisionLvmRoot, Populate
  <2> QED BY <1>2, <2>1, CreateCpus DEF CreateStep
<1>3. CASE TeardownStep(c) \/ Crash(c)
  BY <1>3, TeardownCpus DEF TeardownStep
<1> QED BY <1>1, <1>2, <1>3

\* The engine starts a command only when there is none.
LEMMA OneActive ==
  ASSUME OneCommand, FrontTypes, FrontTypes', \A d, e \in Active : d = e,
         NEW c \in Containers, Frame(c),
         \/ (Invoke(c) \/ Front(c)) /\ UNCHANGED backVars
         \/ CreateStep(c) \/ TeardownStep(c) \/ Crash(c)
  PROVE  Active' \subseteq {c}
<1>1. CASE Invoke(c)
  <2>1. Cardinality(Active) < 1
    BY <1>1 DEF Invoke, OneCommand
  <2>2. Active = {}
    <3>1. ASSUME NEW d \in Active PROVE FALSE
      <4>1. Active = {d}
        BY <3>1
      <4>2. Cardinality(Active) = 1
        BY <4>1, FS_Singleton
      <4> QED BY <2>1, <4>2
    <3> QED BY <3>1
  <2> QED BY <2>2 DEF Active, Frame
<1>2. CASE pc[c] # "idle"
  <2>1. c \in Active
    BY <1>2 DEF Active
  <2> QED BY <2>1 DEF Active, Frame
<1>3. CASE ~Invoke(c) /\ pc[c] = "idle"
  BY <1>3 DEF Front, Exit, DecideCreate, DecideExisting, MakeDir, State, CreateStep,
     ClearStaleDir, GenerateConfig, CreateVolume, ProvisionLvmRoot, Populate,
     MountVolume, CopyRootfs, UmountVolume, UndoMount, UndoVolume, Provision,
     CreateDomain, SpawnCaronte, StoreInfo, Store, StartGuest, SetDomain,
     TeardownStep, StopGuest, DestroyDomain, TakeVolume, RemoveVolume, SignalCaronte,
     RemoveRunDir, Cleanup, Crash, CrashFrontend
<1> QED BY <1>1, <1>2, <1>3

LEMMA NextCpus ==
  ASSUME OneCommand, NoneOffline
  PROVE  TypeInv /\ CpuInv /\ [Next]_vars => CpuInv'
<1> SUFFICES ASSUME FrontTypes, VolumeTypes, DomTypes, FlowInv, CpuInv, [Next]_vars
             PROVE  CpuInv'
  BY TypeParts
<1>1. CASE UNCHANGED vars
  BY <1>1 DEF vars, feVars, backVars, domVars, CpuInv, CpusExclusive, ShownInv, Active,
     Live
<1>2. ASSUME NEW c \in Containers,
             \/ (Invoke(c) \/ Front(c)) /\ UNCHANGED backVars
             \/ CreateStep(c) \/ TeardownStep(c) \/ Crash(c)
      PROVE  CpuInv'
  <2>1. FrontTypes' /\ Frame(c)
    BY <1>2, ContainerStep
  <2>2. CpusExclusive' /\ CpusOf(c)'
    BY <1>2, ContainerCpus DEF CpuInv, CpusOf, ShownInv, FlowInv
  <2>3. Active' \subseteq {c}
    BY <1>2, <2>1, OneActive DEF CpuInv
  <2>4. ASSUME NEW d \in Containers, (pc[d] \in Configured)'
        PROVE  (\A j \in Live : cfg[IdOf[d]].cpus \cap conf[j].cpus = {})'
    <3>1. d = c
      BY <2>3, <2>4 DEF Active
    <3> QED BY <2>2, <2>4, <3>1 DEF CpusOf
  <2>5. ShownInv'
    BY <2>1, <2>2 DEF CpuInv, CpusOf, ShownInv, Frame
  <2> QED BY <2>2, <2>3, <2>4, <2>5 DEF CpuInv, CpusOf
<1>3. ASSUME NEW i \in Ids, PowerOff(i)
      PROVE  CpuInv'
  BY <1>3, NoneShown DEF PowerOff, feVars, DomTypes, Configs, NoCfg, CpuInv,
     CpusExclusive, ShownInv, Active, Live
<1>4. CASE Reboot
  BY <1>4, NoneShown DEF Reboot, RebootFrontend, NoCfg, CpuInv, CpusExclusive, ShownInv,
     Active, Live
<1> QED BY <1>1, <1>2, <1>3, <1>4 DEF Next

\* For one command at a time, and if every vCPU is online, the CPUs that cpuconf
\* takes for free are those of no guest, and are still so when xl create pins
\* the guest to them.
THEOREM CpuInvariant ==
  ASSUME OneCommand, NoneOffline
  PROVE  Spec => []CpuInv
<1>1. Init => CpuInv
  <2>1. Init => ShownInv
    <3> SUFFICES ASSUME Init, NEW i \in Ids
                 PROVE  Shown(cfg[i].cpus) /\ Shown(conf[i].cpus)
      BY DEF ShownInv
    <3>1. cfg[i].cpus = {} /\ conf[i].cpus = {}
      BY DEF Init, NoCfg
    <3> QED BY <3>1, NoneShown
  <2> QED BY <2>1 DEF Init, FrontInit, CpuInv, CpusExclusive, Active, Live
<1>2. TypeInv /\ CpuInv /\ [Next]_vars => CpuInv'
  BY NextCpus
<1> QED BY <1>1, <1>2, TypeInvariant, PTL DEF Spec

\* For one command at a time, and whatever else fails, the guests that cpuconf
\* pins share no CPU if no vCPU is ever offline or each guest has only one;
\* for other guests, and for two commands at a time, TLC finds the contrary.
THEOREM CpusApart ==
  ASSUME OneCommand, NoneOffline
  PROVE  Spec => []CpusExclusive
<1>1. CpuInv => CpusExclusive
  BY DEF CpuInv
<1> QED BY <1>1, CpuInvariant, PTL
=============================================================================
