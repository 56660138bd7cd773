---------------------------- MODULE XenLifecycle ----------------------------
(***************************************************************************)
(* Proofs about Xen for the case that what ends a guest does end it        *)
(* (GuestsEnd): every domain has a state directory and every directory a   *)
(* container, so that the backend implements ManagedGuest; and if nothing  *)
(* else of a teardown fails either (TeardownWorks), that a volume is one   *)
(* that a later teardown finds and that a delete leaves nothing.           *)
(*                                                                         *)
(* The argument is that of XenProofs: by Frame only what LifecycleInv and  *)
(* TidyInv say of c is shown anew for a step of c.                         *)
(***************************************************************************)
EXTENDS XenProofs

\* The moves of ManagedGuest under the mapping of Guests.
Abs == INSTANCE GuestMoves WITH
  known <- {c \in Containers : status[c] # "none" \/ pc[c] # "idle"},
  dir   <- {c \in Containers : IdOf[c] \in crundir},
  guest <- {c \in Containers : dom[IdOf[c]] # "none"}

USE DEF Before, Configured, Provisioning, Storing, Creating, Stopping, Removing,
        Labels, FrontLabels, VolumeLabels, XenLabels, Verbs, Statuses, FileNames,
        DomStates, VolumeStates

USE IdOfAssumption

-----------------------------------------------------------------------------
(* The domain and the state directory of c.                                *)

LEMMA FrontDir ==
  ASSUME NEW c \in Containers, GuestsEnd, FrontTypes, VolumeTypes, DomTypes,
         VerbInv(c), DirInv(c), UNCHANGED backVars,
         Invoke(c) \/ Exit(c) \/ DecideCreate(c) \/ DecideExisting(c) \/
           MakeDir(c) \/ State(c)
  PROVE  DirInv(c)'
<1> USE DEF FrontTypes, VolumeTypes, DomTypes, VerbInv, DirInv, Gone, Live, Goto,
    backVars, volVars, domVars
<1>1. CASE Invoke(c)
    BY <1>1 DEF Invoke, Allowed
<1>2. CASE Exit(c)
    BY <1>2 DEF Exit
<1>3. CASE DecideCreate(c)
    BY <1>3 DEF DecideCreate
<1>4. CASE DecideExisting(c)
    BY <1>4 DEF DecideExisting, RuncExisting, FirstCall
<1>5. CASE MakeDir(c)
    BY <1>5 DEF MakeDir
<1>6. CASE State(c)
    BY <1>6 DEF State
<1> QED BY <1>1, <1>2, <1>3, <1>4, <1>5, <1>6

LEMMA CreateDir ==
  ASSUME NEW c \in Containers, GuestsEnd, FrontTypes, VolumeTypes, DomTypes,
         VerbInv(c), DirInv(c),
         ClearStaleDir(c) \/ GenerateConfig(c) \/ CreateVolume(c) \/
           CreateDomain(c) \/ SpawnCaronte(c) \/ StoreInfo(c) \/
           StartGuest(c)
  PROVE  DirInv(c)'
<1> USE DEF FrontTypes, VolumeTypes, DomTypes, VerbInv, DirInv, Gone, Live, Goto,
    GuestsEnd, Fault
<1>1. CASE ClearStaleDir(c)
    BY <1>1 DEF ClearStaleDir, RemoveAll, RemoveTree, domVars
<1>2. CASE GenerateConfig(c)
    BY <1>2, Generates DEF WriteConfig, PlannedVolume, Put, ReturnOk,
     AfterOk, ReturnErr, AfterErr
<1>3. CASE CreateVolume(c)
    BY <1>3 DEF CreateVolume, Provision, domVars, ReturnErr, AfterErr
<1>4. CASE CreateDomain(c)
    BY <1>4 DEF CreateDomain, ReturnErr, AfterErr
<1>5. CASE SpawnCaronte(c)
    BY <1>5 DEF SpawnCaronte, ReturnOk, AfterOk, ReturnErr, AfterErr
<1>6. CASE StoreInfo(c)
    BY <1>6 DEF StoreInfo, Store, Put, ReturnOk, AfterOk
<1>7. CASE StartGuest(c)
    BY <1>7 DEF StartGuest, SetDomain, ReturnOk, AfterOk, ReturnErr, AfterErr
<1> QED BY <1>1, <1>2, <1>3, <1>4, <1>5, <1>6, <1>7

LEMMA PopulateDir ==
  ASSUME NEW c \in Containers, GuestsEnd, FrontTypes, VolumeTypes, DomTypes,
         VerbInv(c), DirInv(c), UNCHANGED domVars,
         MountVolume(c) \/ CopyRootfs(c) \/ UmountVolume(c) \/ UndoMount(c)
           \/ UndoVolume(c, Disks)
  PROVE  DirInv(c)'
<1> USE DEF FrontTypes, VolumeTypes, DomTypes, VerbInv, DirInv, Gone, Live, Goto,
    domVars, GuestsEnd, Fault
<1>1. CASE MountVolume(c)
    BY <1>1 DEF MountVolume, Provision
<1>2. CASE CopyRootfs(c)
    BY <1>2 DEF CopyRootfs, Provision
<1>3. CASE UmountVolume(c)
    BY <1>3 DEF UmountVolume, Provision
<1>4. CASE UndoMount(c)
    BY <1>4 DEF UndoMount, Provision
<1>5. CASE UndoVolume(c, Disks)
    BY <1>5 DEF UndoVolume, Provision, InUse, ReturnErr, AfterErr
<1> QED BY <1>1, <1>2, <1>3, <1>4, <1>5

LEMMA TeardownDir ==
  ASSUME NEW c \in Containers, GuestsEnd, FrontTypes, VolumeTypes, DomTypes,
         VerbInv(c), DirInv(c),
         StopGuest(c) \/ DestroyDomain(c) \/ TakeVolume(c) \/
           SignalCaronte(c) \/ RemoveRunDir(c) \/ Cleanup(c) \/ Crash(c)
  PROVE  DirInv(c)'
<1> USE DEF FrontTypes, VolumeTypes, DomTypes, VerbInv, DirInv, Gone, Live, Goto,
    GuestsEnd, Fault
<1>1. CASE StopGuest(c)
    BY <1>1 DEF StopGuest, SetDomain, ReturnOk, AfterOk, ReturnErr, AfterErr
<1>2. CASE DestroyDomain(c)
    BY <1>2 DEF DestroyDomain
<1>3. CASE TakeVolume(c)
    BY <1>3 DEF TakeVolume, RemoveVolume, InUse, domVars
<1>4. CASE SignalCaronte(c)
    BY <1>4 DEF SignalCaronte
<1>5. CASE RemoveRunDir(c)
    BY <1>5 DEF RemoveRunDir, RemoveAll, RemoveTree, domVars, ReturnOk, AfterOk
<1>6. CASE Cleanup(c)
    BY <1>6 DEF Cleanup, RemoveAll, RemoveTree, domVars, ReturnOk, AfterOk
<1>7. CASE Crash(c)
    BY <1>7 DEF Crash, CrashFrontend, backVars, volVars, domVars
<1> QED BY <1>1, <1>2, <1>3, <1>4, <1>5, <1>6, <1>7

LEMMA ContainerDir ==
  ASSUME NEW c \in Containers, GuestsEnd, FrontTypes, VolumeTypes, DomTypes,
         FlowInv, DirInv(c),
         \/ (Invoke(c) \/ Front(c)) /\ UNCHANGED backVars
         \/ CreateStep(c) \/ TeardownStep(c) \/ Crash(c)
  PROVE  DirInv(c)'
<1>0. VerbInv(c)
  BY DEF FlowInv
<1>1. CASE (Invoke(c) \/ Front(c)) /\ UNCHANGED backVars
  BY <1>0, <1>1, FrontDir DEF Front
<1>2. CASE CreateStep(c)
  <2>1. CASE ProvisionLvmRoot(c)
    BY <1>0, <2>1, PopulateDir DEF ProvisionLvmRoot, Populate
  <2> QED BY <1>0, <1>2, <2>1, CreateDir DEF CreateStep
<1>3. CASE TeardownStep(c) \/ Crash(c)
  BY <1>0, <1>3, TeardownDir DEF TeardownStep
<1> QED BY <1>1, <1>2, <1>3

-----------------------------------------------------------------------------
(* LifecycleInv is an inductive invariant.                                 *)

LEMMA KeptLifecycle ==
  ASSUME NEW c \in Containers, IdOfInjective, LifecycleInv, Frame(c), DirInv(c)'
  PROVE  LifecycleInv'
<1>1. ASSUME NEW d \in Containers, d # c PROVE DirInv(d)'
  <2>1. IdOf[d] # IdOf[c] /\ IdOf[d] \in Ids
    BY <1>1 DEF IdOfInjective
  <2> QED BY <1>1, <2>1 DEF LifecycleInv, DirInv, Frame, Gone, Live
<1> QED BY <1>1, ContainerNames DEF LifecycleInv

LEMMA NextLifecycle ==
  ASSUME IdOfInjective, GuestsEnd
  PROVE  TypeInv /\ LifecycleInv /\ [Next]_vars => LifecycleInv'
<1> SUFFICES ASSUME FrontTypes, VolumeTypes, DomTypes, FlowInv, LifecycleInv,
                    [Next]_vars
             PROVE  LifecycleInv'
  BY TypeParts
<1>1. CASE UNCHANGED vars
  BY <1>1 DEF vars, feVars, backVars, volVars, domVars, LifecycleInv, NamesInv, DirInv,
     Gone, Live
<1>2. ASSUME NEW c \in Containers,
             \/ (Invoke(c) \/ Front(c)) /\ UNCHANGED backVars
             \/ CreateStep(c) \/ TeardownStep(c) \/ Crash(c)
      PROVE  LifecycleInv'
  BY <1>2, ContainerStep, ContainerDir, KeptLifecycle DEF LifecycleInv
<1>3. ASSUME NEW i \in Ids, PowerOff(i)
      PROVE  LifecycleInv'
  <2>1. UNCHANGED <<feVars, mounted>> /\ Live' \subseteq Live
    BY <1>3 DEF PowerOff, DomTypes, Live
  <2> QED BY <2>1 DEF feVars, LifecycleInv, NamesInv, DirInv, Gone
<1>4. CASE Reboot
  BY <1>4 DEF Reboot, RebootFrontend, LifecycleInv, NamesInv, DirInv, Gone, Live
<1> QED BY <1>1, <1>2, <1>3, <1>4 DEF Next

\* No domain without a state directory, and no directory without a container.
THEOREM Lifecycle ==
  ASSUME IdOfInjective, GuestsEnd
  PROVE  Spec => []LifecycleInv
<1>1. Init => LifecycleInv
  BY DEF Init, FrontInit, VolumesInit, LifecycleInv, NamesInv, DirInv, Gone, Live
<1>2. TypeInv /\ LifecycleInv /\ [Next]_vars => LifecycleInv'
  BY NextLifecycle
<1> QED BY <1>1, <1>2, TypeInvariant, PTL DEF Spec

-----------------------------------------------------------------------------
(* Each step is a move of ManagedGuest.                                    *)

LEMMA FrontMoves ==
  ASSUME NEW c \in Containers, FrontTypes, DomTypes, VerbInv(c), DirInv(c),
         UNCHANGED backVars,
         Invoke(c) \/ Exit(c) \/ DecideCreate(c) \/ DecideExisting(c) \/
           MakeDir(c) \/ State(c)
  PROVE  Abs!Moves(c)
<1> USE DEF FrontTypes, DomTypes, VerbInv, DirInv, Gone, Live, Goto, Abs!Moves,
    Abs!Stays, backVars, volVars, domVars
<1>1. CASE Invoke(c)
    BY <1>1 DEF Invoke, Allowed, Abs!Accepted
<1>2. CASE Exit(c)
    BY <1>2 DEF Exit, Abs!Forgotten
<1>3. CASE DecideCreate(c)
    BY <1>3 DEF DecideCreate
<1>4. CASE DecideExisting(c)
    BY <1>4 DEF DecideExisting, RuncExisting, FirstCall
<1>5. CASE MakeDir(c)
    BY <1>5 DEF MakeDir, Abs!Claimed
<1>6. CASE State(c)
    BY <1>6 DEF State
<1> QED BY <1>1, <1>2, <1>3, <1>4, <1>5, <1>6

LEMMA CreateMoves ==
  ASSUME NEW c \in Containers, FrontTypes, DomTypes, VerbInv(c), DirInv(c),
         ClearStaleDir(c) \/ GenerateConfig(c) \/ CreateVolume(c) \/
           CreateDomain(c) \/ SpawnCaronte(c) \/ StoreInfo(c) \/
           StartGuest(c)
  PROVE  Abs!Moves(c)
<1> USE DEF FrontTypes, DomTypes, VerbInv, DirInv, Gone, Live, Goto, Abs!Moves,
    Abs!Stays
<1>1. CASE ClearStaleDir(c)
    BY <1>1 DEF ClearStaleDir, RemoveAll, RemoveTree, domVars
<1>2. CASE GenerateConfig(c)
    BY <1>2, Generates DEF WriteConfig, PlannedVolume, Put, ReturnOk,
     AfterOk, ReturnErr, AfterErr
<1>3. CASE CreateVolume(c)
    BY <1>3 DEF CreateVolume, Provision, domVars, ReturnErr, AfterErr
<1>4. CASE CreateDomain(c)
    BY <1>4 DEF CreateDomain, ReturnErr, AfterErr, Abs!Booted
<1>5. CASE SpawnCaronte(c)
    BY <1>5 DEF SpawnCaronte, ReturnOk, AfterOk, ReturnErr, AfterErr
<1>6. CASE StoreInfo(c)
    BY <1>6 DEF StoreInfo, Store, Put, ReturnOk, AfterOk
<1>7. CASE StartGuest(c)
    BY <1>7 DEF StartGuest, SetDomain, ReturnOk, AfterOk, ReturnErr, AfterErr
<1> QED BY <1>1, <1>2, <1>3, <1>4, <1>5, <1>6, <1>7

LEMMA PopulateMoves ==
  ASSUME NEW c \in Containers, FrontTypes, DomTypes, VerbInv(c), DirInv(c),
         UNCHANGED domVars,
         MountVolume(c) \/ CopyRootfs(c) \/ UmountVolume(c) \/ UndoMount(c)
           \/ UndoVolume(c, Disks)
  PROVE  Abs!Moves(c)
<1> USE DEF FrontTypes, DomTypes, VerbInv, DirInv, Gone, Live, Goto, Abs!Moves,
    Abs!Stays, domVars
<1>1. CASE MountVolume(c)
    BY <1>1 DEF MountVolume, Provision
<1>2. CASE CopyRootfs(c)
    BY <1>2 DEF CopyRootfs, Provision
<1>3. CASE UmountVolume(c)
    BY <1>3 DEF UmountVolume, Provision
<1>4. CASE UndoMount(c)
    BY <1>4 DEF UndoMount, Provision
<1>5. CASE UndoVolume(c, Disks)
    BY <1>5 DEF UndoVolume, Provision, InUse, ReturnErr, AfterErr
<1> QED BY <1>1, <1>2, <1>3, <1>4, <1>5

LEMMA TeardownMoves ==
  ASSUME NEW c \in Containers, FrontTypes, DomTypes, VerbInv(c), DirInv(c),
         StopGuest(c) \/ DestroyDomain(c) \/ TakeVolume(c) \/
           SignalCaronte(c) \/ RemoveRunDir(c) \/ Cleanup(c) \/ Crash(c)
  PROVE  Abs!Moves(c)
<1> USE DEF FrontTypes, DomTypes, VerbInv, DirInv, Gone, Live, Goto, Abs!Moves,
    Abs!Stays
<1>1. CASE StopGuest(c)
    BY <1>1 DEF StopGuest, SetDomain, ReturnOk, AfterOk, ReturnErr, AfterErr
<1>2. CASE DestroyDomain(c)
    BY <1>2 DEF DestroyDomain, Abs!Halted
<1>3. CASE TakeVolume(c)
    BY <1>3 DEF TakeVolume, RemoveVolume, InUse, domVars
<1>4. CASE SignalCaronte(c)
    BY <1>4 DEF SignalCaronte
<1>5. CASE RemoveRunDir(c)
    BY <1>5 DEF RemoveRunDir, RemoveAll, RemoveTree, domVars, ReturnOk, AfterOk,
     Abs!Released
<1>6. CASE Cleanup(c)
    BY <1>6 DEF Cleanup, RemoveAll, RemoveTree, domVars, ReturnOk, AfterOk,
     Abs!Released
<1>7. CASE Crash(c)
    BY <1>7 DEF Crash, CrashFrontend, backVars, volVars, domVars
<1> QED BY <1>1, <1>2, <1>3, <1>4, <1>5, <1>6, <1>7

LEMMA ContainerMoves ==
  ASSUME NEW c \in Containers, FrontTypes, DomTypes, FlowInv, DirInv(c),
         \/ (Invoke(c) \/ Front(c)) /\ UNCHANGED backVars
         \/ CreateStep(c) \/ TeardownStep(c) \/ Crash(c)
  PROVE  Abs!Moves(c)
<1>0. VerbInv(c)
  BY DEF FlowInv
<1>1. CASE (Invoke(c) \/ Front(c)) /\ UNCHANGED backVars
  BY <1>0, <1>1, FrontMoves DEF Front
<1>2. CASE CreateStep(c)
  <2>1. CASE ProvisionLvmRoot(c)
    BY <1>0, <2>1, PopulateMoves DEF ProvisionLvmRoot, Populate
  <2> QED BY <1>0, <1>2, <2>1, CreateMoves DEF CreateStep
<1>3. CASE TeardownStep(c) \/ Crash(c)
  BY <1>0, <1>3, TeardownMoves DEF TeardownStep
<1> QED BY <1>1, <1>2, <1>3

LEMMA MoveMaps ==
  ASSUME NEW c \in Containers, Abs!Moves(c), \A d \in Containers \ {c} :
         Abs!Stays(d)
  PROVE  [Guests!Next]_(Guests!vars)
<1>1. Abs!Within(Containers) /\ Abs!Within(Containers)'
  BY DEF Abs!Within
<1>2. [Abs!Next]_(Abs!vars)
  BY <1>1, Abs!OneMoves
<1> QED BY <1>2
        DEF Abs!Next, Abs!vars, Abs!Accept, Abs!Claim, Abs!Boot, Abs!Halt, Abs!Release,
            Abs!Forget, Abs!Reset, Guests!Next, Guests!vars, Guests!Accept, Guests!Claim,
            Guests!Boot, Guests!Halt, Guests!Release, Guests!Forget, Guests!Reset

LEMMA StepMaps ==
  ASSUME IdOfInjective, GuestsEnd
  PROVE  TypeInv /\ LifecycleInv /\ [Next]_vars => [Guests!Next]_(Guests!vars)
<1> SUFFICES ASSUME FrontTypes, VolumeTypes, DomTypes, FlowInv, LifecycleInv,
                    [Next]_vars
             PROVE  [Guests!Next]_(Guests!vars)
  BY TypeParts
<1>1. CASE UNCHANGED vars
  BY <1>1 DEF vars, feVars, backVars, domVars, Guests!vars
<1>2. ASSUME NEW c \in Containers,
             \/ (Invoke(c) \/ Front(c)) /\ UNCHANGED backVars
             \/ CreateStep(c) \/ TeardownStep(c) \/ Crash(c)
      PROVE  [Guests!Next]_(Guests!vars)
  <2>1. Frame(c)
    BY <1>2, ContainerStep
  <2>2. \A d \in Containers \ {c} : Abs!Stays(d)
    BY <2>1 DEF IdOfInjective, Frame, Abs!Stays
  <2> QED BY <1>2, <2>2, ContainerMoves, MoveMaps DEF LifecycleInv
<1>3. ASSUME NEW i \in Ids, PowerOff(i)
      PROVE  [Guests!Next]_(Guests!vars)
  <2>1. PICK c \in Containers : i = IdOf[c]
    BY <1>3 DEF PowerOff, LifecycleInv, NamesInv, Live
  <2>2. Abs!Halted(c) /\ \A d \in Containers \ {c} : Abs!Stays(d)
    BY <1>3, <2>1 DEF PowerOff, feVars, DomTypes, IdOfInjective, Abs!Halted, Abs!Stays
  <2> QED BY <2>2, MoveMaps DEF Abs!Moves
<1>4. CASE Reboot
  BY <1>4 DEF Reboot, RebootFrontend, Guests!Next, Guests!Reset
<1> QED BY <1>1, <1>2, <1>3, <1>4 DEF Next

\* runPHI with the Xen backend implements ManagedGuest for any number of
\* containers, also when guests power themselves off at any moment.
THEOREM XenImplements ==
  ASSUME IdOfInjective, GuestsEnd
  PROVE  Spec => GuestLifecycle
<1>1. Init => Guests!Init
  BY DEF Init, FrontInit, Guests!Init
<1>2. TypeInv /\ LifecycleInv /\ [Next]_vars => [Guests!Next]_(Guests!vars)
  BY StepMaps
<1> QED BY <1>1, <1>2, TypeInvariant, Lifecycle, PTL DEF Spec, GuestLifecycle, Guests!Spec

-----------------------------------------------------------------------------
(* The volume and the caronte of c.                                        *)

LEMMA FrontVolume ==
  ASSUME NEW c \in Containers, TeardownWorks, FrontTypes, VolumeTypes, DomTypes,
         VerbInv(c), DirInv(c), VolumeInv(c), UNCHANGED backVars,
         Invoke(c) \/ Exit(c) \/ DecideCreate(c) \/ DecideExisting(c) \/
           MakeDir(c) \/ State(c)
  PROVE  VolumeInv(c)'
<1> USE DEF FrontTypes, VolumeTypes, DomTypes, VerbInv, DirInv, Gone, VolumeInv,
    Disks, Live, Goto, backVars, volVars, domVars
<1>1. CASE Invoke(c)
    BY <1>1 DEF Invoke, Allowed
<1>2. CASE Exit(c)
    BY <1>2 DEF Exit
<1>3. CASE DecideCreate(c)
    BY <1>3 DEF DecideCreate
<1>4. CASE DecideExisting(c)
    BY <1>4 DEF DecideExisting, RuncExisting, FirstCall
<1>5. CASE MakeDir(c)
    BY <1>5 DEF MakeDir
<1>6. CASE State(c)
    BY <1>6 DEF State
<1> QED BY <1>1, <1>2, <1>3, <1>4, <1>5, <1>6

LEMMA CreateKeepsVolume ==
  ASSUME NEW c \in Containers, TeardownWorks, FrontTypes, VolumeTypes, DomTypes,
         VerbInv(c), DirInv(c), VolumeInv(c),
         ClearStaleDir(c) \/ GenerateConfig(c) \/ CreateVolume(c) \/
           CreateDomain(c) \/ SpawnCaronte(c) \/ StoreInfo(c) \/
           StartGuest(c)
  PROVE  VolumeInv(c)'
<1> USE DEF FrontTypes, VolumeTypes, DomTypes, VerbInv, DirInv, Gone, VolumeInv,
    Disks, Live, Goto, TeardownWorks, GuestsEnd, Fault
<1>1. CASE ClearStaleDir(c)
    BY <1>1 DEF ClearStaleDir, RemoveAll, RemoveTree, domVars
<1>2. CASE GenerateConfig(c)
    BY <1>2, Generates DEF WriteConfig, PlannedVolume, Put, ReturnOk,
     AfterOk, ReturnErr, AfterErr
<1>3. CASE CreateVolume(c)
    BY <1>3 DEF CreateVolume, Provision, domVars, ReturnErr, AfterErr
<1>4. CASE CreateDomain(c)
    BY <1>4 DEF CreateDomain, ReturnErr, AfterErr
<1>5. CASE SpawnCaronte(c)
    BY <1>5 DEF SpawnCaronte, ReturnOk, AfterOk, ReturnErr, AfterErr
<1>6. CASE StoreInfo(c)
    BY <1>6 DEF StoreInfo, Store, Put, ReturnOk, AfterOk
<1>7. CASE StartGuest(c)
    BY <1>7 DEF StartGuest, SetDomain, ReturnOk, AfterOk, ReturnErr, AfterErr
<1> QED BY <1>1, <1>2, <1>3, <1>4, <1>5, <1>6, <1>7

LEMMA PopulateVolume ==
  ASSUME NEW c \in Containers, TeardownWorks, FrontTypes, VolumeTypes, DomTypes,
         VerbInv(c), DirInv(c), VolumeInv(c), UNCHANGED domVars,
         MountVolume(c) \/ CopyRootfs(c) \/ UmountVolume(c) \/ UndoMount(c)
           \/ UndoVolume(c, Disks)
  PROVE  VolumeInv(c)'
<1> USE DEF FrontTypes, VolumeTypes, DomTypes, VerbInv, DirInv, Gone, VolumeInv,
    Disks, Live, Goto, domVars, TeardownWorks, GuestsEnd, Fault
<1>1. CASE MountVolume(c)
    BY <1>1 DEF MountVolume, Provision
<1>2. CASE CopyRootfs(c)
    BY <1>2 DEF CopyRootfs, Provision
<1>3. CASE UmountVolume(c)
    BY <1>3 DEF UmountVolume, Provision
<1>4. CASE UndoMount(c)
    BY <1>4 DEF UndoMount, Provision
<1>5. CASE UndoVolume(c, Disks)
    BY <1>5 DEF UndoVolume, Provision, InUse, ReturnErr, AfterErr
<1> QED BY <1>1, <1>2, <1>3, <1>4, <1>5

LEMMA TeardownVolume ==
  ASSUME NEW c \in Containers, TeardownWorks, FrontTypes, VolumeTypes, DomTypes,
         VerbInv(c), DirInv(c), VolumeInv(c),
         StopGuest(c) \/ DestroyDomain(c) \/ TakeVolume(c) \/
           SignalCaronte(c) \/ RemoveRunDir(c) \/ Cleanup(c) \/ Crash(c)
  PROVE  VolumeInv(c)'
<1> USE DEF FrontTypes, VolumeTypes, DomTypes, VerbInv, DirInv, Gone, VolumeInv,
    Disks, Live, Goto, TeardownWorks, GuestsEnd, Fault
<1>1. CASE StopGuest(c)
    BY <1>1 DEF StopGuest, SetDomain, ReturnOk, AfterOk, ReturnErr, AfterErr
<1>2. CASE DestroyDomain(c)
    BY <1>2 DEF DestroyDomain
<1>3. CASE TakeVolume(c)
    BY <1>3 DEF TakeVolume, RemoveVolume, InUse, domVars
<1>4. CASE SignalCaronte(c)
    BY <1>4 DEF SignalCaronte
<1>5. CASE RemoveRunDir(c)
    BY <1>5 DEF RemoveRunDir, RemoveAll, RemoveTree, domVars, ReturnOk, AfterOk
<1>6. CASE Cleanup(c)
    BY <1>6 DEF Cleanup, RemoveAll, RemoveTree, domVars, ReturnOk, AfterOk
<1>7. CASE Crash(c)
    BY <1>7 DEF Crash, CrashFrontend, backVars, volVars, domVars
<1> QED BY <1>1, <1>2, <1>3, <1>4, <1>5, <1>6, <1>7

LEMMA FrontCaronte ==
  ASSUME NEW c \in Containers, TeardownWorks, FrontTypes, VolumeTypes, DomTypes,
         VerbInv(c), DirInv(c), CaronteInv(c), UNCHANGED backVars,
         Invoke(c) \/ Exit(c) \/ DecideCreate(c) \/ DecideExisting(c) \/
           MakeDir(c) \/ State(c)
  PROVE  CaronteInv(c)'
<1> USE DEF FrontTypes, VolumeTypes, DomTypes, VerbInv, DirInv, Gone, CaronteInv,
    Live, Goto, backVars, volVars, domVars
<1>1. CASE Invoke(c)
    BY <1>1 DEF Invoke, Allowed
<1>2. CASE Exit(c)
    BY <1>2 DEF Exit
<1>3. CASE DecideCreate(c)
    BY <1>3 DEF DecideCreate
<1>4. CASE DecideExisting(c)
    BY <1>4 DEF DecideExisting, RuncExisting, FirstCall
<1>5. CASE MakeDir(c)
    BY <1>5 DEF MakeDir
<1>6. CASE State(c)
    BY <1>6 DEF State
<1> QED BY <1>1, <1>2, <1>3, <1>4, <1>5, <1>6

LEMMA CreateCaronte ==
  ASSUME NEW c \in Containers, TeardownWorks, FrontTypes, VolumeTypes, DomTypes,
         VerbInv(c), DirInv(c), CaronteInv(c),
         ClearStaleDir(c) \/ GenerateConfig(c) \/ CreateVolume(c) \/
           CreateDomain(c) \/ SpawnCaronte(c) \/ StoreInfo(c) \/
           StartGuest(c)
  PROVE  CaronteInv(c)'
<1> USE DEF FrontTypes, VolumeTypes, DomTypes, VerbInv, DirInv, Gone, CaronteInv,
    Live, Goto, TeardownWorks, GuestsEnd, Fault
<1>1. CASE ClearStaleDir(c)
    BY <1>1 DEF ClearStaleDir, RemoveAll, RemoveTree, domVars
<1>2. CASE GenerateConfig(c)
    BY <1>2, Generates DEF WriteConfig, PlannedVolume, Put, ReturnOk,
     AfterOk, ReturnErr, AfterErr
<1>3. CASE CreateVolume(c)
    BY <1>3 DEF CreateVolume, Provision, domVars, ReturnErr, AfterErr
<1>4. CASE CreateDomain(c)
    BY <1>4 DEF CreateDomain, ReturnErr, AfterErr
<1>5. CASE SpawnCaronte(c)
    BY <1>5 DEF SpawnCaronte, ReturnOk, AfterOk, ReturnErr, AfterErr
<1>6. CASE StoreInfo(c)
    BY <1>6 DEF StoreInfo, Store, Put, ReturnOk, AfterOk
<1>7. CASE StartGuest(c)
    BY <1>7 DEF StartGuest, SetDomain, ReturnOk, AfterOk, ReturnErr, AfterErr
<1> QED BY <1>1, <1>2, <1>3, <1>4, <1>5, <1>6, <1>7

LEMMA PopulateCaronte ==
  ASSUME NEW c \in Containers, TeardownWorks, FrontTypes, VolumeTypes, DomTypes,
         VerbInv(c), DirInv(c), CaronteInv(c), UNCHANGED domVars,
         MountVolume(c) \/ CopyRootfs(c) \/ UmountVolume(c) \/ UndoMount(c)
           \/ UndoVolume(c, Disks)
  PROVE  CaronteInv(c)'
<1> USE DEF FrontTypes, VolumeTypes, DomTypes, VerbInv, DirInv, Gone, CaronteInv,
    Live, Goto, domVars, TeardownWorks, GuestsEnd, Fault
<1>1. CASE MountVolume(c)
    BY <1>1 DEF MountVolume, Provision
<1>2. CASE CopyRootfs(c)
    BY <1>2 DEF CopyRootfs, Provision
<1>3. CASE UmountVolume(c)
    BY <1>3 DEF UmountVolume, Provision
<1>4. CASE UndoMount(c)
    BY <1>4 DEF UndoMount, Provision
<1>5. CASE UndoVolume(c, Disks)
    BY <1>5 DEF UndoVolume, Provision, InUse, ReturnErr, AfterErr
<1> QED BY <1>1, <1>2, <1>3, <1>4, <1>5

LEMMA TeardownCaronte ==
  ASSUME NEW c \in Containers, TeardownWorks, FrontTypes, VolumeTypes, DomTypes,
         VerbInv(c), DirInv(c), CaronteInv(c),
         StopGuest(c) \/ DestroyDomain(c) \/ TakeVolume(c) \/
           SignalCaronte(c) \/ RemoveRunDir(c) \/ Cleanup(c) \/ Crash(c)
  PROVE  CaronteInv(c)'
<1> USE DEF FrontTypes, VolumeTypes, DomTypes, VerbInv, DirInv, Gone, CaronteInv,
    Live, Goto, TeardownWorks, GuestsEnd, Fault
<1>1. CASE StopGuest(c)
    BY <1>1 DEF StopGuest, SetDomain, ReturnOk, AfterOk, ReturnErr, AfterErr
<1>2. CASE DestroyDomain(c)
    BY <1>2 DEF DestroyDomain
<1>3. CASE TakeVolume(c)
    BY <1>3 DEF TakeVolume, RemoveVolume, InUse, domVars
<1>4. CASE SignalCaronte(c)
    BY <1>4 DEF SignalCaronte
<1>5. CASE RemoveRunDir(c)
    BY <1>5 DEF RemoveRunDir, RemoveAll, RemoveTree, domVars, ReturnOk, AfterOk
<1>6. CASE Cleanup(c)
    BY <1>6 DEF Cleanup, RemoveAll, RemoveTree, domVars, ReturnOk, AfterOk
<1>7. CASE Crash(c)
    BY <1>7 DEF Crash, CrashFrontend, backVars, volVars, domVars
<1> QED BY <1>1, <1>2, <1>3, <1>4, <1>5, <1>6, <1>7

LEMMA ContainerTidy ==
  ASSUME NEW c \in Containers, TeardownWorks, FrontTypes, VolumeTypes, DomTypes,
         FlowInv, DirInv(c), VolumeInv(c),
         CaronteInv(c),
         \/ (Invoke(c) \/ Front(c)) /\ UNCHANGED backVars
         \/ CreateStep(c) \/ TeardownStep(c) \/ Crash(c)
  PROVE  VolumeInv(c)' /\ CaronteInv(c)'
<1>0. VerbInv(c)
  BY DEF FlowInv
<1>1. CASE (Invoke(c) \/ Front(c)) /\ UNCHANGED backVars
  BY <1>0, <1>1, FrontVolume, FrontCaronte DEF Front
<1>2. CASE CreateStep(c)
  <2>1. CASE ProvisionLvmRoot(c)
    BY <1>0, <2>1, PopulateVolume, PopulateCaronte DEF ProvisionLvmRoot, Populate
  <2> QED BY <1>0, <1>2, <2>1, CreateKeepsVolume, CreateCaronte DEF CreateStep
<1>3. CASE TeardownStep(c) \/ Crash(c)
  BY <1>0, <1>3, TeardownVolume, TeardownCaronte DEF TeardownStep
<1> QED BY <1>1, <1>2, <1>3

-----------------------------------------------------------------------------
(* TidyInv is an inductive invariant.                                      *)

LEMMA KeptTidy ==
  ASSUME NEW c \in Containers, IdOfInjective, TidyInv, Frame(c), VolumeInv(c)',
         CaronteInv(c)'
  PROVE  TidyInv'
<1>1. ASSUME NEW d \in Containers, d # c PROVE VolumeInv(d)' /\ CaronteInv(d)'
  <2>1. IdOf[d] # IdOf[c] /\ IdOf[d] \in Ids
    BY <1>1 DEF IdOfInjective
  <2> QED BY <1>1, <2>1 DEF TidyInv, VolumeInv, CaronteInv, Frame
<1>2. NoLeakedVolume'
  BY DEF NoLeakedVolume, TidyInv, VolumeInv, Frame
<1> QED BY <1>1, <1>2 DEF TidyInv

LEMMA NextTidy ==
  ASSUME IdOfInjective, TeardownWorks
  PROVE  TypeInv /\ LifecycleInv /\ TidyInv /\ [Next]_vars => TidyInv'
<1> SUFFICES ASSUME FrontTypes, VolumeTypes, DomTypes, FlowInv, LifecycleInv, TidyInv,
                    [Next]_vars
             PROVE  TidyInv'
  BY TypeParts
<1>1. CASE UNCHANGED vars
  BY <1>1 DEF vars, feVars, backVars, volVars, domVars, TidyInv, NoLeakedVolume,
     VolumeInv, CaronteInv
<1>2. ASSUME NEW c \in Containers,
             \/ (Invoke(c) \/ Front(c)) /\ UNCHANGED backVars
             \/ CreateStep(c) \/ TeardownStep(c) \/ Crash(c)
      PROVE  TidyInv'
  BY <1>2, ContainerStep, ContainerTidy, KeptTidy DEF LifecycleInv, TidyInv
<1>3. ASSUME NEW i \in Ids, PowerOff(i)
      PROVE  TidyInv'
  BY <1>3 DEF PowerOff, feVars, TidyInv, NoLeakedVolume, VolumeInv, CaronteInv
<1>4. ~Reboot
  BY DEF Reboot, RebootFrontend, TeardownWorks
<1> QED BY <1>1, <1>2, <1>3, <1>4 DEF Next

\* Volumes and carontes are those that a later teardown finds.
THEOREM Tidy ==
  ASSUME IdOfInjective, TeardownWorks
  PROVE  Spec => []TidyInv
<1>1. Init => TidyInv
  BY DEF Init, FrontInit, VolumesInit, TidyInv, NoLeakedVolume, VolumeInv, CaronteInv
<1>2. TypeInv /\ LifecycleInv /\ TidyInv /\ [Next]_vars => TidyInv'
  BY NextTidy
<1>3. GuestsEnd
  BY DEF TeardownWorks
<1> QED BY <1>1, <1>2, <1>3, TypeInvariant, Lifecycle, PTL DEF Spec

\* A create that fails, at whichever step, leaves no volume that no record
\* names (lib.rs:59-60).
THEOREM NoVolumeLeaks ==
  ASSUME IdOfInjective, TeardownWorks
  PROVE  Spec => []NoLeakedVolume
<1>1. TidyInv => NoLeakedVolume
  BY DEF TidyInv
<1> QED BY <1>1, Tidy, PTL

\* A delete that reports success has removed the domain and the volume.
THEOREM DeletesGuest ==
  ASSUME IdOfInjective, TeardownWorks
  PROVE  Spec => []DeleteRemovesGuest
<1>1. LifecycleInv /\ TidyInv => DeleteRemovesGuest
  BY DEF DeleteRemovesGuest, LifecycleInv, DirInv, Gone, TidyInv, VolumeInv
<1>2. GuestsEnd
  BY DEF TeardownWorks
<1> QED BY <1>1, <1>2, Lifecycle, Tidy, PTL

\* And it has ended the caronte that stood for the container.
THEOREM DeletesCaronte ==
  ASSUME IdOfInjective, TeardownWorks
  PROVE  Spec => []DeleteEndsCaronte
<1>1. LifecycleInv /\ TidyInv => DeleteEndsCaronte
  BY DEF DeleteEndsCaronte, LifecycleInv, DirInv, Gone, TidyInv, CaronteInv
<1>2. GuestsEnd
  BY DEF TeardownWorks
<1> QED BY <1>1, <1>2, Lifecycle, Tidy, PTL
=============================================================================
