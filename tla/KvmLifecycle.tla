---------------------------- MODULE KvmLifecycle ----------------------------
(***************************************************************************)
(* Proofs about Kvm for the case that what ends a guest does end it        *)
(* (GuestsEnd): every guest has a state directory and every directory a    *)
(* container, so that the backend implements ManagedGuest; and if nothing  *)
(* else of a teardown fails either (TeardownWorks), that root disks are    *)
(* whole copies and that a delete leaves nothing.                          *)
(*                                                                         *)
(* The argument: LifecycleInv and TidyInv are conjunctions over the        *)
(* containers.  A step of c changes nothing that they say of another       *)
(* container (Aside), so that only what they say of c is shown anew, for   *)
(* each action.  That QEMUs leave a cgroup only with their own container   *)
(* is MembersInv, which needs no hypothesis on what may fail.              *)
(*                                                                         *)
(* Interrupts belong to nobody, so that no such frame helps: there must be *)
(* one container at a time that steers them (OneSteers).  HomeInv says     *)
(* that they are away from where they were at boot only while that one     *)
(* knows the way back, SteerInv that what its loop has passed is where it  *)
(* wants it.                                                               *)
(***************************************************************************)
EXTENDS KvmProofs

\* The moves of ManagedGuest under the mapping of Guests.
Abs == INSTANCE GuestMoves WITH
  known <- {c \in Containers : status[c] # "none" \/ pc[c] # "idle"},
  dir   <- {c \in Containers : IdOf[c] \in crundir},
  guest <- {c \in Containers : dom[IdOf[c]] # "none"}

\* The step changes nothing of the directory, volume and cgroups of another
\* container.
Aside(c) ==
  /\ Alone(c)
  /\ \A d \in Containers \ {c} :
       LET i == IdOf[d] IN
       /\ i \in crundir' <=> i \in crundir
       /\ i \in mounted' => i \in mounted
       /\ d \in runc' <=> d \in runc
       /\ lv'[i] = lv[i] /\ files'[i] = files[i]
       /\ i \in attached' => i \in attached
       /\ \A g \in cgroups' : g[1] = i => g \in cgroups

\* It starts no QEMU but that of c; it ends none but that of c.
StartsOwn(c) ==
  /\ \A i \in Live' : i \in Live \/ i = IdOf[c]
  /\ attached \subseteq Live => attached' \subseteq Live'
EndsOwn(c) == \A i \in Live : i \in Live' \/ i = IdOf[c]

USE DEF Before, Provisioning, Confining, Storing, Watched, Creating, Stopping,
        Removing, Labels, FrontLabels, VolumeLabels, SteerLabels, RestoreLabels,
        KvmLabels, Verbs, Statuses, FileNames, DomStates, VolumeStates

USE IdOfAssumption

-----------------------------------------------------------------------------
(* What a step of c leaves of the others.                                  *)

LEMMA FrontAside ==
  ASSUME NEW c \in Containers, IdOfInjective, FrontTypes, VolumeTypes, DomTypes,
         UNCHANGED <<volVars, domVars>>,
         Invoke(c) \/ Exit(c) \/ DecideCreate(c) \/ DecideExisting(c) \/
           MakeDir(c) \/ State(c)
  PROVE  Aside(c) /\ StartsOwn(c) /\ EndsOwn(c)
<1> USE DEF IdOfInjective, FrontTypes, VolumeTypes, DomTypes, Aside, Alone, StartsOwn,
    EndsOwn, Live, CgroupOf, Goto, volVars, domVars, qemuVars
<1>1. CASE Invoke(c)
    BY <1>1 DEF Invoke, Allowed
<1>2. CASE Exit(c)
    BY <1>2 DEF Exit
<1>3. CASE DecideCreate(c)
    BY <1>3 DEF DecideCreate
<1>4. CASE DecideExisting(c)
    BY <1>4 DEF DecideExisting, RuncExisting, FirstCall
<1>5. CASE MakeDir(c)
    BY <1>5 DEF MakeDir
<1>6. CASE State(c)
    BY <1>6 DEF State
<1> QED BY <1>1, <1>2, <1>3, <1>4, <1>5, <1>6

LEMMA CreateAside ==
  ASSUME NEW c \in Containers, IdOfInjective, FrontTypes, VolumeTypes, DomTypes,
         ClearStaleDir(c) \/ GenerateConfig(c) \/ CreateVolume(c) \/
           CreateDomain(c) \/ FindPid(c) \/ StoreCgroupPath(c) \/
           JoinCgroup(c) \/ LimitCgroup(c) \/ Rollback(c) \/ SpawnWatcher(c)
           \/ StoreInfo(c) \/ StartGuest(c)
  PROVE  Aside(c) /\ StartsOwn(c) /\ EndsOwn(c)
<1> USE DEF IdOfInjective, FrontTypes, VolumeTypes, DomTypes, Aside, Alone, StartsOwn,
    EndsOwn, Live, CgroupOf, Goto
<1>1. CASE ClearStaleDir(c)
    BY <1>1 DEF ClearStaleDir, RemoveAll, RemoveTree, domVars, qemuVars
<1>2. CASE GenerateConfig(c)
    BY <1>2 DEF GenerateConfig, Put, ReturnOk, AfterOk, ReturnErr, AfterErr, backVars,
     volVars, domVars, qemuVars
<1>3. CASE CreateVolume(c)
    BY <1>3 DEF CreateVolume, Provision, ReturnErr, AfterErr, domVars, qemuVars
<1>4. CASE CreateDomain(c)
    BY <1>4 DEF CreateDomain, ReturnErr, AfterErr, volVars, qemuVars
<1>5. CASE FindPid(c)
    BY <1>5 DEF FindPid, ReturnErr, AfterErr, volVars, qemuVars
<1>6. CASE StoreCgroupPath(c)
    BY <1>6 DEF StoreCgroupPath, backVars, volVars, domVars, qemuVars
<1>7. CASE JoinCgroup(c)
    BY <1>7 DEF JoinCgroup, volVars, qemuVars
<1>8. CASE LimitCgroup(c)
    BY <1>8 DEF LimitCgroup, volVars, qemuVars
<1>9. CASE Rollback(c)
    BY <1>9 DEF Rollback, ReturnErr, AfterErr, Quit, qemuVars, volVars
<1>10. CASE SpawnWatcher(c)
    BY <1>10 DEF SpawnWatcher, ReturnErr, AfterErr, volVars, qemuVars
<1>11. CASE StoreInfo(c)
    BY <1>11 DEF StoreInfo, Store, Put, ReturnOk, AfterOk, backVars, volVars, domVars,
     qemuVars
<1>12. CASE StartGuest(c)
    BY <1>12 DEF StartGuest, SetDomain, ReturnOk, AfterOk, ReturnErr, AfterErr,
     volVars, qemuVars
<1> QED BY <1>1, <1>2, <1>3, <1>4, <1>5, <1>6, <1>7, <1>8, <1>9, <1>10, <1>11, <1>12

LEMMA PopulateAside ==
  ASSUME NEW c \in Containers, IdOfInjective, FrontTypes, VolumeTypes, DomTypes,
         UNCHANGED domVars,
         MountVolume(c) \/ CopyRootfs(c) \/ UmountVolume(c) \/ UndoMount(c)
           \/ UndoVolume(c, attached)
  PROVE  Aside(c) /\ StartsOwn(c) /\ EndsOwn(c)
<1> USE DEF IdOfInjective, FrontTypes, VolumeTypes, DomTypes, Aside, Alone, StartsOwn,
    EndsOwn, Live, CgroupOf, Goto, domVars, qemuVars
<1>1. CASE MountVolume(c)
    BY <1>1 DEF MountVolume, Provision
<1>2. CASE CopyRootfs(c)
    BY <1>2 DEF CopyRootfs, Provision
<1>3. CASE UmountVolume(c)
    BY <1>3 DEF UmountVolume, Provision
<1>4. CASE UndoMount(c)
    BY <1>4 DEF UndoMount, Provision
<1>5. CASE UndoVolume(c, attached)
    BY <1>5 DEF UndoVolume, Provision, InUse, ReturnErr, AfterErr
<1> QED BY <1>1, <1>2, <1>3, <1>4, <1>5

LEMMA LoopAside ==
  ASSUME NEW c \in Containers, IdOfInjective, FrontTypes, VolumeTypes, DomTypes,
         UNCHANGED <<volVars, domVars>>,
         SteerBegin(c) \/ SteerRead(c) \/ SteerWrite(c) \/ SteerSave(c) \/
           RestoreBegin(c, "virsh_destroy") \/ RestoreWrite(c) \/
           RestoreEnd(c, "virsh_destroy")
  PROVE  Aside(c) /\ StartsOwn(c) /\ EndsOwn(c)
<1> USE DEF IdOfInjective, FrontTypes, VolumeTypes, DomTypes, Aside, Alone, StartsOwn,
    EndsOwn, Live, CgroupOf, Goto, volVars, domVars, qemuVars
<1>1. CASE SteerBegin(c)
    BY <1>1 DEF SteerBegin, ReturnOk, AfterOk, ReturnErr, AfterErr
<1>2. CASE SteerRead(c)
    BY <1>2 DEF SteerRead
<1>3. CASE SteerWrite(c)
    BY <1>3 DEF SteerWrite
<1>4. CASE SteerSave(c)
    BY <1>4 DEF SteerSave, ReturnOk, AfterOk
<1>5. CASE RestoreBegin(c, "virsh_destroy")
    BY <1>5 DEF RestoreBegin
<1>6. CASE RestoreWrite(c)
    BY <1>6 DEF RestoreWrite, feVars
<1>7. CASE RestoreEnd(c, "virsh_destroy")
    BY <1>7 DEF RestoreEnd
<1> QED BY <1>1, <1>2, <1>3, <1>4, <1>5, <1>6, <1>7

LEMMA TeardownAside ==
  ASSUME NEW c \in Containers, IdOfInjective, FrontTypes, VolumeTypes, DomTypes,
         StopGuest(c) \/ DestroyDomain(c) \/ TakeVolume(c) \/
           RemoveRunDir(c) \/ Cleanup(c) \/ Crash(c)
  PROVE  Aside(c) /\ StartsOwn(c) /\ EndsOwn(c)
<1> USE DEF IdOfInjective, FrontTypes, VolumeTypes, DomTypes, Aside, Alone, StartsOwn,
    EndsOwn, Live, CgroupOf, Goto
<1>1. CASE StopGuest(c)
    BY <1>1 DEF StopGuest, SetDomain, ReturnOk, AfterOk, ReturnErr, AfterErr, volVars,
     qemuVars
<1>2. CASE DestroyDomain(c)
    BY <1>2 DEF DestroyDomain, ReturnErr, AfterErr, Quit, qemuVars, volVars
<1>3. CASE TakeVolume(c)
    BY <1>3 DEF TakeVolume, RemoveVolume, InUse, domVars, qemuVars
<1>4. CASE RemoveRunDir(c)
    BY <1>4 DEF RemoveRunDir, RemoveAll, RemoveTree, ReturnOk, AfterOk, domVars,
     qemuVars
<1>5. CASE Cleanup(c)
    BY <1>5 DEF Cleanup, RemoveAll, RemoveTree, ReturnOk, AfterOk, domVars, qemuVars
<1>6. CASE Crash(c)
    BY <1>6 DEF Crash, CrashFrontend, volVars, qemuVars
<1> QED BY <1>1, <1>2, <1>3, <1>4, <1>5, <1>6

\* The QEMUs in a cgroup that is removed are none but that of c.
LEMMA RemoveCgroupAside ==
  ASSUME NEW c \in Containers, FrontTypes, VolumeTypes, DomTypes, RemoveCgroup(c)
  PROVE  Aside(c) /\ StartsOwn(c) /\ (MembersInv => EndsOwn(c))
<1>1. Aside(c) /\ StartsOwn(c)
  BY DEF RemoveCgroup, FrontTypes, VolumeTypes, DomTypes, Aside, Alone, StartsOwn,
     Live, Goto, Quit, qemuVars, volVars
<1>2. ASSUME MembersInv PROVE EndsOwn(c)
  <2>1. \A i \in Ids : StoredCgroup(c) \in member[i] => i = IdOf[c]
    BY <1>2 DEF MembersInv, StoredCgroup
  <2> QED BY <2>1 DEF RemoveCgroup, EndsOwn, Live, Quit, qemuVars
<1> QED BY <1>1, <1>2

-----------------------------------------------------------------------------
(* The guest and the state directory of c.                                 *)

LEMMA FrontDir ==
  ASSUME NEW c \in Containers, GuestsEnd, FrontTypes, VolumeTypes, DomTypes,
         VerbInv(c), DirInv(c), UNCHANGED <<volVars, domVars>>,
         Invoke(c) \/ Exit(c) \/ DecideCreate(c) \/ DecideExisting(c) \/
           MakeDir(c) \/ State(c)
  PROVE  DirInv(c)'
<1> USE DEF FrontTypes, VolumeTypes, DomTypes, VerbInv, DirInv, Gone, Live, Goto,
    volVars, domVars, qemuVars
<1>1. CASE Invoke(c)
    BY <1>1 DEF Invoke, Allowed
<1>2. CASE Exit(c)
    BY <1>2 DEF Exit
<1>3. CASE DecideCreate(c)
    BY <1>3 DEF DecideCreate
<1>4. CASE DecideExisting(c)
    BY <1>4 DEF DecideExisting, RuncExisting, FirstCall
<1>5. CASE MakeDir(c)
    BY <1>5 DEF MakeDir
<1>6. CASE State(c)
    BY <1>6 DEF State
<1> QED BY <1>1, <1>2, <1>3, <1>4, <1>5, <1>6

LEMMA CreateDir ==
  ASSUME NEW c \in Containers, GuestsEnd, FrontTypes, VolumeTypes, DomTypes,
         VerbInv(c), DirInv(c),
         ClearStaleDir(c) \/ GenerateConfig(c) \/ CreateVolume(c) \/
           CreateDomain(c) \/ FindPid(c) \/ StoreCgroupPath(c) \/
           JoinCgroup(c) \/ LimitCgroup(c) \/ Rollback(c) \/ SpawnWatcher(c)
           \/ StoreInfo(c) \/ StartGuest(c)
  PROVE  DirInv(c)'
<1> USE DEF FrontTypes, VolumeTypes, DomTypes, VerbInv, DirInv, Gone, Live, Goto,
    GuestsEnd, Fault
<1>1. CASE ClearStaleDir(c)
    BY <1>1 DEF ClearStaleDir, RemoveAll, RemoveTree, domVars, qemuVars
<1>2. CASE GenerateConfig(c)
    BY <1>2 DEF GenerateConfig, Put, ReturnOk, AfterOk, ReturnErr, AfterErr, backVars,
     volVars, domVars, qemuVars
<1>3. CASE CreateVolume(c)
    BY <1>3 DEF CreateVolume, Provision, ReturnErr, AfterErr, domVars, qemuVars
<1>4. CASE CreateDomain(c)
    BY <1>4 DEF CreateDomain, ReturnErr, AfterErr, volVars, qemuVars
<1>5. CASE FindPid(c)
    BY <1>5 DEF FindPid, ReturnErr, AfterErr, volVars, qemuVars
<1>6. CASE StoreCgroupPath(c)
    BY <1>6 DEF StoreCgroupPath, backVars, volVars, domVars, qemuVars
<1>7. CASE JoinCgroup(c)
    BY <1>7 DEF JoinCgroup, volVars, qemuVars
<1>8. CASE LimitCgroup(c)
    BY <1>8 DEF LimitCgroup, volVars, qemuVars
<1>9. CASE Rollback(c)
    BY <1>9 DEF Rollback, ReturnErr, AfterErr, Quit, qemuVars, volVars
<1>10. CASE SpawnWatcher(c)
    BY <1>10 DEF SpawnWatcher, ReturnErr, AfterErr, volVars, qemuVars
<1>11. CASE StoreInfo(c)
    BY <1>11 DEF StoreInfo, Store, Put, ReturnOk, AfterOk, backVars, volVars, domVars,
     qemuVars
<1>12. CASE StartGuest(c)
    BY <1>12 DEF StartGuest, SetDomain, ReturnOk, AfterOk, ReturnErr, AfterErr,
     volVars, qemuVars
<1> QED BY <1>1, <1>2, <1>3, <1>4, <1>5, <1>6, <1>7, <1>8, <1>9, <1>10, <1>11, <1>12

LEMMA PopulateDir ==
  ASSUME NEW c \in Containers, GuestsEnd, FrontTypes, VolumeTypes, DomTypes,
         VerbInv(c), DirInv(c), UNCHANGED domVars,
         MountVolume(c) \/ CopyRootfs(c) \/ UmountVolume(c) \/ UndoMount(c)
           \/ UndoVolume(c, attached)
  PROVE  DirInv(c)'
<1> USE DEF FrontTypes, VolumeTypes, DomTypes, VerbInv, DirInv, Gone, Live, Goto,
    domVars, qemuVars, GuestsEnd, Fault
<1>1. CASE MountVolume(c)
    BY <1>1 DEF MountVolume, Provision
<1>2. CASE CopyRootfs(c)
    BY <1>2 DEF CopyRootfs, Provision
<1>3. CASE UmountVolume(c)
    BY <1>3 DEF UmountVolume, Provision
<1>4. CASE UndoMount(c)
    BY <1>4 DEF UndoMount, Provision
<1>5. CASE UndoVolume(c, attached)
    BY <1>5 DEF UndoVolume, Provision, InUse, ReturnErr, AfterErr
<1> QED BY <1>1, <1>2, <1>3, <1>4, <1>5

LEMMA LoopDir ==
  ASSUME NEW c \in Containers, GuestsEnd, FrontTypes, VolumeTypes, DomTypes,
         VerbInv(c), DirInv(c), UNCHANGED <<volVars, domVars>>,
         SteerBegin(c) \/ SteerRead(c) \/ SteerWrite(c) \/ SteerSave(c) \/
           RestoreBegin(c, "virsh_destroy") \/ RestoreWrite(c) \/
           RestoreEnd(c, "virsh_destroy")
  PROVE  DirInv(c)'
<1> USE DEF FrontTypes, VolumeTypes, DomTypes, VerbInv, DirInv, Gone, Live, Goto,
    volVars, domVars, qemuVars
<1>1. CASE SteerBegin(c)
    BY <1>1 DEF SteerBegin, ReturnOk, AfterOk, ReturnErr, AfterErr
<1>2. CASE SteerRead(c)
    BY <1>2 DEF SteerRead
<1>3. CASE SteerWrite(c)
    BY <1>3 DEF SteerWrite
<1>4. CASE SteerSave(c)
    BY <1>4 DEF SteerSave, ReturnOk, AfterOk
<1>5. CASE RestoreBegin(c, "virsh_destroy")
    BY <1>5 DEF RestoreBegin
<1>6. CASE RestoreWrite(c)
    BY <1>6 DEF RestoreWrite, feVars
<1>7. CASE RestoreEnd(c, "virsh_destroy")
    BY <1>7 DEF RestoreEnd
<1> QED BY <1>1, <1>2, <1>3, <1>4, <1>5, <1>6, <1>7

LEMMA TeardownDir ==
  ASSUME NEW c \in Containers, GuestsEnd, FrontTypes, VolumeTypes, DomTypes,
         VerbInv(c), DirInv(c),
         StopGuest(c) \/ DestroyDomain(c) \/ TakeVolume(c) \/
           RemoveCgroup(c) \/ RemoveRunDir(c) \/ Cleanup(c) \/ Crash(c)
  PROVE  DirInv(c)'
<1> USE DEF FrontTypes, VolumeTypes, DomTypes, VerbInv, DirInv, Gone, Live, Goto,
    GuestsEnd, Fault
<1>1. CASE StopGuest(c)
    BY <1>1 DEF StopGuest, SetDomain, ReturnOk, AfterOk, ReturnErr, AfterErr, volVars,
     qemuVars
<1>2. CASE DestroyDomain(c)
    BY <1>2 DEF DestroyDomain, ReturnErr, AfterErr, Quit, qemuVars, volVars
<1>3. CASE TakeVolume(c)
    BY <1>3 DEF TakeVolume, RemoveVolume, InUse, domVars, qemuVars
<1>4. CASE RemoveCgroup(c)
    BY <1>4 DEF RemoveCgroup, Quit, qemuVars, volVars
<1>5. CASE RemoveRunDir(c)
    BY <1>5 DEF RemoveRunDir, RemoveAll, RemoveTree, ReturnOk, AfterOk, domVars,
     qemuVars
<1>6. CASE Cleanup(c)
    BY <1>6 DEF Cleanup, RemoveAll, RemoveTree, ReturnOk, AfterOk, domVars, qemuVars
<1>7. CASE Crash(c)
    BY <1>7 DEF Crash, CrashFrontend, volVars, qemuVars
<1> QED BY <1>1, <1>2, <1>3, <1>4, <1>5, <1>6, <1>7

-----------------------------------------------------------------------------
(* LifecycleInv is an inductive invariant.                                 *)

LEMMA KeptLifecycle ==
  ASSUME NEW c \in Containers, IdOfInjective, LifecycleInv, DirInv(c)', Aside(c),
         StartsOwn(c)
  PROVE  LifecycleInv'
<1>1. ASSUME NEW d \in Containers, d # c PROVE DirInv(d)'
  BY <1>1 DEF IdOfInjective, LifecycleInv, DirInv, Aside, Alone, StartsOwn, Gone
<1>2. NamesInv'
  BY DEF LifecycleInv, NamesInv, StartsOwn
<1> QED BY <1>1, <1>2 DEF LifecycleInv

LEMMA ContainerLifecycle ==
  ASSUME NEW c \in Containers, IdOfInjective, GuestsEnd, FrontTypes, VolumeTypes,
         DomTypes, VerbsInv, LifecycleInv,
         \/ (Invoke(c) \/ Front(c)) /\ UNCHANGED backVars
         \/ CreateStep(c) \/ TeardownStep(c) \/ Crash(c)
  PROVE  DirInv(c)' /\ Aside(c) /\ StartsOwn(c) /\ (MembersInv => EndsOwn(c))
<1>1. VerbInv(c) /\ DirInv(c)
  BY DEF VerbsInv, LifecycleInv
<1>2. CASE (Invoke(c) \/ Front(c)) /\ UNCHANGED backVars
  BY <1>1, <1>2, FrontDir, FrontAside DEF Front, backVars
<1>3. CASE CreateStep(c)
  <2>1. CASE ProvisionLvmRoot(c)
    BY <1>1, <2>1, PopulateDir, PopulateAside DEF ProvisionLvmRoot, Populate
  <2>2. CASE Steer(c)
    BY <1>1, <2>2, LoopDir, LoopAside DEF Steer, ApplyIrqSteering
  <2> QED BY <1>1, <1>3, <2>1, <2>2, CreateDir, CreateAside DEF CreateStep
<1>4. CASE TeardownStep(c) \/ Crash(c)
  <2>1. CASE RestoreIrqs(c)
    BY <1>1, <2>1, LoopDir, LoopAside DEF RestoreIrqs, RestoreIrqSteering
  <2> QED BY <1>1, <1>4, <2>1, TeardownDir, TeardownAside, RemoveCgroupAside
          DEF TeardownStep
<1> QED BY <1>2, <1>3, <1>4

LEMMA InitLifecycle == Init => LifecycleInv
  BY DEF Init, FrontInit, VolumesInit, LifecycleInv, NamesInv, DirInv, Gone, Live

LEMMA RebootLifecycle == ASSUME Reboot PROVE LifecycleInv'
  BY DEF Reboot, RebootFrontend, Quit, LifecycleInv, NamesInv, DirInv, Gone, Live

LEMMA QemuExitsLifecycle ==
  ASSUME NEW i \in Ids, LifecycleInv, QemuExits(i)
  PROVE  LifecycleInv'
<1>1. UNCHANGED <<feVars, mounted>> /\ Live' \subseteq Live
  BY DEF QemuExits, Quit, Live, volVars
<1> QED BY <1>1 DEF LifecycleInv, NamesInv, DirInv, Gone, feVars

LEMMA NextLifecycle ==
  ASSUME IdOfInjective, GuestsEnd
  PROVE  TypeInv /\ LifecycleInv /\ [Next]_vars => LifecycleInv'
<1> SUFFICES ASSUME TypeInv, LifecycleInv, [Next]_vars PROVE LifecycleInv'
  OBVIOUS
<1>1. FrontTypes /\ VolumeTypes /\ DomTypes /\ VerbsInv
  BY TypeParts
<1>2. CASE UNCHANGED vars
  BY <1>2 DEF vars, feVars, backVars, volVars, domVars, qemuVars, LifecycleInv,
     NamesInv, DirInv, Gone, Live
<1>3. ASSUME NEW c \in Containers,
             \/ (Invoke(c) \/ Front(c)) /\ UNCHANGED backVars
             \/ CreateStep(c) \/ TeardownStep(c) \/ Crash(c)
      PROVE  LifecycleInv'
  BY <1>1, <1>3, ContainerLifecycle, KeptLifecycle
<1> QED BY <1>2, <1>3, QemuExitsLifecycle, RebootLifecycle DEF Next

\* No guest without a state directory, and no directory without a container.
THEOREM Lifecycle ==
  ASSUME IdOfInjective, GuestsEnd
  PROVE  Spec => []LifecycleInv
<1>1. Init => LifecycleInv
  BY InitLifecycle
<1>2. TypeInv /\ LifecycleInv /\ [Next]_vars => LifecycleInv'
  BY NextLifecycle
<1> QED BY <1>1, <1>2, TypeInvariant, PTL DEF Spec

\* If nothing is left behind, or all containers are runPHI's, runc is given no
\* bundle of a name that has a guest.
LEMMA RuncApart ==
  ASSUME IdOfInjective, AllRunphi \/ GuestsEnd
  PROVE  Spec => []RuncHasNoGuest
<1>1. CASE AllRunphi
  BY <1>1, AllRunphiApart
<1>2. CASE GuestsEnd
  <2>1. LifecycleInv => RuncHasNoGuest
    BY DEF LifecycleInv, DirInv, Gone, RuncHasNoGuest
  <2> QED BY <1>2, <2>1, Lifecycle, PTL
<1> QED BY <1>1, <1>2

\* What is known of a domain at each step of create: paused until its cgroup
\* has limits, destroyed if it cannot be confined, and watched from then on.
THEOREM ConfineInvariant ==
  ASSUME IdOfInjective, MatchExact, AllRunphi \/ GuestsEnd
  PROVE  Spec => []ConfineInv
BY Confinement, RuncApart, PTL

\* Whatever fails, crashes or restarts, no guest runs outside a cgroup with
\* limits: setup_cgroups comes between virsh create --paused and virsh resume,
\* and what it could not confine is never resumed.
THEOREM GuestsConfined ==
  ASSUME IdOfInjective, MatchExact, AllRunphi \/ GuestsEnd
  PROVE  Spec => []RunsConfined
BY ConfineInvariant, ConfineImplies, PTL

\* Nor is a guest that the engine takes for created without a watcher.
THEOREM GuestsWatched ==
  ASSUME IdOfInjective, MatchExact, AllRunphi \/ GuestsEnd
  PROVE  Spec => []EngineSeesGuest
BY ConfineInvariant, ConfineImplies, PTL

-----------------------------------------------------------------------------
(* MembersInv is an inductive invariant, whatever fails.                   *)

\* A step that moves no QEMU in or out of a cgroup.
LEMMA QuietMembers ==
  ASSUME DomTypes, MembersInv, UNCHANGED <<dom, member, found>>
  PROVE  MembersInv'
  BY DEF MembersInv, Live

LEMMA QuitMembers ==
  ASSUME NEW S, DomTypes, MembersInv, Quit(S)
  PROVE  MembersInv'
  BY DEF DomTypes, MembersInv, Live, Quit

LEMMA CreateMembers ==
  ASSUME NEW c \in Containers, MatchExact, DomTypes, MembersInv,
         CreateDomain(c) \/ FindPid(c) \/ JoinCgroup(c) \/ SpawnWatcher(c)
           \/ StartGuest(c) \/ StopGuest(c) \/ Crash(c)
  PROVE  MembersInv'
<1> USE DEF DomTypes, MembersInv, Live
<1>1. CASE CreateDomain(c)
  BY <1>1 DEF CreateDomain
<1>2. CASE FindPid(c)
  <2>1. Matches[IdOf[c]] = {IdOf[c]}
    BY DEF MatchExact
  <2> QED BY <1>2, <2>1 DEF FindPid
<1>3. CASE JoinCgroup(c)
  BY <1>3 DEF JoinCgroup, CgroupOf
<1>4. CASE SpawnWatcher(c)
  BY <1>4 DEF SpawnWatcher
<1>5. CASE StartGuest(c) \/ StopGuest(c)
  BY <1>5 DEF StartGuest, StopGuest, SetDomain
<1>6. CASE Crash(c)
  BY <1>6 DEF Crash
<1> QED BY <1>1, <1>2, <1>3, <1>4, <1>5, <1>6

LEMMA NextMembers ==
  ASSUME MatchExact
  PROVE  TypeInv /\ MembersInv /\ [Next]_vars => MembersInv'
<1> SUFFICES ASSUME TypeInv, MembersInv, [Next]_vars PROVE MembersInv'
  OBVIOUS
<1>1. DomTypes
  BY TypeParts
<1>2. CASE UNCHANGED vars
  BY <1>1, <1>2, QuietMembers DEF vars, backVars, domVars, qemuVars
<1>3. ASSUME NEW c \in Containers, (Invoke(c) \/ Front(c)) /\ UNCHANGED backVars
      PROVE  MembersInv'
  BY <1>1, <1>3, QuietMembers DEF backVars, domVars, qemuVars
<1>4. ASSUME NEW c \in Containers, CreateStep(c) \/ TeardownStep(c) \/ Crash(c)
      PROVE  MembersInv'
  <2>1. CASE \/ ClearStaleDir(c) \/ GenerateConfig(c) \/ CreateVolume(c)
             \/ ProvisionLvmRoot(c) \/ StoreCgroupPath(c) \/ LimitCgroup(c)
             \/ Steer(c) \/ StoreInfo(c) \/ RestoreIrqs(c) \/ TakeVolume(c)
             \/ RemoveRunDir(c) \/ Cleanup(c)
    <3>1. UNCHANGED <<dom, member, found>>
      BY <2>1 DEF ClearStaleDir, GenerateConfig, CreateVolume, ProvisionLvmRoot,
         StoreCgroupPath, LimitCgroup, Steer, StoreInfo, Store, RestoreIrqs,
         TakeVolume, RemoveRunDir, Cleanup, RemoveAll, backVars, domVars, qemuVars
    <3> QED BY <1>1, <3>1, QuietMembers
  <2>2. CASE Rollback(c) \/ DestroyDomain(c) \/ RemoveCgroup(c)
    <3>1. (\E S : Quit(S)) \/ UNCHANGED qemuVars
      BY <2>2 DEF Rollback, DestroyDomain, RemoveCgroup
    <3> QED BY <1>1, <3>1, QuietMembers, QuitMembers DEF qemuVars
  <2> QED BY <1>1, <1>4, <2>1, <2>2, CreateMembers DEF CreateStep, TeardownStep
<1>5. CASE \E i \in Ids : QemuExits(i)
  BY <1>1, <1>5, QuitMembers DEF QemuExits
<1>6. CASE Reboot
  BY <1>1, <1>6, QuitMembers DEF Reboot
<1> QED BY <1>2, <1>3, <1>4, <1>5, <1>6 DEF Next

\* A cgroup holds live QEMUs of its own container only.
THEOREM Members ==
  ASSUME MatchExact
  PROVE  Spec => []MembersInv
<1>1. Init => MembersInv
  BY DEF Init, MembersInv
<1>2. TypeInv /\ MembersInv /\ [Next]_vars => MembersInv'
  BY NextMembers
<1> QED BY <1>1, <1>2, TypeInvariant, PTL DEF Spec

-----------------------------------------------------------------------------
(* Each step is a move of ManagedGuest.                                    *)

LEMMA FrontMoves ==
  ASSUME NEW c \in Containers, FrontTypes, DomTypes, VerbInv(c), DirInv(c),
         UNCHANGED <<volVars, domVars>>,
         Invoke(c) \/ Exit(c) \/ DecideCreate(c) \/ DecideExisting(c) \/
           MakeDir(c) \/ State(c)
  PROVE  Abs!Moves(c)
<1> USE DEF FrontTypes, DomTypes, VerbInv, DirInv, Gone, Live, Goto, Abs!Moves,
    Abs!Stays, volVars, domVars, qemuVars
<1>1. CASE Invoke(c)
    BY <1>1 DEF Invoke, Allowed, Abs!Accepted
<1>2. CASE Exit(c)
    BY <1>2 DEF Exit, Abs!Forgotten
<1>3. CASE DecideCreate(c)
    BY <1>3 DEF DecideCreate
<1>4. CASE DecideExisting(c)
    BY <1>4 DEF DecideExisting, RuncExisting, FirstCall
<1>5. CASE MakeDir(c)
    BY <1>5 DEF MakeDir, Abs!Claimed
<1>6. CASE State(c)
    BY <1>6 DEF State
<1> QED BY <1>1, <1>2, <1>3, <1>4, <1>5, <1>6

LEMMA CreateMoves ==
  ASSUME NEW c \in Containers, FrontTypes, DomTypes, VerbInv(c), DirInv(c),
         ClearStaleDir(c) \/ GenerateConfig(c) \/ CreateVolume(c) \/
           CreateDomain(c) \/ FindPid(c) \/ StoreCgroupPath(c) \/
           JoinCgroup(c) \/ LimitCgroup(c) \/ Rollback(c) \/ SpawnWatcher(c)
           \/ StoreInfo(c) \/ StartGuest(c)
  PROVE  Abs!Moves(c)
<1> USE DEF FrontTypes, DomTypes, VerbInv, DirInv, Gone, Live, Goto, Abs!Moves,
    Abs!Stays
<1>1. CASE ClearStaleDir(c)
    BY <1>1 DEF ClearStaleDir, RemoveAll, RemoveTree, domVars, qemuVars
<1>2. CASE GenerateConfig(c)
    BY <1>2 DEF GenerateConfig, Put, ReturnOk, AfterOk, ReturnErr, AfterErr, backVars,
     volVars, domVars, qemuVars
<1>3. CASE CreateVolume(c)
    BY <1>3 DEF CreateVolume, Provision, ReturnErr, AfterErr, domVars, qemuVars
<1>4. CASE CreateDomain(c)
    BY <1>4 DEF CreateDomain, ReturnErr, AfterErr, volVars, qemuVars, Abs!Booted
<1>5. CASE FindPid(c)
    BY <1>5 DEF FindPid, ReturnErr, AfterErr, volVars, qemuVars
<1>6. CASE StoreCgroupPath(c)
    BY <1>6 DEF StoreCgroupPath, backVars, volVars, domVars, qemuVars
<1>7. CASE JoinCgroup(c)
    BY <1>7 DEF JoinCgroup, volVars, qemuVars
<1>8. CASE LimitCgroup(c)
    BY <1>8 DEF LimitCgroup, volVars, qemuVars
<1>9. CASE Rollback(c)
    BY <1>9 DEF Rollback, ReturnErr, AfterErr, Quit, qemuVars, volVars, Abs!Halted
<1>10. CASE SpawnWatcher(c)
    BY <1>10 DEF SpawnWatcher, ReturnErr, AfterErr, volVars, qemuVars
<1>11. CASE StoreInfo(c)
    BY <1>11 DEF StoreInfo, Store, Put, ReturnOk, AfterOk, backVars, volVars, domVars,
     qemuVars
<1>12. CASE StartGuest(c)
    BY <1>12 DEF StartGuest, SetDomain, ReturnOk, AfterOk, ReturnErr, AfterErr,
     volVars, qemuVars
<1> QED BY <1>1, <1>2, <1>3, <1>4, <1>5, <1>6, <1>7, <1>8, <1>9, <1>10, <1>11, <1>12

LEMMA PopulateMoves ==
  ASSUME NEW c \in Containers, FrontTypes, DomTypes, VerbInv(c), DirInv(c),
         UNCHANGED domVars,
         MountVolume(c) \/ CopyRootfs(c) \/ UmountVolume(c) \/ UndoMount(c)
           \/ UndoVolume(c, attached)
  PROVE  Abs!Moves(c)
<1> USE DEF FrontTypes, DomTypes, VerbInv, DirInv, Gone, Live, Goto, Abs!Moves,
    Abs!Stays, domVars, qemuVars
<1>1. CASE MountVolume(c)
    BY <1>1 DEF MountVolume, Provision
<1>2. CASE CopyRootfs(c)
    BY <1>2 DEF CopyRootfs, Provision
<1>3. CASE UmountVolume(c)
    BY <1>3 DEF UmountVolume, Provision
<1>4. CASE UndoMount(c)
    BY <1>4 DEF UndoMount, Provision
<1>5. CASE UndoVolume(c, attached)
    BY <1>5 DEF UndoVolume, Provision, InUse, ReturnErr, AfterErr
<1> QED BY <1>1, <1>2, <1>3, <1>4, <1>5

LEMMA LoopMoves ==
  ASSUME NEW c \in Containers, FrontTypes, DomTypes, VerbInv(c), DirInv(c),
         UNCHANGED <<volVars, domVars>>,
         SteerBegin(c) \/ SteerRead(c) \/ SteerWrite(c) \/ SteerSave(c) \/
           RestoreBegin(c, "virsh_destroy") \/ RestoreWrite(c) \/
           RestoreEnd(c, "virsh_destroy")
  PROVE  Abs!Moves(c)
<1> USE DEF FrontTypes, DomTypes, VerbInv, DirInv, Gone, Live, Goto, Abs!Moves,
    Abs!Stays, volVars, domVars, qemuVars
<1>1. CASE SteerBegin(c)
    BY <1>1 DEF SteerBegin, ReturnOk, AfterOk, ReturnErr, AfterErr
<1>2. CASE SteerRead(c)
    BY <1>2 DEF SteerRead
<1>3. CASE SteerWrite(c)
    BY <1>3 DEF SteerWrite
<1>4. CASE SteerSave(c)
    BY <1>4 DEF SteerSave, ReturnOk, AfterOk
<1>5. CASE RestoreBegin(c, "virsh_destroy")
    BY <1>5 DEF RestoreBegin
<1>6. CASE RestoreWrite(c)
    BY <1>6 DEF RestoreWrite, feVars
<1>7. CASE RestoreEnd(c, "virsh_destroy")
    BY <1>7 DEF RestoreEnd
<1> QED BY <1>1, <1>2, <1>3, <1>4, <1>5, <1>6, <1>7

LEMMA TeardownMoves ==
  ASSUME NEW c \in Containers, FrontTypes, DomTypes, VerbInv(c), DirInv(c),
         StopGuest(c) \/ DestroyDomain(c) \/ TakeVolume(c) \/
           RemoveRunDir(c) \/ Cleanup(c) \/ Crash(c)
  PROVE  Abs!Moves(c)
<1> USE DEF FrontTypes, DomTypes, VerbInv, DirInv, Gone, Live, Goto, Abs!Moves,
    Abs!Stays
<1>1. CASE StopGuest(c)
    BY <1>1 DEF StopGuest, SetDomain, ReturnOk, AfterOk, ReturnErr, AfterErr, volVars,
     qemuVars
<1>2. CASE DestroyDomain(c)
    BY <1>2 DEF DestroyDomain, ReturnErr, AfterErr, Quit, qemuVars, volVars,
     Abs!Halted
<1>3. CASE TakeVolume(c)
    BY <1>3 DEF TakeVolume, RemoveVolume, InUse, domVars, qemuVars
<1>4. CASE RemoveRunDir(c)
    BY <1>4 DEF RemoveRunDir, RemoveAll, RemoveTree, ReturnOk, AfterOk, domVars,
     qemuVars, Abs!Released
<1>5. CASE Cleanup(c)
    BY <1>5 DEF Cleanup, RemoveAll, RemoveTree, ReturnOk, AfterOk, domVars, qemuVars,
     Abs!Released
<1>6. CASE Crash(c)
    BY <1>6 DEF Crash, CrashFrontend, volVars, qemuVars
<1> QED BY <1>1, <1>2, <1>3, <1>4, <1>5, <1>6

LEMMA RemoveCgroupMoves ==
  ASSUME NEW c \in Containers, FrontTypes, DomTypes, VerbInv(c), DirInv(c),
         RemoveCgroup(c)
  PROVE  Abs!Moves(c)
<1>1. IdOf[c] \notin Live /\ IdOf[c] \notin Live'
  BY DEF RemoveCgroup, DirInv, Live, Quit, qemuVars
<1> QED BY <1>1 DEF RemoveCgroup, FrontTypes, Goto, Live, Abs!Moves, Abs!Stays

LEMMA ContainerMoves ==
  ASSUME NEW c \in Containers, FrontTypes, DomTypes, VerbsInv, LifecycleInv,
         \/ (Invoke(c) \/ Front(c)) /\ UNCHANGED backVars
         \/ CreateStep(c) \/ TeardownStep(c) \/ Crash(c)
  PROVE  Abs!Moves(c)
<1>1. VerbInv(c) /\ DirInv(c)
  BY DEF VerbsInv, LifecycleInv
<1>2. CASE (Invoke(c) \/ Front(c)) /\ UNCHANGED backVars
  BY <1>1, <1>2, FrontMoves DEF Front, backVars
<1>3. CASE CreateStep(c)
  <2>1. CASE ProvisionLvmRoot(c)
    BY <1>1, <2>1, PopulateMoves DEF ProvisionLvmRoot, Populate
  <2>2. CASE Steer(c)
    BY <1>1, <2>2, LoopMoves DEF Steer, ApplyIrqSteering
  <2> QED BY <1>1, <1>3, <2>1, <2>2, CreateMoves DEF CreateStep
<1>4. CASE TeardownStep(c) \/ Crash(c)
  <2>1. CASE RestoreIrqs(c)
    BY <1>1, <2>1, LoopMoves DEF RestoreIrqs, RestoreIrqSteering
  <2> QED BY <1>1, <1>4, <2>1, TeardownMoves, RemoveCgroupMoves DEF TeardownStep
<1> QED BY <1>2, <1>3, <1>4

LEMMA MoveMaps ==
  ASSUME NEW c \in Containers, Abs!Moves(c), \A d \in Containers \ {c} :
         Abs!Stays(d)
  PROVE  [Guests!Next]_(Guests!vars)
<1>1. Abs!Within(Containers) /\ Abs!Within(Containers)'
  BY DEF Abs!Within
<1>2. [Abs!Next]_(Abs!vars)
  BY <1>1, Abs!OneMoves
<1> QED BY <1>2
        DEF Abs!Next, Abs!vars, Abs!Accept, Abs!Claim, Abs!Boot, Abs!Halt, Abs!Release,
            Abs!Forget, Abs!Reset, Guests!Next, Guests!vars, Guests!Accept, Guests!Claim,
            Guests!Boot, Guests!Halt, Guests!Release, Guests!Forget, Guests!Reset

LEMMA StepMaps ==
  ASSUME IdOfInjective, GuestsEnd
  PROVE  TypeInv /\ MembersInv /\ LifecycleInv /\ [Next]_vars => [Guests!Next]_(Guests!vars)
<1> SUFFICES ASSUME TypeInv, MembersInv, LifecycleInv, [Next]_vars
             PROVE  [Guests!Next]_(Guests!vars)
  OBVIOUS
<1>1. FrontTypes /\ VolumeTypes /\ DomTypes /\ VerbsInv
  BY TypeParts
<1>2. CASE UNCHANGED vars
  BY <1>2 DEF vars, feVars, backVars, domVars, qemuVars, Guests!vars
<1>3. ASSUME NEW c \in Containers,
             \/ (Invoke(c) \/ Front(c)) /\ UNCHANGED backVars
             \/ CreateStep(c) \/ TeardownStep(c) \/ Crash(c)
      PROVE  [Guests!Next]_(Guests!vars)
  <2>1. Aside(c) /\ StartsOwn(c) /\ EndsOwn(c)
    BY <1>1, <1>3, ContainerLifecycle
  <2>2. \A d \in Containers \ {c} : Abs!Stays(d)
    BY <2>1 DEF IdOfInjective, Aside, Alone, StartsOwn, EndsOwn, Live, Abs!Stays
  <2> QED BY <1>1, <1>3, <2>2, ContainerMoves, MoveMaps
<1>4. ASSUME NEW i \in Ids, QemuExits(i)
      PROVE  [Guests!Next]_(Guests!vars)
  <2>1. PICK c \in Containers : i = IdOf[c]
    BY <1>4 DEF QemuExits, LifecycleInv, NamesInv
  <2>2. Abs!Halted(c) /\ \A d \in Containers \ {c} : Abs!Stays(d)
    BY <1>4, <2>1 DEF QemuExits, Quit, feVars, Live, IdOfInjective, Abs!Halted, Abs!Stays
  <2> QED BY <2>2, MoveMaps DEF Abs!Moves
<1>5. CASE Reboot
  BY <1>5 DEF Reboot, RebootFrontend, Quit, Guests!Next, Guests!Reset
<1> QED BY <1>2, <1>3, <1>4, <1>5 DEF Next

\* runPHI with the KVM backend implements ManagedGuest for any number of
\* containers, also when QEMU ends by itself at any moment.
THEOREM KvmImplements ==
  ASSUME IdOfInjective, MatchExact, GuestsEnd
  PROVE  Spec => GuestLifecycle
<1>1. Init => Guests!Init
  BY DEF Init, FrontInit, Guests!Init
<1>2. TypeInv /\ MembersInv /\ LifecycleInv /\ [Next]_vars => [Guests!Next]_(Guests!vars)
  BY StepMaps
<1> QED BY <1>1, <1>2, TypeInvariant, Members, Lifecycle, PTL
        DEF Spec, GuestLifecycle, Guests!Spec

-----------------------------------------------------------------------------
(* The volume of c.                                                        *)

LEMMA FrontVolume ==
  ASSUME NEW c \in Containers, TeardownWorks, FrontTypes, VolumeTypes, DomTypes,
         VerbInv(c), DirInv(c), attached \subseteq Live, VolumeInv(c), UNCHANGED
         <<volVars, domVars>>,
         Invoke(c) \/ Exit(c) \/ DecideCreate(c) \/ DecideExisting(c) \/
           MakeDir(c) \/ State(c)
  PROVE  VolumeInv(c)'
<1> USE DEF FrontTypes, VolumeTypes, DomTypes, VerbInv, DirInv, Gone, VolumeInv, Live,
    Goto, volVars, domVars, qemuVars
<1>1. CASE Invoke(c)
    BY <1>1 DEF Invoke, Allowed
<1>2. CASE Exit(c)
    BY <1>2 DEF Exit
<1>3. CASE DecideCreate(c)
    BY <1>3 DEF DecideCreate
<1>4. CASE DecideExisting(c)
    BY <1>4 DEF DecideExisting, RuncExisting, FirstCall
<1>5. CASE MakeDir(c)
    BY <1>5 DEF MakeDir
<1>6. CASE State(c)
    BY <1>6 DEF State
<1> QED BY <1>1, <1>2, <1>3, <1>4, <1>5, <1>6

LEMMA CreateKeepsVolume ==
  ASSUME NEW c \in Containers, TeardownWorks, FrontTypes, VolumeTypes, DomTypes,
         VerbInv(c), DirInv(c), attached \subseteq Live, VolumeInv(c),
         ClearStaleDir(c) \/ GenerateConfig(c) \/ CreateVolume(c) \/
           CreateDomain(c) \/ FindPid(c) \/ StoreCgroupPath(c) \/
           JoinCgroup(c) \/ LimitCgroup(c) \/ Rollback(c) \/ SpawnWatcher(c)
           \/ StoreInfo(c) \/ StartGuest(c)
  PROVE  VolumeInv(c)'
<1> USE DEF FrontTypes, VolumeTypes, DomTypes, VerbInv, DirInv, Gone, VolumeInv, Live,
    Goto, TeardownWorks, GuestsEnd, Fault
<1>1. CASE ClearStaleDir(c)
    BY <1>1 DEF ClearStaleDir, RemoveAll, RemoveTree, domVars, qemuVars
<1>2. CASE GenerateConfig(c)
    BY <1>2 DEF GenerateConfig, Put, ReturnOk, AfterOk, ReturnErr, AfterErr, backVars,
     volVars, domVars, qemuVars
<1>3. CASE CreateVolume(c)
    BY <1>3 DEF CreateVolume, Provision, ReturnErr, AfterErr, domVars, qemuVars
<1>4. CASE CreateDomain(c)
    BY <1>4 DEF CreateDomain, ReturnErr, AfterErr, volVars, qemuVars
<1>5. CASE FindPid(c)
    BY <1>5 DEF FindPid, ReturnErr, AfterErr, volVars, qemuVars
<1>6. CASE StoreCgroupPath(c)
    BY <1>6 DEF StoreCgroupPath, backVars, volVars, domVars, qemuVars
<1>7. CASE JoinCgroup(c)
    BY <1>7 DEF JoinCgroup, volVars, qemuVars
<1>8. CASE LimitCgroup(c)
    BY <1>8 DEF LimitCgroup, volVars, qemuVars
<1>9. CASE Rollback(c)
    BY <1>9 DEF Rollback, ReturnErr, AfterErr, Quit, qemuVars, volVars
<1>10. CASE SpawnWatcher(c)
    BY <1>10 DEF SpawnWatcher, ReturnErr, AfterErr, volVars, qemuVars
<1>11. CASE StoreInfo(c)
    BY <1>11 DEF StoreInfo, Store, Put, ReturnOk, AfterOk, backVars, volVars, domVars,
     qemuVars
<1>12. CASE StartGuest(c)
    BY <1>12 DEF StartGuest, SetDomain, ReturnOk, AfterOk, ReturnErr, AfterErr,
     volVars, qemuVars
<1> QED BY <1>1, <1>2, <1>3, <1>4, <1>5, <1>6, <1>7, <1>8, <1>9, <1>10, <1>11, <1>12

LEMMA PopulateVolume ==
  ASSUME NEW c \in Containers, TeardownWorks, FrontTypes, VolumeTypes, DomTypes,
         VerbInv(c), DirInv(c), attached \subseteq Live, VolumeInv(c), UNCHANGED
         domVars,
         MountVolume(c) \/ CopyRootfs(c) \/ UmountVolume(c) \/ UndoMount(c)
           \/ UndoVolume(c, attached)
  PROVE  VolumeInv(c)'
<1> USE DEF FrontTypes, VolumeTypes, DomTypes, VerbInv, DirInv, Gone, VolumeInv, Live,
    Goto, domVars, qemuVars, TeardownWorks, GuestsEnd, Fault
<1>1. CASE MountVolume(c)
    BY <1>1 DEF MountVolume, Provision
<1>2. CASE CopyRootfs(c)
    BY <1>2 DEF CopyRootfs, Provision
<1>3. CASE UmountVolume(c)
    BY <1>3 DEF UmountVolume, Provision
<1>4. CASE UndoMount(c)
    BY <1>4 DEF UndoMount, Provision
<1>5. CASE UndoVolume(c, attached)
    BY <1>5 DEF UndoVolume, Provision, InUse, ReturnErr, AfterErr
<1> QED BY <1>1, <1>2, <1>3, <1>4, <1>5

LEMMA LoopVolume ==
  ASSUME NEW c \in Containers, TeardownWorks, FrontTypes, VolumeTypes, DomTypes,
         VerbInv(c), DirInv(c), attached \subseteq Live, VolumeInv(c), UNCHANGED
         <<volVars, domVars>>,
         SteerBegin(c) \/ SteerRead(c) \/ SteerWrite(c) \/ SteerSave(c) \/
           RestoreBegin(c, "virsh_destroy") \/ RestoreWrite(c) \/
           RestoreEnd(c, "virsh_destroy")
  PROVE  VolumeInv(c)'
<1> USE DEF FrontTypes, VolumeTypes, DomTypes, VerbInv, DirInv, Gone, VolumeInv, Live,
    Goto, volVars, domVars, qemuVars
<1>1. CASE SteerBegin(c)
    BY <1>1 DEF SteerBegin, ReturnOk, AfterOk, ReturnErr, AfterErr
<1>2. CASE SteerRead(c)
    BY <1>2 DEF SteerRead
<1>3. CASE SteerWrite(c)
    BY <1>3 DEF SteerWrite
<1>4. CASE SteerSave(c)
    BY <1>4 DEF SteerSave, ReturnOk, AfterOk
<1>5. CASE RestoreBegin(c, "virsh_destroy")
    BY <1>5 DEF RestoreBegin
<1>6. CASE RestoreWrite(c)
    BY <1>6 DEF RestoreWrite, feVars
<1>7. CASE RestoreEnd(c, "virsh_destroy")
    BY <1>7 DEF RestoreEnd
<1> QED BY <1>1, <1>2, <1>3, <1>4, <1>5, <1>6, <1>7

LEMMA TeardownVolume ==
  ASSUME NEW c \in Containers, TeardownWorks, FrontTypes, VolumeTypes, DomTypes,
         VerbInv(c), DirInv(c), attached \subseteq Live, VolumeInv(c),
         StopGuest(c) \/ DestroyDomain(c) \/ TakeVolume(c) \/
           RemoveCgroup(c) \/ RemoveRunDir(c) \/ Cleanup(c) \/ Crash(c)
  PROVE  VolumeInv(c)'
<1> USE DEF FrontTypes, VolumeTypes, DomTypes, VerbInv, DirInv, Gone, VolumeInv, Live,
    Goto, TeardownWorks, GuestsEnd, Fault
<1>1. CASE StopGuest(c)
    BY <1>1 DEF StopGuest, SetDomain, ReturnOk, AfterOk, ReturnErr, AfterErr, volVars,
     qemuVars
<1>2. CASE DestroyDomain(c)
    BY <1>2 DEF DestroyDomain, ReturnErr, AfterErr, Quit, qemuVars, volVars
<1>3. CASE TakeVolume(c)
    BY <1>3 DEF TakeVolume, RemoveVolume, InUse, domVars, qemuVars
<1>4. CASE RemoveCgroup(c)
    BY <1>4 DEF RemoveCgroup, Quit, qemuVars, volVars
<1>5. CASE RemoveRunDir(c)
    BY <1>5 DEF RemoveRunDir, RemoveAll, RemoveTree, ReturnOk, AfterOk, domVars,
     qemuVars
<1>6. CASE Cleanup(c)
    BY <1>6 DEF Cleanup, RemoveAll, RemoveTree, ReturnOk, AfterOk, domVars, qemuVars
<1>7. CASE Crash(c)
    BY <1>7 DEF Crash, CrashFrontend, volVars, qemuVars
<1> QED BY <1>1, <1>2, <1>3, <1>4, <1>5, <1>6, <1>7

-----------------------------------------------------------------------------
(* Its cgroup.                                                             *)

LEMMA FrontCgroup ==
  ASSUME NEW c \in Containers, TeardownWorks, FrontTypes, VolumeTypes, DomTypes,
         VerbInv(c), DirInv(c), CgroupInv(c), UNCHANGED <<volVars, domVars>>,
         Invoke(c) \/ Exit(c) \/ DecideCreate(c) \/ DecideExisting(c) \/
           MakeDir(c) \/ State(c)
  PROVE  CgroupInv(c)'
<1> USE DEF FrontTypes, VolumeTypes, DomTypes, VerbInv, DirInv, Gone, CgroupInv,
    StoredCgroup, CgroupOf, Live, Goto, volVars, domVars, qemuVars
<1>1. CASE Invoke(c)
    BY <1>1 DEF Invoke, Allowed
<1>2. CASE Exit(c)
    BY <1>2 DEF Exit
<1>3. CASE DecideCreate(c)
    BY <1>3 DEF DecideCreate
<1>4. CASE DecideExisting(c)
    BY <1>4 DEF DecideExisting, RuncExisting, FirstCall
<1>5. CASE MakeDir(c)
    BY <1>5 DEF MakeDir
<1>6. CASE State(c)
    BY <1>6 DEF State
<1> QED BY <1>1, <1>2, <1>3, <1>4, <1>5, <1>6

LEMMA CreateCgroup ==
  ASSUME NEW c \in Containers, TeardownWorks, FrontTypes, VolumeTypes, DomTypes,
         VerbInv(c), DirInv(c), CgroupInv(c),
         ClearStaleDir(c) \/ GenerateConfig(c) \/ CreateVolume(c) \/
           CreateDomain(c) \/ FindPid(c) \/ StoreCgroupPath(c) \/
           JoinCgroup(c) \/ LimitCgroup(c) \/ Rollback(c) \/ SpawnWatcher(c)
           \/ StoreInfo(c) \/ StartGuest(c)
  PROVE  CgroupInv(c)'
<1> USE DEF FrontTypes, VolumeTypes, DomTypes, VerbInv, DirInv, Gone, CgroupInv,
    StoredCgroup, CgroupOf, Live, Goto, TeardownWorks, GuestsEnd, Fault
<1>1. CASE ClearStaleDir(c)
    BY <1>1 DEF ClearStaleDir, RemoveAll, RemoveTree, domVars, qemuVars
<1>2. CASE GenerateConfig(c)
    BY <1>2 DEF GenerateConfig, Put, ReturnOk, AfterOk, ReturnErr, AfterErr, backVars,
     volVars, domVars, qemuVars
<1>3. CASE CreateVolume(c)
    BY <1>3 DEF CreateVolume, Provision, ReturnErr, AfterErr, domVars, qemuVars
<1>4. CASE CreateDomain(c)
    BY <1>4 DEF CreateDomain, ReturnErr, AfterErr, volVars, qemuVars
<1>5. CASE FindPid(c)
    BY <1>5 DEF FindPid, ReturnErr, AfterErr, volVars, qemuVars
<1>6. CASE StoreCgroupPath(c)
    BY <1>6 DEF StoreCgroupPath, backVars, volVars, domVars, qemuVars
<1>7. CASE JoinCgroup(c)
    BY <1>7 DEF JoinCgroup, volVars, qemuVars
<1>8. CASE LimitCgroup(c)
    BY <1>8 DEF LimitCgroup, volVars, qemuVars
<1>9. CASE Rollback(c)
    BY <1>9 DEF Rollback, ReturnErr, AfterErr, Quit, qemuVars, volVars
<1>10. CASE SpawnWatcher(c)
    BY <1>10 DEF SpawnWatcher, ReturnErr, AfterErr, volVars, qemuVars
<1>11. CASE StoreInfo(c)
    BY <1>11 DEF StoreInfo, Store, Put, ReturnOk, AfterOk, backVars, volVars, domVars,
     qemuVars
<1>12. CASE StartGuest(c)
    BY <1>12 DEF StartGuest, SetDomain, ReturnOk, AfterOk, ReturnErr, AfterErr,
     volVars, qemuVars
<1> QED BY <1>1, <1>2, <1>3, <1>4, <1>5, <1>6, <1>7, <1>8, <1>9, <1>10, <1>11, <1>12

LEMMA PopulateCgroup ==
  ASSUME NEW c \in Containers, TeardownWorks, FrontTypes, VolumeTypes, DomTypes,
         VerbInv(c), DirInv(c), CgroupInv(c), UNCHANGED domVars,
         MountVolume(c) \/ CopyRootfs(c) \/ UmountVolume(c) \/ UndoMount(c)
           \/ UndoVolume(c, attached)
  PROVE  CgroupInv(c)'
<1> USE DEF FrontTypes, VolumeTypes, DomTypes, VerbInv, DirInv, Gone, CgroupInv,
    StoredCgroup, CgroupOf, Live, Goto, domVars, qemuVars, TeardownWorks, GuestsEnd,
    Fault
<1>1. CASE MountVolume(c)
    BY <1>1 DEF MountVolume, Provision
<1>2. CASE CopyRootfs(c)
    BY <1>2 DEF CopyRootfs, Provision
<1>3. CASE UmountVolume(c)
    BY <1>3 DEF UmountVolume, Provision
<1>4. CASE UndoMount(c)
    BY <1>4 DEF UndoMount, Provision
<1>5. CASE UndoVolume(c, attached)
    BY <1>5 DEF UndoVolume, Provision, InUse, ReturnErr, AfterErr
<1> QED BY <1>1, <1>2, <1>3, <1>4, <1>5

LEMMA LoopCgroup ==
  ASSUME NEW c \in Containers, TeardownWorks, FrontTypes, VolumeTypes, DomTypes,
         VerbInv(c), DirInv(c), CgroupInv(c), UNCHANGED <<volVars, domVars>>,
         SteerBegin(c) \/ SteerRead(c) \/ SteerWrite(c) \/ SteerSave(c) \/
           RestoreBegin(c, "virsh_destroy") \/ RestoreWrite(c) \/
           RestoreEnd(c, "virsh_destroy")
  PROVE  CgroupInv(c)'
<1> USE DEF FrontTypes, VolumeTypes, DomTypes, VerbInv, DirInv, Gone, CgroupInv,
    StoredCgroup, CgroupOf, Live, Goto, volVars, domVars, qemuVars
<1>1. CASE SteerBegin(c)
    BY <1>1 DEF SteerBegin, ReturnOk, AfterOk, ReturnErr, AfterErr
<1>2. CASE SteerRead(c)
    BY <1>2 DEF SteerRead
<1>3. CASE SteerWrite(c)
    BY <1>3 DEF SteerWrite
<1>4. CASE SteerSave(c)
    BY <1>4 DEF SteerSave, ReturnOk, AfterOk
<1>5. CASE RestoreBegin(c, "virsh_destroy")
    BY <1>5 DEF RestoreBegin
<1>6. CASE RestoreWrite(c)
    BY <1>6 DEF RestoreWrite, feVars
<1>7. CASE RestoreEnd(c, "virsh_destroy")
    BY <1>7 DEF RestoreEnd
<1> QED BY <1>1, <1>2, <1>3, <1>4, <1>5, <1>6, <1>7

LEMMA TeardownCgroup ==
  ASSUME NEW c \in Containers, TeardownWorks, FrontTypes, VolumeTypes, DomTypes,
         VerbInv(c), DirInv(c), CgroupInv(c),
         StopGuest(c) \/ DestroyDomain(c) \/ TakeVolume(c) \/
           RemoveRunDir(c) \/ Cleanup(c) \/ Crash(c)
  PROVE  CgroupInv(c)'
<1> USE DEF FrontTypes, VolumeTypes, DomTypes, VerbInv, DirInv, Gone, CgroupInv,
    StoredCgroup, CgroupOf, Live, Goto, TeardownWorks, GuestsEnd, Fault
<1>1. CASE StopGuest(c)
    BY <1>1 DEF StopGuest, SetDomain, ReturnOk, AfterOk, ReturnErr, AfterErr, volVars,
     qemuVars
<1>2. CASE DestroyDomain(c)
    BY <1>2 DEF DestroyDomain, ReturnErr, AfterErr, Quit, qemuVars, volVars
<1>3. CASE TakeVolume(c)
    BY <1>3 DEF TakeVolume, RemoveVolume, InUse, domVars, qemuVars
<1>4. CASE RemoveRunDir(c)
    BY <1>4 DEF RemoveRunDir, RemoveAll, RemoveTree, ReturnOk, AfterOk, domVars,
     qemuVars
<1>5. CASE Cleanup(c)
    BY <1>5 DEF Cleanup, RemoveAll, RemoveTree, ReturnOk, AfterOk, domVars, qemuVars
<1>6. CASE Crash(c)
    BY <1>6 DEF Crash, CrashFrontend, volVars, qemuVars
<1> QED BY <1>1, <1>2, <1>3, <1>4, <1>5, <1>6

LEMMA RemoveCgroupCgroup ==
  ASSUME NEW c \in Containers, TeardownWorks, FrontTypes, MembersInv, DirInv(c),
         CgroupInv(c), RemoveCgroup(c)
  PROVE  CgroupInv(c)'
<1> USE DEF RemoveCgroup
<1>1. {i \in Ids : StoredCgroup(c) \in member[i]} = {}
  BY DEF MembersInv, DirInv, StoredCgroup
<1>2. cgroups' = cgroups \ {StoredCgroup(c)}
  BY <1>1 DEF TeardownWorks, Fault
<1> QED BY <1>2 DEF FrontTypes, CgroupInv, StoredCgroup, Goto

-----------------------------------------------------------------------------
(* TidyInv is an inductive invariant.                                      *)

LEMMA ContainerTidy ==
  ASSUME NEW c \in Containers, IdOfInjective, TeardownWorks, FrontTypes,
         VolumeTypes,
         DomTypes, VerbsInv, MembersInv, LifecycleInv, TidyInv,
         \/ (Invoke(c) \/ Front(c)) /\ UNCHANGED backVars
         \/ CreateStep(c) \/ TeardownStep(c) \/ Crash(c)
  PROVE  VolumeInv(c)' /\ CgroupInv(c)'
<1>1. VerbInv(c) /\ DirInv(c) /\ VolumeInv(c) /\ CgroupInv(c) /\ attached \subseteq Live
  BY DEF VerbsInv, LifecycleInv, TidyInv
<1>2. CASE (Invoke(c) \/ Front(c)) /\ UNCHANGED backVars
  BY <1>1, <1>2, FrontVolume, FrontCgroup DEF Front, backVars
<1>3. CASE CreateStep(c)
  <2>1. CASE ProvisionLvmRoot(c)
    BY <1>1, <2>1, PopulateVolume, PopulateCgroup
       DEF ProvisionLvmRoot, Populate
  <2>2. CASE Steer(c)
    BY <1>1, <2>2, LoopVolume, LoopCgroup DEF Steer, ApplyIrqSteering
  <2> QED BY <1>1, <1>3, <2>1, <2>2, CreateKeepsVolume, CreateCgroup
          DEF CreateStep
<1>4. CASE TeardownStep(c) \/ Crash(c)
  <2>1. CASE RestoreIrqs(c)
    BY <1>1, <2>1, LoopVolume, LoopCgroup DEF RestoreIrqs, RestoreIrqSteering
  <2> QED BY <1>1, <1>4, <2>1, TeardownVolume, TeardownCgroup,
             RemoveCgroupCgroup DEF TeardownStep
<1> QED BY <1>2, <1>3, <1>4

LEMMA KeptTidy ==
  ASSUME NEW c \in Containers, TidyInv, VolumeInv(c)', CgroupInv(c)', Aside(c),
         StartsOwn(c)
  PROVE  TidyInv'
<1>1. ASSUME NEW d \in Containers, d # c PROVE VolumeInv(d)'
  BY <1>1 DEF TidyInv, VolumeInv, Aside, Alone
<1>2. ASSUME NEW d \in Containers, d # c PROVE CgroupInv(d)'
  BY <1>2 DEF TidyInv, CgroupInv, CgroupOf, StoredCgroup, Aside, Alone
<1> QED BY <1>1, <1>2 DEF TidyInv, StartsOwn

LEMMA InitTidy == Init => TidyInv
  BY DEF Init, FrontInit, VolumesInit, TidyInv, VolumeInv, CgroupInv

LEMMA QemuExitsTidy ==
  ASSUME NEW i \in Ids, TidyInv, QemuExits(i)
  PROVE  TidyInv'
<1>1. UNCHANGED <<feVars, volVars, cgroups>> /\ attached' = attached \ {i}
  BY DEF QemuExits, Quit
<1>2. attached' \subseteq Live'
  BY DEF QemuExits, Quit, Live, TidyInv
<1>3. ASSUME NEW c \in Containers PROVE VolumeInv(c)' /\ CgroupInv(c)'
  BY <1>1 DEF TidyInv, VolumeInv, CgroupInv, CgroupOf, StoredCgroup, feVars, volVars
<1> QED BY <1>2, <1>3 DEF TidyInv

LEMMA NextTidy ==
  ASSUME IdOfInjective, TeardownWorks
  PROVE  TypeInv /\ MembersInv /\ LifecycleInv /\ TidyInv /\ [Next]_vars => TidyInv'
<1> SUFFICES ASSUME TypeInv, MembersInv, LifecycleInv, TidyInv, [Next]_vars PROVE TidyInv'
  OBVIOUS
<1>1. FrontTypes /\ VolumeTypes /\ DomTypes /\ VerbsInv /\ GuestsEnd
  BY TypeParts DEF TeardownWorks
<1>2. CASE UNCHANGED vars
  BY <1>2 DEF vars, feVars, backVars, volVars, domVars, qemuVars, TidyInv,
     VolumeInv, CgroupInv, CgroupOf, StoredCgroup, Live
<1>3. ASSUME NEW c \in Containers,
             \/ (Invoke(c) \/ Front(c)) /\ UNCHANGED backVars
             \/ CreateStep(c) \/ TeardownStep(c) \/ Crash(c)
      PROVE  TidyInv'
  BY <1>1, <1>3, ContainerTidy, ContainerLifecycle, KeptTidy
<1>4. ~Reboot
  BY DEF Reboot, RebootFrontend, TeardownWorks
<1> QED BY <1>2, <1>3, <1>4, QemuExitsTidy DEF Next

\* Volumes and cgroups are those of guests and of creates and teardowns.
THEOREM Tidy ==
  ASSUME IdOfInjective, MatchExact, TeardownWorks
  PROVE  Spec => []TidyInv
<1>1. Init => TidyInv
  BY InitTidy
<1>2. TypeInv /\ MembersInv /\ LifecycleInv /\ TidyInv /\ [Next]_vars => TidyInv'
  BY NextTidy
<1>3. GuestsEnd
  BY DEF TeardownWorks
<1> QED BY <1>1, <1>2, <1>3, TypeInvariant, Members, Lifecycle, PTL DEF Spec

\* provision_lvm_root and lvremove: what a domain has as its root disk is a
\* whole copy, and not mounted.
THEOREM RootsAreClones ==
  ASSUME IdOfInjective, MatchExact, TeardownWorks
  PROVE  Spec => []RootIsClone
<1>1. LifecycleInv /\ TidyInv => RootIsClone
  <2> SUFFICES ASSUME LifecycleInv, TidyInv, NEW i \in attached
               PROVE  lv[i] = "clone" /\ i \notin mounted
    BY DEF RootIsClone
  <2>1. PICK c \in Containers : i = IdOf[c]
    BY DEF TidyInv, LifecycleInv, NamesInv
  <2> QED BY <2>1 DEF TidyInv, VolumeInv, LifecycleInv, DirInv
<1>2. GuestsEnd
  BY DEF TeardownWorks
<1> QED BY <1>1, <1>2, Lifecycle, Tidy, PTL

\* A delete that reports success has left neither domain nor volume nor cgroup.
THEOREM DeletesAll ==
  ASSUME IdOfInjective, MatchExact, TeardownWorks
  PROVE  Spec => []DeleteLeavesNothing
<1>1. LifecycleInv /\ TidyInv => DeleteLeavesNothing
  BY DEF DeleteLeavesNothing, LifecycleInv, DirInv, Gone, TidyInv, VolumeInv, CgroupInv
<1>2. GuestsEnd
  BY DEF TeardownWorks
<1> QED BY <1>1, <1>2, Lifecycle, Tidy, PTL

-----------------------------------------------------------------------------
(* Interrupts.                                                             *)

\* Labels at which a process is in a loop over the interrupts.
Looping == {"steer_read", "steer_write", "steer_save", "restoring"}

\* The step changes nothing of another container, its loop and its record.
IrqAside(c) ==
  /\ Aside(c)
  /\ \A d \in Containers \ {c} : walk'[d] = walk[d] /\ saved'[IdOf[d]] = saved[IdOf[d]]

\* A step of c outside the loops.
Calm(c) ==
  /\ UNCHANGED affinity
  /\ \A d \in Containers \ {c} : walk'[d] = walk[d] /\ saved'[IdOf[d]] = saved[IdOf[d]]
  /\ pc[c] \notin Looping /\ pc'[c] \notin Looping

USE DEF Looping

\* The steps outside the loops: the record stays what it was, or goes with the
\* directory, and no affinity changes.
LEMMA FrontRecord ==
  ASSUME NEW c \in Containers, FrontTypes, VerbInv(c), RecordInv(c), CreateInv(c),
         UNCHANGED irqVars,
         Invoke(c) \/ Exit(c) \/ DecideCreate(c) \/ DecideExisting(c) \/
           MakeDir(c) \/ State(c)
  PROVE  /\ RecordInv(c)' /\ CreateInv(c)' /\ Calm(c)
         /\ HasRecord(c)' <=> HasRecord(c)
<1> USE DEF FrontTypes, VerbInv, RecordInv, HasRecord, CreateInv, Steers, Known, Calm,
    Goto, irqVars
<1>1. CASE Invoke(c)
    BY <1>1 DEF Invoke, Allowed
<1>2. CASE Exit(c)
    BY <1>2 DEF Exit
<1>3. CASE DecideCreate(c)
    BY <1>3 DEF DecideCreate
<1>4. CASE DecideExisting(c)
    BY <1>4 DEF DecideExisting, RuncExisting, FirstCall
<1>5. CASE MakeDir(c)
    BY <1>5 DEF MakeDir
<1>6. CASE State(c)
    BY <1>6 DEF State
<1> QED BY <1>1, <1>2, <1>3, <1>4, <1>5, <1>6

LEMMA CreateRecord ==
  ASSUME NEW c \in Containers, IdOfInjective, FrontTypes, IrqTypes, VerbInv(c),
         RecordInv(c), CreateInv(c),
         ClearStaleDir(c) \/ GenerateConfig(c) \/ CreateVolume(c) \/
           CreateDomain(c) \/ FindPid(c) \/ StoreCgroupPath(c) \/
           JoinCgroup(c) \/ LimitCgroup(c) \/ Rollback(c) \/ SpawnWatcher(c)
           \/ StoreInfo(c) \/ StartGuest(c)
  PROVE  /\ RecordInv(c)' /\ CreateInv(c)' /\ Calm(c)
         /\ HasRecord(c)' <=> HasRecord(c)
<1> USE DEF IdOfInjective, FrontTypes, IrqTypes, VerbInv, RecordInv, HasRecord,
    CreateInv, Steers, Known, Calm, Goto
<1>1. CASE ClearStaleDir(c)
    BY <1>1 DEF ClearStaleDir, RemoveAll, RemoveTree
<1>2. CASE GenerateConfig(c)
    BY <1>2 DEF GenerateConfig, Put, ReturnOk, AfterOk, ReturnErr, AfterErr, backVars,
     irqVars
<1>3. CASE CreateVolume(c)
    BY <1>3 DEF CreateVolume, Provision, ReturnErr, AfterErr, irqVars
<1>4. CASE CreateDomain(c)
    BY <1>4 DEF CreateDomain, ReturnErr, AfterErr, irqVars
<1>5. CASE FindPid(c)
    BY <1>5 DEF FindPid, ReturnErr, AfterErr, irqVars
<1>6. CASE StoreCgroupPath(c)
    BY <1>6 DEF StoreCgroupPath, backVars, irqVars
<1>7. CASE JoinCgroup(c)
    BY <1>7 DEF JoinCgroup, irqVars
<1>8. CASE LimitCgroup(c)
    BY <1>8 DEF LimitCgroup, irqVars
<1>9. CASE Rollback(c)
    BY <1>9 DEF Rollback, ReturnErr, AfterErr, irqVars
<1>10. CASE SpawnWatcher(c)
    BY <1>10 DEF SpawnWatcher, ReturnErr, AfterErr, irqVars
<1>11. CASE StoreInfo(c)
    BY <1>11 DEF StoreInfo, Store, Put, ReturnOk, AfterOk, backVars, irqVars
<1>12. CASE StartGuest(c)
    BY <1>12 DEF StartGuest, SetDomain, ReturnOk, AfterOk, ReturnErr, AfterErr, irqVars
<1> QED BY <1>1, <1>2, <1>3, <1>4, <1>5, <1>6, <1>7, <1>8, <1>9, <1>10, <1>11, <1>12

LEMMA PopulateRecord ==
  ASSUME NEW c \in Containers, FrontTypes, VerbInv(c), RecordInv(c), CreateInv(c),
         UNCHANGED irqVars,
         MountVolume(c) \/ CopyRootfs(c) \/ UmountVolume(c) \/ UndoMount(c)
           \/ UndoVolume(c, attached)
  PROVE  /\ RecordInv(c)' /\ CreateInv(c)' /\ Calm(c)
         /\ HasRecord(c)' <=> HasRecord(c)
<1> USE DEF FrontTypes, VerbInv, RecordInv, HasRecord, CreateInv, Steers, Known, Calm,
    Goto, irqVars
<1>1. CASE MountVolume(c)
    BY <1>1 DEF MountVolume, Provision
<1>2. CASE CopyRootfs(c)
    BY <1>2 DEF CopyRootfs, Provision
<1>3. CASE UmountVolume(c)
    BY <1>3 DEF UmountVolume, Provision
<1>4. CASE UndoMount(c)
    BY <1>4 DEF UndoMount, Provision
<1>5. CASE UndoVolume(c, attached)
    BY <1>5 DEF UndoVolume, Provision, InUse, ReturnErr, AfterErr
<1> QED BY <1>1, <1>2, <1>3, <1>4, <1>5

LEMMA TeardownRecord ==
  ASSUME NEW c \in Containers, IdOfInjective, FrontTypes, IrqTypes, VerbInv(c),
         RecordInv(c), CreateInv(c),
         StopGuest(c) \/ DestroyDomain(c) \/ TakeVolume(c) \/
           RemoveCgroup(c) \/ RemoveRunDir(c) \/ Cleanup(c)
  PROVE  /\ RecordInv(c)' /\ CreateInv(c)' /\ Calm(c)
         /\ HasRecord(c)' <=> HasRecord(c)
<1> USE DEF IdOfInjective, FrontTypes, IrqTypes, VerbInv, RecordInv, HasRecord,
    CreateInv, Steers, Known, Calm, Goto
<1>1. CASE StopGuest(c)
    BY <1>1 DEF StopGuest, SetDomain, ReturnOk, AfterOk, ReturnErr, AfterErr, irqVars
<1>2. CASE DestroyDomain(c)
    BY <1>2 DEF DestroyDomain, ReturnErr, AfterErr, irqVars
<1>3. CASE TakeVolume(c)
    BY <1>3 DEF TakeVolume, RemoveVolume, InUse, irqVars
<1>4. CASE RemoveCgroup(c)
    BY <1>4 DEF RemoveCgroup, irqVars
<1>5. CASE RemoveRunDir(c)
    BY <1>5 DEF RemoveRunDir, RemoveAll, RemoveTree, ReturnOk, AfterOk
<1>6. CASE Cleanup(c)
    BY <1>6 DEF Cleanup, RemoveAll, RemoveTree, ReturnOk, AfterOk
<1> QED BY <1>1, <1>2, <1>3, <1>4, <1>5, <1>6

\* A container whose interrupts are moved is one that steers.
LEMMA MovingSteers ==
  ASSUME NEW c \in Containers, RecordInv(c), LoopInv(c), CreateInv(c), Moving(c)
  PROVE  Steers(c)
BY DEF RecordInv, LoopInv, CreateInv, Moving, Steers, Known

\* A step of a loop changes nothing of another container.
LEMMA LoopIrqAside ==
  ASSUME NEW c \in Containers, IdOfInjective, FrontTypes, IrqTypes, VolumeTypes, DomTypes,
         UNCHANGED <<volVars, domVars>>,
         SteerBegin(c) \/ SteerRead(c) \/ SteerWrite(c) \/ SteerSave(c) \/
           RestoreBegin(c, "virsh_destroy") \/ RestoreWrite(c) \/
           RestoreEnd(c, "virsh_destroy")
  PROVE  IrqAside(c)
<1>1. Aside(c)
  BY LoopAside
<1>2. ASSUME NEW d \in Containers \ {c} PROVE walk'[d] = walk[d]
  BY LoopAlone
<1>3. ASSUME NEW d \in Containers \ {c} PROVE saved'[IdOf[d]] = saved[IdOf[d]]
  BY DEF IdOfInjective, IrqTypes, SteerBegin, SteerRead, SteerWrite, SteerSave,
     RestoreBegin, RestoreWrite, RestoreEnd
<1> QED BY <1>1, <1>2, <1>3 DEF IrqAside

\* What SetAffinity leaves, when no write fails.
LEMMA SetAffinityWorks ==
  ASSUME affinity \in [Irqs -> AffinityLists], NEW q \in Irqs, NEW list,
         "irq_write" \notin Faults, SetAffinity(q, list)
  PROVE  /\ \A p \in Irqs \ {q} : affinity'[p] = affinity[p]
         /\ affinity'[q] = IF q \in Fixed THEN affinity[q] ELSE list
BY DEF SetAffinity, Fault

\* The affinities are those of the boot when a container begins to steer.
Fresh(c) == pc[c] = "steer" /\ Steers(c) => affinity = Home

FixedHome == \A q \in Fixed : affinity[q] = Home[q]

\* A step of c that moves interrupts belongs to a loop that knows the way back.
HomeStep(c) ==
  \/ UNCHANGED affinity /\ (Moving(c) => Moving(c)')
  \/ Moving(c) /\ (Moving(c)' \/ affinity' = Home)

\* The loop of a create keeps or writes down the way back of what it moves.
LEMMA SteerHome ==
  ASSUME NEW c \in Containers, IdOfInjective, IrqsKept, FrontTypes, IrqTypes, VerbInv(c),
         RecordInv(c), LoopInv(c), CreateInv(c), Fresh(c), FixedHome,
         SteerBegin(c) \/ SteerRead(c) \/ SteerWrite(c) \/ SteerSave(c)
  PROVE  RecordInv(c)' /\ LoopInv(c)' /\ CreateInv(c)' /\ HomeStep(c) /\ FixedHome'
<1>0. /\ walk[c] \in Walks /\ pc \in [Containers -> Labels]
      /\ walk \in [Containers -> Walks]
      /\ affinity \in [Irqs -> AffinityLists]
      /\ IdOf[c] \in Ids
  BY DEF IrqTypes, FrontTypes
<1>1. CASE SteerBegin(c)
  <2>1. RecordInv(c)' /\ CreateInv(c)'
    BY <1>0, <1>1 DEF SteerBegin, ReturnOk, ReturnErr, AfterOk, AfterErr, Goto, RecordInv,
       HasRecord, CreateInv, Steers, Known, VerbInv, FrontTypes
  <2>2. LoopInv(c)'
    <3>1. CASE pc'[c] = "steer_read"
      <4>1. SteerCpus(bundle[c]) # {} /\ walk' = [walk EXCEPT ![c].todo = Irqs]
        BY <1>0, <1>1, <3>1 DEF SteerBegin, ReturnOk, ReturnErr, AfterOk, AfterErr, Goto
      <4>2. walk'[c].todo = Irqs
        BY <1>0, <4>1 DEF Walks
      <4>3. affinity' = Home
        BY <1>1, <4>1 DEF SteerBegin, Fresh, Steers, Known, CreateInv
      <4>4. bundle' = bundle
        BY <1>1 DEF SteerBegin
      <4> QED BY <3>1, <4>1, <4>2, <4>3, <4>4 DEF LoopInv
    <3>2. CASE pc'[c] # "steer_read"
      BY <1>0, <1>1, <3>2 DEF SteerBegin, ReturnOk, ReturnErr, AfterOk, AfterErr, Goto, LoopInv
    <3> QED BY <3>1, <3>2
  <2>3. HomeStep(c) /\ FixedHome'
    BY <1>0, <1>1 DEF SteerBegin, HomeStep, Moving, HasRecord, FixedHome
  <2> QED BY <2>1, <2>2, <2>3
<1>2. CASE SteerRead(c)
  <2>1. PICK q \in walk[c].todo :
          walk' = [walk EXCEPT ![c].at = {q}, ![c].todo = @ \ {q}, ![c].map[q] = affinity[q]]
    BY <1>2 DEF SteerRead, IrqsKept, Fault
  <2>2. /\ walk'[c].at = {q} /\ walk'[c].todo = walk[c].todo \ {q}
        /\ walk'[c].map = [walk[c].map EXCEPT ![q] = affinity[q]]
    BY <1>0, <2>1 DEF Walks
  <2>3. walk[c].map \in [Irqs -> SUBSET Cpus] /\ walk[c].todo \subseteq Irqs /\ q \in Irqs
    BY <1>0, <2>1 DEF Walks
  <2>4. pc[c] = "steer_read" /\ pc'[c] = "steer_write" /\ UNCHANGED <<bundle, affinity>>
    BY <1>0, <1>2 DEF SteerRead, Goto
  <2>5. /\ SteerCpus(bundle[c]) # {}
        /\ \A p \in walk[c].todo : affinity[p] = Home[p]
        /\ \A p \in Irqs \ walk[c].todo : walk[c].map[p] = Home[p]
    BY <2>4 DEF LoopInv
  <2>6. \A p \in Irqs \ walk'[c].todo : walk'[c].map[p] = Home[p]
    BY <2>2, <2>3, <2>5
  <2>7. LoopInv(c)'
    BY <2>2, <2>4, <2>5, <2>6 DEF LoopInv
  <2>8. RecordInv(c)' /\ CreateInv(c)'
    BY <1>0, <1>2 DEF SteerRead, Goto, RecordInv, HasRecord, CreateInv, Steers, Known
  <2>9. HomeStep(c) /\ FixedHome'
    BY <1>2, <2>4 DEF HomeStep, Moving, FixedHome
  <2> QED BY <2>7, <2>8, <2>9
<1>3. CASE SteerWrite(c)
  <2>1. PICK q \in walk[c].at : SetAffinity(q, SteerCpus(bundle[c]))
    BY <1>3 DEF SteerWrite
  <2>2. walk[c].todo \subseteq Irqs /\ q \in Irqs
    BY <1>0, <2>1 DEF Walks
  <2>3. /\ \A p \in Irqs \ {q} : affinity'[p] = affinity[p]
        /\ q \in Fixed => affinity'[q] = affinity[q]
    BY <1>0, <2>1, <2>2, SetAffinityWorks DEF IrqsKept
  <2>4. /\ walk'[c].at = {} /\ walk'[c].todo = walk[c].todo
        /\ walk'[c].map = walk[c].map
    BY <1>0, <1>3 DEF SteerWrite, Walks
  <2>5. /\ pc[c] = "steer_write" /\ UNCHANGED bundle
        /\ pc'[c] = IF walk[c].todo = {} THEN "steer_save" ELSE "steer_read"
    BY <1>0, <1>3 DEF SteerWrite, Goto
  <2>6. /\ SteerCpus(bundle[c]) # {} /\ walk[c].at \cap walk[c].todo = {}
        /\ \A p \in walk[c].todo : affinity[p] = Home[p]
        /\ \A p \in Irqs \ walk[c].todo : walk[c].map[p] = Home[p]
    BY <2>5 DEF LoopInv
  <2>7. \A p \in walk[c].todo : affinity'[p] = Home[p]
    BY <2>1, <2>2, <2>3, <2>6
  <2>8. LoopInv(c)'
    BY <2>4, <2>5, <2>6, <2>7 DEF LoopInv
  <2>9. RecordInv(c)' /\ CreateInv(c)'
    BY <1>0, <1>3 DEF SteerWrite, Goto, RecordInv, HasRecord, CreateInv, Steers, Known
  <2>10. HomeStep(c)
    BY <2>5 DEF HomeStep, Moving
  <2>11. FixedHome'
    BY <2>3, IrqAssumption DEF FixedHome
  <2> QED BY <2>8, <2>9, <2>10, <2>11
<1>4. CASE SteerSave(c)
  <2>1. /\ saved' = [saved EXCEPT ![IdOf[c]] = walk[c].map]
        /\ files' = [files EXCEPT ![IdOf[c]] = @ \cup {"saved_irqs"}]
        /\ UNCHANGED <<bundle, status, verb, crundir, affinity>>
    BY <1>4 DEF SteerSave, IrqsKept, Fault
  <2>2. pc[c] = "steer_save" /\ pc'[c] = "storeinfo" /\ verb[c] = "create"
    BY <1>0, <1>4 DEF SteerSave, ReturnOk, AfterOk, Goto, VerbInv
  <2>3. /\ walk[c].map \in [Irqs -> SUBSET Cpus] /\ Home \in [Irqs -> AffinityLists]
        /\ \A p \in Irqs : walk[c].map[p] = Home[p]
    BY <1>0, <2>2, IrqAssumption DEF Walks, LoopInv
  <2>4. saved'[IdOf[c]] = Home
    BY <1>0, <2>1, <2>3 DEF IrqTypes
  <2>5. Steers(c)' /\ CreateInv(c)'
    BY <2>1, <2>2 DEF LoopInv, CreateInv, Steers, Known
  <2>6. IdOf[c] \in crundir'
    BY <2>1, <2>2 DEF CreateInv
  <2>7. RecordInv(c)'
    BY <2>2, <2>4, <2>5, <2>6 DEF RecordInv
  <2>8. LoopInv(c)'
    BY <2>2 DEF LoopInv
  <2>9. HomeStep(c) /\ FixedHome'
    BY <1>0, <2>1 DEF HomeStep, Moving, HasRecord, FixedHome, FrontTypes
  <2> QED BY <2>5, <2>7, <2>8, <2>9
<1> QED BY <1>1, <1>2, <1>3, <1>4

\* The loop of a teardown brings back all that the record names.
LEMMA RestoreHome ==
  ASSUME NEW c \in Containers, IdOfInjective, IrqsKept, FrontTypes, IrqTypes, VerbInv(c),
         RecordInv(c), LoopInv(c), CreateInv(c), FixedHome,
         \/ RestoreBegin(c, "virsh_destroy") \/ RestoreWrite(c)
         \/ RestoreEnd(c, "virsh_destroy")
  PROVE  RecordInv(c)' /\ LoopInv(c)' /\ CreateInv(c)' /\ HomeStep(c) /\ FixedHome'
<1>0. /\ walk[c] \in Walks /\ pc \in [Containers -> Labels]
      /\ walk \in [Containers -> Walks] /\ files \in [Ids -> SUBSET FileNames]
      /\ affinity \in [Irqs -> AffinityLists] /\ saved \in [Ids -> [Irqs -> SUBSET Cpus]]
      /\ IdOf[c] \in Ids
      /\ Home \in [Irqs -> AffinityLists]
  BY IrqAssumption DEF IrqTypes, FrontTypes
<1>1. CASE RestoreBegin(c, "virsh_destroy")
  <2>1. /\ pc[c] = "destroyguest"
        /\ UNCHANGED <<bundle, status, verb, crundir, files, affinity, saved>>
    BY <1>1 DEF RestoreBegin
  <2>2. CASE HasRecord(c)
    <3>1. /\ pc'[c] = "restoring"
          /\ walk' = [walk EXCEPT ![c].todo = {q \in Irqs : saved[IdOf[c]][q] # {}},
                                  ![c].map = saved[IdOf[c]]]
      BY <1>0, <1>1, <2>2 DEF RestoreBegin, HasRecord, IrqsKept, Fault, Goto
    <3>2. saved[IdOf[c]] = Home /\ \A q \in Irqs : Home[q] # {}
      BY <1>0, <2>2 DEF RecordInv, AffinityLists
    <3>3. {q \in Irqs : saved[IdOf[c]][q] # {}} = Irqs
      BY <3>2
    <3>4. walk'[c].todo = Irqs /\ walk'[c].map = Home
      BY <1>0, <3>1, <3>2, <3>3 DEF Walks
    <3>5. LoopInv(c)'
      BY <2>1, <2>2, <3>1, <3>4 DEF LoopInv, HasRecord
    <3>6. RecordInv(c)' /\ CreateInv(c)' /\ HomeStep(c)
      BY <2>1, <2>2, <3>1 DEF RecordInv, HasRecord, CreateInv, Steers, Known, HomeStep, Moving
    <3> QED BY <2>1, <3>5, <3>6 DEF FixedHome
  <2>3. CASE ~HasRecord(c)
    <3>1. pc'[c] = "virsh_destroy"
      BY <1>0, <1>1, <2>3 DEF RestoreBegin, HasRecord, Goto
    <3> QED BY <2>1, <2>3, <3>1 DEF LoopInv, RecordInv, HasRecord, CreateInv, HomeStep,
               Moving, FixedHome
  <2> QED BY <2>2, <2>3
<1>2. CASE RestoreWrite(c)
  <2>1. PICK q \in walk[c].todo :
          /\ SetAffinity(q, walk[c].map[q])
          /\ walk' = [walk EXCEPT ![c].todo = @ \ {q}]
    BY <1>2 DEF RestoreWrite
  <2>2. walk[c].todo \subseteq Irqs /\ q \in Irqs
    BY <1>0, <2>1 DEF Walks
  <2>3. pc[c] = "restoring" /\ UNCHANGED <<feVars, saved>>
    BY <1>2 DEF RestoreWrite
  <2>4. /\ HasRecord(c) /\ walk[c].map = Home
        /\ \A p \in Irqs \ walk[c].todo : affinity[p] = Home[p]
    BY <2>3 DEF LoopInv
  <2>5. /\ \A p \in Irqs \ {q} : affinity'[p] = affinity[p]
        /\ affinity'[q] = IF q \in Fixed THEN affinity[q] ELSE Home[q]
    BY <1>0, <2>1, <2>2, <2>4, SetAffinityWorks DEF IrqsKept
  <2>6. affinity'[q] = Home[q]
    BY <2>5 DEF FixedHome
  <2>7. walk'[c].todo = walk[c].todo \ {q} /\ walk'[c].map = Home
    BY <1>0, <2>1, <2>4 DEF Walks
  <2>8. \A p \in Irqs \ walk'[c].todo : affinity'[p] = Home[p]
    BY <2>4, <2>5, <2>6, <2>7
  <2>9. HasRecord(c)' /\ pc'[c] = pc[c]
    BY <2>3, <2>4 DEF HasRecord, feVars
  <2>10. LoopInv(c)'
    BY <2>3, <2>7, <2>8, <2>9 DEF LoopInv
  <2>11. RecordInv(c)' /\ CreateInv(c)' /\ HomeStep(c)
    BY <2>3, <2>4, <2>9 DEF RecordInv, HasRecord, CreateInv, Steers, Known, HomeStep,
       Moving, feVars
  <2>12. FixedHome'
    BY <2>5, <2>6, IrqAssumption DEF FixedHome
  <2> QED BY <2>10, <2>11, <2>12
<1>3. CASE RestoreEnd(c, "virsh_destroy")
  <2>1. /\ pc[c] = "restoring" /\ pc'[c] = "virsh_destroy" /\ walk[c].todo = {}
        /\ files' = [files EXCEPT ![IdOf[c]] = @ \ {"saved_irqs"}]
        /\ UNCHANGED affinity
    BY <1>0, <1>3 DEF RestoreEnd, Goto
  <2>2. ~HasRecord(c)'
    BY <1>0, <2>1 DEF HasRecord
  <2>3. HasRecord(c) /\ \A p \in Irqs : affinity[p] = Home[p]
    BY <2>1 DEF LoopInv
  <2>4. affinity' = Home
    BY <1>0, <2>1, <2>3
  <2> QED BY <2>1, <2>2, <2>3, <2>4 DEF LoopInv, RecordInv, CreateInv, HomeStep, Moving,
             FixedHome
<1> QED BY <1>1, <1>2, <1>3

\* What a step of c that satisfies the lemmas above makes of the others.
LEMMA KeptHome ==
  ASSUME NEW c \in Containers, IdOfInjective, OneSteers, HomeInv, FrontTypes, IrqAside(c),
         RecordInv(c)', LoopInv(c)', CreateInv(c)', HomeStep(c), FixedHome'
  PROVE  HomeInv'
<1>1. ASSUME NEW d \in Containers, d # c PROVE RecordInv(d)' /\ CreateInv(d)'
  BY <1>1 DEF HomeInv, IrqAside, Aside, Alone, RecordInv, CreateInv, HasRecord, Steers, Known
<1>2. ASSUME NEW d \in Containers, d # c PROVE LoopInv(d)'
  <2>1. LoopInv(d) /\ walk'[d] = walk[d] /\ pc'[d] = pc[d] /\ bundle'[d] = bundle[d] /\
        (HasRecord(d)' <=> HasRecord(d))
    BY <1>2 DEF HomeInv, IrqAside, Aside, Alone, HasRecord
  <2>2. CASE Moving(d)
    <3>1. ~Moving(c)
      BY <1>2, <2>2, MovingSteers DEF OneSteers, HomeInv
    <3>2. UNCHANGED affinity
      BY <3>1 DEF HomeStep
    <3> QED BY <2>1, <3>2 DEF LoopInv
  <2>3. CASE ~Moving(d)
    BY <2>1, <2>3 DEF LoopInv, Moving
  <2> QED BY <2>2, <2>3
<1>3. affinity' # Home => \E d \in Containers : Moving(d)'
  <2> SUFFICES ASSUME affinity' # Home PROVE \E d \in Containers : Moving(d)'
    OBVIOUS
  <2>1. CASE Moving(c)
    BY <2>1 DEF HomeStep
  <2>2. CASE ~Moving(c)
    <3>1. affinity # Home
      BY <2>2 DEF HomeStep
    <3>2. PICK d \in Containers : Moving(d)
      BY <3>1 DEF HomeInv
    <3>3. Moving(d)'
      BY <2>2, <3>2 DEF IrqAside, Aside, Alone, Moving, HasRecord
    <3> QED BY <3>3
  <2> QED BY <2>1, <2>2
<1> QED BY <1>1, <1>2, <1>3 DEF HomeInv, FixedHome

\* Outside the loops nothing is moved.
LEMMA CalmHome ==
  ASSUME NEW c \in Containers, Calm(c), FixedHome, HasRecord(c)' <=> HasRecord(c)
  PROVE  LoopInv(c)' /\ HomeStep(c) /\ FixedHome'
BY DEF Calm, LoopInv, HomeStep, Moving, FixedHome

\* When a container begins to steer, no other does.
LEMMA BeginsFresh ==
  ASSUME NEW c \in Containers, OneSteers, HomeInv
  PROVE  Fresh(c)
<1> SUFFICES ASSUME pc[c] = "steer", Steers(c), affinity # Home PROVE FALSE
  BY DEF Fresh
<1>1. PICK d \in Containers : Moving(d)
  BY DEF HomeInv
<1>2. d = c
  BY <1>1, MovingSteers DEF HomeInv, OneSteers
<1>3. ~Moving(c)
  BY DEF HomeInv, RecordInv, Moving
<1> QED BY <1>1, <1>2, <1>3

\* A step of a container, in the loops or outside them.
LEMMA ContainerHome ==
  ASSUME NEW c \in Containers, IdOfInjective, IrqsKept, OneSteers, TypeInv, HomeInv,
         \/ (Invoke(c) \/ Front(c)) /\ UNCHANGED backVars
         \/ CreateStep(c) \/ TeardownStep(c) \/ Crash(c)
  PROVE  HomeInv'
<1>1. /\ FrontTypes /\ VolumeTypes /\ IrqTypes /\ DomTypes /\ VerbInv(c)
      /\ RecordInv(c) /\ LoopInv(c) /\ CreateInv(c) /\ FixedHome
  BY TypeParts DEF VerbsInv, HomeInv, FixedHome
<1>2. Fresh(c)
  BY BeginsFresh
<1>3. ASSUME Aside(c), RecordInv(c)', CreateInv(c)', Calm(c), HasRecord(c)' <=> HasRecord(c)
      PROVE  HomeInv'
  <2>1. IrqAside(c)
    BY <1>3 DEF IrqAside, Calm
  <2> QED BY <1>1, <1>3, <2>1, CalmHome, KeptHome
<1>4. CASE (Invoke(c) \/ Front(c)) /\ UNCHANGED backVars
  BY <1>1, <1>3, <1>4, FrontRecord, FrontAside DEF Front, backVars
<1>5. CASE CreateStep(c)
  <2>1. CASE ProvisionLvmRoot(c)
    BY <1>1, <1>3, <2>1, PopulateRecord, PopulateAside DEF ProvisionLvmRoot, Populate
  <2>2. CASE Steer(c)
    BY <1>1, <1>2, <2>2, SteerHome, LoopIrqAside, KeptHome DEF Steer, ApplyIrqSteering
  <2> QED BY <1>1, <1>3, <1>5, <2>1, <2>2, CreateRecord, CreateAside DEF CreateStep
<1>6. CASE TeardownStep(c)
  <2>1. CASE RestoreIrqs(c)
    BY <1>1, <2>1, RestoreHome, LoopIrqAside, KeptHome DEF RestoreIrqs, RestoreIrqSteering
  <2> QED BY <1>1, <1>3, <1>6, <2>1, TeardownRecord, TeardownAside, RemoveCgroupAside
          DEF TeardownStep
<1>7. ~Crash(c)
  BY DEF Crash, CrashFrontend, IrqsKept
<1> QED BY <1>4, <1>5, <1>6, <1>7

\* Every step, also one of QEMU or of the machine.
LEMMA NextHome ==
  ASSUME IdOfInjective, IrqsKept
  PROVE  TypeInv /\ OneSteers /\ HomeInv /\ [Next]_vars => HomeInv'
<1> SUFFICES ASSUME TypeInv, OneSteers, HomeInv, [Next]_vars PROVE HomeInv'
  OBVIOUS
<1> USE DEF HomeInv, RecordInv, LoopInv, CreateInv, HasRecord, Steers, Known, Moving
<1>1. CASE UNCHANGED vars
  BY <1>1 DEF vars, feVars, backVars, irqVars
<1>2. ASSUME NEW i \in Ids, QemuExits(i) PROVE HomeInv'
  BY <1>2 DEF QemuExits, feVars, irqVars
<1>3. CASE Reboot
  BY <1>3 DEF Reboot, RebootFrontend
<1> QED BY <1>1, <1>2, <1>3, ContainerHome DEF Next

\* Interrupts are away from where they were at boot only as long as the one
\* container that steers knows the way back of each.
THEOREM AffinitiesHome ==
  ASSUME IdOfInjective, IrqsKept
  PROVE  Spec /\ []OneSteers => []HomeInv
<1>1. Init => HomeInv
  BY DEF Init, FrontInit, IrqInit, HomeInv, RecordInv, LoopInv, CreateInv, HasRecord
<1>2. TypeInv /\ OneSteers /\ HomeInv /\ [Next]_vars => HomeInv'
  BY NextHome
<1> QED BY <1>1, <1>2, TypeInvariant, PTL DEF Spec

\* With one container that steers at a time, the affinities of the boot are
\* back when no container is left, whatever else fails and across reboots.
THEOREM InterruptsReturn ==
  ASSUME IdOfInjective, IrqsKept
  PROVE  Spec /\ []OneSteers => []IrqsRestored
<1>1. HomeInv => IrqsRestored
  <2> SUFFICES ASSUME HomeInv, \A c \in Containers : status[c] = "none" /\ pc[c] = "idle",
                      affinity # Home
               PROVE  FALSE
    BY DEF IrqsRestored
  <2>1. PICK c \in Containers : Moving(c)
    BY DEF HomeInv
  <2>2. Steers(c)
    BY <2>1, MovingSteers DEF HomeInv
  <2> QED BY <2>2 DEF Steers, Known
<1> QED BY <1>1, AffinitiesHome, PTL

-----------------------------------------------------------------------------
(* Interrupts that stay steered.                                           *)

\* What SteeringInv says at the labels outside the loops.
StaysInv(c) ==
  /\ HasRecord(c) => IdOf[c] \in crundir /\ Steers(c)
  /\ verb[c] \in {"kill", "delete"} => pc[c] # "err"
  /\ Held(c) => Steers(c)

\* A step of c outside the loops does not ask for more.
Stays(c) ==
  /\ StaysInv(c)' /\ CreateInv(c)' /\ Calm(c)
  /\ Held(c)' => Held(c) /\ bundle'[c] = bundle[c]

\* The steps outside the loops: nobody comes to want its interrupts steered who
\* did not before.
LEMMA FrontStays ==
  ASSUME NEW c \in Containers, FrontTypes, VerbInv(c), StaysInv(c),
         CreateInv(c), DirInv(c), SteeringWorks, UNCHANGED irqVars,
         Invoke(c) \/ Exit(c) \/ DecideCreate(c) \/ DecideExisting(c) \/
           MakeDir(c) \/ State(c)
  PROVE  Stays(c)
<1> USE DEF FrontTypes, VerbInv, DirInv, Gone, SteeringWorks, GuestsEnd, Fault, Stays,
    StaysInv, Held, HasRecord, CreateInv, Steers, Known, Calm, Goto, irqVars
<1>1. CASE Invoke(c)
    BY <1>1 DEF Invoke, Allowed
<1>2. CASE Exit(c)
    BY <1>2 DEF Exit
<1>3. CASE DecideCreate(c)
    BY <1>3 DEF DecideCreate
<1>4. CASE DecideExisting(c)
    BY <1>4 DEF DecideExisting, RuncExisting, FirstCall
<1>5. CASE MakeDir(c)
    BY <1>5 DEF MakeDir
<1>6. CASE State(c)
    BY <1>6 DEF State
<1> QED BY <1>1, <1>2, <1>3, <1>4, <1>5, <1>6

LEMMA CreateStays ==
  ASSUME NEW c \in Containers, IdOfInjective, FrontTypes, IrqTypes, VerbInv(c),
         StaysInv(c), CreateInv(c), DirInv(c), SteeringWorks,
         ClearStaleDir(c) \/ GenerateConfig(c) \/ CreateVolume(c) \/
           CreateDomain(c) \/ FindPid(c) \/ StoreCgroupPath(c) \/
           JoinCgroup(c) \/ LimitCgroup(c) \/ Rollback(c) \/ SpawnWatcher(c)
           \/ StoreInfo(c) \/ StartGuest(c)
  PROVE  Stays(c)
<1> USE DEF IdOfInjective, FrontTypes, IrqTypes, VerbInv, DirInv, Gone, SteeringWorks,
    GuestsEnd, Fault, Stays, StaysInv, Held, HasRecord, CreateInv, Steers, Known, Calm,
    Goto
<1>1. CASE ClearStaleDir(c)
    BY <1>1 DEF ClearStaleDir, RemoveAll, RemoveTree
<1>2. CASE GenerateConfig(c)
    BY <1>2 DEF GenerateConfig, Put, ReturnOk, AfterOk, ReturnErr, AfterErr, backVars,
     irqVars
<1>3. CASE CreateVolume(c)
    BY <1>3 DEF CreateVolume, Provision, ReturnErr, AfterErr, irqVars
<1>4. CASE CreateDomain(c)
    BY <1>4 DEF CreateDomain, ReturnErr, AfterErr, irqVars
<1>5. CASE FindPid(c)
    BY <1>5 DEF FindPid, ReturnErr, AfterErr, irqVars
<1>6. CASE StoreCgroupPath(c)
    BY <1>6 DEF StoreCgroupPath, backVars, irqVars
<1>7. CASE JoinCgroup(c)
    BY <1>7 DEF JoinCgroup, irqVars
<1>8. CASE LimitCgroup(c)
    BY <1>8 DEF LimitCgroup, irqVars
<1>9. CASE Rollback(c)
    BY <1>9 DEF Rollback, ReturnErr, AfterErr, irqVars
<1>10. CASE SpawnWatcher(c)
    BY <1>10 DEF SpawnWatcher, ReturnErr, AfterErr, irqVars
<1>11. CASE StoreInfo(c)
  <2>1. CASE Store(c, "storeinfo", "bundle") /\ Goto(c, "store_pidfile")
    BY <2>1 DEF Store, Put, backVars, irqVars
  <2>2. CASE Store(c, "store_pidfile", "pidfile") /\ Goto(c, "store_os")
    BY <2>2 DEF Store, Put, backVars, irqVars
  <2>3. CASE Store(c, "store_os", "OS") /\ ReturnOk(c, "storeinfo")
    BY <2>3 DEF Store, Put, ReturnOk, AfterOk, backVars, irqVars
  <2> QED BY <1>11, <2>1, <2>2, <2>3 DEF StoreInfo
<1>12. CASE StartGuest(c)
    BY <1>12 DEF StartGuest, SetDomain, ReturnOk, AfterOk, ReturnErr, AfterErr, irqVars
<1> QED BY <1>1, <1>2, <1>3, <1>4, <1>5, <1>6, <1>7, <1>8, <1>9, <1>10, <1>11, <1>12

LEMMA PopulateStays ==
  ASSUME NEW c \in Containers, FrontTypes, VerbInv(c), StaysInv(c),
         CreateInv(c), DirInv(c), SteeringWorks, UNCHANGED irqVars,
         MountVolume(c) \/ CopyRootfs(c) \/ UmountVolume(c) \/ UndoMount(c)
           \/ UndoVolume(c, attached)
  PROVE  Stays(c)
<1> USE DEF FrontTypes, VerbInv, DirInv, Gone, SteeringWorks, GuestsEnd, Fault, Stays,
    StaysInv, Held, HasRecord, CreateInv, Steers, Known, Calm, Goto, irqVars
<1>1. CASE MountVolume(c)
    BY <1>1 DEF MountVolume, Provision
<1>2. CASE CopyRootfs(c)
    BY <1>2 DEF CopyRootfs, Provision
<1>3. CASE UmountVolume(c)
    BY <1>3 DEF UmountVolume, Provision
<1>4. CASE UndoMount(c)
    BY <1>4 DEF UndoMount, Provision
<1>5. CASE UndoVolume(c, attached)
    BY <1>5 DEF UndoVolume, Provision, InUse, ReturnErr, AfterErr
<1> QED BY <1>1, <1>2, <1>3, <1>4, <1>5

LEMMA TeardownStays ==
  ASSUME NEW c \in Containers, IdOfInjective, FrontTypes, IrqTypes, VerbInv(c),
         StaysInv(c), CreateInv(c), DirInv(c), SteeringWorks,
         StopGuest(c) \/ DestroyDomain(c) \/ TakeVolume(c) \/
           RemoveCgroup(c) \/ RemoveRunDir(c) \/ Cleanup(c)
  PROVE  Stays(c)
<1> USE DEF IdOfInjective, FrontTypes, IrqTypes, VerbInv, DirInv, Gone, SteeringWorks,
    GuestsEnd, Fault, Stays, StaysInv, Held, HasRecord, CreateInv, Steers, Known, Calm,
    Goto
<1>1. CASE StopGuest(c)
    BY <1>1 DEF StopGuest, SetDomain, ReturnOk, AfterOk, ReturnErr, AfterErr, irqVars
<1>2. CASE DestroyDomain(c)
    BY <1>2 DEF DestroyDomain, ReturnErr, AfterErr, irqVars
<1>3. CASE TakeVolume(c)
    BY <1>3 DEF TakeVolume, RemoveVolume, InUse, irqVars
<1>4. CASE RemoveCgroup(c)
    BY <1>4 DEF RemoveCgroup, irqVars
<1>5. CASE RemoveRunDir(c)
    BY <1>5 DEF RemoveRunDir, RemoveAll, RemoveTree, ReturnOk, AfterOk
<1>6. CASE Cleanup(c)
    BY <1>6 DEF Cleanup, RemoveAll, RemoveTree, ReturnOk, AfterOk
<1> QED BY <1>1, <1>2, <1>3, <1>4, <1>5, <1>6

\* The part of the invariant that does not speak of the loops.
LEMMA SteeringParts ==
  ASSUME NEW c \in Containers, SteeringInv(c)
  PROVE  StaysInv(c)
BY DEF SteeringInv, StaysInv

\* A container whose loop moves interrupts, or that wants them to stay where
\* it has moved them, is one that steers.
LEMMA SteeringSteers ==
  ASSUME NEW c \in Containers, SteeringInv(c), CreateInv(c), WalkInv(c),
         Held(c) \/ pc[c] \in Looping
  PROVE  Steers(c)
BY DEF SteeringInv, CreateInv, WalkInv, Steers, Known

\* Outside the loops what was steered stays so.
LEMMA CalmSteering ==
  ASSUME NEW c \in Containers, SteeringInv(c), Stays(c)
  PROVE  SteeringInv(c)'
<1>1. Held(c)' => SteeredBut(c, {})'
  BY DEF Stays, Calm, SteeringInv, SteeredBut
<1> QED BY <1>1 DEF Stays, StaysInv, Calm, SteeringInv

\* The loop of a create: what it has passed is where the container wants it.
LEMMA SteerSteering ==
  ASSUME NEW c \in Containers, SteeringWorks, FrontTypes, IrqTypes, VerbInv(c), WalkInv(c),
         SteeringInv(c), CreateInv(c),
         SteerBegin(c) \/ SteerRead(c) \/ SteerWrite(c) \/ SteerSave(c)
  PROVE  SteeringInv(c)' /\ CreateInv(c)' /\ (UNCHANGED affinity \/ Steers(c))
<1>0. /\ walk[c] \in Walks /\ pc \in [Containers -> Labels]
      /\ walk \in [Containers -> Walks] /\ files \in [Ids -> SUBSET FileNames]
      /\ affinity \in [Irqs -> AffinityLists]
      /\ IdOf[c] \in Ids
      /\ "irq_write" \notin Faults
  BY DEF IrqTypes, FrontTypes, SteeringWorks
<1>1. CASE SteerBegin(c)
  <2>1. /\ pc[c] = "steer" /\ verb[c] = "create"
        /\ UNCHANGED <<bundle, status, verb, crundir, files, runc, affinity>>
    BY <1>1 DEF SteerBegin, VerbInv
  <2>2. UsesRunphi(bundle[c]) /\ IdOf[c] \in crundir
    BY <2>1 DEF CreateInv
  <2>3. CASE pc' = [pc EXCEPT ![c] = "storeinfo"] /\ (SteerCpus(bundle[c]) = {} \/ Irqs = {})
    BY <1>0, <2>1, <2>2, <2>3 DEF SteeringInv, SteeredBut, Held, HasRecord, CreateInv,
       Steers, Known
  <2>4. CASE Goto(c, "steer_read") /\ walk' = [walk EXCEPT ![c].todo = Irqs]
    <3>1. walk'[c].todo = Irqs /\ pc'[c] = "steer_read"
      BY <1>0, <2>4 DEF Walks, Goto
    <3> QED BY <2>1, <2>2, <3>1 DEF SteeringInv, SteeredBut, Held, HasRecord, CreateInv,
               Steers, Known, VerbInv
  <2>5. CASE pc' = [pc EXCEPT ![c] = "err"]
    BY <1>0, <2>1, <2>2, <2>5 DEF SteeringInv, Held, HasRecord, CreateInv, Steers, Known,
       VerbInv
  <2> QED BY <1>1, <2>1, <2>3, <2>4, <2>5 DEF SteerBegin, ReturnOk, ReturnErr, AfterOk,
             AfterErr, Goto
<1>2. CASE SteerRead(c)
  <2>1. PICK q \in walk[c].todo, found0 \in BOOLEAN :
          walk' = [walk EXCEPT ![c].at = {q}, ![c].todo = @ \ {q},
                               ![c].map[q] = IF found0 THEN affinity[q] ELSE @]
    BY <1>2 DEF SteerRead
  <2>2. walk'[c].at = {q} /\ walk'[c].todo = walk[c].todo \ {q} /\ q \in Irqs
    BY <1>0, <2>1 DEF Walks
  <2>3. /\ pc[c] = "steer_read" /\ pc'[c] = "steer_write" /\ verb[c] = "create"
        /\ UNCHANGED <<bundle, status, verb, crundir, files, runc, affinity>>
    BY <1>0, <1>2 DEF SteerRead, Goto, VerbInv
  <2>4. SteeredBut(c, walk[c].todo)
    BY <2>3 DEF SteeringInv
  <2>5. SteeredBut(c, walk[c].todo \cup walk[c].at)'
    BY <2>2, <2>3, <2>4 DEF SteeredBut
  <2>6. ~Held(c)'
    BY <2>3 DEF Held, VerbInv
  <2> QED BY <2>2, <2>3, <2>5, <2>6 DEF SteeringInv, HasRecord, CreateInv, Steers, Known
<1>3. CASE SteerWrite(c)
  <2>1. PICK q \in walk[c].at : SetAffinity(q, SteerCpus(bundle[c]))
    BY <1>3 DEF SteerWrite
  <2>2. /\ pc[c] = "steer_write" /\ verb[c] = "create"
        /\ UNCHANGED <<bundle, status, verb, crundir, files, runc>>
        /\ pc'[c] = IF walk[c].todo = {} THEN "steer_save" ELSE "steer_read"
    BY <1>0, <1>3 DEF SteerWrite, Goto, VerbInv
  <2>3. walk[c].at = {q} /\ q \in Irqs /\ SteeredBut(c, walk[c].todo \cup {q})
    BY <2>1, <2>2 DEF SteeringInv
  <2>4. /\ \A p \in Irqs \ {q} : affinity'[p] = affinity[p]
        /\ affinity'[q] = IF q \in Fixed THEN affinity[q] ELSE SteerCpus(bundle[c])
    BY <1>0, <2>1, <2>3, SetAffinityWorks
  <2>5. walk'[c].todo = walk[c].todo
    BY <1>0, <1>3 DEF SteerWrite, Walks
  <2>6. SteeredBut(c, walk[c].todo)'
    BY <2>2, <2>3, <2>4, <2>5 DEF SteeredBut
  <2>7. SteerCpus(bundle[c]) # {}
    BY <2>2 DEF WalkInv
  <2>8. ~Held(c)'
    BY <2>2 DEF Held, VerbInv
  <2> QED BY <2>2, <2>5, <2>6, <2>7, <2>8 DEF SteeringInv, HasRecord, CreateInv, Steers,
             Known
<1>4. CASE SteerSave(c)
  <2>1. /\ pc[c] = "steer_save" /\ pc'[c] = "storeinfo" /\ verb[c] = "create"
        /\ UNCHANGED <<bundle, status, verb, crundir, runc, affinity>>
    BY <1>0, <1>4 DEF SteerSave, ReturnOk, AfterOk, Goto, VerbInv
  <2>2. SteerCpus(bundle[c]) # {} /\ SteeredBut(c, {})
    BY <2>1 DEF SteeringInv
  <2>3. UsesRunphi(bundle[c]) /\ IdOf[c] \in crundir
    BY <2>1 DEF CreateInv
  <2>4. Steers(c)' /\ SteeredBut(c, {})' /\ CreateInv(c)'
    BY <2>1, <2>2, <2>3 DEF Steers, Known, SteeredBut, CreateInv
  <2> QED BY <2>1, <2>3, <2>4 DEF SteeringInv
<1> QED BY <1>1, <1>2, <1>3, <1>4

\* The loop of a teardown moves interrupts only for a container that steers.
LEMMA RestoreSteering ==
  ASSUME NEW c \in Containers, SteeringWorks, FrontTypes, IrqTypes, VerbInv(c),
         SteeringInv(c), CreateInv(c),
         \/ RestoreBegin(c, "virsh_destroy") \/ RestoreWrite(c)
         \/ RestoreEnd(c, "virsh_destroy")
  PROVE  SteeringInv(c)' /\ CreateInv(c)' /\ (UNCHANGED affinity \/ Steers(c))
<1>0. /\ pc \in [Containers -> Labels] /\ files \in [Ids -> SUBSET FileNames]
      /\ IdOf[c] \in Ids
  BY DEF FrontTypes
<1> USE DEF SteeringInv, HasRecord, CreateInv, Held, Steers, Known, VerbInv, Goto
<1>1. CASE RestoreBegin(c, "virsh_destroy")
  BY <1>0, <1>1 DEF RestoreBegin
<1>2. CASE RestoreWrite(c)
  BY <1>0, <1>2 DEF RestoreWrite, feVars
<1>3. CASE RestoreEnd(c, "virsh_destroy")
  BY <1>0, <1>3 DEF RestoreEnd
<1> QED BY <1>1, <1>2, <1>3

\* Nobody else wants the interrupts when a container that steers moves them.
LEMMA KeptSteering ==
  ASSUME NEW c \in Containers, IdOfInjective, OneSteers, TypeInv, SteerInv, IrqAside(c),
         SteeringInv(c)', CreateInv(c)', UNCHANGED affinity \/ Steers(c)
  PROVE  SteerInv'
<1> SUFFICES ASSUME NEW d \in Containers, d # c PROVE SteeringInv(d)' /\ CreateInv(d)'
  BY DEF SteerInv
<1>1. /\ SteeringInv(d) /\ CreateInv(d) /\ WalkInv(d)
  BY DEF SteerInv, TypeInv, FlowInv
<1>2. /\ pc'[d] = pc[d] /\ verb'[d] = verb[d] /\ status'[d] = status[d]
      /\ bundle'[d] = bundle[d] /\ (d \in runc' <=> d \in runc)
      /\ (IdOf[d] \in crundir' <=> IdOf[d] \in crundir) /\ files'[IdOf[d]] = files[IdOf[d]]
      /\ walk'[d] = walk[d]
  BY DEF IrqAside, Aside, Alone
<1>3. /\ CreateInv(d)' /\ (HasRecord(d)' <=> HasRecord(d)) /\ (Held(d)' <=> Held(d))
      /\ Steers(d)' <=> Steers(d)
  BY <1>1, <1>2 DEF CreateInv, HasRecord, Held, Steers, Known
<1>4. CASE Held(d) \/ pc[d] \in Looping
  <2>1. Steers(d)
    BY <1>1, <1>4, SteeringSteers
  <2>2. UNCHANGED affinity
    BY <2>1 DEF OneSteers
  <2>3. \A S : SteeredBut(d, S) =>
          \A q \in Irqs \ (Fixed \cup S) : affinity'[q] = SteerCpus(bundle'[d])
    BY <1>2, <2>2 DEF SteeredBut
  <2> QED BY <1>1, <1>2, <1>3, <2>3 DEF SteeringInv, SteeredBut
<1>5. CASE ~(Held(d) \/ pc[d] \in Looping)
  BY <1>1, <1>2, <1>3, <1>5 DEF SteeringInv
<1> QED BY <1>3, <1>4, <1>5

\* A step of a container, in the loops or outside them.
LEMMA ContainerSteering ==
  ASSUME NEW c \in Containers, IdOfInjective, SteeringWorks, OneSteers, TypeInv,
         LifecycleInv, SteerInv,
         \/ (Invoke(c) \/ Front(c)) /\ UNCHANGED backVars
         \/ CreateStep(c) \/ TeardownStep(c) \/ Crash(c)
  PROVE  SteerInv'
<1>1. /\ FrontTypes /\ VolumeTypes /\ IrqTypes /\ DomTypes /\ VerbInv(c) /\ WalkInv(c)
      /\ SteeringInv(c) /\ StaysInv(c) /\ CreateInv(c) /\ DirInv(c)
  BY TypeParts, SteeringParts DEF VerbsInv, SteerInv, LifecycleInv
<1>2. ASSUME Aside(c), Stays(c) PROVE SteerInv'
  <2>1. IrqAside(c) /\ UNCHANGED affinity /\ CreateInv(c)'
    BY <1>2 DEF IrqAside, Stays, Calm
  <2> QED BY <1>1, <1>2, <2>1, CalmSteering, KeptSteering
<1>3. CASE (Invoke(c) \/ Front(c)) /\ UNCHANGED backVars
  BY <1>1, <1>2, <1>3, FrontStays, FrontAside DEF Front, backVars
<1>4. CASE CreateStep(c)
  <2>1. CASE ProvisionLvmRoot(c)
    BY <1>1, <1>2, <2>1, PopulateStays, PopulateAside DEF ProvisionLvmRoot, Populate
  <2>2. CASE Steer(c)
    BY <1>1, <2>2, SteerSteering, LoopIrqAside, KeptSteering DEF Steer, ApplyIrqSteering
  <2> QED BY <1>1, <1>2, <1>4, <2>1, <2>2, CreateStays, CreateAside DEF CreateStep
<1>5. CASE TeardownStep(c)
  <2>1. CASE RestoreIrqs(c)
    BY <1>1, <2>1, RestoreSteering, LoopIrqAside, KeptSteering
       DEF RestoreIrqs, RestoreIrqSteering
  <2> QED BY <1>1, <1>2, <1>5, <2>1, TeardownStays, TeardownAside, RemoveCgroupAside
          DEF TeardownStep
<1>6. ~Crash(c)
  BY DEF Crash, CrashFrontend, SteeringWorks, GuestsEnd
<1> QED BY <1>3, <1>4, <1>5, <1>6

\* Every step, also one of QEMU or of the machine.
LEMMA NextSteering ==
  ASSUME IdOfInjective, SteeringWorks
  PROVE  TypeInv /\ LifecycleInv /\ OneSteers /\ SteerInv /\ [Next]_vars => SteerInv'
<1> SUFFICES ASSUME TypeInv, LifecycleInv, OneSteers, SteerInv, [Next]_vars PROVE SteerInv'
  OBVIOUS
<1> USE DEF SteerInv, SteeringInv, SteeredBut, Held, CreateInv, HasRecord, Steers, Known
<1>1. CASE UNCHANGED vars
  BY <1>1 DEF vars, feVars, backVars, irqVars
<1>2. ASSUME NEW i \in Ids, QemuExits(i) PROVE SteerInv'
  BY <1>2 DEF QemuExits, feVars, irqVars
<1>3. CASE Reboot
  BY <1>3 DEF Reboot, RebootFrontend
<1> QED BY <1>1, <1>2, <1>3, ContainerSteering DEF Next

\* Where the one container that steers wants the interrupts, there they are,
\* from the end of its loop on.
LEMMA AffinitiesSteered ==
  ASSUME IdOfInjective, SteeringWorks
  PROVE  Spec /\ []OneSteers => []SteerInv
<1>1. Init => SteerInv
  BY DEF Init, FrontInit, SteerInv, SteeringInv, Held, CreateInv, HasRecord
<1>2. TypeInv /\ LifecycleInv /\ OneSteers /\ SteerInv /\ [Next]_vars => SteerInv'
  BY NextSteering
<1>3. Spec => []LifecycleInv
  BY Lifecycle DEF SteeringWorks
<1> QED BY <1>1, <1>2, <1>3, TypeInvariant, PTL DEF Spec

\* With one container that steers at a time, all interrupts that can be moved
\* are where it wants them while its guest runs, whatever QEMU, pgrep, the
\* cgroups, the volumes, reads and records of affinities or the machine do.
THEOREM InterruptsSteered ==
  ASSUME IdOfInjective, SteeringWorks
  PROVE  Spec /\ []OneSteers => []IrqsSteered
<1>1. TypeInv /\ LifecycleInv /\ SteerInv => IrqsSteered
  <2> SUFFICES ASSUME TypeInv, LifecycleInv, SteerInv, NEW c \in Containers,
                      status[c] = "started", pc[c] = "idle", IdOf[c] \in Live,
                      SteerCpus(bundle[c]) # {}
               PROVE  \A q \in Irqs \ Fixed : affinity[q] = SteerCpus(bundle[c])
    BY DEF IrqsSteered
  <2>1. c \notin runc /\ verb[c] = "none"
    BY DEF LifecycleInv, DirInv, TypeInv, FlowInv, VerbInv
  <2>2. Held(c)
    BY <2>1 DEF Held
  <2> QED BY <2>2 DEF SteerInv, SteeringInv, SteeredBut
<1>2. Spec => []LifecycleInv
  BY Lifecycle DEF SteeringWorks
<1> QED BY <1>1, <1>2, TypeInvariant, AffinitiesSteered, PTL
=============================================================================
