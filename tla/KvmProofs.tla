----------------------------- MODULE KvmProofs -----------------------------
(***************************************************************************)
(* Proofs about Kvm, for any containers, bundles, interrupts and number of *)
(* concurrent commands, and with every fault, crash and reboot: the        *)
(* variables keep their types and each command goes only through its own   *)
(* labels (TypeInvariant, where nothing is assumed of the names of         *)
(* containers); no guest runs outside a cgroup with limits, and none that  *)
(* the engine takes for created is without a watcher (Confinement).        *)
(*                                                                         *)
(* TypeInv is inductive.  It is taken apart: what the frontend keeps needs *)
(* VerbInv, and the affinities need WalkInv, as only a list that is not    *)
(* empty may be written to an interrupt; volumes and domains need neither. *)
(*                                                                         *)
(* ConfineInv is inductive as long as runc is given no bundle of a name    *)
(* that has a domain (RuncHasNoGuest).  A step of the process of c is one  *)
(* of three kinds.  It asks nothing new of the domain of c and leaves all  *)
(* domains alone (Eases); or it ends some domains (Quit), which spares the *)
(* others; or it is one of the few on the way from virsh create to the     *)
(* watcher, which establish in turn what the next one needs.  No step of c *)
(* harms the domain of another container (Spared).                         *)
(***************************************************************************)
EXTENDS KvmInv, TLAPS

TypeInv == TypeOK /\ FlowInv

\* The parts of TypeOK.
FrontTypes ==
  /\ bundle \in [Containers -> Bundles \cup {NoBundle}]
  /\ status \in [Containers -> Statuses]
  /\ verb \in [Containers -> Verbs \cup {"none"}]
  /\ pc \in [Containers -> Labels]
  /\ crundir \in SUBSET Ids
  /\ files \in [Ids -> SUBSET FileNames]
  /\ runc \in SUBSET Containers

VolumeTypes == lv \in [Ids -> VolumeStates] /\ mounted \in SUBSET Ids

Walks == [todo : SUBSET Irqs, at : SUBSET Irqs, map : [Irqs -> SUBSET Cpus]]

IrqTypes ==
  /\ affinity \in [Irqs -> AffinityLists]
  /\ saved \in [Ids -> [Irqs -> SUBSET Cpus]]
  /\ walk \in [Containers -> Walks]

DomTypes ==
  /\ dom \in [Ids -> DomStates]
  /\ attached \in SUBSET Ids
  /\ cgroups \in SUBSET CgroupIds
  /\ limited \in SUBSET CgroupIds
  /\ member \in [Ids -> SUBSET CgroupIds]
  /\ found \in [Containers -> SUBSET Ids]
  /\ watching \in [Containers -> SUBSET Ids]

VerbsInv == \A c \in Containers : VerbInv(c)

\* The sets of labels and of values are enumerations: always expanded.
USE DEF Before, Provisioning, Confining, Storing, Watched, Creating, Stopping,
        Removing, Labels, FrontLabels, VolumeLabels, SteerLabels, RestoreLabels,
        KvmLabels, Verbs, Statuses, FileNames, DomStates, VolumeStates

USE IdOfAssumption

LEMMA TypeParts ==
  TypeInv <=> /\ FrontTypes /\ VolumeTypes /\ IrqTypes /\ DomTypes
              /\ VerbsInv /\ \A c \in Containers : WalkInv(c)
  BY DEF TypeInv, TypeOK, FlowInv, FrontTypes, VolumeTypes, IrqTypes, DomTypes,
     VerbsInv, Walks

LEMMA TypePartsNext ==
  ASSUME FrontTypes', VolumeTypes', IrqTypes', DomTypes', VerbsInv',
         \A c \in Containers : WalkInv(c)'
  PROVE  TypeInv'
  BY DEF TypeInv, TypeOK, FlowInv, FrontTypes, VolumeTypes, IrqTypes, DomTypes,
     VerbsInv, Walks

-----------------------------------------------------------------------------
(* The frontend: its variables, and which command is at which label.       *)

LEMMA FrontFlow ==
  ASSUME NEW c \in Containers, FrontTypes, VerbsInv,
         Invoke(c) \/ Exit(c) \/ DecideCreate(c) \/ DecideExisting(c) \/
           MakeDir(c) \/ State(c)
  PROVE  FrontTypes' /\ VerbsInv'
<1> USE DEF FrontTypes, VerbsInv, VerbInv, Goto
<1>1. CASE Invoke(c)
    BY <1>1 DEF Invoke, Allowed
<1>2. CASE Exit(c)
    BY <1>2 DEF Exit
<1>3. CASE DecideCreate(c)
    BY <1>3 DEF DecideCreate
<1>4. CASE DecideExisting(c)
    BY <1>4 DEF DecideExisting, RuncExisting, FirstCall
<1>5. CASE MakeDir(c)
    BY <1>5 DEF MakeDir
<1>6. CASE State(c)
    BY <1>6 DEF State
<1> QED BY <1>1, <1>2, <1>3, <1>4, <1>5, <1>6

LEMMA CreateFlow ==
  ASSUME NEW c \in Containers, FrontTypes, VerbsInv,
         ClearStaleDir(c) \/ GenerateConfig(c) \/ CreateVolume(c) \/
           ProvisionLvmRoot(c) \/ CreateDomain(c) \/ FindPid(c) \/
           StoreCgroupPath(c) \/ JoinCgroup(c) \/ LimitCgroup(c) \/
           Rollback(c) \/ SpawnWatcher(c) \/ StoreInfo(c) \/ StartGuest(c)
  PROVE  FrontTypes' /\ VerbsInv'
<1> USE DEF FrontTypes, VerbsInv, VerbInv, Goto
<1>1. CASE ClearStaleDir(c)
    BY <1>1 DEF ClearStaleDir, RemoveAll, RemoveTree
<1>2. CASE GenerateConfig(c)
    BY <1>2 DEF GenerateConfig, Put, ReturnOk, AfterOk, ReturnErr, AfterErr
<1>3. CASE CreateVolume(c)
    BY <1>3 DEF CreateVolume, Provision, ReturnErr, AfterErr
<1>4. CASE ProvisionLvmRoot(c)
    BY <1>4 DEF ProvisionLvmRoot, Populate, MountVolume, CopyRootfs, UmountVolume,
     UndoMount, UndoVolume, Provision, ReturnErr, AfterErr
<1>5. CASE CreateDomain(c)
    BY <1>5 DEF CreateDomain, ReturnErr, AfterErr
<1>6. CASE FindPid(c)
    BY <1>6 DEF FindPid, ReturnErr, AfterErr
<1>7. CASE StoreCgroupPath(c)
    BY <1>7 DEF StoreCgroupPath
<1>8. CASE JoinCgroup(c)
    BY <1>8 DEF JoinCgroup
<1>9. CASE LimitCgroup(c)
    BY <1>9 DEF LimitCgroup
<1>10. CASE Rollback(c)
    BY <1>10 DEF Rollback, ReturnErr, AfterErr
<1>11. CASE SpawnWatcher(c)
    BY <1>11 DEF SpawnWatcher, ReturnErr, AfterErr
<1>12. CASE StoreInfo(c)
    BY <1>12 DEF StoreInfo, Store, Put, ReturnOk, AfterOk
<1>13. CASE StartGuest(c)
    BY <1>13 DEF StartGuest, SetDomain, ReturnOk, AfterOk, ReturnErr, AfterErr
<1> QED BY <1>1, <1>2, <1>3, <1>4, <1>5, <1>6, <1>7, <1>8, <1>9, <1>10, <1>11, <1>12,
     <1>13

LEMMA LoopFlow ==
  ASSUME NEW c \in Containers, FrontTypes, VerbsInv,
         SteerBegin(c) \/ SteerRead(c) \/ SteerWrite(c) \/ SteerSave(c) \/
           RestoreBegin(c, "virsh_destroy") \/ RestoreWrite(c) \/
           RestoreEnd(c, "virsh_destroy")
  PROVE  FrontTypes' /\ VerbsInv'
<1> USE DEF FrontTypes, VerbsInv, VerbInv, Goto
<1>1. CASE SteerBegin(c)
    BY <1>1 DEF SteerBegin, ReturnOk, AfterOk, ReturnErr, AfterErr
<1>2. CASE SteerRead(c)
    <2>1. /\ pc[c] = "steer_read" /\ pc' = [pc EXCEPT ![c] = "steer_write"]
        /\ UNCHANGED <<bundle, status, verb, crundir, files, runc>>
    BY <1>2 DEF SteerRead
  <2> QED BY <2>1
<1>3. CASE SteerWrite(c)
    BY <1>3 DEF SteerWrite
<1>4. CASE SteerSave(c)
    BY <1>4 DEF SteerSave, ReturnOk, AfterOk
<1>5. CASE RestoreBegin(c, "virsh_destroy")
    BY <1>5 DEF RestoreBegin
<1>6. CASE RestoreWrite(c)
    BY <1>6 DEF RestoreWrite, feVars
<1>7. CASE RestoreEnd(c, "virsh_destroy")
    BY <1>7 DEF RestoreEnd
<1> QED BY <1>1, <1>2, <1>3, <1>4, <1>5, <1>6, <1>7

LEMMA TeardownFlow ==
  ASSUME NEW c \in Containers, FrontTypes, VerbsInv,
         StopGuest(c) \/ DestroyDomain(c) \/ TakeVolume(c) \/
           RemoveCgroup(c) \/ RemoveRunDir(c) \/ Cleanup(c) \/ Crash(c)
  PROVE  FrontTypes' /\ VerbsInv'
<1> USE DEF FrontTypes, VerbsInv, VerbInv, Goto
<1>1. CASE StopGuest(c)
    BY <1>1 DEF StopGuest, SetDomain, ReturnOk, AfterOk, ReturnErr, AfterErr
<1>2. CASE DestroyDomain(c)
    BY <1>2 DEF DestroyDomain, ReturnErr, AfterErr
<1>3. CASE TakeVolume(c)
    BY <1>3 DEF TakeVolume, RemoveVolume
<1>4. CASE RemoveCgroup(c)
    BY <1>4 DEF RemoveCgroup
<1>5. CASE RemoveRunDir(c)
    BY <1>5 DEF RemoveRunDir, RemoveAll, RemoveTree, ReturnOk, AfterOk
<1>6. CASE Cleanup(c)
    BY <1>6 DEF Cleanup, RemoveAll, RemoveTree, ReturnOk, AfterOk
<1>7. CASE Crash(c)
    BY <1>7 DEF Crash, CrashFrontend
<1> QED BY <1>1, <1>2, <1>3, <1>4, <1>5, <1>6, <1>7

-----------------------------------------------------------------------------
(* The loops over the interrupts.                                          *)

LEMMA NoWalkTyped == NoEntries \in [Irqs -> SUBSET Cpus] /\ NoWalk \in Walks
  BY DEF NoEntries, NoWalk, Walks

\* What the loops do to their records keeps them records.
LEMMA WalkTodo ==
  ASSUME NEW w \in Walks, NEW todo \in SUBSET Irqs
  PROVE  [w EXCEPT !.todo = todo] \in Walks
  BY DEF Walks

LEMMA WalkAt ==
  ASSUME NEW w \in Walks
  PROVE  [w EXCEPT !.at = {}] \in Walks
  BY DEF Walks

LEMMA WalkRead ==
  ASSUME NEW w \in Walks, NEW q \in w.todo, NEW list \in SUBSET Cpus
  PROVE  [w EXCEPT !.at = {q}, !.todo = @ \ {q}, !.map[q] = list] \in Walks
  BY DEF Walks

LEMMA WalkLoad ==
  ASSUME NEW w \in Walks, NEW todo \in SUBSET Irqs, NEW map \in [Irqs -> SUBSET Cpus]
  PROVE  [w EXCEPT !.todo = todo, !.map = map] \in Walks
  BY DEF Walks

\* A step of the loop of c is a step of its record.
LEMMA OneWalks ==
  ASSUME NEW c \in Containers, IrqTypes, NEW w \in Walks,
         walk' = [walk EXCEPT ![c] = w]
  PROVE  walk' \in [Containers -> Walks]
  BY DEF IrqTypes

\* An interrupt is only ever given a list that is not empty.
LEMMA SetAffinityTyped ==
  ASSUME affinity \in [Irqs -> AffinityLists], NEW q \in Irqs,
         NEW list \in AffinityLists, SetAffinity(q, list)
  PROVE  affinity' \in [Irqs -> AffinityLists]
  BY DEF SetAffinity

LEMMA SteerTyped ==
  ASSUME NEW c \in Containers, FrontTypes, IrqTypes, VerbInv(c), WalkInv(c),
         SteerBegin(c) \/ SteerRead(c) \/ SteerWrite(c) \/ SteerSave(c)
  PROVE  IrqTypes' /\ WalkInv(c)'
<1>0. walk[c] \in Walks /\ pc \in [Containers -> Labels]
  BY DEF IrqTypes, FrontTypes
<1>1. CASE SteerBegin(c)
  <2>1. walk' \in [Containers -> Walks]
    BY <1>0, <1>1, WalkTodo, OneWalks DEF SteerBegin, IrqTypes
  <2>2. WalkInv(c)'
    BY <1>0, <1>1 DEF SteerBegin, WalkInv, Goto, ReturnOk, ReturnErr, AfterOk, AfterErr
  <2> QED BY <1>1, <2>1, <2>2 DEF SteerBegin, IrqTypes
<1>2. CASE SteerRead(c)
  <2>1. PICK q \in walk[c].todo, f \in BOOLEAN :
          walk' = [walk EXCEPT ![c].at = {q}, ![c].todo = @ \ {q},
                               ![c].map[q] = IF f THEN affinity[q] ELSE @]
    BY <1>2 DEF SteerRead
  <2> DEFINE list == IF f THEN affinity[q] ELSE walk[c].map[q]
  <2>3. list \in SUBSET Cpus
    BY <1>0, <2>1 DEF Walks, IrqTypes, AffinityLists
  <2>4. walk' \in [Containers -> Walks]
    <3>1. [walk[c] EXCEPT !.at = {q}, !.todo = @ \ {q}, !.map[q] = list] \in Walks
      BY <1>0, <2>1, <2>3, WalkRead
    <3>2. walk' = [walk EXCEPT ![c] =
                     [walk[c] EXCEPT !.at = {q}, !.todo = @ \ {q}, !.map[q] = list]]
      BY <2>1
    <3> HIDE DEF list
    <3> QED BY <3>1, <3>2, OneWalks
  <2>5. WalkInv(c)'
    BY <1>0, <1>2 DEF SteerRead, WalkInv, Goto
  <2> QED BY <1>2, <2>4, <2>5 DEF SteerRead, IrqTypes
<1>3. CASE SteerWrite(c)
  <2>1. walk' \in [Containers -> Walks]
    BY <1>0, <1>3, WalkAt, OneWalks DEF SteerWrite
  <2>2. SteerCpus(bundle[c]) \in AffinityLists
    <3>1. bundle[c] \in Bundles /\ SteerCpus(bundle[c]) # {}
      BY <1>3 DEF SteerWrite, VerbInv, WalkInv
    <3>2. bundle[c].steer \subseteq Cpus /\ bundle[c].ociSteer \subseteq Cpus
      BY <3>1, SteerAssumption
    <3>3. SteerCpus(bundle[c]) \subseteq Cpus
      BY <3>2 DEF SteerCpus
    <3> QED BY <3>1, <3>3 DEF AffinityLists
  <2>3. PICK q \in walk[c].at : SetAffinity(q, SteerCpus(bundle[c]))
    BY <1>3 DEF SteerWrite
  <2>4. q \in Irqs
    BY <1>0, <2>3 DEF Walks
  <2>5. affinity' \in [Irqs -> AffinityLists]
    BY <2>2, <2>3, <2>4, SetAffinityTyped DEF IrqTypes
  <2>6. WalkInv(c)'
    BY <1>0, <1>3 DEF SteerWrite, WalkInv, Goto
  <2> QED BY <1>3, <2>1, <2>5, <2>6 DEF SteerWrite, IrqTypes
<1>4. CASE SteerSave(c)
  <2>1. walk' \in [Containers -> Walks]
    BY <1>4, NoWalkTyped, OneWalks DEF SteerSave
  <2>2. walk[c].map \in [Irqs -> SUBSET Cpus]
    BY <1>0 DEF Walks
  <2>3. saved' \in [Ids -> [Irqs -> SUBSET Cpus]]
    BY <1>4, <2>2 DEF SteerSave, IrqTypes
  <2>4. WalkInv(c)'
    BY <1>0, <1>4 DEF SteerSave, WalkInv, Goto, ReturnOk, AfterOk, VerbInv
  <2> QED BY <1>4, <2>1, <2>3, <2>4 DEF SteerSave, IrqTypes
<1> QED BY <1>1, <1>2, <1>3, <1>4

LEMMA RestoreTyped ==
  ASSUME NEW c \in Containers, FrontTypes, IrqTypes, VerbInv(c), WalkInv(c),
         \/ RestoreBegin(c, "virsh_destroy") \/ RestoreWrite(c)
         \/ RestoreEnd(c, "virsh_destroy")
  PROVE  IrqTypes' /\ WalkInv(c)'
<1>0. walk[c] \in Walks /\ pc \in [Containers -> Labels] /\ IdOf[c] \in Ids
  BY DEF IrqTypes, FrontTypes
<1>1. CASE RestoreBegin(c, "virsh_destroy")
  <2>1. CASE pc' = [pc EXCEPT ![c] = "restoring"] /\ UNCHANGED <<affinity, saved>> /\
             walk' = [walk EXCEPT
               ![c].todo = {q \in Irqs : saved[IdOf[c]][q] # {}}, ![c].map = saved[IdOf[c]]]
    <3> DEFINE map == saved[IdOf[c]]
               todo == {q \in Irqs : map[q] # {}}
               w == [walk[c] EXCEPT !.todo = todo, !.map = map]
    <3>1. map \in [Irqs -> SUBSET Cpus] /\ todo \in SUBSET Irqs
      BY <1>0 DEF IrqTypes
    <3>2. w \in Walks
      BY <1>0, <3>1, WalkLoad
    <3>3. walk' = [walk EXCEPT ![c] = w]
      BY <2>1
    <3>4. walk' \in [Containers -> Walks] /\ walk'[c] = w
      BY <3>2, <3>3, OneWalks DEF IrqTypes
    <3>5. w.todo = todo /\ w.map = map
      BY <1>0 DEF Walks
    <3>6. WalkInv(c)'
      BY <1>0, <2>1, <3>4, <3>5 DEF WalkInv
    <3> QED BY <2>1, <3>4, <3>6 DEF IrqTypes
  <2>2. CASE Goto(c, "virsh_destroy") /\ UNCHANGED irqVars
    BY <1>0, <2>2 DEF Goto, irqVars, IrqTypes, WalkInv
  <2> QED BY <1>1, <2>1, <2>2 DEF RestoreBegin, Goto, irqVars
<1>2. CASE RestoreWrite(c)
  <2>1. PICK q \in walk[c].todo :
          /\ SetAffinity(q, walk[c].map[q])
          /\ walk' = [walk EXCEPT ![c].todo = @ \ {q}]
    BY <1>2 DEF RestoreWrite
  <2> DEFINE w == [walk[c] EXCEPT !.todo = walk[c].todo \ {q}]
  <2>2. q \in Irqs /\ walk[c].todo \ {q} \in SUBSET Irqs
    BY <1>0, <2>1 DEF Walks
  <2>3. walk[c].map[q] \in AffinityLists
    <3>1. walk[c].map[q] # {}
      BY <1>2, <2>1 DEF RestoreWrite, WalkInv
    <3>2. walk[c].map[q] \in SUBSET Cpus
      BY <1>0, <2>2 DEF Walks
    <3> QED BY <3>1, <3>2 DEF AffinityLists
  <2>4. w \in Walks
    BY <1>0, <2>2, WalkTodo
  <2>5. walk' = [walk EXCEPT ![c] = w]
    BY <2>1
  <2>6. walk' \in [Containers -> Walks] /\ walk'[c] = w
    BY <2>4, <2>5, OneWalks DEF IrqTypes
  <2>7. affinity' \in [Irqs -> AffinityLists]
    BY <2>1, <2>2, <2>3, SetAffinityTyped DEF IrqTypes
  <2>8. w.todo \subseteq walk[c].todo /\ w.map = walk[c].map
    BY <1>0 DEF Walks
  <2>9. WalkInv(c)'
    BY <1>2, <2>6, <2>8 DEF RestoreWrite, feVars, WalkInv
  <2> QED BY <1>2, <2>6, <2>7, <2>9 DEF RestoreWrite, IrqTypes
<1>3. CASE RestoreEnd(c, "virsh_destroy")
  <2>1. walk' \in [Containers -> Walks]
    BY <1>3, NoWalkTyped, OneWalks DEF RestoreEnd
  <2>2. saved' \in [Ids -> [Irqs -> SUBSET Cpus]]
    BY <1>3, NoWalkTyped DEF RestoreEnd, IrqTypes
  <2>3. WalkInv(c)'
    BY <1>0, <1>3 DEF RestoreEnd, WalkInv, Goto
  <2> QED BY <1>3, <2>1, <2>2, <2>3 DEF RestoreEnd, IrqTypes
<1> QED BY <1>1, <1>2, <1>3

\* No container gets to, or goes on in, a loop over the interrupts.
NoLoop ==
  \A d \in Containers : pc'[d] \in {"steer_read", "steer_write", "restoring"} =>
    pc'[d] = pc[d] /\ bundle'[d] = bundle[d] /\ walk'[d] = walk[d]

LEMMA NoLoopKeeps ==
  ASSUME NoLoop, \A d \in Containers : WalkInv(d)
  PROVE  \A d \in Containers : WalkInv(d)'
  BY DEF NoLoop, WalkInv

LEMMA FrontCalm ==
  ASSUME NEW c \in Containers, FrontTypes, IrqTypes, VerbsInv, UNCHANGED irqVars,
         Invoke(c) \/ Exit(c) \/ DecideCreate(c) \/ DecideExisting(c) \/
           MakeDir(c) \/ State(c)
  PROVE  IrqTypes' /\ NoLoop
<1> USE DEF FrontTypes, IrqTypes, VerbsInv, VerbInv, NoLoop, Goto, irqVars
<1>1. CASE Invoke(c)
    BY <1>1 DEF Invoke, Allowed
<1>2. CASE Exit(c)
    BY <1>2 DEF Exit
<1>3. CASE DecideCreate(c)
    BY <1>3 DEF DecideCreate
<1>4. CASE DecideExisting(c)
    BY <1>4 DEF DecideExisting, RuncExisting, FirstCall
<1>5. CASE MakeDir(c)
    BY <1>5 DEF MakeDir
<1>6. CASE State(c)
    BY <1>6 DEF State
<1> QED BY <1>1, <1>2, <1>3, <1>4, <1>5, <1>6

LEMMA CreateCalm ==
  ASSUME NEW c \in Containers, FrontTypes, IrqTypes, VerbsInv,
         ClearStaleDir(c) \/ GenerateConfig(c) \/ CreateVolume(c) \/
           ProvisionLvmRoot(c) \/ CreateDomain(c) \/ FindPid(c) \/
           StoreCgroupPath(c) \/ JoinCgroup(c) \/ LimitCgroup(c) \/
           Rollback(c) \/ SpawnWatcher(c) \/ StoreInfo(c) \/ StartGuest(c)
  PROVE  IrqTypes' /\ NoLoop
<1> USE DEF FrontTypes, IrqTypes, VerbsInv, VerbInv, NoLoop, Goto
<1>1. CASE ClearStaleDir(c)
    BY <1>1, NoWalkTyped DEF ClearStaleDir, RemoveAll, RemoveTree
<1>2. CASE GenerateConfig(c)
    BY <1>2 DEF GenerateConfig, Put, ReturnOk, AfterOk, ReturnErr, AfterErr, irqVars,
     backVars
<1>3. CASE CreateVolume(c)
    BY <1>3 DEF CreateVolume, Provision, ReturnErr, AfterErr, irqVars
<1>4. CASE ProvisionLvmRoot(c)
    BY <1>4 DEF ProvisionLvmRoot, Populate, MountVolume, CopyRootfs, UmountVolume,
     UndoMount, UndoVolume, Provision, ReturnErr, AfterErr, irqVars
<1>5. CASE CreateDomain(c)
    BY <1>5 DEF CreateDomain, ReturnErr, AfterErr, irqVars
<1>6. CASE FindPid(c)
    BY <1>6 DEF FindPid, ReturnErr, AfterErr, irqVars
<1>7. CASE StoreCgroupPath(c)
    BY <1>7 DEF StoreCgroupPath, irqVars, backVars
<1>8. CASE JoinCgroup(c)
    BY <1>8 DEF JoinCgroup, irqVars
<1>9. CASE LimitCgroup(c)
    BY <1>9 DEF LimitCgroup, irqVars
<1>10. CASE Rollback(c)
    BY <1>10 DEF Rollback, ReturnErr, AfterErr, irqVars
<1>11. CASE SpawnWatcher(c)
    BY <1>11 DEF SpawnWatcher, ReturnErr, AfterErr, irqVars
<1>12. CASE StoreInfo(c)
    BY <1>12 DEF StoreInfo, Store, Put, ReturnOk, AfterOk, irqVars, backVars
<1>13. CASE StartGuest(c)
    BY <1>13 DEF StartGuest, SetDomain, ReturnOk, AfterOk, ReturnErr, AfterErr,
     irqVars
<1> QED BY <1>1, <1>2, <1>3, <1>4, <1>5, <1>6, <1>7, <1>8, <1>9, <1>10, <1>11, <1>12,
     <1>13

LEMMA TeardownCalm ==
  ASSUME NEW c \in Containers, FrontTypes, IrqTypes, VerbsInv,
         StopGuest(c) \/ DestroyDomain(c) \/ TakeVolume(c) \/
           RemoveCgroup(c) \/ RemoveRunDir(c) \/ Cleanup(c) \/ Crash(c)
  PROVE  IrqTypes' /\ NoLoop
<1> USE DEF FrontTypes, IrqTypes, VerbsInv, VerbInv, NoLoop, Goto
<1>1. CASE StopGuest(c)
    BY <1>1 DEF StopGuest, SetDomain, ReturnOk, AfterOk, ReturnErr, AfterErr, irqVars
<1>2. CASE DestroyDomain(c)
    BY <1>2 DEF DestroyDomain, ReturnErr, AfterErr, irqVars
<1>3. CASE TakeVolume(c)
    BY <1>3 DEF TakeVolume, RemoveVolume, irqVars
<1>4. CASE RemoveCgroup(c)
    BY <1>4 DEF RemoveCgroup, irqVars
<1>5. CASE RemoveRunDir(c)
    BY <1>5, NoWalkTyped DEF RemoveRunDir, RemoveAll, RemoveTree, ReturnOk, AfterOk
<1>6. CASE Cleanup(c)
    BY <1>6, NoWalkTyped DEF Cleanup, RemoveAll, RemoveTree, ReturnOk, AfterOk
<1>7. CASE Crash(c)
    BY <1>7, NoWalkTyped DEF Crash, CrashFrontend
<1> QED BY <1>1, <1>2, <1>3, <1>4, <1>5, <1>6, <1>7

\* A step of a loop leaves the other containers alone.
LEMMA LoopAlone ==
  ASSUME NEW c \in Containers, FrontTypes, IrqTypes,
         SteerBegin(c) \/ SteerRead(c) \/ SteerWrite(c) \/ SteerSave(c)
           \/ RestoreBegin(c, "virsh_destroy") \/ RestoreWrite(c)
           \/ RestoreEnd(c, "virsh_destroy"),
         NEW d \in Containers, d # c
  PROVE  pc'[d] = pc[d] /\ bundle'[d] = bundle[d] /\ walk'[d] = walk[d]
  BY DEF FrontTypes, IrqTypes, Goto, ReturnOk, ReturnErr, SteerBegin, SteerRead,
     SteerWrite, SteerSave, RestoreBegin, RestoreWrite, RestoreEnd, feVars

LEMMA LoopKeeps ==
  ASSUME NEW c \in Containers, FrontTypes, IrqTypes, VerbsInv,
         \A d \in Containers : WalkInv(d),
         SteerBegin(c) \/ SteerRead(c) \/ SteerWrite(c) \/ SteerSave(c)
           \/ RestoreBegin(c, "virsh_destroy") \/ RestoreWrite(c)
           \/ RestoreEnd(c, "virsh_destroy")
  PROVE  IrqTypes' /\ \A d \in Containers : WalkInv(d)'
<1>1. IrqTypes' /\ WalkInv(c)'
  BY SteerTyped, RestoreTyped DEF VerbsInv
<1>2. ASSUME NEW d \in Containers, d # c PROVE WalkInv(d)'
  BY <1>2, LoopAlone DEF WalkInv
<1> QED BY <1>1, <1>2

-----------------------------------------------------------------------------
(* Volumes and domains.                                                    *)

LEMMA VolumesTyped ==
  ASSUME NEW c \in Containers, VolumeTypes,
         ClearStaleDir(c) \/ GenerateConfig(c) \/ CreateVolume(c) \/
           ProvisionLvmRoot(c) \/ CreateDomain(c) \/ FindPid(c) \/
           StoreCgroupPath(c) \/ JoinCgroup(c) \/ LimitCgroup(c) \/
           Rollback(c) \/ SpawnWatcher(c) \/ StoreInfo(c) \/ StartGuest(c)
           \/ Steer(c) \/ StopGuest(c) \/ RestoreIrqs(c) \/ DestroyDomain(c)
           \/ TakeVolume(c) \/ RemoveCgroup(c) \/ RemoveRunDir(c) \/
           Cleanup(c) \/ Crash(c)
  PROVE  VolumeTypes'
<1> USE DEF VolumeTypes, volVars
<1>1. CASE ClearStaleDir(c)
    BY <1>1 DEF ClearStaleDir, RemoveAll, RemoveTree
<1>2. CASE GenerateConfig(c)
    BY <1>2 DEF GenerateConfig, backVars
<1>3. CASE CreateVolume(c)
    BY <1>3 DEF CreateVolume
<1>4. CASE ProvisionLvmRoot(c)
    BY <1>4 DEF ProvisionLvmRoot, Populate, MountVolume, CopyRootfs, UmountVolume,
     UndoMount, UndoVolume, Provision
<1>5. CASE CreateDomain(c)
    BY <1>5 DEF CreateDomain
<1>6. CASE FindPid(c)
    BY <1>6 DEF FindPid
<1>7. CASE StoreCgroupPath(c)
    BY <1>7 DEF StoreCgroupPath, backVars
<1>8. CASE JoinCgroup(c)
    BY <1>8 DEF JoinCgroup
<1>9. CASE LimitCgroup(c)
    BY <1>9 DEF LimitCgroup
<1>10. CASE Rollback(c)
    BY <1>10 DEF Rollback
<1>11. CASE SpawnWatcher(c)
    BY <1>11 DEF SpawnWatcher
<1>12. CASE StoreInfo(c)
    BY <1>12 DEF StoreInfo, Store, backVars
<1>13. CASE StartGuest(c)
    BY <1>13 DEF StartGuest, SetDomain
<1>14. CASE Steer(c)
    BY <1>14 DEF Steer
<1>15. CASE StopGuest(c)
    BY <1>15 DEF StopGuest, SetDomain
<1>16. CASE RestoreIrqs(c)
    BY <1>16 DEF RestoreIrqs
<1>17. CASE DestroyDomain(c)
    BY <1>17 DEF DestroyDomain
<1>18. CASE TakeVolume(c)
    BY <1>18 DEF TakeVolume, RemoveVolume
<1>19. CASE RemoveCgroup(c)
    BY <1>19 DEF RemoveCgroup
<1>20. CASE RemoveRunDir(c)
    BY <1>20 DEF RemoveRunDir, RemoveAll, RemoveTree
<1>21. CASE Cleanup(c)
    BY <1>21 DEF Cleanup, RemoveAll, RemoveTree
<1>22. CASE Crash(c)
    BY <1>22 DEF Crash
<1> QED BY <1>1, <1>2, <1>3, <1>4, <1>5, <1>6, <1>7, <1>8, <1>9, <1>10, <1>11, <1>12,
     <1>13, <1>14, <1>15, <1>16, <1>17, <1>18, <1>19, <1>20, <1>21, <1>22

LEMMA DomainsTyped ==
  ASSUME NEW c \in Containers, DomTypes,
         ClearStaleDir(c) \/ GenerateConfig(c) \/ CreateVolume(c) \/
           ProvisionLvmRoot(c) \/ CreateDomain(c) \/ FindPid(c) \/
           StoreCgroupPath(c) \/ JoinCgroup(c) \/ LimitCgroup(c) \/
           Rollback(c) \/ SpawnWatcher(c) \/ StoreInfo(c) \/ StartGuest(c)
           \/ Steer(c) \/ StopGuest(c) \/ RestoreIrqs(c) \/ DestroyDomain(c)
           \/ TakeVolume(c) \/ RemoveCgroup(c) \/ RemoveRunDir(c) \/
           Cleanup(c) \/ Crash(c)
  PROVE  DomTypes'
<1> USE DEF DomTypes
<1>1. CASE ClearStaleDir(c)
    BY <1>1 DEF ClearStaleDir, RemoveAll, RemoveTree, domVars, qemuVars
<1>2. CASE GenerateConfig(c)
    BY <1>2 DEF GenerateConfig, backVars, domVars, qemuVars
<1>3. CASE CreateVolume(c)
    BY <1>3 DEF CreateVolume, domVars, qemuVars
<1>4. CASE ProvisionLvmRoot(c)
    BY <1>4 DEF ProvisionLvmRoot, Populate, MountVolume, CopyRootfs, UmountVolume,
     UndoMount, UndoVolume, Provision, domVars, qemuVars
<1>5. CASE CreateDomain(c)
    BY <1>5 DEF CreateDomain
<1>6. CASE FindPid(c)
    BY <1>6 DEF FindPid, Live
<1>7. CASE StoreCgroupPath(c)
    BY <1>7 DEF StoreCgroupPath, backVars, domVars, qemuVars
<1>8. CASE JoinCgroup(c)
    BY <1>8 DEF JoinCgroup, CgroupOf, CgroupIds
<1>9. CASE LimitCgroup(c)
    BY <1>9 DEF LimitCgroup, CgroupOf, CgroupIds, qemuVars
<1>10. CASE Rollback(c)
    BY <1>10 DEF Rollback, Quit, qemuVars
<1>11. CASE SpawnWatcher(c)
    BY <1>11 DEF SpawnWatcher, Watch
<1>12. CASE StoreInfo(c)
    BY <1>12 DEF StoreInfo, Store, backVars, domVars, qemuVars
<1>13. CASE StartGuest(c)
    BY <1>13 DEF StartGuest, SetDomain
<1>14. CASE Steer(c)
    BY <1>14 DEF Steer, domVars, qemuVars
<1>15. CASE StopGuest(c)
    BY <1>15 DEF StopGuest, SetDomain
<1>16. CASE RestoreIrqs(c)
    BY <1>16 DEF RestoreIrqs, domVars, qemuVars
<1>17. CASE DestroyDomain(c)
    BY <1>17 DEF DestroyDomain, Quit, qemuVars
<1>18. CASE TakeVolume(c)
    BY <1>18 DEF TakeVolume, RemoveVolume, domVars, qemuVars
<1>19. CASE RemoveCgroup(c)
    BY <1>19 DEF RemoveCgroup, Quit, qemuVars
<1>20. CASE RemoveRunDir(c)
    BY <1>20 DEF RemoveRunDir, RemoveAll, RemoveTree, domVars, qemuVars
<1>21. CASE Cleanup(c)
    BY <1>21 DEF Cleanup, RemoveAll, RemoveTree, domVars, qemuVars
<1>22. CASE Crash(c)
    BY <1>22 DEF Crash
<1> QED BY <1>1, <1>2, <1>3, <1>4, <1>5, <1>6, <1>7, <1>8, <1>9, <1>10, <1>11, <1>12,
     <1>13, <1>14, <1>15, <1>16, <1>17, <1>18, <1>19, <1>20, <1>21, <1>22

-----------------------------------------------------------------------------
(* TypeInv is an inductive invariant.                                      *)

LEMMA InitTyped == Init => TypeInv
<1> SUFFICES ASSUME Init PROVE TypeInv
  OBVIOUS
<1> USE DEF Init, FrontInit, VolumesInit, IrqInit
<1>1. FrontTypes /\ VolumeTypes /\ DomTypes
  BY DEF FrontTypes, VolumeTypes, DomTypes
<1>2. IrqTypes
  BY IrqAssumption, NoWalkTyped DEF IrqTypes
<1>3. VerbsInv /\ \A c \in Containers : WalkInv(c)
  BY DEF VerbsInv, VerbInv, WalkInv
<1> QED BY <1>1, <1>2, <1>3, TypeParts

LEMMA RebootTyped ==
  ASSUME TypeInv, Reboot
  PROVE  TypeInv'
<1> USE TypeParts, TypePartsNext DEF Reboot, RebootFrontend
<1>1. FrontTypes' /\ VolumeTypes'
  BY DEF FrontTypes, VolumeTypes
<1>2. DomTypes'
  BY DEF DomTypes, Quit
<1>3. IrqTypes'
  BY IrqAssumption, NoWalkTyped DEF IrqTypes
<1>4. VerbsInv' /\ \A c \in Containers : WalkInv(c)'
  BY DEF VerbsInv, VerbInv, WalkInv
<1> QED BY <1>1, <1>2, <1>3, <1>4

LEMMA QemuExitsTyped ==
  ASSUME TypeInv, NEW i \in Ids, QemuExits(i)
  PROVE  TypeInv'
<1> USE TypeParts, TypePartsNext DEF QemuExits, feVars, volVars, irqVars
<1>1. FrontTypes' /\ VolumeTypes' /\ IrqTypes'
  BY DEF FrontTypes, VolumeTypes, IrqTypes
<1>2. DomTypes'
  BY DEF DomTypes, Quit
<1>3. VerbsInv' /\ \A c \in Containers : WalkInv(c)'
  BY DEF VerbsInv, VerbInv, WalkInv
<1> QED BY <1>1, <1>2, <1>3

\* A step of the process of c or of its engine.
LEMMA ContainerTyped ==
  ASSUME NEW c \in Containers, TypeInv,
         \/ (Invoke(c) \/ Front(c)) /\ UNCHANGED backVars
         \/ CreateStep(c) \/ TeardownStep(c) \/ Crash(c)
  PROVE  TypeInv'
<1> USE TypeParts, TypePartsNext
<1>1. CASE (Invoke(c) \/ Front(c)) /\ UNCHANGED backVars
  <2>1. FrontTypes' /\ VerbsInv'
    BY <1>1, FrontFlow DEF Front
  <2>2. UNCHANGED <<volVars, irqVars, domVars>>
    BY <1>1 DEF backVars
  <2>3. IrqTypes' /\ \A d \in Containers : WalkInv(d)'
    BY <1>1, <2>2, FrontCalm, NoLoopKeeps DEF Front
  <2>4. VolumeTypes' /\ DomTypes'
    BY <2>2 DEF VolumeTypes, DomTypes, volVars, domVars, qemuVars
  <2> QED BY <2>1, <2>3, <2>4
<1>2. CASE Steer(c) \/ RestoreIrqs(c)
  <2> USE DEF Steer, RestoreIrqs, ApplyIrqSteering, RestoreIrqSteering
  <2>1. FrontTypes' /\ VerbsInv'
    BY <1>2, LoopFlow
  <2>2. IrqTypes' /\ \A d \in Containers : WalkInv(d)'
    BY <1>2, LoopKeeps
  <2>3. VolumeTypes' /\ DomTypes'
    BY <1>2, VolumesTyped, DomainsTyped
  <2> QED BY <2>1, <2>2, <2>3
<1>3. CASE CreateStep(c) /\ ~Steer(c)
  <2>1. FrontTypes' /\ VerbsInv'
    BY <1>3, CreateFlow DEF CreateStep
  <2>2. IrqTypes' /\ \A d \in Containers : WalkInv(d)'
    BY <1>3, CreateCalm, NoLoopKeeps DEF CreateStep
  <2>3. VolumeTypes' /\ DomTypes'
    BY <1>3, VolumesTyped, DomainsTyped DEF CreateStep
  <2> QED BY <2>1, <2>2, <2>3
<1>4. CASE (TeardownStep(c) /\ ~RestoreIrqs(c)) \/ Crash(c)
  <2>1. FrontTypes' /\ VerbsInv'
    BY <1>4, TeardownFlow DEF TeardownStep
  <2>2. IrqTypes' /\ \A d \in Containers : WalkInv(d)'
    BY <1>4, TeardownCalm, NoLoopKeeps DEF TeardownStep
  <2>3. VolumeTypes' /\ DomTypes'
    BY <1>4, VolumesTyped, DomainsTyped DEF TeardownStep
  <2> QED BY <2>1, <2>2, <2>3
<1> QED BY <1>1, <1>2, <1>3, <1>4

LEMMA NextTyped == TypeInv /\ [Next]_vars => TypeInv'
<1> SUFFICES ASSUME TypeInv, [Next]_vars PROVE TypeInv'
  OBVIOUS
<1>1. CASE UNCHANGED vars
  <2>1. UNCHANGED <<feVars, volVars, irqVars, domVars>>
    BY <1>1 DEF vars, backVars
  <2>2. FrontTypes' /\ VolumeTypes' /\ IrqTypes' /\ DomTypes'
    BY <2>1, TypeParts DEF FrontTypes, VolumeTypes, IrqTypes, DomTypes, feVars,
       volVars, irqVars, domVars, qemuVars
  <2>3. VerbsInv' /\ \A c \in Containers : WalkInv(c)'
    BY <2>1, TypeParts DEF VerbsInv, VerbInv, WalkInv, feVars, irqVars
  <2> QED BY <2>2, <2>3, TypePartsNext
<1>2. CASE Next
  BY <1>2, ContainerTyped, QemuExitsTyped, RebootTyped DEF Next
<1> QED BY <1>1, <1>2

\* Types, commands and labels; no interrupt is given an empty list.
THEOREM TypeInvariant == Spec => []TypeInv
<1>1. Init => TypeInv
  BY InitTyped
<1>2. TypeInv /\ [Next]_vars => TypeInv'
  BY NextTyped
<1> QED BY <1>1, <1>2, PTL DEF Spec

\* The variables keep their types; in particular no step of apply_irq_steering
\* or restore_irq_steering leaves an interrupt without a CPU.
THEOREM KvmTypeCorrect == Spec => []TypeOK
<1>1. TypeInv => TypeOK
  BY DEF TypeInv
<1> QED BY <1>1, TypeInvariant, PTL

-----------------------------------------------------------------------------
(* Confinement: what a step may do to a domain.                            *)

\* The domain of d ends, or what is known of it stays.
Spared(d) ==
  LET i == IdOf[d] IN
  /\ found'[d] \subseteq found[d]
  /\ \/ dom'[i] = "none"
     \/ /\ dom'[i] = dom[i] /\ member'[i] = member[i] /\ found'[d] = found[d]
        /\ i \in watching[d] => i \in watching'[d]
        /\ Confined(i) => Confined(i)'

\* The step moves on no process but that of c.
Alone(c) ==
  \A d \in Containers \ {c} :
    /\ bundle'[d] = bundle[d] /\ status'[d] = status[d]
    /\ verb'[d] = verb[d] /\ pc'[d] = pc[d]

\* The step asks nothing new of the domain of c.
Eases(c) ==
  /\ pc'[c] \in Confining => pc[c] \in Confining
  /\ pc'[c] \in {"cgroup_files", "cgroup_join"} => pc[c] \in {"cgroup_files", "cgroup_join"}
  /\ pc'[c] \notin {"cgroup_limit", "watch"}
  /\ Guarded(c)' => Guarded(c) \/ IdOf[c] \notin Live

ConfineKept(c) ==
  /\ GuestInv(c)' /\ Alone(c)
  /\ \A i \in Live' : i \in Live \/ i = IdOf[c]
  /\ \A d \in Containers \ {c} : Spared(d)

GuestsInv == \A c \in Containers : GuestInv(c)

-----------------------------------------------------------------------------
(* What preserves the invariant.                                           *)

\* What it says of a container whose process stands still and whose domain is
\* spared.
LEMMA SparedKeeps ==
  ASSUME NEW d \in Containers, DomTypes, GuestInv(d), Spared(d),
         /\ bundle'[d] = bundle[d] /\ status'[d] = status[d]
         /\ verb'[d] = verb[d] /\ pc'[d] = pc[d]
  PROVE  GuestInv(d)'
  BY DEF DomTypes, GuestInv, Guarded, Spared, Live, CgroupOf

\* A step that touches no domain.
LEMMA EasesKeeps ==
  ASSUME NEW c \in Containers, DomTypes, GuestInv(c), Eases(c), Alone(c), UNCHANGED
         domVars
  PROVE  ConfineKept(c)
<1> USE DEF domVars, qemuVars
<1>1. GuestInv(c)'
  BY DEF DomTypes, GuestInv, Eases, Live, Confined
<1>2. ASSUME NEW d \in Containers PROVE Spared(d)
  BY DEF Spared, Confined
<1> QED BY <1>1, <1>2 DEF ConfineKept, Live

\* QEMU processes end, and no other loses its limits.
LEMMA QuitSpares ==
  ASSUME NEW S, Quit(S), DomTypes, NEW d \in Containers, GuestInv(d),
         \A i \in Ids \ S : Confined(i) => member[i] \cap limited' # {}
  PROVE  Spared(d)
<1>1. CASE IdOf[d] \in S
  BY <1>1 DEF Quit, Spared, DomTypes
<1>2. CASE IdOf[d] \notin S
  <2>1. found[d] \cap S = {}
    BY <1>2 DEF GuestInv
  <2> QED BY <1>2, <2>1 DEF Quit, Spared, DomTypes, Confined
<1> QED BY <1>1, <1>2

LEMMA KeptConfine ==
  ASSUME NEW c \in Containers, DomTypes, ConfineInv, ConfineKept(c)
  PROVE  ConfineInv'
<1>1. ASSUME NEW d \in Containers, d # c PROVE GuestInv(d)'
  BY <1>1, SparedKeeps DEF ConfineInv, ConfineKept, Alone
<1>2. NamesInv'
  BY DEF ConfineInv, ConfineKept, NamesInv
<1> QED BY <1>1, <1>2 DEF ConfineInv, ConfineKept

-----------------------------------------------------------------------------
(* Steps that touch no domain.                                             *)

LEMMA FrontEases ==
  ASSUME NEW c \in Containers, FrontTypes, VerbsInv, RuncHasNoGuest,
         Invoke(c) \/ Exit(c) \/ DecideCreate(c) \/ DecideExisting(c) \/
           MakeDir(c) \/ State(c)
  PROVE  Eases(c) /\ Alone(c)
<1> USE DEF FrontTypes, VerbsInv, VerbInv, Eases, Alone, Guarded, Goto
<1>1. CASE Invoke(c)
    BY <1>1 DEF Invoke, Allowed
<1>2. CASE Exit(c)
    BY <1>2 DEF Exit
<1>3. CASE DecideCreate(c)
    BY <1>3 DEF DecideCreate, RuncHasNoGuest
<1>4. CASE DecideExisting(c)
    BY <1>4 DEF DecideExisting, RuncExisting, FirstCall
<1>5. CASE MakeDir(c)
    BY <1>5 DEF MakeDir
<1>6. CASE State(c)
    BY <1>6 DEF State
<1> QED BY <1>1, <1>2, <1>3, <1>4, <1>5, <1>6

LEMMA PassiveEases ==
  ASSUME NEW c \in Containers, FrontTypes, VerbsInv,
         ClearStaleDir(c) \/ GenerateConfig(c) \/ CreateVolume(c) \/
           ProvisionLvmRoot(c) \/ StoreCgroupPath(c) \/ StoreInfo(c) \/
           TakeVolume(c) \/ RemoveRunDir(c) \/ Cleanup(c)
  PROVE  Eases(c) /\ Alone(c)
<1> USE DEF FrontTypes, VerbsInv, VerbInv, Eases, Alone, Guarded, Goto
<1>1. CASE ClearStaleDir(c)
    BY <1>1 DEF ClearStaleDir, RemoveAll, RemoveTree
<1>2. CASE GenerateConfig(c)
    BY <1>2 DEF GenerateConfig, Put, ReturnOk, AfterOk, ReturnErr, AfterErr
<1>3. CASE CreateVolume(c)
    BY <1>3 DEF CreateVolume, Provision, ReturnErr, AfterErr
<1>4. CASE ProvisionLvmRoot(c)
    BY <1>4 DEF ProvisionLvmRoot, Populate, MountVolume, CopyRootfs, UmountVolume,
     UndoMount, UndoVolume, Provision, ReturnErr, AfterErr
<1>5. CASE StoreCgroupPath(c)
    BY <1>5 DEF StoreCgroupPath
<1>6. CASE StoreInfo(c)
    BY <1>6 DEF StoreInfo, Store, Put, ReturnOk, AfterOk
<1>7. CASE TakeVolume(c)
    BY <1>7 DEF TakeVolume, RemoveVolume
<1>8. CASE RemoveRunDir(c)
    BY <1>8 DEF RemoveRunDir, RemoveAll, RemoveTree, ReturnOk, AfterOk
<1>9. CASE Cleanup(c)
    BY <1>9 DEF Cleanup, RemoveAll, RemoveTree, ReturnOk, AfterOk
<1> QED BY <1>1, <1>2, <1>3, <1>4, <1>5, <1>6, <1>7, <1>8, <1>9

LEMMA LoopEases ==
  ASSUME NEW c \in Containers, FrontTypes, VerbsInv,
         SteerBegin(c) \/ SteerRead(c) \/ SteerWrite(c) \/ SteerSave(c) \/
           RestoreBegin(c, "virsh_destroy") \/ RestoreWrite(c) \/
           RestoreEnd(c, "virsh_destroy")
  PROVE  Eases(c) /\ Alone(c)
<1> USE DEF FrontTypes, VerbsInv, VerbInv, Eases, Alone, Guarded, Goto
<1>1. CASE SteerBegin(c)
    BY <1>1 DEF SteerBegin, ReturnOk, AfterOk, ReturnErr, AfterErr
<1>2. CASE SteerRead(c)
    BY <1>2 DEF SteerRead
<1>3. CASE SteerWrite(c)
    BY <1>3 DEF SteerWrite
<1>4. CASE SteerSave(c)
    BY <1>4 DEF SteerSave, ReturnOk, AfterOk
<1>5. CASE RestoreBegin(c, "virsh_destroy")
    BY <1>5 DEF RestoreBegin
<1>6. CASE RestoreWrite(c)
    BY <1>6 DEF RestoreWrite, feVars
<1>7. CASE RestoreEnd(c, "virsh_destroy")
    BY <1>7 DEF RestoreEnd
<1> QED BY <1>1, <1>2, <1>3, <1>4, <1>5, <1>6, <1>7

-----------------------------------------------------------------------------
(* Steps on domains, in the order in which create and the teardown take    *)
(* them.                                                                   *)

LEMMA CreateDomainConfine ==
  ASSUME NEW c \in Containers, IdOfInjective, FrontTypes, DomTypes, VerbInv(c),
         GuestInv(c), CreateDomain(c)
  PROVE  ConfineKept(c)
<1> USE DEF CreateDomain, FrontTypes, DomTypes, Goto, ReturnErr, AfterErr
<1>1. Alone(c)
  BY DEF Alone
<1>2. GuestInv(c)'
  BY DEF VerbInv, GuestInv, Guarded, Live, Confined
<1>3. ASSUME NEW d \in Containers \ {c} PROVE Spared(d)
  BY DEF IdOfInjective, Spared, Confined
<1>4. \A i \in Live' : i \in Live \/ i = IdOf[c]
  BY DEF Live
<1> QED BY <1>1, <1>2, <1>3, <1>4 DEF ConfineKept

LEMMA FindPidConfine ==
  ASSUME NEW c \in Containers, MatchExact, FrontTypes, DomTypes, VerbInv(c),
         GuestInv(c), FindPid(c)
  PROVE  ConfineKept(c)
<1> USE DEF FindPid, FrontTypes, DomTypes, Goto, ReturnErr, AfterErr
<1>1. Alone(c)
  BY DEF Alone
<1>2. GuestInv(c)'
  <2>1. Matches[IdOf[c]] = {IdOf[c]}
    BY DEF MatchExact
  <2> QED BY <2>1 DEF VerbInv, GuestInv, Guarded, Live, Confined
<1>3. ASSUME NEW d \in Containers \ {c} PROVE Spared(d)
  BY DEF Spared, Confined
<1>4. \A i \in Live' : i \in Live \/ i = IdOf[c]
  BY DEF Live
<1> QED BY <1>1, <1>2, <1>3, <1>4 DEF ConfineKept

LEMMA JoinCgroupConfine ==
  ASSUME NEW c \in Containers, IdOfInjective, FrontTypes, DomTypes, VerbInv(c),
         GuestInv(c), JoinCgroup(c)
  PROVE  ConfineKept(c)
<1> USE DEF JoinCgroup, FrontTypes, DomTypes, Goto
<1>1. Alone(c)
  BY DEF Alone
<1>2. GuestInv(c)'
  BY DEF VerbInv, GuestInv, Guarded, Live, Confined, CgroupOf
<1>3. ASSUME NEW d \in Containers \ {c} PROVE Spared(d)
  <2>1. IdOf[d] \notin found[c]
    BY DEF IdOfInjective, GuestInv
  <2> QED BY <2>1 DEF Spared, Confined
<1>4. \A i \in Live' : i \in Live \/ i = IdOf[c]
  BY DEF Live
<1> QED BY <1>1, <1>2, <1>3, <1>4 DEF ConfineKept

LEMMA LimitCgroupConfine ==
  ASSUME NEW c \in Containers, FrontTypes, DomTypes, VerbInv(c),
         GuestInv(c), LimitCgroup(c)
  PROVE  ConfineKept(c)
<1> USE DEF LimitCgroup, FrontTypes, DomTypes, Goto, qemuVars
<1>1. Alone(c)
  BY DEF Alone
<1>2. GuestInv(c)'
  BY DEF VerbInv, GuestInv, Guarded, Live, Confined
<1>3. ASSUME NEW d \in Containers \ {c} PROVE Spared(d)
  BY DEF Spared, Confined
<1>4. \A i \in Live' : i \in Live \/ i = IdOf[c]
  BY DEF Live
<1> QED BY <1>1, <1>2, <1>3, <1>4 DEF ConfineKept

LEMMA SpawnWatcherConfine ==
  ASSUME NEW c \in Containers, FrontTypes, DomTypes, VerbInv(c),
         GuestInv(c), SpawnWatcher(c)
  PROVE  ConfineKept(c)
<1> USE DEF SpawnWatcher, Watch, FrontTypes, DomTypes, Goto, ReturnErr, AfterErr
<1>1. Alone(c)
  BY DEF Alone
<1>2. GuestInv(c)'
  BY DEF VerbInv, GuestInv, Guarded, Live, Confined
<1>3. ASSUME NEW d \in Containers \ {c} PROVE Spared(d)
  BY DEF Spared, Confined
<1>4. \A i \in Live' : i \in Live \/ i = IdOf[c]
  BY DEF Live
<1> QED BY <1>1, <1>2, <1>3, <1>4 DEF ConfineKept

LEMMA SetDomainConfine ==
  ASSUME NEW c \in Containers, IdOfInjective, FrontTypes, DomTypes, VerbInv(c),
         GuestInv(c), StartGuest(c) \/ StopGuest(c)
  PROVE  ConfineKept(c)
<1> USE DEF StartGuest, StopGuest, SetDomain, FrontTypes, DomTypes, Goto, ReturnOk, AfterOk,
       ReturnErr, AfterErr
<1>1. Alone(c)
  BY DEF Alone
<1>2. GuestInv(c)'
  <2>1. CASE StartGuest(c)
    <3>1. verb[c] = "start" /\ Guarded(c)
      BY <2>1 DEF VerbInv, Guarded
    <3>2. IdOf[c] \in Live => Confined(IdOf[c])
      BY <3>1 DEF GuestInv
    <3> QED BY <2>1, <3>1, <3>2 DEF GuestInv, Guarded, Live, Confined
  <2>2. CASE StopGuest(c)
    BY <2>2 DEF VerbInv, GuestInv, Guarded, Live, Confined
  <2> QED BY <2>1, <2>2
<1>3. ASSUME NEW d \in Containers \ {c} PROVE Spared(d)
  BY DEF IdOfInjective, Spared, Confined
<1>4. \A i \in Live' : i \in Live \/ i = IdOf[c]
  BY DEF Live
<1> QED BY <1>1, <1>2, <1>3, <1>4 DEF ConfineKept

LEMMA QuitConfine ==
  ASSUME NEW c \in Containers, FrontTypes, DomTypes, VerbsInv, GuestsInv,
         Rollback(c) \/ DestroyDomain(c) \/ RemoveCgroup(c)
  PROVE  ConfineKept(c)
<1>1. Alone(c) /\ Eases(c)
  BY DEF Rollback, DestroyDomain, RemoveCgroup, FrontTypes, VerbsInv, VerbInv, Alone, Eases, Guarded,
     Goto, ReturnErr, AfterErr
<1> DEFINE g == StoredCgroup(c)
           in == {i \in Ids : g \in member[i]}
<1>2. \/ UNCHANGED <<qemuVars, limited>>
      \/ Quit({IdOf[c]}) /\ UNCHANGED limited
      \/ Quit(in) /\ limited' = limited \ {g}
  BY DEF Rollback, DestroyDomain, RemoveCgroup
<1> HIDE DEF g
<1>3. ASSUME NEW d \in Containers PROVE Spared(d)
  <2>1. CASE UNCHANGED <<qemuVars, limited>>
    BY <2>1 DEF qemuVars, Spared, Confined
  <2>2. CASE Quit({IdOf[c]}) /\ UNCHANGED limited
    BY <2>2, QuitSpares DEF Confined, GuestsInv
  <2>3. CASE Quit(in) /\ limited' = limited \ {g}
    <3>1. \A i \in Ids \ in : Confined(i) => member[i] \cap limited' # {}
      BY <2>3 DEF Confined
    <3> QED BY <2>3, <3>1, QuitSpares DEF GuestsInv
  <2> QED BY <1>2, <2>1, <2>2, <2>3
<1>4. GuestInv(c)'
  BY <1>1, <1>3 DEF DomTypes, GuestsInv, GuestInv, Eases, Spared, Live
<1>5. \A i \in Live' : i \in Live
  BY <1>2 DEF Quit, qemuVars, Live
<1> QED BY <1>1, <1>3, <1>4, <1>5 DEF ConfineKept

LEMMA CrashConfine ==
  ASSUME NEW c \in Containers, FrontTypes, DomTypes, VerbInv(c),
         GuestInv(c), Crash(c)
  PROVE  ConfineKept(c)
<1> USE DEF Crash, CrashFrontend, FrontTypes, DomTypes, Goto
<1>1. Alone(c)
  BY DEF Alone
<1>2. GuestInv(c)'
  BY DEF VerbInv, GuestInv, Guarded, Live, Confined
<1>3. ASSUME NEW d \in Containers \ {c} PROVE Spared(d)
  BY DEF Spared, Confined
<1>4. \A i \in Live' : i \in Live \/ i = IdOf[c]
  BY DEF Live
<1> QED BY <1>1, <1>2, <1>3, <1>4 DEF ConfineKept

-----------------------------------------------------------------------------
(* ConfineInv is an inductive invariant, given RuncHasNoGuest.             *)

LEMMA InitConfine == Init => ConfineInv
  BY DEF Init, FrontInit, ConfineInv, NamesInv, GuestInv, Guarded, Live

LEMMA RebootConfine ==
  ASSUME DomTypes, Reboot
  PROVE  ConfineInv'
<1> USE DEF Reboot, RebootFrontend, Quit
<1>1. Live' = {}
  BY DEF Live
<1>2. ASSUME NEW c \in Containers PROVE GuestInv(c)'
  <2>1. found'[c] = {} /\ dom'[IdOf[c]] = "none" /\ pc'[c] = "idle"
    BY DEF DomTypes
  <2> QED BY <1>1, <2>1 DEF GuestInv
<1> QED BY <1>1, <1>2 DEF ConfineInv, NamesInv

LEMMA QemuExitsConfine ==
  ASSUME NEW i \in Ids, FrontTypes, DomTypes, ConfineInv, QemuExits(i)
  PROVE  ConfineInv'
<1>1. Quit({i}) /\ UNCHANGED <<feVars, limited>>
  BY DEF QemuExits
<1>2. ASSUME NEW c \in Containers PROVE GuestInv(c)'
  <2>1. Spared(c)
    BY <1>1, QuitSpares DEF ConfineInv, Confined
  <2> QED BY <1>1, <2>1, SparedKeeps DEF ConfineInv, feVars
<1>3. Live' \subseteq Live
  BY <1>1 DEF Quit, Live
<1> QED BY <1>2, <1>3 DEF ConfineInv, NamesInv

LEMMA ContainerConfine ==
  ASSUME NEW c \in Containers, IdOfInjective, MatchExact, RuncHasNoGuest,
         FrontTypes, DomTypes, VerbsInv, ConfineInv,
         \/ (Invoke(c) \/ Front(c)) /\ UNCHANGED backVars
         \/ CreateStep(c) \/ TeardownStep(c) \/ Crash(c)
  PROVE  ConfineKept(c)
<1>1. GuestsInv /\ GuestInv(c) /\ VerbInv(c)
  BY DEF ConfineInv, GuestsInv, VerbsInv
<1>2. CASE (Invoke(c) \/ Front(c)) /\ UNCHANGED backVars
  BY <1>1, <1>2, FrontEases, EasesKeeps DEF Front, backVars
<1>3. CASE CreateStep(c)
  <2>1. CASE \/ ClearStaleDir(c) \/ GenerateConfig(c) \/ CreateVolume(c)
             \/ ProvisionLvmRoot(c) \/ StoreCgroupPath(c) \/ StoreInfo(c)
    <3>1. UNCHANGED domVars
      BY <2>1 DEF ClearStaleDir, RemoveAll, GenerateConfig, CreateVolume,
         ProvisionLvmRoot, StoreCgroupPath, StoreInfo, Store, backVars
    <3> QED BY <1>1, <2>1, <3>1, PassiveEases, EasesKeeps
  <2>2. CASE Steer(c)
    BY <1>1, <2>2, LoopEases, EasesKeeps DEF Steer, ApplyIrqSteering
  <2> QED BY <1>1, <1>3, <2>1, <2>2, CreateDomainConfine, FindPidConfine,
       JoinCgroupConfine, LimitCgroupConfine, QuitConfine, SpawnWatcherConfine,
       SetDomainConfine DEF CreateStep
<1>4. CASE TeardownStep(c)
  <2>1. CASE TakeVolume(c) \/ RemoveRunDir(c) \/ Cleanup(c)
    <3>1. UNCHANGED domVars
      BY <2>1 DEF TakeVolume, RemoveRunDir, Cleanup, RemoveAll
    <3> QED BY <1>1, <2>1, <3>1, PassiveEases, EasesKeeps
  <2>2. CASE RestoreIrqs(c)
    BY <1>1, <2>2, LoopEases, EasesKeeps DEF RestoreIrqs, RestoreIrqSteering
  <2> QED BY <1>1, <1>4, <2>1, <2>2, SetDomainConfine, QuitConfine DEF TeardownStep
<1>5. CASE Crash(c)
  BY <1>1, <1>5, CrashConfine
<1> QED BY <1>2, <1>3, <1>4, <1>5

LEMMA NextConfine ==
  ASSUME IdOfInjective, MatchExact
  PROVE  TypeInv /\ RuncHasNoGuest /\ ConfineInv /\ [Next]_vars => ConfineInv'
<1> SUFFICES ASSUME TypeInv, RuncHasNoGuest, ConfineInv, [Next]_vars PROVE ConfineInv'
  OBVIOUS
<1>1. FrontTypes /\ DomTypes /\ VerbsInv
  BY TypeParts
<1>2. CASE UNCHANGED vars
  BY <1>2 DEF vars, feVars, backVars, domVars, qemuVars, ConfineInv, NamesInv,
     GuestInv, Guarded, Confined, Live, CgroupOf
<1>3. ASSUME NEW c \in Containers,
             \/ (Invoke(c) \/ Front(c)) /\ UNCHANGED backVars
             \/ CreateStep(c) \/ TeardownStep(c) \/ Crash(c)
      PROVE  ConfineInv'
  BY <1>1, <1>3, ContainerConfine, KeptConfine
<1> QED BY <1>1, <1>2, <1>3, QemuExitsConfine, RebootConfine DEF Next

\* ConfineInv holds as long as runc is given no bundle while a domain has the
\* name of its container.
LEMMA Confinement ==
  ASSUME IdOfInjective, MatchExact
  PROVE  Spec /\ []RuncHasNoGuest => []ConfineInv
<1>1. Init => ConfineInv
  BY InitConfine
<1>2. TypeInv /\ RuncHasNoGuest /\ ConfineInv /\ [Next]_vars => ConfineInv'
  BY NextConfine
<1> QED BY <1>1, <1>2, TypeInvariant, PTL DEF Spec

\* On a host all of whose containers are runPHI's, runc is given no bundle.
LEMMA AllRunphiApart == ASSUME AllRunphi PROVE Spec => []RuncHasNoGuest
<1>1. TypeInv => RuncHasNoGuest
  BY TypeParts DEF VerbsInv, VerbInv, RuncHasNoGuest, AllRunphi
<1> QED BY <1>1, TypeInvariant, PTL

LEMMA ConfineImplies ==
  ASSUME ConfineInv
  PROVE  RunsConfined /\ EngineSeesGuest
  BY DEF ConfineInv, NamesInv, GuestInv, Guarded, Confined, Live, RunsConfined,
     EngineSeesGuest
=============================================================================
