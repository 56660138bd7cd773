-------------------------------- MODULE Kvm --------------------------------
(***************************************************************************)
(* runPHI with the KVM backend: the functions of backend_kvm/src/lib.rs,   *)
(* config_generate and cgroups.rs, run by the commands of OciFrontend,     *)
(* with the libvirt domains and their QEMU processes, the cgroups these    *)
(* are confined to, and the watcher processes that stand for the           *)
(* containers; LvmRoot and IrqSteering model the rest of the backend.      *)
(*                                                                         *)
(* A step ends where another process, or a crash, can see the effect: at   *)
(* every external command, every change of a cgroup and every file that a  *)
(* later command reads.  QEMU may end at any time.                         *)
(*                                                                         *)
(* Simplifications: config_generate is one step, and domain.xml is reduced *)
(* to whether the volume is the root disk; sizes are left to libvirt, LVM  *)
(* and the cgroup controllers, where a lack is one of their failures; the  *)
(* choice of the cgroup driver is left out; process ids are not reused.    *)
(***************************************************************************)
EXTENDS LvmRoot, IrqSteering

CONSTANTS
  Matches, \* Matches[i]: ids j for which runphi-<i> begins runphi-<j>
  TakesXml \* whether libvirt takes a document with <locked\> in it

ASSUME KvmAssumption ==
  /\ Matches \in [Ids -> SUBSET Ids] /\ \A i \in Ids : i \in Matches[i]
  /\ TakesXml \in BOOLEAN

VARIABLES
  dom,      \* dom[i]: the state of the domain runphi-<i>, whose QEMU is "i"
  attached, \* ids whose domain has its logical volume as root disk
  cgroups,  \* the cgroups that exist
  limited,  \* those that the resource limits have been written to
  member,   \* member[i]: the cgroup that QEMU i is in (a set of at most one)
  found,    \* found[c]: the QEMU that pgrep found for c, as long as it lives
  watching  \* watching[c]: the QEMUs that watchers of c wait for

qemuVars == <<dom, attached, member, found, watching>>
domVars == <<qemuVars, cgroups, limited>>
backVars == <<volVars, irqVars, domVars>>
vars == <<feVars, backVars>>

DomStates == {"none", "paused", "running"}

KvmLabels == {"find_pid", "cgroup_files", "cgroup_join", "cgroup_limit", "rollback",
              "watch", "store_pidfile", "store_os", "virsh_destroy", "remove_volume",
              "remove_cgroup", "remove_dir"}

Labels == FrontLabels \cup VolumeLabels \cup SteerLabels \cup RestoreLabels \cup KvmLabels

FileNames == {"disk", "cgroup_path", "saved_irqs", "bundle", "pidfile", "OS"}

\* A cgroup at the path that the bundle names, or at runphi/<id>.
CgroupIds == Ids \X {"own", "default"}

Live == {i \in Ids : dom[i] # "none"}

Put(i, names) == files' = [files EXCEPT ![i] = @ \cup names]

\* The QEMU processes of S end, and with them the watchers (within 0.2 s).
Quit(S) ==
  /\ dom' = [i \in Ids |-> IF i \in S THEN "none" ELSE dom[i]]
  /\ attached' = attached \ S
  /\ member' = [i \in Ids |-> IF i \in S THEN {} ELSE member[i]]
  /\ found' = [c \in Containers |-> found[c] \ S]
  /\ watching' = [c \in Containers |-> watching[c] \ S]

-----------------------------------------------------------------------------
(* config_generate                                                         *)

UsesVolume(b) == b.disk = "lvm"

\* get_from_file fails, diskconf does not know the disk_type, or the image is
\* not there; for a volume du or vgs fails, it is too small or too large.
MustRefuse(b) == ~b.bootconfig \/ b.disk = "bad"
MayRefuse(b)  == MustRefuse(b) \/ (UsesVolume(b) /\ Fault("volume_group"))

\* The file in which diskconf records the volume; domain.xml comes last.
GenerateConfig(c) ==
  /\ pc[c] = "config_generate"
  /\ LET b == bundle[c]
         Plan == Put(IdOf[c], IF UsesVolume(b) THEN {"disk"} ELSE {})
     IN
     \/ ~MustRefuse(b) /\ Plan /\ ReturnOk(c, "config_generate")
     \/ ~MustRefuse(b) /\ Fault("config_write") /\ Plan /\ ReturnErr(c, "config_generate")
     \/ MayRefuse(b) /\ ReturnErr(c, "config_generate") /\ UNCHANGED files
  /\ UNCHANGED <<bundle, status, verb, crundir, runc, backVars>>

-----------------------------------------------------------------------------
(* createguest                                                             *)

\* A volume of that name that exists already is taken as it is.
CreateVolume(c) ==
  /\ Provision(c, "createguest")
  /\ LET i == IdOf[c]
         needed == "disk" \in files[i] /\ lv[i] = "none"
     IN
     \/ ~needed /\ Goto(c, "create_domain") /\ UNCHANGED lv
     \/ /\ needed
        /\ lv' = [lv EXCEPT ![i] = "blank"]
        /\ Goto(c, "populate")
     \/ /\ needed /\ Fault("lvcreate")
        /\ ReturnErr(c, "createguest")
        /\ UNCHANGED lv
  /\ UNCHANGED <<mounted, irqVars, domVars>>

ProvisionLvmRoot(c) == Populate(c, attached) /\ UNCHANGED <<irqVars, domVars>>

\* virsh create --paused: the document is parsed, the name has to be free and
\* the disk has to be there.
CreateDomain(c) ==
  /\ pc[c] = "create_domain"
  /\ LET i == IdOf[c]
         lvm == UsesVolume(bundle[c])
         can == TakesXml /\ i \notin Live /\ (lvm => lv[i] # "none")
     IN
     \/ /\ can
        /\ dom' = [dom EXCEPT ![i] = "paused"]
        /\ attached' = IF lvm THEN attached \cup {i} ELSE attached
        /\ Goto(c, "find_pid")
     \/ /\ ~can \/ Fault("virsh_create")
        /\ ReturnErr(c, "createguest")
        /\ UNCHANGED <<dom, attached>>
  /\ UNCHANGED <<bundle, status, verb, crundir, files, runc, volVars, irqVars,
                 member, found, watching, cgroups, limited>>

\* The first line of pgrep -f "qemu-system.*runphi-<id>", a pattern that the
\* command line of a longer name matches as well; no line is an error.
FindPid(c) ==
  /\ pc[c] = "find_pid"
  /\ LET hits == Live \cap Matches[IdOf[c]] IN
     \/ \E j \in hits : found' = [found EXCEPT ![c] = {j}] /\ Goto(c, "cgroup_files")
     \/ (hits = {} \/ Fault("pgrep")) /\ ReturnErr(c, "createguest") /\ UNCHANGED found
  /\ UNCHANGED <<bundle, status, verb, crundir, files, runc, volVars, irqVars,
                 dom, attached, member, watching, cgroups, limited>>

-----------------------------------------------------------------------------
(* setup_cgroups, the watcher and the pidfile                              *)

\* resolve_cgroup_path: a path of the bundle, else runphi/<id>.
CgroupOf(c) == <<IdOf[c], IF bundle[c].ownCgroup THEN "own" ELSE "default">>

\* The path is stored before the cgroup is made, for destroy_cgroups; the file
\* counts only when it names a path of the bundle.
StoreCgroupPath(c) ==
  /\ pc[c] = "cgroup_files"
  /\ LET i == IdOf[c]
         path == IF bundle[c].ownCgroup THEN {"cgroup_path"} ELSE {}
         stored == [files EXCEPT ![i] = (@ \ {"cgroup_path"}) \cup path]
     IN
     \/ files' = stored /\ Goto(c, "cgroup_join")
     \/ Fault("cgroup_files") /\ files' \in {files, stored} /\ Goto(c, "rollback")
  /\ UNCHANGED <<bundle, status, verb, crundir, runc, backVars>>

\* add_task makes the cgroup and moves the process with all its threads.
JoinCgroup(c) ==
  /\ pc[c] = "cgroup_join"
  /\ LET g == CgroupOf(c) IN
     \/ /\ found[c] # {}
        /\ cgroups' = cgroups \cup {g}
        /\ member' = [i \in Ids |-> IF i \in found[c] THEN {g} ELSE member[i]]
        /\ Goto(c, "cgroup_limit")
     \/ /\ found[c] = {} \/ Fault("cgroup_join")
        /\ cgroups' \in {cgroups, cgroups \cup {g}}
        /\ Goto(c, "rollback")
        /\ UNCHANGED member
  /\ UNCHANGED <<bundle, status, verb, crundir, files, runc, volVars, irqVars,
                 dom, attached, found, watching, limited>>

\* Mutant: an error of apply is logged and no more.
MutLimitCgroup(c) ==
  /\ pc[c] = "cgroup_limit"
  /\ limited' = limited \cup {CgroupOf(c)} \/ (Fault("cgroup_limit") /\ UNCHANGED limited)
  /\ Goto(c, "watch")
  /\ UNCHANGED <<bundle, status, verb, crundir, files, runc, volVars, irqVars,
                 qemuVars, cgroups>>

\* manager.apply of what build_linux_resources gathers.
LimitCgroup(c) ==
  /\ pc[c] = "cgroup_limit"
  /\ \/ limited' = limited \cup {CgroupOf(c)} /\ Goto(c, "watch")
     \/ Fault("cgroup_limit") /\ UNCHANGED limited /\ Goto(c, "rollback")
  /\ UNCHANGED <<bundle, status, verb, crundir, files, runc, volVars, irqVars,
                 qemuVars, cgroups>>

\* virsh destroy, whose result is not looked at.
Rollback(c) ==
  /\ pc[c] = "rollback"
  /\ Quit({IdOf[c]}) \/ (Fault("virsh_destroy") /\ UNCHANGED qemuVars)
  /\ ReturnErr(c, "createguest")
  /\ UNCHANGED <<bundle, status, verb, crundir, files, runc, volVars, irqVars,
                 cgroups, limited>>

\* The watcher loops while the QEMU lives; if it is gone, that ends at once.
Watch(c) == watching' = [watching EXCEPT ![c] = @ \cup found[c]]

\* Mutant: a watcher that cannot be started is not missed.
MutSpawnWatcher(c) ==
  /\ pc[c] = "watch"
  /\ found' = [found EXCEPT ![c] = {}]
  /\ Watch(c) \/ (Fault("watcher") /\ UNCHANGED watching)
  /\ Goto(c, "steer")
  /\ UNCHANGED <<bundle, status, verb, crundir, files, runc, volVars, irqVars,
                 dom, attached, member, cgroups, limited>>

\* Start the watcher and write its pid where the engine wants it.
SpawnWatcher(c) ==
  /\ pc[c] = "watch"
  /\ found' = [found EXCEPT ![c] = {}]
  /\ \/ Watch(c) /\ (Goto(c, "steer") \/ (Fault("pidfile") /\ ReturnErr(c, "createguest")))
     \/ Fault("watcher") /\ ReturnErr(c, "createguest") /\ UNCHANGED watching
  /\ UNCHANGED <<bundle, status, verb, crundir, files, runc, volVars, irqVars,
                 dom, attached, member, cgroups, limited>>

Steer(c) == ApplyIrqSteering(c) /\ UNCHANGED <<volVars, domVars>>

-----------------------------------------------------------------------------
(* storeinfo, startguest and stopguest                                     *)

\* Mutant: a file of a name that no reader knows.
MutStore(c, from, name) ==
  /\ pc[c] = from
  /\ Put(IdOf[c], {IF name = "pidfile" THEN "pid" ELSE name})
  /\ UNCHANGED <<bundle, status, verb, crundir, runc, backVars>>

Store(c, from, name) ==
  /\ pc[c] = from
  /\ Put(IdOf[c], {name})
  /\ UNCHANGED <<bundle, status, verb, crundir, runc, backVars>>

\* bundle, pidfile and OS, in that order.
StoreInfo(c) ==
  \/ Store(c, "storeinfo", "bundle") /\ Goto(c, "store_pidfile")
  \/ Store(c, "store_pidfile", "pidfile") /\ Goto(c, "store_os")
  \/ Store(c, "store_os", "OS") /\ ReturnOk(c, "storeinfo")

\* virsh resume of startguest, virsh suspend of stopguest; libvirt may take
\* either for an error when the domain is in that state already.
SetDomain(c, call, from, to) ==
  /\ pc[c] = call
  /\ LET i == IdOf[c] IN
     \/ /\ i \in Live
        /\ dom' = [dom EXCEPT ![i] = to]
        /\ ReturnOk(c, call)
     \/ /\ dom[i] # from \/ Fault(call)
        /\ ReturnErr(c, call)
        /\ UNCHANGED dom
  /\ UNCHANGED <<bundle, status, verb, crundir, files, runc, volVars, irqVars,
                 attached, member, found, watching, cgroups, limited>>

StartGuest(c) == SetDomain(c, "startguest", "paused", "running")
StopGuest(c)  == SetDomain(c, "stopguest", "running", "paused")

-----------------------------------------------------------------------------
(* destroyguest and cleanup                                                *)

\* Its error is logged, so that the teardown goes on either way.
RestoreIrqs(c) == RestoreIrqSteering(c, "virsh_destroy") /\ UNCHANGED <<volVars, domVars>>

\* Mutant: the domain is asked to shut down, which a paused one does not do.
MutDestroyDomain(c) ==
  /\ pc[c] = "virsh_destroy"
  /\ IF dom[IdOf[c]] = "running" THEN Quit({IdOf[c]}) ELSE UNCHANGED qemuVars
  /\ Goto(c, "remove_volume")
  /\ UNCHANGED <<bundle, status, verb, crundir, files, runc, volVars, irqVars,
                 cgroups, limited>>

\* A virsh that fails is logged, one that cannot be started ends it.
DestroyDomain(c) ==
  /\ pc[c] = "virsh_destroy"
  /\ \/ Quit({IdOf[c]}) /\ Goto(c, "remove_volume")
     \/ Fault("virsh_destroy") /\ UNCHANGED qemuVars /\ Goto(c, "remove_volume")
     \/ Fault("virsh_spawn") /\ UNCHANGED qemuVars /\ ReturnErr(c, "destroyguest")
  /\ UNCHANGED <<bundle, status, verb, crundir, files, runc, volVars, irqVars,
                 cgroups, limited>>

TakeVolume(c) == RemoveVolume(c, attached, "remove_cgroup") /\ UNCHANGED <<irqVars, domVars>>

\* Mutant: the path of the bundle is not read back.
MutStoredCgroup(c) == <<IdOf[c], "default">>

\* get_stored_cgroup_path: what setup_cgroups stored, else runphi/<id>.
StoredCgroup(c) ==
  <<IdOf[c], IF "cgroup_path" \in files[IdOf[c]] THEN "own" ELSE "default">>

\* manager.remove: processes that are left in the cgroup are killed, or keep
\* it from being removed; a failure is logged.
RemoveCgroup(c) ==
  /\ pc[c] = "remove_cgroup"
  /\ LET g == StoredCgroup(c)
         in == {i \in Ids : g \in member[i]}
     IN
     \/ Quit(in) /\ cgroups' = cgroups \ {g} /\ limited' = limited \ {g}
     \/ /\ in # {} \/ Fault("cgroup_remove")
        /\ UNCHANGED <<qemuVars, cgroups, limited>>
  /\ Goto(c, "remove_dir")
  /\ UNCHANGED <<bundle, status, verb, crundir, files, runc, volVars, irqVars>>

\* The state directory, and with it the affinities in it.
RemoveAll(i) ==
  /\ RemoveTree(i)
  /\ saved' = [saved EXCEPT ![i] = IF "saved_irqs" \in files'[i] THEN @ ELSE NoEntries]
  /\ UNCHANGED <<affinity, walk, domVars>>

\* RemoveStaleDir of main.rs, where a volume may still be mounted.
ClearStaleDir(c) ==
  pc[c] = "remove_stale" /\ RemoveAll(IdOf[c]) /\ Goto(c, "make_dir")

RemoveRunDir(c) ==
  pc[c] = "remove_dir" /\ RemoveAll(IdOf[c]) /\ ReturnOk(c, "destroyguest")

Cleanup(c) == pc[c] = "cleanup" /\ RemoveAll(IdOf[c]) /\ ReturnOk(c, "cleanup")

-----------------------------------------------------------------------------
(* The environment                                                         *)

\* The guest powers off, reboots or crashes (all on_... are destroy), or its
\* QEMU is killed.
QemuExits(i) == i \in Live /\ Quit({i}) /\ UNCHANGED <<feVars, volVars, irqVars, cgroups, limited>>

\* With the process goes what it had in memory.
Crash(c) ==
  /\ CrashFrontend(c)
  /\ walk' = [walk EXCEPT ![c] = NoWalk]
  /\ found' = [found EXCEPT ![c] = {}]
  /\ UNCHANGED <<volVars, affinity, saved, dom, attached, member, watching,
                 cgroups, limited>>

\* Only the volumes are on a disk.
Reboot ==
  /\ RebootFrontend
  /\ Quit(Ids)
  /\ cgroups' = {} /\ limited' = {}
  /\ mounted' = {}
  /\ affinity' = Home
  /\ saved' = [i \in Ids |-> NoEntries]
  /\ walk' = [c \in Containers |-> NoWalk]
  /\ UNCHANGED lv

-----------------------------------------------------------------------------

Init ==
  /\ FrontInit
  /\ VolumesInit
  /\ IrqInit
  /\ dom = [i \in Ids |-> "none"]
  /\ attached = {}
  /\ cgroups = {} /\ limited = {}
  /\ member = [i \in Ids |-> {}]
  /\ found = [c \in Containers |-> {}]
  /\ watching = [c \in Containers |-> {}]

Front(c) ==
  Exit(c) \/ DecideCreate(c) \/ DecideExisting(c) \/ MakeDir(c) \/ State(c)

CreateStep(c) ==
  \/ ClearStaleDir(c) \/ GenerateConfig(c) \/ CreateVolume(c) \/ ProvisionLvmRoot(c)
  \/ CreateDomain(c) \/ FindPid(c) \/ StoreCgroupPath(c) \/ JoinCgroup(c)
  \/ LimitCgroup(c) \/ Rollback(c) \/ SpawnWatcher(c) \/ Steer(c)
  \/ StoreInfo(c) \/ StartGuest(c)

TeardownStep(c) ==
  \/ StopGuest(c) \/ RestoreIrqs(c) \/ DestroyDomain(c) \/ TakeVolume(c)
  \/ RemoveCgroup(c) \/ RemoveRunDir(c) \/ Cleanup(c)

Next ==
  \/ \E c \in Containers :
       \/ (Invoke(c) \/ Front(c)) /\ UNCHANGED backVars
       \/ CreateStep(c) \/ TeardownStep(c) \/ Crash(c)
  \/ \E i \in Ids : QemuExits(i)
  \/ Reboot

Spec == Init /\ [][Next]_vars

Step(c) == (Front(c) /\ UNCHANGED backVars) \/ CreateStep(c) \/ TeardownStep(c)

\* Each process is scheduled; the engine owes no further command.
FairSpec == Spec /\ \A c \in Containers : WF_vars(Step(c))

-----------------------------------------------------------------------------
(* Properties                                                              *)

\* The variables have their types.
TypeOK ==
  /\ bundle \in [Containers -> Bundles \cup {NoBundle}]
  /\ status \in [Containers -> Statuses]
  /\ verb \in [Containers -> Verbs \cup {"none"}]
  /\ pc \in [Containers -> Labels]
  /\ crundir \in SUBSET Ids
  /\ files \in [Ids -> SUBSET FileNames]
  /\ runc \in SUBSET Containers
  /\ lv \in [Ids -> VolumeStates]
  /\ mounted \in SUBSET Ids
  /\ affinity \in [Irqs -> AffinityLists]
  /\ saved \in [Ids -> [Irqs -> SUBSET Cpus]]
  /\ walk \in [Containers ->
               [todo : SUBSET Irqs, at : SUBSET Irqs, map : [Irqs -> SUBSET Cpus]]]
  /\ dom \in [Ids -> DomStates]
  /\ attached \in SUBSET Ids
  /\ cgroups \in SUBSET CgroupIds
  /\ limited \in SUBSET CgroupIds
  /\ member \in [Ids -> SUBSET CgroupIds]
  /\ found \in [Containers -> SUBSET Ids]
  /\ watching \in [Containers -> SUBSET Ids]

\* Containers, directories and domains go through the life cycle of
\* ManagedGuest, also when QEMU ends by itself at any moment.
Guests == INSTANCE ManagedGuest WITH
  known <- {c \in Containers : status[c] # "none" \/ pc[c] # "idle"},
  dir   <- {c \in Containers : IdOf[c] \in crundir},
  guest <- {c \in Containers : dom[IdOf[c]] # "none"}

GuestLifecycle == Guests!Spec

\* config_generator.md:163 of the KVM documentation: lvm "clones the container
\* rootfs into" a volume per container: a domain has a whole copy as its root
\* disk, which the host has not mounted at the same time.
RootIsClone == \A i \in attached : lv[i] = "clone" /\ i \notin mounted

\* A delete that reports success has left neither domain nor volume nor cgroup,
\* whose path is read back from the directory that goes last (lib.rs:184).
DeleteLeavesNothing ==
  \A c \in Containers :
    LET i == IdOf[c] IN
    pc[c] = "ok" /\ verb[c] = "delete" =>
      i \notin Live /\ lv[i] = "none" /\ \A g \in cgroups : g[1] # i

\* lib.rs:100-105: containerd learns of the end of a guest through a watcher:
\* no guest of a container that was created is without one of its own.
EngineSeesGuest ==
  \A c \in Containers :
    status[c] \in {"created", "started"} /\ IdOf[c] \in Live => IdOf[c] \in watching[c]

\* architecture_and_lifecycle.md:295: a domain whose cgroup set-up fails is
\* destroyed "to prevent unconfined VM execution": whatever fails, no guest
\* runs outside a cgroup that has its limits.
RunsConfined ==
  \A i \in Ids : dom[i] = "running" => member[i] \cap limited # {}

\* config_json_reference.md:24: the interrupts are redirected "while the VM
\* runs": all that can be moved.
IrqsSteered ==
  \A c \in Containers :
    LET target == SteerCpus(bundle[c]) IN
    status[c] = "started" /\ pc[c] = "idle" /\ IdOf[c] \in Live /\ target # {} =>
      \A q \in Irqs \ Fixed : affinity[q] = target

\* A kill or delete removes domain, volume, cgroup and state directory even of
\* a container whose create failed half-way: every step of destroyguest
\* (lib.rs:137-195) is taken whatever became of the one before.
TeardownRemovesAll ==
  \A c \in Containers :
    LET i == IdOf[c] IN
    verb[c] \in {"kill", "delete"} /\ pc[c] = "decide_existing" /\ i \in crundir
      ~> /\ i \notin crundir /\ dom[i] = "none" /\ lv[i] = "none"
         /\ \A g \in cgroups : g[1] # i
=============================================================================
