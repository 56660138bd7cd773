-------------------------------- MODULE Xen --------------------------------
(***************************************************************************)
(* runPHI with the Xen backend: the functions of backend_xen/src/lib.rs    *)
(* and config_generate, run by the commands of OciFrontend, with the Xen   *)
(* domains, the logical volumes that hold their root file systems, and the *)
(* caronte processes that stand for the containers.                        *)
(*                                                                         *)
(* A step ends where another process, or a crash, can see the effect: at   *)
(* every xl, lvm or mount command and every change of the state directory. *)
(*                                                                         *)
(* Simplifications: config_generate is one step (it changes only its own   *)
(* directory); a killed runphi process takes the tool it runs with it; the *)
(* sizes of memory and volumes are left to Xen and LVM, where a lack of    *)
(* them is one of the failures of the checks and of xl create and          *)
(* lvcreate; process ids are not reused.                                   *)
(***************************************************************************)
EXTENDS LvmRoot

CONSTANT NCpus \* the physical CPUs of the machine

ASSUME NCpusAssumption == NCpus \in Nat \ {0}

VARIABLES
  cfg,     \* cfg[i]: the contents of config.cfg of i
  dom,     \* dom[i]: the state of the domain named i
  conf,    \* conf[i]: the configuration that domain was built from
  caronte, \* containers whose caronte process runs
  pidref   \* pidref[i]: whose caronte the file pidfile of i leads to

domVars == <<cfg, dom, conf, caronte, pidref>>
backVars == <<domVars, volVars>>
vars == <<feVars, backVars>>

\* No configuration; a domain with cpus = {} is not pinned.
NoCfg == [lvm |-> FALSE, cpus |-> {}]

DomStates == {"none", "paused", "running"}

XenLabels == {"caronte", "store_pidfile", "store_os", "remove_volume", "signal",
              "remove_dir"}

FileNames == {"config", "disk", "console", "bundle", "pidfile", "OS"}

Labels == FrontLabels \cup VolumeLabels \cup XenLabels

Live == {i \in Ids : dom[i] # "none"}

Cpus == {x \in 0 .. NCpus : x < NCpus}

Put(i, names) == files' = [files EXCEPT ![i] = @ \cup names]

-----------------------------------------------------------------------------
(* config_generate                                                         *)

\* Mutant: a domain that is still paused is overlooked.
MutListings(i) ==
  IF dom[i] = "paused" THEN {{}}
  ELSE IF conf[i].cpus = {} THEN {{x} : x \in Cpus} ELSE {conf[i].cpus}

\* What the CPU column of xl vcpu-list may name of a domain: for one that is not
\* pinned the CPU it happens to be on, else the CPUs of its vCPUs that are
\* online; cpuconf skips the line of any other, whose CPU is "-".  xl create -p
\* leaves the first vCPU online, the guest brings up the others when it runs.
Listings(i) ==
  LET pinned == conf[i].cpus IN
  IF pinned = {} THEN {{x} : x \in Cpus}
  ELSE {pinned} \cup
       {shown \in SUBSET pinned :
          /\ Fault("vcpu_offline") /\ shown # {}
          /\ dom[i] = "paused" => \E x \in shown : \A y \in pinned : x <= y}

\* free_cpus of cpuconf, for each answer of lscpu and xl vcpu-list.
FreeCpus ==
  {all \ UNION {shown[i] : i \in Live} :
     all \in IF Fault("lscpu") THEN {Cpus, {}} ELSE {Cpus},
     shown \in {f \in [Live -> SUBSET Cpus] : \A i \in Live : f[i] \in Listings(i)}}

\* The last n of the sorted list of free CPUs.  If they are too few, the
\* caller discards the error and the guest is not pinned at all.
PinTo(free, n) ==
  IF n > Cardinality(free) THEN {}
  ELSE {x \in free : Cardinality({y \in free : y > x}) < n}

\* "free_cpus.len()+1 < cpus" lets through a request for one CPU too many,
\* and the slice that follows panics.
Panics(free, n) == n = Cardinality(free) + 1

\* memconf: xl info fails, or shows less free memory than asked for.
MemoryRefused == Fault("memory")

\* diskconf does not know the disk_type, or the image is not there; for a
\* volume, the free space of the group is too small or cannot be found out.
MustRefuseDisk(b) == b.disk = "bad"
MayRefuseDisk(b)  == MustRefuseDisk(b) \/ (b.disk = "lvm" /\ Fault("volume_group"))

\* The file in which diskconf records the volume it plans.
PlannedVolume(b) == IF b.disk = "lvm" THEN {"disk"} ELSE {}

\* After diskconf come the file console and, in confighelperend, config.cfg,
\* whose error is ignored.
WriteConfig(c, cpus) ==
  LET i    == IdOf[c]
      lvm  == bundle[c].disk = "lvm"
      plan == {"console"} \cup PlannedVolume(bundle[c])
  IN
  \/ /\ Put(i, plan \cup {"config"})
     /\ cfg' = [cfg EXCEPT ![i] = [lvm |-> lvm, cpus |-> cpus]]
     /\ ReturnOk(c, "config_generate")
  \/ /\ Fault("config_write")
     /\ files' = [files EXCEPT ![i] = (@ \cup plan) \ {"config"}]
     /\ cfg' = [cfg EXCEPT ![i] = NoCfg]
     /\ ReturnOk(c, "config_generate")
  \/ /\ Fault("console")
     /\ Put(i, plan \ {"console"})
     /\ ReturnErr(c, "config_generate")
     /\ UNCHANGED cfg

\* get_from_file, cpuconf, memconf and diskconf may also end it early.
GenerateConfig(c) ==
  /\ pc[c] = "config_generate"
  /\ LET n == bundle[c].cpus IN
     \/ /\ bundle[c].bootconfig /\ ~MustRefuseDisk(bundle[c])
        /\ \/ \E free \in FreeCpus : ~Panics(free, n) /\ WriteConfig(c, PinTo(free, n))
           \/ Fault("vcpu_list") /\ WriteConfig(c, {})
     \/ /\ \/ ~bundle[c].bootconfig
           \/ \E free \in FreeCpus : Panics(free, n)
           \/ MemoryRefused \/ MayRefuseDisk(bundle[c])
        /\ ReturnErr(c, "config_generate")
        /\ UNCHANGED <<files, cfg>>
  /\ UNCHANGED <<bundle, status, verb, crundir, runc,
                 dom, conf, lv, mounted, caronte, pidref>>

-----------------------------------------------------------------------------
(* createguest: provision_lvm_root, xl create -p, caronte                  *)

\* Without the file disk there is nothing to provision.
CreateVolume(c) ==
  /\ Provision(c, "createguest")
  /\ LET i == IdOf[c] IN
     \/ /\ "disk" \notin files[i]
        /\ Goto(c, "create_domain")
        /\ UNCHANGED lv
     \/ /\ "disk" \in files[i] /\ lv[i] = "none"
        /\ lv' = [lv EXCEPT ![i] = "blank"]
        /\ Goto(c, "populate")
     \/ /\ "disk" \in files[i]
        /\ lv[i] # "none" \/ Fault("lvcreate")
        /\ ReturnErr(c, "createguest")
        /\ UNCHANGED lv
  /\ UNCHANGED <<mounted, domVars>>

\* The domains whose disk is a volume.
Disks == {i \in Live : conf[i].lvm}

\* provision_lvm_root, and the removal of what it has half done.
ProvisionLvmRoot(c) == Populate(c, Disks) /\ UNCHANGED domVars

\* xl create -p: needs a configuration, a free name and the disk.
CreateDomain(c) ==
  /\ pc[c] = "create_domain"
  /\ LET i == IdOf[c]
         can == "config" \in files[i] /\ i \notin Live /\ (cfg[i].lvm => lv[i] # "none")
     IN
     \/ /\ can
        /\ dom' = [dom EXCEPT ![i] = "paused"]
        /\ conf' = [conf EXCEPT ![i] = cfg[i]]
        /\ Goto(c, "caronte")
     \/ /\ ~can \/ Fault("xl_create")
        /\ ReturnErr(c, "createguest")
        /\ UNCHANGED <<dom, conf>>
  /\ UNCHANGED <<bundle, status, verb, crundir, files, runc,
                 cfg, lv, mounted, caronte, pidref>>

\* Start caronte and write its pid where the engine wants it.
SpawnCaronte(c) ==
  /\ pc[c] = "caronte"
  /\ \/ /\ caronte' = caronte \cup {c}
        /\ ReturnOk(c, "createguest") \/ (Fault("pidfile") /\ ReturnErr(c, "createguest"))
     \/ Fault("caronte") /\ ReturnErr(c, "createguest") /\ UNCHANGED caronte
  /\ UNCHANGED <<bundle, status, verb, crundir, files, runc,
                 cfg, dom, conf, lv, mounted, pidref>>

-----------------------------------------------------------------------------
(* storeinfo and startguest                                                *)

\* Mutant: a file of a name that no reader knows.
MutStore(c, from, name) ==
  /\ pc[c] = from
  /\ Put(IdOf[c], {IF name = "pidfile" THEN "pid" ELSE name})
  /\ UNCHANGED <<bundle, status, verb, crundir, runc,
                 cfg, dom, conf, lv, mounted, caronte>>

\* storeinfo writes bundle, pidfile and OS, in that order.
Store(c, from, name) ==
  /\ pc[c] = from
  /\ Put(IdOf[c], {name})
  /\ UNCHANGED <<bundle, status, verb, crundir, runc,
                 cfg, dom, conf, lv, mounted, caronte>>

StoreInfo(c) ==
  \/ Store(c, "storeinfo", "bundle") /\ Goto(c, "store_pidfile") /\ UNCHANGED pidref
  \/ /\ Store(c, "store_pidfile", "pidfile")
     /\ Goto(c, "store_os")
     /\ pidref' = [pidref EXCEPT ![IdOf[c]] = {c}]
  \/ Store(c, "store_os", "OS") /\ ReturnOk(c, "storeinfo") /\ UNCHANGED pidref

\* xl unpause of startguest, xl pause of stopguest.
SetDomain(c, call, from, to) ==
  /\ pc[c] = call
  /\ LET i == IdOf[c] IN
     \/ /\ i \in Live
        /\ dom' = [dom EXCEPT ![i] = IF @ = from THEN to ELSE @]
        /\ ReturnOk(c, call)
     \/ /\ i \notin Live \/ Fault(call)
        /\ ReturnErr(c, call)
        /\ UNCHANGED dom
  /\ UNCHANGED <<bundle, status, verb, crundir, files, runc,
                 cfg, conf, lv, mounted, caronte, pidref>>

StartGuest(c) == SetDomain(c, "startguest", "paused", "running")
StopGuest(c)  == SetDomain(c, "stopguest", "running", "paused")

-----------------------------------------------------------------------------
(* destroyguest and cleanup                                                *)

\* Mutant: the domain is asked to shut down, which a paused one does not do.
MutDestroyDomain(c) ==
  /\ pc[c] = "destroyguest"
  /\ Goto(c, "remove_volume")
  /\ UNCHANGED <<bundle, status, verb, crundir, files, runc,
                 cfg, dom, conf, lv, mounted, caronte, pidref>>

\* xl destroy; a failure is logged and the teardown goes on.
DestroyDomain(c) ==
  /\ pc[c] = "destroyguest"
  /\ LET i == IdOf[c] IN
     \/ dom' = [dom EXCEPT ![i] = "none"] /\ conf' = [conf EXCEPT ![i] = NoCfg]
     \/ Fault("xl_destroy") /\ UNCHANGED <<dom, conf>>
  /\ Goto(c, "remove_volume")
  /\ UNCHANGED <<bundle, status, verb, crundir, files, runc,
                 cfg, lv, mounted, caronte, pidref>>

\* lvremove, whatever became of xl destroy.
TakeVolume(c) == RemoveVolume(c, Disks, "signal") /\ UNCHANGED domVars

\* SIGTERM to caronte, if the pidfile leads to it.
SignalCaronte(c) ==
  /\ pc[c] = "signal"
  /\ caronte' = IF "pidfile" \in files[IdOf[c]] THEN caronte \ pidref[IdOf[c]] ELSE caronte
  /\ Goto(c, "remove_dir")
  /\ UNCHANGED <<bundle, status, verb, crundir, files, runc,
                 cfg, dom, conf, lv, mounted, pidref>>

\* The state directory, and with it what its files say.
RemoveAll(i) ==
  /\ RemoveTree(i)
  /\ cfg' = [cfg EXCEPT ![i] = IF "config" \in files'[i] THEN @ ELSE NoCfg]
  /\ pidref' = [pidref EXCEPT ![i] = IF "pidfile" \in files'[i] THEN @ ELSE {}]
  /\ UNCHANGED <<dom, conf, caronte>>

\* RemoveStaleDir of main.rs, where a volume may still be mounted.
ClearStaleDir(c) ==
  pc[c] = "remove_stale" /\ RemoveAll(IdOf[c]) /\ Goto(c, "make_dir")

RemoveRunDir(c) ==
  pc[c] = "remove_dir" /\ RemoveAll(IdOf[c]) /\ ReturnOk(c, "destroyguest")

Cleanup(c) == pc[c] = "cleanup" /\ RemoveAll(IdOf[c]) /\ ReturnOk(c, "cleanup")

-----------------------------------------------------------------------------
(* The environment                                                         *)

\* A guest powers itself off; a crashed one is preserved (on_crash).
PowerOff(i) ==
  /\ dom[i] = "running"
  /\ dom' = [dom EXCEPT ![i] = "none"]
  /\ conf' = [conf EXCEPT ![i] = NoCfg]
  /\ UNCHANGED <<feVars, cfg, lv, mounted, caronte, pidref>>

Crash(c) == CrashFrontend(c) /\ UNCHANGED backVars

\* Only the volumes are on a disk.
Reboot ==
  /\ RebootFrontend
  /\ cfg' = [i \in Ids |-> NoCfg]
  /\ dom' = [i \in Ids |-> "none"]
  /\ conf' = [i \in Ids |-> NoCfg]
  /\ mounted' = {}
  /\ caronte' = {}
  /\ pidref' = [i \in Ids |-> {}]
  /\ UNCHANGED lv

-----------------------------------------------------------------------------

Init ==
  /\ FrontInit
  /\ cfg = [i \in Ids |-> NoCfg]
  /\ VolumesInit
  /\ dom = [i \in Ids |-> "none"]
  /\ conf = [i \in Ids |-> NoCfg]
  /\ caronte = {}
  /\ pidref = [i \in Ids |-> {}]

Front(c) ==
  Exit(c) \/ DecideCreate(c) \/ DecideExisting(c) \/ MakeDir(c) \/ State(c)

CreateStep(c) ==
  \/ ClearStaleDir(c) \/ GenerateConfig(c) \/ CreateVolume(c)
  \/ ProvisionLvmRoot(c) \/ CreateDomain(c) \/ SpawnCaronte(c) \/ StoreInfo(c) \/ StartGuest(c)

TeardownStep(c) ==
  \/ StopGuest(c) \/ DestroyDomain(c) \/ TakeVolume(c) \/ SignalCaronte(c)
  \/ RemoveRunDir(c) \/ Cleanup(c)

Next ==
  \/ \E c \in Containers :
       \/ (Invoke(c) \/ Front(c)) /\ UNCHANGED backVars
       \/ CreateStep(c) \/ TeardownStep(c) \/ Crash(c)
  \/ \E i \in Ids : PowerOff(i)
  \/ Reboot

Spec == Init /\ [][Next]_vars

Step(c) == (Front(c) /\ UNCHANGED backVars) \/ CreateStep(c) \/ TeardownStep(c)

\* Each process is scheduled; the engine owes no further command.
FairSpec == Spec /\ \A c \in Containers : WF_vars(Step(c))
-----------------------------------------------------------------------------
(* Properties                                                              *)

\* The variables have their types.
TypeOK ==
  /\ bundle \in [Containers -> Bundles \cup {NoBundle}]
  /\ status \in [Containers -> Statuses]
  /\ verb \in [Containers -> Verbs \cup {"none"}]
  /\ pc \in [Containers -> Labels]
  /\ crundir \in SUBSET Ids
  /\ files \in [Ids -> SUBSET FileNames]
  /\ runc \in SUBSET Containers
  /\ cfg \in [Ids -> [lvm : BOOLEAN, cpus : SUBSET Cpus]]
  /\ dom \in [Ids -> DomStates]
  /\ conf \in [Ids -> [lvm : BOOLEAN, cpus : SUBSET Cpus]]
  /\ lv \in [Ids -> VolumeStates]
  /\ mounted \in SUBSET Ids
  /\ caronte \in SUBSET Containers
  /\ pidref \in [Ids -> SUBSET Containers]

\* Containers, directories and domains go through the life cycle of
\* ManagedGuest.  Only a domain that xl destroy fails to destroy, and a
\* directory that a mounted volume keeps from being removed, do not.
Guests == INSTANCE ManagedGuest WITH
  known <- {c \in Containers : status[c] # "none" \/ pc[c] # "idle"},
  dir   <- {c \in Containers : IdOf[c] \in crundir},
  guest <- {c \in Containers : dom[IdOf[c]] # "none"}

GuestLifecycle == Guests!Spec

\* lib.rs:59-60: "a failed create leaves no leaked volume behind".  A volume
\* that no file disk names is one that no later command will remove.
NoLeakedVolume == \A i \in Ids : lv[i] # "none" => "disk" \in files[i]

\* A domain boots from a whole copy of the container's root file system,
\* which stays its disk, and which dom0 has not mounted at the same time.
RootIsClone ==
  \A i \in Live : conf[i].lvm => lv[i] = "clone" /\ i \notin mounted

\* Guests that are pinned do not share a CPU: cpuconf takes away from the CPUs
\* "the pCPU pinned by Guest" (cpu.rs:72) and assigns what is left.  It does
\* that for the vCPUs that are online only.
CpusExclusive ==
  \A i, j \in Live : i # j => conf[i].cpus \cap conf[j].cpus = {}

\* x86_xen_linux_howto.md:309-310: "`docker rm -f` removes the domain **and**
\* the LV": a delete that reports success has left neither.
DeleteRemovesGuest ==
  \A c \in Containers :
    pc[c] = "ok" /\ verb[c] = "delete" => IdOf[c] \notin Live /\ lv[IdOf[c]] = "none"

\* lib.rs:155-157 tolerates a missing pidfile, since "caronte is spawned only
\* after a successful xl create": a delete that reports success leaves none.
DeleteEndsCaronte ==
  \A c \in Containers : pc[c] = "ok" /\ verb[c] = "delete" => c \notin caronte

\* A kill or delete removes domain, volume and state directory even of a
\* container whose create failed half-way (lib.rs:122-126, 155-158).
TeardownRemovesAll ==
  \A c \in Containers :
    LET i == IdOf[c] IN
    verb[c] \in {"kill", "delete"} /\ pc[c] = "decide_existing" /\ i \in crundir
      ~> i \notin crundir /\ dom[i] = "none" /\ lv[i] = "none"
=============================================================================
