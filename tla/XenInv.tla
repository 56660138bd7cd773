------------------------------- MODULE XenInv -------------------------------
(***************************************************************************)
(* The inductive invariants behind the properties of Xen, and the          *)
(* conditions under which they hold.  FlowInv says which command is at     *)
(* which label; RootInv what becomes of volumes that are disks, CpuInv of  *)
(* the CPUs of guests; LifecycleInv and TidyInv what there is of a         *)
(* container when nothing gets lost.                                       *)
(***************************************************************************)
EXTENDS Xen

\* No two containers share the first 24 characters of their ids.
IdOfInjective == \A c, d \in Containers : IdOf[c] = IdOf[d] => c = d

\* Labels of create before the state directory is made, until there is a
\* domain, and after that.
Before       == {"remove_stale", "make_dir"}
Configured   == {"createguest"} \cup VolumeLabels
Provisioning == {"config_generate"} \cup Configured
Storing      == {"storeinfo", "store_pidfile", "store_os"}
Creating     == Provisioning \cup {"caronte"} \cup Storing

\* Labels of a teardown until the domain is destroyed, and after it.
Stopping == {"stopguest", "destroyguest"}
Removing == {"remove_volume", "signal", "remove_dir", "cleanup"}

-----------------------------------------------------------------------------
(* Commands and labels                                                     *)

\* Only the command create goes through the labels of create, and so on; the
\* engine starts a command only for a container that is ready for it.
VerbInv(c) ==
  /\ pc[c] = "idle" <=> verb[c] = "none"
  /\ pc[c] \in {"decide_create"} \cup Before \cup Creating => verb[c] = "create"
  /\ pc[c] = "decide_existing" => verb[c] \in {"start", "kill", "delete", "state"}
  /\ pc[c] \in Stopping \cup Removing => verb[c] \in {"kill", "delete"}
  /\ pc[c] = "cleanup" => verb[c] = "delete"
  /\ pc[c] = "startguest" => verb[c] = "start"
  /\ pc[c] = "state" => verb[c] = "state"
  /\ verb[c] = "create" => status[c] = "none" /\ bundle[c] \in Bundles
  /\ verb[c] = "start" => status[c] = "created"
  /\ verb[c] \in {"kill", "delete", "state"} => status[c] # "none"

FlowInv == \A c \in Containers : VerbInv(c)

-----------------------------------------------------------------------------
(* Root disks and CPUs, whatever fails                                     *)

\* Every domain is that of a container.
NamesInv == \A i \in Live : \E c \in Containers : i = IdOf[c]

\* A volume that is the disk of a domain is whole and stays as it is; create
\* works only on one that is not, and asks for a domain only when it is done.
\* What config.cfg says of the disk is what the file disk says.
DiskInv(c) ==
  LET i == IdOf[c] IN
  /\ i \in Disks => lv[i] = "clone" /\ i \notin mounted
  /\ pc[c] \in VolumeLabels \ {"create_domain"} => i \notin Disks
  /\ pc[c] = "umount" => lv[i] = "clone"
  /\ pc[c] \in Configured /\ cfg[i].lvm => "disk" \in files[i]
  /\ pc[c] = "create_domain" /\ cfg[i].lvm => lv[i] = "clone" /\ i \notin mounted

RootInv == NamesInv /\ \A c \in Containers : DiskInv(c)

\* One command at a time.
OneCommand == MaxProcs = 1

\* No guest has a vCPU offline, or else each has only one, which is online.
NoneOffline == "vcpu_offline" \notin Faults \/ \A b \in Bundles : b.cpus \in {0, 1}

\* xl vcpu-list shows each of these CPUs, if a guest is pinned to them.
Shown(cpus) == "vcpu_offline" \notin Faults \/ \A x, y \in cpus : x = y

ShownInv == \A i \in Ids : Shown(cfg[i].cpus) /\ Shown(conf[i].cpus)

\* Only one container has a command, and the CPUs that its config.cfg asks
\* for are those of no guest; xl vcpu-list shows all of a guest's CPUs.
CpuInv ==
  /\ CpusExclusive
  /\ ShownInv
  /\ \A c, d \in Active : c = d
  /\ \A c \in Containers :
       pc[c] \in Configured => \A j \in Live : cfg[IdOf[c]].cpus \cap conf[j].cpus = {}

-----------------------------------------------------------------------------
(* Directories, volumes and carontes                                       *)

\* No command fails that ends a domain or a mount, and none dies half-way.
GuestsEnd == Faults \cap {"umount", "xl_destroy", "crash"} = {}

\* Nor does one that removes a volume or writes the pid of a caronte, and the
\* machine stays up.
TeardownWorks == GuestsEnd /\ Faults \cap {"lvremove", "pidfile", "reboot"} = {}

\* Neither domain nor state directory is left of c.
Gone(c) == IdOf[c] \notin Live /\ IdOf[c] \notin crundir

\* A domain has a state directory, and a mount is one that create is working
\* on; nothing is left of a container that the engine does not know or has
\* deleted; a domain comes after the volume and goes before it.
DirInv(c) ==
  LET i == IdOf[c] IN
  /\ i \in Live => i \in crundir
  /\ i \in mounted => pc[c] \in {"copy", "umount", "umount_failed", "undo_mount"}
  /\ c \in runc => i \notin crundir /\ pc[c] \in {"idle", "decide_existing", "ok", "err"}
  /\ \/ pc[c] = "idle" /\ status[c] = "none"
     \/ pc[c] = "ok" /\ verb[c] = "delete"
     => Gone(c) /\ c \notin runc
  /\ pc[c] \in {"decide_create"} \cup Before => Gone(c)
  /\ pc[c] \in Creating => i \in crundir
  /\ pc[c] \in Provisioning \cup Removing => i \notin Live

\* Every domain is that of a container, has a state directory, and is gone
\* before the directory is; the engine is not told that a container is deleted
\* as long as anything is left of it.
LifecycleInv == NamesInv /\ \A c \in Containers : DirInv(c)

\* A volume is in the record that the teardown reads; a create starts with
\* none, fills the one it has made, and a teardown that has passed
\* remove_volume leaves none.
VolumeInv(c) ==
  LET i == IdOf[c] IN
  /\ lv[i] # "none" => i \in crundir /\ "disk" \in files[i]
  /\ pc[c] \in {"config_generate", "createguest", "signal", "remove_dir", "cleanup"}
       => lv[i] = "none"
  /\ pc[c] \in {"populate", "copy"} => lv[i] # "none"

\* The pidfile leads to the caronte, but for the moment between the start of
\* the one and the writing of the other.
CaronteInv(c) ==
  LET i == IdOf[c] IN
  /\ c \in caronte => i \in crundir
  /\ c \in caronte => \/ pc[c] \in {"storeinfo", "store_pidfile"}
                      \/ "pidfile" \in files[i] /\ c \in pidref[i]
  /\ pc[c] \in Provisioning \cup {"caronte", "remove_dir", "cleanup"} => c \notin caronte

\* Each volume and each caronte is one that a later teardown finds, by the
\* file disk and the file pidfile; and the teardown takes them before it
\* removes these.
TidyInv ==
  NoLeakedVolume /\ \A c \in Containers : VolumeInv(c) /\ CaronteInv(c)
=============================================================================
