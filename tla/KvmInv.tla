------------------------------- MODULE KvmInv -------------------------------
(***************************************************************************)
(* The inductive invariants behind the properties of Kvm, and the          *)
(* conditions under which they hold.  FlowInv says for each container      *)
(* which command is at which label, ConfineInv what is known of the        *)
(* domain, its cgroup and its watcher there.                               *)
(***************************************************************************)
EXTENDS Kvm

\* No two containers share the first 24 characters of their ids.
IdOfInjective == \A c, d \in Containers : IdOf[c] = IdOf[d] => c = d

\* No name of a domain is the beginning of another's: engines draw ids of one
\* length.
MatchExact == \A i \in Ids : Matches[i] = {i}

\* Labels of create before the state directory is made, until there is a
\* domain, until it is confined, and after that.
Before       == {"decide_create", "remove_stale", "make_dir"}
Provisioning == {"config_generate", "createguest"} \cup VolumeLabels
Confining    == {"find_pid", "cgroup_files", "cgroup_join", "cgroup_limit", "rollback"}
Storing      == {"storeinfo", "store_pidfile", "store_os"}
Watched      == SteerLabels \cup Storing
Creating     == Provisioning \cup Confining \cup {"watch"} \cup Watched

\* Labels of a teardown until the domain is destroyed, and after it.
Stopping == {"stopguest", "virsh_destroy"} \cup RestoreLabels
Removing == {"remove_volume", "remove_cgroup", "remove_dir", "cleanup"}

-----------------------------------------------------------------------------
(* Commands, labels and the loop over the interrupts                       *)

\* Only the command create goes through the labels of create, and so on; the
\* engine starts a command only for a container that is ready for it.
VerbInv(c) ==
  /\ pc[c] = "idle" <=> verb[c] = "none"
  /\ pc[c] \in Before \cup Creating => verb[c] = "create"
  /\ pc[c] = "decide_existing" => verb[c] \in {"start", "kill", "delete", "state"}
  /\ pc[c] \in Stopping \cup Removing => verb[c] \in {"kill", "delete"}
  /\ pc[c] = "cleanup" => verb[c] = "delete"
  /\ pc[c] = "startguest" => verb[c] = "start"
  /\ pc[c] = "state" => verb[c] = "state"
  /\ verb[c] = "create" => status[c] = "none" /\ bundle[c] \in Bundles
  /\ verb[c] = "start" => status[c] = "created"
  /\ verb[c] \in {"kill", "delete", "state"} => status[c] # "none"

\* An empty list is never written to an interrupt.
WalkInv(c) ==
  /\ pc[c] \in {"steer_read", "steer_write"} => SteerCpus(bundle[c]) # {}
  /\ pc[c] = "restoring" => \A q \in walk[c].todo : walk[c].map[q] # {}

FlowInv == \A c \in Containers : VerbInv(c) /\ WalkInv(c)

-----------------------------------------------------------------------------
(* Cgroups and watchers                                                    *)

Confined(i) == member[i] \cap limited # {}

\* The engine takes c for created, or is about to.
Guarded(c) ==
  \/ pc[c] \in Watched \/ (pc[c] = "ok" /\ verb[c] = "create")
  \/ status[c] \in {"created", "started"}

\* Of the domain of c: it runs in a cgroup with limits or not at all; between
\* its start and its confinement it is paused; and from there on it stays
\* confined, and watched, as long as it lives.  A domain that an earlier
\* container of that id has left behind keeps virsh from making another.
GuestInv(c) ==
  LET i == IdOf[c] IN
  /\ found[c] \subseteq {i}
  /\ pc[c] \in Confining => dom[i] # "running"
  /\ dom[i] = "running" => Confined(i)
  /\ i \in Live =>
       /\ pc[c] \in {"cgroup_files", "cgroup_join", "cgroup_limit", "watch"} => found[c] = {i}
       /\ pc[c] = "cgroup_limit" => CgroupOf(c) \in member[i]
       /\ pc[c] = "watch" => Confined(i)
       /\ Guarded(c) => Confined(i) /\ i \in watching[c]

\* Every domain is that of a container.
NamesInv == \A i \in Live : \E c \in Containers : i = IdOf[c]

\* At each point of a command the domain is as far confined and watched as the
\* steps that come after it rely on.
ConfineInv == NamesInv /\ \A c \in Containers : GuestInv(c)

\* Every bundle is one that runPHI takes.
AllRunphi == \A b \in Bundles : UsesRunphi(b)

\* A bundle is left to runc only when there is no domain of that name.
RuncHasNoGuest ==
  \A c \in Containers :
    pc[c] = "decide_create" => UsesRunphi(bundle[c]) \/ IdOf[c] \notin Live

\* What a create has found, and what is in a cgroup, is a live QEMU, that of
\* the container whose create or cgroup it is.
MembersInv ==
  /\ \A c \in Containers : found[c] \subseteq {IdOf[c]} \cap Live
  /\ \A i \in Ids : \A g \in member[i] : i \in Live /\ g[1] = i

-----------------------------------------------------------------------------
(* Directories, volumes and cgroups                                        *)

\* No command fails that ends a domain or a mount, and none dies half-way.
GuestsEnd == Faults \cap {"umount", "virsh_destroy", "virsh_spawn", "crash"} = {}

\* Nor does one that removes a volume or a cgroup, and the machine stays up.
TeardownWorks == GuestsEnd /\ Faults \cap {"lvremove", "cgroup_remove", "reboot"} = {}

\* Neither domain nor state directory is left of c.
Gone(c) == IdOf[c] \notin Live /\ IdOf[c] \notin crundir

\* A domain has a state directory, and a mount is one that create is working
\* on; nothing is left of a container that the engine does not know or has
\* deleted; a domain comes after the volume and goes before it.
DirInv(c) ==
  LET i == IdOf[c] IN
  /\ i \in Live => i \in crundir
  /\ i \in mounted => pc[c] \in {"copy", "umount", "umount_failed", "undo_mount"}
  /\ c \in runc => i \notin crundir /\ pc[c] \in {"idle", "decide_existing", "ok", "err"}
  /\ \/ pc[c] = "idle" /\ status[c] = "none"
     \/ pc[c] = "ok" /\ verb[c] = "delete"
     => Gone(c) /\ c \notin runc
  /\ pc[c] \in Before => Gone(c)
  /\ pc[c] \in Creating => i \in crundir
  /\ pc[c] \in Provisioning \cup Removing => i \notin Live

\* Every domain is that of a container, has a state directory, and is gone
\* before the directory is; the engine is not told that a container is deleted
\* as long as anything is left of it.
LifecycleInv == NamesInv /\ \A c \in Containers : DirInv(c)

\* A volume is in the record that the teardown reads, as long as that record
\* is there; it is a whole copy when a domain gets it, and as long as one has it.
VolumeInv(c) ==
  LET i == IdOf[c] IN
  /\ lv[i] # "none" => i \in crundir /\ "disk" \in files[i]
  /\ pc[c] \in {"config_generate", "createguest", "remove_cgroup", "remove_dir", "cleanup"}
       => lv[i] = "none"
  /\ pc[c] \in {"populate", "copy"} => lv[i] # "none"
  /\ pc[c] = "umount" => lv[i] = "clone"
  /\ pc[c] = "create_domain" => lv[i] \in {"none", "clone"}
  /\ i \in attached => lv[i] = "clone"

\* The cgroup of c is the one that the teardown will remove, and there is one
\* only between the first step that makes it and that removal.
CgroupInv(c) ==
  LET i == IdOf[c] IN
  /\ pc[c] \in {"cgroup_join", "cgroup_limit"} => CgroupOf(c) = StoredCgroup(c)
  /\ \A g \in cgroups : g[1] = i =>
       /\ i \in crundir /\ g = StoredCgroup(c)
       /\ pc[c] \notin Provisioning \cup {"find_pid", "cgroup_files", "remove_dir", "cleanup"}

\* Each volume and each cgroup is one that a later teardown finds, by the file
\* disk and the stored path; and the teardown takes them before it removes
\* these.  A domain's root disk is a whole copy.
TidyInv == attached \subseteq Live /\ \A c \in Containers : VolumeInv(c) /\ CgroupInv(c)

-----------------------------------------------------------------------------
(* Interrupts                                                              *)

\* The engine knows of c, or a command is at work for it.
Known(c) == status[c] # "none" \/ pc[c] # "idle"

\* A container of runPHI's whose bundle names CPUs for the interrupts.
Steers(c) == Known(c) /\ UsesRunphi(bundle[c]) /\ SteerCpus(bundle[c]) # {}

\* There is only one such container at a time.
OneSteers == \A c, d \in Containers : Steers(c) /\ Steers(d) => c = d

\* No access to an affinity or to the record fails, and no command dies.
IrqsKept ==
  Faults \cap {"irq_read", "irq_write", "irq_save", "irq_load", "crash"} = {}

HasRecord(c) == "saved_irqs" \in files[IdOf[c]]

\* c has moved interrupts, or may have, and will put them back.
Moving(c) == pc[c] \in SteerLabels \ {"steer"} \/ HasRecord(c)

\* The record is that of a container that steers, holds the affinities of the
\* boot, and is used up by the teardown.
RecordInv(c) ==
  HasRecord(c) =>
    /\ IdOf[c] \in crundir /\ Steers(c) /\ saved[IdOf[c]] = Home
    /\ pc[c] \notin Before \cup Provisioning \cup Confining \cup {"watch", "virsh_destroy"}
                      \cup SteerLabels \cup Removing
    /\ ~(pc[c] = "ok" /\ verb[c] = "delete")

\* An interrupt that a loop has still to come to is where it was at boot, or
\* else where the loop puts it is known.
LoopInv(c) ==
  LET w == walk[c] IN
  /\ pc[c] \in SteerLabels \ {"steer"} =>
       /\ SteerCpus(bundle[c]) # {}
       /\ \A q \in w.todo : affinity[q] = Home[q]
       /\ \A q \in Irqs \ w.todo : w.map[q] = Home[q]
  /\ pc[c] = "steer_write" => w.at \cap w.todo = {}
  /\ pc[c] = "steer_save" => w.todo = {}
  /\ pc[c] = "restoring" =>
       /\ HasRecord(c) /\ w.map = Home
       /\ \A q \in Irqs \ w.todo : affinity[q] = Home[q]

\* A create past the decision is that of one of runPHI's containers, which has
\* a state directory from make_dir on.
CreateInv(c) ==
  /\ pc[c] \in (Before \ {"decide_create"}) \cup Creating => UsesRunphi(bundle[c])
  /\ pc[c] \in Creating => IdOf[c] \in crundir

\* All interrupts are where they were at boot, except for those that the one
\* container that steers has moved and knows the way back of.
HomeInv ==
  /\ \A q \in Fixed : affinity[q] = Home[q]
  /\ affinity # Home => \E c \in Containers : Moving(c)
  /\ \A c \in Containers : RecordInv(c) /\ LoopInv(c) /\ CreateInv(c)

\* No write of an affinity fails, and what ends a guest does.
SteeringWorks == GuestsEnd /\ "irq_write" \notin Faults

\* Labels and states in which the interrupts are to be where c wants them.
Held(c) ==
  /\ c \notin runc
  /\ \/ pc[c] \in Storing \/ (pc[c] = "ok" /\ verb[c] = "create")
     \/ status[c] \in {"created", "started"} /\ verb[c] \notin {"kill", "delete"}
  /\ SteerCpus(bundle[c]) # {}

\* All that can be moved are where c wants them, but for those in S.
SteeredBut(c, S) == \A q \in Irqs \ (Fixed \cup S) : affinity[q] = SteerCpus(bundle[c])

\* A record is that of a container that steers; the loop of c leaves every
\* interrupt that can be moved where c wants it, and there it stays.
SteeringInv(c) ==
  /\ HasRecord(c) => IdOf[c] \in crundir /\ Steers(c)
  /\ pc[c] = "restoring" => HasRecord(c)
  /\ verb[c] \in {"kill", "delete"} => pc[c] # "err"
  /\ Held(c) => Steers(c) /\ SteeredBut(c, {})
  /\ pc[c] = "steer_read" => SteeredBut(c, walk[c].todo)
  /\ pc[c] = "steer_write" =>
       (\E q \in Irqs : walk[c].at = {q}) /\ SteeredBut(c, walk[c].todo \cup walk[c].at)
  /\ pc[c] = "steer_save" => SteerCpus(bundle[c]) # {} /\ SteeredBut(c, {})

SteerInv == \A c \in Containers : SteeringInv(c) /\ CreateInv(c)
=============================================================================
