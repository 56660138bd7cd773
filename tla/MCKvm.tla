------------------------------- MODULE MCKvm -------------------------------
(***************************************************************************)
(* The instances of Kvm that TLC checks.  As in MCJailhouse an id is the   *)
(* container itself.                                                       *)
(***************************************************************************)
EXTENDS KvmInv

CONSTANTS c1, c2

OwnId == [c \in Containers |-> c]

\* Of the interrupts, "timer" cannot be moved; they start on all CPUs.
AllCpus == [q \in Irqs |-> Cpus]

\* Names of the same length, as engines draw them; names that a user chose, of
\* which the one is the beginning of the other.
OwnMatches    == [i \in Ids |-> {i}]
PrefixMatches == [i \in Ids |-> IF i = c1 THEN Ids ELSE {i}]

Guest(disk, ownCgroup, steer, ociSteer) ==
  [annotation |-> "none", bootconfig |-> TRUE, wellformed |-> TRUE, disk |-> disk,
   ownCgroup |-> ownCgroup, steer |-> steer, ociSteer |-> ociSteer]

Simple    == Guest("none", FALSE, {}, {})
Plain     == [Simple EXCEPT !.bootconfig = FALSE]
Malformed == [Simple EXCEPT !.wellformed = FALSE]
Forced    == [Plain EXCEPT !.annotation = "runphi"]
Refused   == [Simple EXCEPT !.annotation = "runc"]

\* Every branch of the commands and of the backend: each kind of disk, of
\* cgroup path and of steering.
AllBundles ==
  {Simple, Guest("file", TRUE, {}, {}), Guest("lvm", TRUE, {0}, {1}),
   Guest("lvm", FALSE, {}, {1}), Guest("bad", FALSE, {}, {}),
   Plain, Malformed, Forced, Refused}

\* A volume; a cgroup path of its own and steering.
TwoKinds == {Guest("lvm", FALSE, {}, {}), Guest("none", TRUE, {0}, {})}

JustSteered == {Guest("none", FALSE, {0}, {}), Guest("none", FALSE, {1}, {})}

JustVolume == {Guest("lvm", FALSE, {}, {})}

JustSimple == {Simple}

AllFaults ==
  {"config", "volume_group", "config_write", "lvcreate", "mount", "copy", "umount",
   "lvremove", "virsh_create", "pgrep", "cgroup_files", "cgroup_join", "cgroup_limit",
   "watcher", "pidfile", "irq_dir", "irq_read", "irq_write", "irq_save", "irq_load",
   "startguest", "stopguest", "virsh_destroy", "virsh_spawn", "cgroup_remove",
   "crash", "reboot"}

\* What the teardown has no second way for: volumes, domains and cgroups that
\* cannot be removed, affinities that were not saved or cannot be written, a
\* process that is killed half-way, and volumes that survive a reboot.
Leaks ==
  {"umount", "lvremove", "irq_read", "irq_write", "irq_save", "irq_load",
   "virsh_destroy", "virsh_spawn", "cgroup_remove", "crash", "reboot"}

TidyFaults == AllFaults \ Leaks

RebootFault == {"reboot"}

NoFaults == {}
=============================================================================
