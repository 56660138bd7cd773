------------------------------- MODULE MCXen -------------------------------
(***************************************************************************)
(* The instances of Xen that TLC checks.  As in MCJailhouse an id is the   *)
(* container itself.                                                       *)
(***************************************************************************)
EXTENDS XenInv, TLC

CONSTANTS c1, c2

OwnId == [c \in Containers |-> c]

SwapContainers == Permutations(Containers)

Guest(disk, cpus) ==
  [annotation |-> "none", bootconfig |-> TRUE, wellformed |-> TRUE,
   disk |-> disk, cpus |-> cpus]

Plain     == [Guest("none", 1) EXCEPT !.bootconfig = FALSE]
Malformed == [Guest("none", 1) EXCEPT !.wellformed = FALSE]
Forced    == [Plain EXCEPT !.annotation = "runphi"]
Refused   == [Guest("lvm", 1) EXCEPT !.annotation = "runc"]

\* Every branch of the commands and of the backend; of the two CPUs of the
\* machine, none to two more are asked for than there are.
AllBundles ==
  {Guest("none", 1), Guest("file", 2), Guest("lvm", 1), Guest("lvm", 3),
   Guest("bad", 1), Guest("none", 4), Plain, Malformed, Forced, Refused}

\* Half of the CPUs of a machine with four, and a volume.
TwoCpus == {Guest("lvm", 2)}

AllFaults ==
  {"config", "lscpu", "vcpu_list", "vcpu_offline", "memory", "volume_group",
   "console", "config_write", "lvcreate", "mount", "copy", "umount", "lvremove",
   "xl_create", "caronte", "pidfile", "startguest", "stopguest", "xl_destroy",
   "crash", "reboot"}

\* What the teardown has no second way for: a volume it cannot remove, a
\* domain it cannot destroy, a caronte it does not know, a process that is
\* killed half-way, and volumes that survive a reboot.
Leaks == {"umount", "lvremove", "xl_destroy", "pidfile", "crash", "reboot"}

TidyFaults == AllFaults \ Leaks

\* Guests that have not brought up all of their vCPUs.
Offline == {"vcpu_offline"}

\* What leaves domains, volumes and mounts behind that a later create meets.
LeftoverFaults ==
  {"mount", "copy", "umount", "lvremove", "xl_create", "xl_destroy", "pidfile",
   "crash", "reboot"}
=============================================================================
