------------------------------ MODULE LvmRoot ------------------------------
(***************************************************************************)
(* The logical volume that holds a container's root file system: filling   *)
(* it (provision_lvm_root), taking it back, and removing the state         *)
(* directory in which it is mounted meanwhile.  The Xen and the KVM        *)
(* backend have a copy each of this code; it differs in what happens       *)
(* before lvcreate and after the volume is filled, which is theirs.        *)
(*                                                                         *)
(* The actions say nothing of the variables of the backend: a step of its  *)
(* own conjoins UNCHANGED of them.                                         *)
(***************************************************************************)
EXTENDS OciFrontend

VARIABLES
  lv,      \* lv[i]: the contents of the logical volume lv_<i>
  mounted  \* ids whose volume is mounted in their state directory

volVars == <<lv, mounted>>

VolumeStates == {"none", "blank", "clone"}

VolumeLabels == {"populate", "copy", "umount", "umount_failed", "undo_mount",
                 "undo_volume", "create_domain"}

VolumesInit == lv = [i \in Ids |-> "none"] /\ mounted = {}

-----------------------------------------------------------------------------
(* createguest: provision_lvm_root after lvcreate                          *)

\* One command on the volume of c.
Provision(c, from) ==
  /\ pc[c] = from
  /\ UNCHANGED <<bundle, status, verb, crundir, files, runc>>

\* mkfs.ext4, create_dir_all of mnt, mount.
MountVolume(c) ==
  /\ Provision(c, "populate")
  /\ \/ mounted' = mounted \cup {IdOf[c]} /\ Goto(c, "copy")
     \/ Fault("mount") /\ Goto(c, "undo_mount") /\ UNCHANGED mounted
  /\ UNCHANGED lv

\* Mutant: the result of cp is not looked at.
MutCopyRootfs(c) ==
  /\ Provision(c, "copy")
  /\ \/ lv' = [lv EXCEPT ![IdOf[c]] = "clone"]
     \/ Fault("copy") /\ UNCHANGED lv
  /\ Goto(c, "umount")
  /\ UNCHANGED mounted

\* cp -a; its failure is reported after the umount.
CopyRootfs(c) ==
  /\ Provision(c, "copy")
  /\ \/ lv' = [lv EXCEPT ![IdOf[c]] = "clone"] /\ Goto(c, "umount")
     \/ Fault("copy") /\ Goto(c, "umount_failed") /\ UNCHANGED lv
  /\ UNCHANGED mounted

UmountVolume(c) ==
  /\ \/ Provision(c, "umount") /\ mounted' = mounted \ {IdOf[c]} /\ Goto(c, "create_domain")
     \/ Provision(c, "umount") /\ Fault("umount") /\ Goto(c, "undo_mount") /\ UNCHANGED mounted
     \/ /\ Provision(c, "umount_failed")
        /\ mounted' = mounted \ {IdOf[c]} \/ (Fault("umount") /\ UNCHANGED mounted)
        /\ Goto(c, "undo_mount")
  /\ UNCHANGED lv

\* "Best-effort cleanup": neither result is looked at.
UndoMount(c) ==
  /\ Provision(c, "undo_mount")
  /\ mounted' = mounted \ {IdOf[c]} \/ (Fault("umount") /\ UNCHANGED mounted)
  /\ Goto(c, "undo_volume")
  /\ UNCHANGED lv

\* lvremove refuses a volume that is mounted or the disk of a domain.
InUse(i, disks) == i \in mounted \cup disks

UndoVolume(c, disks) ==
  /\ Provision(c, "undo_volume")
  /\ \/ ~InUse(IdOf[c], disks) /\ lv' = [lv EXCEPT ![IdOf[c]] = "none"]
     \/ (InUse(IdOf[c], disks) \/ Fault("lvremove")) /\ UNCHANGED lv
  /\ ReturnErr(c, "createguest")
  /\ UNCHANGED mounted

\* The steps from mkfs to the end of provision_lvm_root.
Populate(c, disks) ==
  MountVolume(c) \/ CopyRootfs(c) \/ UmountVolume(c) \/ UndoMount(c) \/ UndoVolume(c, disks)

-----------------------------------------------------------------------------
(* destroyguest                                                            *)

\* Mutants: the volume of another name is removed; without a volume the
\* teardown skips the step that follows.
MutRemoveOther(c, disks, next) ==
  /\ pc[c] = "remove_volume"
  /\ files' = [files EXCEPT ![IdOf[c]] = @ \ {"disk"}]
  /\ Goto(c, next)
  /\ UNCHANGED <<bundle, status, verb, crundir, runc, lv, mounted>>

MutRemoveOrReturn(c, disks, next) ==
  /\ pc[c] = "remove_volume"
  /\ IF "disk" \in files[IdOf[c]]
       THEN /\ lv' = [lv EXCEPT ![IdOf[c]] = "none"]
            /\ files' = [files EXCEPT ![IdOf[c]] = @ \ {"disk"}]
            /\ Goto(c, next)
       ELSE Goto(c, "remove_dir") /\ UNCHANGED <<lv, files>>
  /\ UNCHANGED <<bundle, status, verb, crundir, runc, mounted>>

\* lvremove of the volume that the file disk names, and of that file; a
\* failure is logged and the teardown goes on.
RemoveVolume(c, disks, next) ==
  /\ pc[c] = "remove_volume"
  /\ LET i == IdOf[c]
         can == "disk" \in files[i] /\ lv[i] # "none" /\ ~InUse(i, disks)
     IN
     \/ /\ can
        /\ lv' = [lv EXCEPT ![i] = "none"]
        /\ files' = [files EXCEPT ![i] = @ \ {"disk"}]
     \/ (~can \/ Fault("lvremove")) /\ UNCHANGED <<lv, files>>
  /\ Goto(c, next)
  /\ UNCHANGED <<bundle, status, verb, crundir, runc, mounted>>

\* fs::remove_dir_all(crundir).ok(): a volume that is mounted in the directory
\* is emptied with it, and then stops the removal half-way.
RemoveTree(i) ==
  /\ IF i \in mounted
       THEN /\ \E left \in SUBSET files[i] : files' = [files EXCEPT ![i] = left]
            /\ lv' = [lv EXCEPT ![i] = "blank"]
            /\ UNCHANGED crundir
       ELSE /\ files' = [files EXCEPT ![i] = {}]
            /\ crundir' = crundir \ {i}
            /\ UNCHANGED lv
  /\ UNCHANGED <<bundle, status, verb, runc, mounted>>
=============================================================================
