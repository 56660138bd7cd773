# A formal model of runPHI

runPHI is an OCI runtime that runs containers as partitions of a hypervisor:
Jailhouse cells, Xen domains or KVM machines. A container engine calls it as it
would call runc, one short-lived process per OCI command; containers that are not
meant for a hypervisor are handed on to runc.

This directory holds TLA+ modules that follow the Rust sources, TLC
configurations that check them on small instances, and proofs, checked by TLAPS,
that the most important properties hold for instances of every size.
Paths below are relative to `src/`; `rust_runphi/crates/` is left out.

## 1. Inventory

### Parts, state and operations

| Part | Source | State | Operations |
|---|---|---|---|
| OCI front end | `runphi/src/main.rs`, `frontend/commands.rs` | the state directory `/run/runPHI/<id>` | `create`, `start`, `kill`, `delete`, `state` |
| Forwarding | `runphi/src/forwarding.rs` | none (it looks for the state directory) | `decide_create`, `decide_existing`, `call_runc` |
| Jailhouse backend | `backend_jailhouse/src/lib.rs`, `configGenerator.rs` | the files in the state directory, the hypervisor's cells | `config_generate`, `createguest`, `storeinfo`, `startguest`, `stopguest`, `destroyguest`, `cleanup` |
| Resource accounting | `configGenerator.rs`, `configGenerator/mem.rs`, `rpu.rs`, `device.rs`, `lib.rs` | `/usr/share/runPHI/state.toml`, shared by all processes | `retrieve_state`, first-fit allocation, `save_state`, `destroy_update_state` |
| Cell configuration text | `configGenerator/{cpu,device,mem,templates}.rs` | `tocompile.c`, `<id>.cell` | source generation, gcc, objcopy |
| caronte | `target/runPHI_cell_configs/caronte` | one process per container | stands for the container's init; boots a linux cell in the background |
| Xen backend | `backend_xen/src/lib.rs`, `configGenerator.rs` | the files in the state directory, Xen's domains, a logical volume per container | the same seven functions, with `provision_lvm_root` |
| Xen domain configuration | `configGenerator/{cpu,mem,disk,boot}.rs` | `config.cfg`, the file `disk` | CPUs to pin, memory check, plan of the volume |
| KVM backend | `backend_kvm/src/lib.rs`, `configGenerator/` | the files in the state directory, libvirt's domains and their QEMU processes, a volume and a watcher process per container | the same seven functions, with `provision_lvm_root` and the roll-back of the cgroup set-up |
| cgroups | `backend_kvm/src/cgroups.rs` | a cgroup per container, its path in the file `cgroup_path` | `setup_cgroups`, `destroy_cgroups` |
| IRQ steering | `backend_kvm/src/irq.rs` | `/proc/irq/*/smp_affinity_list`, shared by all; `saved_irq_affinities.json` of each container | `apply_irq_steering`, `restore_irq_steering` |
| Image configuration | `frontend_to_backend/src/lib.rs` | none | parse `/boot/config.json` |
| Command line parser | `liboci-cli/` | none | argument declarations |
| Logging, timers | `logging/`, `*/timer.rs` | log file | output only |
| Target scripts | `target/*.sh` | installed binaries | run by hand |

### How they interact

- The engine starts a runphi process and takes its exit status. It runs one
  command at a time for a container; commands of different containers overlap.
- `main.rs` decides who is responsible: for `create` the annotation or the file
  `/boot/config.json` in the image, for every other command whether the
  directory `/run/runPHI/<id>` exists. The other side of the decision is runc.
- `commands.rs` calls the backend functions in a fixed order: `create` is
  `config_generate`, `createguest`, `storeinfo`; `kill` is `stopguest`,
  `destroyguest`; `delete` is the same followed by `cleanup`. Only the error of
  `stopguest` is ignored.
- The processes share, without any lock, `state.toml` (read, then truncated and
  written), the hypervisor, and the state directories.
- caronte outlives the process that spawned it. For a linux cell it runs
  `jailhouse cell linux`, so that the cell appears after `create` has returned,
  and it looks at a SIGTERM only when that command is over.
- With Xen the processes share the domains, whose CPUs `xl vcpu-list` shows, and
  the volume group. The volume of a container is mounted inside its state
  directory while the root file system is copied.
- With KVM, QEMU is a child of libvirtd. The engine watches a shell loop (the
  watcher) that ends with QEMU, and `createguest` finds QEMU by its command line. The
  affinities of the interrupts are read and written by every container that asks
  for steering, one interrupt after the other.
- A reboot empties `/run` and the hypervisor, but keeps `state.toml` and the volumes.

### What is hard, and what correct means

`PROJECT.json` lists the hazards at their lines. They come down to these:

| Part | Hard behaviour | Correctness |
|---|---|---|
| Front end | an error or crash half-way through a command; `kill` already removes the directory and the `delete` after it goes to runc | a guest exists only within its state directory, the directory only within the life of the container; a successful delete leaves nothing |
| Forwarding | the directory is the only witness of who created the container | no command reaches the wrong runtime |
| Jailhouse backend | exit statuses that are ignored; `destroy` may fail; linux cells boot asynchronously | every cell can be found and destroyed later; only loaded cells are started; teardown makes progress |
| Accounting | lost updates, torn writes, freeing before destroying, fragmentation | no resource with two holders; what is called free is unused; the pool survives |
| Xen | a teardown that tolerates every failure; provisioning in five commands with a clean-up; CPUs read before they are taken | the contract of `ManagedGuest` where the failures allow it; no leaked volume or caronte; root disks whole; CPUs exclusive |
| KVM | a guest exists before it is confined, and QEMU may end at any step; a roll-back that may fail; tolerated failures; reuse of volumes | the contract of `ManagedGuest`; no guest runs unconfined or without a watcher; a teardown leaves no cgroup, volume or domain |
| IRQ steering | interrupts that cannot be moved; containers that overlap in time | all that can be moved are steered while the guest runs; affinities return to what they were |

## 2. Modules

| Module | What it is |
|---|---|
| `OciFrontend` | front end, forwarding, engine: the variables `pc`, `verb`, `status`, `bundle`, `crundir`, `files`, `runc` and their actions |
| `StateFile` | pure: the contents of `state.toml` and the functions that compute with it |
| `Jailhouse` | extends both: the Jailhouse backend, the hypervisor, caronte, crash and reboot; all properties |
| `ManagedGuest` | abstract: what any backend owes the engine (three sets: `known`, `dir`, `guest`) |
| `JailhouseInv` | the inductive invariants of `Jailhouse` and the conditions they need |
| `JailhouseProofs` | proofs: the life cycle, and that `Jailhouse` implements `ManagedGuest` |
| `StateFileProofs` | lemmas: what allocating, sorting, merging and giving back do to any contents |
| `JailhouseAccounting` | proofs: who holds which resource |
| `GuestMoves` | the moves of a container that are steps of `ManagedGuest`, shared by the three refinement proofs |
| `MCJailhouse` | the instances of `Jailhouse` that TLC checks |
| `LvmRoot` | extends `OciFrontend`: the logical volume of a container, in the code that the Xen and the KVM backend have a copy of each |
| `Xen` | extends `LvmRoot`: the Xen backend, domains, volumes, mounts, caronte, crash and reboot; all properties |
| `XenInv` | the inductive invariants of `Xen` and the conditions they need |
| `XenProofs` | proofs that need nothing of the failures: types, root disks, CPUs |
| `XenLifecycle` | proofs for teardowns that work: life cycle, refinement, volumes, carontes |
| `MCXen` | the instances of `Xen` that TLC checks |
| `IrqSteering` | extends `OciFrontend`: the interrupts of the host and the record each container has of them |
| `Kvm` | extends `LvmRoot` and `IrqSteering`: the KVM backend, domains, cgroups, watchers, crash and reboot; all properties |
| `KvmInv` | the inductive invariants of `Kvm` and the conditions they need |
| `KvmProofs` | proofs that need nothing of the failures: types, the step lemmas of confinement |
| `KvmLifecycle` | proofs: confinement, life cycle, refinement, root disks, cgroups, interrupts |
| `MCKvm` | the instances of `Kvm` that TLC checks |

### Correspondence

`pc[c]` is the program counter of the process that works for container `c`. A
label with the name of a backend function is its entry; labels inside a function
(`"save_truncate"`, `"cell_destroy"`, ...) are the points between two effects
that another process can see: a read or a write of `state.toml`, a `jailhouse`
command, a change of the state directory. `AfterOk` and `AfterErr` are the call
sequences of `commands.rs` with its `?` operators; `ReturnOk` and `ReturnErr`
leave a backend function through them.

| Variable | In the code |
|---|---|
| `crundir`, `files[i]` | `/run/runPHI/<id>` and the files the commands look for in it |
| `file` | `state.toml`; `intact` says that it has the tables of the pool |
| `snap[c]` | `segments`, `bdf`, `rcpus` that `retrieve_state` returned |
| `doc[c]` | `updated_content` between the read and the write |
| `cellfile[i]`, `conf[i]` | the resources in `<id>.cell`, and those the hypervisor gave the cell |
| `cell[i]` | the hypervisor's state of the cell |
| `caronte[c]`, `boot[c]` | the caronte process, and how far `jailhouse cell linux` is in it |
| `pidref[i]` | the process that the file `pidfile` leads to |

In `Xen`:

| Variable | In the code |
|---|---|
| `cfg[i]`, `conf[i]` | what `config.cfg` says of disk and CPUs, and what the domain was built from |
| `dom[i]` | the domain named after the container |
| `lv[i]`, `mounted` | the volume `lv_<i>` (blank or a whole clone), and whether it is mounted at `<crundir>/mnt` |
| `caronte`, `pidref[i]` | as in `Jailhouse`, without a boot |

`provision_lvm_root` is one label per command (`"populate"`, `"copy"`, `"umount"`,
`"undo_mount"`, `"undo_volume"`), since a crash between two of them leaves the
volume mounted; `destroyguest` has one label per thing it removes. `RemoveAll` is
`remove_dir_all`: below a mount point it empties the volume and then stops.
`config_generate` is one step, as it only reads what others change.

In `Kvm` (with `lv` and `mounted` as in `Xen`):

| Variable | In the code |
|---|---|
| `dom[i]`, `attached` | the domain `runphi-<i>`, and whether the volume is its root disk |
| `cgroups`, `limited`, `member[i]` | the cgroups that exist, those `manager.apply` has written limits to, the one that the QEMU of `i` is in |
| `found[c]` | `qemu_pid` of `createguest`, as the QEMU it stands for; empty once that has ended |
| `watching[c]` | the `/proc/<pid>` that watchers of `c` look for; a watcher whose QEMU ends is gone |
| `affinity`, `saved[i]` | `smp_affinity_list` of each interrupt, and `saved_irq_affinities.json` |
| `walk[c]` | the loop over the interrupts: those to come, the one read but not yet written, `saved_affinities` |

`createguest` has a label per external effect: `virsh create`, `pgrep`, the stored
cgroup path, `add_task`, `apply`, the roll-back, the watcher, each read and write of an
affinity, the saved file. `destroyguest` restores the affinities, destroys the domain,
removes volume, cgroup and directory; only a `virsh` that cannot be started ends it
early. `QemuExits` may come between any two steps. `Matches` says which command lines
the pattern of `pgrep` fits, and `FindPid` takes any of them. The file `cgroup_path`
counts as present only when it names a path of the bundle, since the default is what
is used without it.

`LvmRoot` and `IrqSteering` leave the variables of their users alone: a backend
conjoins `UNCHANGED` of its own, and passes in what they need of it (the volumes that
domains have open, where the function goes on).

`fs::write` is two steps, a truncation and a write; between them readers find a
file without the pool (`EmptyFile`), and a write that fails leaves it so. The
allocation works on a snapshot, as in the code, and `save_state` reads the file
again before it replaces the lists by what was computed from the snapshot.

### Abstractions

Addresses are small numbers and RAM0 one unit (`Ram0`). Bundles are records of
the fields that decide a branch. The text of a configuration is reduced to
whether it compiles and to the resources in it. The list `containerid.ids` is not
modelled, as no code reads it. The list of free bdfs is a set, as the code only
takes its minimum, retains and pushes. CPU masks are left to the hypervisor,
where a conflict is one of the failures of `cell create`. With KVM the same goes for
whatever libvirt checks. With Xen, `xl vcpu-list` shows for each vCPU that is online the
CPU it is pinned to (the code writes one CPU for each, in order), and for a guest without
pinning, which has one vCPU, any CPU; with the fault `vcpu_offline` only some of a guest's
vCPUs are online, the first among them as long as the guest is paused. A killed runphi process takes
the tool it runs with it. Process ids are not reused. The engine does not create
a container again before caronte, its init process, has ended.

## 3. Properties and runs

Runs named `jailhouse_` are instances of `MCJailhouse`, those named `xen_` of `MCXen`,
those named `kvm_` of `MCKvm`.
Faults are named, and a run gives the set of those that may happen; each can
happen at every occasion.

| Run | Instance | Properties |
|---|---|---|
| `jailhouse_lifecycle` | one container, all eight kinds of bundle; fairness; a reboot and every failure but a killed process and a failing `cell destroy` | `TypeOK`, `RuncKeepsItsContainers`, refinement `GuestLifecycle`, `TeardownRemovesCell` |
| `jailhouse_concurrent` | two containers, two processes, zephyr and linux; reboot and a failing `cell destroy` | `NoOrphanCell`, `CleanDelete`, `ControlInv` |
| `jailhouse_crash` | two containers, one process; killed anywhere, reboot, a failing write; a fragmented pool | `StaleDirNeverFound`, `PoolExclusive` |
| `jailhouse_serial` | two containers, one process, two sizes, with and without PCI device and real-time CPU; faults after which `create` still knows what it took | `NoSharedResources`, `FreeIsUnused`, `PoolSurvives`, `DeleteFreesSection`, `StartsLoaded`; the inductive `SectionsInv`, `ExclusiveInv`, `CellsInv` |
| `xen_lifecycle` | one container, ten kinds of bundle; fairness; every failure but `Leaks` | `TypeOK`, `NoLeakedVolume`, `DeleteRemovesGuest`, `DeleteEndsCaronte`, refinement `GuestLifecycle`, `TeardownRemovesAll`; the inductive `TidyInv` |
| `xen_leftovers` | two containers with volumes, one process, four CPUs; the failures, crashes and reboots that leave something behind | `RootIsClone`, `CpusExclusive`; the inductive `RootInv`, `CpuInv` |
| `kvm_lifecycle` | one container, nine kinds of bundle, two interrupts of which one cannot be moved; fairness; QEMU ends at any time; every failure but `Leaks` | `TypeOK`, `RootIsClone`, `DeleteLeavesNothing`, `IrqsRestored`, `IrqsSteered`, refinement `GuestLifecycle`, `TeardownRemovesAll`; the inductive `TidyInv`, `HomeInv` |
| `kvm_leftovers` | one container, with a volume or with a cgroup path of its own and steering; every failure, crash and reboot | `RunsConfined`, `EngineSeesGuest`; the inductive `ConfineInv` |

The inductive invariants are those of the proofs (section 4): a run checks each on
instances in which its conditions hold. `LifecycleInv` and `SteerInv` are only proved.
`MCJailhouse` also compares the closed form of the merge in `destroy_update_state`, which
the proofs reason about, with the loop of the code (`MergeIsLoop`), for every list of up
to four segments within four addresses.

What they show:

- *Life cycle.* Whatever fails, crashes or interleaves, a cell never outlives its
  state directory, so that a later command can find it; a delete that reports
  success has left nothing, even when `kill` had removed the directory and runc
  carried the delete out; runc's containers are never taken for runPHI's.
- *Linux boot.* A kill may come before, between or after the steps of
  `jailhouse cell linux`; none of the orders leaves an orphan.
- *Accounting.* With commands one at a time and no failing write, the file, the
  cells and the requests agree through every sequence of commands. With crashes
  and torn writes the file still never promises one resource twice.
- *Progress.* A kill or delete of a container with a cell gets rid of the cell
  even when the shutdown before it fails.
- *Xen's teardown* tolerates whatever it finds, so that unlike Jailhouse's it
  also removes what a create left that failed half-way. The price is that it
  reports success when it failed. `Leaks` names the failures it has no second way
  for: `umount`, `lvremove`, `xl destroy`, the pidfile of caronte, a killed process,
  a reboot. Without them nothing is left behind.
- *Root disks.* Whatever fails or crashes, and whatever is left behind and met
  again by a later create, no domain has a root disk that is half copied, mounted
  by dom0 or emptied.
- *CPUs.* With commands one at a time, and as long as every vCPU is online or a guest
  has only one, pinned guests never share a CPU, also when a domain was left behind.
  Otherwise they may, as `xen_offline` shows below. Guests that the code leaves unpinned
  are not covered.

- *KVM's teardown* is of Xen's kind, and the same holds for it: without the failures
  in `Leaks` nothing is left, whatever failed before and whenever QEMU ended, and the
  cgroup is found even at a path that only the bundle named.
- *Confinement.* A guest is created paused and without limits. Whatever fails from
  there on, the roll-back included, whatever crashes and whatever an earlier
  container has left, it is never resumed outside a cgroup with its limits, and
  none is taken for created that has no watcher. Both rest on `OwnMatches`, that no
  id is the beginning of another.
- *Interrupts.* With one container at a time they are all moved while it runs, around
  those that cannot be, and go back. The proofs extend this to any number of containers
  of which one at a time asks for it.

### Where the code differs from what the repository says

Four runs end in a counterexample; each checks what a comment or a document says.
`kvm_docs/` stands for `doc/backend_kvm_docs/`.

| Run | Statement | What happens |
|---|---|---|
| `jailhouse_race` | `configGenerator.rs:96`: the file has "free memory and free bdfs" | two concurrent creates lose an update, and used memory is called free |
| `xen_offline` | `backend_xen/src/configGenerator/cpu.rs:72`: "take the pCPU pinned by Guest", and line 79: "Get the free cpu" | line 75 passes over the lines of `xl vcpu-list` that name no CPU, those of vCPUs that are offline, as are all but the first after `xl create -p`; the guest created next is pinned to their CPUs, with no overlap of commands |
| `kvm_irq` | `kvm_docs/config_json_reference.md:24`: "Original affinities are restored on container deletion" | what a container saves as original may be what another has steered; when the first created is the first deleted, the interrupts end up where it had steered them |
| `kvm_stale_volume` | `kvm_docs/config_generator.md:163`: lvm "clones the container rootfs into" the volume | a volume that a reboot left half filled is reused as it is (`lib.rs:57`) when the container is started again |

`FreeIsUnused` is therefore checked once as a violation and once, in
`jailhouse_serial`, where commands do not overlap; `CpusExclusive` once as a violation and
once, in `xen_leftovers`, with every vCPU online.

The models show more, which no run is spent on. Of the Jailhouse backend:

- `FreeIsUnused` also fails when `jailhouse cell destroy` does, as the resources are
  freed before it.
- `commands.rs:52-54` says that delete always removes the state directory, "even when
  create failed and left no domain to pause". Without a cell `jailhouse cell destroy`
  fails, `destroyguest` returns before it removes the directory, and no later delete
  can succeed.
- The section of a container should hold "the used memory range"
  (`configGenerator.rs:478`). It is computed from the first segment, and the allocation
  may use another; the memory is then never given back.
- `state` fails after every create, as no `storeinfo` writes the `rootfs` that
  `doc/README.md:111` of the repository lists.

Of Xen's:

- `DeleteEndsCaronte` fails when the pidfile cannot be written: caronte runs before
  its pid is written and before `storeinfo` records where, against
  `backend_xen/src/lib.rs:155-157`.
- `cpu.rs:86` says "Ensure there are enough available CPUs", but `config_generate`
  discards that error, and the guest is not pinned; one CPU too many panics.
- `kill` removes the volume of a container that still exists, against
  `doc/x86_xen_linux_howto.md:306-309`.
- `NoLeakedVolume` fails when `umount` does, against `backend_xen/src/lib.rs:59-60`: the
  volume stays mounted below the state directory, `remove_dir_all` empties it and may
  remove the file that names it.
- `DeleteRemovesGuest` fails when `xl destroy` does, against
  `doc/x86_xen_linux_howto.md:309-310`: the failure is logged, the delete succeeds.
- `CpusExclusive` also fails when two creates overlap.

Of KVM's:

- `to_xml` writes `<locked\>` (`configGenerator.rs:57`), which is not well-formed, so
  that a libvirt that parses strictly refuses every domain. `TakesXml` is `TRUE` in all
  runs, which is how the rest of the backend can be checked at all; with `FALSE` every
  create fails at `virsh create`.
- `RunsConfined` fails when one id is the beginning of another's: `pgrep -f
  "qemu-system.*runphi-<id>"` (`backend_kvm/src/lib.rs:70`) also finds the QEMU of a
  container whose name goes on after `<id>`; that one is taken out of its cgroup, and the
  new guest is never put into one. `kvm_docs/architecture_and_lifecycle.md:295` says that
  a failed cgroup set-up destroys the domain "to prevent unconfined VM execution". The
  instance is `KvmPrefix.cfg` of `MCKvm`.
- `IrqsRestored` fails when a create dies while it steers, or cannot write
  `saved_irq_affinities.json`: that file is written only at the end.
- `kill` destroys and removes everything, where `kvm_docs/architecture_and_lifecycle.md`
  lets it suspend the domain and leaves the rest to delete.

To see a failing property, add the failure to `Faults` of the run that checks it, or
raise `MaxProcs`.

### Bounds

- Two containers are enough for every hazard in the list that needs a second
  actor: all interference is between two processes, through one file. Life-cycle
  properties speak of one container at a time, and the proofs cover any number.
- `MaxProcs` is 1 where the property is about sequences of commands.
- A pool of 5 addresses holds the two smallest requests with RAM0 and leaves one
  over; `SplitPool` has two segments with a gap, so that a request misses the
  first; `LargePool` lets any two requests fit; `TinyPool` refuses all, for the
  runs where accounting does not matter. One real-time CPU and two bdfs make the
  second requester go without, or take another.
- Xen's containers only meet at the CPUs, so that one container is enough for all
  else. In `xen_lifecycle` two CPUs with requests of one to four reach every branch
  of `cpuconf`: enough, one too few (the panic), more too few. In `xen_leftovers`
  two guests of two CPUs just fit, and a domain left behind takes the CPUs of one;
  `xen_offline` is the same instance with `vcpu_offline` as the only fault.
- In `kvm_lifecycle` the two interrupts are one that can be moved and one that
  cannot, met in either order, and two CPUs tell the steered from the original
  affinity. `kvm_leftovers` is not about affinities: one CPU is enough there. Containers
  with KVM meet only at the interrupts and in `pgrep`, which the two-container runs
  `kvm_irq` and `KvmPrefix.cfg` are for; there `MaxProcs` is 1, since the order of whole
  commands already shows it.
- No counter needs a bound: the state space of every instance is finite.
- `SwapContainers` is a symmetry: with `OwnId` an id is the container itself, and
  no definition distinguishes containers.

### Fairness

`FairSpec` of `Jailhouse` assumes weak fairness of each process (the kernel
schedules it, and no step of it waits for another process), of the end of a boot
command, and of the engine's collecting an exit; those of `Xen` and `Kvm` the first
and the last. The engine owes no further command, and no failure is forced or excluded
by fairness.

## 4. Proofs

The theorems hold for any sets of containers, ids and bundles, any pool of resources,
any number of CPUs and interrupts, any set of faults and any number of concurrent
processes, except for what the column "needs" says.

| Module | Theorem | Shows `Spec =>` | Needs |
|---|---|---|---|
| `JailhouseProofs` | `TypeCorrect` | `[]TypeOK` | distinct ids |
| | `ControlInvariant` | `[]ControlInv` | distinct ids |
| | `CellsHaveDirs` | `[]NoOrphanCell` | distinct ids |
| | `RuncSeparate` | `[]RuncKeepsItsContainers` | distinct ids |
| | `StaleDirNever` | `[]StaleDirNeverFound` | distinct ids |
| | `DeleteIsClean` | `[]CleanDelete` | distinct ids |
| | `Implements` | `GuestLifecycle` | distinct ids |
| `JailhouseAccounting` | `Exclusion`, `PoolExclusion` | `[]ExclusiveInv`, `[]PoolExclusive` | distinct ids, `OneCommand` |
| | `CellsKeepTheirs`, `CellsShareNothing`, `FreeStaysUnused` | `[]CellsInv`, `[]NoSharedResources`, `[]FreeIsUnused` | distinct ids, `OneCommand`, `FreesWork` |
| | `PoolStays` | `[]PoolSurvives` | distinct ids, `OneCommand`, `WritesEnd` |
| | `SectionsHaveDirs`, `DeleteFrees` | `[]SectionsInv`, `[]DeleteFreesSection` | distinct ids, `OneCommand`, no reboot |
| | `StartsFollowLoads` | `StartsLoaded` | distinct ids, `LoadsWork` |
| `XenProofs` | `XenTypeCorrect` | `[]TypeOK` | nothing |
| | `RootInvariant`, `RootsAreClones` | `[]RootInv`, `[]RootIsClone` | distinct ids |
| | `CpuInvariant`, `CpusApart` | `[]CpuInv`, `[]CpusExclusive` | `OneCommand`, `NoneOffline` |
| `XenLifecycle` | `Lifecycle`, `XenImplements` | `[]LifecycleInv`, `GuestLifecycle` | distinct ids, `GuestsEnd` |
| | `Tidy`, `NoVolumeLeaks`, `DeletesGuest`, `DeletesCaronte` | `[]TidyInv`, `[]NoLeakedVolume`, `[]DeleteRemovesGuest`, `[]DeleteEndsCaronte` | distinct ids, `TeardownWorks` |
| `KvmProofs` | `KvmTypeCorrect` | `[]TypeOK` | nothing |
| `KvmLifecycle` | `ConfineInvariant`, `GuestsConfined`, `GuestsWatched` | `[]ConfineInv`, `[]RunsConfined`, `[]EngineSeesGuest` | distinct ids, `MatchExact`, `AllRunphi \/ GuestsEnd` |
| | `Lifecycle` | `[]LifecycleInv` | distinct ids, `GuestsEnd` |
| | `KvmImplements` | `GuestLifecycle` | distinct ids, `MatchExact`, `GuestsEnd` |
| | `Tidy`, `RootsAreClones`, `DeletesAll` | `[]TidyInv`, `[]RootIsClone`, `[]DeleteLeavesNothing` | distinct ids, `MatchExact`, `TeardownWorks` |
| | `AffinitiesHome`, `InterruptsReturn` | `[]HomeInv`, `[]IrqsRestored` | distinct ids, `IrqsKept`, `OneSteers` throughout |
| | `InterruptsSteered` | `[]IrqsSteered` | distinct ids, `SteeringWorks`, `OneSteers` throughout |

### Conditions

For most conditions section 3 names a behaviour that makes the statement false without
it. Distinct ids are also used where they only make a proof shorter, as for the types of
`Jailhouse`.

| Condition | Says | Where it comes from |
|---|---|---|
| distinct ids (`IdOfInjective`) | no two containers share the first 24 characters of their ids, to which `truncate_id` cuts them | engines draw ids of 64 random hexadecimal digits |
| `OneCommand` | commands do not overlap (`MaxProcs = 1`) | nothing locks `state.toml` or the choice of CPUs; `jailhouse_race` shows what overlapping does |
| `NoneOffline` | no guest has a vCPU offline, or no bundle asks for more than one | `cpuconf` sees only vCPUs that are online; `xen_offline` shows what happens otherwise |
| `WritesEnd` | nothing comes between the truncation of `state.toml` and its write | `fs::write` is not atomic |
| `FreesWork` | no command is killed and `jailhouse cell destroy` succeeds | the resources are given back before the cell is destroyed |
| `LoadsWork` | `jailhouse cell load` and `cell destroy` succeed, and no command is killed | the exit status of `cell load` is only logged (`backend_jailhouse/src/lib.rs:382-388`), and the cell is started all the same; a cell that is left behind is met by the next create |
| `MatchExact` | no name of a domain is the beginning of another's | `KvmPrefix.cfg` has what happens otherwise; engines draw ids of one length |
| `GuestsEnd` | what ends a domain or a mount works, and no command is killed | the teardowns tolerate these failures and go on |
| `TeardownWorks` | besides, what removes a volume, a cgroup or (Xen) writes the pid of a caronte works, and the machine stays up | the same |
| `AllRunphi` | every bundle is one that runPHI takes | see "a host with both kinds of container" below |
| `OneSteers` | at any time one container of runPHI's, known to the engine or being made, names CPUs for the interrupts | interrupts belong to the host and each container saves what it finds; `kvm_irq` shows what overlapping does |
| `IrqsKept` | no access to an affinity or to the saved affinities fails, and no command is killed | the affinities are saved only when all interrupts have been moved (section 3) |
| `SteeringWorks` | `GuestsEnd`, and no write of an affinity is refused | `apply_irq_steering` logs a refused write and goes on |

`OneSteers` speaks of states and not of the constants, so that these theorems have the form
`Spec /\ []OneSteers => []P`. Every behaviour with one container satisfies it, as in the
run `kvm_lifecycle`, and so does every one in which a container that steers is deleted
before the next is created.

The remaining assumptions are on the constants: `IdOf` maps containers to ids,
`state.toml` starts with a well-formed pool and no sections, requests and `Ram0` are
natural numbers, there is a CPU, CPU lists name CPUs of the host, an id matches
itself. TLC evaluates them in every run.

### The arguments

None of the properties is inductive. Each proof has an invariant that says, label by
label, what is known at that point of a command, and one lemma per action. A step of
the process of one container leaves alone what the invariant says of the others
(`Frame`, `Same`, `Aside`, `Spared`); only what it says of that container is shown anew.

*Life cycle of cells.* That a successful delete is clean needs to know that a container
without a state directory has no cell, which needs to know, at every label of a
teardown, which of the two is gone already, and that `caronte` has no boot ahead of it.
`ControlInv` has four parts: `VerbInv` (which verb may be at which label), `GuestInv` (a
cell, a caronte or a pending boot has a state directory; runc's containers have none),
`PcInv` (nothing is left of a container the engine does not know; no guest before
`createguest` and after `cell_destroy`) and `NamesInv` (cells and pidfiles belong to the
container of their id). There is one lemma `<Action>Kept` per action.

*Accounting.* `ExclusiveInv` speaks of three places at once: what is in `state.toml`, what
a process holds in memory to write there (`doc`), and what a create has read (`snap`). In
each, no address, PCI device or real-time CPU has two holders; and between the read and
the write the file is still what was read, since no other command runs. It survives
crashes, reboots and torn writes, as a truncated file promises nothing to anybody.
`CellsInv` adds the cells: what a cell uses, or will use once the create at work makes it
(`PendingInv`), is nobody else's section and not free until its own teardown gives it back
(`UseInv`). Both rest on two lemmas on contents of any size, `SaveSound` and
`DestroySound`: first-fit cuts off what was free and nothing else, and sorting and merging
the list with the returned segment makes free only what the section held. A merged list
is there described in closed form, a run of contiguous segments by the index of its first
and its last one; what would be an induction along the run becomes the choice of the least
index that refutes the claim (`MinIsLeast`). `SectionsInv` ties sections to state
directories, and `StartInv` the state of a cell to the answers the engine has had.

*Root disks.* With Xen a create that meets a volume makes it anew unless it is in use, so that
`RootInv` holds whatever was left behind. With KVM an existing volume is taken as it is
(`kvm_stale_volume`); there `TidyInv` shows that with teardowns that work none is met.

*CPUs.* `CpuInv`: the free CPUs a create has read are still free when it pins its guest.
Part of it is `ShownInv`, that `xl vcpu-list` shows all CPUs of every guest: without it what
`cpuconf` takes for free may be in use. It comes from `NoneOffline`, as a guest that asks for
one CPU is pinned to one, and its only vCPU is online.

*Confinement.* A KVM guest passes through virsh create, `pgrep`, the cgroup files,
`add_task`, `apply` and the watcher before it may run; `ConfineInv` says at each of these
points how far it has got, and that it never falls back while it lives. A step is of one
of three kinds: it asks nothing new of the guest of its container and leaves all guests
alone (`Eases`), it ends some and spares the others (`Quit`), or it is one of the steps
that establish what the next one needs. No step harms the guest of another container
(`Spared`), which is where `MatchExact` is used. `MembersInv` says that a QEMU is in a
cgroup only of its own container.

*Refinement.* Each action is one of seven moves of its container in `GuestMoves`, and each
move a step of `ManagedGuest` or a stutter. For `Jailhouse` this needs no condition on
failures; for `Xen` and `Kvm` it needs `GuestsEnd`, as their `delete` reports success even
when the guest could not be ended.

*Teardowns.* `LifecycleInv` (domain within directory within container) and `TidyInv` (each
volume, cgroup and caronte is recorded where the next teardown looks for it, and removed
before the record is) are conjunctions over the containers.

*Interrupts.* A container that moves interrupts does so under the feet of all others, so
that no frame helps: the proofs rest on `OneSteers`. `HomeInv` says that an interrupt is
away from where it was at boot only while the one container that steers knows the way back:
at each point of the loop of its create in `walk[c].map`, between the loops in its record,
which holds the affinities of the boot, and in the loop of its teardown for the interrupts
to come. A container that begins to steer finds the affinities of the boot (`BeginsFresh`).
`SteerInv` says that what its loop has passed is where it wants it, and stays there until
a teardown of that container. A record in a state directory is always that of the
container itself; for `SteerInv`, which allows reboots and lost records, this takes
`LifecycleInv`.

### What the proofs found

- *A host with both kinds of container.* `RunsConfined` with every fault holds only when no
  bundle of the same name goes to runc. Otherwise: a mount that could not be undone keeps
  the state directory, `virsh destroy` fails in the teardown and the domain stays; the
  engine gives the id to a container of runc's, whose next command finds the directory, goes
  to runPHI and meets the old domain. Hence the condition `AllRunphi \/ GuestsEnd`.
- `PoolExclusive` needs nothing but one command at a time, less than was first assumed.

### Only model-checked

Liveness under fairness (`TeardownRemovesCell`, `TeardownRemovesAll`) is out of the
prover's reach. That the closed form of the merge is what the loop in the code
computes (`MergeIsLoop`) is checked for short lists: for all lists it would be an induction
over data.

## 5. Not modelled, and the plan

Done: all modules of section 2. Next, in this order:

1. Proofs with weaker conditions: the types of `Jailhouse` without distinct ids; interrupts
   when containers that steer overlap but are deleted in the reverse of the order of their
   creation; `NoLeakedVolume` of `Xen` with a failing `lvremove`.
2. The two liveness properties, as far as the prover reaches: that each step of a teardown
   leads to a later label, which with fairness is all they rest on.
3. Pure functions against a reference: the CPU functions of Xen and Jailhouse, the
   encodings of `net`, the CPU lists of `irq.rs`.

Not modelled of the KVM backend: the contents of cgroup limits and the choice of the
cgroup driver, `freeze`, `thaw` and the statistics of `cgroups.rs` (no command calls
them), the detection of isolated CPUs (it feeds a warning only), the text of
`domain.xml`, and sizes, as for Xen.

Not modelled of the Xen backend: the sizes of memory and volumes (a lack of
either is a failure of the check, of `xl create` or of `lvcreate`), the boot lines
of `boot.rs`, and a CPU quota below zero.

Left out for good: the command line parser, logging and timers (no control flow
depends on them), the target scripts (run by hand), the text of cell templates.
