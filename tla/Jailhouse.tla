----------------------------- MODULE Jailhouse -----------------------------
(***************************************************************************)
(* runPHI with the Jailhouse backend: the functions of                     *)
(* backend_jailhouse/src/lib.rs and config_generate, run by the commands   *)
(* of OciFrontend, with the state file they share, the hypervisor's cells  *)
(* and the caronte processes that stand for the containers.                *)
(*                                                                         *)
(* A step ends where another process can see the effect: at a read or a    *)
(* write of the state file (fs::write truncates and then writes), at a     *)
(* jailhouse command and at a change of the state directory.               *)
(*                                                                         *)
(* Simplifications: a killed runphi process takes a jailhouse tool it runs *)
(* with it, before or after its effect; process ids are not reused; the    *)
(* CPUs of a cell are left to the hypervisor (a conflict is one of the     *)
(* ways in which cell create fails); the memory of a linux cell is not     *)
(* taken from the pool, for which its configuration has no part.           *)
(***************************************************************************)
EXTENDS OciFrontend, StateFile

CONSTANT InitFile \* the contents of initial_state.toml

\* As in target_configs/*_state.toml: the tables of the pool are there, with
\* each address and each real-time CPU once, and no container holds anything.
ASSUME InitFileAssumption ==
  /\ DOMAIN InitFile = DOMAIN EmptyFile
  /\ InitFile.intact /\ InitFile.sections = NoSections
  /\ InitFile.segs \in Seq(Segments) \ {<<>>}
  /\ InitFile.bdf \in SUBSET Nat /\ InitFile.rcpus \in Seq(Nat)
  /\ \A k, m \in DOMAIN InitFile.segs :
       k # m => Disjoint(InitFile.segs[k], InitFile.segs[m])
  /\ \A k, m \in DOMAIN InitFile.rcpus : k # m => InitFile.rcpus[k] # InitFile.rcpus[m]

\* A bundle asks for some memory and for a number of real-time CPUs.
ASSUME BundlesAssumption == \A b \in Bundles : b.mem \in Nat /\ b.rpus \in Nat

VARIABLES
  file,     \* contents of state.toml
  snap,     \* snap[c]: the free lists as config_generate of c retrieved them
  doc,      \* doc[c]: the contents the process of c is about to write
  cellfile, \* cellfile[i]: the configuration compiled into <id>.cell
  cell,     \* cell[i]: the state of the hypervisor's cell named i
  conf,     \* conf[i]: the resources of that cell
  caronte,  \* caronte[c]: the process that holds container c open
  boot,     \* boot[c]: how far that process is in jailhouse cell linux
  pidref    \* pidref[i]: whose caronte the file pidfile of i leads to

backVars == <<file, snap, doc, cellfile, cell, conf, caronte, boot, pidref>>
vars == <<feVars, backVars>>

NoSnap == [segs |-> <<>>, bdf |-> {}, rcpus |-> <<>>]
NoConf == [mem |-> Segment(0, 0), bdf |-> {}, rcpus |-> <<>>]

CellStates == {"none", "created", "loaded", "running", "shutdown"}

\* A caronte that boots a linux cell ends that command before it looks at a
\* SIGTERM, and is "dying" until then.
CaronteStates == {"none", "up", "dying"}

\* jailhouse cell linux creates the cell, and then loads and starts it.
BootStates == {"none", "create", "start"}

JailhouseLabels == {"save_state", "save_truncate", "save_write", "compile",
                    "cell_load", "caronte", "store_pidfile", "store_os",
                    "stop_signal", "free_truncate", "free_write",
                    "cell_destroy", "signal", "remove_dir"}

FileNames == {"console", "cell", "bundle", "pidfile", "OS"}

Labels == FrontLabels \cup JailhouseLabels

Live == {i \in Ids : cell[i] # "none"}

\* A file appears in the state directory of i, if the directory is there.
Put(i, name) == files' = [files EXCEPT ![i] = @ \cup {name}]

-----------------------------------------------------------------------------
(* config_generate                                                         *)

\* get_from_file, then retrieve_state: no lock is taken, the lists are kept
\* until save_state.
RetrieveState(c) ==
  /\ pc[c] = "config_generate"
  /\ IF bundle[c].bootconfig /\ file.intact
       THEN /\ snap' = [snap EXCEPT ![c] = [segs |-> file.segs,
                          bdf |-> file.bdf, rcpus |-> file.rcpus]]
            /\ Goto(c, "save_state")
       ELSE ReturnErr(c, "config_generate") /\ UNCHANGED snap
  /\ UNCHANGED <<bundle, status, verb, crundir, files, runc,
                 file, doc, cellfile, cell, conf, caronte, boot, pidref>>

\* bootconfbackend and the file console may fail; else save_state reads the
\* file again and computes what to write.
SaveRead(c) ==
  /\ pc[c] = "save_state"
  /\ \/ /\ IdOf[c] \in crundir
        /\ Put(IdOf[c], "console")
        /\ doc' = [doc EXCEPT ![c] = SaveState(file, IdOf[c], bundle[c], snap[c])]
        /\ Goto(c, "save_truncate")
        /\ UNCHANGED snap
     \/ /\ IdOf[c] \notin crundir \/ Fault("bootconf")
        /\ snap' = [snap EXCEPT ![c] = NoSnap]
        /\ ReturnErr(c, "config_generate")
        /\ UNCHANGED <<files, doc>>
  /\ UNCHANGED <<bundle, status, verb, crundir, runc,
                 file, cellfile, cell, conf, caronte, boot, pidref>>

Truncate(c, from, to) ==
  /\ pc[c] = from
  /\ file' = EmptyFile
  /\ Goto(c, to)
  /\ UNCHANGED <<bundle, status, verb, crundir, files, runc,
                 snap, doc, cellfile, cell, conf, caronte, boot, pidref>>

\* The second half of fs::write.  Its failure (a full disk) is logged or
\* ignored, and leaves the file as the truncation left it.
Write(c, from, to) ==
  /\ pc[c] = from
  /\ \/ file' = doc[c]
     \/ Fault("write") /\ UNCHANGED file
  /\ doc' = [doc EXCEPT ![c] = EmptyFile]
  /\ Goto(c, to)
  /\ UNCHANGED <<bundle, status, verb, crundir, files, runc,
                 snap, cellfile, cell, conf, caronte, boot, pidref>>

SaveTruncate(c) == Truncate(c, "save_truncate", "save_write")
SaveWrite(c)    == Write(c, "save_write", "compile")

\* confighelperend: gcc and objcopy.  An error is ignored.
Compile(c) ==
  /\ pc[c] = "compile"
  /\ \/ /\ HasSource(bundle[c], snap[c]) /\ IdOf[c] \in crundir
        /\ Put(IdOf[c], "cell")
        /\ cellfile' = [cellfile EXCEPT ![IdOf[c]] = CellConfig(bundle[c], snap[c])]
     \/ /\ \/ ~HasSource(bundle[c], snap[c]) \/ IdOf[c] \notin crundir
           \/ Fault("compile")
        /\ UNCHANGED <<files, cellfile>>
  /\ snap' = [snap EXCEPT ![c] = NoSnap]
  /\ ReturnOk(c, "config_generate")
  /\ UNCHANGED <<bundle, status, verb, crundir, runc,
                 file, doc, cell, conf, caronte, boot, pidref>>

-----------------------------------------------------------------------------
(* createguest and storeinfo                                               *)

\* jailhouse cell create <id>.cell; its exit status is not looked at, only
\* whether the tool could be executed.
CreateCell(c) ==
  /\ pc[c] = "createguest"
  /\ bundle[c].os # "linux"
  /\ LET i == IdOf[c] IN
     \/ /\ cell[i] = "none" /\ "cell" \in files[i]
        /\ cell' = [cell EXCEPT ![i] = "created"]
        /\ conf' = [conf EXCEPT ![i] = cellfile[i]]
        /\ Goto(c, "cell_load")
     \/ /\ cell[i] # "none" \/ "cell" \notin files[i] \/ Fault("cell_create")
        /\ Goto(c, "cell_load")
        /\ UNCHANGED <<cell, conf>>
     \/ /\ Fault("exec")
        /\ ReturnErr(c, "createguest")
        /\ UNCHANGED <<cell, conf>>
  /\ UNCHANGED <<bundle, status, verb, crundir, files, runc,
                 file, snap, doc, cellfile, caronte, boot, pidref>>

\* For real-time CPUs, get_rcpu_for_container and the firmware symlink may
\* fail; the exit status of cell load is only logged.
LoadCell(c) ==
  /\ pc[c] = "cell_load"
  /\ LET i == IdOf[c] IN
     \/ /\ bundle[c].rpus = 0 \/ i \in DOMAIN file.sections
        /\ \/ cell[i] # "none" /\ cell' = [cell EXCEPT ![i] = "loaded"]
           \/ cell[i] = "none" /\ UNCHANGED cell
           \/ Fault("cell_load") /\ UNCHANGED cell
        /\ Goto(c, "caronte")
     \/ /\ \/ bundle[c].rpus > 0 /\ i \notin DOMAIN file.sections
           \/ bundle[c].rpus > 0 /\ Fault("symlink")
           \/ Fault("exec")
        /\ ReturnErr(c, "createguest")
        /\ UNCHANGED cell
  /\ UNCHANGED <<bundle, status, verb, crundir, files, runc,
                 file, snap, doc, cellfile, conf, caronte, boot, pidref>>

\* Mutant: every caronte gets the command of the linux branch.
MutSpawnCaronte(c) ==
  /\ \/ pc[c] = "caronte"
     \/ pc[c] = "createguest" /\ bundle[c].os = "linux"
  /\ caronte' = [caronte EXCEPT ![c] = "up"]
  /\ boot' = [boot EXCEPT ![c] = "create"]
  /\ ReturnOk(c, "createguest")
  /\ UNCHANGED <<bundle, status, verb, crundir, files, runc,
                 file, snap, doc, cellfile, cell, conf, pidref>>

\* Start caronte, which for linux is also what creates the cell, and write
\* its pid where the engine wants it.
SpawnCaronte(c) ==
  /\ \/ pc[c] = "caronte"
     \/ pc[c] = "createguest" /\ bundle[c].os = "linux"
  /\ \/ /\ caronte' = [caronte EXCEPT ![c] = "up"]
        /\ boot' = [boot EXCEPT ![c] =
                      IF bundle[c].os = "linux" THEN "create" ELSE "none"]
        /\ \/ ReturnOk(c, "createguest")
           \/ Fault("pidfile") /\ ReturnErr(c, "createguest")
     \/ /\ Fault("caronte")
        /\ ReturnErr(c, "createguest")
        /\ UNCHANGED <<caronte, boot>>
  /\ UNCHANGED <<bundle, status, verb, crundir, files, runc,
                 file, snap, doc, cellfile, cell, conf, pidref>>

\* storeinfo writes bundle, pidfile and OS, in that order; "?" ends the
\* command at the first that cannot be written.
Store(c, from, name, ok) ==
  /\ pc[c] = from
  /\ IF IdOf[c] \in crundir
       THEN Put(IdOf[c], name) /\ ok
       ELSE ReturnErr(c, "storeinfo") /\ UNCHANGED files
  /\ UNCHANGED <<bundle, status, verb, crundir, runc,
                 file, snap, doc, cellfile, cell, conf, caronte, boot>>

StoreBundle(c) ==
  Store(c, "storeinfo", "bundle", Goto(c, "store_pidfile")) /\ UNCHANGED pidref

\* Mutant: a file of a name that no reader knows.
MutStorePidfile(c) ==
  /\ Store(c, "store_pidfile", "pid", Goto(c, "store_os"))
  /\ pidref' = [pidref EXCEPT ![IdOf[c]] = {c}]

StorePidfile(c) ==
  /\ Store(c, "store_pidfile", "pidfile", Goto(c, "store_os"))
  /\ pidref' = [pidref EXCEPT ![IdOf[c]] = {c}]

StoreOs(c) ==
  Store(c, "store_os", "OS", ReturnOk(c, "storeinfo")) /\ UNCHANGED pidref

\* startguest: a linux cell runs already; else jailhouse cell start, whose
\* exit status is not looked at.
StartGuest(c) ==
  /\ pc[c] = "startguest"
  /\ LET known == "OS" \in files[IdOf[c]]
         other == bundle[c].os # "linux"
     IN
     \/ /\ known /\ other /\ cell[IdOf[c]] # "none"
        /\ cell' = [cell EXCEPT ![IdOf[c]] = "running"]
        /\ ReturnOk(c, "startguest")
     \/ /\ known
        /\ ~other \/ cell[IdOf[c]] = "none" \/ Fault("cell_start")
        /\ ReturnOk(c, "startguest")
        /\ UNCHANGED cell
     \/ /\ ~known \/ (other /\ Fault("exec"))
        /\ ReturnErr(c, "startguest")
        /\ UNCHANGED cell
  /\ UNCHANGED <<bundle, status, verb, crundir, files, runc,
                 file, snap, doc, cellfile, conf, caronte, boot, pidref>>

-----------------------------------------------------------------------------
(* stopguest, destroyguest and cleanup                                     *)

SigTerm(i) ==
  caronte' = [c \in Containers |->
                CASE c \notin pidref[i] -> caronte[c]
                  [] c \in pidref[i] /\ boot[c] = "none" -> "none"
                  [] c \in pidref[i] /\ boot[c] # "none" -> "dying"]

ShutdownCell(c) ==
  /\ pc[c] = "stopguest"
  /\ LET i == IdOf[c] IN
     \/ /\ cell[i] # "none"
        /\ cell' = [cell EXCEPT ![i] = "shutdown"]
        /\ Goto(c, "stop_signal")
     \/ /\ cell[i] = "none" \/ Fault("cell_shutdown")
        /\ ReturnErr(c, "stopguest")
        /\ UNCHANGED cell
  /\ UNCHANGED <<bundle, status, verb, crundir, files, runc,
                 file, snap, doc, cellfile, conf, caronte, boot, pidref>>

StopSignal(c) ==
  /\ pc[c] = "stop_signal"
  /\ IF "pidfile" \in files[IdOf[c]]
       THEN SigTerm(IdOf[c]) /\ ReturnOk(c, "stopguest")
       ELSE ReturnErr(c, "stopguest") /\ UNCHANGED caronte
  /\ UNCHANGED <<bundle, status, verb, crundir, files, runc,
                 file, snap, doc, cellfile, cell, conf, boot, pidref>>

\* destroy_update_state comes first in destroyguest, and its errors (no
\* section of this id) are ignored.
FreeRead(c) ==
  /\ pc[c] = "destroyguest"
  /\ IF IdOf[c] \in DOMAIN file.sections
       THEN /\ doc' = [doc EXCEPT ![c] = DestroyUpdateState(file, IdOf[c])]
            /\ Goto(c, "free_truncate")
       ELSE Goto(c, "cell_destroy") /\ UNCHANGED doc
  /\ UNCHANGED <<bundle, status, verb, crundir, files, runc,
                 file, snap, cellfile, cell, conf, caronte, boot, pidref>>

FreeTruncate(c) == Truncate(c, "free_truncate", "free_write")
FreeWrite(c)    == Write(c, "free_write", "cell_destroy")

\* Mutant: a failure of cell destroy is tolerated, as in the Xen backend.
MutDestroyCell(c) ==
  /\ pc[c] = "cell_destroy"
  /\ \/ /\ cell' = [cell EXCEPT ![IdOf[c]] = "none"]
        /\ conf' = [conf EXCEPT ![IdOf[c]] = NoConf]
     \/ UNCHANGED <<cell, conf>>
  /\ Goto(c, "signal")
  /\ UNCHANGED <<bundle, status, verb, crundir, files, runc,
                 file, snap, doc, cellfile, caronte, boot, pidref>>

\* jailhouse cell destroy: its failure ends destroyguest.
DestroyCell(c) ==
  /\ pc[c] = "cell_destroy"
  /\ LET i == IdOf[c] IN
     \/ /\ cell[i] # "none"
        /\ cell' = [cell EXCEPT ![i] = "none"]
        /\ conf' = [conf EXCEPT ![i] = NoConf]
        /\ Goto(c, "signal")
     \/ /\ cell[i] = "none" \/ Fault("cell_destroy")
        /\ ReturnErr(c, "destroyguest")
        /\ UNCHANGED <<cell, conf>>
  /\ UNCHANGED <<bundle, status, verb, crundir, files, runc,
                 file, snap, doc, cellfile, caronte, boot, pidref>>

SignalCaronte(c) ==
  /\ pc[c] = "signal"
  /\ IF "pidfile" \in files[IdOf[c]]
       THEN SigTerm(IdOf[c]) /\ Goto(c, "remove_dir")
       ELSE ReturnErr(c, "destroyguest") /\ UNCHANGED caronte
  /\ UNCHANGED <<bundle, status, verb, crundir, files, runc,
                 file, snap, doc, cellfile, cell, conf, boot, pidref>>

\* Mutant: the files go, the directory stays.
MutRemoveDir(c, call) ==
  /\ files' = [files EXCEPT ![IdOf[c]] = {}]
  /\ cellfile' = [cellfile EXCEPT ![IdOf[c]] = NoConf]
  /\ pidref' = [pidref EXCEPT ![IdOf[c]] = {}]
  /\ ReturnOk(c, call)
  /\ UNCHANGED <<bundle, status, verb, crundir, runc,
                 file, snap, doc, cell, conf, caronte, boot>>

\* fs::remove_dir_all; on a tmpfs it does not fail half-way.
RemoveDir(c, call) ==
  /\ crundir' = crundir \ {IdOf[c]}
  /\ files' = [files EXCEPT ![IdOf[c]] = {}]
  /\ cellfile' = [cellfile EXCEPT ![IdOf[c]] = NoConf]
  /\ pidref' = [pidref EXCEPT ![IdOf[c]] = {}]
  /\ ReturnOk(c, call)
  /\ UNCHANGED <<bundle, status, verb, runc,
                 file, snap, doc, cell, conf, caronte, boot>>

RemoveRunDir(c) == pc[c] = "remove_dir" /\ RemoveDir(c, "destroyguest")
Cleanup(c)      == pc[c] = "cleanup" /\ RemoveDir(c, "cleanup")

-----------------------------------------------------------------------------
(* The environment                                                         *)

\* The command that caronte[c] runs ends.
BootEnds(c) ==
  /\ boot' = [boot EXCEPT ![c] = "none"]
  /\ caronte' = [caronte EXCEPT ![c] = IF @ = "dying" THEN "none" ELSE @]

\* It fails when there is a cell of that name.
BootCreate(c) ==
  /\ boot[c] = "create"
  /\ \/ /\ cell[IdOf[c]] = "none"
        /\ cell' = [cell EXCEPT ![IdOf[c]] = "created"]
        /\ conf' = [conf EXCEPT ![IdOf[c]] = NoConf]
        /\ boot' = [boot EXCEPT ![c] = "start"]
        /\ UNCHANGED caronte
     \/ /\ cell[IdOf[c]] # "none" \/ Fault("linux_create")
        /\ BootEnds(c)
        /\ UNCHANGED <<cell, conf>>
  /\ UNCHANGED <<feVars, file, snap, doc, cellfile, pidref>>

\* A kill or delete may have been faster.
BootStart(c) ==
  /\ boot[c] = "start"
  /\ \/ /\ cell[IdOf[c]] # "none"
        /\ cell' = [cell EXCEPT ![IdOf[c]] = "running"]
     \/ /\ cell[IdOf[c]] = "none" \/ Fault("linux_start")
        /\ UNCHANGED cell
  /\ BootEnds(c)
  /\ UNCHANGED <<feVars, file, snap, doc, cellfile, conf, pidref>>

BootLinux(c) == BootCreate(c) \/ BootStart(c)

Crash(c) ==
  /\ CrashFrontend(c)
  /\ snap' = [snap EXCEPT ![c] = NoSnap]
  /\ doc' = [doc EXCEPT ![c] = EmptyFile]
  /\ UNCHANGED <<file, cellfile, cell, conf, caronte, boot, pidref>>

\* Only state.toml is on a disk.
Reboot ==
  /\ RebootFrontend
  /\ snap' = [c \in Containers |-> NoSnap]
  /\ doc' = [c \in Containers |-> EmptyFile]
  /\ cell' = [i \in Ids |-> "none"]
  /\ conf' = [i \in Ids |-> NoConf]
  /\ cellfile' = [i \in Ids |-> NoConf]
  /\ caronte' = [c \in Containers |-> "none"]
  /\ boot' = [c \in Containers |-> "none"]
  /\ pidref' = [i \in Ids |-> {}]
  /\ UNCHANGED file

-----------------------------------------------------------------------------

Init ==
  /\ FrontInit
  /\ file = InitFile
  /\ snap = [c \in Containers |-> NoSnap]
  /\ doc = [c \in Containers |-> EmptyFile]
  /\ cellfile = [i \in Ids |-> NoConf]
  /\ cell = [i \in Ids |-> "none"]
  /\ conf = [i \in Ids |-> NoConf]
  /\ caronte = [c \in Containers |-> "none"]
  /\ boot = [c \in Containers |-> "none"]
  /\ pidref = [i \in Ids |-> {}]

\* The engine does not create a container again before the process it holds
\* for the container's init, caronte, has ended.
Engine(c) == Invoke(c) /\ (status[c] = "none" => caronte[c] = "none")

CreateStep(c) ==
  \/ RetrieveState(c) \/ SaveRead(c) \/ SaveTruncate(c) \/ SaveWrite(c)
  \/ Compile(c) \/ CreateCell(c) \/ LoadCell(c) \/ SpawnCaronte(c)
  \/ StoreBundle(c) \/ StorePidfile(c) \/ StoreOs(c) \/ StartGuest(c)

TeardownStep(c) ==
  \/ ShutdownCell(c) \/ StopSignal(c) \/ FreeRead(c) \/ FreeTruncate(c)
  \/ FreeWrite(c) \/ DestroyCell(c) \/ SignalCaronte(c) \/ RemoveRunDir(c)
  \/ Cleanup(c)

Next ==
  \/ \E c \in Containers :
       \/ (Engine(c) \/ FrontStep(c)) /\ UNCHANGED backVars
       \/ CreateStep(c) \/ TeardownStep(c) \/ BootLinux(c) \/ Crash(c)
  \/ Reboot

Spec == Init /\ [][Next]_vars
-----------------------------------------------------------------------------
(* Life cycle: whatever fails, crashes or interleaves.                     *)

\* The variables that control the commands have their types.
TypeOK ==
  /\ bundle \in [Containers -> Bundles \cup {NoBundle}]
  /\ status \in [Containers -> Statuses]
  /\ verb \in [Containers -> Verbs \cup {"none"}]
  /\ pc \in [Containers -> Labels]
  /\ crundir \in SUBSET Ids
  /\ files \in [Ids -> SUBSET FileNames]
  /\ runc \in SUBSET Containers
  /\ cell \in [Ids -> CellStates]
  /\ caronte \in [Containers -> CaronteStates]
  /\ boot \in [Containers -> BootStates]
  /\ pidref \in [Ids -> SUBSET Containers]

\* Every cell has a state directory, without which kill and delete would be
\* forwarded to runc and nothing in runPHI could destroy it any more.
NoOrphanCell == Live \subseteq crundir

\* No command for a container that runc created is taken for runPHI's.
RuncKeepsItsContainers == \A c \in runc : IdOf[c] \notin crundir

\* main.rs removes a leftover directory before it makes a new one, and says
\* of it "this should not exist": it never does.
StaleDirNeverFound ==
  \A c \in Containers : pc[c] = "remove_stale" => IdOf[c] \notin crundir

\* A delete that reports success, whether runPHI did it or runc, leaves
\* no cell, no state directory and no caronte of the container, except one
\* that has got its SIGTERM and will not create a cell any more.
CleanDelete ==
  \A c \in Containers : pc[c] = "ok" /\ verb[c] = "delete" =>
    /\ cell[IdOf[c]] = "none"
    /\ IdOf[c] \notin crundir
    /\ caronte[c] # "up" /\ boot[c] # "create"
    /\ c \notin runc

\* Containers, directories and cells go through the life cycle of ManagedGuest.
Guests == INSTANCE ManagedGuest WITH
  known <- {c \in Containers : status[c] # "none" \/ pc[c] # "idle"},
  dir   <- {c \in Containers : IdOf[c] \in crundir},
  guest <- {c \in Containers : cell[IdOf[c]] # "none"}

GuestLifecycle == Guests!Spec

\* jailhouse cell start runs only a cell whose image was loaded: a start
\* follows a whole create, and never a teardown.
StartsLoaded ==
  [][\A i \in Ids : cell[i] # "running" /\ cell'[i] = "running" =>
       cell[i] = "loaded" \/ \E c \in Containers :
                               IdOf[c] = i /\ bundle[c].os = "linux"]_vars

-----------------------------------------------------------------------------
(* Accounting: commands one at a time.                                     *)

Elements(seq) == {seq[k] : k \in DOMAIN seq}

\* Two holdings (of cells or of sections) have no resource in common.
Apart(a, b) ==
  /\ Disjoint(a.mem, b.mem)
  /\ a.bdf \cap b.bdf = {}
  /\ Elements(a.rcpus) \cap Elements(b.rcpus) = {}

\* Nothing of a holding is in the free lists of the contents d.
NotFree(a, d) ==
  /\ \A k \in DOMAIN d.segs : Disjoint(a.mem, d.segs[k])
  /\ a.bdf \cap d.bdf = {}
  /\ Elements(a.rcpus) \cap Elements(d.rcpus) = {}

\* The contents d gives every resource to at most one holder or to the free
\* lists, each address to at most one segment and each real-time CPU once.
Exclusive(d) ==
  /\ \A i, j \in DOMAIN d.sections : i # j => Apart(d.sections[i], d.sections[j])
  /\ \A i \in DOMAIN d.sections : NotFree(d.sections[i], d)
  /\ \A k, m \in DOMAIN d.segs : k # m => Disjoint(d.segs[k], d.segs[m])
  /\ \A k, m \in DOMAIN d.rcpus : k # m => d.rcpus[k] # d.rcpus[m]

\* So does state.toml, whatever commands wrote it.
PoolExclusive == Exclusive(file)

\* No two cells of the hypervisor share memory, a PCI device or a CPU.
NoSharedResources ==
  \A i, j \in Live : i # j => Apart(conf[i], conf[j])

\* Between commands, what state.toml calls free no cell is using.
FreeIsUnused ==
  Active = {} => \A i \in Live : NotFree(conf[i], file)

\* Outside the window of a write the file holds the tables of the pool:
\* a container can be created again after any sequence of commands.
PoolSurvives ==
  (\A c \in Containers : pc[c] \notin {"save_write", "free_write"}) => file.intact

\* A delete that reports success leaves no section of the container.
DeleteFreesSection ==
  \A c \in Containers :
    pc[c] = "ok" /\ verb[c] = "delete" => IdOf[c] \notin DOMAIN file.sections

-----------------------------------------------------------------------------
(* Progress: each process is scheduled, the engine collects its exit, and  *)
(* the command a caronte runs ends.  The engine owes no further command.   *)

Step(c) ==
  \/ FrontStep(c) /\ UNCHANGED backVars
  \/ CreateStep(c) \/ TeardownStep(c)

Fairness == \A c \in Containers : WF_vars(Step(c)) /\ WF_vars(BootLinux(c))

FairSpec == Spec /\ Fairness

\* A kill or a delete of a container that has a cell gets rid of the cell,
\* even if it cannot be shut down first: a pause failure must not abort
\* the teardown (commands.rs:42-44).
TeardownRemovesCell ==
  \A c \in Containers :
    verb[c] \in {"kill", "delete"} /\ pc[c] = "decide_existing" /\ cell[IdOf[c]] # "none"
      ~> cell[IdOf[c]] = "none"
=============================================================================
