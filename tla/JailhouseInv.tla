---------------------------- MODULE JailhouseInv ----------------------------
(***************************************************************************)
(* The inductive invariant behind the life-cycle properties of Jailhouse.  *)
(* For each container it says what is known at each point of a command:    *)
(* who may hold a guest, who has a state directory, which verb is running. *)
(***************************************************************************)
EXTENDS Jailhouse

\* No two containers share the first 24 characters of their ids.
IdOfInjective == \A c, d \in Containers : IdOf[c] = IdOf[d] => c = d

\* Labels of create before the state directory is made, from there to the
\* first effect on the hypervisor, and after it.
Before      == {"decide_create", "remove_stale", "make_dir"}
Configuring == {"config_generate", "save_state", "save_truncate",
                "save_write", "compile", "createguest"}
Loading     == {"cell_load", "caronte"}
Storing     == {"storeinfo", "store_pidfile", "store_os"}
Creating    == Configuring \cup Loading \cup Storing

\* Labels of a teardown until the cell is destroyed, and after it.
Stopping == {"stopguest", "stop_signal", "destroyguest", "free_truncate",
             "free_write", "cell_destroy"}
Removing == {"remove_dir", "cleanup"}

\* A linux cell is still to be created.
Booting(c) == boot[c] = "create"

\* The hypervisor has no guest of c, and none is on its way.
NoGuest(c) == cell[IdOf[c]] = "none" /\ ~Booting(c)

\* Nothing is left of c anywhere.
Gone(c) ==
  /\ NoGuest(c) /\ caronte[c] # "up"
  /\ IdOf[c] \notin crundir /\ c \notin runc

\* Only the command create goes through the labels of create, and so on.
VerbInv(c) ==
  /\ pc[c] = "idle" <=> verb[c] = "none"
  /\ pc[c] \in Before \cup Creating => verb[c] = "create"
  /\ pc[c] = "decide_existing" => verb[c] \in {"start", "kill", "delete", "state"}
  /\ pc[c] \in Stopping \cup {"signal"} \cup Removing => verb[c] \in {"kill", "delete"}
  /\ pc[c] = "startguest" => verb[c] = "start"
  /\ pc[c] = "state" => verb[c] = "state"
  /\ verb[c] \in {"start", "kill", "delete", "state"} => status[c] # "none"

\* A cell or a caronte has a state directory; a cell that is still to be
\* booted does not exist.
GuestInv(c) ==
  /\ ~NoGuest(c) \/ caronte[c] = "up" => IdOf[c] \in crundir
  /\ Booting(c) => cell[IdOf[c]] = "none"
  /\ c \in runc => IdOf[c] \notin crundir /\ pc[c] \in {"idle", "decide_existing", "ok", "err"}
  /\ "pidfile" \in files[IdOf[c]] => c \in pidref[IdOf[c]]

\* What is known at the labels.
PcInv(c) ==
  /\ pc[c] = "idle" /\ status[c] = "none" => Gone(c)
  /\ pc[c] \in Before => Gone(c)
  /\ pc[c] \in Configuring => NoGuest(c)
  /\ pc[c] \in Creating => IdOf[c] \in crundir
  /\ pc[c] \in Loading => bundle[c].os # "linux"
  /\ pc[c] = "signal" => NoGuest(c)
  /\ pc[c] \in Removing => NoGuest(c) /\ caronte[c] # "up"
  /\ pc[c] = "ok" /\ verb[c] = "delete" => Gone(c)

\* Every cell is the cell of some container, and a pidfile leads only to
\* the caronte of the container whose id it is stored under.
NamesInv ==
  /\ \A i \in Ids : cell[i] # "none" => \E c \in Containers : i = IdOf[c]
  /\ \A i \in Ids : \A c \in pidref[i] : IdOf[c] = i

ControlInv ==
  /\ NamesInv
  /\ \A c \in Containers : VerbInv(c) /\ GuestInv(c) /\ PcInv(c)

-----------------------------------------------------------------------------
(* The conditions and invariants of the accounting                         *)

\* Commands run one at a time.
OneCommand == MaxProcs = 1

\* Nothing comes between the truncation of state.toml and its write.
WritesEnd == Faults \cap {"crash", "reboot", "write"} = {}

\* Labels at which a process has computed contents it has not written yet.
Saving  == {"save_truncate", "save_write"}
Freeing == {"free_truncate", "free_write"}

\* The section of the container has been given back.
Freed == {"free_write", "cell_destroy", "signal", "remove_dir", "cleanup"}

\* state.toml always has the tables that the code reads.
ContentsInv ==
  /\ DOMAIN file = DOMAIN EmptyFile
  /\ DOMAIN doc = Containers
  /\ \A c \in Containers : DOMAIN doc[c] = DOMAIN EmptyFile

OneActiveInv == \A c, d \in Active : c = d

\* What a process is about to write has the tables of the pool.
PoolInv ==
  /\ OneActiveInv /\ ContentsInv /\ PoolSurvives
  /\ \A c \in Containers : pc[c] \in Saving \cup Freeing => doc[c].intact

\* What a process that writes or tears down makes of its section.
WriterInv(c) ==
  /\ pc[c] \in Saving \cup Freeing => DOMAIN doc[c].sections \subseteq crundir
  /\ pc[c] \in Freeing => IdOf[c] \notin DOMAIN doc[c].sections
  /\ pc[c] \in Freed => IdOf[c] \notin DOMAIN file.sections

\* A container with a section has a state directory, so that a later command
\* finds it, and a teardown has freed the section when it gets that far.
SectionsInv ==
  /\ OneActiveInv /\ ContentsInv
  /\ DOMAIN file.sections \subseteq crundir
  /\ \A c \in Containers : WriterInv(c)

\* A caronte boots only a linux cell; a cell that is not linux is loaded
\* when create succeeds, and stays so until it is started or torn down.
LoadedInv(c) ==
  /\ verb[c] = "create" => status[c] = "none"
  /\ verb[c] = "start" => status[c] = "created"
  /\ boot[c] # "none" =>
       /\ caronte[c] # "none"
       /\ bundle[c].os = "linux" \/ (pc[c] = "idle" /\ status[c] = "none")
  /\ /\ bundle[c].os # "linux"
     /\ \/ pc[c] \in {"caronte"} \cup Storing
        \/ pc[c] = "ok" /\ verb[c] = "create"
        \/ status[c] = "created" /\ pc[c] \notin Stopping
     => cell[IdOf[c]] \in {"none", "loaded", "running"}

StartInv == \A c \in Containers : LoadedInv(c)

-----------------------------------------------------------------------------
(* Who holds what                                                          *)

\* No command is killed, and cell destroy succeeds: what a teardown has given
\* back it also takes from the cell.
FreesWork == Faults \cap {"crash", "cell_destroy"} = {}

\* What a cell or a section holds.
Holdings == [mem : Segments, bdf : SUBSET Nat, rcpus : Seq(Nat)]

Pools == [segs : Seq(Segments), bdf : SUBSET Nat, rcpus : Seq(Nat)]

\* The free lists of a contents, as RetrieveState reads them.
PoolOf(d) == [segs |-> d.segs, bdf |-> d.bdf, rcpus |-> d.rcpus]

\* A contents that can be allocated from and given back to.
Sound(d) ==
  /\ PoolOf(d) \in Pools
  /\ d.intact => d.segs # <<>>
  /\ \A i \in DOMAIN d.sections :
       /\ d.sections[i] \in Holdings
       /\ \A k, m \in DOMAIN d.sections[i].rcpus :
            k # m => d.sections[i].rcpus[k] # d.sections[i].rcpus[m]
  /\ Exclusive(d)

\* A process that is about to allocate has read what is still in the file,
\* and one that writes it has truncated it.
SnapInv(c) ==
  /\ verb[c] = "create" => bundle[c] \in Bundles
  /\ pc[c] = "save_state" => file.intact /\ snap[c] = PoolOf(file)
  /\ pc[c] \in {"save_write", "free_write"} => file = EmptyFile

\* Contents of state.toml, whether in the file or computed by a process that
\* will write it, give no resource to two holders; and what a create is about
\* to take is free in the file as it is then.
ExclusiveInv ==
  /\ OneActiveInv /\ ContentsInv
  /\ snap \in [Containers -> Pools]
  /\ Sound(file) /\ \A c \in Containers : Sound(doc[c]) /\ SnapInv(c)

\* Nobody but i holds, and nobody may take, what the holding a contains.
HeldBy(i, a, d) ==
  /\ NotFree(a, d)
  /\ \A j \in DOMAIN d.sections : j # i => Apart(a, d.sections[j])

\* The section of the cell i is given back before the cell is destroyed.
Endings == {"free_truncate", "free_write", "cell_destroy"}

Ending(i) == \E c \in Containers : IdOf[c] = i /\ pc[c] \in Endings

\* Nobody but i has what the cell i uses, the holding a, in the contents d, and
\* it is not free there before the section is given back.
UsedBy(i, a, d, ending) ==
  /\ ~ending => NotFree(a, d)
  /\ \A j \in DOMAIN d.sections : j # i => Apart(a, d.sections[j])

UseInv(i, d) == UsedBy(i, conf[i], d, Ending(i))

\* What the cell that a create works on will use, from the allocation on.
PendingInv(c) ==
  LET i == IdOf[c]
      new == CellConfig(bundle[c], snap[c])
      own(a, d) == /\ a \in Holdings /\ HeldBy(i, a, d)
                   /\ \A j \in Live : j # i => Apart(a, conf[j])
  IN /\ pc[c] \in Saving => own(new, doc[c])
     /\ pc[c] = "compile" => own(new, file)
     /\ pc[c] \in {"make_dir"} \cup (Configuring \ {"createguest"}) =>
          "cell" \notin files[i]
     /\ pc[c] = "createguest" /\ "cell" \in files[i] => own(cellfile[i], file)

\* No two cells share a resource; what a cell uses, or the one that a create
\* works on will use, is neither free nor another's in state.toml, nor in what
\* a process is about to write there, until the teardown gives it back.
CellsInv ==
  /\ conf \in [Ids -> Holdings] /\ cellfile \in [Ids -> Holdings]
  /\ NoSharedResources
  /\ \A i \in Live : UseInv(i, file)
  /\ \A c \in Containers :
       /\ PendingInv(c)
       /\ pc[c] \in Saving \cup Freeing => \A i \in Live : UseInv(i, doc[c])
=============================================================================
