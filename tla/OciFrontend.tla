---------------------------- MODULE OciFrontend ----------------------------
(***************************************************************************)
(* The part of runPHI that every hypervisor backend shares: the command    *)
(* line dispatch of main.rs, the choice between runPHI and runc of         *)
(* forwarding.rs and the call sequences of frontend/commands.rs.           *)
(*                                                                         *)
(* Every OCI command is a process of its own.  A container engine runs at  *)
(* most one command at a time for a container, and commands of different   *)
(* containers concurrently; nothing in runPHI locks one process against    *)
(* another.  pc[c] says where the process working for container c is: at   *)
(* the entry of a backend function, inside it (the labels of the backend   *)
(* modules), or on its way out ("ok", "err").                              *)
(*                                                                         *)
(* Simplifications: the engine serialises the commands of one container    *)
(* and creates a container again only after a delete that it takes for     *)
(* successful; arguments and JSON are abstracted to the fields that        *)
(* decide a branch; logging and timers are left out.                       *)
(***************************************************************************)
EXTENDS Naturals, FiniteSets

CONSTANTS
  Containers, \* containers of the engine (their full OCI ids)
  Ids,        \* ids as runPHI uses them
  IdOf,       \* IdOf[c]: the first 24 characters of the id of c
  Bundles,    \* the bundles (and images in them) the engine may ask for
  Faults,     \* which failures of the environment may happen
  MaxProcs    \* bound: how many runPHI processes may run at once

ASSUME IdOfAssumption == IdOf \in [Containers -> Ids]

VARIABLES
  bundle,  \* bundle[c]: the bundle c is created from
  status,  \* status[c]: what the engine knows of c
  verb,    \* verb[c]: the OCI command that runs for c
  pc,      \* pc[c]: where that process is
  crundir, \* ids whose state directory /run/runPHI/<id> exists
  files,   \* files[i]: the files storeinfo and the others put in it
  runc     \* containers that vanilla runc created

feVars == <<bundle, status, verb, pc, crundir, files, runc>>

-----------------------------------------------------------------------------
(* The commands, and the calls each of them makes.                         *)

Verbs == {"create", "start", "kill", "delete", "state"}

\* The bundle of a container that does not exist.
NoBundle == [annotation |-> "none", bootconfig |-> FALSE, wellformed |-> FALSE,
             os |-> "none", mem |-> 0, net |-> FALSE, rpus |-> 0]

Statuses == {"none", "failed", "created", "started", "killed"}

\* Labels of the frontend; the functions of a backend start at the last row.
FrontLabels == {"idle", "decide_create", "decide_existing", "remove_stale",
                "make_dir", "state", "ok", "err",
                "config_generate", "createguest", "storeinfo", "startguest",
                "stopguest", "destroyguest", "cleanup"}

\* Where a command goes on after a backend function that returned Ok.
AfterOk(v, call) ==
  CASE call = "config_generate"                 -> "createguest"
    [] call = "createguest"                     -> "storeinfo"
    [] call = "stopguest"                       -> "destroyguest"
    [] call = "destroyguest" /\ v = "delete"    -> "cleanup"
    [] OTHER                                    -> "ok"

\* Mutants of AfterErr: the pause is not best-effort; an error of destroyguest
\* is ignored like the one of stopguest; create does not return at an error
\* of createguest.
MutAfterErrAborts(call) == "err"

MutAfterErrCleansUp(call) ==
  CASE call = "stopguest" -> "destroyguest"
    [] call = "destroyguest" -> "cleanup"
    [] OTHER -> "err"

MutAfterErrGoesOn(call) ==
  CASE call = "stopguest" -> "destroyguest"
    [] call = "createguest" -> "storeinfo"
    [] OTHER -> "err"

\* And after one that returned Err: only the pause before a teardown is
\* best-effort, every other error ends the command.
AfterErr(call) == IF call = "stopguest" THEN "destroyguest" ELSE "err"

\* Whether a failure of that name may happen.
Fault(name) == name \in Faults

Goto(c, label) == pc' = [pc EXCEPT ![c] = label]

ReturnOk(c, call)  == Goto(c, AfterOk(verb[c], call))
ReturnErr(c, call) == Goto(c, AfterErr(call))

\* The function kill, delete, start and state call first.
FirstCall(v) ==
  CASE v = "start"             -> "startguest"
    [] v \in {"kill","delete"} -> "stopguest"
    [] v = "state"             -> "state"

-----------------------------------------------------------------------------
(* The engine: which command it may start, and what it makes of the exit.  *)

Active == {c \in Containers : pc[c] # "idle"}

Allowed(s) ==
  CASE s = "none"    -> {"create"}
    [] s = "created" -> {"start", "kill", "delete", "state"}
    [] OTHER         -> {"kill", "delete", "state"}

Invoke(c) ==
  /\ pc[c] = "idle"
  /\ Cardinality(Active) < MaxProcs
  /\ \E v \in Allowed(status[c]) :
       /\ verb' = [verb EXCEPT ![c] = v]
       /\ \/ v = "create" /\ \E b \in Bundles : bundle' = [bundle EXCEPT ![c] = b]
          \/ v # "create" /\ UNCHANGED bundle
       /\ Goto(c, IF v = "create" THEN "decide_create" ELSE "decide_existing")
  /\ UNCHANGED <<status, crundir, files, runc>>

\* The exit status of the process reaches the engine.
Exit(c) ==
  /\ pc[c] \in {"ok", "err"}
  /\ status' = [status EXCEPT ![c] =
       CASE verb[c] = "create" -> IF pc[c] = "ok" THEN "created" ELSE "failed"
         [] verb[c] = "start"  -> IF pc[c] = "ok" THEN "started" ELSE @
         [] verb[c] = "kill"   -> IF pc[c] = "ok" THEN "killed" ELSE @
         [] verb[c] = "delete" -> IF pc[c] = "ok" THEN "none" ELSE @
         [] verb[c] = "state"  -> @]
  /\ bundle' = [bundle EXCEPT ![c] = IF status'[c] = "none" THEN NoBundle ELSE @]
  /\ verb' = [verb EXCEPT ![c] = "none"]
  /\ Goto(c, "idle")
  /\ UNCHANGED <<crundir, files, runc>>

-----------------------------------------------------------------------------
(* main.rs and forwarding.rs                                               *)

\* The annotation org.runphi.runtime decides, else /boot/config.json does.
UsesRunphi(b) ==
  \/ b.annotation = "runphi"
  \/ b.annotation = "none" /\ b.bootconfig

\* Mutant: runPHI goes on after it has called runc.
MutDecideCreate(c) ==
  /\ pc[c] = "decide_create"
  /\ runc' = IF UsesRunphi(bundle[c]) THEN runc ELSE runc \cup {c}
  /\ Goto(c, "remove_stale")
  /\ UNCHANGED <<bundle, status, verb, crundir, files>>

\* The "?" of main.rs on config.json, then decide_create.
DecideCreate(c) ==
  /\ pc[c] = "decide_create"
  /\ \/ UsesRunphi(bundle[c]) /\ Goto(c, "remove_stale") /\ UNCHANGED runc
     \/ ~UsesRunphi(bundle[c]) /\ Goto(c, "ok") /\ runc' = runc \cup {c}
     \/ "config" \in Faults /\ Goto(c, "err") /\ UNCHANGED runc
  /\ UNCHANGED <<bundle, status, verb, crundir, files>>

\* call_runc for a command other than create.  Its exit status is runc's:
\* an engine takes "container does not exist" for success in kill and delete.
RuncExisting(c) ==
  /\ IF c \in runc \/ verb[c] \in {"kill", "delete"}
       THEN Goto(c, "ok")
       ELSE Goto(c, "err")
  /\ runc' = IF verb[c] = "delete" THEN runc \ {c} ELSE runc

DecideExisting(c) ==
  /\ pc[c] = "decide_existing"
  /\ IF IdOf[c] \in crundir
       THEN Goto(c, FirstCall(verb[c])) /\ UNCHANGED runc
       ELSE RuncExisting(c)
  /\ UNCHANGED <<bundle, status, verb, crundir, files>>

\* fs::remove_dir_all(&crundir).ok(): "this should not exist".
RemoveStaleDir(c) ==
  /\ pc[c] = "remove_stale"
  /\ crundir' = crundir \ {IdOf[c]}
  /\ files' = [files EXCEPT ![IdOf[c]] = {}]
  /\ Goto(c, "make_dir")
  /\ UNCHANGED <<bundle, status, verb, runc>>

\* create_dir_all, then the argument checks of commands::create, which leave
\* the directory behind when they fail.
MakeDir(c) ==
  /\ pc[c] = "make_dir"
  /\ crundir' = crundir \cup {IdOf[c]}
  /\ Goto(c, IF bundle[c].wellformed THEN "config_generate" ELSE "err")
  /\ UNCHANGED <<bundle, status, verb, files, runc>>

\* commands::state reads three files of the state directory.
State(c) ==
  /\ pc[c] = "state"
  /\ Goto(c, IF {"bundle", "pidfile", "rootfs"} \subseteq files[IdOf[c]]
               THEN "ok" ELSE "err")
  /\ UNCHANGED <<bundle, status, verb, crundir, files, runc>>

-----------------------------------------------------------------------------
(* Failures that are the same for every backend.                           *)

\* The engine kills the process (a timeout), or the process panics.
CrashFrontend(c) ==
  /\ "crash" \in Faults
  /\ pc[c] \notin {"idle", "ok", "err"}
  /\ Goto(c, "err")
  /\ UNCHANGED <<bundle, status, verb, crundir, files, runc>>

\* The machine restarts: /run is a tmpfs, the engine has no task left.
RebootFrontend ==
  /\ "reboot" \in Faults
  /\ \E c \in Containers : status[c] # "none" \/ pc[c] # "idle"
  /\ status' = [c \in Containers |-> "none"]
  /\ pc' = [c \in Containers |-> "idle"]
  /\ verb' = [c \in Containers |-> "none"]
  /\ bundle' = [c \in Containers |-> NoBundle]
  /\ crundir' = {}
  /\ files' = [i \in Ids |-> {}]
  /\ runc' = {}

FrontInit ==
  /\ bundle = [c \in Containers |-> NoBundle]
  /\ status = [c \in Containers |-> "none"]
  /\ verb = [c \in Containers |-> "none"]
  /\ pc = [c \in Containers |-> "idle"]
  /\ crundir = {}
  /\ files = [i \in Ids |-> {}]
  /\ runc = {}

FrontStep(c) ==
  Exit(c) \/ DecideCreate(c) \/ DecideExisting(c)
    \/ RemoveStaleDir(c) \/ MakeDir(c) \/ State(c)
=============================================================================
