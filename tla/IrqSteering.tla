---------------------------- MODULE IrqSteering ----------------------------
(***************************************************************************)
(* The interrupt steering of the KVM backend (backend_kvm/src/irq.rs): a   *)
(* create moves the interrupts of the host to the CPUs the image names and *)
(* keeps what it found, and a teardown writes that back.  The affinities   *)
(* belong to the whole machine; every container has its own record of what *)
(* they were, in saved_irq_affinities.json of its state directory.         *)
(*                                                                         *)
(* A step is one access to /proc/irq/<irq>/smp_affinity_list, or one to    *)
(* that file: processes of other containers may come in between.           *)
(*                                                                         *)
(* Simplifications: /proc/irq exists; an interrupt comes or goes only with *)
(* a reboot; the warning about isolated CPUs is left out, for nothing      *)
(* depends on it.                                                          *)
(***************************************************************************)
EXTENDS OciFrontend

CONSTANTS
  Irqs,    \* the interrupts under /proc/irq
  Fixed,   \* those that cannot be moved, such as the timer
  Cpus,    \* the CPUs of the host
  Home     \* Home[q]: the affinity of q after boot

AffinityLists == (SUBSET Cpus) \ {{}}

ASSUME IrqAssumption == Fixed \subseteq Irqs /\ Home \in [Irqs -> AffinityLists]

\* Lists with other CPUs are among those the kernel refuses (irq_write).
ASSUME SteerAssumption ==
  \A b \in Bundles : b.steer \subseteq Cpus /\ b.ociSteer \subseteq Cpus

VARIABLES
  affinity, \* affinity[q]: smp_affinity_list of q
  saved,    \* saved[i]: what saved_irq_affinities.json of i holds
  walk      \* walk[c]: the loop over the interrupts in the process of c

irqVars == <<affinity, saved, walk>>

SteerLabels == {"steer", "steer_read", "steer_write", "steer_save"}
RestoreLabels == {"destroyguest", "restoring"}

\* A map from interrupts to affinities; {} stands for no entry.
NoEntries == [q \in Irqs |-> {}]

\* todo: the interrupts still to come; at: the one read and not yet written;
\* map: saved_affinities, in memory.
NoWalk == [todo |-> {}, at |-> {}, map |-> NoEntries]

IrqInit == affinity = Home /\ saved = [i \in Ids |-> NoEntries] /\ walk = [c \in Containers |-> NoWalk]

\* get_steer_irqs: the list of the image, else that of the bundle.
SteerCpus(b) == IF b.steer # {} THEN b.steer ELSE b.ociSteer

-----------------------------------------------------------------------------
(* apply_irq_steering                                                      *)

\* Only the last step of createguest asks for it, and returns its error.
SteerBegin(c) ==
  /\ pc[c] = "steer"
  /\ \/ /\ SteerCpus(bundle[c]) = {} \/ Irqs = {}
        /\ ReturnOk(c, "createguest")
        /\ UNCHANGED walk
     \/ /\ SteerCpus(bundle[c]) # {} /\ Irqs # {}
        /\ walk' = [walk EXCEPT ![c].todo = Irqs]
        /\ Goto(c, "steer_read")
     \/ /\ SteerCpus(bundle[c]) # {} /\ Fault("irq_dir")
        /\ ReturnErr(c, "createguest")
        /\ UNCHANGED walk
  /\ UNCHANGED <<bundle, status, verb, crundir, files, runc, affinity, saved>>

\* Mutant: the affinity is read after it has been written.
MutSteerRead(c) ==
  /\ pc[c] = "steer_read"
  /\ \E q \in walk[c].todo :
       walk' = [walk EXCEPT ![c].at = {q}, ![c].todo = @ \ {q},
                            ![c].map[q] = SteerCpus(bundle[c])]
  /\ Goto(c, "steer_write")
  /\ UNCHANGED <<bundle, status, verb, crundir, files, runc, affinity, saved>>

\* The order in which read_dir gives the interrupts is not defined.
SteerRead(c) ==
  /\ pc[c] = "steer_read"
  /\ \E q \in walk[c].todo, found \in BOOLEAN :
       /\ found \/ Fault("irq_read")
       /\ walk' = [walk EXCEPT ![c].at = {q}, ![c].todo = @ \ {q},
                               ![c].map[q] = IF found THEN affinity[q] ELSE @]
  /\ Goto(c, "steer_write")
  /\ UNCHANGED <<bundle, status, verb, crundir, files, runc, affinity, saved>>

\* The value arrives unless the kernel refuses it; nobody looks.
SetAffinity(q, list) ==
  \/ q \notin Fixed /\ affinity' = [affinity EXCEPT ![q] = list]
  \/ (q \in Fixed \/ Fault("irq_write")) /\ UNCHANGED affinity

\* Mutant: the loop ends at an interrupt that cannot be moved.
MutSteerWrite(c) ==
  /\ pc[c] = "steer_write"
  /\ \E q \in walk[c].at :
       /\ SetAffinity(q, SteerCpus(bundle[c]))
       /\ Goto(c, IF walk[c].todo = {} \/ q \in Fixed THEN "steer_save" ELSE "steer_read")
  /\ walk' = [walk EXCEPT ![c].at = {}]
  /\ UNCHANGED <<bundle, status, verb, crundir, files, runc, saved>>

SteerWrite(c) ==
  /\ pc[c] = "steer_write"
  /\ \E q \in walk[c].at : SetAffinity(q, SteerCpus(bundle[c]))
  /\ walk' = [walk EXCEPT ![c].at = {}]
  /\ Goto(c, IF walk[c].todo = {} THEN "steer_save" ELSE "steer_read")
  /\ UNCHANGED <<bundle, status, verb, crundir, files, runc, saved>>

\* Only now is the map written; a failure, which leaves no file that can be
\* read, is logged.
SteerSave(c) ==
  /\ pc[c] = "steer_save"
  /\ LET i == IdOf[c] IN
     \/ /\ saved' = [saved EXCEPT ![i] = walk[c].map]
        /\ files' = [files EXCEPT ![i] = @ \cup {"saved_irqs"}]
     \/ Fault("irq_save") /\ UNCHANGED <<saved, files>>
  /\ walk' = [walk EXCEPT ![c] = NoWalk]
  /\ ReturnOk(c, "createguest")
  /\ UNCHANGED <<bundle, status, verb, crundir, runc, affinity>>

ApplyIrqSteering(c) == SteerBegin(c) \/ SteerRead(c) \/ SteerWrite(c) \/ SteerSave(c)

-----------------------------------------------------------------------------
(* restore_irq_steering                                                    *)

\* Without the file there is nothing to do; one that cannot be read ends the
\* restoration with an error that the caller logs.
RestoreBegin(c, next) ==
  /\ pc[c] = "destroyguest"
  /\ LET i == IdOf[c] IN
     \/ /\ "saved_irqs" \in files[i]
        /\ walk' = [walk EXCEPT ![c].todo = {q \in Irqs : saved[i][q] # {}},
                                ![c].map = saved[i]]
        /\ Goto(c, "restoring")
     \/ /\ "saved_irqs" \notin files[i] \/ Fault("irq_load")
        /\ Goto(c, next)
        /\ UNCHANGED walk
  /\ UNCHANGED <<bundle, status, verb, crundir, files, runc, affinity, saved>>

RestoreWrite(c) ==
  /\ pc[c] = "restoring"
  /\ \E q \in walk[c].todo :
       /\ SetAffinity(q, walk[c].map[q])
       /\ walk' = [walk EXCEPT ![c].todo = @ \ {q}]
  /\ UNCHANGED <<feVars, saved>>

\* The file goes when every entry has been written.
RestoreEnd(c, next) ==
  /\ pc[c] = "restoring"
  /\ walk[c].todo = {}
  /\ walk' = [walk EXCEPT ![c] = NoWalk]
  /\ saved' = [saved EXCEPT ![IdOf[c]] = NoEntries]
  /\ files' = [files EXCEPT ![IdOf[c]] = @ \ {"saved_irqs"}]
  /\ Goto(c, next)
  /\ UNCHANGED <<bundle, status, verb, crundir, runc, affinity>>

RestoreIrqSteering(c, next) == RestoreBegin(c, next) \/ RestoreWrite(c) \/ RestoreEnd(c, next)

-----------------------------------------------------------------------------
(* Properties                                                              *)

\* README.md:24 of the KVM documentation: affinities are "restored on
\* teardown"; when no container is left they are those of a host that never
\* had one.
IrqsRestored ==
  (\A c \in Containers : status[c] = "none" /\ pc[c] = "idle") => affinity = Home
=============================================================================
