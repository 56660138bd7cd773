---------------------------- MODULE ManagedGuest ----------------------------
(***************************************************************************)
(* What runPHI owes the container engine, whatever the hypervisor: a guest *)
(* exists only while its state directory does, and the directory only      *)
(* while the engine knows the container, so that a guest can always be     *)
(* found and torn down by a later OCI command.  The directory is what      *)
(* forwarding.rs looks at to tell runPHI's containers from runc's.         *)
(***************************************************************************)
CONSTANT Containers

VARIABLES
  known, \* the containers the engine has or is creating
  dir,   \* those that have a state directory /run/runPHI/<id>
  guest  \* those the hypervisor has a guest for

vars == <<known, dir, guest>>

Init == known = {} /\ dir = {} /\ guest = {}

\* The engine asks for the container.
Accept(c) == c \notin known /\ known' = known \cup {c} /\ UNCHANGED <<dir, guest>>

\* runPHI takes it over.
Claim(c) ==
  c \in known \ dir /\ dir' = dir \cup {c} /\ UNCHANGED <<known, guest>>

Boot(c) == c \in dir \ guest /\ guest' = guest \cup {c} /\ UNCHANGED <<known, dir>>

Halt(c) == c \in guest /\ guest' = guest \ {c} /\ UNCHANGED <<known, dir>>

\* The directory goes after the guest, never before.
Release(c) == c \in dir \ guest /\ dir' = dir \ {c} /\ UNCHANGED <<known, guest>>

\* The engine is told that the container is deleted.
Forget(c) ==
  c \in known \ (dir \cup guest) /\ known' = known \ {c} /\ UNCHANGED <<dir, guest>>

\* The machine restarts.
Reset == known # {} /\ known' = {} /\ dir' = {} /\ guest' = {}

Next ==
  \/ \E c \in Containers :
       Accept(c) \/ Claim(c) \/ Boot(c) \/ Halt(c) \/ Release(c) \/ Forget(c)
  \/ Reset

Spec == Init /\ [][Next]_vars
=============================================================================
