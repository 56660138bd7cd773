---------------------------- MODULE MCJailhouse ----------------------------
(***************************************************************************)
(* The instances of Jailhouse that TLC checks.  An id of OciFrontend is    *)
(* the container itself here (no two ids share their first 24 characters), *)
(* so that a permutation of the containers is a symmetry of all state.     *)
(* The scale of addresses is that of the requests: a segment of 5 holds    *)
(* the two smallest requests, RAM0 included, and leaves one address over.  *)
(***************************************************************************)
EXTENDS JailhouseInv, TLC
LOCAL INSTANCE SequencesExt

CONSTANTS c1, c2

OwnId == [c \in Containers |-> c]

SwapContainers == Permutations(Containers)

Zephyr(mem, net, rpus) ==
  [annotation |-> "none", bootconfig |-> TRUE, wellformed |-> TRUE,
   os |-> "zephyr", mem |-> mem, net |-> net, rpus |-> rpus]

Linux     == [Zephyr(0, FALSE, 0) EXCEPT !.os = "linux"]
OtherOs   == [Zephyr(1, FALSE, 0) EXCEPT !.os = "other"]
Plain     == [Zephyr(0, FALSE, 0) EXCEPT !.bootconfig = FALSE]
Malformed == [Zephyr(1, FALSE, 0) EXCEPT !.wellformed = FALSE]
Forced    == [Plain EXCEPT !.annotation = "runphi"]
Refused   == [Zephyr(1, FALSE, 0) EXCEPT !.annotation = "runc"]

\* Every branch of the commands and of the backend.
AllBundles == {Zephyr(1, FALSE, 0), Zephyr(2, TRUE, 1), Linux, OtherOs, Plain,
               Malformed, Forced, Refused}

AllFaults == {"crash", "reboot", "config", "bootconf", "write", "compile", "exec",
              "cell_create", "cell_load", "symlink", "caronte", "pidfile", "cell_start",
              "cell_shutdown", "cell_destroy", "linux_create", "linux_start"}

NoFaults == {}

\* A teardown that nothing interrupts; all else may fail.
TeardownFaults == AllFaults \ {"crash", "cell_destroy"}

CrashFaults == {"crash", "reboot", "write"}

ConcurrentFaults == {"reboot", "cell_destroy"}

\* Failures after which create still knows what it allocated.
SerialFaults == {"bootconf", "compile", "symlink", "cell_shutdown"}

\* One container each with and without what the preamble gives.
TwoKinds == {Zephyr(1, FALSE, 0), Linux}

\* Two sizes, one with a bdf and a real-time CPU.
TwoSizes == {Zephyr(1, FALSE, 0), Zephyr(2, TRUE, 1)}

NoRpus == {Zephyr(1, FALSE, 0), Zephyr(2, FALSE, 0)}

Networked == {Zephyr(1, TRUE, 1)}

Pool(segs, rcpus) ==
  [intact |-> TRUE, segs |-> segs, bdf |-> {1, 2}, rcpus |-> rcpus,
   sections |-> NoSections]

TinyPool == Pool(<<Segment(0, 1)>>, <<0>>)
SmallPool == Pool(<<Segment(0, 5)>>, <<0>>)
SplitPool == Pool(<<Segment(0, 2), Segment(3, 5)>>, <<0>>)
LargePool == Pool(<<Segment(0, 8)>>, <<0>>)

-----------------------------------------------------------------------------
(* MergeContiguous against the loop of destroy_update_state.               *)

\* The loop carries the merged segments and, last, the current one.
MergeLoop(segs) ==
  LET extend(acc, seg) ==
        IF Last(acc).end = seg.start
          THEN Append(Front(acc), Segment(Last(acc).start, seg.end))
          ELSE Append(acc, seg)
  IN FoldLeft(extend, <<Head(segs)>>, Tail(segs))

\* Every list of up to four segments within four addresses.
ASSUME MergeIsLoop ==
  \A n \in 1 .. 4 :
    \A segs \in [1 .. n -> {s \in [start : 0 .. 3, end : 0 .. 3] : s.start <= s.end}] :
      MergeContiguous(segs) = MergeLoop(segs)
=============================================================================
