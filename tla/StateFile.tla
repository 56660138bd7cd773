----------------------------- MODULE StateFile -----------------------------
(***************************************************************************)
(* The contents of /usr/share/runPHI/state.toml, the Jailhouse backend's   *)
(* record of which memory, PCI devices and real-time CPUs are free and     *)
(* which of them each container holds, and the functions that compute      *)
(* with it: retrieve_state, the allocation of mem.rs and rpu.rs,           *)
(* save_state and destroy_update_state.                                    *)
(*                                                                         *)
(* A contents is a record: intact (the tables of the free pool are there), *)
(* segs (free_segments.segments), bdf (free_pci_devices_bdf.bdf), rcpus    *)
(* (free_rcpus.ids) and sections, one per container that holds resources.  *)
(* A segment is a half-open range of addresses.  The bdf list is a set,    *)
(* since the code only takes its minimum, retains the others and pushes;   *)
(* the list containerid.ids is left out, since no code reads it.           *)
(***************************************************************************)
EXTENDS Integers, Sequences, FiniteSets, FiniteSetsExt, Functions

CONSTANT Ram0 \* size of the region RAM0_TEMPLATE adds to every request

ASSUME Ram0Assumption == Ram0 \in Nat

Segment(start, end) == [start |-> start, end |-> end]

Segments == {s \in [start : Nat, end : Nat] : s.start <= s.end}

\* Two segments have no address in common.
Disjoint(s, t) == s.end <= t.start \/ t.end <= s.start \/ s.start = s.end \/ t.start = t.end

NoSections == [i \in {} |-> {}]

\* What fs::write leaves between the truncation and the write, and what a
\* reader parses then: a table with nothing in it.
EmptyFile == [intact |-> FALSE, segs |-> <<>>, bdf |-> {}, rcpus |-> <<>>,
              sections |-> NoSections]

-----------------------------------------------------------------------------
(* What config_generate takes from the free lists (a snapshot of the file). *)

\* Indices of the segments that are large enough for n more addresses.
Fits(segs, n) == {k \in DOMAIN segs : segs[k].end - segs[k].start >= n}

\* The memory regions of the cell: RAM0 and, after it, what was asked for.
Regions(b, base) == Segment(base, base + Ram0 + b.mem)

\* Mutant: the request without RAM0.
MutRequired(b) == b.mem

\* What is looked for and cut off the chosen segment.
Required(b) == b.mem + Ram0

\* The preamble exists for zephyr alone; memconfig and devconfig insert the
\* arrays it counts into it, and find none to number a device with when no
\* bdf is left: the source has a chance to compile only with both.
HasSource(b, snap) == b.os = "zephyr" /\ snap.bdf # {}

\* memconfig allocates only in a source with the preamble, and only while
\* some bdf above 0 is left.
CanPlace(b, snap) ==
  /\ HasSource(b, snap)
  /\ \E d \in snap.bdf : d > 0
  /\ Fits(snap.segs, Required(b)) # {}

EnoughRcpus(b, snap) == b.rpus <= Len(snap.rcpus)

\* The first-fit of memconfig, the minimum bdf of a networked cell and the
\* first real-time CPUs; used_* go to the cell, the rest is what stays free.
Allocation(b, snap) ==
  LET k     == Min(Fits(snap.segs, Required(b)))
      base  == snap.segs[k].start
      taken == IF EnoughRcpus(b, snap) THEN b.rpus ELSE 0
  IN [segs |-> IF CanPlace(b, snap)
                 THEN [snap.segs EXCEPT ![k].start = @ + Required(b)]
                 ELSE snap.segs,
      used_mem |-> IF CanPlace(b, snap)
                     THEN Regions(b, base)
                     ELSE Segment(0, 0),
      used_bdf |-> IF b.net /\ snap.bdf # {} THEN {Min(snap.bdf)} ELSE {},
      rcpus |-> SubSeq(snap.rcpus, taken + 1, Len(snap.rcpus)),
      used_rcpus |-> SubSeq(snap.rcpus, 1, taken)]

\* What the compiled .cell file assigns to the cell.
CellConfig(b, snap) ==
  LET a == Allocation(b, snap)
  IN [mem |-> a.used_mem, bdf |-> a.used_bdf, rcpus |-> a.used_rcpus]

-----------------------------------------------------------------------------
(* save_state: the new contents, from the one read and the snapshot.       *)

\* Mutant: the whole first segment instead of what was taken from it.
MutSectionOf(b, snap) ==
  [mem |-> snap.segs[1], bdf |-> Allocation(b, snap).used_bdf,
   rcpus |-> Allocation(b, snap).used_rcpus]

\* The section records as used memory what lies between the first free
\* address before and after the allocation.
SectionOf(b, snap) ==
  LET a == Allocation(b, snap)
  IN [mem |-> Segment(snap.segs[1].start, a.segs[1].start),
      bdf |-> a.used_bdf,
      rcpus |-> a.used_rcpus]

\* Mutant: the used bdf is not taken off the free list.
MutSaveStateBdf(doc, i, b, snap) ==
  LET a == Allocation(b, snap)
  IN [doc EXCEPT !.segs = a.segs, !.rcpus = a.rcpus,
        !.sections = [j \in DOMAIN @ \cup {i} |->
                        IF j = i THEN SectionOf(b, snap) ELSE @[j]]]

\* Mutant: the new contents starts from an empty table, not from the file.
MutSaveStateFresh(doc, i, b, snap) ==
  [EmptyFile EXCEPT !.sections = [j \in {i} |-> SectionOf(b, snap)]]

SaveState(doc, i, b, snap) ==
  LET a    == Allocation(b, snap)
      pool == IF doc.intact
                THEN [doc EXCEPT !.segs = a.segs, !.bdf = @ \ a.used_bdf,
                                 !.rcpus = a.rcpus]
                ELSE doc
  IN [pool EXCEPT !.sections =
        [j \in DOMAIN @ \cup {i} |-> IF j = i THEN SectionOf(b, snap) ELSE @[j]]]

-----------------------------------------------------------------------------
(* destroy_update_state: give back what the section of i records.          *)

\* Stable sort by start address.
Rank(segs, k) == Cardinality({j \in DOMAIN segs :
                    \/ segs[j].start < segs[k].start
                    \/ segs[j].start = segs[k].start /\ j <= k})

SortByStart(segs) ==
  [r \in DOMAIN segs |-> segs[CHOOSE k \in DOMAIN segs : Rank(segs, k) = r]]

\* Where a run of segments, each of which ends where the next one starts,
\* begins, and where the one that begins at k ends.
RunHeads(segs) == {k \in DOMAIN segs : k = 1 \/ segs[k - 1].end # segs[k].start}

RunEnd(segs, k) ==
  Min({m \in DOMAIN segs : m >= k /\ (m = Len(segs) \/ segs[m].end # segs[m + 1].start)})

\* The r-th smallest number of the set S.
Nth(S, r) == CHOOSE k \in S : Cardinality({j \in S : j <= k}) = r

\* Merge contiguous segments of a sorted list: every run becomes one segment.
MergeContiguous(segs) ==
  LET heads == RunHeads(segs)
      run == [k \in heads |-> Segment(segs[k].start, segs[RunEnd(segs, k)].end)]
  IN [r \in 1 .. Cardinality(heads) |-> run[Nth(heads, r)]]

\* Mutant: the section stays.
MutDestroyUpdateState(doc, i) ==
  [doc EXCEPT !.segs = MergeContiguous(SortByStart(Append(@, doc.sections[i].mem)))]

DestroyUpdateState(doc, i) ==
  LET held == doc.sections[i]
      pool == IF doc.intact
                THEN [doc EXCEPT
                        !.segs  = MergeContiguous(SortByStart(Append(@, held.mem))),
                        !.bdf   = @ \cup held.bdf,
                        !.rcpus = @ \o held.rcpus]
                ELSE doc
  IN [pool EXCEPT !.sections = Restrict(@, DOMAIN @ \ {i})]
=============================================================================
