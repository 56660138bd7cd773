-------------------------- MODULE StateFileProofs --------------------------
(***************************************************************************)
(* What the functions of StateFile do to any contents: sorting, merging,   *)
(* allocating and giving back keep every address, PCI device and real-time *)
(* CPU in one place.                                                       *)
(*                                                                         *)
(* A run of contiguous segments has no recursive definition here, but a    *)
(* first and a last index, so that a fact about all of its segments is     *)
(* shown by looking at the least index that would refute it (MinIsLeast).  *)
(***************************************************************************)
EXTENDS JailhouseInv, FiniteSetTheorems, SequenceTheorems, TLAPS

-----------------------------------------------------------------------------
(* Numbers and ranks.                                                      *)

LEMMA NatWellFounded == IsWellFoundedOn({p \in Nat \X Nat : p[1] < p[2]}, Nat)
<1>1. IsWellFoundedOn(OpToRel(<, Nat), Nat)
  BY NatLessThanWellFounded
<1>2. OpToRel(<, Nat) = {p \in Nat \X Nat : p[1] < p[2]}
  BY DEF OpToRel
<1> QED BY <1>1, <1>2

\* Min of a set of natural numbers is its least element.
LEMMA MinIsLeast ==
  ASSUME NEW T \in SUBSET Nat, T # {}
  PROVE  Min(T) \in T /\ \A m \in T : Min(T) <= m
<1> DEFINE R == {p \in Nat \X Nat : p[1] < p[2]}
<1>1. IsWellFoundedOn(R, Nat)
  BY NatWellFounded
<1> HIDE DEF R
<1>2. PICK x \in T : \A y \in T : ~(<<y, x>> \in R)
  BY <1>1, WFMin
<1>3. ASSUME NEW y \in T PROVE x <= y
  <2>1. x \in Nat /\ y \in Nat
    OBVIOUS
  <2>2. y < x => <<y, x>> \in R
    BY <2>1 DEF R
  <2> QED BY <1>2, <2>1, <2>2
<1> QED BY <1>3 DEF Min

\* A ranking of a finite set without ties uses every rank.
LEMMA EveryRank ==
  ASSUME NEW S, IsFiniteSet(S), NEW f \in [S -> 1 .. Cardinality(S)],
         \A x, y \in S : x # y => f[x] # f[y],
         NEW r \in 1 .. Cardinality(S)
  PROVE  \E x \in S : f[x] = r
<1>1. Cardinality(S) \in Nat
  BY FS_CardinalityType
<1>2. IsFiniteSet(1 .. Cardinality(S)) /\ Cardinality(1 .. Cardinality(S)) = Cardinality(S)
  BY <1>1, FS_Interval
<1>3. f \in Injection(S, 1 .. Cardinality(S))
  BY DEF Injection, IsInjective
<1>4. f \in Surjection(S, 1 .. Cardinality(S))
  BY <1>2, <1>3, FS_Injection
<1> QED BY <1>4 DEF Surjection

\* The position of an element in an order is a rank.
LEMMA PositionIsRank ==
  ASSUME NEW S, IsFiniteSet(S), NEW x \in S, NEW T \in SUBSET S, x \in T
  PROVE  Cardinality(T) \in 1 .. Cardinality(S)
<1>1. IsFiniteSet(T) /\ Cardinality(T) <= Cardinality(S)
  BY FS_Subset
<1>2. Cardinality(T) \in Nat /\ Cardinality(S) \in Nat
  BY <1>1, FS_CardinalityType
<1>3. Cardinality(T) # 0
  BY <1>1, FS_EmptySet
<1> QED BY <1>1, <1>2, <1>3

LEMMA SmallerPosition ==
  ASSUME NEW S, IsFiniteSet(S), NEW U \in SUBSET S, NEW T \in SUBSET U, T # U
  PROVE  Cardinality(T) # Cardinality(U)
<1>1. IsFiniteSet(U)
  BY FS_Subset
<1> QED BY <1>1, FS_Subset

\* Nth enumerates a set of numbers without repetition.
LEMMA NthElement ==
  ASSUME NEW n \in Nat, NEW S \in SUBSET (1 .. n), NEW r \in 1 .. Cardinality(S)
  PROVE  /\ Nth(S, r) \in S
         /\ Cardinality({j \in S : j <= Nth(S, r)}) = r
<1>1. IsFiniteSet(S)
  <2>1. IsFiniteSet(1 .. n)
    BY FS_Interval
  <2> QED BY <2>1, FS_Subset
<1> DEFINE upto(k) == {j \in S : j <= k}
           f == [k \in S |-> Cardinality(upto(k))]
<1>2. f \in [S -> 1 .. Cardinality(S)]
  <2>1. ASSUME NEW k \in S PROVE Cardinality(upto(k)) \in 1 .. Cardinality(S)
    <3>1. upto(k) \in SUBSET S /\ k \in upto(k)
      OBVIOUS
    <3> HIDE DEF upto
    <3> QED BY <1>1, <3>1, PositionIsRank
  <2> QED BY <2>1
<1>3. ASSUME NEW x \in S, NEW y \in S, x # y PROVE f[x] # f[y]
  <2>1. CASE x < y
    <3>1. upto(x) \in SUBSET upto(y) /\ upto(y) \in SUBSET S /\ upto(x) # upto(y)
      <4>1. y \in upto(y) /\ y \notin upto(x)
        BY <2>1
      <4>2. \A j \in S : j <= x => j <= y
        BY <2>1
      <4> QED BY <4>1, <4>2
    <3> HIDE DEF upto
    <3>2. Cardinality(upto(x)) # Cardinality(upto(y))
      BY <1>1, <3>1, SmallerPosition
    <3> QED BY <3>2
  <2>2. CASE y < x
    <3>1. upto(y) \in SUBSET upto(x) /\ upto(x) \in SUBSET S /\ upto(x) # upto(y)
      <4>1. x \in upto(x) /\ x \notin upto(y)
        BY <2>2
      <4>2. \A j \in S : j <= y => j <= x
        BY <2>2
      <4> QED BY <4>1, <4>2
    <3> HIDE DEF upto
    <3>2. Cardinality(upto(y)) # Cardinality(upto(x))
      BY <1>1, <3>1, SmallerPosition
    <3> QED BY <3>2
  <2> QED BY <1>3, <2>1, <2>2
<1>4. PICK x \in S : f[x] = r
  <2> HIDE DEF f
  <2> QED BY <1>1, <1>2, <1>3, EveryRank
<1> QED BY <1>4 DEF Nth

-----------------------------------------------------------------------------
(* Segments.                                                               *)

LEMMA DisjointSym ==
  ASSUME NEW s \in Segments, NEW t \in Segments, Disjoint(s, t)
  PROVE  Disjoint(t, s)
BY DEF Disjoint

\* s is part of t, or empty.
Within(s, t) == s.start = s.end \/ (t.start <= s.start /\ s.end <= t.end)

LEMMA WithinDisjoint ==
  ASSUME NEW s \in Segments, NEW t \in Segments, NEW u \in Segments,
         Within(s, t), Disjoint(t, u)
  PROVE  Disjoint(s, u)
BY DEF Segments, Within, Disjoint

\* What has no address in common with the segments of a run has none in
\* common with the segment that the run becomes.
LEMMA RunCovered ==
  ASSUME NEW segs \in Seq(Segments), NEW k \in DOMAIN segs, NEW l \in DOMAIN segs, k <= l,
         \A m \in k .. (l - 1) : segs[m].end = segs[m + 1].start
  PROVE  /\ Segment(segs[k].start, segs[l].end) \in Segments
         /\ \A u \in Segments : (\A m \in k .. l : Disjoint(u, segs[m]))
                                => Disjoint(u, Segment(segs[k].start, segs[l].end))
<1>1. /\ k \in Nat /\ l \in Nat /\ k .. l \subseteq DOMAIN segs
      /\ \A m \in k .. l : segs[m] \in Segments
  <2>1. DOMAIN segs = 1 .. Len(segs) /\ Len(segs) \in Nat
    BY LenProperties
  <2>2. k .. l \subseteq DOMAIN segs
    BY <2>1
  <2> QED BY <2>1, <2>2, ElementOfSeq
<1>2. \A m \in k .. l : /\ segs[m].start \in Nat /\ segs[m].end \in Nat
                         /\ segs[m].start <= segs[m].end
  BY <1>1 DEF Segments
<1> DEFINE x == segs[k].start
           y == segs[l].end
<1>3. x <= y
  <2> DEFINE T == {m \in k .. l : segs[m].end < x}
  <2>1. SUFFICES ASSUME y < x PROVE FALSE
    BY <1>1, <1>2
  <2>2. T \in SUBSET Nat /\ T # {}
    BY <1>1, <2>1
  <2>3. PICK m \in T : \A n \in T : m <= n
    <3> HIDE DEF T
    <3> QED BY <2>2, MinIsLeast
  <2>4. m # k
    BY <1>1, <1>2, <2>3
  <2>5. m - 1 \in k .. (l - 1) /\ m - 1 \notin T
    BY <1>1, <2>3, <2>4
  <2>6. segs[m - 1].end = segs[m].start
    BY <1>1, <2>5
  <2>7. segs[m - 1].end >= x
    BY <1>1, <1>2, <2>5
  <2> QED BY <1>1, <1>2, <2>3, <2>6, <2>7
<1>4. ASSUME NEW u \in Segments, \A m \in k .. l : Disjoint(u, segs[m]),
             ~Disjoint(u, Segment(x, y))
      PROVE  FALSE
  <2>1. u.start \in Nat /\ u.end \in Nat /\ u.start < u.end /\ x < y /\ x < u.end /\ u.start < y
    BY <1>1, <1>2, <1>3, <1>4 DEF Disjoint, Segment, Segments
  <2> DEFINE p == IF u.start < x THEN x ELSE u.start
             T == {m \in k .. l : p < segs[m].end}
  <2>2. p \in Nat /\ x <= p /\ u.start <= p /\ p < y /\ p < u.end
    BY <1>1, <1>2, <2>1
  <2>3. T \in SUBSET Nat /\ T # {}
    BY <1>1, <2>2
  <2>4. PICK m \in T : \A n \in T : m <= n
    <3> HIDE DEF T
    <3> QED BY <2>3, MinIsLeast
  <2>5. segs[m].start <= p
    <3>1. CASE m = k
      BY <2>2, <3>1
    <3>2. CASE m # k
      <4>1. m - 1 \in k .. (l - 1) /\ m - 1 \notin T
        BY <1>1, <2>4, <3>2
      <4>2. segs[m - 1].end = segs[m].start
        BY <1>1, <4>1
      <4>3. segs[m - 1].end <= p
        BY <1>1, <1>2, <2>2, <4>1
      <4> QED BY <4>2, <4>3
    <3> QED BY <3>1, <3>2
  <2>6. m \in k .. l /\ p < segs[m].end
    BY <2>4
  <2>7. Disjoint(u, segs[m])
    BY <1>4, <2>6
  <2> HIDE DEF p, T
  <2> QED BY <1>2, <2>1, <2>2, <2>5, <2>6, <2>7 DEF Disjoint
<1> QED BY <1>1, <1>2, <1>3, <1>4 DEF Segment, Segments

\* A run ends at or after its head, before the next head, and is contiguous.
LEMMA RunExtent ==
  ASSUME NEW segs \in Seq(Segments), NEW k \in RunHeads(segs)
  PROVE  /\ k \in DOMAIN segs /\ RunEnd(segs, k) \in DOMAIN segs /\ k <= RunEnd(segs, k)
         /\ \A m \in k .. (RunEnd(segs, k) - 1) : /\ segs[m].end = segs[m + 1].start
                                               /\ m + 1 \notin RunHeads(segs)
<1>1. DOMAIN segs = 1 .. Len(segs) /\ Len(segs) \in Nat /\ k \in DOMAIN segs
  BY LenProperties DEF RunHeads
<1> DEFINE T == {m \in DOMAIN segs :
                 m >= k /\ (m = Len(segs) \/ segs[m].end # segs[m + 1].start)}
<1>2. T \in SUBSET Nat /\ Len(segs) \in T
  BY <1>1
<1>3. Min(T) \in T /\ \A m \in T : Min(T) <= m
  <2> HIDE DEF T
  <2> QED BY <1>2, MinIsLeast
<1>4. RunEnd(segs, k) = Min(T)
  BY DEF RunEnd
<1>5. ASSUME NEW m \in k .. (RunEnd(segs, k) - 1)
      PROVE  segs[m].end = segs[m + 1].start /\ m + 1 \notin RunHeads(segs)
  <2>1. m \in DOMAIN segs /\ m >= k /\ m \notin T
    <3>1. Min(T) \in DOMAIN segs /\ m \in k .. (Min(T) - 1)
      BY <1>3, <1>4, <1>5
    <3> HIDE DEF T
    <3> QED BY <1>1, <1>3, <3>1
  <2>2. segs[m].end = segs[m + 1].start
    BY <2>1
  <2>3. (m + 1) - 1 = m /\ m + 1 # 1
    BY <1>1, <2>1
  <2> QED BY <2>2, <2>3 DEF RunHeads
<1> QED BY <1>1, <1>3, <1>4, <1>5

\* Two runs have no segment in common.
LEMMA RunsApart ==
  ASSUME NEW segs \in Seq(Segments), NEW k \in RunHeads(segs), NEW j \in RunHeads(segs), k # j
  PROVE  \A m \in k .. RunEnd(segs, k) : m \notin j .. RunEnd(segs, j)
<1>1. DOMAIN segs = 1 .. Len(segs) /\ Len(segs) \in Nat
  BY LenProperties
<1>2. ASSUME NEW a \in RunHeads(segs), NEW b \in RunHeads(segs), a < b
      PROVE  RunEnd(segs, a) < b
  <2>1. SUFFICES ASSUME b <= RunEnd(segs, a) PROVE FALSE
    BY <1>1, RunExtent
  <2>2. b - 1 \in a .. (RunEnd(segs, a) - 1)
    BY <1>1, <1>2, <2>1, RunExtent
  <2>3. (b - 1) + 1 \notin RunHeads(segs)
    BY <2>2, RunExtent
  <2> QED BY <1>1, <2>3 DEF RunHeads
<1>3. k \in Nat /\ j \in Nat /\ RunEnd(segs, k) \in Nat /\ RunEnd(segs, j) \in Nat
  BY <1>1, RunExtent
<1>4. CASE k < j
  BY <1>2, <1>3, <1>4
<1>5. CASE j < k
  BY <1>2, <1>3, <1>5
<1> QED BY <1>3, <1>4, <1>5

\* Merging keeps addresses apart: within the list, and from what is outside.
LEMMA MergeSound ==
  ASSUME NEW segs \in Seq(Segments), segs # <<>>
  PROVE  LET out == MergeContiguous(segs)
         IN /\ out \in Seq(Segments) /\ out # <<>>
            /\ (\A k, m \in DOMAIN segs : k # m => Disjoint(segs[k], segs[m]))
                 => \A k, m \in DOMAIN out : k # m => Disjoint(out[k], out[m])
            /\ \A u \in Segments : (\A k \in DOMAIN segs : Disjoint(u, segs[k]))
                                   => \A k \in DOMAIN out : Disjoint(u, out[k])
<1> DEFINE H == RunHeads(segs)
           n == Cardinality(H)
           head(r) == Nth(H, r)
           last(r) == RunEnd(segs, head(r))
           run(r) == Segment(segs[head(r)].start, segs[last(r)].end)
           out == MergeContiguous(segs)
<1>1. DOMAIN segs = 1 .. Len(segs) /\ Len(segs) \in Nat /\ Len(segs) # 0
  BY LenProperties, EmptySeq
<1>2. H \in SUBSET (1 .. Len(segs)) /\ 1 \in H
  BY <1>1 DEF RunHeads
<1>3. n \in Nat /\ n >= 1
  <2>1. IsFiniteSet(1 .. Len(segs))
    BY <1>1, FS_Interval
  <2>2. IsFiniteSet(H)
    BY <1>2, <2>1, FS_Subset
  <2>3. n \in Nat /\ n # 0
    BY <1>2, <2>2, FS_CardinalityType, FS_EmptySet
  <2> QED BY <2>3
<1>5. ASSUME NEW r \in 1 .. n
      PROVE  head(r) \in H /\ \A s \in 1 .. n : r # s => head(r) # head(s)
  <2>1. \A s \in 1 .. n : /\ Nth(H, s) \in H
                          /\ Cardinality({j \in H : j <= Nth(H, s)}) = s
    <3> HIDE DEF H
    <3> QED BY <1>1, <1>2, NthElement
  <2> HIDE DEF H, n
  <2> QED BY <2>1
<1>4. out = [r \in 1 .. n |-> run(r)]
  <2> DEFINE seg(k) == Segment(segs[k].start, segs[RunEnd(segs, k)].end)
             byHead == [k \in H |-> seg(k)]
  <2>1. out = [r \in 1 .. n |-> byHead[head(r)]]
    BY DEF MergeContiguous
  <2>2. \A r \in 1 .. n : byHead[head(r)] = run(r)
    <3> HIDE DEF H, n, head
    <3> QED BY <1>5
  <2> HIDE DEF byHead, H, n, head, out, run
  <2> QED BY <2>1, <2>2
<1> HIDE DEF H, n, head, out
<1>6. ASSUME NEW r \in 1 .. n
      PROVE  /\ run(r) \in Segments
             /\ \A u \in Segments : (\A m \in head(r) .. last(r) : Disjoint(u, segs[m]))
                                    => Disjoint(u, run(r))
             /\ head(r) .. last(r) \subseteq DOMAIN segs
  <2>1. head(r) \in RunHeads(segs)
    BY <1>5 DEF H
  <2>2. /\ head(r) \in DOMAIN segs /\ last(r) \in DOMAIN segs /\ head(r) <= last(r)
        /\ \A m \in head(r) .. (last(r) - 1) : segs[m].end = segs[m + 1].start
    BY <2>1, RunExtent
  <2> HIDE DEF last
  <2>3. head(r) .. last(r) \subseteq DOMAIN segs
    BY <1>1, <2>2
  <2>4. /\ run(r) \in Segments
        /\ \A u \in Segments : (\A m \in head(r) .. last(r) : Disjoint(u, segs[m]))
                               => Disjoint(u, run(r))
    BY <2>2, RunCovered
  <2> QED BY <2>3, <2>4
<1>7. out \in Seq(Segments) /\ out # <<>> /\ DOMAIN out = 1 .. n
  <2>1. out \in [1 .. n -> Segments] /\ DOMAIN out = 1 .. n
    BY <1>4, <1>6
  <2>2. out \in Seq(Segments)
    BY <1>3, <2>1, SeqDef
  <2>3. out # <<>>
    <3>1. DOMAIN out = 1 .. Len(out)
      BY <2>2, LenProperties
    <3>2. 1 \in DOMAIN out
      BY <1>3, <2>1
    <3>3. Len(<<>>) = 0
      BY EmptySeq
    <3> HIDE DEF out
    <3> QED BY <3>1, <3>2, <3>3
  <2> QED BY <2>1, <2>2, <2>3
<1>8. ASSUME NEW u \in Segments, \A k \in DOMAIN segs : Disjoint(u, segs[k]), NEW r \in 1 .. n
      PROVE  Disjoint(u, out[r])
  BY <1>4, <1>6, <1>8
<1>9. ASSUME \A k, m \in DOMAIN segs : k # m => Disjoint(segs[k], segs[m]),
             NEW r \in 1 .. n, NEW s \in 1 .. n, r # s
      PROVE  Disjoint(out[r], out[s])
  <2>1. head(r) \in RunHeads(segs) /\ head(s) \in RunHeads(segs) /\ head(r) # head(s)
    BY <1>5, <1>9 DEF H
  <2>2. \A m \in head(r) .. last(r) : m \notin head(s) .. last(s)
    BY <2>1, RunsApart
  <2>3. ASSUME NEW m \in head(r) .. last(r)
        PROVE  Disjoint(run(s), segs[m])
    <3>1. m \in DOMAIN segs /\ segs[m] \in Segments
      BY <1>1, <1>6, ElementOfSeq
    <3>2. \A p \in head(s) .. last(s) : p # m /\ p \in DOMAIN segs
      BY <1>6, <2>2
    <3>3. \A p \in head(s) .. last(s) : Disjoint(segs[m], segs[p])
      BY <1>9, <3>1, <3>2
    <3>4. Disjoint(segs[m], run(s))
      BY <1>6, <3>1, <3>3
    <3> QED BY <1>6, <3>1, <3>4, DisjointSym
  <2>4. Disjoint(run(s), run(r))
    BY <1>6, <2>3
  <2>5. Disjoint(run(r), run(s))
    BY <1>6, <2>4, DisjointSym
  <2> QED BY <1>4, <2>5
<1> QED BY <1>7, <1>8, <1>9 DEF out

\* A sorted list holds the same segments, each as often as before.
LEMMA SortSound ==
  ASSUME NEW segs \in Seq(Segments)
  PROVE  LET out == SortByStart(segs)
         IN /\ out \in Seq(Segments) /\ DOMAIN out = DOMAIN segs
            /\ \E p \in [DOMAIN segs -> DOMAIN segs] :
                 /\ \A k, m \in DOMAIN segs : k # m => p[k] # p[m]
                 /\ \A k \in DOMAIN segs : out[k] = segs[p[k]]
<1> DEFINE D == DOMAIN segs
           upto(k) == {j \in D : \/ segs[j].start < segs[k].start
                                 \/ segs[j].start = segs[k].start /\ j <= k}
           f == [k \in D |-> Rank(segs, k)]
           out == SortByStart(segs)
<1>1. D = 1 .. Len(segs) /\ Len(segs) \in Nat /\ segs \in [D -> Segments]
  BY LenProperties
<1>2. \A k \in D : segs[k].start \in Nat
  BY <1>1 DEF Segments
<1>3. IsFiniteSet(D) /\ Cardinality(D) = Len(segs)
  <2>1. IsFiniteSet(1 .. Len(segs)) /\ Cardinality(1 .. Len(segs)) = Len(segs)
    <3>1. IF 1 > Len(segs) THEN Len(segs) = 0 ELSE Len(segs) - 1 + 1 = Len(segs)
      BY <1>1
    <3>2. 1 \in Int /\ Len(segs) \in Int
      BY <1>1
    <3>3. Cardinality(1 .. Len(segs)) =
            IF 1 > Len(segs) THEN 0 ELSE Len(segs) - 1 + 1
      BY <3>2, FS_Interval
    <3>4. IsFiniteSet(1 .. Len(segs))
      BY <3>2, FS_Interval
    <3> QED BY <3>1, <3>3, <3>4
  <2> QED BY <1>1, <2>1
<1>4. \A k \in D : f[k] = Cardinality(upto(k)) /\ upto(k) \in SUBSET D /\ k \in upto(k)
  <2>1. ASSUME NEW k \in D PROVE Rank(segs, k) = Cardinality(upto(k))
    <3>1. Rank(segs, k) = Cardinality({j \in D : \/ segs[j].start < segs[k].start
                                                 \/ segs[j].start = segs[k].start /\ j <= k})
      BY DEF Rank
    <3> QED BY <3>1
  <2>2. \A k \in D : k <= k
    BY <1>1
  <2>3. \A k \in D : k \in upto(k)
    BY <2>2
  <2>4. \A k \in D : upto(k) \in SUBSET D
    OBVIOUS
  <2> QED BY <2>1, <2>3, <2>4
<1>5. ASSUME NEW k \in D, NEW m \in D, k # m PROVE f[k] # f[m]
  <2>1. ASSUME NEW a \in D, NEW b \in D,
               segs[a].start < segs[b].start \/ (segs[a].start = segs[b].start /\ a < b)
        PROVE  f[a] # f[b]
    <3>1. upto(a) \in SUBSET upto(b)
      <4>1. ASSUME NEW j \in upto(a) PROVE j \in upto(b)
        <5>1. j \in D /\ j \in Nat /\ a \in Nat /\ b \in Nat
          BY <1>1
        <5>2. segs[j].start \in Nat /\ segs[a].start \in Nat /\ segs[b].start \in Nat
          BY <1>2, <5>1
        <5>3. \/ segs[j].start < segs[a].start
              \/ segs[j].start = segs[a].start /\ j <= a
          OBVIOUS
        <5> DEFINE x == segs[j].start
                   y == segs[a].start
                   z == segs[b].start
        <5>4. x \in Nat /\ y \in Nat /\ z \in Nat /\ (y < z \/ (y = z /\ a < b))
              /\ (x < y \/ (x = y /\ j <= a))
          BY <2>1, <5>2, <5>3
        <5> HIDE DEF x, y, z, D
        <5>5. x < z \/ (x = z /\ j <= b)
          BY <5>1, <5>4
        <5> QED BY <5>1, <5>5 DEF x, z
      <4> QED BY <4>1
    <3>2. b \in upto(b) /\ b \notin upto(a)
      BY <1>1, <1>2, <2>1
    <3>3. upto(b) \in SUBSET D /\ upto(a) # upto(b)
      BY <3>2
    <3>4. f[a] = Cardinality(upto(a)) /\ f[b] = Cardinality(upto(b))
      BY <1>4
    <3> HIDE DEF upto, f, D
    <3>5. Cardinality(upto(a)) # Cardinality(upto(b))
      BY <1>3, <3>1, <3>3, SmallerPosition
    <3> QED BY <3>4, <3>5
  <2> QED BY <1>1, <1>2, <1>5, <2>1
<1>6. f \in [D -> 1 .. Cardinality(D)]
  <2>1. ASSUME NEW k \in D PROVE f[k] \in 1 .. Cardinality(D)
    <3>1. f[k] = Cardinality(upto(k)) /\ upto(k) \in SUBSET D /\ k \in upto(k)
      BY <1>4
    <3> HIDE DEF upto, f, D
    <3> QED BY <1>3, <3>1, PositionIsRank
  <2> QED BY <2>1
<1>7. \A r \in D : \E k \in D : f[k] = r
  <2>1. ASSUME NEW r \in D PROVE \E k \in D : f[k] = r
    <3>1. r \in 1 .. Cardinality(D)
      BY <1>1, <1>3
    <3> HIDE DEF f, D
    <3> QED BY <1>3, <1>5, <1>6, <3>1, EveryRank
  <2> QED BY <2>1
<1> DEFINE p == [r \in D |-> CHOOSE k \in D : Rank(segs, k) = r]
<1>8. \A r \in D : p[r] \in D /\ f[p[r]] = r
  BY <1>7
<1>9. out = [r \in D |-> segs[p[r]]]
  BY DEF SortByStart
<1>10. p \in [D -> D] /\ \A k, m \in D : k # m => p[k] # p[m]
  <2> HIDE DEF f
  <2> QED BY <1>8
<1>11. out \in Seq(Segments) /\ DOMAIN out = D
  <2> HIDE DEF p, out
  <2>1. out \in [1 .. Len(segs) -> Segments]
    BY <1>1, <1>9, <1>10
  <2> QED BY <1>1, <2>1, SeqDef
<1>12. \A k \in D : out[k] = segs[p[k]]
  <2> HIDE DEF p, out
  <2> QED BY <1>9
<1> HIDE DEF p
<1> QED BY <1>10, <1>11, <1>12

-----------------------------------------------------------------------------
(* Taking from the free lists.                                             *)

\* The lists of s hold each address and each real-time CPU once.
Once(s) ==
  /\ \A k, m \in DOMAIN s.segs : k # m => Disjoint(s.segs[k], s.segs[m])
  /\ \A k, m \in DOMAIN s.rcpus : k # m => s.rcpus[k] # s.rcpus[m]

\* Cutting a list of distinct numbers in two.
LEMMA CutSound ==
  ASSUME NEW s \in Seq(Nat), NEW n \in Nat, n <= Len(s),
         \A k, m \in DOMAIN s : k # m => s[k] # s[m]
  PROVE  LET u == SubSeq(s, 1, n)
             r == SubSeq(s, n + 1, Len(s))
         IN /\ u \in Seq(Nat) /\ r \in Seq(Nat)
            /\ Elements(u) \subseteq Elements(s) /\ Elements(r) \subseteq Elements(s)
            /\ Elements(u) \cap Elements(r) = {}
            /\ \A k, m \in DOMAIN u : k # m => u[k] # u[m]
            /\ \A k, m \in DOMAIN r : k # m => r[k] # r[m]
<1> DEFINE u == SubSeq(s, 1, n)
           r == SubSeq(s, n + 1, Len(s))
<1>1. /\ Len(s) \in Nat /\ DOMAIN s = 1 .. Len(s)
      /\ \A k \in 1 .. Len(s) : s[k] \in Nat
  BY LenProperties, ElementOfSeq
<1>2. /\ u \in Seq(Nat) /\ Len(u) = n
      /\ \A k \in 1 .. n : u[k] = s[k]
  <2>1. 1 \in Int /\ n \in Int /\ \A k \in 1 .. n : s[k] \in Nat
    BY <1>1
  <2>2. /\ u \in Seq(Nat) /\ Len(u) = IF 1 <= n THEN n - 1 + 1 ELSE 0
        /\ \A k \in 1 .. n - 1 + 1 : u[k] = s[1 + k - 1]
    BY <2>1, SubSeqProperties
  <2> HIDE DEF u
  <2>3. n - 1 + 1 = n /\ \A k \in 1 .. n : 1 + k - 1 = k
    OBVIOUS
  <2> QED BY <2>1, <2>2, <2>3
<1>3. /\ r \in Seq(Nat) /\ Len(r) = Len(s) - n
      /\ \A k \in 1 .. Len(s) - n : r[k] = s[n + k]
  <2>1. n + 1 \in Int /\ Len(s) \in Int /\ \A k \in n + 1 .. Len(s) : s[k] \in Nat
    BY <1>1
  <2>2. /\ r \in Seq(Nat)
        /\ Len(r) = IF n + 1 <= Len(s) THEN Len(s) - (n + 1) + 1 ELSE 0
        /\ \A k \in 1 .. Len(s) - (n + 1) + 1 : r[k] = s[n + 1 + k - 1]
    BY <2>1, SubSeqProperties
  <2> HIDE DEF r
  <2> DEFINE l == Len(s)
             len == Len(r)
  <2>3. l \in Nat /\ n <= l /\ (len = IF n + 1 <= l THEN l - (n + 1) + 1 ELSE 0)
    BY <1>1, <2>2
  <2> HIDE DEF l, len
  <2>4. len = l - n /\ l - (n + 1) + 1 = l - n
    BY <2>3
  <2>5. Len(r) = Len(s) - n /\ 1 .. Len(s) - (n + 1) + 1 = 1 .. Len(s) - n
    BY <2>4 DEF l, len
  <2>6. ASSUME NEW k \in 1 .. Len(s) - n PROVE r[k] = s[n + k]
    <3>1. k \in Nat /\ n + 1 + k - 1 = n + k
      BY <1>1
    <3> QED BY <2>2, <2>5, <3>1
  <2> QED BY <2>2, <2>5, <2>6
<1>4. DOMAIN u = 1 .. n /\ DOMAIN r = 1 .. Len(s) - n
  BY <1>2, <1>3, LenProperties
<1> HIDE DEF u, r
<1>5. \A k \in DOMAIN u : k \in DOMAIN s /\ u[k] = s[k]
  BY <1>1, <1>2, <1>4
<1>6. \A k \in DOMAIN r : n + k \in DOMAIN s /\ r[k] = s[n + k] /\ k \in Nat /\ n + k > n
  <2>1. ASSUME NEW k \in DOMAIN r
        PROVE  n + k \in DOMAIN s /\ r[k] = s[n + k] /\ k \in Nat /\ n + k > n
    <3>1. k \in 1 .. Len(s) - n
      BY <1>4
    <3>2. r[k] = s[n + k]
      BY <1>3, <3>1
    <3>3. k \in Nat /\ n + k > n /\ n + k >= 1 /\ n + k <= Len(s) /\ n + k \in Nat
      BY <1>1, <3>1
    <3> QED BY <1>1, <3>2, <3>3
  <2> QED BY <2>1
<1>7. \A k \in DOMAIN u, m \in DOMAIN r : u[k] # r[m]
  <2>1. ASSUME NEW k \in DOMAIN u, NEW m \in DOMAIN r PROVE u[k] # r[m]
    <3>1. k <= n /\ k \in Nat /\ k # n + m
      BY <1>4, <1>6
    <3> QED BY <1>5, <1>6, <3>1
  <2> QED BY <2>1
<1>8. Elements(u) \subseteq Elements(s) /\ Elements(r) \subseteq Elements(s)
  BY <1>5, <1>6 DEF Elements
<1>9. Elements(u) \cap Elements(r) = {}
  BY <1>7 DEF Elements
<1>10. \A k, m \in DOMAIN u : k # m => u[k] # u[m]
  BY <1>5
<1>11. \A k, m \in DOMAIN r : k # m => r[k] # r[m]
  <2>1. ASSUME NEW k \in DOMAIN r, NEW m \in DOMAIN r, k # m PROVE r[k] # r[m]
    <3>1. n + k # n + m
      BY <1>6, <2>1
    <3> QED BY <1>6, <3>1
  <2> QED BY <2>1
<1> QED BY <1>2, <1>3, <1>8, <1>9, <1>10, <1>11 DEF u, r

\* What the memory of the cell and of the section is cut from stays apart
\* from it.
LEMMA MemoryTaken ==
  ASSUME NEW s \in Pools, s.segs # <<>>, Once(s),
         NEW b \in Bundles
  PROVE  LET a == Allocation(b, s)
         IN /\ a.segs \in Seq(Segments) /\ DOMAIN a.segs = DOMAIN s.segs
            /\ a.used_mem \in Segments /\ SectionOf(b, s).mem \in Segments
            /\ \A k \in DOMAIN s.segs : Within(a.segs[k], s.segs[k])
            /\ \A used \in {a.used_mem, SectionOf(b, s).mem} :
                 /\ \E k \in DOMAIN s.segs : Within(used, s.segs[k])
                 /\ \A k \in DOMAIN s.segs : Disjoint(used, a.segs[k])
            /\ \A k, m \in DOMAIN a.segs : k # m => Disjoint(a.segs[k], a.segs[m])
<1> DEFINE a == Allocation(b, s)
           k0 == Min(Fits(s.segs, Required(b)))
           sec == SectionOf(b, s).mem
<1>1. /\ Len(s.segs) \in Nat /\ Len(s.segs) # 0 /\ DOMAIN s.segs = 1 .. Len(s.segs)
      /\ s.segs \in Seq(Segments)
      /\ \A k \in DOMAIN s.segs : /\ s.segs[k] \in Segments
                                  /\ s.segs[k].start \in Nat /\ s.segs[k].end \in Nat
                                  /\ s.segs[k].start <= s.segs[k].end
                                  /\ s.segs[k] = Segment(s.segs[k].start, s.segs[k].end)
  <2>1. s.segs \in Seq(Segments)
    BY DEF Pools
  <2>2. Len(s.segs) \in Nat /\ Len(s.segs) # 0 /\ DOMAIN s.segs = 1 .. Len(s.segs)
    BY <2>1, LenProperties, EmptySeq
  <2>3. \A k \in DOMAIN s.segs : s.segs[k] \in Segments
    BY <2>1, <2>2, ElementOfSeq
  <2> QED BY <2>1, <2>2, <2>3 DEF Segments, Segment
<1>2. Required(b) \in Nat /\ Required(b) = b.mem + Ram0 /\ b.mem \in Nat
  BY BundlesAssumption, Ram0Assumption DEF Required
<1>3. 1 \in DOMAIN s.segs
  BY <1>1
<1>4. SectionOf(b, s).mem = Segment(s.segs[1].start, a.segs[1].start)
  BY DEF SectionOf
<1>5. CASE ~CanPlace(b, s)
  <2>1. a.segs = s.segs /\ a.used_mem = Segment(0, 0)
    BY <1>5 DEF Allocation
  <2> HIDE DEF a
  <2>2. a.used_mem \in Segments /\ sec \in Segments /\ sec.start = sec.end
        /\ a.used_mem.start = a.used_mem.end
    BY <1>1, <1>3, <1>4, <2>1 DEF Segment, Segments
  <2>3. \A used \in {a.used_mem, sec} :
          /\ \A k \in DOMAIN s.segs : Within(used, s.segs[k]) /\ Disjoint(used, a.segs[k])
    BY <2>2 DEF Within, Disjoint
  <2>4. \A k \in DOMAIN s.segs : Within(a.segs[k], s.segs[k])
    BY <1>1, <2>1 DEF Within
  <2> HIDE DEF sec
  <2> QED BY <1>1, <1>3, <2>1, <2>2, <2>3, <2>4 DEF a, sec, Once
<1>6. CASE CanPlace(b, s)
  <2>1. Fits(s.segs, Required(b)) \in SUBSET Nat /\ Fits(s.segs, Required(b)) # {}
    BY <1>1, <1>6 DEF CanPlace, Fits
  <2>2. k0 \in Fits(s.segs, Required(b))
    BY <2>1, MinIsLeast
  <2>3. k0 \in DOMAIN s.segs /\ s.segs[k0].end - s.segs[k0].start >= Required(b)
    BY <2>2 DEF Fits
  <2> HIDE DEF k0
  <2> DEFINE base == s.segs[k0].start
             cut == base + Required(b)
  <2>4. /\ a.segs = [s.segs EXCEPT ![k0].start = cut]
        /\ a.used_mem = Segment(base, base + Ram0 + b.mem)
    BY <1>6 DEF Allocation, Regions, k0
  <2>5. base \in Nat /\ cut \in Nat /\ cut <= s.segs[k0].end /\ base <= cut
        /\ base + Ram0 + b.mem = cut /\ s.segs[k0].end \in Nat
    <3> DEFINE e == s.segs[k0].end
               q == Required(b)
    <3>1. base \in Nat /\ e \in Nat /\ e - base >= q
      BY <1>1, <2>3
    <3>2. q \in Nat /\ q = b.mem + Ram0 /\ b.mem \in Nat /\ Ram0 \in Nat
      BY <1>2, Ram0Assumption
    <3>3. cut = base + q
      OBVIOUS
    <3> HIDE DEF e, q, base, cut
    <3>4. cut \in Nat /\ cut <= e /\ base <= cut /\ base + Ram0 + b.mem = cut
      BY <3>1, <3>2, <3>3
    <3> QED BY <3>1, <3>4 DEF e
  <2>6. a.used_mem = Segment(base, cut)
    BY <2>4, <2>5
  <2> HIDE DEF cut, base
  <2> DEFINE rest == Segment(cut, s.segs[k0].end)
  <2>7. a.segs = [s.segs EXCEPT ![k0] = rest]
    <3>1. s.segs[k0] = Segment(base, s.segs[k0].end)
      BY <1>1, <2>3 DEF base
    <3>2. [s.segs[k0] EXCEPT !.start = cut] = rest
      BY <3>1 DEF Segment
    <3> QED BY <2>4, <3>2
  <2>8. rest \in Segments
    BY <2>5 DEF Segment, Segments
  <2> HIDE DEF rest, a
  <2>9. /\ a.segs \in Seq(Segments) /\ DOMAIN a.segs = DOMAIN s.segs
        /\ a.segs[k0] = rest
        /\ \A k \in DOMAIN s.segs : k # k0 => a.segs[k] = s.segs[k]
    <3>1. a.segs \in Seq(Segments)
      BY <1>1, <2>3, <2>7, <2>8, ExceptSeq
    <3> QED BY <1>1, <2>3, <2>7, <3>1
  <2>10. s.segs[k0] = Segment(base, s.segs[k0].end) /\ s.segs[k0] \in Segments
    BY <1>1, <2>3 DEF base
  <2>11. Within(rest, s.segs[k0]) /\ Within(a.used_mem, s.segs[k0])
         /\ Disjoint(a.used_mem, rest) /\ a.used_mem \in Segments
    <3> DEFINE e == s.segs[k0].end
    <3>1. s.segs[k0] = Segment(base, e) /\ e \in Nat /\ cut <= e
      BY <2>5, <2>10
    <3> HIDE DEF e
    <3>2. rest = Segment(cut, e)
      BY DEF rest, e
    <3> QED BY <2>5, <2>6, <3>1, <3>2 DEF Within, Segment, Segments, Disjoint
  <2>12. \A k \in DOMAIN s.segs : Within(a.segs[k], s.segs[k]) /\ a.segs[k] \in Segments
    BY <1>1, <2>8, <2>9, <2>11 DEF Within
  <2>13. \A k \in DOMAIN s.segs : k # k0 => Disjoint(s.segs[k0], s.segs[k])
    BY <2>3 DEF Once
  <2>14. \A k \in DOMAIN s.segs : Disjoint(a.used_mem, a.segs[k])
    <3>1. ASSUME NEW k \in DOMAIN s.segs, k # k0 PROVE Disjoint(a.used_mem, s.segs[k])
      <4>1. s.segs[k] \in Segments /\ Disjoint(s.segs[k0], s.segs[k])
        BY <1>1, <2>13, <3>1
      <4> QED BY <2>10, <2>11, <4>1, WithinDisjoint
    <3> QED BY <2>9, <2>11, <3>1
  <2>15. sec = a.used_mem \/ (sec \in Segments /\ sec.start = sec.end)
    <3>1. CASE k0 = 1
      <4>1. a.segs[1].start = cut /\ s.segs[1].start = base
        BY <2>9, <3>1 DEF rest, Segment, base
      <4> QED BY <1>4, <2>6, <4>1 DEF a
    <3>2. CASE k0 # 1
      <4>1. a.segs[1].start = s.segs[1].start
        BY <1>3, <2>9, <3>2
      <4> QED BY <1>1, <1>3, <1>4, <4>1 DEF a, Segment, Segments
    <3> QED BY <3>1, <3>2
  <2> HIDE DEF sec
  <2>16. /\ sec \in Segments
         /\ \E k \in DOMAIN s.segs : Within(sec, s.segs[k])
         /\ \A k \in DOMAIN s.segs : Disjoint(sec, a.segs[k])
    <3>1. CASE sec = a.used_mem
      BY <2>3, <2>11, <2>14, <3>1
    <3>2. CASE sec \in Segments /\ sec.start = sec.end
      BY <1>3, <3>2 DEF Within, Disjoint
    <3> QED BY <2>15, <3>1, <3>2
  <2>17. ASSUME NEW k \in DOMAIN a.segs, NEW m \in DOMAIN a.segs, k # m
         PROVE  Disjoint(a.segs[k], a.segs[m])
    <3>1. k \in DOMAIN s.segs /\ m \in DOMAIN s.segs
      BY <2>9
    <3>2. /\ s.segs[k] \in Segments /\ s.segs[m] \in Segments
          /\ a.segs[k] \in Segments /\ a.segs[m] \in Segments
          /\ Within(a.segs[k], s.segs[k]) /\ Within(a.segs[m], s.segs[m])
      BY <1>1, <2>12, <3>1
    <3>3. Disjoint(s.segs[k], s.segs[m])
      BY <2>17, <3>1 DEF Once
    <3>4. Disjoint(a.segs[k], s.segs[m])
      BY <3>2, <3>3, WithinDisjoint
    <3>5. Disjoint(a.segs[m], a.segs[k])
      BY <3>2, <3>4, DisjointSym, WithinDisjoint
    <3> QED BY <3>2, <3>5, DisjointSym
  <2>18. \A used \in {a.used_mem, sec} :
           /\ \E k \in DOMAIN s.segs : Within(used, s.segs[k])
           /\ \A k \in DOMAIN s.segs : Disjoint(used, a.segs[k])
    BY <2>3, <2>11, <2>14, <2>16
  <2> QED BY <2>9, <2>11, <2>12, <2>16, <2>17, <2>18 DEF a, sec
<1> QED BY <1>5, <1>6

\* What an allocation leaves is free of what it took, and so is everything
\* that was held before.
LEMMA AllocationSound ==
  ASSUME NEW s \in Pools, s.segs # <<>>, Once(s), NEW b \in Bundles
  PROVE  LET a    == Allocation(b, s)
             left == [segs |-> a.segs, bdf |-> s.bdf \ a.used_bdf, rcpus |-> a.rcpus]
         IN /\ left \in Pools /\ left.segs # <<>> /\ Once(left)
            /\ \A x \in {SectionOf(b, s), CellConfig(b, s)} :
                 /\ x \in Holdings
                 /\ \A k, m \in DOMAIN x.rcpus : k # m => x.rcpus[k] # x.rcpus[m]
                 /\ NotFree(x, left)
                 /\ \A y \in Holdings : NotFree(y, s) => Apart(y, x)
            /\ \A y \in Holdings : NotFree(y, s) => NotFree(y, left)
<1> DEFINE a == Allocation(b, s)
           left == [segs |-> a.segs, bdf |-> s.bdf \ a.used_bdf, rcpus |-> a.rcpus]
           takes == {SectionOf(b, s), CellConfig(b, s)}
<1>1. /\ a.segs \in Seq(Segments) /\ DOMAIN a.segs = DOMAIN s.segs
      /\ a.used_mem \in Segments /\ SectionOf(b, s).mem \in Segments
      /\ \A k \in DOMAIN s.segs : Within(a.segs[k], s.segs[k])
      /\ \A used \in {a.used_mem, SectionOf(b, s).mem} :
           /\ \E k \in DOMAIN s.segs : Within(used, s.segs[k])
           /\ \A k \in DOMAIN s.segs : Disjoint(used, a.segs[k])
      /\ \A k, m \in DOMAIN a.segs : k # m => Disjoint(a.segs[k], a.segs[m])
  BY MemoryTaken
<1>2. a.used_bdf \in SUBSET s.bdf /\ s.bdf \in SUBSET Nat
  <2>1. s.bdf \in SUBSET Nat
    BY DEF Pools
  <2>2. s.bdf # {} => Min(s.bdf) \in s.bdf
    BY <2>1, MinIsLeast
  <2>3. a.used_bdf = IF b.net /\ s.bdf # {} THEN {Min(s.bdf)} ELSE {}
    BY DEF Allocation
  <2> HIDE DEF a
  <2> QED BY <2>1, <2>2, <2>3
<1> DEFINE n == IF EnoughRcpus(b, s) THEN b.rpus ELSE 0
<1>3. /\ a.rcpus = SubSeq(s.rcpus, n + 1, Len(s.rcpus))
      /\ a.used_rcpus = SubSeq(s.rcpus, 1, n)
  BY DEF Allocation
<1>4. s.rcpus \in Seq(Nat) /\ n \in Nat /\ n <= Len(s.rcpus)
  <2>1. s.rcpus \in Seq(Nat)
    BY DEF Pools
  <2>2. Len(s.rcpus) \in Nat
    BY <2>1, LenProperties
  <2> QED BY <2>1, <2>2, BundlesAssumption DEF EnoughRcpus
<1> HIDE DEF n
<1>5. /\ a.used_rcpus \in Seq(Nat) /\ a.rcpus \in Seq(Nat)
      /\ Elements(a.used_rcpus) \subseteq Elements(s.rcpus)
      /\ Elements(a.rcpus) \subseteq Elements(s.rcpus)
      /\ Elements(a.used_rcpus) \cap Elements(a.rcpus) = {}
      /\ \A k, m \in DOMAIN a.used_rcpus : k # m => a.used_rcpus[k] # a.used_rcpus[m]
      /\ \A k, m \in DOMAIN a.rcpus : k # m => a.rcpus[k] # a.rcpus[m]
  <2>1. \A k, m \in DOMAIN s.rcpus : k # m => s.rcpus[k] # s.rcpus[m]
    BY DEF Once
  <2> DEFINE u == SubSeq(s.rcpus, 1, n)
             r == SubSeq(s.rcpus, n + 1, Len(s.rcpus))
  <2>2. /\ u \in Seq(Nat) /\ r \in Seq(Nat)
        /\ Elements(u) \subseteq Elements(s.rcpus) /\ Elements(r) \subseteq Elements(s.rcpus)
        /\ Elements(u) \cap Elements(r) = {}
        /\ \A k, m \in DOMAIN u : k # m => u[k] # u[m]
        /\ \A k, m \in DOMAIN r : k # m => r[k] # r[m]
    BY <1>4, <2>1, CutSound
  <2>3. a.used_rcpus = u /\ a.rcpus = r
    BY <1>3
  <2> HIDE DEF a, u, r
  <2> QED BY <2>2, <2>3
<1>6. \A x \in takes : /\ x.mem \in {a.used_mem, SectionOf(b, s).mem}
                       /\ x.bdf = a.used_bdf /\ x.rcpus = a.used_rcpus
                       /\ x = [mem |-> x.mem, bdf |-> x.bdf, rcpus |-> x.rcpus]
  BY DEF SectionOf, CellConfig
<1> HIDE DEF a, takes
<1>7. left \in Pools /\ left.segs # <<>> /\ Once(left)
  <2>1. DOMAIN s.segs # {}
    <3>1. s.segs \in Seq(Segments)
      BY DEF Pools
    <3>2. DOMAIN s.segs = 1 .. Len(s.segs) /\ Len(s.segs) \in Nat \ {0}
      BY <3>1, LenProperties, EmptySeq
    <3>3. 1 \in DOMAIN s.segs
      BY <3>2
    <3> QED BY <3>3
  <2>2. a.segs # <<>>
    <3>1. Len(<<>>) = 0
      BY EmptySeq
    <3>2. DOMAIN a.segs = 1 .. Len(a.segs)
      BY <1>1, LenProperties
    <3> QED BY <1>1, <2>1, <3>1, <3>2
  <2>3. left \in Pools
    BY <1>1, <1>2, <1>5 DEF Pools
  <2>4. Once(left)
    BY <1>1, <1>5 DEF Once
  <2> QED BY <2>2, <2>3, <2>4
<1>8. ASSUME NEW x \in takes
      PROVE  /\ x \in Holdings
             /\ \A k, m \in DOMAIN x.rcpus : k # m => x.rcpus[k] # x.rcpus[m]
             /\ NotFree(x, left)
  <2>1. x.mem \in Segments /\ \A k \in DOMAIN a.segs : Disjoint(x.mem, a.segs[k])
    BY <1>1, <1>6
  <2>2. x.bdf \in SUBSET Nat /\ x.bdf \cap (s.bdf \ a.used_bdf) = {}
    BY <1>2, <1>6
  <2>3. x.rcpus \in Seq(Nat) /\ Elements(x.rcpus) \cap Elements(a.rcpus) = {}
    BY <1>5, <1>6
  <2>4. x \in Holdings
    BY <1>6, <2>1, <2>2, <2>3 DEF Holdings
  <2>5. NotFree(x, left)
    BY <2>1, <2>2, <2>3 DEF NotFree
  <2> QED BY <1>5, <1>6, <2>4, <2>5
<1>9. ASSUME NEW y \in Holdings, NotFree(y, s)
      PROVE  NotFree(y, left) /\ \A x \in takes : Apart(y, x)
  <2>1. y.mem \in Segments /\ \A k \in DOMAIN s.segs : Disjoint(y.mem, s.segs[k])
    BY <1>9 DEF NotFree, Holdings
  <2>2. ASSUME NEW u \in Segments, NEW k \in DOMAIN s.segs, Within(u, s.segs[k])
        PROVE  Disjoint(y.mem, u)
    <3>1. s.segs[k] \in Segments
      <4>1. s.segs \in Seq(Segments)
        BY DEF Pools
      <4> QED BY <4>1, LenProperties, ElementOfSeq
    <3>2. Disjoint(s.segs[k], y.mem)
      BY <2>1, <3>1, DisjointSym
    <3>3. Disjoint(u, y.mem)
      BY <2>1, <2>2, <3>1, <3>2, WithinDisjoint
    <3> QED BY <2>1, <3>3, DisjointSym
  <2>3. \A k \in DOMAIN a.segs : a.segs[k] \in Segments
    BY <1>1, LenProperties, ElementOfSeq
  <2>4. \A k \in DOMAIN a.segs : Disjoint(y.mem, a.segs[k])
    BY <1>1, <2>2, <2>3
  <2>5. NotFree(y, left)
    BY <1>2, <1>5, <1>9, <2>4 DEF NotFree
  <2>6. ASSUME NEW x \in takes PROVE Apart(y, x)
    <3>1. Disjoint(y.mem, x.mem)
      BY <1>1, <1>6, <1>8, <2>2
    <3> QED BY <1>2, <1>5, <1>6, <1>9, <3>1 DEF Apart, NotFree
  <2> QED BY <2>5, <2>6
<1> QED BY <1>7, <1>8, <1>9 DEF a, takes

-----------------------------------------------------------------------------
(* The two writers of the file.                                            *)

\* save_state keeps the contents sound, and nothing that was held is free
\* afterwards, nor what the new cell and its section hold.
LEMMA SaveSound ==
  ASSUME NEW d, DOMAIN d = DOMAIN EmptyFile, Sound(d), d.intact,
         NEW b \in Bundles, NEW i, NEW s, s = PoolOf(d)
  PROVE  LET e == SaveState(d, i, b, s)
         IN /\ Sound(e)
            /\ DOMAIN e.sections = DOMAIN d.sections \cup {i}
            /\ \A j \in DOMAIN d.sections : j # i => e.sections[j] = d.sections[j]
            /\ HeldBy(i, CellConfig(b, s), e)
            /\ CellConfig(b, s) \in Holdings
            /\ \A y \in Holdings : NotFree(y, d) =>
                 /\ NotFree(y, e) /\ Apart(y, e.sections[i])
                 /\ Apart(y, CellConfig(b, s))
<1> DEFINE a == Allocation(b, s)
           e == SaveState(d, i, b, s)
           left == [segs |-> a.segs, bdf |-> s.bdf \ a.used_bdf, rcpus |-> a.rcpus]
           sec == SectionOf(b, s)
           cfg == CellConfig(b, s)
<1>1. /\ s \in Pools /\ s.segs = d.segs /\ s.bdf = d.bdf /\ s.rcpus = d.rcpus
      /\ s.segs # <<>> /\ Once(s)
  BY DEF Sound, PoolOf, Exclusive, Once
<1>2. /\ left \in Pools /\ left.segs # <<>> /\ Once(left)
      /\ \A x \in {sec, cfg} :
           /\ x \in Holdings
           /\ \A k, m \in DOMAIN x.rcpus : k # m => x.rcpus[k] # x.rcpus[m]
           /\ NotFree(x, left)
           /\ \A y \in Holdings : NotFree(y, s) => Apart(y, x)
      /\ \A y \in Holdings : NotFree(y, s) => NotFree(y, left)
  BY <1>1, AllocationSound
<1>3. \A y : NotFree(y, d) <=> NotFree(y, s)
  BY <1>1 DEF NotFree
<1>4. /\ e.segs = left.segs /\ e.bdf = left.bdf /\ e.rcpus = left.rcpus /\ e.intact
      /\ e.sections = [j \in DOMAIN d.sections \cup {i} |->
                         IF j = i THEN sec ELSE d.sections[j]]
  BY <1>1 DEF SaveState, EmptyFile
<1> HIDE DEF a, e, left, sec, cfg
<1>5. \A y : NotFree(y, e) <=> NotFree(y, left)
  BY <1>4 DEF NotFree
<1>6. /\ DOMAIN e.sections = DOMAIN d.sections \cup {i} /\ e.sections[i] = sec
      /\ \A j \in DOMAIN d.sections : j # i => e.sections[j] = d.sections[j]
  BY <1>4
<1>7. \A j \in DOMAIN d.sections : d.sections[j] \in Holdings /\ NotFree(d.sections[j], d)
  BY DEF Sound, Exclusive
<1>8. Sound(e)
  <2>1. PoolOf(e) \in Pools /\ e.segs # <<>>
    <3>1. left = [segs |-> left.segs, bdf |-> left.bdf, rcpus |-> left.rcpus]
      BY DEF left
    <3> QED BY <1>2, <1>4, <3>1 DEF PoolOf
  <2>2. ASSUME NEW j \in DOMAIN e.sections
        PROVE  /\ e.sections[j] \in Holdings /\ NotFree(e.sections[j], e)
               /\ \A k, m \in DOMAIN e.sections[j].rcpus :
                    k # m => e.sections[j].rcpus[k] # e.sections[j].rcpus[m]
    <3>1. CASE j = i
      BY <1>2, <1>5, <1>6, <3>1
    <3>2. CASE j # i
      <4>1. j \in DOMAIN d.sections /\ e.sections[j] = d.sections[j]
        BY <1>6, <3>2
      <4>2. \A k, m \in DOMAIN d.sections[j].rcpus :
              k # m => d.sections[j].rcpus[k] # d.sections[j].rcpus[m]
        BY <4>1 DEF Sound
      <4>3. NotFree(d.sections[j], e)
        BY <1>2, <1>3, <1>5, <1>7, <4>1
      <4> QED BY <1>7, <4>1, <4>2, <4>3
    <3> QED BY <3>1, <3>2
  <2>3. ASSUME NEW j \in DOMAIN e.sections, NEW l \in DOMAIN e.sections, j # l
        PROVE  Apart(e.sections[j], e.sections[l])
    <3>1. \A m \in DOMAIN d.sections : Apart(d.sections[m], sec) /\ Apart(sec, d.sections[m])
      <4>1. ASSUME NEW m \in DOMAIN d.sections
            PROVE  Apart(d.sections[m], sec) /\ Apart(sec, d.sections[m])
        <5>1. Apart(d.sections[m], sec)
          BY <1>2, <1>3, <1>7
        <5>2. d.sections[m].mem \in Segments /\ sec.mem \in Segments
          BY <1>2, <1>7 DEF Holdings
        <5>3. Disjoint(sec.mem, d.sections[m].mem)
          BY <5>1, <5>2, DisjointSym DEF Apart
        <5> QED BY <5>1, <5>3 DEF Apart
      <4> QED BY <4>1
    <3>2. j # i /\ l # i => Apart(e.sections[j], e.sections[l])
      BY <1>6, <2>3 DEF Sound, Exclusive
    <3> QED BY <1>6, <2>3, <3>1, <3>2
  <2>4. Exclusive(e)
    <3>1. /\ \A k, m \in DOMAIN e.segs : k # m => Disjoint(e.segs[k], e.segs[m])
          /\ \A k, m \in DOMAIN e.rcpus : k # m => e.rcpus[k] # e.rcpus[m]
      BY <1>2, <1>4 DEF Once
    <3> QED BY <2>2, <2>3, <3>1 DEF Exclusive
  <2> QED BY <2>1, <2>2, <2>4 DEF Sound
<1>9. HeldBy(i, cfg, e)
  <2>1. NotFree(cfg, e) /\ cfg \in Holdings
    BY <1>2, <1>5
  <2>2. ASSUME NEW j \in DOMAIN e.sections, j # i PROVE Apart(cfg, e.sections[j])
    <3>1. j \in DOMAIN d.sections /\ e.sections[j] = d.sections[j]
      BY <1>6, <2>2
    <3>2. Apart(d.sections[j], cfg)
      BY <1>2, <1>3, <1>7, <3>1
    <3>3. d.sections[j].mem \in Segments /\ cfg.mem \in Segments
      BY <1>7, <2>1, <3>1 DEF Holdings
    <3>4. Disjoint(cfg.mem, d.sections[j].mem)
      BY <3>2, <3>3, DisjointSym DEF Apart
    <3> QED BY <3>1, <3>2, <3>4 DEF Apart
  <2> QED BY <2>1, <2>2 DEF HeldBy
<1>10. \A y \in Holdings : NotFree(y, d) =>
         NotFree(y, e) /\ Apart(y, e.sections[i]) /\ Apart(y, cfg)
  BY <1>2, <1>3, <1>5, <1>6
<1> QED BY <1>2, <1>6, <1>8, <1>9, <1>10 DEF e, cfg

\* A list of distinct numbers continued with one that has others.
LEMMA JoinSound ==
  ASSUME NEW s \in Seq(Nat), NEW t \in Seq(Nat),
         \A k, m \in DOMAIN s : k # m => s[k] # s[m],
         \A k, m \in DOMAIN t : k # m => t[k] # t[m],
         Elements(s) \cap Elements(t) = {}
  PROVE  /\ s \o t \in Seq(Nat)
         /\ Elements(s \o t) \subseteq Elements(s) \cup Elements(t)
         /\ \A k, m \in DOMAIN (s \o t) : k # m => (s \o t)[k] # (s \o t)[m]
<1> DEFINE j == s \o t
           l == Len(s)
           n == Len(t)
<1>1. l \in Nat /\ n \in Nat /\ DOMAIN s = 1 .. l /\ DOMAIN t = 1 .. n
  BY LenProperties
<1>2. /\ j \in Seq(Nat) /\ Len(j) = l + n
      /\ \A k \in 1 .. l + n : j[k] = IF k <= l THEN s[k] ELSE t[k - l]
  BY ConcatProperties
<1>3. DOMAIN j = 1 .. l + n
  BY <1>2, LenProperties
<1> HIDE DEF j, l, n
<1>4. ASSUME NEW k \in DOMAIN j
      PROVE  \/ k <= l /\ k \in DOMAIN s /\ j[k] = s[k]
             \/ ~(k <= l) /\ k - l \in DOMAIN t /\ j[k] = t[k - l]
  BY <1>1, <1>2, <1>3
<1>5. Elements(j) \subseteq Elements(s) \cup Elements(t)
  BY <1>4 DEF Elements
<1>6. \A k \in DOMAIN s, m \in DOMAIN t : s[k] # t[m]
  BY DEF Elements
<1>7. ASSUME NEW k \in DOMAIN j, NEW m \in DOMAIN j, k # m PROVE j[k] # j[m]
  <2>1. k - l # m - l
    BY <1>1, <1>3, <1>7
  <2> QED BY <1>4, <1>6, <1>7, <2>1
<1> QED BY <1>2, <1>5, <1>7 DEF j

\* Sorting and merging the list with one more segment.
LEMMA GiveBackMemory ==
  ASSUME NEW segs \in Seq(Segments), NEW x \in Segments,
         \A k, m \in DOMAIN segs : k # m => Disjoint(segs[k], segs[m]),
         \A k \in DOMAIN segs : Disjoint(x, segs[k])
  PROVE  LET out == MergeContiguous(SortByStart(Append(segs, x)))
         IN /\ out \in Seq(Segments) /\ out # <<>>
            /\ \A k, m \in DOMAIN out : k # m => Disjoint(out[k], out[m])
            /\ \A u \in Segments :
                 (\A k \in DOMAIN segs : Disjoint(u, segs[k])) /\ Disjoint(u, x)
                   => \A k \in DOMAIN out : Disjoint(u, out[k])
<1> DEFINE all == Append(segs, x)
           l == Len(segs)
           sorted == SortByStart(all)
           out == MergeContiguous(sorted)
<1>1. l \in Nat /\ DOMAIN segs = 1 .. l
  BY LenProperties
<1>2. /\ all \in Seq(Segments) /\ Len(all) = l + 1
      /\ \A k \in 1 .. l : all[k] = segs[k]
      /\ all[l + 1] = x
  BY AppendProperties
<1>3. DOMAIN all = 1 .. l + 1
  BY <1>2, LenProperties
<1> HIDE DEF all, l
<1>4. ASSUME NEW k \in DOMAIN all
      PROVE  \/ k \in DOMAIN segs /\ all[k] = segs[k]
             \/ k = l + 1 /\ all[k] = x
  BY <1>1, <1>2, <1>3
<1>5. ASSUME NEW k \in DOMAIN segs PROVE Disjoint(segs[k], x) /\ Disjoint(x, segs[k])
  <2>1. segs[k] \in Segments
    BY LenProperties, ElementOfSeq
  <2> QED BY <2>1, DisjointSym
<1>6. \A k, m \in DOMAIN all : k # m => Disjoint(all[k], all[m])
  BY <1>4, <1>5
<1>7. /\ sorted \in Seq(Segments) /\ DOMAIN sorted = DOMAIN all
      /\ \E p \in [DOMAIN all -> DOMAIN all] :
           /\ \A k, m \in DOMAIN all : k # m => p[k] # p[m]
           /\ \A k \in DOMAIN all : sorted[k] = all[p[k]]
  BY <1>2, SortSound
<1> HIDE DEF sorted
<1>8. sorted # <<>>
  <2>1. 1 \in DOMAIN sorted
    BY <1>1, <1>3, <1>7
  <2>2. DOMAIN sorted = 1 .. Len(sorted)
    BY <1>7, LenProperties
  <2>3. Len(<<>>) = 0
    BY EmptySeq
  <2> QED BY <2>1, <2>2, <2>3
<1>9. \A k, m \in DOMAIN sorted : k # m => Disjoint(sorted[k], sorted[m])
  BY <1>6, <1>7
<1>10. /\ out \in Seq(Segments) /\ out # <<>>
       /\ (\A k, m \in DOMAIN sorted : k # m => Disjoint(sorted[k], sorted[m]))
            => \A k, m \in DOMAIN out : k # m => Disjoint(out[k], out[m])
       /\ \A u \in Segments : (\A k \in DOMAIN sorted : Disjoint(u, sorted[k]))
                              => \A k \in DOMAIN out : Disjoint(u, out[k])
  BY <1>7, <1>8, MergeSound
<1> HIDE DEF out
<1>11. ASSUME NEW u \in Segments, \A k \in DOMAIN segs : Disjoint(u, segs[k]), Disjoint(u, x)
       PROVE  \A k \in DOMAIN out : Disjoint(u, out[k])
  <2>1. \A k \in DOMAIN all : Disjoint(u, all[k])
    BY <1>4, <1>11
  <2>2. \A k \in DOMAIN sorted : Disjoint(u, sorted[k])
    BY <1>7, <2>1
  <2> QED BY <1>10, <2>2
<1> QED BY <1>9, <1>10, <1>11 DEF out, sorted, all

\* destroy_update_state keeps the contents sound, and makes nothing free but
\* what the section held.
LEMMA DestroySound ==
  ASSUME NEW d, DOMAIN d = DOMAIN EmptyFile, Sound(d), NEW i \in DOMAIN d.sections
  PROVE  LET e == DestroyUpdateState(d, i)
         IN /\ Sound(e)
            /\ DOMAIN e.sections = DOMAIN d.sections \ {i}
            /\ \A j \in DOMAIN e.sections : e.sections[j] = d.sections[j]
            /\ \A y \in Holdings : NotFree(y, d) /\ Apart(y, d.sections[i]) => NotFree(y, e)
<1> DEFINE e == DestroyUpdateState(d, i)
           held == d.sections[i]
           merged == MergeContiguous(SortByStart(Append(d.segs, held.mem)))
<1>1. /\ d.segs \in Seq(Segments) /\ d.bdf \in SUBSET Nat /\ d.rcpus \in Seq(Nat)
      /\ held.mem \in Segments /\ held.bdf \in SUBSET Nat /\ held.rcpus \in Seq(Nat)
      /\ NotFree(held, d) /\ Once(d)
      /\ \A k, m \in DOMAIN held.rcpus : k # m => held.rcpus[k] # held.rcpus[m]
  BY DEF Sound, Pools, PoolOf, Holdings, Exclusive, Once
<1>2. /\ e.sections = Restrict(d.sections, DOMAIN d.sections \ {i})
      /\ e.intact = d.intact
  BY DEF DestroyUpdateState, EmptyFile
<1>3. /\ DOMAIN e.sections = DOMAIN d.sections \ {i}
      /\ \A j \in DOMAIN e.sections : e.sections[j] = d.sections[j]
  <2> HIDE DEF e
  <2> QED BY <1>2 DEF Restrict
<1>4. d.intact => e.segs = merged /\ e.bdf = d.bdf \cup held.bdf /\ e.rcpus = d.rcpus \o held.rcpus
  BY DEF DestroyUpdateState, EmptyFile
<1>5. ~d.intact => e.segs = d.segs /\ e.bdf = d.bdf /\ e.rcpus = d.rcpus
  BY DEF DestroyUpdateState, EmptyFile
<1> HIDE DEF e
<1>6. /\ merged \in Seq(Segments) /\ merged # <<>>
      /\ \A k, m \in DOMAIN merged : k # m => Disjoint(merged[k], merged[m])
      /\ \A u \in Segments :
           (\A k \in DOMAIN d.segs : Disjoint(u, d.segs[k])) /\ Disjoint(u, held.mem)
             => \A k \in DOMAIN merged : Disjoint(u, merged[k])
  <2>1. /\ \A k, m \in DOMAIN d.segs : k # m => Disjoint(d.segs[k], d.segs[m])
        /\ \A k \in DOMAIN d.segs : Disjoint(held.mem, d.segs[k])
    BY <1>1 DEF Once, NotFree
  <2> HIDE DEF held
  <2> QED BY <1>1, <2>1, GiveBackMemory
<1> HIDE DEF merged
<1>7. /\ d.rcpus \o held.rcpus \in Seq(Nat)
      /\ Elements(d.rcpus \o held.rcpus) \subseteq Elements(d.rcpus) \cup Elements(held.rcpus)
      /\ \A k, m \in DOMAIN (d.rcpus \o held.rcpus) :
           k # m => (d.rcpus \o held.rcpus)[k] # (d.rcpus \o held.rcpus)[m]
  <2>1. Elements(d.rcpus) \cap Elements(held.rcpus) = {}
    BY <1>1 DEF NotFree
  <2>2. \A k, m \in DOMAIN d.rcpus : k # m => d.rcpus[k] # d.rcpus[m]
    BY <1>1 DEF Once
  <2> HIDE DEF held
  <2> QED BY <1>1, <2>1, <2>2, JoinSound
<1> HIDE DEF held
<1>8. ASSUME NEW y \in Holdings, NotFree(y, d), Apart(y, held)
      PROVE  NotFree(y, e)
  <2>1. CASE ~d.intact
    BY <1>5, <1>8, <2>1 DEF NotFree
  <2>2. CASE d.intact
    <3>1. y.mem \in Segments
      BY DEF Holdings
    <3>2. \A k \in DOMAIN e.segs : Disjoint(y.mem, e.segs[k])
      BY <1>4, <1>6, <1>8, <2>2, <3>1 DEF NotFree, Apart
    <3>3. y.bdf \cap e.bdf = {}
      BY <1>4, <1>8, <2>2 DEF NotFree, Apart
    <3>4. Elements(y.rcpus) \cap Elements(e.rcpus) = {}
      <4>1. Elements(e.rcpus) \subseteq Elements(d.rcpus) \cup Elements(held.rcpus)
        BY <1>4, <1>7, <2>2
      <4>2. /\ Elements(y.rcpus) \cap Elements(d.rcpus) = {}
            /\ Elements(y.rcpus) \cap Elements(held.rcpus) = {}
        BY <1>8 DEF NotFree, Apart
      <4> QED BY <4>1, <4>2
    <3> QED BY <3>2, <3>3, <3>4 DEF NotFree
  <2> QED BY <2>1, <2>2
<1>9. Sound(e)
  <2>1. PoolOf(e) \in Pools /\ (e.intact => e.segs # <<>>)
    <3>1. CASE ~d.intact
      BY <1>1, <1>2, <1>5, <3>1 DEF Pools, PoolOf
    <3>2. CASE d.intact
      <4>1. e.segs \in Seq(Segments) /\ e.segs # <<>>
        BY <1>4, <1>6, <3>2
      <4>2. e.bdf \in SUBSET Nat /\ e.rcpus \in Seq(Nat)
        BY <1>1, <1>4, <1>7, <3>2
      <4> QED BY <4>1, <4>2 DEF Pools, PoolOf
    <3> QED BY <3>1, <3>2
  <2>2. Once(e)
    <3>1. CASE ~d.intact
      BY <1>1, <1>5, <3>1 DEF Once
    <3>2. CASE d.intact
      <4>1. \A k, m \in DOMAIN e.segs : k # m => Disjoint(e.segs[k], e.segs[m])
        BY <1>4, <1>6, <3>2
      <4>2. \A k, m \in DOMAIN e.rcpus : k # m => e.rcpus[k] # e.rcpus[m]
        BY <1>4, <1>7, <3>2
      <4> QED BY <4>1, <4>2 DEF Once
    <3> QED BY <3>1, <3>2
  <2>3. ASSUME NEW j \in DOMAIN e.sections
        PROVE  /\ e.sections[j] \in Holdings /\ NotFree(e.sections[j], e)
               /\ \A k, m \in DOMAIN e.sections[j].rcpus :
                    k # m => e.sections[j].rcpus[k] # e.sections[j].rcpus[m]
    <3>1. j \in DOMAIN d.sections /\ j # i /\ e.sections[j] = d.sections[j]
      BY <1>3
    <3>2. /\ d.sections[j] \in Holdings
          /\ \A k, m \in DOMAIN d.sections[j].rcpus :
               k # m => d.sections[j].rcpus[k] # d.sections[j].rcpus[m]
      BY <3>1 DEF Sound
    <3>3. NotFree(d.sections[j], d) /\ Apart(d.sections[j], held)
      BY <3>1 DEF Sound, Exclusive, held
    <3>4. NotFree(d.sections[j], e)
      BY <1>8, <3>2, <3>3
    <3> QED BY <3>1, <3>2, <3>4
  <2>4. \A j, l \in DOMAIN e.sections : j # l => Apart(e.sections[j], e.sections[l])
    BY <1>3 DEF Sound, Exclusive
  <2>5. Exclusive(e)
    BY <2>2, <2>3, <2>4 DEF Exclusive, Once
  <2> QED BY <2>1, <2>3, <2>5 DEF Sound
<1> QED BY <1>3, <1>8, <1>9 DEF e, held
=============================================================================
