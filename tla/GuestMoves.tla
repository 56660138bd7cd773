----------------------------- MODULE GuestMoves -----------------------------
(***************************************************************************)
(* What a backend has to show to implement ManagedGuest: that each of its  *)
(* steps moves at most one container, in one of the ways listed here.      *)
(***************************************************************************)
EXTENDS ManagedGuest, TLAPS

Stays(c) ==
  (c \in known' <=> c \in known) /\ (c \in dir' <=> c \in dir) /\ (c \in guest' <=> c \in guest)

Accepted(c) ==
  /\ c \notin known /\ c \in known'
  /\ (c \in dir' <=> c \in dir) /\ (c \in guest' <=> c \in guest)

Claimed(c) ==
  /\ c \in known /\ c \in known' /\ c \notin dir /\ c \in dir'
  /\ c \in guest' <=> c \in guest

Booted(c) ==
  /\ c \in dir /\ c \in dir' /\ c \notin guest /\ c \in guest'
  /\ c \in known' <=> c \in known

Halted(c) ==
  /\ c \in guest /\ c \notin guest'
  /\ (c \in known' <=> c \in known) /\ (c \in dir' <=> c \in dir)

Released(c) ==
  /\ c \in dir /\ c \notin dir' /\ c \notin guest /\ c \notin guest'
  /\ c \in known' <=> c \in known

Forgotten(c) ==
  /\ c \in known /\ c \notin known'
  /\ c \notin dir /\ c \notin dir' /\ c \notin guest /\ c \notin guest'

Moves(c) ==
  \/ Stays(c) \/ Accepted(c) \/ Claimed(c) \/ Booted(c) \/ Halted(c)
  \/ Released(c) \/ Forgotten(c)

Within(S) == known \subseteq S /\ dir \subseteq S /\ guest \subseteq S

LEMMA OneMoves ==
  ASSUME NEW c \in Containers, Moves(c), Within(Containers), Within(Containers)',
         \A d \in Containers \ {c} : Stays(d)
  PROVE  [Next]_vars
<1> USE DEF Stays, Within
<1>1. CASE Stays(c)
  BY <1>1 DEF vars
<1>2. CASE Accepted(c)
  BY <1>2 DEF Accepted, Next, Accept
<1>3. CASE Claimed(c)
  BY <1>3 DEF Claimed, Next, Claim
<1>4. CASE Booted(c)
  BY <1>4 DEF Booted, Next, Boot
<1>5. CASE Halted(c)
  BY <1>5 DEF Halted, Next, Halt
<1>6. CASE Released(c)
  BY <1>6 DEF Released, Next, Release
<1>7. CASE Forgotten(c)
  BY <1>7 DEF Forgotten, Next, Forget
<1> QED BY <1>1, <1>2, <1>3, <1>4, <1>5, <1>6, <1>7 DEF Moves
=============================================================================
