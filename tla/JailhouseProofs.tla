-------------------------- MODULE JailhouseProofs --------------------------
(***************************************************************************)
(* Proofs about Jailhouse, for any containers, bundles, faults, pool and   *)
(* number of concurrent commands: the type invariant and the life-cycle    *)
(* properties hold in every reachable state, provided that no two          *)
(* containers share the first 24 characters of their ids.                  *)
(*                                                                         *)
(* The argument: IInv is inductive.  A step of the process of c disturbs   *)
(* only what IInv says of c itself, which is one lemma per action (Kept);  *)
(* what it says of another container d follows from Same(d) by lemma       *)
(* Frame.  The properties are then consequences of IInv in one state, and  *)
(* the last part shows that every step is a move of ManagedGuest.          *)
(***************************************************************************)
EXTENDS JailhouseInv, TLAPS

IInv == TypeOK /\ ControlInv

CInv(c) == VerbInv(c) /\ GuestInv(c) /\ PcInv(c)

\* Nothing that the invariant says of d changes.
Same(d) ==
  /\ bundle'[d] = bundle[d] /\ status'[d] = status[d]
  /\ verb'[d] = verb[d] /\ pc'[d] = pc[d]
  /\ caronte'[d] = caronte[d] /\ boot'[d] = boot[d]
  /\ cell'[IdOf[d]] = cell[IdOf[d]]
  /\ IdOf[d] \in crundir' <=> IdOf[d] \in crundir
  /\ d \in runc' <=> d \in runc
  /\ files'[IdOf[d]] = files[IdOf[d]]
  /\ pidref'[IdOf[d]] = pidref[IdOf[d]]

\* What a step of c owes the invariant.
Kept(c) ==
  /\ TypeOK' /\ NamesInv' /\ CInv(c)'
  /\ \A d \in Containers \ {c} : Same(d)

\* The sets of labels and of values are enumerations: always expanded.
USE DEF Before, Configuring, Loading, Storing, Creating, Stopping, Removing,
        Labels, FrontLabels, JailhouseLabels, Verbs, Statuses, CellStates,
        CaronteStates, BootStates, FileNames

-----------------------------------------------------------------------------
(* What does not touch d preserves what the invariant says of d.           *)

LEMMA Frame ==
  ASSUME NEW d \in Containers, CInv(d), Same(d)
  PROVE  CInv(d)'
<1> USE DEF Same, CInv
<1>1. VerbInv(d)'
  BY DEF VerbInv
<1>2. GuestInv(d)'
  BY DEF GuestInv, NoGuest, Booting
<1>3. PcInv(d)'
  BY DEF PcInv, Booting, NoGuest, Gone
<1> QED BY <1>1, <1>2, <1>3

LEMMA KeptStep ==
  ASSUME NEW c \in Containers, IInv, Kept(c)
  PROVE  IInv'
<1>1. \A d \in Containers : CInv(d)'
  <2> SUFFICES ASSUME NEW d \in Containers, d # c PROVE CInv(d)'
    BY DEF Kept
  <2>1. CInv(d) /\ Same(d)
    BY DEF IInv, ControlInv, CInv, Kept
  <2> QED BY <2>1, Frame
<1> QED BY <1>1 DEF IInv, ControlInv, CInv, Kept

-----------------------------------------------------------------------------
(* The actions, in the order of the modules.                               *)

LEMMA InvokeKept ==
  ASSUME NEW c \in Containers, IdOfInjective, IInv, Invoke(c) /\ UNCHANGED backVars
  PROVE  Kept(c)
<1> USE IdOfAssumption
    DEF IInv, TypeOK, ControlInv, Goto, Invoke, Allowed, backVars
<1>1. TypeOK'
  OBVIOUS
<1>2. NamesInv'
  BY DEF NamesInv
<1>3. VerbInv(c)'
  BY DEF VerbInv
<1>4. GuestInv(c)'
  BY DEF GuestInv, PcInv, NoGuest, Gone, Booting
<1>5. PcInv(c)'
  BY DEF PcInv, NoGuest, Gone, Booting
<1>6. ASSUME NEW d \in Containers, d # c
      PROVE  Same(d)
  BY <1>6 DEF IdOfInjective, Same
<1> QED BY <1>1, <1>2, <1>3, <1>4, <1>5, <1>6 DEF Kept, CInv

LEMMA ExitKept ==
  ASSUME NEW c \in Containers, IdOfInjective, IInv, Exit(c) /\ UNCHANGED backVars
  PROVE  Kept(c)
<1> USE IdOfAssumption
    DEF IInv, TypeOK, ControlInv, Goto, Exit, backVars
<1>1. TypeOK'
  BY DEF VerbInv
<1>2. NamesInv'
  BY DEF NamesInv
<1>3. VerbInv(c)'
  BY DEF VerbInv
<1>4. GuestInv(c)'
  BY DEF GuestInv, NoGuest, Booting
<1>5. PcInv(c)'
  <2>1. status'[c] = "none" => pc[c] = "ok" /\ verb[c] = "delete"
    BY DEF VerbInv
  <2>2. pc'[c] = "idle" /\ (Gone(c) => Gone(c)')
    BY DEF Gone, NoGuest, Booting
  <2> QED BY <2>1, <2>2 DEF Before, Configuring, Creating, Loading, Removing,
       PcInv
<1>6. ASSUME NEW d \in Containers, d # c
      PROVE  Same(d)
  BY <1>6 DEF IdOfInjective, Same
<1> QED BY <1>1, <1>2, <1>3, <1>4, <1>5, <1>6 DEF Kept, CInv

LEMMA DecideCreateKept ==
  ASSUME NEW c \in Containers, IdOfInjective, IInv, DecideCreate(c) /\ UNCHANGED backVars
  PROVE  Kept(c)
<1> USE IdOfAssumption
    DEF IInv, TypeOK, ControlInv, Goto, DecideCreate, backVars
<1>1. TypeOK'
  OBVIOUS
<1>2. NamesInv'
  BY DEF NamesInv
<1>3. VerbInv(c)'
  BY DEF VerbInv
<1>4. GuestInv(c)'
  BY DEF GuestInv, PcInv, NoGuest, Gone, Booting
<1>5. PcInv(c)'
  BY DEF VerbInv, PcInv, NoGuest, Gone, Booting
<1>6. ASSUME NEW d \in Containers, d # c
      PROVE  Same(d)
  BY <1>6 DEF IdOfInjective, Same
<1> QED BY <1>1, <1>2, <1>3, <1>4, <1>5, <1>6 DEF Kept, CInv

LEMMA DecideExistingKept ==
  ASSUME NEW c \in Containers, IdOfInjective, IInv, DecideExisting(c) /\ UNCHANGED backVars
  PROVE  Kept(c)
<1> USE IdOfAssumption
    DEF IInv, TypeOK, ControlInv, Goto, DecideExisting, RuncExisting,
       FirstCall, backVars
<1>1. TypeOK'
  BY DEF VerbInv
<1>2. NamesInv'
  BY DEF NamesInv
<1>3. VerbInv(c)'
  BY DEF VerbInv
<1>4. GuestInv(c)'
  BY DEF GuestInv, NoGuest, Booting
<1>5. PcInv(c)'
  BY DEF VerbInv, GuestInv, PcInv, NoGuest, Gone, Booting
<1>6. ASSUME NEW d \in Containers, d # c
      PROVE  Same(d)
  BY <1>6 DEF IdOfInjective, Same
<1> QED BY <1>1, <1>2, <1>3, <1>4, <1>5, <1>6 DEF Kept, CInv

LEMMA RemoveStaleDirKept ==
  ASSUME NEW c \in Containers, IdOfInjective, IInv, RemoveStaleDir(c) /\ UNCHANGED backVars
  PROVE  Kept(c)
<1> USE IdOfAssumption
    DEF IInv, TypeOK, ControlInv, Goto, RemoveStaleDir, backVars
<1>1. TypeOK'
  OBVIOUS
<1>2. NamesInv'
  BY DEF NamesInv
<1>3. VerbInv(c)'
  BY DEF VerbInv
<1>4. GuestInv(c)'
  BY DEF GuestInv, PcInv, NoGuest, Gone, Booting
<1>5. PcInv(c)'
  BY DEF PcInv, NoGuest, Gone, Booting
<1>6. ASSUME NEW d \in Containers, d # c
      PROVE  Same(d)
  BY <1>6 DEF IdOfInjective, Same
<1> QED BY <1>1, <1>2, <1>3, <1>4, <1>5, <1>6 DEF Kept, CInv

LEMMA MakeDirKept ==
  ASSUME NEW c \in Containers, IdOfInjective, IInv, MakeDir(c) /\ UNCHANGED backVars
  PROVE  Kept(c)
<1> USE IdOfAssumption
    DEF IInv, TypeOK, ControlInv, Goto, MakeDir, backVars
<1>1. TypeOK'
  <2>1. crundir' \in SUBSET Ids
    OBVIOUS
  <2>2. pc' \in [Containers -> Labels]
    <3>1. CASE bundle[c].wellformed
      BY <3>1
    <3>2. CASE ~bundle[c].wellformed
      BY <3>2
    <3> QED BY <3>1, <3>2
  <2> QED BY <2>1, <2>2
<1>2. NamesInv'
  BY DEF NamesInv
<1>3. VerbInv(c)'
  BY DEF VerbInv
<1>4. GuestInv(c)'
  BY DEF GuestInv, NoGuest, Booting
<1>5. PcInv(c)'
  BY DEF PcInv, NoGuest, Gone, Booting
<1>6. ASSUME NEW d \in Containers, d # c
      PROVE  Same(d)
  BY <1>6 DEF IdOfInjective, Same
<1> QED BY <1>1, <1>2, <1>3, <1>4, <1>5, <1>6 DEF Kept, CInv

LEMMA StateKept ==
  ASSUME NEW c \in Containers, IdOfInjective, IInv, State(c) /\ UNCHANGED backVars
  PROVE  Kept(c)
<1> USE IdOfAssumption
    DEF IInv, TypeOK, ControlInv, Goto, State, backVars
<1>1. TypeOK'
  OBVIOUS
<1>2. NamesInv'
  BY DEF NamesInv
<1>3. VerbInv(c)'
  BY DEF VerbInv
<1>4. GuestInv(c)'
  BY DEF GuestInv, NoGuest, Booting
<1>5. PcInv(c)'
  BY DEF PcInv
<1>6. ASSUME NEW d \in Containers, d # c
      PROVE  Same(d)
  BY <1>6 DEF IdOfInjective, Same
<1> QED BY <1>1, <1>2, <1>3, <1>4, <1>5, <1>6 DEF Kept, CInv

LEMMA RetrieveStateKept ==
  ASSUME NEW c \in Containers, IdOfInjective, IInv, RetrieveState(c)
  PROVE  Kept(c)
<1> USE IdOfAssumption
    DEF IInv, TypeOK, ControlInv, Goto, RetrieveState, ReturnOk, ReturnErr,
       AfterOk, AfterErr
<1>1. TypeOK'
  OBVIOUS
<1>2. NamesInv'
  BY DEF NamesInv
<1>3. VerbInv(c)'
  BY DEF VerbInv
<1>4. GuestInv(c)'
  BY DEF GuestInv, NoGuest, Booting
<1>5. PcInv(c)'
  BY DEF PcInv, NoGuest, Booting
<1>6. ASSUME NEW d \in Containers, d # c
      PROVE  Same(d)
  BY <1>6 DEF IdOfInjective, Same
<1> QED BY <1>1, <1>2, <1>3, <1>4, <1>5, <1>6 DEF Kept, CInv

LEMMA SaveReadKept ==
  ASSUME NEW c \in Containers, IdOfInjective, IInv, SaveRead(c)
  PROVE  Kept(c)
<1> USE IdOfAssumption
    DEF IInv, TypeOK, ControlInv, Goto, SaveRead, ReturnErr, AfterErr, Put
<1>1. TypeOK'
  OBVIOUS
<1>2. NamesInv'
  BY DEF NamesInv
<1>3. VerbInv(c)'
  BY DEF VerbInv
<1>4. GuestInv(c)'
  BY DEF GuestInv, NoGuest, Booting
<1>5. PcInv(c)'
  BY DEF PcInv, NoGuest, Booting
<1>6. ASSUME NEW d \in Containers, d # c
      PROVE  Same(d)
  BY <1>6 DEF IdOfInjective, Same
<1> QED BY <1>1, <1>2, <1>3, <1>4, <1>5, <1>6 DEF Kept, CInv

LEMMA SaveTruncateKept ==
  ASSUME NEW c \in Containers, IdOfInjective, IInv, SaveTruncate(c)
  PROVE  Kept(c)
<1> USE IdOfAssumption
    DEF IInv, TypeOK, ControlInv, Goto, SaveTruncate, Truncate
<1>1. TypeOK'
  OBVIOUS
<1>2. NamesInv'
  BY DEF NamesInv
<1>3. VerbInv(c)'
  BY DEF VerbInv
<1>4. GuestInv(c)'
  BY DEF GuestInv, NoGuest, Booting
<1>5. PcInv(c)'
  BY DEF PcInv, NoGuest, Booting
<1>6. ASSUME NEW d \in Containers, d # c
      PROVE  Same(d)
  BY <1>6 DEF IdOfInjective, Same
<1> QED BY <1>1, <1>2, <1>3, <1>4, <1>5, <1>6 DEF Kept, CInv

LEMMA SaveWriteKept ==
  ASSUME NEW c \in Containers, IdOfInjective, IInv, SaveWrite(c)
  PROVE  Kept(c)
<1> USE IdOfAssumption
    DEF IInv, TypeOK, ControlInv, Goto, SaveWrite, Write
<1>1. TypeOK'
  OBVIOUS
<1>2. NamesInv'
  BY DEF NamesInv
<1>3. VerbInv(c)'
  BY DEF VerbInv
<1>4. GuestInv(c)'
  BY DEF GuestInv, NoGuest, Booting
<1>5. PcInv(c)'
  BY DEF PcInv, NoGuest, Booting
<1>6. ASSUME NEW d \in Containers, d # c
      PROVE  Same(d)
  BY <1>6 DEF IdOfInjective, Same
<1> QED BY <1>1, <1>2, <1>3, <1>4, <1>5, <1>6 DEF Kept, CInv

LEMMA CompileKept ==
  ASSUME NEW c \in Containers, IdOfInjective, IInv, Compile(c)
  PROVE  Kept(c)
<1> USE IdOfAssumption
    DEF IInv, TypeOK, ControlInv, Goto, Compile, ReturnOk, AfterOk, Put
<1>1. TypeOK'
  OBVIOUS
<1>2. NamesInv'
  BY DEF NamesInv
<1>3. VerbInv(c)'
  BY DEF VerbInv
<1>4. GuestInv(c)'
  BY DEF GuestInv, NoGuest, Booting
<1>5. PcInv(c)'
  BY DEF PcInv, NoGuest, Booting
<1>6. ASSUME NEW d \in Containers, d # c
      PROVE  Same(d)
  <2>1. IdOf[d] # IdOf[c]
    BY <1>6 DEF IdOfInjective
  <2>2. files' = files \/ files' = [files EXCEPT ![IdOf[c]] = @ \cup {"cell"}]
    OBVIOUS
  <2>3. IdOf[d] \in Ids /\ files \in [Ids -> SUBSET FileNames]
    OBVIOUS
  <2>4. files'[IdOf[d]] = files[IdOf[d]]
    BY <2>1, <2>2, <2>3
  <2>5. pc'[d] = pc[d]
    BY <1>6
  <2> QED BY <2>4, <2>5 DEF Same
<1> QED BY <1>1, <1>2, <1>3, <1>4, <1>5, <1>6 DEF Kept, CInv

LEMMA CreateCellKept ==
  ASSUME NEW c \in Containers, IdOfInjective, IInv, CreateCell(c)
  PROVE  Kept(c)
<1> USE IdOfAssumption
    DEF IInv, TypeOK, ControlInv, Goto, CreateCell, ReturnErr, AfterErr
<1>1. TypeOK'
  OBVIOUS
<1>2. NamesInv'
  BY DEF NamesInv
<1>3. VerbInv(c)'
  BY DEF VerbInv
<1>4. GuestInv(c)'
  BY DEF GuestInv, PcInv, NoGuest, Booting
<1>5. PcInv(c)'
  BY DEF PcInv
<1>6. ASSUME NEW d \in Containers, d # c
      PROVE  Same(d)
  <2>1. IdOf[d] # IdOf[c]
    BY <1>6 DEF IdOfInjective
  <2> QED BY <1>6, <2>1 DEF Same
<1> QED BY <1>1, <1>2, <1>3, <1>4, <1>5, <1>6 DEF Kept, CInv

LEMMA LoadCellKept ==
  ASSUME NEW c \in Containers, IdOfInjective, IInv, LoadCell(c)
  PROVE  Kept(c)
<1> USE IdOfAssumption
    DEF IInv, TypeOK, ControlInv, Goto, LoadCell, ReturnErr, AfterErr
<1>1. TypeOK'
  OBVIOUS
<1>2. NamesInv'
  BY DEF NamesInv
<1>3. VerbInv(c)'
  BY DEF VerbInv
<1>4. GuestInv(c)'
  BY DEF GuestInv, NoGuest, Booting
<1>5. PcInv(c)'
  BY DEF PcInv
<1>6. ASSUME NEW d \in Containers, d # c
      PROVE  Same(d)
  BY <1>6 DEF IdOfInjective, Same
<1> QED BY <1>1, <1>2, <1>3, <1>4, <1>5, <1>6 DEF Kept, CInv

LEMMA SpawnCaronteKept ==
  ASSUME NEW c \in Containers, IdOfInjective, IInv, SpawnCaronte(c)
  PROVE  Kept(c)
<1> USE IdOfAssumption
    DEF IInv, TypeOK, ControlInv, Goto, SpawnCaronte, ReturnOk, ReturnErr,
       AfterOk, AfterErr
<1>1. TypeOK'
  OBVIOUS
<1>2. NamesInv'
  BY DEF NamesInv
<1>3. VerbInv(c)'
  BY DEF VerbInv
<1>4. GuestInv(c)'
  BY DEF GuestInv, PcInv, NoGuest, Booting
<1>5. PcInv(c)'
  BY DEF PcInv
<1>6. ASSUME NEW d \in Containers, d # c
      PROVE  Same(d)
  BY <1>6 DEF IdOfInjective, Same
<1> QED BY <1>1, <1>2, <1>3, <1>4, <1>5, <1>6 DEF Kept, CInv

LEMMA StoreBundleKept ==
  ASSUME NEW c \in Containers, IdOfInjective, IInv, StoreBundle(c)
  PROVE  Kept(c)
<1> USE IdOfAssumption
    DEF IInv, TypeOK, ControlInv, Goto, StoreBundle, ReturnErr, AfterErr,
       Store, Put
<1>1. TypeOK'
  OBVIOUS
<1>2. NamesInv'
  BY DEF NamesInv
<1>3. VerbInv(c)'
  BY DEF VerbInv
<1>4. GuestInv(c)'
  BY DEF GuestInv, NoGuest, Booting
<1>5. PcInv(c)'
  BY DEF PcInv
<1>6. ASSUME NEW d \in Containers, d # c
      PROVE  Same(d)
  BY <1>6 DEF IdOfInjective, Same
<1> QED BY <1>1, <1>2, <1>3, <1>4, <1>5, <1>6 DEF Kept, CInv

LEMMA StorePidfileKept ==
  ASSUME NEW c \in Containers, IdOfInjective, IInv, StorePidfile(c)
  PROVE  Kept(c)
<1> USE IdOfAssumption
    DEF IInv, TypeOK, ControlInv, Goto, StorePidfile, ReturnErr, AfterErr,
       Store, Put
<1>1. TypeOK'
  OBVIOUS
<1>2. NamesInv'
  BY DEF NamesInv
<1>3. VerbInv(c)'
  BY DEF VerbInv
<1>4. GuestInv(c)'
  BY DEF GuestInv, NoGuest, Booting
<1>5. PcInv(c)'
  BY DEF PcInv
<1>6. ASSUME NEW d \in Containers, d # c
      PROVE  Same(d)
  BY <1>6 DEF IdOfInjective, Same
<1> QED BY <1>1, <1>2, <1>3, <1>4, <1>5, <1>6 DEF Kept, CInv

LEMMA StoreOsKept ==
  ASSUME NEW c \in Containers, IdOfInjective, IInv, StoreOs(c)
  PROVE  Kept(c)
<1> USE IdOfAssumption
    DEF IInv, TypeOK, ControlInv, Goto, StoreOs, ReturnOk, ReturnErr, AfterOk,
       AfterErr, Store, Put
<1>1. TypeOK'
  OBVIOUS
<1>2. NamesInv'
  BY DEF NamesInv
<1>3. VerbInv(c)'
  BY DEF VerbInv
<1>4. GuestInv(c)'
  BY DEF GuestInv, NoGuest, Booting
<1>5. PcInv(c)'
  BY DEF VerbInv, PcInv
<1>6. ASSUME NEW d \in Containers, d # c
      PROVE  Same(d)
  BY <1>6 DEF IdOfInjective, Same
<1> QED BY <1>1, <1>2, <1>3, <1>4, <1>5, <1>6 DEF Kept, CInv

LEMMA StartGuestKept ==
  ASSUME NEW c \in Containers, IdOfInjective, IInv, StartGuest(c)
  PROVE  Kept(c)
<1> USE IdOfAssumption
    DEF IInv, TypeOK, ControlInv, Goto, StartGuest, ReturnOk, ReturnErr,
       AfterOk, AfterErr
<1>1. TypeOK'
  OBVIOUS
<1>2. NamesInv'
  BY DEF NamesInv
<1>3. VerbInv(c)'
  BY DEF VerbInv
<1>4. GuestInv(c)'
  BY DEF GuestInv, NoGuest, Booting
<1>5. PcInv(c)'
  BY DEF VerbInv, PcInv
<1>6. ASSUME NEW d \in Containers, d # c
      PROVE  Same(d)
  BY <1>6 DEF IdOfInjective, Same
<1> QED BY <1>1, <1>2, <1>3, <1>4, <1>5, <1>6 DEF Kept, CInv

LEMMA ShutdownCellKept ==
  ASSUME NEW c \in Containers, IdOfInjective, IInv, ShutdownCell(c)
  PROVE  Kept(c)
<1> USE IdOfAssumption
    DEF IInv, TypeOK, ControlInv, Goto, ShutdownCell, ReturnErr, AfterErr
<1>1. TypeOK'
  OBVIOUS
<1>2. NamesInv'
  BY DEF NamesInv
<1>3. VerbInv(c)'
  BY DEF VerbInv
<1>4. GuestInv(c)'
  BY DEF GuestInv, NoGuest, Booting
<1>5. PcInv(c)'
  BY DEF PcInv
<1>6. ASSUME NEW d \in Containers, d # c
      PROVE  Same(d)
  BY <1>6 DEF IdOfInjective, Same
<1> QED BY <1>1, <1>2, <1>3, <1>4, <1>5, <1>6 DEF Kept, CInv

LEMMA StopSignalKept ==
  ASSUME NEW c \in Containers, IdOfInjective, IInv, StopSignal(c)
  PROVE  Kept(c)
<1> USE IdOfAssumption
    DEF IInv, TypeOK, ControlInv, Goto, StopSignal, ReturnOk, ReturnErr,
       AfterOk, AfterErr, SigTerm
<1>1. TypeOK'
  OBVIOUS
<1>2. NamesInv'
  BY DEF NamesInv
<1>3. VerbInv(c)'
  BY DEF VerbInv
<1>4. GuestInv(c)'
  BY DEF GuestInv, NoGuest, Booting
<1>5. PcInv(c)'
  BY DEF PcInv
<1>6. ASSUME NEW d \in Containers, d # c
      PROVE  Same(d)
  BY <1>6 DEF IdOfInjective, Same, NamesInv
<1> QED BY <1>1, <1>2, <1>3, <1>4, <1>5, <1>6 DEF Kept, CInv

LEMMA FreeReadKept ==
  ASSUME NEW c \in Containers, IdOfInjective, IInv, FreeRead(c)
  PROVE  Kept(c)
<1> USE IdOfAssumption
    DEF IInv, TypeOK, ControlInv, Goto, FreeRead
<1>1. TypeOK'
  OBVIOUS
<1>2. NamesInv'
  BY DEF NamesInv
<1>3. VerbInv(c)'
  BY DEF VerbInv
<1>4. GuestInv(c)'
  BY DEF GuestInv, NoGuest, Booting
<1>5. PcInv(c)'
  BY DEF PcInv
<1>6. ASSUME NEW d \in Containers, d # c
      PROVE  Same(d)
  BY <1>6 DEF IdOfInjective, Same
<1> QED BY <1>1, <1>2, <1>3, <1>4, <1>5, <1>6 DEF Kept, CInv

LEMMA FreeTruncateKept ==
  ASSUME NEW c \in Containers, IdOfInjective, IInv, FreeTruncate(c)
  PROVE  Kept(c)
<1> USE IdOfAssumption
    DEF IInv, TypeOK, ControlInv, Goto, FreeTruncate, Truncate
<1>1. TypeOK'
  OBVIOUS
<1>2. NamesInv'
  BY DEF NamesInv
<1>3. VerbInv(c)'
  BY DEF VerbInv
<1>4. GuestInv(c)'
  BY DEF GuestInv, NoGuest, Booting
<1>5. PcInv(c)'
  BY DEF PcInv
<1>6. ASSUME NEW d \in Containers, d # c
      PROVE  Same(d)
  BY <1>6 DEF IdOfInjective, Same
<1> QED BY <1>1, <1>2, <1>3, <1>4, <1>5, <1>6 DEF Kept, CInv

LEMMA FreeWriteKept ==
  ASSUME NEW c \in Containers, IdOfInjective, IInv, FreeWrite(c)
  PROVE  Kept(c)
<1> USE IdOfAssumption
    DEF IInv, TypeOK, ControlInv, Goto, FreeWrite, Write
<1>1. TypeOK'
  OBVIOUS
<1>2. NamesInv'
  BY DEF NamesInv
<1>3. VerbInv(c)'
  BY DEF VerbInv
<1>4. GuestInv(c)'
  BY DEF GuestInv, NoGuest, Booting
<1>5. PcInv(c)'
  BY DEF PcInv
<1>6. ASSUME NEW d \in Containers, d # c
      PROVE  Same(d)
  BY <1>6 DEF IdOfInjective, Same
<1> QED BY <1>1, <1>2, <1>3, <1>4, <1>5, <1>6 DEF Kept, CInv

LEMMA DestroyCellKept ==
  ASSUME NEW c \in Containers, IdOfInjective, IInv, DestroyCell(c)
  PROVE  Kept(c)
<1> USE IdOfAssumption
    DEF IInv, TypeOK, ControlInv, Goto, DestroyCell, ReturnErr, AfterErr
<1>1. TypeOK'
  OBVIOUS
<1>2. NamesInv'
  BY DEF NamesInv
<1>3. VerbInv(c)'
  BY DEF VerbInv
<1>4. GuestInv(c)'
  BY DEF GuestInv, NoGuest, Booting
<1>5. PcInv(c)'
  BY DEF GuestInv, PcInv, NoGuest, Booting
<1>6. ASSUME NEW d \in Containers, d # c
      PROVE  Same(d)
  BY <1>6 DEF IdOfInjective, Same
<1> QED BY <1>1, <1>2, <1>3, <1>4, <1>5, <1>6 DEF Kept, CInv

LEMMA SignalCaronteKept ==
  ASSUME NEW c \in Containers, IdOfInjective, IInv, SignalCaronte(c)
  PROVE  Kept(c)
<1> USE IdOfAssumption
    DEF IInv, TypeOK, ControlInv, Goto, SignalCaronte, ReturnErr, AfterErr,
       SigTerm
<1>1. TypeOK'
  OBVIOUS
<1>2. NamesInv'
  BY DEF NamesInv
<1>3. VerbInv(c)'
  BY DEF VerbInv
<1>4. GuestInv(c)'
  BY DEF GuestInv, NoGuest, Booting
<1>5. PcInv(c)'
  <2>1. pc'[c] = "remove_dir" => caronte'[c] # "up"
    BY DEF GuestInv
  <2> QED BY <2>1 DEF PcInv, NoGuest, Booting
<1>6. ASSUME NEW d \in Containers, d # c
      PROVE  Same(d)
  BY <1>6 DEF IdOfInjective, Same, NamesInv
<1> QED BY <1>1, <1>2, <1>3, <1>4, <1>5, <1>6 DEF Kept, CInv

LEMMA RemoveRunDirKept ==
  ASSUME NEW c \in Containers, IdOfInjective, IInv, RemoveRunDir(c)
  PROVE  Kept(c)
<1> USE IdOfAssumption
    DEF IInv, TypeOK, ControlInv, Goto, RemoveRunDir, ReturnOk, AfterOk,
       RemoveDir
<1>1. TypeOK'
  OBVIOUS
<1>2. NamesInv'
  BY DEF NamesInv
<1>3. VerbInv(c)'
  BY DEF VerbInv
<1>4. GuestInv(c)'
  BY DEF GuestInv, PcInv, NoGuest, Booting
<1>5. PcInv(c)'
  BY DEF PcInv, NoGuest, Booting
<1>6. ASSUME NEW d \in Containers, d # c
      PROVE  Same(d)
  BY <1>6 DEF IdOfInjective, Same
<1> QED BY <1>1, <1>2, <1>3, <1>4, <1>5, <1>6 DEF Kept, CInv

LEMMA CleanupKept ==
  ASSUME NEW c \in Containers, IdOfInjective, IInv, Cleanup(c)
  PROVE  Kept(c)
<1> USE IdOfAssumption
    DEF IInv, TypeOK, ControlInv, Goto, Cleanup, ReturnOk, AfterOk, RemoveDir
<1>1. TypeOK'
  OBVIOUS
<1>2. NamesInv'
  BY DEF NamesInv
<1>3. VerbInv(c)'
  BY DEF VerbInv
<1>4. GuestInv(c)'
  BY DEF GuestInv, PcInv, NoGuest, Booting
<1>5. PcInv(c)'
  BY DEF GuestInv, PcInv, NoGuest, Gone, Booting
<1>6. ASSUME NEW d \in Containers, d # c
      PROVE  Same(d)
  BY <1>6 DEF IdOfInjective, Same
<1> QED BY <1>1, <1>2, <1>3, <1>4, <1>5, <1>6 DEF Kept, CInv

LEMMA BootCreateKept ==
  ASSUME NEW c \in Containers, IdOfInjective, IInv, BootCreate(c)
  PROVE  Kept(c)
<1> USE IdOfAssumption
    DEF IInv, TypeOK, ControlInv, Goto, BootCreate, BootEnds, feVars
<1>1. TypeOK'
  OBVIOUS
<1>2. NamesInv'
  BY DEF NamesInv
<1>3. VerbInv(c)'
  BY DEF VerbInv
<1>4. GuestInv(c)'
  BY DEF GuestInv, NoGuest, Booting
<1>5. PcInv(c)'
  BY DEF PcInv, NoGuest, Gone, Booting
<1>6. ASSUME NEW d \in Containers, d # c
      PROVE  Same(d)
  <2>1. IdOf[d] # IdOf[c]
    BY <1>6 DEF IdOfInjective
  <2> QED BY <1>6, <2>1 DEF Same
<1> QED BY <1>1, <1>2, <1>3, <1>4, <1>5, <1>6 DEF Kept, CInv

LEMMA BootStartKept ==
  ASSUME NEW c \in Containers, IdOfInjective, IInv, BootStart(c)
  PROVE  Kept(c)
<1> USE IdOfAssumption
    DEF IInv, TypeOK, ControlInv, Goto, BootStart, BootEnds, feVars
<1>1. TypeOK'
  OBVIOUS
<1>2. NamesInv'
  BY DEF NamesInv
<1>3. VerbInv(c)'
  BY DEF VerbInv
<1>4. GuestInv(c)'
  BY DEF GuestInv, NoGuest, Booting
<1>5. PcInv(c)'
  BY DEF PcInv, NoGuest, Gone, Booting
<1>6. ASSUME NEW d \in Containers, d # c
      PROVE  Same(d)
  <2>1. cell'[IdOf[d]] = cell[IdOf[d]]
    BY <1>6 DEF IdOfInjective
  <2>2. caronte'[d] = caronte[d] /\ boot'[d] = boot[d]
    BY <1>6
  <2> QED BY <2>1, <2>2 DEF Same
<1> QED BY <1>1, <1>2, <1>3, <1>4, <1>5, <1>6 DEF Kept, CInv

LEMMA CrashKept ==
  ASSUME NEW c \in Containers, IdOfInjective, IInv, Crash(c)
  PROVE  Kept(c)
<1> USE IdOfAssumption
    DEF IInv, TypeOK, ControlInv, Goto, Crash, CrashFrontend
<1>1. TypeOK'
  OBVIOUS
<1>2. NamesInv'
  BY DEF NamesInv
<1>3. VerbInv(c)'
  BY DEF VerbInv
<1>4. GuestInv(c)'
  BY DEF GuestInv, NoGuest, Booting
<1>5. PcInv(c)'
  BY DEF PcInv
<1>6. ASSUME NEW d \in Containers, d # c
      PROVE  Same(d)
  BY <1>6 DEF IdOfInjective, Same
<1> QED BY <1>1, <1>2, <1>3, <1>4, <1>5, <1>6 DEF Kept, CInv

\* All containers at once.
LEMMA RebootInv ==
  ASSUME IInv, Reboot
  PROVE  IInv'
<1> USE IdOfAssumption DEF IInv, TypeOK, ControlInv, Reboot, RebootFrontend
<1>1. TypeOK'
  OBVIOUS
<1>2. NamesInv'
  BY DEF NamesInv
<1>3. ASSUME NEW c \in Containers PROVE CInv(c)'
  BY <1>3 DEF CInv, VerbInv, GuestInv, PcInv, NoGuest, Gone, Booting
<1> QED BY <1>1, <1>2, <1>3 DEF CInv

-----------------------------------------------------------------------------
(* IInv is an inductive invariant.                                         *)

LEMMA InitInv == Init => IInv
<1> SUFFICES ASSUME Init PROVE IInv
  OBVIOUS
<1> USE IdOfAssumption DEF Init, FrontInit
<1>1. TypeOK
  BY DEF TypeOK
<1>2. NamesInv
  BY DEF NamesInv
<1>3. ASSUME NEW c \in Containers
      PROVE  VerbInv(c) /\ GuestInv(c) /\ PcInv(c)
  BY <1>3 DEF VerbInv, GuestInv, PcInv, Booting, NoGuest, Gone
<1> QED BY <1>1, <1>2, <1>3 DEF IInv, ControlInv

\* A step of the process of c, of its caronte or of its engine.
LEMMA ContainerStep ==
  ASSUME NEW c \in Containers, IdOfInjective, IInv,
         \/ (Engine(c) \/ FrontStep(c)) /\ UNCHANGED backVars
         \/ CreateStep(c) \/ TeardownStep(c) \/ BootLinux(c) \/ Crash(c)
  PROVE  Kept(c)
<1>1. CASE Engine(c) /\ UNCHANGED backVars
  BY <1>1, InvokeKept DEF Engine
<1>2. CASE FrontStep(c) /\ UNCHANGED backVars
  BY <1>2, ExitKept, DecideCreateKept, DecideExistingKept, RemoveStaleDirKept,
     MakeDirKept, StateKept DEF FrontStep
<1>3. CASE CreateStep(c)
  BY <1>3, RetrieveStateKept, SaveReadKept, SaveTruncateKept, SaveWriteKept,
     CompileKept, CreateCellKept, LoadCellKept, SpawnCaronteKept,
     StoreBundleKept, StorePidfileKept, StoreOsKept, StartGuestKept DEF
     CreateStep
<1>4. CASE TeardownStep(c)
  BY <1>4, ShutdownCellKept, StopSignalKept, FreeReadKept, FreeTruncateKept,
     FreeWriteKept, DestroyCellKept, SignalCaronteKept, RemoveRunDirKept,
     CleanupKept DEF TeardownStep
<1>5. CASE BootLinux(c)
  BY <1>5, BootCreateKept, BootStartKept DEF BootLinux
<1>6. CASE Crash(c)
  BY <1>6, CrashKept
<1> QED BY <1>1, <1>2, <1>3, <1>4, <1>5, <1>6

LEMMA NextInv == IdOfInjective /\ IInv /\ [Next]_vars => IInv'
<1> SUFFICES ASSUME IdOfInjective, IInv, [Next]_vars PROVE IInv'
  OBVIOUS
<1>1. CASE UNCHANGED vars
  BY <1>1 DEF vars, feVars, backVars, IInv, TypeOK, ControlInv, NamesInv,
     VerbInv, GuestInv, PcInv, NoGuest, Gone, Booting
<1>2. ASSUME NEW c \in Containers,
             \/ (Engine(c) \/ FrontStep(c)) /\ UNCHANGED backVars
             \/ CreateStep(c) \/ TeardownStep(c) \/ BootLinux(c) \/ Crash(c)
      PROVE  IInv'
  BY <1>2, ContainerStep, KeptStep
<1>3. CASE Reboot
  BY <1>3, RebootInv
<1> QED BY <1>1, <1>2, <1>3 DEF Next

\* The strengthening of the invariants below is itself an invariant.
THEOREM Invariant == ASSUME IdOfInjective PROVE Spec => []IInv
<1>1. Init => IInv
  BY InitInv
<1>2. IInv /\ [Next]_vars => IInv'
  BY NextInv
<1> QED BY <1>1, <1>2, PTL DEF Spec

-----------------------------------------------------------------------------
(* The theorems.                                                           *)

\* At every point of a command it is known who has a guest, a caronte and a
\* state directory, and which verb is running: the labels of AfterOk, AfterErr
\* and forwarding.rs are reached in no other situation.
THEOREM ControlInvariant == ASSUME IdOfInjective PROVE Spec => []ControlInv
<1>1. IInv => ControlInv
  BY DEF IInv
<1> QED BY <1>1, Invariant, PTL

\* The variables that control the commands keep their types, whatever the
\* environment does to the processes of main.rs and the Jailhouse backend.
THEOREM TypeCorrect == ASSUME IdOfInjective PROVE Spec => []TypeOK
<1>1. IInv => TypeOK
  BY DEF IInv
<1> QED BY <1>1, Invariant, PTL

\* In every reachable state a cell has its state directory: no failure, crash
\* or interleaving of destroyguest, create and caronte leaves a cell that no
\* later OCI command would find.
THEOREM CellsHaveDirs == ASSUME IdOfInjective PROVE Spec => []NoOrphanCell
<1>1. IInv => NoOrphanCell
  BY DEF IInv, ControlInv, NoOrphanCell, Live, NamesInv, GuestInv, NoGuest
<1> QED BY <1>1, Invariant, PTL

\* forwarding.rs never takes a container that runc created for runPHI's own.
THEOREM RuncSeparate == ASSUME IdOfInjective PROVE Spec => []RuncKeepsItsContainers
<1>1. IInv => RuncKeepsItsContainers
  BY DEF IInv, TypeOK, ControlInv, RuncKeepsItsContainers, GuestInv
<1> QED BY <1>1, Invariant, PTL

\* The removal of a leftover directory in main.rs never finds one.
THEOREM StaleDirNever == ASSUME IdOfInjective PROVE Spec => []StaleDirNeverFound
<1>1. IInv => StaleDirNeverFound
  BY DEF IInv, ControlInv, StaleDirNeverFound, PcInv, Gone
<1> QED BY <1>1, Invariant, PTL

\* When a delete reports success nothing of the container is left, be it
\* runPHI or runc that carried it out.
THEOREM DeleteIsClean == ASSUME IdOfInjective PROVE Spec => []CleanDelete
<1>1. IInv => CleanDelete
  BY DEF IInv, ControlInv, CleanDelete, PcInv, Gone, NoGuest, Booting
<1> QED BY <1>1, Invariant, PTL

-----------------------------------------------------------------------------
(* Jailhouse implements ManagedGuest: the engine's record of a container,  *)
(* its state directory and its cell come and go in the order that the      *)
(* abstract specification allows.  Every step of Jailhouse is a step of    *)
(* ManagedGuest for one container, its Reset, or leaves its state alone.   *)

\* The moves of ManagedGuest under the mapping of Guests.
Abs == INSTANCE GuestMoves WITH
  known <- {c \in Containers : status[c] # "none" \/ pc[c] # "idle"},
  dir   <- {c \in Containers : IdOf[c] \in crundir},
  guest <- {c \in Containers : cell[IdOf[c]] # "none"}

\* The abstract state of one container.
Known(c)    == status[c] # "none" \/ pc[c] # "idle"
HasDir(c)   == IdOf[c] \in crundir
HasGuest(c) == cell[IdOf[c]] # "none"

-----------------------------------------------------------------------------
(* A move of one container is a step of the abstract specification.        *)

LEMMA MoveMaps ==
  ASSUME NEW c \in Containers, Kept(c), Abs!Moves(c)
  PROVE  [Guests!Next]_(Guests!vars)
<1>1. Abs!Within(Containers) /\ Abs!Within(Containers)'
  BY DEF Abs!Within
<1>2. \A d \in Containers \ {c} : Abs!Stays(d)
  BY DEF Kept, Same, Abs!Stays
<1>3. [Abs!Next]_(Abs!vars)
  BY <1>1, <1>2, Abs!OneMoves
<1> QED BY <1>3
        DEF Abs!Next, Abs!vars, Abs!Accept, Abs!Claim, Abs!Boot, Abs!Halt, Abs!Release,
            Abs!Forget, Abs!Reset, Guests!Next, Guests!vars, Guests!Accept, Guests!Claim,
            Guests!Boot, Guests!Halt, Guests!Release, Guests!Forget, Guests!Reset

-----------------------------------------------------------------------------
(* The moves of each group of actions.                                     *)

LEMMA FrontMoves ==
  ASSUME NEW c \in Containers, IInv, Engine(c) \/ FrontStep(c), UNCHANGED backVars
  PROVE  Abs!Moves(c)
<1> USE IdOfAssumption
    DEF IInv, TypeOK, ControlInv, Goto, Known, HasDir, HasGuest, Abs!Moves
<1>1. CASE Engine(c)
  BY <1>1 DEF Engine, Invoke, Allowed, backVars, Abs!Stays, Abs!Accepted
<1>2. CASE Exit(c)
  <2>1. Known(c) /\ pc'[c] = "idle"
    BY <1>2 DEF Exit
  <2>2. (HasDir(c)' <=> HasDir(c)) /\ (HasGuest(c)' <=> HasGuest(c))
    BY <1>2 DEF Exit, backVars
  <2>3. CASE status'[c] = "none"
    <3>1. pc[c] = "ok" /\ verb[c] = "delete"
      BY <1>2, <2>3 DEF Exit, VerbInv
    <3> QED BY <2>1, <2>2, <2>3, <3>1 DEF PcInv, Gone, NoGuest, Abs!Forgotten
  <2>4. CASE status'[c] # "none"
    BY <2>1, <2>2, <2>4 DEF Abs!Stays
  <2> QED BY <2>3, <2>4
<1>3. CASE DecideCreate(c)
  BY <1>3 DEF DecideCreate, backVars, Abs!Stays
<1>4. CASE DecideExisting(c)
  BY <1>4 DEF DecideExisting, RuncExisting, FirstCall, backVars, VerbInv, Abs!Stays
<1>5. CASE RemoveStaleDir(c)
  <2>1. ~HasDir(c) /\ ~HasDir(c)'
    BY <1>5 DEF RemoveStaleDir, PcInv, Gone
  <2>2. Known(c) /\ Known(c)'
    BY <1>5 DEF RemoveStaleDir
  <2>3. HasGuest(c)' <=> HasGuest(c)
    BY <1>5 DEF backVars
  <2> QED BY <2>1, <2>2, <2>3 DEF Abs!Stays
<1>6. CASE MakeDir(c)
  BY <1>6 DEF MakeDir, backVars, Abs!Stays, Abs!Claimed
<1>7. CASE State(c)
  BY <1>7 DEF State, backVars, Abs!Stays
<1> QED BY <1>1, <1>2, <1>3, <1>4, <1>5, <1>6, <1>7 DEF FrontStep

LEMMA CreateMoves ==
  ASSUME NEW c \in Containers, IInv, CreateStep(c)
  PROVE  Abs!Moves(c)
<1> USE IdOfAssumption
    DEF IInv, TypeOK, ControlInv, Goto, Known, HasDir, HasGuest, Abs!Moves
<1>1. CASE RetrieveState(c)
  BY <1>1 DEF RetrieveState, ReturnOk, ReturnErr, AfterOk, AfterErr, Abs!Stays
<1>2. CASE SaveRead(c)
  BY <1>2 DEF SaveRead, ReturnErr, AfterErr, Abs!Stays
<1>3. CASE SaveTruncate(c)
  BY <1>3 DEF SaveTruncate, Truncate, Abs!Stays
<1>4. CASE SaveWrite(c)
  BY <1>4 DEF SaveWrite, Write, Abs!Stays
<1>5. CASE Compile(c)
  BY <1>5 DEF Compile, ReturnOk, AfterOk, Abs!Stays
<1>6. CASE CreateCell(c)
  <2>1. HasDir(c) /\ HasDir(c)'
    BY <1>6 DEF CreateCell, ReturnErr, AfterErr, PcInv
  <2>2. Known(c) /\ Known(c)'
    BY <1>6 DEF CreateCell, ReturnErr, AfterErr
  <2>3. HasGuest(c) => HasGuest(c)'
    BY <1>6 DEF CreateCell, ReturnErr, AfterErr
  <2> QED BY <2>1, <2>2, <2>3 DEF Abs!Stays, Abs!Booted
<1>7. CASE LoadCell(c)
  BY <1>7 DEF LoadCell, ReturnErr, AfterErr, Abs!Stays
<1>8. CASE SpawnCaronte(c)
  BY <1>8 DEF SpawnCaronte, ReturnOk, ReturnErr, AfterOk, AfterErr, Abs!Stays
<1>9. CASE StoreBundle(c)
  BY <1>9 DEF StoreBundle, ReturnErr, AfterErr, Store, Abs!Stays
<1>10. CASE StorePidfile(c)
  BY <1>10 DEF StorePidfile, ReturnErr, AfterErr, Store, Abs!Stays
<1>11. CASE StoreOs(c)
  BY <1>11 DEF StoreOs, ReturnOk, ReturnErr, AfterOk, AfterErr, Store, Abs!Stays
<1>12. CASE StartGuest(c)
  BY <1>12 DEF StartGuest, ReturnOk, ReturnErr, AfterOk, AfterErr, Abs!Stays
<1> QED BY <1>1, <1>2, <1>3, <1>4, <1>5, <1>6, <1>7, <1>8, <1>9, <1>10, <1>11,
     <1>12 DEF CreateStep

LEMMA TeardownMoves ==
  ASSUME NEW c \in Containers, IInv, TeardownStep(c)
  PROVE  Abs!Moves(c)
<1> USE IdOfAssumption
    DEF IInv, TypeOK, ControlInv, Goto, Known, HasDir, HasGuest, Abs!Moves
<1>1. CASE ShutdownCell(c)
  BY <1>1 DEF ShutdownCell, ReturnErr, AfterErr, Abs!Stays
<1>2. CASE StopSignal(c)
  BY <1>2 DEF StopSignal, ReturnOk, ReturnErr, AfterOk, AfterErr, Abs!Stays
<1>3. CASE FreeRead(c)
  BY <1>3 DEF FreeRead, Abs!Stays
<1>4. CASE FreeTruncate(c)
  BY <1>4 DEF FreeTruncate, Truncate, Abs!Stays
<1>5. CASE FreeWrite(c)
  BY <1>5 DEF FreeWrite, Write, Abs!Stays
<1>6. CASE DestroyCell(c)
  BY <1>6 DEF DestroyCell, ReturnErr, AfterErr, Abs!Stays, Abs!Halted
<1>7. CASE SignalCaronte(c)
  BY <1>7 DEF SignalCaronte, ReturnErr, AfterErr, Abs!Stays
<1>8. CASE RemoveRunDir(c)
  <2>1. ~HasGuest(c) /\ ~HasGuest(c)'
    BY <1>8 DEF RemoveRunDir, RemoveDir, PcInv, NoGuest
  <2>2. ~HasDir(c)'
    BY <1>8 DEF RemoveRunDir, RemoveDir
  <2>3. Known(c) /\ Known(c)'
    BY <1>8 DEF RemoveRunDir, RemoveDir, ReturnOk, AfterOk
  <2> QED BY <2>1, <2>2, <2>3 DEF Abs!Stays, Abs!Released
<1>9. CASE Cleanup(c)
  <2>1. ~HasGuest(c) /\ ~HasGuest(c)'
    BY <1>9 DEF Cleanup, RemoveDir, PcInv, NoGuest
  <2>2. ~HasDir(c)'
    BY <1>9 DEF Cleanup, RemoveDir
  <2>3. Known(c) /\ Known(c)'
    BY <1>9 DEF Cleanup, RemoveDir, ReturnOk, AfterOk
  <2> QED BY <2>1, <2>2, <2>3 DEF Abs!Stays, Abs!Released
<1> QED BY <1>1, <1>2, <1>3, <1>4, <1>5, <1>6, <1>7, <1>8, <1>9 DEF TeardownStep

LEMMA OtherMoves ==
  ASSUME NEW c \in Containers, IInv, BootLinux(c) \/ Crash(c)
  PROVE  Abs!Moves(c)
<1> USE IdOfAssumption
    DEF IInv, TypeOK, ControlInv, Goto, Known, HasDir, HasGuest, Abs!Moves
<1>1. CASE BootCreate(c)
  BY <1>1 DEF BootCreate, BootEnds, feVars, GuestInv, NoGuest, Booting, Abs!Stays,
     Abs!Booted
<1>2. CASE BootStart(c)
  BY <1>2 DEF BootStart, BootEnds, feVars, Abs!Stays
<1>3. CASE Crash(c)
  BY <1>3 DEF Crash, CrashFrontend, Abs!Stays
<1> QED BY <1>1, <1>2, <1>3 DEF BootLinux

LEMMA RebootResets ==
  ASSUME IInv, Reboot
  PROVE  [Guests!Next]_(Guests!vars)
  BY IdOfAssumption DEF Reboot, RebootFrontend, Guests!Next, Guests!Reset

-----------------------------------------------------------------------------

LEMMA InitMaps == Init => Guests!Init
  BY IdOfAssumption DEF Init, FrontInit, Guests!Init

LEMMA StepMaps ==
  ASSUME IdOfInjective, IInv, [Next]_vars
  PROVE  [Guests!Next]_(Guests!vars)
<1>1. CASE UNCHANGED vars
  BY <1>1 DEF vars, feVars, backVars, Guests!vars
<1>2. ASSUME NEW c \in Containers,
             \/ (Engine(c) \/ FrontStep(c)) /\ UNCHANGED backVars
             \/ CreateStep(c) \/ TeardownStep(c) \/ BootLinux(c) \/ Crash(c)
      PROVE  [Guests!Next]_(Guests!vars)
  <2>1. Kept(c)
    BY <1>2, ContainerStep
  <2>2. Abs!Moves(c)
    BY <1>2, FrontMoves, CreateMoves, TeardownMoves, OtherMoves
  <2> QED BY <2>1, <2>2, MoveMaps
<1>3. CASE Reboot
  BY <1>3, RebootResets
<1> QED BY <1>1, <1>2, <1>3 DEF Next

\* runPHI with the Jailhouse backend implements ManagedGuest for any number of
\* containers: guest inside state directory inside the life of the container.
THEOREM Implements == ASSUME IdOfInjective PROVE Spec => GuestLifecycle
<1>1. Init => Guests!Init
  BY InitMaps
<1>2. IInv /\ [Next]_vars => [Guests!Next]_(Guests!vars)
  BY StepMaps
<1>3. Spec => []IInv
  BY Invariant
<1> QED BY <1>1, <1>2, <1>3, PTL DEF Spec, GuestLifecycle, Guests!Spec
=============================================================================
